------------------------- MODULE BTreeInsertProofs -------------------------
(***************************************************************************)
(* What the rounds of btreedb do to its tree: for any number of keys in a  *)
(* node from 6 on, a B-tree of any height stays one when a node is cut in  *)
(* two or in three, when two become one, when an item goes to a sibling by *)
(* way of the parent, and when one comes into a leaf or leaves it; and     *)
(* each round of insert does one of these, ends or goes on at a kid.       *)
(*                                                                         *)
(* Nothing of this is by induction over the tree.  Its places say of every *)
(* page how high it is and which keys it lies between (Shape), so that a   *)
(* round has to be followed only through the two or three nodes it changes *)
(* and their parent: whatever else lies apart from them, or within them as *)
(* before.                                                                 *)
(***************************************************************************)
EXTENDS BTreeCalls, FiniteSetTheorems, SequenceTheorems, TLAPS

-----------------------------------------------------------------------------
(* A node, and the nodes of a tree.                                        *)

LEMMA KeyIsInt ==
  ASSUME NEW it \in Item
  PROVE  /\ it[1] \in Int /\ it[1] >= 1 /\ it[1] <= KeyCount /\ KeyCount \in Int
         /\ it = <<it[1], it[2]>> /\ it[2] \in Values /\ it[1] \in Keys
  BY BTreeCallsAssumption, SMT DEF Item, Keys

LEMMA NodeIs ==
  ASSUME NEW nodes, NEW p, nodes[p] \in Nodes
  PROVE  /\ Count(nodes, p) \in Nat /\ KidCount(nodes, p) \in Nat
         /\ \A i \in 1 .. Count(nodes, p) : ItemAt(nodes, p, i) \in Item
         /\ \A i \in 1 .. KidCount(nodes, p) : KidAt(nodes, p, i) \in Nat
  BY SMT DEF Nodes, Count, KidCount, ItemAt, KidAt

LEMMA NodeKeys ==
  ASSUME NEW nodes, NEW p, nodes[p] \in Nodes
  PROVE  \A i \in 1 .. Count(nodes, p) : KeyAt(nodes, p, i) \in Int
  BY NodeIs, KeyIsInt DEF KeyAt

LEMMA NodeFacts ==
  ASSUME NEW nodes, NEW w, NodesOK(nodes, w), NEW p \in w.pages
  PROVE  /\ p \in DOMAIN nodes /\ nodes[p] \in Nodes
         /\ Count(nodes, p) \in Nat /\ KidCount(nodes, p) \in Nat
         /\ \A i \in 1 .. Count(nodes, p) : KeyAt(nodes, p, i) \in Int
  BY NodeIs, NodeKeys, Zenon DEF NodesOK

LEMMA PlacesAre ==
  ASSUME NEW w, PlacesOK(w), NEW p \in w.pages
  PROVE  p \in Nat /\ w.height[p] \in Nat /\ w.lo[p] \in Int /\ w.hi[p] \in Int
  BY SMT DEF PlacesOK

(* Two intervals that both have the interval lc, hc within them overlap.   *)
LEMMA Overlap ==
  ASSUME NEW lp \in Int, NEW hp \in Int, NEW lq \in Int, NEW hq \in Int, NEW lc \in Int, NEW hc \in Int,
         lc < hc, lp <= lc, hc <= hp, lq <= lc, hc <= hq
  PROVE  ~(hp <= lq) /\ ~(hq <= lp)
  BY SMT

(* A page is the kid of one node only, at one place, and never the root.   *)
LEMMA OneParent ==
  ASSUME NEW nodes, NEW root, NEW w, Shape(nodes, root, w),
         NEW p \in w.pages, NEW i \in 1 .. KidCount(nodes, p),
         NEW q \in w.pages, NEW j \in 1 .. KidCount(nodes, q),
         KidAt(nodes, p, i) = KidAt(nodes, q, j)
  PROVE  p = q /\ i = j
<1> DEFINE c == KidAt(nodes, p, i)
<1>1. /\ c \in w.pages
      /\ w.height[p] = w.height[c] + 1
      /\ w.lo[c] = IF i = 1 THEN w.lo[p] ELSE KeyAt(nodes, p, i - 1)
      /\ w.hi[c] = IF i = KidCount(nodes, p) THEN w.hi[p] ELSE KeyAt(nodes, p, i)
  BY Zenon DEF Shape, Hanging
<1>2. /\ w.height[q] = w.height[c] + 1
      /\ w.lo[c] = IF j = 1 THEN w.lo[q] ELSE KeyAt(nodes, q, j - 1)
      /\ w.hi[c] = IF j = KidCount(nodes, q) THEN w.hi[q] ELSE KeyAt(nodes, q, j)
  BY SMT DEF Shape, Hanging
<1>3. /\ w.height[c] \in Nat /\ w.lo[c] \in Int /\ w.hi[c] \in Int
      /\ w.lo[p] \in Int /\ w.hi[p] \in Int /\ w.lo[q] \in Int /\ w.hi[q] \in Int
  BY <1>1, PlacesAre DEF Shape
<1>4. w.lo[c] < w.hi[c]
  BY <1>1, Zenon DEF Shape, Ordered
<1>5. /\ KidCount(nodes, p) \in Nat /\ Count(nodes, p) \in Nat
      /\ KidCount(nodes, q) \in Nat /\ Count(nodes, q) \in Nat
  BY NodeFacts DEF Shape
<1>6. /\ KidCount(nodes, p) = Count(nodes, p) + 1
      /\ KidCount(nodes, q) = Count(nodes, q) + 1
  <2>1. KidCount(nodes, p) /= 0 /\ KidCount(nodes, q) /= 0
    BY <1>5, SMT
  <2> QED BY <2>1, Zenon DEF Shape, Branching
<1> DEFINE Lo(s, n) == IF n = 1 THEN w.lo[s] ELSE KeyAt(nodes, s, n - 1)
           Hi(s, n) == IF n = KidCount(nodes, s) THEN w.hi[s] ELSE KeyAt(nodes, s, n)
<1>7. ASSUME NEW s \in w.pages, NEW n \in 1 .. KidCount(nodes, s), KidCount(nodes, s) = Count(nodes, s) + 1
      PROVE  w.lo[s] <= Lo(s, n) /\ Hi(s, n) <= w.hi[s] /\ Lo(s, n) \in Int /\ Hi(s, n) \in Int
  <2>1. /\ \A m \in 1 .. Count(nodes, s) : w.lo[s] < KeyAt(nodes, s, m) /\ KeyAt(nodes, s, m) < w.hi[s]
        /\ \A m \in 1 .. Count(nodes, s) : KeyAt(nodes, s, m) \in Int
        /\ w.lo[s] \in Int /\ w.hi[s] \in Int /\ Count(nodes, s) \in Nat
    BY NodeFacts, PlacesAre, Zenon DEF Shape, Ordered
  <2> HIDE DEF Lo, Hi
  <2>2. CASE n = 1 BY <2>1, <2>2, <1>7, SMT DEF Lo, Hi
  <2>3. CASE n /= 1 BY <2>1, <2>3, <1>7, SMT DEF Lo, Hi
  <2> QED BY <2>2, <2>3
<1>8. p = q
  <2>1. w.lo[p] <= w.lo[c] /\ w.hi[c] <= w.hi[p]
    BY <1>1, <1>6, <1>7, Zenon
  <2>2. w.lo[q] <= w.lo[c] /\ w.hi[c] <= w.hi[q]
    BY <1>2, <1>6, <1>7, Zenon
  <2>3. p /= q => w.hi[p] <= w.lo[q] \/ w.hi[q] <= w.lo[p]
    <3>1. w.height[q] <= w.height[p] /\ ~(w.height[q] < w.height[p])
      BY <1>1, <1>2, <1>3, SMT
    <3> QED BY <3>1, Zenon DEF Shape, Apart
  <2> QED BY <2>1, <2>2, <2>3, <1>3, <1>4, Overlap, Zenon
<1>9. ASSUME NEW a \in 1 .. KidCount(nodes, p), NEW b \in 1 .. KidCount(nodes, p), a < b
      PROVE  Hi(p, a) <= Lo(p, b)
  <2>1. \A m, n \in 1 .. Count(nodes, p) : m < n => KeyAt(nodes, p, m) < KeyAt(nodes, p, n)
    BY Zenon DEF Shape, Ordered
  <2>2. \A m \in 1 .. Count(nodes, p) : KeyAt(nodes, p, m) \in Int
    BY NodeFacts DEF Shape
  <2>3. Hi(p, a) = KeyAt(nodes, p, a) /\ Lo(p, b) = KeyAt(nodes, p, b - 1)
    BY <1>9, <1>5, <1>6, SMT
  <2>4. a \in 1 .. Count(nodes, p) /\ b - 1 \in 1 .. Count(nodes, p) /\ (a < b - 1 \/ a = b - 1)
    BY <1>9, <1>5, <1>6, SMT
  <2>5. CASE a < b - 1
    BY <2>1, <2>2, <2>3, <2>4, <2>5, SMT
  <2>6. CASE a = b - 1
    BY <2>2, <2>3, <2>4, <2>6, SMT
  <2> QED BY <2>4, <2>5, <2>6
<1>10. Hi(p, i) = w.hi[c] /\ Lo(p, i) = w.lo[c] /\ Hi(p, j) = w.hi[c] /\ Lo(p, j) = w.lo[c]
  BY <1>1, <1>2, <1>8, Zenon
<1>11. ~(i < j) /\ ~(j < i)
  <2>1. ASSUME i < j PROVE FALSE
    BY <2>1, <1>8, <1>9, <1>10, <1>3, <1>4, SMT
  <2>2. ASSUME j < i PROVE FALSE
    BY <2>2, <1>8, <1>9, <1>10, <1>3, <1>4, SMT
  <2> QED BY <2>1, <2>2
<1> QED BY <1>8, <1>11, <1>5, SMT

(* A node and its kid c, at i.                                             *)
KidBelow(nodes, root, w, p, i, c) ==
  /\ c \in w.pages /\ c = KidAt(nodes, p, i)
  /\ w.height[p] = w.height[c] + 1
  /\ c /= root /\ c /= p
  /\ w.height[p] /= 0 /\ nodes[p].leaf = FALSE
  /\ KidCount(nodes, p) = Count(nodes, p) + 1

LEMMA KidIsBelow ==
  ASSUME NEW nodes, NEW root, NEW w, Shape(nodes, root, w),
         NEW p \in w.pages, NEW i \in 1 .. KidCount(nodes, p)
  PROVE  KidBelow(nodes, root, w, p, i, KidAt(nodes, p, i))
<1> DEFINE c == KidAt(nodes, p, i)
<1>1. c \in w.pages /\ w.height[p] = w.height[c] + 1
  BY Zenon DEF Shape, Hanging
<1>2. w.height[p] \in Nat /\ w.height[c] \in Nat /\ w.height[p] <= w.height[root] /\ w.height[root] \in Nat
  BY <1>1, PlacesAre DEF Shape, Topped
<1>3. c /= root /\ c /= p /\ w.height[p] /= 0
  BY <1>1, <1>2, SMT
<1>4. nodes[p].leaf = FALSE
  <2>1. nodes[p].leaf = (w.height[p] = 0)
    BY Zenon DEF Shape, Branching
  <2> QED BY <2>1, <1>3
<1>5. KidCount(nodes, p) = Count(nodes, p) + 1
  BY <1>3, Zenon DEF Shape, Branching
<1> QED BY <1>1, <1>3, <1>4, <1>5 DEF KidBelow

-----------------------------------------------------------------------------
(* One node becomes two, or two one.                                       *)

(* In N the node c, kid i of p in J, is cut in two, c and d, around an     *)
(* item that is item i of p; w are the places of J.                        *)
CutNodes(J, N, w, p, c, d) ==
  /\ p \in w.pages /\ c \in w.pages /\ p /= c /\ d \in Nat /\ d \notin w.pages
  /\ J[p] \in Nodes /\ J[c] \in Nodes /\ p \in DOMAIN J /\ c \in DOMAIN J
  /\ N[p] \in Nodes /\ N[c] \in Nodes /\ N[d] \in Nodes
  /\ p \in DOMAIN N /\ c \in DOMAIN N /\ d \in DOMAIN N
  /\ J[p].leaf = FALSE /\ N[p].leaf = FALSE /\ N[c].leaf = J[c].leaf /\ N[d].leaf = J[c].leaf
  /\ \A q \in w.pages \ {p, c} : q \in DOMAIN N /\ q \in DOMAIN J /\ N[q] = J[q]

CutItems(J, N, p, i, c, d, m) ==
  /\ i \in 1 .. Count(N, p) /\ m = Count(N, c) + 1
  /\ Count(N, p) = Count(J, p) + 1
  /\ Count(J, c) = Count(N, c) + Count(N, d) + 1
  /\ \A j \in 1 .. Count(J, p) : ItemAt(J, p, j) = ItemAt(N, p, IF j < i THEN j ELSE j + 1)
  /\ \A j \in 1 .. Count(N, c) : ItemAt(N, c, j) = ItemAt(J, c, j)
  /\ ItemAt(N, p, i) = ItemAt(J, c, m)
  /\ \A j \in 1 .. Count(N, d) : ItemAt(N, d, j) = ItemAt(J, c, m + j)

CutKids(J, N, w, p, i, c, d) ==
  /\ i \in 1 .. KidCount(J, p)
  /\ KidCount(N, p) = KidCount(J, p) + 1
  /\ KidCount(J, c) = KidCount(N, c) + KidCount(N, d)
  /\ KidCount(N, c) = IF w.height[c] = 0 THEN 0 ELSE Count(N, c) + 1
  /\ KidCount(N, d) = IF w.height[c] = 0 THEN 0 ELSE Count(N, d) + 1
  /\ KidAt(J, p, i) = c /\ KidAt(N, p, i) = c /\ KidAt(N, p, i + 1) = d
  /\ \A j \in 1 .. KidCount(J, p) : KidAt(J, p, j) = KidAt(N, p, IF j <= i THEN j ELSE j + 1)
  /\ \A j \in 1 .. KidCount(N, c) : KidAt(N, c, j) = KidAt(J, c, j)
  /\ \A j \in 1 .. KidCount(N, d) : KidAt(N, d, j) = KidAt(J, c, KidCount(N, c) + j)

CutOf(J, N, w, p, i, c, d) ==
  /\ CutNodes(J, N, w, p, c, d) /\ CutItems(J, N, p, i, c, d, Count(N, c) + 1)
  /\ CutKids(J, N, w, p, i, c, d)

CutPlaces(w, k, c, d) ==
  LET ps == w.pages \cup {d}
  IN [pages |-> ps,
      height |-> [q \in ps |-> IF q = d THEN w.height[c] ELSE w.height[q]],
      lo |-> [q \in ps |-> IF q = d THEN k ELSE w.lo[q]],
      hi |-> [q \in ps |-> IF q = d THEN w.hi[c] ELSE IF q = c THEN k ELSE w.hi[q]]]

JoinPlaces(w, c, d) ==
  LET ps == w.pages \ {d}
  IN [pages |-> ps,
      height |-> [q \in ps |-> w.height[q]],
      lo |-> [q \in ps |-> w.lo[q]],
      hi |-> [q \in ps |-> IF q = c THEN w.hi[d] ELSE w.hi[q]]]

(* What CutOf says of the keys of p, c and d, where k is the item between. *)
CutCounts(J, N, p, i, c, d, m) ==
  /\ Count(J, p) \in Nat /\ Count(N, c) \in Nat /\ Count(N, d) \in Nat /\ Count(J, c) \in Nat
  /\ Count(N, p) = Count(J, p) + 1
  /\ Count(J, c) = Count(N, c) + Count(N, d) + 1
  /\ m = Count(N, c) + 1 /\ m \in Nat /\ m \in 1 .. Count(J, c)
  /\ i \in Nat /\ 1 <= i /\ i <= Count(N, p)

CutKeys(J, N, p, i, c, d, k, m) ==
  /\ k = KeyAt(N, p, i) /\ k = KeyAt(J, c, m) /\ k \in Int
  /\ \A j \in 1 .. Count(J, p) : KeyAt(J, p, j) = KeyAt(N, p, IF j < i THEN j ELSE j + 1)
  /\ \A j \in 1 .. Count(N, c) : j \in 1 .. Count(J, c) /\ j < m /\ KeyAt(N, c, j) = KeyAt(J, c, j)
  /\ \A j \in 1 .. Count(N, d) : m + j \in 1 .. Count(J, c) /\ m < m + j /\ KeyAt(N, d, j) = KeyAt(J, c, m + j)

CutInts(J, N, p, c, d) ==
  /\ \A j \in 1 .. Count(J, p) : KeyAt(J, p, j) \in Int
  /\ \A j \in 1 .. Count(J, c) : KeyAt(J, c, j) \in Int
  /\ \A j \in 1 .. Count(N, p) : KeyAt(N, p, j) \in Int
  /\ \A j \in 1 .. Count(N, c) : KeyAt(N, c, j) \in Int
  /\ \A j \in 1 .. Count(N, d) : KeyAt(N, d, j) \in Int

(* The keys of p in N are those of p in J and, at i, k.                    *)
CutKeyOf(J, N, p, i, k) ==
  \A j \in 1 .. Count(N, p) :
    /\ j < i => j \in 1 .. Count(J, p) /\ KeyAt(N, p, j) = KeyAt(J, p, j)
    /\ j = i => KeyAt(N, p, j) = k
    /\ j > i => j - 1 \in 1 .. Count(J, p) /\ KeyAt(N, p, j) = KeyAt(J, p, j - 1)
    /\ j < i \/ j = i \/ j > i
    /\ j \in Nat

LEMMA CutFacts ==
  ASSUME NEW J, NEW N, NEW w, NEW p, NEW i, NEW c, NEW d, CutOf(J, N, w, p, i, c, d),
         NEW k, k = KeyAt(N, p, i), NEW m, m = Count(N, c) + 1
  PROVE  /\ CutCounts(J, N, p, i, c, d, m) /\ CutKeys(J, N, p, i, c, d, k, m)
         /\ CutInts(J, N, p, c, d) /\ CutKeyOf(J, N, p, i, k)
<1>1. CutItems(J, N, p, i, c, d, m)
  BY DEF CutOf
<1>2. J[p] \in Nodes /\ J[c] \in Nodes /\ N[p] \in Nodes /\ N[c] \in Nodes /\ N[d] \in Nodes
  BY DEF CutOf, CutNodes
<1>3. /\ Count(N, p) \in Nat /\ Count(J, p) \in Nat
      /\ Count(N, c) \in Nat /\ Count(N, d) \in Nat /\ Count(J, c) \in Nat
  BY <1>2, NodeIs
<1>4. CutCounts(J, N, p, i, c, d, m)
  BY <1>1, <1>3, SMT DEF CutItems, CutCounts
<1>5. CutInts(J, N, p, c, d)
  BY <1>2, NodeKeys, Zenon DEF CutInts
<1>6. CutKeys(J, N, p, i, c, d, k, m)
  <2>1. k = KeyAt(J, c, m)
    BY <1>1, Zenon DEF CutItems, KeyAt
  <2>2. \A j \in 1 .. Count(J, p) : KeyAt(J, p, j) = KeyAt(N, p, IF j < i THEN j ELSE j + 1)
    BY <1>1, Zenon DEF CutItems, KeyAt
  <2>3. \A j \in 1 .. Count(N, c) : KeyAt(N, c, j) = KeyAt(J, c, j)
    BY <1>1, Zenon DEF CutItems, KeyAt
  <2>4. \A j \in 1 .. Count(N, d) : KeyAt(N, d, j) = KeyAt(J, c, m + j)
    BY <1>1, Zenon DEF CutItems, KeyAt
  <2>5. \A j \in 1 .. Count(N, c) : j \in 1 .. Count(J, c) /\ j < m
    BY <1>4, SMT DEF CutCounts
  <2>6. \A j \in 1 .. Count(N, d) : m + j \in 1 .. Count(J, c) /\ m < m + j
    BY <1>4, SMT DEF CutCounts
  <2>7. k \in Int
    BY <2>1, <1>4, <1>5 DEF CutCounts, CutInts
  <2> QED BY <2>1, <2>2, <2>3, <2>4, <2>5, <2>6, <2>7 DEF CutKeys
<1>7. CutKeyOf(J, N, p, i, k)
  <2> SUFFICES ASSUME NEW j \in 1 .. Count(N, p)
               PROVE  /\ j < i => j \in 1 .. Count(J, p) /\ KeyAt(N, p, j) = KeyAt(J, p, j)
                      /\ j = i => KeyAt(N, p, j) = k
                      /\ j > i => j - 1 \in 1 .. Count(J, p) /\ KeyAt(N, p, j) = KeyAt(J, p, j - 1)
                      /\ j < i \/ j = i \/ j > i
                      /\ j \in Nat
    BY Zenon DEF CutKeyOf
  <2>1. j < i => j \in 1 .. Count(J, p)
    BY <1>4, SMT DEF CutCounts
  <2>2. j > i => j - 1 \in 1 .. Count(J, p) /\ ~(j - 1 < i) /\ (j - 1) + 1 = j
    BY <1>4, SMT DEF CutCounts
  <2>3. j \in Nat /\ (j < i \/ j = i \/ j > i)
    BY <1>4, SMT DEF CutCounts
  <2>4. j < i => KeyAt(N, p, j) = KeyAt(J, p, j)
    BY <2>1, <1>6, Zenon DEF CutKeys
  <2>5. j > i => KeyAt(N, p, j) = KeyAt(J, p, j - 1)
    <3> SUFFICES ASSUME j > i PROVE KeyAt(N, p, j) = KeyAt(J, p, j - 1)
      OBVIOUS
    <3>1. KeyAt(J, p, j - 1) = KeyAt(N, p, IF j - 1 < i THEN j - 1 ELSE (j - 1) + 1)
      BY <2>2, <1>6, Zenon DEF CutKeys
    <3> QED BY <3>1, <2>2
  <2> QED BY <2>1, <2>2, <2>3, <2>4, <2>5
<1> QED BY <1>4, <1>5, <1>6, <1>7

PlacesCut(w, v, k, c, d) ==
  /\ v.pages = w.pages \cup {d}
  /\ \A q \in w.pages : v.height[q] = w.height[q] /\ v.lo[q] = w.lo[q]
  /\ \A q \in w.pages : q /= c => v.hi[q] = w.hi[q]
  /\ v.hi[c] = k /\ v.lo[d] = k /\ v.hi[d] = w.hi[c] /\ v.height[d] = w.height[c]
  /\ d /= c

LEMMA CutPlacesAre ==
  ASSUME NEW w, NEW k, NEW c \in w.pages, NEW d, d \notin w.pages, NEW v, v = CutPlaces(w, k, c, d)
  PROVE  PlacesCut(w, v, k, c, d)
  BY SMT DEF CutPlaces, PlacesCut

LEMMA CutPlacesOK ==
  ASSUME NEW w, PlacesOK(w), NEW k \in Int, NEW c \in w.pages, NEW d \in Nat
  PROVE  PlacesOK(CutPlaces(w, k, c, d))
  BY SMT DEF CutPlaces, PlacesOK

(* Where c hangs below p, and the keys of p around it.                     *)
KidIn(J, w, p, i, c) ==
  /\ c \in w.pages /\ w.height[p] = w.height[c] + 1 /\ w.height[c] \in Nat /\ w.height[p] /= 0
  /\ w.lo[c] = IF i = 1 THEN w.lo[p] ELSE KeyAt(J, p, i - 1)
  /\ w.hi[c] = IF i = KidCount(J, p) THEN w.hi[p] ELSE KeyAt(J, p, i)
  /\ w.lo[p] \in Int /\ w.hi[p] \in Int /\ w.lo[c] \in Int /\ w.hi[c] \in Int
  /\ w.lo[p] <= w.lo[c] /\ w.lo[c] < w.hi[c] /\ w.hi[c] <= w.hi[p]
  /\ \A j \in 1 .. Count(J, p) : j < i => KeyAt(J, p, j) <= w.lo[c]
  /\ \A j \in 1 .. Count(J, p) : i <= j => w.hi[c] <= KeyAt(J, p, j)
  /\ KidCount(J, p) = Count(J, p) + 1 /\ Count(J, p) \in Nat

LEMMA KidPlace ==
  ASSUME NEW J, NEW root, NEW w, Shape(J, root, w),
         NEW p \in w.pages, NEW i \in 1 .. KidCount(J, p), NEW c, c = KidAt(J, p, i)
  PROVE  KidIn(J, w, p, i, c)
<1>1. /\ c \in w.pages /\ w.height[p] = w.height[c] + 1
      /\ w.lo[c] = IF i = 1 THEN w.lo[p] ELSE KeyAt(J, p, i - 1)
      /\ w.hi[c] = IF i = KidCount(J, p) THEN w.hi[p] ELSE KeyAt(J, p, i)
  BY Zenon DEF Shape, Hanging
<1>2. /\ w.lo[p] \in Int /\ w.hi[p] \in Int /\ w.lo[c] \in Int /\ w.hi[c] \in Int /\ w.height[c] \in Nat
  BY <1>1, PlacesAre DEF Shape
<1>3. w.lo[c] < w.hi[c]
  BY <1>1, Zenon DEF Shape, Ordered
<1>4. KidCount(J, p) = Count(J, p) + 1 /\ Count(J, p) \in Nat /\ w.height[p] /= 0
  <2>1. KidCount(J, p) = Count(J, p) + 1 /\ w.height[p] /= 0
    <3>1. KidBelow(J, root, w, p, i, KidAt(J, p, i))
      BY KidIsBelow
    <3> QED BY <3>1 DEF KidBelow
  <2>2. NodesOK(J, w)
    BY DEF Shape
  <2>3. Count(J, p) \in Nat
    BY <2>2, NodeFacts, Zenon
  <2> QED BY <2>1, <2>3
<1>5. /\ \A j \in 1 .. Count(J, p) : w.lo[p] < KeyAt(J, p, j) /\ KeyAt(J, p, j) < w.hi[p]
      /\ \A j, k \in 1 .. Count(J, p) : j < k => KeyAt(J, p, j) < KeyAt(J, p, k)
  BY Zenon DEF Shape, Ordered
<1>6. \A j \in 1 .. Count(J, p) : KeyAt(J, p, j) \in Int
  BY NodeFacts DEF Shape
<1>7. w.lo[p] <= w.lo[c]
  <2>1. CASE i = 1 BY <2>1, <1>1, <1>2, SMT
  <2>2. CASE i /= 1
    <3>1. i - 1 \in 1 .. Count(J, p) BY <2>2, <1>4, SMT
    <3>2. w.lo[p] < KeyAt(J, p, i - 1) /\ KeyAt(J, p, i - 1) \in Int BY <3>1, <1>5, <1>6
    <3> QED BY <3>2, <2>2, <1>1, <1>2, SMT
  <2> QED BY <2>1, <2>2
<1>8. w.hi[c] <= w.hi[p]
  <2>1. CASE i = KidCount(J, p) BY <2>1, <1>1, <1>2, SMT
  <2>2. CASE i /= KidCount(J, p)
    <3>1. i \in 1 .. Count(J, p) BY <2>2, <1>4, SMT
    <3>2. KeyAt(J, p, i) < w.hi[p] /\ KeyAt(J, p, i) \in Int BY <3>1, <1>5, <1>6
    <3> QED BY <3>2, <2>2, <1>1, <1>2, SMT
  <2> QED BY <2>1, <2>2
<1>9. ASSUME NEW j \in 1 .. Count(J, p), j < i PROVE KeyAt(J, p, j) <= w.lo[c]
  <2>1. i /= 1 /\ i - 1 \in 1 .. Count(J, p) /\ (j < i - 1 \/ j = i - 1)
    BY <1>9, <1>4, SMT
  <2>2. KeyAt(J, p, j) < KeyAt(J, p, i - 1) \/ j = i - 1
    BY <2>1, <1>5
  <2>3. KeyAt(J, p, j) \in Int /\ KeyAt(J, p, i - 1) \in Int
    BY <2>1, <1>6
  <2>4. w.lo[c] = KeyAt(J, p, i - 1)
    BY <2>1, <1>1
  <2> QED BY <2>2, <2>3, <2>4, SMT
<1>10. ASSUME NEW j \in 1 .. Count(J, p), i <= j PROVE w.hi[c] <= KeyAt(J, p, j)
  <2>1. i /= KidCount(J, p) /\ i \in 1 .. Count(J, p) /\ (i < j \/ j = i)
    BY <1>10, <1>4, SMT
  <2>2. KeyAt(J, p, i) < KeyAt(J, p, j) \/ j = i
    BY <2>1, <1>5
  <2>3. KeyAt(J, p, j) \in Int /\ KeyAt(J, p, i) \in Int
    BY <2>1, <1>6
  <2>4. w.hi[c] = KeyAt(J, p, i)
    BY <2>1, <1>1
  <2> QED BY <2>2, <2>3, <2>4, SMT
<1> QED BY <1>1, <1>2, <1>3, <1>4, <1>7, <1>8, <1>9, <1>10, Zenon DEF KidIn

(* The nodes that neither p nor c is are as they were.                     *)
SameNodes(J, N, w, p, c) ==
  \A q \in w.pages \ {p, c} :
    /\ N[q] = J[q] /\ Count(N, q) = Count(J, q) /\ KidCount(N, q) = KidCount(J, q)
    /\ \A j : ItemAt(N, q, j) = ItemAt(J, q, j) /\ KeyAt(N, q, j) = KeyAt(J, q, j) /\ KidAt(N, q, j) = KidAt(J, q, j)

LEMMA CutSame ==
  ASSUME NEW J, NEW N, NEW w, NEW p, NEW c, NEW d, CutNodes(J, N, w, p, c, d)
  PROVE  SameNodes(J, N, w, p, c)
<1> SUFFICES ASSUME NEW q \in w.pages \ {p, c}
             PROVE  /\ N[q] = J[q] /\ Count(N, q) = Count(J, q) /\ KidCount(N, q) = KidCount(J, q)
                    /\ \A j : ItemAt(N, q, j) = ItemAt(J, q, j) /\ KeyAt(N, q, j) = KeyAt(J, q, j)
                              /\ KidAt(N, q, j) = KidAt(J, q, j)
  BY Zenon DEF SameNodes
<1>1. N[q] = J[q]
  BY DEF CutNodes
<1> QED BY <1>1, Zenon DEF Count, KidCount, ItemAt, KeyAt, KidAt

LEMMA Cut ==
  ASSUME NEW J, NEW N, NEW root, NEW w, NEW p, NEW i, NEW c, NEW d,
         Shape(J, root, w), CutOf(J, N, w, p, i, c, d),
         NEW k, k = KeyAt(N, p, i), NEW v, v = CutPlaces(w, k, c, d)
  PROVE  Shape(N, root, v)
<1>1. PICK m : m = Count(N, c) + 1
  OBVIOUS
<1>2. CutNodes(J, N, w, p, c, d) /\ CutKids(J, N, w, p, i, c, d)
  BY DEF CutOf
<1>3. /\ CutCounts(J, N, p, i, c, d, m) /\ CutKeys(J, N, p, i, c, d, k, m)
      /\ CutInts(J, N, p, c, d) /\ CutKeyOf(J, N, p, i, k)
  BY <1>1, CutFacts
<1>4. p \in w.pages /\ c \in w.pages /\ p /= c /\ d \in Nat /\ d \notin w.pages /\ i \in 1 .. KidCount(J, p)
  BY <1>2 DEF CutNodes, CutKids
<1>5. PlacesCut(w, v, k, c, d)
  BY <1>4, CutPlacesAre
<1>6. KidIn(J, w, p, i, c)
  BY <1>2, <1>4, KidPlace DEF CutKids
<1>7. /\ \A j \in 1 .. Count(J, c) : w.lo[c] < KeyAt(J, c, j) /\ KeyAt(J, c, j) < w.hi[c]
      /\ \A j, n \in 1 .. Count(J, c) : j < n => KeyAt(J, c, j) < KeyAt(J, c, n)
  BY <1>4, Zenon DEF Shape, Ordered
<1>8. w.lo[c] < k /\ k < w.hi[c]
  BY <1>3, <1>7, Zenon DEF CutKeys, CutCounts
<1>9. SameNodes(J, N, w, p, c)
  BY <1>2, CutSame
<1>10. PlacesOK(v)
  BY <1>3, <1>4, CutPlacesOK DEF Shape, CutKeys
<1>11. NodesOK(N, v)
  BY <1>2, <1>5, Zenon DEF Shape, NodesOK, PlacesCut, CutNodes
<1> DEFINE O(q) == IF q = d THEN c ELSE q
<1>20. ASSUME NEW q \in v.pages
      PROVE  /\ O(q) \in w.pages /\ v.height[q] = w.height[O(q)]
             /\ w.lo[O(q)] <= v.lo[q] /\ v.hi[q] <= w.hi[O(q)]
             /\ v.lo[q] \in Int /\ v.hi[q] \in Int /\ w.lo[O(q)] \in Int /\ w.hi[O(q)] \in Int
             /\ v.height[q] \in Nat
  <2>1. O(q) \in w.pages /\ v.height[q] = w.height[O(q)]
    BY <1>4, <1>5, Zenon DEF PlacesCut
  <2>2. /\ v.lo[q] \in Int /\ v.hi[q] \in Int /\ w.lo[O(q)] \in Int /\ w.hi[O(q)] \in Int
        /\ v.height[q] \in Nat
    <3>1. PlacesOK(w)
      BY DEF Shape
    <3> HIDE DEF O
    <3> QED BY <2>1, <3>1, <1>10, PlacesAre
  <2>3. k \in Int
    BY <1>3 DEF CutKeys
  <2>4. CASE q = d
    <3>1. v.lo[q] = k /\ v.hi[q] = w.hi[c] /\ O(q) = c
      BY <2>4, <1>5 DEF PlacesCut
    <3> QED BY <3>1, <2>1, <2>2, <2>3, <1>8, SMT
  <2>5. CASE q = c
    <3>1. v.lo[q] = w.lo[c] /\ v.hi[q] = k /\ O(q) = c
      BY <2>5, <1>4, <1>5 DEF PlacesCut
    <3> QED BY <3>1, <2>1, <2>2, <2>3, <1>8, SMT
  <2>6. CASE q /= c /\ q /= d
    <3>1. v.lo[q] = w.lo[q] /\ v.hi[q] = w.hi[q] /\ O(q) = q
      BY <2>6, <1>4, <1>5, Zenon DEF PlacesCut
    <3> QED BY <3>1, <2>1, <2>2, SMT
  <2> QED BY <2>4, <2>5, <2>6
<1>12. Topped(root, v)
  <2>1. root \in w.pages /\ w.lo[root] = 0 /\ w.hi[root] = KeyCount + 1 /\ root /= c
    <3>1. KidAt(J, p, i) = c
      BY <1>2 DEF CutKids
    <3>2. root /= c
      <4>1. KidBelow(J, root, w, p, i, KidAt(J, p, i))
        BY <1>4, KidIsBelow
      <4> QED BY <3>1, <4>1 DEF KidBelow
    <3> QED BY <3>2 DEF Shape, Topped
  <2>2. \A q \in w.pages : w.height[q] <= w.height[root] /\ w.lo[root] <= w.lo[q] /\ w.hi[q] <= w.hi[root]
    BY DEF Shape, Topped
  <2>3. /\ root \in v.pages /\ v.lo[root] = w.lo[root] /\ v.hi[root] = w.hi[root]
        /\ v.height[root] = w.height[root] /\ O(root) = root
    BY <2>1, <1>4, <1>5 DEF PlacesCut
  <2>4. ASSUME NEW q \in v.pages
        PROVE  v.height[q] <= v.height[root] /\ v.lo[root] <= v.lo[q] /\ v.hi[q] <= v.hi[root]
    <3> HIDE DEF O
    <3> QED BY <1>20, <2>2, <2>3, SMT
  <2> QED BY <2>1, <2>3, <2>4 DEF Topped
<1>13. Branching(N, v)
  <2> SUFFICES ASSUME NEW q \in v.pages
               PROVE  /\ N[q].leaf = (v.height[q] = 0)
                      /\ KidCount(N, q) = IF v.height[q] = 0 THEN 0 ELSE Count(N, q) + 1
    BY DEF Branching
  <2>1. \A s \in w.pages : /\ J[s].leaf = (w.height[s] = 0)
                           /\ KidCount(J, s) = IF w.height[s] = 0 THEN 0 ELSE Count(J, s) + 1
    BY DEF Shape, Branching
  <2>2. CASE q \in w.pages \ {p, c}
    <3>1. N[q] = J[q] /\ v.height[q] = w.height[q] /\ q \in w.pages
          /\ Count(N, q) = Count(J, q) /\ KidCount(N, q) = KidCount(J, q)
      BY <2>2, <1>9, <1>5, Zenon DEF PlacesCut, SameNodes
    <3> QED BY <3>1, <2>1
  <2>3. CASE q = p
    <3>1. KidCount(N, p) = Count(N, p) + 1
      BY <1>2, <1>3, <1>6, SMT DEF CutKids, CutCounts, KidIn
    <3>2. v.height[p] /= 0 /\ N[p].leaf = FALSE
      BY <1>2, <1>4, <1>5, <1>6, SMT DEF PlacesCut, KidIn, CutNodes
    <3> QED BY <2>3, <3>1, <3>2
  <2>4. CASE q = c \/ q = d
    <3>1. v.height[q] = w.height[c] /\ N[q].leaf = J[c].leaf
          /\ KidCount(N, q) = IF w.height[c] = 0 THEN 0 ELSE Count(N, q) + 1
      BY <2>4, <1>2, <1>4, <1>5, Zenon DEF PlacesCut, CutNodes, CutKids
    <3>3. J[c].leaf = (w.height[c] = 0)
      BY <2>1, <1>4
    <3> QED BY <3>1, <3>3
  <2> QED BY <2>2, <2>3, <2>4, <1>5 DEF PlacesCut
<1>14. Ordered(N, v)
  <2> SUFFICES ASSUME NEW q \in v.pages
               PROVE  /\ v.lo[q] < v.hi[q]
                      /\ \A j \in 1 .. Count(N, q) : v.lo[q] < KeyAt(N, q, j) /\ KeyAt(N, q, j) < v.hi[q]
                      /\ \A a, b \in 1 .. Count(N, q) : a < b => KeyAt(N, q, a) < KeyAt(N, q, b)
    BY Zenon DEF Ordered
  <2>1. \A s \in w.pages :
          /\ w.lo[s] < w.hi[s]
          /\ \A j \in 1 .. Count(J, s) : w.lo[s] < KeyAt(J, s, j) /\ KeyAt(J, s, j) < w.hi[s]
          /\ \A a, b \in 1 .. Count(J, s) : a < b => KeyAt(J, s, a) < KeyAt(J, s, b)
    BY Zenon DEF Shape, Ordered
  <2>2. CASE q \in w.pages \ {p, c}
    <3>1. v.lo[q] = w.lo[q] /\ v.hi[q] = w.hi[q] /\ q \in w.pages
      BY <2>2, <1>5, Zenon DEF PlacesCut
    <3>2. Count(N, q) = Count(J, q) /\ \A j : KeyAt(N, q, j) = KeyAt(J, q, j)
      BY <1>9, <2>2, Zenon DEF SameNodes
    <3> QED BY <2>1, <3>1, <3>2
  <2>3. CASE q = p
    <3>1. v.lo[p] = w.lo[p] /\ v.hi[p] = w.hi[p] /\ w.lo[p] < w.hi[p]
      BY <1>4, <1>5, <2>1, Zenon DEF PlacesCut
    <3>2. /\ \A j \in 1 .. Count(J, p) : w.lo[p] < KeyAt(J, p, j) /\ KeyAt(J, p, j) < w.hi[p] /\ KeyAt(J, p, j) \in Int
          /\ \A a, b \in 1 .. Count(J, p) : a < b => KeyAt(J, p, a) < KeyAt(J, p, b)
      BY <1>4, <2>1, <1>3, Zenon DEF CutInts
    <3>3. /\ w.lo[p] < k /\ k < w.hi[p] /\ k \in Int /\ w.lo[p] \in Int /\ w.hi[p] \in Int
          /\ w.lo[c] \in Int /\ w.hi[c] \in Int
      BY <1>3, <1>6, <1>8, SMT DEF KidIn, CutKeys
    <3>4. \A j \in 1 .. Count(J, p) : j < i => KeyAt(J, p, j) < k
      BY <1>6, <1>8, <3>2, <3>3, SMT DEF KidIn
    <3>5. \A j \in 1 .. Count(J, p) : i <= j => k < KeyAt(J, p, j)
      BY <1>6, <1>8, <3>2, <3>3, SMT DEF KidIn
    <3>6. i \in Nat
      BY <1>3 DEF CutCounts
    <3>7. ASSUME NEW j \in 1 .. Count(N, p) PROVE w.lo[p] < KeyAt(N, p, j) /\ KeyAt(N, p, j) < w.hi[p]
      BY <1>3, <3>2, <3>3, Zenon DEF CutKeyOf
    <3>8. ASSUME NEW a \in 1 .. Count(N, p), NEW b \in 1 .. Count(N, p), a < b
          PROVE  KeyAt(N, p, a) < KeyAt(N, p, b)
      <4>0. a \in Nat /\ b \in Nat
        BY <1>3 DEF CutKeyOf
      <4>1. CASE b < i
        <5>1. a < i BY <4>0, <4>1, <3>6, <3>8, SMT
        <5> QED BY <5>1, <4>1, <3>2, <3>8, <1>3, Zenon DEF CutKeyOf
      <4>2. CASE b = i
        <5>1. a < i BY <4>0, <4>2, <3>6, <3>8, SMT
        <5> QED BY <5>1, <4>2, <3>4, <1>3, Zenon DEF CutKeyOf
      <4>3. CASE b > i
        <5>0. b - 1 \in 1 .. Count(J, p) /\ KeyAt(N, p, b) = KeyAt(J, p, b - 1) /\ i <= b - 1
          <6>1. i <= b - 1 BY <4>0, <4>3, <3>6, SMT
          <6> QED BY <6>1, <4>3, <1>3, Zenon DEF CutKeyOf
        <5>00. k < KeyAt(N, p, b)
          BY <5>0, <3>5
        <5>1. CASE a < i
          <6>1. KeyAt(N, p, a) < k BY <5>1, <3>4, <1>3, Zenon DEF CutKeyOf
          <6>4. KeyAt(N, p, a) \in Int /\ KeyAt(N, p, b) \in Int BY <1>3, Zenon DEF CutInts
          <6> QED BY <6>1, <5>00, <6>4, <3>3, SMT
        <5>2. CASE a = i
          BY <5>2, <5>00, <1>3, Zenon DEF CutKeyOf
        <5>3. CASE a > i
          <6>1. a - 1 < b - 1 BY <4>0, <3>8, SMT
          <6>2. a - 1 \in 1 .. Count(J, p) /\ KeyAt(N, p, a) = KeyAt(J, p, a - 1)
            BY <5>3, <1>3, Zenon DEF CutKeyOf
          <6> QED BY <6>1, <6>2, <5>0, <3>2
        <5> QED BY <5>1, <5>2, <5>3, <1>3, Zenon DEF CutKeyOf
      <4> QED BY <4>1, <4>2, <4>3, <1>3, Zenon DEF CutKeyOf
    <3> QED BY <2>3, <3>1, <3>7, <3>8
  <2>4. CASE q = c
    <3>1. v.lo[c] = w.lo[c] /\ v.hi[c] = k
      BY <1>4, <1>5, Zenon DEF PlacesCut
    <3>4. \A j \in 1 .. Count(N, c) : v.lo[c] < KeyAt(N, c, j) /\ KeyAt(N, c, j) < v.hi[c]
      BY <3>1, <1>3, <1>7, SMT DEF CutKeys, CutCounts
    <3>5. \A a, b \in 1 .. Count(N, c) : a < b => KeyAt(N, c, a) < KeyAt(N, c, b)
      BY <1>3, <1>7, SMT DEF CutKeys
    <3> QED BY <2>4, <3>1, <3>4, <3>5, <1>8
  <2>5. CASE q = d
    <3>1. v.lo[d] = k /\ v.hi[d] = w.hi[c]
      BY <1>5, Zenon DEF PlacesCut
    <3>4. \A j \in 1 .. Count(N, d) : v.lo[d] < KeyAt(N, d, j) /\ KeyAt(N, d, j) < v.hi[d]
      BY <3>1, <1>3, <1>7, SMT DEF CutKeys, CutCounts
    <3>5. ASSUME NEW a \in 1 .. Count(N, d), NEW b \in 1 .. Count(N, d), a < b
          PROVE  KeyAt(N, d, a) < KeyAt(N, d, b)
      <4>1. m + a < m + b BY <3>5, <1>3, SMT DEF CutCounts
      <4> QED BY <4>1, <1>3, <1>7, SMT DEF CutKeys
    <3> QED BY <2>5, <3>1, <3>4, <3>5, <1>8
  <2> QED BY <2>2, <2>3, <2>4, <2>5, <1>5 DEF PlacesCut
<1>15. Hanging(N, v)
  <2> SUFFICES ASSUME NEW q \in v.pages, NEW j \in 1 .. KidCount(N, q)
               PROVE  /\ KidAt(N, q, j) \in v.pages
                      /\ v.height[q] = v.height[KidAt(N, q, j)] + 1
                      /\ v.lo[KidAt(N, q, j)] = IF j = 1 THEN v.lo[q] ELSE KeyAt(N, q, j - 1)
                      /\ v.hi[KidAt(N, q, j)] = IF j = KidCount(N, q) THEN v.hi[q] ELSE KeyAt(N, q, j)
    BY Zenon DEF Hanging
  <2>1. \A s \in w.pages : \A n \in 1 .. KidCount(J, s) :
          /\ KidAt(J, s, n) \in w.pages
          /\ w.height[s] = w.height[KidAt(J, s, n)] + 1
          /\ w.lo[KidAt(J, s, n)] = IF n = 1 THEN w.lo[s] ELSE KeyAt(J, s, n - 1)
          /\ w.hi[KidAt(J, s, n)] = IF n = KidCount(J, s) THEN w.hi[s] ELSE KeyAt(J, s, n)
    BY Zenon DEF Shape, Hanging
  <2>2. \A s \in w.pages : \A n \in 1 .. KidCount(J, s) : KidAt(J, s, n) = c => s = p /\ n = i
    BY <1>2, <1>4, OneParent DEF CutKids
  <2>3. CASE q \in w.pages \ {p, c}
    <3>1. /\ v.lo[q] = w.lo[q] /\ v.hi[q] = w.hi[q] /\ v.height[q] = w.height[q] /\ q \in w.pages
      BY <2>3, <1>5, Zenon DEF PlacesCut
    <3>2. KidCount(N, q) = KidCount(J, q) /\ \A n : KeyAt(N, q, n) = KeyAt(J, q, n) /\ KidAt(N, q, n) = KidAt(J, q, n)
      BY <1>9, <2>3, Zenon DEF SameNodes
    <3>3. KidAt(N, q, j) /= c /\ KidAt(N, q, j) \in w.pages
      BY <2>1, <2>2, <2>3, <3>1, <3>2
    <3>4. /\ v.lo[KidAt(N, q, j)] = w.lo[KidAt(N, q, j)] /\ v.hi[KidAt(N, q, j)] = w.hi[KidAt(N, q, j)]
          /\ v.height[KidAt(N, q, j)] = w.height[KidAt(N, q, j)] /\ KidAt(N, q, j) \in v.pages
      BY <3>3, <1>5, Zenon DEF PlacesCut
    <3> QED BY <2>1, <3>1, <3>2, <3>4
  <2> DEFINE x == KidAt(N, q, j)
  <2>4. CASE q = p
    <3>1. v.lo[p] = w.lo[p] /\ v.hi[p] = w.hi[p] /\ v.height[p] = w.height[p]
      BY <1>4, <1>5, Zenon DEF PlacesCut
    <3>2. /\ KidCount(N, p) = KidCount(J, p) + 1 /\ KidAt(N, p, i) = c /\ KidAt(N, p, i + 1) = d
          /\ \A n \in 1 .. KidCount(J, p) : KidAt(J, p, n) = KidAt(N, p, IF n <= i THEN n ELSE n + 1)
      BY <1>2 DEF CutKids
    <3>3. /\ KidCount(J, p) = Count(J, p) + 1 /\ Count(J, p) \in Nat /\ Count(N, p) = Count(J, p) + 1
          /\ i \in Nat /\ 1 <= i /\ i <= Count(N, p)
      BY <1>3, <1>6 DEF CutCounts, KidIn
    <3>4. /\ w.height[p] = w.height[c] + 1 /\ w.lo[c] = (IF i = 1 THEN w.lo[p] ELSE KeyAt(J, p, i - 1))
          /\ w.hi[c] = (IF i = KidCount(J, p) THEN w.hi[p] ELSE KeyAt(J, p, i))
      BY <1>6 DEF KidIn
    <3>5. j \in Nat /\ (j < i \/ j = i \/ j = i + 1 \/ j > i + 1) /\ 1 <= j /\ j <= Count(J, p) + 2
      BY <2>4, <3>2, <3>3, SMT
    <3>6. CASE j < i
      <4>1. j \in 1 .. KidCount(J, p) /\ j /= i /\ j <= i /\ j /= KidCount(J, p) /\ j /= KidCount(N, p) /\ j \in 1 .. Count(N, p)
            /\ (j /= 1 => j - 1 \in 1 .. Count(N, p) /\ j - 1 < i)
        BY <3>2, <3>3, <3>5, <3>6, SMT
      <4>2. KidAt(J, p, j) = KidAt(N, p, j)
        BY <4>1, <3>2
      <4>3. KidAt(N, p, j) /= c /\ KidAt(N, p, j) \in w.pages
        BY <4>1, <4>2, <2>1, <2>2, <1>4
      <4>4. KeyAt(N, p, j) = KeyAt(J, p, j) /\ (j /= 1 => KeyAt(N, p, j - 1) = KeyAt(J, p, j - 1))
        BY <4>1, <3>6, <1>3, Zenon DEF CutKeyOf
      <4>5. /\ v.lo[KidAt(N, p, j)] = w.lo[KidAt(N, p, j)] /\ v.hi[KidAt(N, p, j)] = w.hi[KidAt(N, p, j)]
            /\ v.height[KidAt(N, p, j)] = w.height[KidAt(N, p, j)] /\ KidAt(N, p, j) \in v.pages
        BY <4>3, <1>5, Zenon DEF PlacesCut
      <4>6. /\ w.height[p] = w.height[KidAt(J, p, j)] + 1
            /\ w.lo[KidAt(J, p, j)] = IF j = 1 THEN w.lo[p] ELSE KeyAt(J, p, j - 1)
            /\ w.hi[KidAt(J, p, j)] = IF j = KidCount(J, p) THEN w.hi[p] ELSE KeyAt(J, p, j)
        BY <4>1, <2>1, <1>4, Zenon
      <4> QED BY <2>4, <4>1, <4>2, <4>4, <4>5, <4>6, <3>1
    <3>7. CASE j = i
      <4>1. j /= KidCount(N, p) /\ j \in 1 .. Count(N, p) /\ (j /= 1 => j - 1 \in 1 .. Count(N, p) /\ j - 1 < i)
        BY <3>2, <3>3, <3>7, SMT
      <4>2. KeyAt(N, p, j) = k /\ (j /= 1 => KeyAt(N, p, j - 1) = KeyAt(J, p, j - 1))
        BY <4>1, <3>7, <1>3, Zenon DEF CutKeyOf
      <4>3. v.lo[c] = w.lo[c] /\ v.hi[c] = k /\ v.height[c] = w.height[c] /\ c \in v.pages
        BY <1>4, <1>5, Zenon DEF PlacesCut
      <4> QED BY <2>4, <3>7, <3>1, <3>2, <3>4, <4>1, <4>2, <4>3
    <3>8. CASE j = i + 1
      <4>1. j /= 1 /\ j - 1 = i /\ (j /= KidCount(N, p) => j \in 1 .. Count(N, p) /\ j > i /\ j - 1 = i)
            /\ (j = KidCount(N, p) <=> i = KidCount(J, p))
        BY <3>2, <3>3, <3>8, SMT
      <4>2. KeyAt(N, p, j - 1) = k /\ (j /= KidCount(N, p) => KeyAt(N, p, j) = KeyAt(J, p, i))
        <5>1. KeyAt(N, p, j - 1) = k
          BY <4>1, <1>3 DEF CutKeys
        <5>2. ASSUME j /= KidCount(N, p) PROVE KeyAt(N, p, j) = KeyAt(J, p, i)
          <6>1. KeyAt(N, p, j) = KeyAt(J, p, j - 1)
            BY <5>2, <4>1, <1>3, Zenon DEF CutKeyOf
          <6> QED BY <6>1, <4>1
        <5> QED BY <5>1, <5>2
      <4>3. v.lo[d] = k /\ v.hi[d] = w.hi[c] /\ v.height[d] = w.height[c] /\ d \in v.pages
        BY <1>4, <1>5, Zenon DEF PlacesCut
      <4> QED BY <2>4, <3>8, <3>1, <3>2, <3>4, <4>1, <4>2, <4>3
    <3>9. CASE j > i + 1
      <4>1. /\ j - 1 \in 1 .. KidCount(J, p) /\ j - 1 /= i /\ ~(j - 1 <= i) /\ (j - 1) + 1 = j /\ j /= 1 /\ j - 1 /= 1
            /\ j - 1 \in 1 .. Count(N, p) /\ j - 1 > i
            /\ (j = KidCount(N, p) <=> j - 1 = KidCount(J, p))
            /\ (j /= KidCount(N, p) => j \in 1 .. Count(N, p) /\ j > i)
        BY <3>2, <3>3, <3>5, <3>9, SMT
      <4>2. KidAt(J, p, j - 1) = KidAt(N, p, j)
        BY <4>1, <3>2
      <4>3. KidAt(N, p, j) /= c /\ KidAt(N, p, j) \in w.pages
        BY <4>1, <4>2, <2>1, <2>2, <1>4
      <4>4. /\ KeyAt(N, p, j - 1) = KeyAt(J, p, (j - 1) - 1)
            /\ j /= KidCount(N, p) => KeyAt(N, p, j) = KeyAt(J, p, j - 1)
        BY <4>1, <1>3, Zenon DEF CutKeyOf
      <4>5. /\ v.lo[KidAt(N, p, j)] = w.lo[KidAt(N, p, j)] /\ v.hi[KidAt(N, p, j)] = w.hi[KidAt(N, p, j)]
            /\ v.height[KidAt(N, p, j)] = w.height[KidAt(N, p, j)] /\ KidAt(N, p, j) \in v.pages
        BY <4>3, <1>5, Zenon DEF PlacesCut
      <4>6. /\ w.height[p] = w.height[KidAt(J, p, j - 1)] + 1
            /\ w.lo[KidAt(J, p, j - 1)] = IF j - 1 = 1 THEN w.lo[p] ELSE KeyAt(J, p, (j - 1) - 1)
            /\ w.hi[KidAt(J, p, j - 1)] = IF j - 1 = KidCount(J, p) THEN w.hi[p] ELSE KeyAt(J, p, j - 1)
        BY <4>1, <2>1, <1>4, Zenon
      <4> QED BY <2>4, <4>1, <4>2, <4>4, <4>5, <4>6, <3>1
    <3> QED BY <3>5, <3>6, <3>7, <3>8, <3>9
  <2>5. ASSUME w.height[c] /= 0
        PROVE  /\ KidCount(N, c) = m /\ KidCount(N, d) = Count(N, d) + 1 /\ KidCount(J, c) = Count(J, c) + 1
               /\ \A n \in 1 .. KidCount(J, c) :
                    LET y == KidAt(J, c, n)
                    IN /\ y \in v.pages /\ v.height[c] = v.height[y] + 1
                       /\ v.lo[y] = IF n = 1 THEN w.lo[c] ELSE KeyAt(J, c, n - 1)
                       /\ v.hi[y] = IF n = KidCount(J, c) THEN w.hi[c] ELSE KeyAt(J, c, n)
    <3>1. KidCount(N, c) = Count(N, c) + 1 /\ KidCount(N, d) = Count(N, d) + 1
          /\ KidCount(J, c) = KidCount(N, c) + KidCount(N, d)
      BY <1>2, <2>5 DEF CutKids
    <3>2. KidCount(N, c) = m /\ KidCount(J, c) = Count(J, c) + 1
      BY <3>1, <1>3, SMT DEF CutCounts
    <3>3. ASSUME NEW n \in 1 .. KidCount(J, c), NEW y, y = KidAt(J, c, n)
          PROVE  /\ y \in v.pages /\ v.height[c] = v.height[y] + 1
                 /\ v.lo[y] = IF n = 1 THEN w.lo[c] ELSE KeyAt(J, c, n - 1)
                 /\ v.hi[y] = IF n = KidCount(J, c) THEN w.hi[c] ELSE KeyAt(J, c, n)
      <4>1. y \in w.pages /\ w.height[c] = w.height[y] + 1 /\ y /= c
        <5>1. KidBelow(J, root, w, c, n, KidAt(J, c, n))
          BY <1>4, KidIsBelow
        <5> QED BY <3>3, <5>1 DEF KidBelow
      <4>2. /\ v.height[y] = w.height[y] /\ v.lo[y] = w.lo[y] /\ v.hi[y] = w.hi[y] /\ y \in v.pages
            /\ v.height[c] = w.height[c]
        BY <4>1, <1>4, <1>5, Zenon DEF PlacesCut
      <4> QED BY <4>1, <4>2, <3>3, <2>1, <1>4, Zenon
    <3> QED BY <3>1, <3>2, <3>3, Zenon
  <2>6. q = c \/ q = d => w.height[c] /= 0
    <3> SUFFICES ASSUME q = c \/ q = d, w.height[c] = 0 PROVE FALSE
      OBVIOUS
    <3>1. KidCount(N, q) = 0
      BY <1>2 DEF CutKids
    <3> QED BY <3>1, SMT
  <2>7. CASE q = c
    <3>1. j \in 1 .. m
      BY <2>5, <2>6, <2>7, Zenon
    <3>2. /\ j \in 1 .. KidCount(J, c) /\ j /= KidCount(J, c) /\ j \in 1 .. KidCount(N, c)
          /\ (j /= m => j \in 1 .. Count(N, c)) /\ (j /= 1 => j - 1 \in 1 .. Count(N, c))
      BY <3>1, <2>5, <2>6, <2>7, <1>3, SMT DEF CutCounts
    <3>3. KidAt(N, c, j) = KidAt(J, c, j)
      BY <3>2, <1>2, Zenon DEF CutKids
    <3>4. /\ j /= m => KeyAt(J, c, j) = KeyAt(N, c, j)
          /\ j = m => KeyAt(J, c, j) = k
          /\ j /= 1 => KeyAt(J, c, j - 1) = KeyAt(N, c, j - 1)
      BY <3>2, <1>3, Zenon DEF CutKeys
    <3>5. v.lo[c] = w.lo[c] /\ v.hi[c] = k /\ KidCount(N, c) = m
      BY <1>4, <1>5, <2>5, <2>6, <2>7, Zenon DEF PlacesCut
    <3>6. /\ x \in v.pages /\ v.height[c] = v.height[x] + 1
          /\ v.lo[x] = IF j = 1 THEN w.lo[c] ELSE KeyAt(J, c, j - 1)
          /\ v.hi[x] = IF j = KidCount(J, c) THEN w.hi[c] ELSE KeyAt(J, c, j)
      BY <3>2, <3>3, <2>5, <2>6, <2>7, Zenon
    <3>7. v.lo[x] = IF j = 1 THEN v.lo[q] ELSE KeyAt(N, q, j - 1)
      BY <2>7, <3>4, <3>5, <3>6
    <3>8. v.hi[x] = IF j = KidCount(N, q) THEN v.hi[q] ELSE KeyAt(N, q, j)
      BY <2>7, <3>2, <3>4, <3>5, <3>6
    <3> QED BY <2>7, <3>6, <3>7, <3>8
  <2>8. CASE q = d
    <3>1. m \in Nat /\ Count(N, d) \in Nat /\ KidCount(J, c) = m + Count(N, d) + 1
          /\ KidCount(N, d) = Count(N, d) + 1
      BY <2>5, <2>6, <2>8, <1>3, SMT DEF CutCounts
    <3>2. /\ m + j \in 1 .. KidCount(J, c) /\ m + j /= 1 /\ (j = 1 => (m + j) - 1 = m)
          /\ (m + j = KidCount(J, c) <=> j = KidCount(N, d))
          /\ (j /= KidCount(N, d) => j \in 1 .. Count(N, d))
          /\ (j /= 1 => j - 1 \in 1 .. Count(N, d) /\ m + (j - 1) = (m + j) - 1)
      <4>1. j \in 1 .. Count(N, d) + 1
        BY <3>1, <2>8, Zenon
      <4>2. m \in Nat /\ Count(N, d) \in Nat
        BY <3>1
      <4>3. m /= 0
        BY <1>3, SMT DEF CutCounts
      <4>4. /\ m + j \in 1 .. m + Count(N, d) + 1 /\ m + j /= 1 /\ (j = 1 => (m + j) - 1 = m)
            /\ (m + j = m + Count(N, d) + 1 <=> j = Count(N, d) + 1)
            /\ (j /= Count(N, d) + 1 => j \in 1 .. Count(N, d))
            /\ (j /= 1 => j - 1 \in 1 .. Count(N, d) /\ m + (j - 1) = (m + j) - 1)
        BY <4>1, <4>2, <4>3, SMT
      <4> QED BY <3>1, <4>4, Zenon
    <3>3. KidAt(N, d, j) = KidAt(J, c, m + j)
      BY <2>5, <2>6, <2>8, <1>2, Zenon DEF CutKids
    <3>4. /\ j /= KidCount(N, d) => KeyAt(J, c, m + j) = KeyAt(N, d, j)
          /\ j = 1 => KeyAt(J, c, (m + j) - 1) = k
          /\ j /= 1 => KeyAt(J, c, (m + j) - 1) = KeyAt(N, d, j - 1)
      <4>1. j /= KidCount(N, d) => KeyAt(J, c, m + j) = KeyAt(N, d, j)
        BY <3>2, <1>3, Zenon DEF CutKeys
      <4>2. j = 1 => KeyAt(J, c, (m + j) - 1) = k
        <5>1. k = KeyAt(J, c, m)
          BY <1>3 DEF CutKeys
        <5> QED BY <5>1, <3>2, Zenon
      <4>3. j /= 1 => KeyAt(J, c, (m + j) - 1) = KeyAt(N, d, j - 1)
        <5>1. \A n \in 1 .. Count(N, d) : KeyAt(N, d, n) = KeyAt(J, c, m + n)
          BY <1>3 DEF CutKeys
        <5> QED BY <5>1, <3>2, Zenon
      <4> QED BY <4>1, <4>2, <4>3
    <3>5. v.lo[d] = k /\ v.hi[d] = w.hi[c] /\ v.height[d] = v.height[c]
      BY <1>4, <1>5, Zenon DEF PlacesCut
    <3>6. /\ x \in v.pages /\ v.height[c] = v.height[x] + 1
          /\ v.lo[x] = IF m + j = 1 THEN w.lo[c] ELSE KeyAt(J, c, (m + j) - 1)
          /\ v.hi[x] = IF m + j = KidCount(J, c) THEN w.hi[c] ELSE KeyAt(J, c, m + j)
      BY <3>2, <3>3, <2>5, <2>6, <2>8, Zenon
    <3>7. v.lo[x] = IF j = 1 THEN v.lo[q] ELSE KeyAt(N, q, j - 1)
      BY <2>8, <3>2, <3>4, <3>5, <3>6
    <3>8. v.hi[x] = IF j = KidCount(N, q) THEN v.hi[q] ELSE KeyAt(N, q, j)
      BY <2>8, <3>2, <3>4, <3>5, <3>6
    <3> QED BY <2>8, <3>5, <3>6, <3>7, <3>8
  <2> QED BY <2>3, <2>4, <2>7, <2>8, <1>5 DEF PlacesCut
<1>16. Apart(N, v)
  <2>1. /\ \A q, s \in w.pages : w.height[s] <= w.height[q] /\ q /= s =>
             \/ w.hi[q] <= w.lo[s] \/ w.hi[s] <= w.lo[q]
             \/ w.height[s] < w.height[q] /\ w.lo[q] <= w.lo[s] /\ w.hi[s] <= w.hi[q]
        /\ \A q, s \in w.pages : w.height[s] < w.height[q] =>
             \A j \in 1 .. Count(J, q) : KeyAt(J, q, j) <= w.lo[s] \/ w.hi[s] <= KeyAt(J, q, j)
    BY Zenon DEF Shape, Apart
  <2>3. ASSUME NEW q \in v.pages, NEW s \in v.pages, v.height[s] <= v.height[q], q /= s
        PROVE  \/ v.hi[q] <= v.lo[s] \/ v.hi[s] <= v.lo[q]
               \/ v.height[s] < v.height[q] /\ v.lo[q] <= v.lo[s] /\ v.hi[s] <= v.hi[q]
    <3>1. CASE O(q) /= O(s)
      <4> HIDE DEF O
      <4>1. \/ w.hi[O(q)] <= w.lo[O(s)] \/ w.hi[O(s)] <= w.lo[O(q)]
            \/ w.height[O(s)] < w.height[O(q)] /\ w.lo[O(q)] <= w.lo[O(s)] /\ w.hi[O(s)] <= w.hi[O(q)]
        BY <2>1, <1>20, <2>3, <3>1, Zenon
      <4>2. CASE w.hi[O(q)] <= w.lo[O(s)] \/ w.hi[O(s)] <= w.lo[O(q)]
        BY <4>2, <1>20, SMT
      <4>3. CASE w.height[O(s)] < w.height[O(q)] /\ w.lo[O(q)] <= w.lo[O(s)] /\ w.hi[O(s)] <= w.hi[O(q)]
        <5>1. w.lo[O(q)] <= v.lo[s] /\ v.hi[s] <= w.hi[O(q)] /\ v.height[s] < v.height[q]
          BY <4>3, <1>20, SMT
        <5>2. CASE q /= c /\ q /= d
          <6>1. v.lo[q] = w.lo[O(q)] /\ v.hi[q] = w.hi[O(q)]
            BY <5>2, <1>4, <1>5, Zenon DEF PlacesCut, O
          <6> QED BY <5>1, <6>1
        <5>3. CASE q = c \/ q = d
          <6>1. O(q) = c
            BY <5>3, <1>4 DEF O
          <6>2. k <= v.lo[s] \/ v.hi[s] <= k
            <7>1. m \in 1 .. Count(J, c) /\ k = KeyAt(J, c, m)
              BY <1>3 DEF CutCounts, CutKeys
            <7>2. k <= w.lo[O(s)] \/ w.hi[O(s)] <= k
              BY <7>1, <6>1, <4>3, <2>1, <1>20, Zenon
            <7>3. k \in Int
              BY <1>3 DEF CutKeys
            <7> QED BY <7>2, <7>3, <1>20, SMT
          <6>3. (q = c /\ v.lo[q] = w.lo[c] /\ v.hi[q] = k) \/ (q = d /\ v.lo[q] = k /\ v.hi[q] = w.hi[c])
            BY <5>3, <1>4, <1>5 DEF PlacesCut
          <6> QED BY <5>1, <6>1, <6>2, <6>3
        <5> QED BY <5>2, <5>3
      <4> QED BY <4>1, <4>2, <4>3
    <3>2. CASE O(q) = O(s)
      <4>1. (q = c /\ s = d) \/ (q = d /\ s = c)
        BY <2>3, <3>2
      <4>2. v.hi[c] = v.lo[d] /\ v.lo[d] = k /\ k \in Int
        BY <1>3, <1>5 DEF CutKeys, PlacesCut
      <4> QED BY <4>1, <4>2, SMT
    <3> QED BY <3>1, <3>2
  <2>4. ASSUME NEW s \in v.pages, NEW x \in w.pages, w.height[O(s)] < w.height[x],
               NEW j \in 1 .. Count(J, x), KeyAt(J, x, j) \in Int
        PROVE  KeyAt(J, x, j) <= v.lo[s] \/ v.hi[s] <= KeyAt(J, x, j)
    <3> HIDE DEF O
    <3>1. KeyAt(J, x, j) <= w.lo[O(s)] \/ w.hi[O(s)] <= KeyAt(J, x, j)
      BY <2>1, <1>20, <2>4, Zenon
    <3> QED BY <3>1, <1>20, <2>4, SMT
  <2>5. ASSUME NEW s \in v.pages, v.height[s] < v.height[p]
        PROVE  k <= v.lo[s] \/ v.hi[s] <= k
    <3>1. v.height[p] = w.height[c] + 1 /\ w.height[c] \in Nat /\ k \in Int
      BY <1>3, <1>4, <1>5, <1>6, Zenon DEF PlacesCut, KidIn, CutKeys
    <3>2. CASE O(s) = c
      <4>1. (s = c /\ v.hi[s] = k) \/ (s = d /\ v.lo[s] = k)
        BY <3>2, <1>5 DEF PlacesCut
      <4> QED BY <4>1, <3>1, SMT
    <3> HIDE DEF O
    <3>3. CASE O(s) /= c /\ w.height[O(s)] = w.height[c]
      <4>0. w.height[O(s)] <= w.height[c] /\ ~(w.height[O(s)] < w.height[c])
        BY <3>1, <3>3, SMT
      <4>1. w.hi[O(s)] <= w.lo[c] \/ w.hi[c] <= w.lo[O(s)]
        BY <2>1, <1>20, <3>3, <1>4, <4>0, Zenon
      <4> QED BY <4>1, <1>20, <1>6, <1>8, <3>1, SMT DEF KidIn
    <3>4. CASE w.height[O(s)] < w.height[c]
      <4>1. m \in 1 .. Count(J, c) /\ k = KeyAt(J, c, m)
        BY <1>3 DEF CutCounts, CutKeys
      <4> QED BY <4>1, <2>4, <3>1, <3>4, <1>4, Zenon
    <3>5. w.height[O(s)] = w.height[c] \/ w.height[O(s)] < w.height[c]
      BY <1>20, <2>5, <3>1, SMT
    <3> QED BY <3>2, <3>3, <3>4, <3>5
  <2>6. ASSUME NEW q \in v.pages, NEW s \in v.pages, v.height[s] < v.height[q], NEW j \in 1 .. Count(N, q)
        PROVE  KeyAt(N, q, j) <= v.lo[s] \/ v.hi[s] <= KeyAt(N, q, j)
    <3>0. w.height[O(s)] < w.height[O(q)] /\ O(q) \in w.pages
      <4> HIDE DEF O
      <4> QED BY <1>20, <2>6, Zenon
    <3>1. ASSUME NEW n \in 1 .. Count(J, O(q)), KeyAt(J, O(q), n) \in Int
          PROVE  KeyAt(J, O(q), n) <= v.lo[s] \/ v.hi[s] <= KeyAt(J, O(q), n)
      <4> HIDE DEF O
      <4> QED BY <3>0, <3>1, <2>4, Zenon
    <3>2. CASE q \in w.pages \ {p, c}
      <4>1. O(q) = q /\ Count(N, q) = Count(J, q) /\ KeyAt(N, q, j) = KeyAt(J, q, j)
        BY <3>2, <1>4, <1>9, Zenon DEF SameNodes
      <4>2. KeyAt(J, q, j) \in Int
        BY <3>2, <4>1, NodeFacts DEF Shape
      <4> QED BY <3>1, <4>1, <4>2
    <3>3. CASE q = p
      <4>0. O(q) = p
        BY <3>3, <1>4
      <4>1. CASE j = i
        BY <4>1, <3>3, <2>5, <2>6, <1>3, Zenon DEF CutKeyOf
      <4>2. CASE j /= i
        <5>1. PICK n \in 1 .. Count(J, p) : KeyAt(N, p, j) = KeyAt(J, p, n)
          BY <4>2, <3>3, <1>3, Zenon DEF CutKeyOf
        <5>2. KeyAt(J, p, n) \in Int
          BY <1>3 DEF CutInts
        <5> QED BY <5>1, <5>2, <3>1, <3>3, <4>0
      <4> QED BY <4>1, <4>2
    <3>4. CASE q = c \/ q = d
      <4>0. O(q) = c
        BY <3>4, <1>4
      <4>1. PICK n \in 1 .. Count(J, c) : KeyAt(N, q, j) = KeyAt(J, c, n)
        BY <3>4, <1>3, Zenon DEF CutKeys
      <4>2. KeyAt(J, c, n) \in Int
        BY <1>3 DEF CutInts
      <4> QED BY <4>0, <4>1, <4>2, <3>1
    <3> QED BY <3>2, <3>3, <3>4, <1>5 DEF PlacesCut
  <2> QED BY <2>3, <2>6 DEF Apart
<1>17. Reached(N, root, v)
  <2> SUFFICES ASSUME NEW q \in v.pages \ {root}
               PROVE  \E s \in v.pages : \E j \in 1 .. KidCount(N, s) : KidAt(N, s, j) = q
    BY DEF Reached
  <2>0. p \in v.pages /\ c \in v.pages /\ d \in v.pages
    BY <1>4, <1>5 DEF PlacesCut
  <2>00. /\ KidCount(J, p) \in Nat /\ KidCount(N, p) = KidCount(J, p) + 1 /\ i \in Nat /\ 1 <= i /\ i <= KidCount(J, p)
         /\ KidCount(N, c) \in Nat /\ KidCount(N, d) \in Nat /\ KidCount(J, c) = KidCount(N, c) + KidCount(N, d)
    BY <1>2, NodeIs, SMT DEF CutNodes, CutKids
  <2>1. CASE q = d
    BY <2>0, <2>00, <2>1, <1>2, SMT DEF CutKids
  <2>2. CASE q /= d
    <3>1. PICK s \in w.pages : \E j \in 1 .. KidCount(J, s) : KidAt(J, s, j) = q
      BY <2>2, <1>5 DEF Shape, Reached, PlacesCut
    <3>2. PICK n \in 1 .. KidCount(J, s) : KidAt(J, s, n) = q
      BY <3>1
    <3>3. CASE s \in w.pages \ {p, c}
      <4>1. n \in 1 .. KidCount(N, s) /\ KidAt(N, s, n) = q /\ s \in v.pages
        BY <3>2, <3>3, <1>5, <1>9, Zenon DEF SameNodes, PlacesCut
      <4> QED BY <4>1
    <3>4. CASE s = p
      <4>1. KidAt(N, p, IF n <= i THEN n ELSE n + 1) = q
        BY <3>2, <3>4, <1>2, Zenon DEF CutKids
      <4>2. (IF n <= i THEN n ELSE n + 1) \in 1 .. KidCount(N, p)
        BY <3>4, <2>00, SMT
      <4> QED BY <4>1, <4>2, <2>0, Zenon
    <3>5. CASE s = c
      <4>1. CASE n <= KidCount(N, c)
        <5>1. n \in 1 .. KidCount(N, c)
          BY <4>1, <2>00, <3>5, SMT
        <5> QED BY <5>1, <3>2, <3>5, <2>0, <1>2, Zenon DEF CutKids
      <4>2. CASE ~(n <= KidCount(N, c))
        <5>1. n - KidCount(N, c) \in 1 .. KidCount(N, d) /\ KidCount(N, c) + (n - KidCount(N, c)) = n
          BY <4>2, <2>00, <3>5, SMT
        <5>2. KidAt(N, d, n - KidCount(N, c)) = KidAt(J, c, KidCount(N, c) + (n - KidCount(N, c)))
          BY <5>1, <1>2, Zenon DEF CutKids
        <5>3. KidAt(N, d, n - KidCount(N, c)) = q
          BY <5>1, <5>2, <3>2, <3>5
        <5> QED BY <5>1, <5>3, <2>0, Zenon
      <4> QED BY <4>1, <4>2
    <3> QED BY <3>3, <3>4, <3>5
  <2> QED BY <2>1, <2>2
<1> QED BY <1>10, <1>11, <1>12, <1>13, <1>14, <1>15, <1>16, <1>17 DEF Shape

(* The keys of c in J are those of c in N, then k, then those of d.        *)
JoinedKeyOf(J, N, c, d, k, m) ==
  \A j \in 1 .. Count(J, c) :
    /\ j < m => j \in 1 .. Count(N, c) /\ KeyAt(J, c, j) = KeyAt(N, c, j)
    /\ j = m => KeyAt(J, c, j) = k
    /\ j > m => j - m \in 1 .. Count(N, d) /\ KeyAt(J, c, j) = KeyAt(N, d, j - m)
    /\ j < m \/ j = m \/ j > m
    /\ j \in Nat

LEMMA JoinedKeys ==
  ASSUME NEW J, NEW N, NEW p, NEW i, NEW c, NEW d, NEW k, NEW m,
         CutCounts(J, N, p, i, c, d, m), CutKeys(J, N, p, i, c, d, k, m)
  PROVE  JoinedKeyOf(J, N, c, d, k, m)
<1> SUFFICES ASSUME NEW j \in 1 .. Count(J, c)
             PROVE  /\ j < m => j \in 1 .. Count(N, c) /\ KeyAt(J, c, j) = KeyAt(N, c, j)
                    /\ j = m => KeyAt(J, c, j) = k
                    /\ j > m => j - m \in 1 .. Count(N, d) /\ KeyAt(J, c, j) = KeyAt(N, d, j - m)
                    /\ j < m \/ j = m \/ j > m
                    /\ j \in Nat
  BY Zenon DEF JoinedKeyOf
<1>1. /\ j < m => j \in 1 .. Count(N, c)
      /\ j > m => j - m \in 1 .. Count(N, d) /\ m + (j - m) = j
      /\ j < m \/ j = m \/ j > m
      /\ j \in Nat
  BY SMT DEF CutCounts
<1>2. j < m => KeyAt(J, c, j) = KeyAt(N, c, j)
  BY <1>1, Zenon DEF CutKeys
<1>3. j > m => KeyAt(J, c, j) = KeyAt(N, d, j - m)
  <2> SUFFICES ASSUME j > m PROVE KeyAt(J, c, j) = KeyAt(N, d, j - m)
    OBVIOUS
  <2>1. KeyAt(N, d, j - m) = KeyAt(J, c, m + (j - m))
    BY <1>1, Zenon DEF CutKeys
  <2> QED BY <2>1, <1>1
<1>4. j = m => KeyAt(J, c, j) = k
  BY DEF CutKeys
<1> QED BY <1>1, <1>2, <1>3, <1>4

(* Where the keys of p in J are among those of p in N. *)
InNode(J, N, p, i) ==
  \A j \in 1 .. Count(J, p) :
    /\ j \in Nat /\ (j < i \/ i <= j)
    /\ j < i => j \in 1 .. Count(N, p) /\ KeyAt(J, p, j) = KeyAt(N, p, j)
    /\ i <= j => j + 1 \in 1 .. Count(N, p) /\ KeyAt(J, p, j) = KeyAt(N, p, j + 1)

LEMMA InNodeKeys ==
  ASSUME NEW J, NEW N, NEW p, NEW i, NEW c, NEW d, NEW k, NEW m,
         CutCounts(J, N, p, i, c, d, m), CutKeys(J, N, p, i, c, d, k, m)
  PROVE  InNode(J, N, p, i)
<1> SUFFICES ASSUME NEW j \in 1 .. Count(J, p)
             PROVE  /\ j \in Nat /\ (j < i \/ i <= j)
                    /\ j < i => j \in 1 .. Count(N, p) /\ KeyAt(J, p, j) = KeyAt(N, p, j)
                    /\ i <= j => j + 1 \in 1 .. Count(N, p) /\ KeyAt(J, p, j) = KeyAt(N, p, j + 1)
  BY Zenon DEF InNode
<1>1. /\ j \in Nat /\ (j < i \/ i <= j)
      /\ j < i => j \in 1 .. Count(N, p)
      /\ i <= j => j + 1 \in 1 .. Count(N, p) /\ ~(j < i)
  BY SMT DEF CutCounts
<1>2. KeyAt(J, p, j) = KeyAt(N, p, IF j < i THEN j ELSE j + 1)
  BY Zenon DEF CutKeys
<1> QED BY <1>1, <1>2

(* Kid x of s in N, at n, seen from the places w of J. *)
OtherKid(N, w, v, s, n, x) ==
  /\ x \in w.pages /\ w.height[s] = w.height[x] + 1
  /\ w.lo[x] = IF n = 1 THEN w.lo[s] ELSE KeyAt(N, s, n - 1)
  /\ w.hi[x] = IF n = KidCount(N, s) THEN v.hi[s] ELSE KeyAt(N, s, n)

(* The node at which an item can be cut out, cut in two; the reverse. *)
LEMMA Join ==
  ASSUME NEW J, NEW N, NEW root, NEW v, NEW p, NEW i, NEW c, NEW d,
         Shape(N, root, v), c \in v.pages, d \in v.pages,
         NEW w, w = JoinPlaces(v, c, d), CutOf(J, N, w, p, i, c, d),
         NEW k, k = KeyAt(N, p, i)
  PROVE  Shape(J, root, w) /\ PlacesCut(w, v, k, c, d)
<1>1. PICK m : m = Count(N, c) + 1
  OBVIOUS
<1>2. CutNodes(J, N, w, p, c, d) /\ CutKids(J, N, w, p, i, c, d)
  BY DEF CutOf
<1>3. /\ CutCounts(J, N, p, i, c, d, m) /\ CutKeys(J, N, p, i, c, d, k, m)
      /\ CutInts(J, N, p, c, d) /\ CutKeyOf(J, N, p, i, k)
  BY <1>1, CutFacts
<1>4. /\ p \in w.pages /\ c \in w.pages /\ p /= c /\ d \in Nat /\ d \notin w.pages /\ p /= d
      /\ p \in v.pages /\ c /= d
  BY <1>2 DEF CutNodes, JoinPlaces
<1>5. /\ i \in 1 .. KidCount(N, p) /\ i + 1 \in 1 .. KidCount(N, p) /\ i /= KidCount(N, p) /\ i + 1 /= 1
      /\ (i + 1) - 1 = i /\ i \in Nat /\ 1 <= i
      /\ KidCount(N, p) = KidCount(J, p) + 1 /\ KidCount(J, p) \in Nat /\ i \in 1 .. KidCount(J, p)
      /\ KidCount(J, p) = Count(J, p) + 1 /\ Count(J, p) \in Nat /\ Count(N, p) = Count(J, p) + 1
  <2>1. KidCount(N, p) = KidCount(J, p) + 1 /\ KidCount(J, p) \in Nat /\ i \in 1 .. KidCount(J, p)
    BY <1>2, NodeIs DEF CutKids, CutNodes
  <2>2. i \in 1 .. KidCount(N, p)
    BY <2>1, SMT
  <2>3. KidCount(N, p) = Count(N, p) + 1
    <3>1. KidBelow(N, root, v, p, i, KidAt(N, p, i))
      BY <2>2, <1>4, KidIsBelow
    <3> QED BY <3>1 DEF KidBelow
  <2> QED BY <2>1, <2>2, <2>3, <1>3, SMT DEF CutCounts
<1>6. KidAt(N, p, i) = c /\ KidAt(N, p, i + 1) = d
  BY <1>2 DEF CutKids
<1>7. KidIn(N, v, p, i, c) /\ KidIn(N, v, p, i + 1, d)
  BY <1>4, <1>5, <1>6, KidPlace
<1>8. c /= root /\ d /= root
  <2>1. KidBelow(N, root, v, p, i, c) /\ KidBelow(N, root, v, p, i + 1, d)
    BY <1>4, <1>5, <1>6, KidIsBelow
  <2> QED BY <2>1 DEF KidBelow
<1>9. v.hi[c] = k /\ v.lo[d] = k /\ v.height[d] = v.height[c]
  <2>1. v.hi[c] = KeyAt(N, p, i) /\ v.lo[d] = KeyAt(N, p, i)
    BY <1>5, <1>7 DEF KidIn
  <2>2. v.height[p] = v.height[c] + 1 /\ v.height[p] = v.height[d] + 1 /\ v.height[c] \in Nat /\ v.height[d] \in Nat
    BY <1>7 DEF KidIn
  <2> QED BY <2>1, <2>2, SMT
<1>10. PlacesCut(w, v, k, c, d)
  BY <1>4, <1>9, SMT DEF PlacesCut, JoinPlaces
<1>11. SameNodes(J, N, w, p, c)
  BY <1>2, CutSame
<1>12. PlacesOK(v)
  BY DEF Shape
<1>13. PlacesOK(w)
  <2>1. w.pages \subseteq v.pages
    BY DEF JoinPlaces
  <2> QED BY <2>1, <1>12, SMT DEF JoinPlaces, PlacesOK
<1>14. NodesOK(J, w)
  <2> SUFFICES ASSUME NEW q \in w.pages PROVE q \in DOMAIN J /\ J[q] \in Nodes
    BY DEF NodesOK
  <2>1. CASE q \in {p, c}
    BY <2>1, <1>2 DEF CutNodes
  <2>2. CASE q \notin {p, c}
    <3>1. q \in DOMAIN J /\ J[q] = N[q]
      BY <2>2, <1>2 DEF CutNodes
    <3>2. N[q] \in Nodes
      BY <1>10 DEF PlacesCut, Shape, NodesOK
    <3> QED BY <3>1, <3>2
  <2> QED BY <2>1, <2>2
<1>15. Topped(root, w)
  <2>1. root \in w.pages
    BY <1>8, <1>10 DEF PlacesCut, Shape, Topped
  <2>2. /\ v.lo[root] = 0 /\ v.hi[root] = KeyCount + 1
        /\ \A q \in v.pages : v.height[q] <= v.height[root] /\ v.lo[root] <= v.lo[q] /\ v.hi[q] <= v.hi[root]
    BY DEF Shape, Topped
  <2>3. /\ v.height[root] = w.height[root] /\ v.lo[root] = w.lo[root] /\ v.hi[root] = w.hi[root]
    BY <2>1, <1>8, <1>10 DEF PlacesCut
  <2>4. ASSUME NEW q \in w.pages
        PROVE  w.height[q] <= w.height[root] /\ w.lo[root] <= w.lo[q] /\ w.hi[q] <= w.hi[root]
    <3>1. q \in v.pages /\ v.height[q] = w.height[q] /\ v.lo[q] = w.lo[q]
      BY <1>10 DEF PlacesCut
    <3>2. CASE q = c
      <4>1. w.hi[q] = v.hi[d] /\ d \in v.pages
        BY <3>2, <1>10 DEF PlacesCut
      <4> QED BY <4>1, <3>1, <2>2, <2>3
    <3>3. CASE q /= c
      <4>1. w.hi[q] = v.hi[q]
        BY <3>3, <1>10 DEF PlacesCut
      <4> QED BY <4>1, <3>1, <2>2, <2>3
    <3> QED BY <3>2, <3>3
  <2> QED BY <2>1, <2>2, <2>3, <2>4 DEF Topped
<1>16. \A q \in w.pages : q \in v.pages /\ q /= d /\ v.height[q] = w.height[q] /\ v.lo[q] = w.lo[q]
                          /\ (q /= c => v.hi[q] = w.hi[q])
  BY <1>4, <1>10 DEF PlacesCut
<1>17. w.hi[c] = v.hi[d]
  BY <1>10 DEF PlacesCut
<1>18. /\ v.lo[c] < k /\ k < v.hi[d] /\ k \in Int
       /\ v.lo[c] \in Int /\ v.hi[d] \in Int /\ v.lo[p] \in Int /\ v.hi[p] \in Int
  BY <1>7, <1>9, <1>3 DEF KidIn, CutKeys
<1>19. Branching(J, w)
  <2> SUFFICES ASSUME NEW q \in w.pages
               PROVE  /\ J[q].leaf = (w.height[q] = 0)
                      /\ KidCount(J, q) = IF w.height[q] = 0 THEN 0 ELSE Count(J, q) + 1
    BY DEF Branching
  <2>1. \A s \in v.pages : /\ N[s].leaf = (v.height[s] = 0)
                           /\ KidCount(N, s) = IF v.height[s] = 0 THEN 0 ELSE Count(N, s) + 1
    BY DEF Shape, Branching
  <2>2. CASE q \in w.pages \ {p, c}
    <3>1. N[q] = J[q] /\ v.height[q] = w.height[q] /\ q \in v.pages
          /\ Count(N, q) = Count(J, q) /\ KidCount(N, q) = KidCount(J, q)
      BY <2>2, <1>11, <1>16, Zenon DEF SameNodes
    <3> QED BY <3>1, <2>1
  <2>3. CASE q = p
    <3>1. KidCount(J, p) = Count(J, p) + 1 /\ J[p].leaf = FALSE
      BY <1>2, <1>5 DEF CutNodes
    <3>2. w.height[p] /= 0
      BY <1>7, <1>16, <1>4 DEF KidIn
    <3> QED BY <2>3, <3>1, <3>2
  <2>4. CASE q = c
    <3>1. w.height[c] = v.height[c] /\ J[c].leaf = N[c].leaf
      BY <1>2, <1>4, <1>16 DEF CutNodes
    <3>2. N[c].leaf = (v.height[c] = 0)
      BY <2>1
    <3>3. KidCount(J, c) = IF w.height[c] = 0 THEN 0 ELSE Count(J, c) + 1
      BY <1>2, <1>3, SMT DEF CutKids, CutCounts
    <3> QED BY <2>4, <3>1, <3>2, <3>3
  <2> QED BY <2>2, <2>3, <2>4
<1>20. JoinedKeyOf(J, N, c, d, k, m) /\ InNode(J, N, p, i)
  BY <1>3, JoinedKeys, InNodeKeys
<1>21. \A s \in v.pages :
          /\ v.lo[s] < v.hi[s] /\ v.lo[s] \in Int /\ v.hi[s] \in Int /\ Count(N, s) \in Nat
          /\ \A j \in 1 .. Count(N, s) : v.lo[s] < KeyAt(N, s, j) /\ KeyAt(N, s, j) < v.hi[s] /\ KeyAt(N, s, j) \in Int
          /\ \A a, b \in 1 .. Count(N, s) : a < b => KeyAt(N, s, a) < KeyAt(N, s, b)
  <2> SUFFICES ASSUME NEW s \in v.pages
               PROVE  /\ v.lo[s] < v.hi[s] /\ v.lo[s] \in Int /\ v.hi[s] \in Int /\ Count(N, s) \in Nat
                      /\ \A j \in 1 .. Count(N, s) : v.lo[s] < KeyAt(N, s, j) /\ KeyAt(N, s, j) < v.hi[s]
                                                     /\ KeyAt(N, s, j) \in Int
                      /\ \A a, b \in 1 .. Count(N, s) : a < b => KeyAt(N, s, a) < KeyAt(N, s, b)
    OBVIOUS
  <2>1. v.lo[s] \in Int /\ v.hi[s] \in Int
    BY <1>12, PlacesAre
  <2>2. Count(N, s) \in Nat /\ \A j \in 1 .. Count(N, s) : KeyAt(N, s, j) \in Int
    BY NodeFacts DEF Shape
  <2>3. /\ v.lo[s] < v.hi[s]
        /\ \A j \in 1 .. Count(N, s) : v.lo[s] < KeyAt(N, s, j) /\ KeyAt(N, s, j) < v.hi[s]
        /\ \A a, b \in 1 .. Count(N, s) : a < b => KeyAt(N, s, a) < KeyAt(N, s, b)
    BY Zenon DEF Shape, Ordered
  <2> QED BY <2>1, <2>2, <2>3, Zenon
<1>22. Ordered(J, w)
  <2> SUFFICES ASSUME NEW q \in w.pages
               PROVE  /\ w.lo[q] < w.hi[q]
                      /\ \A j \in 1 .. Count(J, q) : w.lo[q] < KeyAt(J, q, j) /\ KeyAt(J, q, j) < w.hi[q]
                      /\ \A a, b \in 1 .. Count(J, q) : a < b => KeyAt(J, q, a) < KeyAt(J, q, b)
    BY Zenon DEF Ordered
  <2>2. CASE q \in w.pages \ {p, c}
    <3>1. v.lo[q] = w.lo[q] /\ v.hi[q] = w.hi[q] /\ q \in v.pages
      BY <2>2, <1>16, Zenon
    <3>2. Count(N, q) = Count(J, q) /\ \A j : KeyAt(N, q, j) = KeyAt(J, q, j)
      BY <1>11, <2>2, Zenon DEF SameNodes
    <3> QED BY <1>21, <3>1, <3>2
  <2>3. CASE q = p
    <3>1. v.lo[p] = w.lo[p] /\ v.hi[p] = w.hi[p] /\ w.lo[p] < w.hi[p]
      BY <1>4, <1>16, <1>21
    <3>2. ASSUME NEW j \in 1 .. Count(J, p) PROVE w.lo[p] < KeyAt(J, p, j) /\ KeyAt(J, p, j) < w.hi[p]
      BY <1>4, <1>20, <1>21, <3>1, Zenon DEF InNode
    <3>3. ASSUME NEW a \in 1 .. Count(J, p), NEW b \in 1 .. Count(J, p), a < b
          PROVE  KeyAt(J, p, a) < KeyAt(J, p, b)
      <4>1. a \in Nat /\ b \in Nat
        BY <1>20 DEF InNode
      <4>2. CASE b < i
        <5>1. a < i BY <4>1, <4>2, <3>3, <1>5, SMT
        <5> QED BY <5>1, <4>2, <3>3, <1>4, <1>20, <1>21, Zenon DEF InNode
      <4>3. CASE a < i /\ i <= b
        <5>1. a < b + 1 BY <4>1, <3>3, SMT
        <5> QED BY <5>1, <4>3, <3>3, <1>4, <1>20, <1>21, Zenon DEF InNode
      <4>4. CASE i <= a
        <5>1. i <= b /\ a + 1 < b + 1 BY <4>1, <4>4, <3>3, <1>5, SMT
        <5> QED BY <5>1, <4>4, <3>3, <1>4, <1>20, <1>21, Zenon DEF InNode
      <4> QED BY <4>2, <4>3, <4>4, <1>20 DEF InNode
    <3> QED BY <2>3, <3>1, <3>2, <3>3
  <2>4. CASE q = c
    <3>1. w.lo[c] = v.lo[c] /\ w.hi[c] = v.hi[d] /\ d \in v.pages /\ c \in v.pages
      BY <1>4, <1>16, <1>17
    <3>2. w.lo[c] < w.hi[c]
      BY <3>1, <1>18, SMT
    <3>3. \A j \in 1 .. Count(N, c) : w.lo[c] < KeyAt(N, c, j) /\ KeyAt(N, c, j) < k /\ KeyAt(N, c, j) < w.hi[c] /\ KeyAt(N, c, j) \in Int
      BY <3>1, <1>9, <1>18, <1>21, SMT
    <3>4. \A j \in 1 .. Count(N, d) : w.lo[c] < KeyAt(N, d, j) /\ k < KeyAt(N, d, j) /\ KeyAt(N, d, j) < w.hi[c] /\ KeyAt(N, d, j) \in Int
      BY <3>1, <1>9, <1>18, <1>21, SMT
    <3>5. w.lo[c] < k /\ k < w.hi[c]
      BY <3>1, <1>18
    <3>6. ASSUME NEW j \in 1 .. Count(J, c) PROVE w.lo[c] < KeyAt(J, c, j) /\ KeyAt(J, c, j) < w.hi[c]
      BY <3>3, <3>4, <3>5, <1>20, Zenon DEF JoinedKeyOf
    <3>7. ASSUME NEW a \in 1 .. Count(J, c), NEW b \in 1 .. Count(J, c), a < b
          PROVE  KeyAt(J, c, a) < KeyAt(J, c, b)
      <4>1. a \in Nat /\ b \in Nat /\ m \in Nat
        BY <1>20, <1>3 DEF JoinedKeyOf, CutCounts
      <4>2. CASE b < m
        <5>1. a < m BY <4>1, <4>2, <3>7, SMT
        <5> QED BY <5>1, <4>2, <3>7, <1>20, <1>21, Zenon DEF JoinedKeyOf
      <4>3. CASE b = m
        <5>1. a < m BY <4>1, <4>3, <3>7, SMT
        <5> QED BY <5>1, <4>3, <3>3, <1>20, Zenon DEF JoinedKeyOf
      <4>4. CASE b > m
        <5>0. b - m \in 1 .. Count(N, d) /\ KeyAt(J, c, b) = KeyAt(N, d, b - m)
          BY <4>4, <1>20 DEF JoinedKeyOf
        <5>1. CASE a < m
          <6>1. a \in 1 .. Count(N, c) /\ KeyAt(J, c, a) = KeyAt(N, c, a)
            BY <5>1, <1>20 DEF JoinedKeyOf
          <6>2. /\ KeyAt(N, c, a) < k /\ KeyAt(N, c, a) \in Int
                /\ k < KeyAt(N, d, b - m) /\ KeyAt(N, d, b - m) \in Int
            BY <6>1, <5>0, <3>3, <3>4
          <6> QED BY <6>1, <6>2, <5>0, <1>18, SMT
        <5>2. CASE a = m
          <6>1. KeyAt(J, c, a) = k
            BY <5>2, <1>20 DEF JoinedKeyOf
          <6> QED BY <6>1, <5>0, <3>4
        <5>3. CASE a > m
          <6>1. a - m < b - m BY <4>1, <3>7, SMT
          <6>2. a - m \in 1 .. Count(N, d) /\ KeyAt(J, c, a) = KeyAt(N, d, a - m)
            BY <5>3, <1>20 DEF JoinedKeyOf
          <6> QED BY <6>1, <6>2, <5>0, <1>21
        <5> QED BY <5>1, <5>2, <5>3, <1>20, Zenon DEF JoinedKeyOf
      <4> QED BY <4>2, <4>3, <4>4, <1>20, Zenon DEF JoinedKeyOf
    <3> QED BY <2>4, <3>2, <3>6, <3>7
  <2> QED BY <2>2, <2>3, <2>4
<1>23. Hanging(J, w)
  <2> SUFFICES ASSUME NEW q \in w.pages, NEW j \in 1 .. KidCount(J, q)
               PROVE  /\ KidAt(J, q, j) \in w.pages
                      /\ w.height[q] = w.height[KidAt(J, q, j)] + 1
                      /\ w.lo[KidAt(J, q, j)] = IF j = 1 THEN w.lo[q] ELSE KeyAt(J, q, j - 1)
                      /\ w.hi[KidAt(J, q, j)] = IF j = KidCount(J, q) THEN w.hi[q] ELSE KeyAt(J, q, j)
    BY Zenon DEF Hanging
  <2>1. \A s \in v.pages : \A n \in 1 .. KidCount(N, s) :
          /\ KidAt(N, s, n) \in v.pages
          /\ v.height[s] = v.height[KidAt(N, s, n)] + 1
          /\ v.lo[KidAt(N, s, n)] = IF n = 1 THEN v.lo[s] ELSE KeyAt(N, s, n - 1)
          /\ v.hi[KidAt(N, s, n)] = IF n = KidCount(N, s) THEN v.hi[s] ELSE KeyAt(N, s, n)
    BY Zenon DEF Shape, Hanging
  <2>2. \A s \in v.pages : \A n \in 1 .. KidCount(N, s) :
          /\ KidAt(N, s, n) = c => s = p /\ n = i
          /\ KidAt(N, s, n) = d => s = p /\ n = i + 1
    BY <1>4, <1>5, <1>6, OneParent
  (* another kid in N, and where it is in J *)
  <2>3. ASSUME NEW s \in v.pages, NEW n \in 1 .. KidCount(N, s), NEW x, x = KidAt(N, s, n),
               ~(s = p /\ (n = i \/ n = i + 1)), s /= d
        PROVE  OtherKid(N, w, v, s, n, x)
    <3>1. x /= c /\ x /= d /\ x \in v.pages
      BY <2>1, <2>2, <2>3, Zenon
    <3>2. x \in w.pages /\ s \in w.pages
      BY <3>1, <2>3, <1>10 DEF PlacesCut
    <3>3. v.height[x] = w.height[x] /\ v.lo[x] = w.lo[x] /\ v.hi[x] = w.hi[x] /\ v.height[s] = w.height[s] /\ v.lo[s] = w.lo[s]
      BY <3>1, <3>2, <1>16, Zenon
    <3>4. /\ v.height[s] = v.height[x] + 1
          /\ v.lo[x] = IF n = 1 THEN v.lo[s] ELSE KeyAt(N, s, n - 1)
          /\ v.hi[x] = IF n = KidCount(N, s) THEN v.hi[s] ELSE KeyAt(N, s, n)
      BY <2>1, <2>3
    <3> QED BY <3>2, <3>3, <3>4 DEF OtherKid
  <2> DEFINE x == KidAt(J, q, j)
  <2>4. CASE q \in w.pages \ {p, c}
    <3>1. KidCount(N, q) = KidCount(J, q) /\ \A n : KeyAt(N, q, n) = KeyAt(J, q, n) /\ KidAt(N, q, n) = KidAt(J, q, n)
      BY <1>11, <2>4, Zenon DEF SameNodes
    <3>2. q \in v.pages /\ q /= d /\ v.hi[q] = w.hi[q]
      BY <2>4, <1>16
    <3> HIDE DEF x
    <3>3. x = KidAt(N, q, j) /\ j \in 1 .. KidCount(N, q)
      BY <3>1 DEF x
    <3>4. /\ x \in w.pages /\ w.height[q] = w.height[x] + 1
          /\ w.lo[x] = IF j = 1 THEN w.lo[q] ELSE KeyAt(N, q, j - 1)
          /\ w.hi[x] = IF j = KidCount(N, q) THEN v.hi[q] ELSE KeyAt(N, q, j)
      <4>1. OtherKid(N, w, v, q, j, x)
        BY <2>3, <2>4, <3>2, <3>3
      <4> QED BY <4>1 DEF OtherKid
    <3> QED BY <3>1, <3>2, <3>4 DEF x
  <2>5. CASE q = p
    <3>1. KidAt(J, p, j) = KidAt(N, p, IF j <= i THEN j ELSE j + 1)
      BY <2>5, <1>2, Zenon DEF CutKids
    <3>2. j \in Nat /\ (j < i \/ j = i \/ j > i) /\ j >= 1 /\ j <= KidCount(J, p)
      BY <2>5, <1>5, SMT
    <3>3. v.hi[p] = w.hi[p] /\ v.lo[p] = w.lo[p]
      BY <1>4, <1>16
    <3>4. CASE j < i
      <4>1. /\ j \in 1 .. KidCount(N, p) /\ j /= i /\ j /= i + 1 /\ j <= i /\ j /= KidCount(J, p) /\ j /= KidCount(N, p)
            /\ j \in 1 .. Count(J, p) /\ (j /= 1 => j - 1 \in 1 .. Count(J, p) /\ j - 1 < i)
        BY <3>2, <3>4, <1>5, SMT
      <4>2. KeyAt(J, p, j) = KeyAt(N, p, j) /\ (j /= 1 => KeyAt(J, p, j - 1) = KeyAt(N, p, j - 1))
        BY <4>1, <3>4, <1>20, Zenon DEF InNode
      <4> HIDE DEF x
      <4>3. x = KidAt(N, p, j)
        BY <4>1, <3>1, <2>5 DEF x
      <4>4. /\ x \in w.pages /\ w.height[p] = w.height[x] + 1
            /\ w.lo[x] = IF j = 1 THEN w.lo[p] ELSE KeyAt(N, p, j - 1)
            /\ w.hi[x] = IF j = KidCount(N, p) THEN v.hi[p] ELSE KeyAt(N, p, j)
        <5>1. OtherKid(N, w, v, p, j, x)
          BY <2>3, <1>4, <4>1, <4>3
        <5> QED BY <5>1 DEF OtherKid
      <4> QED BY <2>5, <4>1, <4>2, <4>4 DEF x
    <3>5. CASE j = i
      <4>1. /\ j /= KidCount(N, p) /\ (j /= 1 => j - 1 \in 1 .. Count(J, p) /\ j - 1 < i)
            /\ (j /= KidCount(J, p) => j \in 1 .. Count(J, p) /\ i <= j /\ i + 1 /= KidCount(N, p))
            /\ (j = KidCount(J, p) => i + 1 = KidCount(N, p))
        BY <3>2, <3>5, <1>5, SMT
      <4>2. /\ j /= 1 => KeyAt(J, p, j - 1) = KeyAt(N, p, j - 1)
            /\ j /= KidCount(J, p) => KeyAt(J, p, j) = KeyAt(N, p, j + 1)
        BY <4>1, <3>5, <1>20, Zenon DEF InNode
      <4>3. x = c
        BY <2>5, <3>5, <1>2 DEF CutKids
      <4>4. c \in w.pages /\ w.height[p] = w.height[c] + 1 /\ w.lo[c] = v.lo[c] /\ w.hi[c] = v.hi[d]
        BY <1>4, <1>7, <1>16, <1>17 DEF KidIn
      <4>5. /\ v.lo[c] = IF j = 1 THEN w.lo[p] ELSE KeyAt(N, p, j - 1)
            /\ v.hi[d] = IF i + 1 = KidCount(N, p) THEN w.hi[p] ELSE KeyAt(N, p, j + 1)
        BY <1>7, <3>3, <3>5 DEF KidIn
      <4> HIDE DEF x
      <4>6. w.lo[x] = IF j = 1 THEN w.lo[p] ELSE KeyAt(J, p, j - 1)
        BY <4>2, <4>3, <4>4, <4>5, Zenon
      <4>7. w.hi[x] = IF j = KidCount(J, p) THEN w.hi[p] ELSE KeyAt(J, p, j)
        BY <4>1, <4>2, <4>3, <4>4, <4>5
      <4> QED BY <2>5, <4>3, <4>4, <4>6, <4>7 DEF x
    <3>6. CASE j > i
      <4>1. /\ j + 1 \in 1 .. KidCount(N, p) /\ ~(j <= i) /\ j + 1 /= i /\ j + 1 /= i + 1 /\ j /= 1 /\ j + 1 /= 1
            /\ (j + 1) - 1 = j /\ j - 1 \in 1 .. Count(J, p) /\ i <= j - 1 /\ (j - 1) + 1 = j
            /\ (j /= KidCount(J, p) => j \in 1 .. Count(J, p) /\ i <= j)
            /\ (j = KidCount(J, p) <=> j + 1 = KidCount(N, p))
        BY <3>2, <3>6, <1>5, SMT
      <4>2. /\ KeyAt(J, p, j - 1) = KeyAt(N, p, j)
            /\ j /= KidCount(J, p) => KeyAt(J, p, j) = KeyAt(N, p, j + 1)
        <5>1. KeyAt(J, p, j - 1) = KeyAt(N, p, (j - 1) + 1)
          BY <4>1, <1>20, Zenon DEF InNode
        <5>2. j /= KidCount(J, p) => KeyAt(J, p, j) = KeyAt(N, p, j + 1)
          BY <4>1, <1>20, Zenon DEF InNode
        <5> QED BY <5>1, <5>2, <4>1
      <4> HIDE DEF x
      <4>3. x = KidAt(N, p, j + 1)
        BY <4>1, <3>1, <2>5 DEF x
      <4>4. /\ x \in w.pages /\ w.height[p] = w.height[x] + 1
            /\ w.lo[x] = IF j + 1 = 1 THEN w.lo[p] ELSE KeyAt(N, p, (j + 1) - 1)
            /\ w.hi[x] = IF j + 1 = KidCount(N, p) THEN v.hi[p] ELSE KeyAt(N, p, j + 1)
        <5>1. OtherKid(N, w, v, p, j + 1, x)
          BY <2>3, <1>4, <4>1, <4>3
        <5> QED BY <5>1 DEF OtherKid
      <4> QED BY <2>5, <3>3, <4>1, <4>2, <4>4 DEF x
    <3> QED BY <3>2, <3>4, <3>5, <3>6
  <2>6. CASE q = c
    <3>1. v.height[c] /= 0
      <4>1. KidCount(J, c) /= 0
        BY <2>6, SMT
      <4>2. KidCount(J, c) = IF w.height[c] = 0 THEN 0 ELSE Count(J, c) + 1
        BY <1>19, <1>4 DEF Branching
      <4> QED BY <4>1, <4>2, <1>16, <1>4
    <3>2. /\ KidCount(N, c) = m /\ KidCount(N, d) = Count(N, d) + 1 /\ KidCount(J, c) = m + Count(N, d) + 1
          /\ m \in Nat /\ m /= 0 /\ Count(N, d) \in Nat /\ KidCount(J, c) = Count(J, c) + 1 /\ m = Count(N, c) + 1
      BY <3>1, <1>2, <1>3, <1>4, <1>16, SMT DEF CutKids, CutCounts
    <3>2a. j \in 1 .. m + Count(N, d) + 1
      BY <2>6, <3>2, Zenon
    <3>2b. m \in Nat /\ m /= 0 /\ Count(N, d) \in Nat
      BY <3>2
    <3>3. j \in Nat /\ (j <= m \/ j > m)
      BY <3>2a, <3>2b, SMT
    <3>4. CASE j <= m
      <4>1. /\ j \in 1 .. KidCount(N, c) /\ j /= KidCount(J, c) /\ (j /= m => j < m) /\ j \in 1 .. Count(J, c)
            /\ (j /= 1 => j - 1 \in 1 .. Count(J, c) /\ j - 1 < m)
        <5>1. /\ j \in 1 .. m /\ j /= m + Count(N, d) + 1 /\ (j /= m => j < m) /\ j \in 1 .. m + Count(N, d)
              /\ (j /= 1 => j - 1 \in 1 .. m + Count(N, d) /\ j - 1 < m)
          BY <3>2a, <3>2b, <3>4, SMT
        <5>2. Count(J, c) = m + Count(N, d)
          BY <1>3, <3>2, SMT DEF CutCounts
        <5> QED BY <5>1, <5>2, <3>2, Zenon
      <4>2. /\ j /= 1 => KeyAt(J, c, j - 1) = KeyAt(N, c, j - 1)
            /\ j /= m => KeyAt(J, c, j) = KeyAt(N, c, j)
            /\ j = m => KeyAt(J, c, j) = k
        BY <4>1, <1>20, Zenon DEF JoinedKeyOf
      <4> HIDE DEF x
      <4>3. x = KidAt(N, c, j)
        BY <4>1, <2>6, <1>2 DEF x, CutKids
      <4>4. /\ x \in w.pages /\ w.height[c] = w.height[x] + 1
            /\ w.lo[x] = IF j = 1 THEN w.lo[c] ELSE KeyAt(N, c, j - 1)
            /\ w.hi[x] = IF j = m THEN v.hi[c] ELSE KeyAt(N, c, j)
        <5>1. c \in v.pages /\ c /= p
          BY <1>4
        <5>2. OtherKid(N, w, v, c, j, x)
          BY <5>1, <2>3, <1>4, <4>1, <4>3
        <5> QED BY <5>2, <3>2 DEF OtherKid
      <4>5. w.lo[x] = IF j = 1 THEN w.lo[q] ELSE KeyAt(J, q, j - 1)
        BY <2>6, <4>2, <4>4
      <4>6. w.hi[x] = IF j = KidCount(J, q) THEN w.hi[q] ELSE KeyAt(J, q, j)
        BY <2>6, <4>1, <4>2, <4>4, <1>9
      <4> QED BY <2>6, <4>4, <4>5, <4>6 DEF x
    <3>5. CASE j > m
      <4>1. /\ j - m \in 1 .. KidCount(N, d) /\ KidCount(N, c) + (j - m) = j /\ j /= 1
            /\ j - 1 \in 1 .. Count(J, c) /\ (j - m = 1 => j - 1 = m) /\ (j - m /= 1 => j - 1 > m /\ (j - 1) - m = (j - m) - 1)
            /\ (j = KidCount(J, c) <=> j - m = KidCount(N, d))
            /\ (j /= KidCount(J, c) => j \in 1 .. Count(J, c))
        <5>1. /\ j - m \in 1 .. Count(N, d) + 1 /\ m + (j - m) = j /\ j /= 1
              /\ j - 1 \in 1 .. m + Count(N, d) /\ (j - m = 1 => j - 1 = m) /\ (j - m /= 1 => j - 1 > m /\ (j - 1) - m = (j - m) - 1)
              /\ (j = m + Count(N, d) + 1 <=> j - m = Count(N, d) + 1)
              /\ (j /= m + Count(N, d) + 1 => j \in 1 .. m + Count(N, d))
          BY <3>2a, <3>2b, <3>5, SMT
        <5>2. Count(J, c) = m + Count(N, d)
          BY <1>3, <3>2, SMT DEF CutCounts
        <5> QED BY <5>1, <5>2, <3>2, Zenon
      <4>2. /\ j - m = 1 => KeyAt(J, c, j - 1) = k
            /\ j - m /= 1 => KeyAt(J, c, j - 1) = KeyAt(N, d, (j - m) - 1)
            /\ j /= KidCount(J, c) => KeyAt(J, c, j) = KeyAt(N, d, j - m)
        <5>1. j - m = 1 => KeyAt(J, c, j - 1) = k
          BY <4>1, <1>20 DEF JoinedKeyOf
        <5>2. j - m /= 1 => KeyAt(J, c, j - 1) = KeyAt(N, d, (j - m) - 1)
          <6> SUFFICES ASSUME j - m /= 1 PROVE KeyAt(J, c, j - 1) = KeyAt(N, d, (j - m) - 1)
            OBVIOUS
          <6>1. KeyAt(J, c, j - 1) = KeyAt(N, d, (j - 1) - m)
            BY <4>1, <1>20, Zenon DEF JoinedKeyOf
          <6> QED BY <6>1, <4>1
        <5>3. j /= KidCount(J, c) => KeyAt(J, c, j) = KeyAt(N, d, j - m)
          BY <4>1, <3>5, <1>20, Zenon DEF JoinedKeyOf
        <5> QED BY <5>1, <5>2, <5>3
      <4> HIDE DEF x
      <4>3. x = KidAt(N, d, j - m)
        <5>1. KidAt(N, d, j - m) = KidAt(J, c, KidCount(N, c) + (j - m))
          BY <4>1, <1>2, Zenon DEF CutKids
        <5> QED BY <5>1, <4>1, <2>6 DEF x
      <4>4. /\ x \in v.pages /\ v.height[d] = v.height[x] + 1
            /\ v.lo[x] = IF j - m = 1 THEN v.lo[d] ELSE KeyAt(N, d, (j - m) - 1)
            /\ v.hi[x] = IF j - m = KidCount(N, d) THEN v.hi[d] ELSE KeyAt(N, d, j - m)
        BY <2>1, <4>1, <4>3, Zenon
      <4>5. x /= c /\ x /= d
        BY <2>2, <4>1, <4>3, <1>4, Zenon
      <4>6. x \in w.pages /\ w.lo[x] = v.lo[x] /\ w.hi[x] = v.hi[x] /\ w.height[x] = v.height[x] /\ w.height[c] = v.height[d]
        <5>1. x \in w.pages
          BY <4>4, <4>5, <1>10 DEF PlacesCut
        <5> QED BY <5>1, <4>5, <1>4, <1>9, <1>16, Zenon
      <4>7. w.lo[x] = IF j = 1 THEN w.lo[q] ELSE KeyAt(J, q, j - 1)
        BY <2>6, <4>1, <4>2, <4>4, <4>6, <1>9
      <4>8. w.hi[x] = IF j = KidCount(J, q) THEN w.hi[q] ELSE KeyAt(J, q, j)
        BY <2>6, <4>1, <4>2, <4>4, <4>6, <1>17
      <4> QED BY <2>6, <4>4, <4>6, <4>7, <4>8 DEF x
    <3> QED BY <3>3, <3>4, <3>5
  <2> QED BY <2>4, <2>5, <2>6
<1>24. Apart(J, w)
  <2>1. /\ \A q, s \in v.pages : v.height[s] <= v.height[q] /\ q /= s =>
             \/ v.hi[q] <= v.lo[s] \/ v.hi[s] <= v.lo[q]
             \/ v.height[s] < v.height[q] /\ v.lo[q] <= v.lo[s] /\ v.hi[s] <= v.hi[q]
        /\ \A q, s \in v.pages : v.height[s] < v.height[q] =>
             \A j \in 1 .. Count(N, q) : KeyAt(N, q, j) <= v.lo[s] \/ v.hi[s] <= KeyAt(N, q, j)
    BY Zenon DEF Shape, Apart
  <2>0. /\ v.lo[c] \in Int /\ v.hi[d] \in Int /\ k \in Int /\ v.hi[c] = k /\ v.lo[d] = k
        /\ v.lo[c] < k /\ k < v.hi[d]
        /\ w.lo[c] = v.lo[c] /\ w.hi[c] = v.hi[d] /\ w.height[c] = v.height[c] /\ v.height[d] = v.height[c]
        /\ v.height[c] \in Nat /\ c \in v.pages
    BY <1>4, <1>7, <1>9, <1>16, <1>17, <1>18 DEF KidIn
  <2>00. \A q \in w.pages : /\ v.lo[q] < v.hi[q] /\ v.lo[q] \in Int /\ v.hi[q] \in Int /\ v.height[q] \in Nat
                            /\ q \in v.pages /\ q /= d /\ v.height[q] = w.height[q] /\ v.lo[q] = w.lo[q]
                            /\ (q /= c => v.hi[q] = w.hi[q])
    BY <1>12, <1>16, <1>21, PlacesAre
  (* below or beside c *)
  <2>2. ASSUME NEW s \in w.pages, s /= c, w.height[s] <= w.height[c]
        PROVE  \/ w.hi[c] <= w.lo[s] \/ w.hi[s] <= w.lo[c]
               \/ w.height[s] < w.height[c] /\ w.lo[c] <= w.lo[s] /\ w.hi[s] <= w.hi[c]
    <3>1. \/ v.hi[c] <= v.lo[s] \/ v.hi[s] <= v.lo[c]
          \/ v.height[s] < v.height[c] /\ v.lo[c] <= v.lo[s] /\ v.hi[s] <= v.hi[c]
      BY <2>1, <2>2, <2>0, <2>00
    <3>2. \/ v.hi[d] <= v.lo[s] \/ v.hi[s] <= v.lo[d]
          \/ v.height[s] < v.height[d] /\ v.lo[d] <= v.lo[s] /\ v.hi[s] <= v.hi[d]
      BY <2>1, <2>2, <2>0, <2>00
    <3>3. v.lo[s] = w.lo[s] /\ v.hi[s] = w.hi[s] /\ v.height[s] = w.height[s] /\ v.lo[s] < v.hi[s]
          /\ v.lo[s] \in Int /\ v.hi[s] \in Int
      BY <2>2, <2>00
    <3> QED BY <3>1, <3>2, <3>3, <2>0, SMT
  (* above c: p, or beside p or above it *)
  <2>20. ASSUME NEW q \in w.pages, w.height[c] < w.height[q]
         PROVE  w.hi[q] <= w.lo[c] \/ w.hi[c] <= w.lo[q] \/ (w.lo[q] <= w.lo[c] /\ w.hi[c] <= w.hi[q])
    <3>1. v.lo[p] <= v.lo[c] /\ v.hi[d] <= v.hi[p] /\ v.height[p] = v.height[c] + 1
      BY <1>7 DEF KidIn
    <3>2. q /= c
      BY <2>20, <2>0, SMT
    <3>3. CASE q = p
      BY <3>1, <3>2, <3>3, <2>0, <2>00
    <3>4. CASE q /= p
      <4>1. v.height[p] <= v.height[q]
        BY <2>20, <3>1, <2>0, <2>00, SMT
      <4>2. \/ v.hi[q] <= v.lo[p] \/ v.hi[p] <= v.lo[q]
            \/ v.height[p] < v.height[q] /\ v.lo[q] <= v.lo[p] /\ v.hi[p] <= v.hi[q]
        BY <4>1, <3>4, <2>1, <2>00, <1>4
      <4>3. /\ v.lo[p] \in Int /\ v.hi[p] \in Int /\ v.lo[q] \in Int /\ v.hi[q] \in Int
            /\ v.lo[q] = w.lo[q] /\ v.hi[q] = w.hi[q]
        BY <3>2, <2>00, <1>4
      <4> QED BY <4>2, <4>3, <3>1, <2>0, SMT
    <3> QED BY <3>3, <3>4
  <2>3. ASSUME NEW q \in w.pages, NEW s \in w.pages, w.height[s] <= w.height[q], q /= s
        PROVE  \/ w.hi[q] <= w.lo[s] \/ w.hi[s] <= w.lo[q]
               \/ w.height[s] < w.height[q] /\ w.lo[q] <= w.lo[s] /\ w.hi[s] <= w.hi[q]
    <3>1. CASE q = c
      BY <3>1, <2>2, <2>3
    <3>2. CASE s = c
      <4>1. w.height[s] < w.height[q] \/ w.height[q] <= w.height[c]
        BY <3>2, <2>3, <2>00, SMT
      <4>2. CASE w.height[s] < w.height[q]
        BY <4>2, <3>2, <2>20, <2>3
      <4>3. CASE w.height[q] <= w.height[c] /\ ~(w.height[s] < w.height[q])
        <5>1. ~(w.height[q] < w.height[c])
          BY <3>2, <2>3, <2>00, SMT
        <5> QED BY <5>1, <4>3, <3>2, <2>2, <2>3
      <4> QED BY <4>1, <4>2, <4>3
    <3>3. CASE q /= c /\ s /= c
      BY <3>3, <2>1, <2>3, <2>00
    <3> QED BY <3>1, <3>2, <3>3
  (* a key of J is one of N, in the same node or in d or p, and not k in p *)
  <2>4. ASSUME NEW q \in w.pages, NEW j \in 1 .. Count(J, q)
        PROVE  \E x \in v.pages : \E n \in 1 .. Count(N, x) :
                 /\ KeyAt(J, q, j) = KeyAt(N, x, n) /\ (x = p => n /= i \/ q = c)
                 /\ w.height[q] <= v.height[x] /\ v.height[x] \in Nat /\ w.height[q] \in Nat
                 /\ (q /= c => x = q)
    <3>1. w.height[q] \in Nat /\ q \in v.pages /\ v.height[q] = w.height[q] /\ w.height[q] <= w.height[q]
      <4>1. w.height[q] \in Nat
        BY <1>13, PlacesAre
      <4> QED BY <4>1, <1>16, SMT
    <3>2. CASE q \in w.pages \ {p, c}
      <4>1. j \in 1 .. Count(N, q) /\ KeyAt(J, q, j) = KeyAt(N, q, j)
        BY <3>2, <1>11, Zenon DEF SameNodes
      <4> QED BY <3>1, <3>2, <4>1, Zenon
    <3>3. CASE q = p
      <4>1. \E n \in 1 .. Count(N, p) : KeyAt(J, p, j) = KeyAt(N, p, n) /\ n /= i
        <5>1. j \in Nat /\ i \in Nat
          BY <3>3, <1>20, <1>5 DEF InNode
        <5>2. (j < i => j /= i) /\ (i <= j => j + 1 /= i)
          BY <5>1, SMT
        <5> QED BY <5>2, <3>3, <1>20, Zenon DEF InNode
      <4> QED BY <3>1, <3>3, <4>1, <1>4, Zenon
    <3>4. CASE q = c
      <4>1. CASE j < m
        <5>1. j \in 1 .. Count(N, c) /\ KeyAt(J, c, j) = KeyAt(N, c, j)
          BY <3>4, <4>1, <1>20, Zenon DEF JoinedKeyOf
        <5> QED BY <3>1, <3>4, <5>1, <1>4, Zenon
      <4>2. CASE j = m
        <5>1. KeyAt(J, c, j) = KeyAt(N, p, i) /\ i \in 1 .. Count(N, p)
          BY <3>4, <4>2, <1>3, <1>5 DEF CutKeys
        <5>2. w.height[c] <= v.height[p] /\ v.height[p] \in Nat
          <6>1. v.height[p] = v.height[c] + 1 /\ v.height[c] \in Nat /\ v.height[c] = w.height[c]
            BY <1>7, <1>16, <1>4 DEF KidIn
          <6> QED BY <6>1, SMT
        <5> QED BY <3>1, <3>4, <5>1, <5>2, <1>4, Zenon
      <4>3. CASE j > m
        <5>1. j - m \in 1 .. Count(N, d) /\ KeyAt(J, c, j) = KeyAt(N, d, j - m)
          BY <3>4, <4>3, <1>20, Zenon DEF JoinedKeyOf
        <5>2. d \in v.pages /\ v.height[d] = w.height[c]
          BY <1>9, <1>16, <1>4
        <5> QED BY <3>1, <3>4, <5>1, <5>2, <1>4, Zenon
      <4> QED BY <4>1, <4>2, <4>3, <3>4, <1>20, Zenon DEF JoinedKeyOf
    <3> QED BY <3>2, <3>3, <3>4
  <2>5. ASSUME NEW q \in w.pages, NEW s \in w.pages, w.height[s] < w.height[q], NEW j \in 1 .. Count(J, q)
        PROVE  KeyAt(J, q, j) <= w.lo[s] \/ w.hi[s] <= KeyAt(J, q, j)
    <3>0. PICK x \in v.pages : \E n \in 1 .. Count(N, x) :
                 /\ KeyAt(J, q, j) = KeyAt(N, x, n) /\ (x = p => n /= i \/ q = c)
                 /\ w.height[q] <= v.height[x] /\ v.height[x] \in Nat /\ w.height[q] \in Nat
                 /\ (q /= c => x = q)
      BY <2>4
    <3>1. PICK n \in 1 .. Count(N, x) :
                 /\ KeyAt(J, q, j) = KeyAt(N, x, n) /\ (x = p => n /= i \/ q = c)
                 /\ w.height[q] <= v.height[x] /\ v.height[x] \in Nat /\ w.height[q] \in Nat
                 /\ (q /= c => x = q)
      BY <3>0
    <3>2. w.height[s] \in Nat /\ v.height[s] = w.height[s] /\ s \in v.pages /\ v.lo[s] = w.lo[s]
      BY <1>13, <1>16, PlacesAre
    <3>3. v.height[s] < v.height[x]
      BY <2>5, <3>1, <3>2, SMT
    <3>4. KeyAt(N, x, n) <= v.lo[s] \/ v.hi[s] <= KeyAt(N, x, n)
      BY <2>1, <3>2, <3>3
    <3>5. CASE s /= c
      BY <3>1, <3>2, <3>4, <3>5, <1>16
    <3>6. CASE s = c
      <4>1. q /= c /\ x = q
        BY <3>6, <3>1, <3>2, <2>5, SMT
      <4>2. KeyAt(N, q, n) <= v.lo[d] \/ v.hi[d] <= KeyAt(N, q, n)
        BY <2>1, <3>3, <3>6, <4>1, <1>9, <3>2
      <4>3. KeyAt(N, q, n) \in Int
        BY <4>1, <1>21
      <4>4. KeyAt(N, q, n) <= v.lo[c] \/ KeyAt(N, q, n) = k \/ v.hi[d] <= KeyAt(N, q, n)
        <5>1. KeyAt(N, q, n) <= v.lo[c] \/ k <= KeyAt(N, q, n)
          BY <3>4, <4>1, <3>6, <1>9
        <5>2. KeyAt(N, q, n) <= k \/ v.hi[d] <= KeyAt(N, q, n)
          BY <4>2, <1>9
        <5> QED BY <5>1, <5>2, <4>3, <1>18, SMT
      <4>5. KeyAt(N, q, n) /= k
        <5>1. CASE q = p
          <6>1. n /= i /\ i \in 1 .. Count(N, p) /\ n \in 1 .. Count(N, p) /\ Count(N, p) \in Nat
            BY <5>1, <4>1, <3>1, <1>5, SMT
          <6>2. n < i \/ i < n
            BY <6>1, SMT
          <6>3. KeyAt(N, p, n) < KeyAt(N, p, i) \/ KeyAt(N, p, i) < KeyAt(N, p, n)
            BY <6>1, <6>2, <1>4, <1>21
          <6> QED BY <6>3, <5>1, <4>3, <1>18, SMT
        <5> DEFINE y == KeyAt(N, q, n)
        <5>2. q \in v.pages /\ v.lo[q] < y /\ y < v.hi[q] /\ v.lo[q] \in Int /\ v.hi[q] \in Int /\ y \in Int
          BY <4>1, <1>16, <1>21
        <5>3. v.lo[p] < k /\ k < v.hi[p]
          BY <1>4, <1>5, <1>21
        <5> HIDE DEF y
        <5>4. CASE q /= p /\ v.height[q] = v.height[p]
          <6>0. v.height[p] <= v.height[q] /\ ~(v.height[p] < v.height[q])
            BY <5>4, <3>1, <4>1, SMT
          <6>1. v.hi[q] <= v.lo[p] \/ v.hi[p] <= v.lo[q]
            BY <5>2, <5>4, <6>0, <2>1, <1>4
          <6>2. y /= k
            BY <6>1, <5>2, <5>3, <1>18, SMT
          <6> QED BY <6>2 DEF y
        <5>5. CASE v.height[p] < v.height[q]
          <6>1. y <= v.lo[p] \/ v.hi[p] <= y
            BY <5>2, <5>5, <2>1, <1>4, <4>1 DEF y
          <6>2. y /= k
            BY <6>1, <5>2, <5>3, <1>18, SMT
          <6> QED BY <6>2 DEF y
        <5>6. v.height[q] = v.height[p] \/ v.height[p] < v.height[q]
          <6>1. v.height[p] = v.height[c] + 1 /\ v.height[c] \in Nat
            BY <1>7 DEF KidIn
          <6>2. v.height[c] < v.height[q] /\ v.height[q] \in Nat
            BY <3>1, <3>3, <3>6, <4>1
          <6> QED BY <6>1, <6>2, SMT
        <5> QED BY <5>1, <5>4, <5>5, <5>6
      <4>6. KeyAt(N, q, n) <= v.lo[c] \/ v.hi[d] <= KeyAt(N, q, n)
        BY <4>4, <4>5
      <4> QED BY <4>1, <4>6, <3>1, <3>2, <3>6, <1>17
    <3> QED BY <3>5, <3>6
  <2> QED BY <2>3, <2>5 DEF Apart
<1>25. Reached(J, root, w)
  <2> SUFFICES ASSUME NEW q \in w.pages \ {root}
               PROVE  \E s \in w.pages : \E j \in 1 .. KidCount(J, s) : KidAt(J, s, j) = q
    BY DEF Reached
  <2>0. /\ KidCount(N, c) \in Nat /\ KidCount(N, d) \in Nat /\ KidCount(J, c) = KidCount(N, c) + KidCount(N, d)
    BY <1>2, NodeIs DEF CutNodes, CutKids
  <2>1. CASE q = c
    BY <2>1, <1>2, <1>4, <1>5, Zenon DEF CutKids
  <2>2. CASE q /= c
    <3>1. PICK s \in v.pages : \E j \in 1 .. KidCount(N, s) : KidAt(N, s, j) = q
      <4>1. q \in v.pages \ {root}
        BY <1>16
      <4> QED BY <4>1 DEF Shape, Reached
    <3>2. PICK n \in 1 .. KidCount(N, s) : KidAt(N, s, n) = q
      BY <3>1
    <3>3. CASE s \in w.pages \ {p, c}
      <4>1. n \in 1 .. KidCount(J, s) /\ KidAt(J, s, n) = q /\ s \in w.pages
        BY <3>2, <3>3, <1>11, Zenon DEF SameNodes
      <4> QED BY <4>1
    <3>4. CASE s = p
      <4>1. n /= i /\ n /= i + 1
        BY <3>2, <3>4, <2>2, <1>6, <1>16
      <4>2. CASE n < i
        <5>1. n \in 1 .. KidCount(J, p) /\ n <= i
          BY <4>2, <3>4, <1>5, SMT
        <5>2. KidAt(J, p, n) = q
          BY <5>1, <3>2, <3>4, <1>2, Zenon DEF CutKids
        <5> QED BY <5>1, <5>2, <1>4, Zenon
      <4>3. CASE ~(n < i)
        <5>1. n - 1 \in 1 .. KidCount(J, p) /\ ~(n - 1 <= i) /\ (n - 1) + 1 = n
          BY <4>1, <4>3, <3>4, <1>5, SMT
        <5>2. KidAt(J, p, n - 1) = KidAt(N, p, IF n - 1 <= i THEN n - 1 ELSE (n - 1) + 1)
          BY <5>1, <1>2, Zenon DEF CutKids
        <5>3. KidAt(J, p, n - 1) = q
          BY <5>1, <5>2, <3>2, <3>4
        <5> QED BY <5>1, <5>3, <1>4, Zenon
      <4> QED BY <4>2, <4>3
    <3>5. CASE s = c
      <4>1. n \in 1 .. KidCount(J, c) /\ n \in 1 .. KidCount(N, c)
        BY <2>0, <3>5, SMT
      <4> QED BY <4>1, <3>2, <3>5, <1>2, <1>4, Zenon DEF CutKids
    <3>6. CASE s = d
      <4>1. KidCount(N, c) + n \in 1 .. KidCount(J, c) /\ n \in 1 .. KidCount(N, d)
        BY <2>0, <3>6, SMT
      <4> QED BY <4>1, <3>2, <3>6, <1>2, <1>4, Zenon DEF CutKids
    <3> QED BY <3>3, <3>4, <3>5, <3>6, <1>10 DEF PlacesCut
  <2> QED BY <2>1, <2>2
<1> QED BY <1>10, <1>13, <1>14, <1>15, <1>19, <1>22, <1>23, <1>24, <1>25 DEF Shape

(* An item of the nodes at the places of w. *)
Held(nodes, w, it) == \E p \in w.pages : \E i \in 1 .. Count(nodes, p) : ItemAt(nodes, p, i) = it

LEMMA CutContents ==
  ASSUME NEW J, NEW N, NEW w, NEW v, NEW p, NEW i, NEW c, NEW d,
         CutOf(J, N, w, p, i, c, d), v.pages = w.pages \cup {d}
  PROVE  \A it : Held(J, w, it) <=> Held(N, v, it)
<1>1. PICK m : m = Count(N, c) + 1
  OBVIOUS
<1>2. CutNodes(J, N, w, p, c, d) /\ CutItems(J, N, p, i, c, d, m)
  BY <1>1 DEF CutOf
<1>3. SameNodes(J, N, w, p, c)
  BY <1>2, CutSame
<1>4. p \in w.pages /\ c \in w.pages /\ \A q \in w.pages : q \in v.pages
  BY <1>2 DEF CutNodes
<1>5. /\ Count(N, p) \in Nat /\ Count(J, p) \in Nat
      /\ Count(N, c) \in Nat /\ Count(N, d) \in Nat /\ Count(J, c) \in Nat
      /\ i \in 1 .. Count(N, p) /\ m = Count(N, c) + 1
      /\ Count(N, p) = Count(J, p) + 1 /\ Count(J, c) = Count(N, c) + Count(N, d) + 1
  BY <1>2, NodeIs DEF CutNodes, CutItems
<1>6. ASSUME NEW it, Held(J, w, it) PROVE Held(N, v, it)
  <2>1. PICK q \in w.pages : \E j \in 1 .. Count(J, q) : ItemAt(J, q, j) = it
    BY <1>6 DEF Held
  <2>2. PICK j \in 1 .. Count(J, q) : ItemAt(J, q, j) = it
    BY <2>1
  <2>3. CASE q \in w.pages \ {p, c}
    <3>1. j \in 1 .. Count(N, q) /\ ItemAt(N, q, j) = it /\ q \in v.pages
      BY <2>2, <2>3, <1>3, <1>4, Zenon DEF SameNodes
    <3> QED BY <3>1 DEF Held
  <2>4. CASE q = p
    <3>1. ItemAt(N, p, IF j < i THEN j ELSE j + 1) = it
      BY <2>2, <2>4, <1>2, Zenon DEF CutItems
    <3>2. (IF j < i THEN j ELSE j + 1) \in 1 .. Count(N, p)
      BY <2>4, <1>5, SMT
    <3> QED BY <3>1, <3>2, <1>4, Zenon DEF Held
  <2>5. CASE q = c
    <3>1. j < m \/ j = m \/ j > m
      BY <2>5, <1>5, SMT
    <3>2. CASE j < m
      <4>1. j \in 1 .. Count(N, c)
        BY <3>2, <2>5, <1>5, SMT
      <4> QED BY <4>1, <2>2, <2>5, <1>2, <1>4, Zenon DEF CutItems, Held
    <3>3. CASE j = m
      BY <3>3, <2>2, <2>5, <1>2, <1>4, <1>5, Zenon DEF CutItems, Held
    <3>4. CASE j > m
      <4>1. j - m \in 1 .. Count(N, d) /\ m + (j - m) = j
        BY <3>4, <2>5, <1>5, SMT
      <4>2. ItemAt(N, d, j - m) = ItemAt(J, c, m + (j - m))
        BY <4>1, <1>2, Zenon DEF CutItems
      <4>3. ItemAt(N, d, j - m) = it /\ d \in v.pages
        BY <4>1, <4>2, <2>2, <2>5
      <4> QED BY <4>1, <4>3, Zenon DEF Held
    <3> QED BY <3>1, <3>2, <3>3, <3>4
  <2> QED BY <2>3, <2>4, <2>5
<1>7. ASSUME NEW it, Held(N, v, it) PROVE Held(J, w, it)
  <2>1. PICK q \in v.pages : \E j \in 1 .. Count(N, q) : ItemAt(N, q, j) = it
    BY <1>7 DEF Held
  <2>2. PICK j \in 1 .. Count(N, q) : ItemAt(N, q, j) = it
    BY <2>1
  <2>3. CASE q \in w.pages \ {p, c}
    <3>1. j \in 1 .. Count(J, q) /\ ItemAt(J, q, j) = it /\ q \in w.pages
      BY <2>2, <2>3, <1>3, <1>4, Zenon DEF SameNodes
    <3> QED BY <3>1 DEF Held
  <2>4. CASE q = p
    <3>1. CASE j < i
      <4>1. j \in 1 .. Count(J, p)
        BY <3>1, <2>4, <1>5, SMT
      <4>2. ItemAt(J, p, j) = ItemAt(N, p, IF j < i THEN j ELSE j + 1)
        BY <4>1, <1>2, Zenon DEF CutItems
      <4>3. ItemAt(J, p, j) = it
        BY <3>1, <4>2, <2>2, <2>4
      <4> QED BY <4>1, <4>3, <1>4, Zenon DEF Held
    <3>2. CASE j = i
      <4>1. m \in 1 .. Count(J, c)
        BY <1>5, SMT
      <4> QED BY <4>1, <3>2, <2>2, <2>4, <1>2, <1>4, Zenon DEF CutItems, Held
    <3>3. CASE j > i
      <4>1. j - 1 \in 1 .. Count(J, p) /\ ~(j - 1 < i) /\ (j - 1) + 1 = j
        BY <3>3, <2>4, <1>5, SMT
      <4>2. ItemAt(J, p, j - 1) = ItemAt(N, p, IF j - 1 < i THEN j - 1 ELSE (j - 1) + 1)
        BY <4>1, <1>2, Zenon DEF CutItems
      <4>3. ItemAt(J, p, j - 1) = it
        BY <4>1, <4>2, <2>2, <2>4
      <4> QED BY <4>1, <4>3, <1>4, Zenon DEF Held
    <3> QED BY <3>1, <3>2, <3>3, <2>4, <1>5, SMT
  <2>5. CASE q = c
    <3>1. j \in 1 .. Count(J, c)
      BY <2>5, <1>5, SMT
    <3> QED BY <3>1, <2>2, <2>5, <1>2, <1>4, Zenon DEF CutItems, Held
  <2>6. CASE q = d
    <3>1. m + j \in 1 .. Count(J, c)
      BY <2>6, <1>5, SMT
    <3> QED BY <3>1, <2>2, <2>6, <1>2, <1>4, Zenon DEF CutItems, Held
  <2> QED BY <2>3, <2>4, <2>5, <2>6
<1> QED BY <1>6, <1>7

(* The items are the same where the same are held. *)
LEMMA SameContents ==
  ASSUME NEW A, NEW w, NEW B, NEW v, \A it : Held(A, w, it) <=> Held(B, v, it)
  PROVE  Contents(A, w) = Contents(B, v)
  BY Zenon DEF Contents, Held

LEMMA HeldIsItem ==
  ASSUME NEW A, NEW w, NodesOK(A, w), NEW it, Held(A, w, it)
  PROVE  it \in Item /\ it \in Contents(A, w)
<1>1. PICK p \in w.pages : \E i \in 1 .. Count(A, p) : ItemAt(A, p, i) = it
  BY DEF Held
<1>2. A[p] \in Nodes
  BY DEF NodesOK
<1>3. it \in Item
  BY <1>1, <1>2, NodeIs
<1> QED BY <1>3, Zenon DEF Contents, Held

-----------------------------------------------------------------------------
(* Keys that take another value, in their order. *)
Rel(x, k, e) == IF x = k THEN e ELSE x
KeepsOrder(x, k, e) == x \in Int /\ (x /= k => x /= e /\ (x < k <=> x < e))

LEMMA RelMono ==
  ASSUME NEW k \in Int, NEW e \in Int, NEW x, KeepsOrder(x, k, e), NEW y, KeepsOrder(y, k, e)
  PROVE  /\ x < y => Rel(x, k, e) < Rel(y, k, e)
         /\ x <= y => Rel(x, k, e) <= Rel(y, k, e)
         /\ Rel(x, k, e) \in Int
  BY SMT DEF KeepsOrder, Rel

RelPlaces(w, k, e) ==
  [pages |-> w.pages, height |-> w.height,
   lo |-> [q \in w.pages |-> Rel(w.lo[q], k, e)], hi |-> [q \in w.pages |-> Rel(w.hi[q], k, e)]]

(* Node q of B has the kids of that of A, and its keys with e for k. *)
Relabelled(A, B, q, k, e) ==
  /\ q \in DOMAIN B /\ B[q] \in Nodes /\ B[q].leaf = A[q].leaf
  /\ Count(B, q) = Count(A, q) /\ KidCount(B, q) = KidCount(A, q)
  /\ \A j \in 1 .. Count(A, q) : KeyAt(B, q, j) = Rel(KeyAt(A, q, j), k, e)
  /\ \A j \in 1 .. KidCount(A, q) : KidAt(B, q, j) = KidAt(A, q, j)

LEMMA Relabel ==
  ASSUME NEW A, NEW B, NEW root, NEW w, Shape(A, root, w), NEW k \in Int, NEW e \in Int,
         k /= 0, k /= KeyCount + 1,
         \A q \in w.pages : Relabelled(A, B, q, k, e),
         \A q \in w.pages : /\ KeepsOrder(w.lo[q], k, e) /\ KeepsOrder(w.hi[q], k, e)
                            /\ \A j \in 1 .. Count(A, q) : KeepsOrder(KeyAt(A, q, j), k, e),
         NEW v, v = RelPlaces(w, k, e)
  PROVE  Shape(B, root, v)
<1> DEFINE R(x) == Rel(x, k, e)
<1>1. /\ v.pages = w.pages
      /\ \A q \in w.pages : v.height[q] = w.height[q] /\ v.lo[q] = R(w.lo[q]) /\ v.hi[q] = R(w.hi[q])
  BY SMT DEF RelPlaces
<1> DEFINE C(x) == KeepsOrder(x, k, e)
<1>2. ASSUME NEW x, C(x), NEW y, C(y)
      PROVE  (x < y => R(x) < R(y)) /\ (x <= y => R(x) <= R(y)) /\ R(x) \in Int
  BY <1>2, RelMono
<1>3. \A q \in w.pages : C(w.lo[q]) /\ C(w.hi[q]) /\ \A j \in 1 .. Count(A, q) : C(KeyAt(A, q, j))
  OBVIOUS
<1>4. \A q \in w.pages :
        /\ q \in DOMAIN B /\ B[q] \in Nodes /\ B[q].leaf = A[q].leaf
        /\ Count(B, q) = Count(A, q) /\ KidCount(B, q) = KidCount(A, q)
        /\ \A j \in 1 .. Count(A, q) : KeyAt(B, q, j) = R(KeyAt(A, q, j))
        /\ \A j \in 1 .. KidCount(A, q) : KidAt(B, q, j) = KidAt(A, q, j)
  BY DEF Relabelled
<1>5. R(0) = 0 /\ R(KeyCount + 1) = KeyCount + 1
  BY DEF Rel
<1> HIDE DEF R, C
<1>6. PlacesOK(v)
  <2>1. \A q \in w.pages : R(w.lo[q]) \in Int /\ R(w.hi[q]) \in Int
    BY <1>2, <1>3
  <2>2. PlacesOK(w)
    BY DEF Shape
  <2> QED BY <2>1, <2>2, SMT DEF PlacesOK, RelPlaces, R
<1>7. NodesOK(B, v)
  BY <1>1, <1>4 DEF NodesOK
<1>8. Topped(root, v)
  <2>1. /\ root \in w.pages /\ w.lo[root] = 0 /\ w.hi[root] = KeyCount + 1
        /\ \A q \in w.pages : w.height[q] <= w.height[root] /\ w.lo[root] <= w.lo[q] /\ w.hi[q] <= w.hi[root]
    BY DEF Shape, Topped
  <2>2. \A q \in w.pages : R(w.lo[root]) <= R(w.lo[q]) /\ R(w.hi[q]) <= R(w.hi[root])
    BY <2>1, <1>2, <1>3
  <2> QED BY <2>1, <2>2, <1>1, <1>5 DEF Topped
<1>9. Branching(B, v)
  BY <1>1, <1>4, Zenon DEF Shape, Branching
<1>10. Ordered(B, v)
  <2> SUFFICES ASSUME NEW q \in w.pages
               PROVE  /\ v.lo[q] < v.hi[q]
                      /\ \A j \in 1 .. Count(B, q) : v.lo[q] < KeyAt(B, q, j) /\ KeyAt(B, q, j) < v.hi[q]
                      /\ \A a, b \in 1 .. Count(B, q) : a < b => KeyAt(B, q, a) < KeyAt(B, q, b)
    BY <1>1, Zenon DEF Ordered
  <2>1. /\ w.lo[q] < w.hi[q]
        /\ \A j \in 1 .. Count(A, q) : w.lo[q] < KeyAt(A, q, j) /\ KeyAt(A, q, j) < w.hi[q]
        /\ \A a, b \in 1 .. Count(A, q) : a < b => KeyAt(A, q, a) < KeyAt(A, q, b)
    BY Zenon DEF Shape, Ordered
  <2>2. R(w.lo[q]) < R(w.hi[q])
    BY <2>1, <1>2, <1>3
  <2>3. \A j \in 1 .. Count(A, q) : R(w.lo[q]) < R(KeyAt(A, q, j)) /\ R(KeyAt(A, q, j)) < R(w.hi[q])
    BY <2>1, <1>2, <1>3
  <2>4. \A a, b \in 1 .. Count(A, q) : a < b => R(KeyAt(A, q, a)) < R(KeyAt(A, q, b))
    BY <2>1, <1>2, <1>3
  <2> QED BY <2>2, <2>3, <2>4, <1>1, <1>4
<1>11. Hanging(B, v)
  <2> SUFFICES ASSUME NEW q \in w.pages, NEW j \in 1 .. KidCount(A, q), NEW x, x = KidAt(A, q, j)
               PROVE  /\ x \in w.pages
                      /\ v.height[q] = v.height[x] + 1
                      /\ v.lo[x] = IF j = 1 THEN v.lo[q] ELSE KeyAt(B, q, j - 1)
                      /\ v.hi[x] = IF j = KidCount(A, q) THEN v.hi[q] ELSE KeyAt(B, q, j)
    <3>1. ASSUME NEW q \in w.pages, NEW j \in 1 .. KidCount(A, q)
          PROVE  LET x == KidAt(B, q, j)
                 IN /\ x \in w.pages
                    /\ v.height[q] = v.height[x] + 1
                    /\ v.lo[x] = IF j = 1 THEN v.lo[q] ELSE KeyAt(B, q, j - 1)
                    /\ v.hi[x] = IF j = KidCount(B, q) THEN v.hi[q] ELSE KeyAt(B, q, j)
      <4>1. KidAt(B, q, j) = KidAt(A, q, j) /\ KidCount(B, q) = KidCount(A, q)
        BY <1>4
      <4> QED BY <4>1
    <3> QED BY <3>1, <1>1, <1>4 DEF Hanging
  <2>1. KidIn(A, w, q, j, x)
    BY KidPlace
  <2>2. /\ x \in w.pages /\ w.height[q] = w.height[x] + 1
        /\ w.lo[x] = IF j = 1 THEN w.lo[q] ELSE KeyAt(A, q, j - 1)
        /\ w.hi[x] = IF j = KidCount(A, q) THEN w.hi[q] ELSE KeyAt(A, q, j)
        /\ KidCount(A, q) = Count(A, q) + 1 /\ Count(A, q) \in Nat
    BY <2>1 DEF KidIn
  <2>3. (j /= 1 => j - 1 \in 1 .. Count(A, q)) /\ (j /= KidCount(A, q) => j \in 1 .. Count(A, q))
    BY <2>2, SMT
  <2> QED BY <2>2, <2>3, <1>1, <1>4
<1>12. Apart(B, v)
  <2>1. /\ \A q, s \in w.pages : w.height[s] <= w.height[q] /\ q /= s =>
             \/ w.hi[q] <= w.lo[s] \/ w.hi[s] <= w.lo[q]
             \/ w.height[s] < w.height[q] /\ w.lo[q] <= w.lo[s] /\ w.hi[s] <= w.hi[q]
        /\ \A q, s \in w.pages : w.height[s] < w.height[q] =>
             \A j \in 1 .. Count(A, q) : KeyAt(A, q, j) <= w.lo[s] \/ w.hi[s] <= KeyAt(A, q, j)
    BY Zenon DEF Shape, Apart
  <2>2. ASSUME NEW q \in w.pages, NEW s \in w.pages, w.height[s] <= w.height[q], q /= s
        PROVE  \/ R(w.hi[q]) <= R(w.lo[s]) \/ R(w.hi[s]) <= R(w.lo[q])
               \/ w.height[s] < w.height[q] /\ R(w.lo[q]) <= R(w.lo[s]) /\ R(w.hi[s]) <= R(w.hi[q])
    BY <2>1, <2>2, <1>2, <1>3
  <2>3. ASSUME NEW q \in w.pages, NEW s \in w.pages, w.height[s] < w.height[q], NEW j \in 1 .. Count(A, q)
        PROVE  R(KeyAt(A, q, j)) <= R(w.lo[s]) \/ R(w.hi[s]) <= R(KeyAt(A, q, j))
    BY <2>1, <2>3, <1>2, <1>3
  <2>4. \A q, s \in w.pages : w.height[s] <= w.height[q] /\ q /= s =>
             \/ v.hi[q] <= v.lo[s] \/ v.hi[s] <= v.lo[q]
             \/ w.height[s] < w.height[q] /\ v.lo[q] <= v.lo[s] /\ v.hi[s] <= v.hi[q]
    BY <2>2, <1>1
  <2>5. \A q, s \in w.pages : w.height[s] < w.height[q] =>
             \A j \in 1 .. Count(B, q) : KeyAt(B, q, j) <= v.lo[s] \/ v.hi[s] <= KeyAt(B, q, j)
    BY <2>3, <1>1, <1>4
  <2> QED BY <2>4, <2>5, <1>1 DEF Apart
<1>13. Reached(B, root, v)
  <2> SUFFICES ASSUME NEW x \in w.pages \ {root}
               PROVE  \E q \in w.pages : \E j \in 1 .. KidCount(B, q) : KidAt(B, q, j) = x
    BY <1>1 DEF Reached
  <2>1. PICK q \in w.pages : \E j \in 1 .. KidCount(A, q) : KidAt(A, q, j) = x
    BY DEF Shape, Reached
  <2> QED BY <2>1, <1>4
<1> QED BY <1>6, <1>7, <1>8, <1>9, <1>10, <1>11, <1>12, <1>13 DEF Shape

(* A and B differ at p only. *)
OnlyAt(A, B, w, p) ==
  /\ p \in DOMAIN B /\ B[p] \in Nodes
  /\ \A q \in w.pages \ {p} : q \in DOMAIN B /\ B[q] = A[q]

LEMMA Others ==
  ASSUME NEW A, NEW B, NEW q, B[q] = A[q]
  PROVE  /\ Count(B, q) = Count(A, q) /\ KidCount(B, q) = KidCount(A, q)
         /\ \A j : ItemAt(B, q, j) = ItemAt(A, q, j) /\ KeyAt(B, q, j) = KeyAt(A, q, j) /\ KidAt(B, q, j) = KidAt(A, q, j)
  BY Zenon DEF Count, KidCount, ItemAt, KeyAt, KidAt

(* Another leaf in the place of leaf p. *)
LEMMA LeafChange ==
  ASSUME NEW A, NEW B, NEW root, NEW w, Shape(A, root, w), NEW p \in w.pages, w.height[p] = 0,
         OnlyAt(A, B, w, p), B[p].leaf = TRUE, KidCount(B, p) = 0,
         \A j \in 1 .. Count(B, p) : w.lo[p] < KeyAt(B, p, j) /\ KeyAt(B, p, j) < w.hi[p],
         \A a, b \in 1 .. Count(B, p) : a < b => KeyAt(B, p, a) < KeyAt(B, p, b)
  PROVE  Shape(B, root, w)
<1>1. \A q \in w.pages \ {p} :
        /\ q \in DOMAIN B /\ B[q] = A[q] /\ Count(B, q) = Count(A, q) /\ KidCount(B, q) = KidCount(A, q)
        /\ \A j : KeyAt(B, q, j) = KeyAt(A, q, j) /\ KidAt(B, q, j) = KidAt(A, q, j)
  BY Others DEF OnlyAt
<1>2. KidCount(A, p) = 0
  BY DEF Shape, Branching
<1>3. NodesOK(B, w)
  BY <1>1 DEF Shape, NodesOK, OnlyAt
<1>4. Branching(B, w)
  <2>1. \A q \in w.pages \ {p} : /\ B[q].leaf = (w.height[q] = 0)
                                 /\ KidCount(B, q) = IF w.height[q] = 0 THEN 0 ELSE Count(B, q) + 1
    BY <1>1 DEF Shape, Branching
  <2>2. /\ B[p].leaf = (w.height[p] = 0)
        /\ KidCount(B, p) = IF w.height[p] = 0 THEN 0 ELSE Count(B, p) + 1
    OBVIOUS
  <2> QED BY <2>1, <2>2, Zenon DEF Branching
<1>5. Ordered(B, w)
  <2>1. \A q \in w.pages : w.lo[q] < w.hi[q]
    BY DEF Shape, Ordered
  <2>2. ASSUME NEW q \in w.pages \ {p}
        PROVE  /\ \A j \in 1 .. Count(B, q) : w.lo[q] < KeyAt(B, q, j) /\ KeyAt(B, q, j) < w.hi[q]
               /\ \A a, b \in 1 .. Count(B, q) : a < b => KeyAt(B, q, a) < KeyAt(B, q, b)
    BY <1>1 DEF Shape, Ordered
  <2> QED BY <2>1, <2>2, Zenon DEF Ordered
<1>6. Hanging(B, w)
  <2> SUFFICES ASSUME NEW q \in w.pages, NEW j \in 1 .. KidCount(B, q)
               PROVE  /\ KidAt(B, q, j) \in w.pages
                      /\ w.height[q] = w.height[KidAt(B, q, j)] + 1
                      /\ w.lo[KidAt(B, q, j)] = IF j = 1 THEN w.lo[q] ELSE KeyAt(B, q, j - 1)
                      /\ w.hi[KidAt(B, q, j)] = IF j = KidCount(B, q) THEN w.hi[q] ELSE KeyAt(B, q, j)
    BY DEF Hanging
  <2>1. q /= p
    BY SMT
  <2> QED BY <2>1, <1>1 DEF Shape, Hanging
<1>7. Apart(B, w)
  <2>1. \A q, s \in w.pages : w.height[s] < w.height[q] => q /= p
    <3>1. \A s \in w.pages : w.height[s] \in Nat
      BY PlacesAre DEF Shape
    <3> QED BY <3>1, SMT
  <2>2. \A q, s \in w.pages : w.height[s] < w.height[q] =>
          \A j \in 1 .. Count(B, q) : KeyAt(B, q, j) <= w.lo[s] \/ w.hi[s] <= KeyAt(B, q, j)
    BY <2>1, <1>1 DEF Shape, Apart
  <2>3. \A q, s \in w.pages : w.height[s] <= w.height[q] /\ q /= s =>
          \/ w.hi[q] <= w.lo[s] \/ w.hi[s] <= w.lo[q]
          \/ w.height[s] < w.height[q] /\ w.lo[q] <= w.lo[s] /\ w.hi[s] <= w.hi[q]
    BY DEF Shape, Apart
  <2> QED BY <2>2, <2>3 DEF Apart
<1>8. Reached(B, root, w)
  <2> SUFFICES ASSUME NEW x \in w.pages \ {root}
               PROVE  \E q \in w.pages : \E j \in 1 .. KidCount(B, q) : KidAt(B, q, j) = x
    BY DEF Reached
  <2>1. PICK q \in w.pages : \E j \in 1 .. KidCount(A, q) : KidAt(A, q, j) = x
    BY DEF Shape, Reached
  <2>2. q /= p
    BY <2>1, <1>2, SMT
  <2> QED BY <2>1, <2>2, <1>1
<1> QED BY <1>3, <1>4, <1>5, <1>6, <1>7, <1>8 DEF Shape

-----------------------------------------------------------------------------
(* Where a key is.                                                         *)

LEMMA OneHolder ==
  ASSUME NEW A, NEW root, NEW w, Shape(A, root, w),
         NEW p \in w.pages, NEW i \in 1 .. Count(A, p), NEW q \in w.pages, NEW j \in 1 .. Count(A, q),
         KeyAt(A, p, i) = KeyAt(A, q, j)
  PROVE  p = q /\ i = j
<1> DEFINE k == KeyAt(A, p, i)
<1>1. /\ w.lo[p] < k /\ k < w.hi[p] /\ w.lo[q] < k /\ k < w.hi[q]
  BY DEF Shape, Ordered
<1>2. /\ k \in Int /\ w.lo[p] \in Int /\ w.hi[p] \in Int /\ w.lo[q] \in Int /\ w.hi[q] \in Int
      /\ w.height[p] \in Nat /\ w.height[q] \in Nat /\ Count(A, p) \in Nat
  <2>1. NodesOK(A, w) /\ PlacesOK(w)
    BY DEF Shape
  <2>2. k \in Int /\ Count(A, p) \in Nat
    BY <2>1, NodeFacts
  <2> QED BY <2>1, <2>2, PlacesAre
<1>3. p = q
  <2>1. w.height[q] < w.height[p] => k <= w.lo[q] \/ w.hi[q] <= k
    BY DEF Shape, Apart
  <2>2. w.height[p] < w.height[q] => k <= w.lo[p] \/ w.hi[p] <= k
    BY DEF Shape, Apart
  <2>3. w.height[p] = w.height[q] /\ p /= q => w.hi[p] <= w.lo[q] \/ w.hi[q] <= w.lo[p]
    <3>1. w.height[p] = w.height[q] => w.height[q] <= w.height[p] /\ ~(w.height[q] < w.height[p])
      BY <1>2, SMT
    <3> QED BY <3>1, Zenon DEF Shape, Apart
  <2> HIDE DEF k
  <2> QED BY <2>1, <2>2, <2>3, <1>1, <1>2, SMT
<1>4. \A a, b \in 1 .. Count(A, p) : a < b => KeyAt(A, p, a) < KeyAt(A, p, b)
  BY Zenon DEF Shape, Ordered
<1>5. ~(i < j) /\ ~(j < i)
  BY <1>2, <1>3, <1>4, SMT
<1> QED BY <1>2, <1>3, <1>5, SMT

(* A key that a leaf has room for is in no other node. *)
LEMMA LeafHolder ==
  ASSUME NEW A, NEW root, NEW w, Shape(A, root, w), NEW p \in w.pages, w.height[p] = 0,
         NEW q \in w.pages, NEW j \in 1 .. Count(A, q), NEW k, KeyAt(A, q, j) = k, w.lo[p] < k, k < w.hi[p]
  PROVE  q = p
<1>1. w.lo[q] < k /\ k < w.hi[q]
  BY DEF Shape, Ordered
<1>2. /\ k \in Int /\ w.lo[p] \in Int /\ w.hi[p] \in Int /\ w.lo[q] \in Int /\ w.hi[q] \in Int /\ w.height[q] \in Nat
  <2>1. NodesOK(A, w) /\ PlacesOK(w)
    BY DEF Shape
  <2>2. k \in Int
    BY <2>1, NodeFacts
  <2> QED BY <2>1, <2>2, PlacesAre
<1>3. w.height[p] < w.height[q] => k <= w.lo[p] \/ w.hi[p] <= k
  BY DEF Shape, Apart
<1>4. w.height[q] = 0 /\ p /= q => w.hi[p] <= w.lo[q] \/ w.hi[q] <= w.lo[p]
  <2>1. w.height[q] = 0 => w.height[q] <= w.height[p] /\ ~(w.height[q] < w.height[p])
    BY SMT
  <2> QED BY <2>1, Zenon DEF Shape, Apart
<1> QED BY <1>1, <1>2, <1>3, <1>4, SMT

(* B has one item more in p than A: it, at i. *)
Wider(A, B, p, i, it) ==
  /\ Count(B, p) = Count(A, p) + 1 /\ i \in 1 .. Count(B, p) /\ ItemAt(B, p, i) = it
  /\ \A j \in 1 .. Count(A, p) : ItemAt(A, p, j) = ItemAt(B, p, IF j < i THEN j ELSE j + 1)

(* Where item j of p in B is in A. *)
LEMMA WiderAt ==
  ASSUME NEW A, NEW B, NEW p, NEW i, NEW it, Wider(A, B, p, i, it), Count(A, p) \in Nat,
         NEW j \in 1 .. Count(B, p)
  PROVE  /\ j \in Nat /\ i \in Nat /\ (j < i \/ j = i \/ i < j)
         /\ j < i => j \in 1 .. Count(A, p) /\ ItemAt(B, p, j) = ItemAt(A, p, j)
         /\ i < j => j - 1 \in 1 .. Count(A, p) /\ ItemAt(B, p, j) = ItemAt(A, p, j - 1)
<1>1. /\ j \in Nat /\ i \in Nat /\ (j < i \/ j = i \/ i < j)
      /\ j < i => j \in 1 .. Count(A, p)
      /\ i < j => j - 1 \in 1 .. Count(A, p) /\ ~(j - 1 < i) /\ (j - 1) + 1 = j
  BY SMT DEF Wider
<1>2. j < i => ItemAt(B, p, j) = ItemAt(A, p, j)
  BY <1>1 DEF Wider
<1>3. ASSUME i < j PROVE ItemAt(B, p, j) = ItemAt(A, p, j - 1)
  <2>1. ItemAt(A, p, j - 1) = ItemAt(B, p, IF j - 1 < i THEN j - 1 ELSE (j - 1) + 1)
    BY <1>1, <1>3 DEF Wider
  <2> QED BY <2>1, <1>1, <1>3
<1> QED BY <1>1, <1>2, <1>3

LEMMA WiderHeld ==
  ASSUME NEW A, NEW B, NEW w, NEW p \in w.pages, NEW i, NEW it, Wider(A, B, p, i, it), Count(A, p) \in Nat,
         \A q \in w.pages \ {p} : B[q] = A[q]
  PROVE  \A x : Held(B, w, x) <=> Held(A, w, x) \/ x = it
<1>1. \A q \in w.pages \ {p} : Count(B, q) = Count(A, q) /\ \A j : ItemAt(B, q, j) = ItemAt(A, q, j)
  BY Others
<1>2. ASSUME NEW x, Held(B, w, x) PROVE Held(A, w, x) \/ x = it
  <2>1. PICK q \in w.pages : \E j \in 1 .. Count(B, q) : ItemAt(B, q, j) = x
    BY <1>2 DEF Held
  <2>2. PICK j \in 1 .. Count(B, q) : ItemAt(B, q, j) = x
    BY <2>1
  <2>3. CASE q /= p
    BY <2>2, <2>3, <1>1 DEF Held
  <2>4. CASE q = p
    <3>1. CASE j = i
      BY <3>1, <2>2, <2>4 DEF Wider
    <3>2. CASE j /= i
      <4>1. \E n \in 1 .. Count(A, p) : ItemAt(A, p, n) = x
        BY <3>2, <2>2, <2>4, WiderAt
      <4> QED BY <4>1 DEF Held
    <3> QED BY <3>1, <3>2
  <2> QED BY <2>3, <2>4
<1>3. ASSUME NEW x, Held(A, w, x) PROVE Held(B, w, x)
  <2>1. PICK q \in w.pages : \E j \in 1 .. Count(A, q) : ItemAt(A, q, j) = x
    BY <1>3 DEF Held
  <2>2. PICK j \in 1 .. Count(A, q) : ItemAt(A, q, j) = x
    BY <2>1
  <2>3. CASE q /= p
    BY <2>2, <2>3, <1>1 DEF Held
  <2>4. CASE q = p
    <3>1. (IF j < i THEN j ELSE j + 1) \in 1 .. Count(B, p)
      BY <2>4, SMT DEF Wider
    <3>2. ItemAt(B, p, IF j < i THEN j ELSE j + 1) = x
      BY <2>2, <2>4 DEF Wider
    <3> QED BY <3>1, <3>2 DEF Held
  <2> QED BY <2>3, <2>4
<1>4. Held(B, w, it)
  BY DEF Held, Wider
<1> QED BY <1>2, <1>3, <1>4

(* Key k is, or would be, after m items of p. *)
Located(A, p, k, m) ==
  /\ m \in Nat /\ m <= Count(A, p) /\ Count(A, p) \in Nat
  /\ \A j \in 1 .. Count(A, p) : KeyAt(A, p, j) \in Int /\ (j <= m => KeyAt(A, p, j) < k) /\ (m < j => k <= KeyAt(A, p, j))
  /\ Holds(A[p].items, k) <=> m + 1 \in 1 .. Count(A, p) /\ KeyAt(A, p, m + 1) = k
  /\ ~Holds(A[p].items, k) => \A j \in 1 .. Count(A, p) : m < j => k < KeyAt(A, p, j)

LEMMA NodeDomain ==
  ASSUME NEW A, NEW p, A[p] \in Nodes
  PROVE  DOMAIN A[p].items = 1 .. Count(A, p) /\ DOMAIN A[p].kids = 1 .. KidCount(A, p)
  BY SMT DEF Nodes, Count, KidCount

LEMMA Locate ==
  ASSUME NEW A, NEW root, NEW w, Shape(A, root, w), NEW p \in w.pages, NEW k \in Int,
         NEW m, m = Smaller(A[p].items, k)
  PROVE  Located(A, p, k, m)
<1> DEFINE n == Count(A, p)
           S == {j \in 1 .. n : KeyAt(A, p, j) < k}
<1>1. NodesOK(A, w) /\ PlacesOK(w)
  BY DEF Shape
<1>2. n \in Nat /\ A[p] \in Nodes /\ \A j \in 1 .. n : KeyAt(A, p, j) \in Int
  BY <1>1, NodeFacts
<1>3. \A a, b \in 1 .. n : a < b => KeyAt(A, p, a) < KeyAt(A, p, b)
  BY Zenon DEF Shape, Ordered
<1>4. S = {j \in DOMAIN A[p].items : A[p].items[j][1] < k}
  BY <1>2, NodeDomain DEF KeyAt, ItemAt
<1>5. m = Cardinality(S)
  BY <1>4 DEF Smaller
<1>6. Holds(A[p].items, k) <=> \E j \in 1 .. n : KeyAt(A, p, j) = k
  BY <1>2, NodeDomain, Zenon DEF Holds, KeyAt, ItemAt
<1> HIDE DEF n
<1>7. IsFiniteSet(1 .. n) /\ Cardinality(1 .. n) = n
  BY <1>2, FS_Interval, SMT
<1>8. IsFiniteSet(S) /\ m \in Nat /\ m <= n
  <2>1. S \in SUBSET (1 .. n)
    OBVIOUS
  <2> HIDE DEF S
  <2> QED BY <2>1, <1>5, <1>7, FS_Subset, FS_CardinalityType
<1>9. \A j \in S : j <= m
  <2> SUFFICES ASSUME NEW j \in S PROVE j <= m
    OBVIOUS
  <2>1. j \in 1 .. n /\ KeyAt(A, p, j) < k /\ j \in Nat /\ j >= 1
    BY <1>2, SMT
  <2>2. \A a \in 1 .. j : a \in 1 .. n /\ (a < j \/ a = j)
    BY <2>1, <1>2, SMT
  <2>3. \A a \in 1 .. j : KeyAt(A, p, a) < k
    <3> SUFFICES ASSUME NEW a \in 1 .. j PROVE KeyAt(A, p, a) < k
      OBVIOUS
    <3>1. a = j \/ KeyAt(A, p, a) < KeyAt(A, p, j)
      BY <2>1, <2>2, <1>3
    <3>2. KeyAt(A, p, a) \in Int /\ KeyAt(A, p, j) \in Int
      BY <2>1, <2>2, <1>2
    <3> QED BY <3>1, <3>2, <2>1, SMT
  <2>4. (1 .. j) \in SUBSET S
    BY <2>2, <2>3
  <2>5. Cardinality(1 .. j) = j
    BY <2>1, FS_Interval, SMT
  <2> HIDE DEF S
  <2> QED BY <2>4, <2>5, <1>5, <1>8, FS_Subset
<1>10. S = 1 .. m
  <2>1. S \in SUBSET (1 .. m)
    BY <1>2, <1>8, <1>9, SMT
  <2>2. IsFiniteSet(1 .. m) /\ Cardinality(1 .. m) = m
    BY <1>8, FS_Interval, SMT
  <2> HIDE DEF S
  <2> QED BY <2>1, <2>2, <1>5, FS_Subset
<1>11. \A j \in 1 .. n : (j <= m => KeyAt(A, p, j) < k) /\ (m < j => k <= KeyAt(A, p, j))
  <2> SUFFICES ASSUME NEW j \in 1 .. n
               PROVE  (j <= m => KeyAt(A, p, j) < k) /\ (m < j => k <= KeyAt(A, p, j))
    OBVIOUS
  <2>1. j <= m => j \in S
    BY <1>10, <1>8, <1>2, SMT
  <2>2. m < j => j \notin S
    BY <1>10, <1>8, <1>2, SMT
  <2>3. KeyAt(A, p, j) \in Int
    BY <1>2
  <2> QED BY <2>1, <2>2, <2>3, SMT
<1>12. ASSUME NEW j \in 1 .. n, KeyAt(A, p, j) = k PROVE m + 1 \in 1 .. n /\ KeyAt(A, p, m + 1) = k
  <2>1. m < j /\ m + 1 \in 1 .. n
    BY <1>12, <1>11, <1>8, <1>2, SMT
  <2>2. k <= KeyAt(A, p, m + 1) /\ KeyAt(A, p, m + 1) \in Int
    BY <2>1, <1>11, <1>8, <1>2, SMT
  <2>3. m + 1 < j => KeyAt(A, p, m + 1) < k
    BY <2>1, <1>3, <1>12
  <2>4. m + 1 = j \/ m + 1 < j
    BY <2>1, <1>8, <1>2, SMT
  <2> QED BY <2>1, <2>2, <2>3, <2>4, <1>12, SMT
<1>13. Holds(A[p].items, k) <=> m + 1 \in 1 .. n /\ KeyAt(A, p, m + 1) = k
  BY <1>6, <1>12
<1>14. ~Holds(A[p].items, k) => \A j \in 1 .. n : m < j => k < KeyAt(A, p, j)
  BY <1>6, <1>11, <1>2, SMT
<1> QED BY <1>2, <1>8, <1>11, <1>13, <1>14 DEF Located, n

(* The child where the search for k goes on. *)
LEMMA LocateKid ==
  ASSUME NEW A, NEW root, NEW w, Shape(A, root, w), NEW p \in w.pages, w.height[p] /= 0, NEW k \in Int,
         w.lo[p] < k, k < w.hi[p], NEW m, Located(A, p, k, m), ~Holds(A[p].items, k)
  PROVE  /\ m + 1 \in 1 .. KidCount(A, p)
         /\ w.lo[KidAt(A, p, m + 1)] < k /\ k < w.hi[KidAt(A, p, m + 1)]
<1>1. KidCount(A, p) = Count(A, p) + 1
  BY DEF Shape, Branching
<1>2. m + 1 \in 1 .. KidCount(A, p) /\ m \in Nat
  BY <1>1, SMT DEF Located
<1> DEFINE c == KidAt(A, p, m + 1)
<1>3. KidIn(A, w, p, m + 1, c)
  BY <1>2, KidPlace
<1>4. w.lo[c] < k
  <2>1. CASE m = 0
    BY <2>1, <1>3 DEF KidIn
  <2>2. CASE m /= 0
    <3>1. m \in 1 .. Count(A, p) /\ m + 1 /= 1 /\ (m + 1) - 1 = m /\ m <= m
      BY <2>2, SMT DEF Located
    <3> QED BY <3>1, <1>3 DEF KidIn, Located
  <2> QED BY <2>1, <2>2
<1>5. k < w.hi[c]
  <2>1. CASE m + 1 = KidCount(A, p)
    BY <2>1, <1>3 DEF KidIn
  <2>2. CASE m + 1 /= KidCount(A, p)
    <3>1. m + 1 \in 1 .. Count(A, p) /\ m < m + 1
      <4>1. Count(A, p) \in Nat
        BY DEF Located
      <4> QED BY <4>1, <2>2, <1>1, <1>2, SMT
    <3> QED BY <3>1, <2>2, <1>3 DEF KidIn, Located
  <2> QED BY <2>1, <2>2
<1> QED BY <1>2, <1>4, <1>5

-----------------------------------------------------------------------------
(* An item that comes into a leaf, or leaves it.                           *)

(* The tree is B, and it is the item that is new in it, or gone. *)
With(A, B, root, w, it) == Shape(B, root, w) /\ (\A x : Held(B, w, x) <=> Held(A, w, x) \/ x = it)
Without(A, B, root, w, it) == Shape(B, root, w) /\ (\A x : Held(B, w, x) <=> Held(A, w, x) /\ x /= it)

LEMMA LeafInsert ==
  ASSUME NEW A, NEW B, NEW root, NEW w, Shape(A, root, w), NEW p \in w.pages, w.height[p] = 0,
         OnlyAt(A, B, w, p), B[p].leaf = TRUE, KidCount(B, p) = 0,
         NEW m, NEW it, Wider(A, B, p, m + 1, it), NEW k \in Int, k = it[1], w.lo[p] < k, k < w.hi[p],
         Located(A, p, k, m), ~Holds(A[p].items, k)
  PROVE  With(A, B, root, w, it)
<1>1. Count(A, p) \in Nat /\ m \in Nat
  BY DEF Located
<1>2. \A j \in 1 .. Count(A, p) : /\ KeyAt(A, p, j) \in Int /\ (j <= m => KeyAt(A, p, j) < k) /\ (m < j => k < KeyAt(A, p, j))
                                  /\ w.lo[p] < KeyAt(A, p, j) /\ KeyAt(A, p, j) < w.hi[p]
  BY DEF Located, Shape, Ordered
<1>3. \A a, b \in 1 .. Count(A, p) : a < b => KeyAt(A, p, a) < KeyAt(A, p, b)
  BY Zenon DEF Shape, Ordered
<1>4. ASSUME NEW j \in 1 .. Count(B, p)
      PROVE  /\ j \in Nat /\ (j < m + 1 \/ j = m + 1 \/ m + 1 < j)
             /\ j < m + 1 => j \in 1 .. Count(A, p) /\ KeyAt(B, p, j) = KeyAt(A, p, j) /\ j <= m
             /\ j = m + 1 => KeyAt(B, p, j) = k
             /\ m + 1 < j => j - 1 \in 1 .. Count(A, p) /\ KeyAt(B, p, j) = KeyAt(A, p, j - 1) /\ m < j - 1
  <2>1. /\ j \in Nat /\ (j < m + 1 \/ j = m + 1 \/ m + 1 < j)
        /\ j < m + 1 => j \in 1 .. Count(A, p) /\ ItemAt(B, p, j) = ItemAt(A, p, j)
        /\ m + 1 < j => j - 1 \in 1 .. Count(A, p) /\ ItemAt(B, p, j) = ItemAt(A, p, j - 1)
    BY <1>1, WiderAt
  <2>2. j = m + 1 => ItemAt(B, p, j) = it
    BY DEF Wider
  <2>3. (j < m + 1 => j <= m) /\ (m + 1 < j => m < j - 1)
    BY <2>1, <1>1, SMT
  <2> QED BY <2>1, <2>2, <2>3 DEF KeyAt
<1>5. \A j \in 1 .. Count(B, p) : w.lo[p] < KeyAt(B, p, j) /\ KeyAt(B, p, j) < w.hi[p]
  BY <1>2, <1>4
<1>6. ASSUME NEW a \in 1 .. Count(B, p), NEW b \in 1 .. Count(B, p), a < b PROVE KeyAt(B, p, a) < KeyAt(B, p, b)
  <2>0. a \in Nat /\ b \in Nat
    BY <1>4
  <2>1. CASE b < m + 1
    <3>1. a < m + 1
      BY <2>0, <2>1, <1>1, <1>6, SMT
    <3> QED BY <3>1, <2>1, <1>3, <1>4, <1>6
  <2>2. CASE b = m + 1
    <3>1. a < m + 1
      BY <2>2, <1>6
    <3> QED BY <3>1, <2>2, <1>2, <1>4
  <2>3. CASE m + 1 < b
    <3>1. b - 1 \in 1 .. Count(A, p) /\ KeyAt(B, p, b) = KeyAt(A, p, b - 1) /\ k < KeyAt(A, p, b - 1) /\ KeyAt(A, p, b - 1) \in Int
      BY <2>3, <1>2, <1>4
    <3>2. CASE a < m + 1
      <4>1. KeyAt(B, p, a) < k /\ KeyAt(B, p, a) \in Int
        BY <3>2, <1>2, <1>4
      <4> QED BY <3>1, <4>1, SMT
    <3>3. CASE a = m + 1
      BY <3>1, <3>3, <1>4
    <3>4. CASE m + 1 < a
      <4>1. a - 1 < b - 1
        BY <2>0, <1>6, SMT
      <4>2. a - 1 \in 1 .. Count(A, p) /\ KeyAt(B, p, a) = KeyAt(A, p, a - 1)
        BY <3>4, <1>4
      <4> QED BY <4>1, <4>2, <3>1, <1>3
    <3> QED BY <3>2, <3>3, <3>4, <1>4
  <2> QED BY <2>1, <2>2, <2>3, <1>4
<1>7. Shape(B, root, w)
  BY <1>5, <1>6, LeafChange
<1>8. \A x : Held(B, w, x) <=> Held(A, w, x) \/ x = it
  BY <1>1, WiderHeld DEF OnlyAt
<1> QED BY <1>7, <1>8, Zenon DEF With

LEMMA LeafRemove ==
  ASSUME NEW A, NEW B, NEW root, NEW w, Shape(A, root, w), NEW p \in w.pages, w.height[p] = 0,
         OnlyAt(A, B, w, p), B[p].leaf = TRUE, KidCount(B, p) = 0,
         NEW i, NEW it, Wider(B, A, p, i, it)
  PROVE  Without(A, B, root, w, it)
<1>1. Count(B, p) \in Nat
  BY NodeIs DEF OnlyAt
<1>2. \A j \in 1 .. Count(A, p) : w.lo[p] < KeyAt(A, p, j) /\ KeyAt(A, p, j) < w.hi[p]
  BY DEF Shape, Ordered
<1>3. \A a, b \in 1 .. Count(A, p) : a < b => KeyAt(A, p, a) < KeyAt(A, p, b)
  BY Zenon DEF Shape, Ordered
<1> DEFINE P(j) == IF j < i THEN j ELSE j + 1
<1>4. ASSUME NEW j \in 1 .. Count(B, p)
      PROVE  /\ P(j) \in 1 .. Count(A, p) /\ KeyAt(B, p, j) = KeyAt(A, p, P(j)) /\ ItemAt(B, p, j) = ItemAt(A, p, P(j))
             /\ P(j) /= i
  <2>1. P(j) \in 1 .. Count(A, p) /\ P(j) /= i
    BY <1>1, SMT DEF Wider
  <2>2. ItemAt(B, p, j) = ItemAt(A, p, P(j))
    BY DEF Wider
  <2> QED BY <2>1, <2>2 DEF KeyAt
<1>5. \A j \in 1 .. Count(B, p) : w.lo[p] < KeyAt(B, p, j) /\ KeyAt(B, p, j) < w.hi[p]
  BY <1>2, <1>4
<1>6. ASSUME NEW a \in 1 .. Count(B, p), NEW b \in 1 .. Count(B, p), a < b PROVE KeyAt(B, p, a) < KeyAt(B, p, b)
  <2>1. P(a) < P(b)
    BY <1>6, <1>1, SMT DEF Wider
  <2> HIDE DEF P
  <2> QED BY <2>1, <1>3, <1>4
<1>7. Shape(B, root, w)
  BY <1>5, <1>6, LeafChange
<1>8. \A x : Held(A, w, x) <=> Held(B, w, x) \/ x = it
  <2>1. \A q \in w.pages \ {p} : A[q] = B[q]
    BY DEF OnlyAt
  <2> QED BY <2>1, <1>1, WiderHeld
<1>9. ~Held(B, w, it)
  <2> SUFFICES ASSUME Held(B, w, it) PROVE FALSE
    OBVIOUS
  <2>1. PICK q \in w.pages : \E j \in 1 .. Count(B, q) : ItemAt(B, q, j) = it
    BY DEF Held
  <2>2. PICK j \in 1 .. Count(B, q) : ItemAt(B, q, j) = it
    BY <2>1
  <2>3. i \in 1 .. Count(A, p) /\ KeyAt(A, p, i) = it[1]
    BY DEF Wider, KeyAt
  <2>4. CASE q /= p
    <3>1. j \in 1 .. Count(A, q) /\ KeyAt(A, q, j) = it[1]
      BY <2>2, <2>4, Others DEF OnlyAt, KeyAt
    <3> QED BY <3>1, <2>3, <2>4, OneHolder
  <2>5. CASE q = p
    <3>1. P(j) \in 1 .. Count(A, p) /\ P(j) /= i /\ KeyAt(A, p, P(j)) = it[1]
      BY <2>2, <2>5, <1>4 DEF KeyAt
    <3> HIDE DEF P
    <3> QED BY <3>1, <2>3, OneHolder
  <2> QED BY <2>4, <2>5
<1>10. \A x : Held(B, w, x) <=> Held(A, w, x) /\ x /= it
  BY <1>8, <1>9
<1> QED BY <1>7, <1>10, Zenon DEF Without

(* Between k and e, where leaf p lies, there is no other key. *)
LEMMA ClearKeys ==
  ASSUME NEW A, NEW root, NEW w, Shape(A, root, w), NEW k \in Int, NEW e \in Int,
         NEW p \in w.pages, w.height[p] = 0, w.lo[p] < e, e < w.hi[p], w.lo[p] = k \/ w.hi[p] = k,
         \A q \in w.pages : \A j \in 1 .. Count(A, q) :
           KeyAt(A, q, j) /= e /\ ~(e < KeyAt(A, q, j) /\ KeyAt(A, q, j) < k) /\ ~(k < KeyAt(A, q, j) /\ KeyAt(A, q, j) < e)
  PROVE  \A q \in w.pages : /\ KeepsOrder(w.lo[q], k, e) /\ KeepsOrder(w.hi[q], k, e)
                            /\ \A j \in 1 .. Count(A, q) : KeepsOrder(KeyAt(A, q, j), k, e)
<1> SUFFICES ASSUME NEW q \in w.pages
             PROVE  /\ KeepsOrder(w.lo[q], k, e) /\ KeepsOrder(w.hi[q], k, e)
                    /\ \A j \in 1 .. Count(A, q) : KeepsOrder(KeyAt(A, q, j), k, e)
  OBVIOUS
<1>1. NodesOK(A, w) /\ PlacesOK(w)
  BY DEF Shape
<1>2. /\ w.lo[q] \in Int /\ w.hi[q] \in Int /\ w.height[q] \in Nat /\ w.lo[p] \in Int /\ w.hi[p] \in Int
      /\ \A j \in 1 .. Count(A, q) : KeyAt(A, q, j) \in Int
  BY <1>1, PlacesAre, NodeFacts
<1>3. w.lo[q] < w.hi[q]
  BY DEF Shape, Ordered
<1>4. q /= p => \/ w.hi[q] <= w.lo[p] \/ w.hi[p] <= w.lo[q]
                \/ w.lo[q] <= w.lo[p] /\ w.hi[p] <= w.hi[q]
  <2>1. w.height[p] <= w.height[q]
    BY <1>2, SMT
  <2> QED BY <2>1 DEF Shape, Apart
<1>5. /\ w.lo[q] /= k => w.lo[q] /= e /\ (w.lo[q] < k <=> w.lo[q] < e)
      /\ w.hi[q] /= k => w.hi[q] /= e /\ (w.hi[q] < k <=> w.hi[q] < e)
  BY <1>2, <1>3, <1>4, SMT
<1>6. \A j \in 1 .. Count(A, q) : KeyAt(A, q, j) /= k => KeyAt(A, q, j) /= e /\ (KeyAt(A, q, j) < k <=> KeyAt(A, q, j) < e)
  BY <1>2, SMT
<1> QED BY <1>2, <1>5, <1>6, Zenon DEF KeepsOrder

(* Nodes with the same keys and kids have the same shape. *)
Alike(A, B, q) ==
  /\ q \in DOMAIN B /\ B[q] \in Nodes /\ B[q].leaf = A[q].leaf
  /\ Count(B, q) = Count(A, q) /\ KidCount(B, q) = KidCount(A, q)
  /\ \A j \in 1 .. Count(A, q) : KeyAt(B, q, j) = KeyAt(A, q, j)
  /\ \A j \in 1 .. KidCount(A, q) : KidAt(B, q, j) = KidAt(A, q, j)

LEMMA AlikeShape ==
  ASSUME NEW A, NEW B, NEW root, NEW w, Shape(A, root, w), \A q \in w.pages : Alike(A, B, q)
  PROVE  Shape(B, root, w)
<1>1. PlacesOK(w) /\ Topped(root, w)
  BY DEF Shape
<1>2. NodesOK(B, w)
  BY DEF NodesOK, Alike
<1>3. Branching(B, w)
  BY Zenon DEF Shape, Branching, Alike
<1>4. Ordered(B, w)
  BY DEF Shape, Ordered, Alike
<1>5. Hanging(B, w)
  <2> SUFFICES ASSUME NEW q \in w.pages, NEW j \in 1 .. KidCount(A, q), NEW x, x = KidAt(A, q, j)
               PROVE  /\ x \in w.pages
                      /\ w.height[q] = w.height[x] + 1
                      /\ w.lo[x] = IF j = 1 THEN w.lo[q] ELSE KeyAt(B, q, j - 1)
                      /\ w.hi[x] = IF j = KidCount(A, q) THEN w.hi[q] ELSE KeyAt(B, q, j)
    <3>1. ASSUME NEW q \in w.pages, NEW j \in 1 .. KidCount(B, q)
          PROVE  LET x == KidAt(B, q, j)
                 IN /\ x \in w.pages
                    /\ w.height[q] = w.height[x] + 1
                    /\ w.lo[x] = IF j = 1 THEN w.lo[q] ELSE KeyAt(B, q, j - 1)
                    /\ w.hi[x] = IF j = KidCount(B, q) THEN w.hi[q] ELSE KeyAt(B, q, j)
      <4>1. KidAt(B, q, j) = KidAt(A, q, j) /\ KidCount(B, q) = KidCount(A, q)
        BY DEF Alike
      <4> QED BY <4>1
    <3> QED BY <3>1 DEF Hanging
  <2>1. KidIn(A, w, q, j, x)
    BY KidPlace
  <2>2. /\ x \in w.pages /\ w.height[q] = w.height[x] + 1
        /\ w.lo[x] = IF j = 1 THEN w.lo[q] ELSE KeyAt(A, q, j - 1)
        /\ w.hi[x] = IF j = KidCount(A, q) THEN w.hi[q] ELSE KeyAt(A, q, j)
        /\ KidCount(A, q) = Count(A, q) + 1 /\ Count(A, q) \in Nat
    BY <2>1 DEF KidIn
  <2>3. (j /= 1 => j - 1 \in 1 .. Count(A, q)) /\ (j /= KidCount(A, q) => j \in 1 .. Count(A, q))
    BY <2>2, SMT
  <2> QED BY <2>2, <2>3 DEF Alike
<1>6. Apart(B, w)
  BY DEF Shape, Apart, Alike
<1>7. Reached(B, root, w)
  BY DEF Shape, Reached, Alike
<1> QED BY <1>1, <1>2, <1>3, <1>4, <1>5, <1>6, <1>7 DEF Shape

LEMMA SameShape ==
  ASSUME NEW A, NEW B, NEW root, NEW w, Shape(A, root, w), \A q \in w.pages : q \in DOMAIN B /\ B[q] = A[q]
  PROVE  Shape(B, root, w) /\ (\A it : Held(B, w, it) <=> Held(A, w, it))
<1>1. \A q \in w.pages : Alike(A, B, q)
  <2> SUFFICES ASSUME NEW q \in w.pages PROVE Alike(A, B, q)
    OBVIOUS
  <2>1. A[q] \in Nodes
    BY DEF Shape, NodesOK
  <2> QED BY <2>1, Others DEF Alike
<1>2. \A it : Held(B, w, it) <=> Held(A, w, it)
  <2>1. \A q \in w.pages : Count(B, q) = Count(A, q) /\ \A j : ItemAt(B, q, j) = ItemAt(A, q, j)
    BY Others
  <2> QED BY <2>1, Zenon DEF Held
<1> QED BY <1>1, <1>2, AlikeShape

-----------------------------------------------------------------------------
(* A root above the root, and the root's only kid in its place.            *)

GrownPlaces(w, root, r) ==
  LET ps == w.pages \cup {r}
  IN [pages |-> ps,
      height |-> [q \in ps |-> IF q = r THEN w.height[root] + 1 ELSE w.height[q]],
      lo |-> [q \in ps |-> IF q = r THEN 0 ELSE w.lo[q]],
      hi |-> [q \in ps |-> IF q = r THEN KeyCount + 1 ELSE w.hi[q]]]

LEMMA Grow ==
  ASSUME NEW A, NEW B, NEW root, NEW w, Shape(A, root, w), NEW r \in Nat, r \notin w.pages,
         \A q \in w.pages : q \in DOMAIN B /\ B[q] = A[q],
         r \in DOMAIN B, B[r] \in Nodes, B[r].leaf = FALSE, Count(B, r) = 0, KidCount(B, r) = 1, KidAt(B, r, 1) = root,
         NEW v, v = GrownPlaces(w, root, r)
  PROVE  Shape(B, r, v) /\ (\A it : Held(B, v, it) <=> Held(A, w, it))
<1>0. KeyCount \in Nat
  BY BTreeCallsAssumption
<1>1. /\ v.pages = w.pages \cup {r} /\ v.height[r] = w.height[root] + 1 /\ v.lo[r] = 0 /\ v.hi[r] = KeyCount + 1
      /\ \A q \in w.pages : q /= r /\ v.height[q] = w.height[q] /\ v.lo[q] = w.lo[q] /\ v.hi[q] = w.hi[q]
  BY SMT DEF GrownPlaces
<1>2. /\ PlacesOK(w) /\ root \in w.pages /\ w.lo[root] = 0 /\ w.hi[root] = KeyCount + 1
      /\ \A q \in w.pages : w.height[q] <= w.height[root] /\ w.lo[root] <= w.lo[q] /\ w.hi[q] <= w.hi[root]
  BY DEF Shape, Topped
<1>3. \A q \in w.pages : w.height[q] \in Nat /\ w.lo[q] \in Int /\ w.hi[q] \in Int
  BY <1>2, PlacesAre
<1>4. Shape(B, root, w) /\ (\A it : Held(B, w, it) <=> Held(A, w, it))
  BY SameShape
<1>5. PlacesOK(v)
  BY <1>0, <1>2, SMT DEF PlacesOK, GrownPlaces
<1>6. NodesOK(B, v)
  BY <1>1, <1>4 DEF Shape, NodesOK
<1>7. Topped(r, v)
  <2>1. \A q \in w.pages : w.height[q] <= w.height[root] + 1
    BY <1>2, <1>3, SMT
  <2>2. v.height[r] <= v.height[r] /\ v.lo[r] <= v.lo[r] /\ v.hi[r] <= v.hi[r]
    BY <1>0, <1>1, <1>2, <1>3, SMT
  <2> QED BY <1>1, <1>2, <2>1, <2>2 DEF Topped
<1>8. Branching(B, v)
  <2>1. v.height[r] /= 0
    BY <1>1, <1>2, <1>3, SMT
  <2>2. \A q \in w.pages : /\ B[q].leaf = (v.height[q] = 0)
                           /\ KidCount(B, q) = IF v.height[q] = 0 THEN 0 ELSE Count(B, q) + 1
    BY <1>1, <1>4 DEF Shape, Branching
  <2>3. /\ B[r].leaf = (v.height[r] = 0)
        /\ KidCount(B, r) = IF v.height[r] = 0 THEN 0 ELSE Count(B, r) + 1
    <3>1. KidCount(B, r) = Count(B, r) + 1
      BY SMT
    <3> QED BY <2>1, <3>1, Zenon
  <2> QED BY <1>1, <2>2, <2>3, Zenon DEF Branching
<1>9. Ordered(B, v)
  <2>1. \A q \in w.pages : /\ v.lo[q] < v.hi[q]
                           /\ \A i \in 1 .. Count(B, q) : v.lo[q] < KeyAt(B, q, i) /\ KeyAt(B, q, i) < v.hi[q]
                           /\ \A i, j \in 1 .. Count(B, q) : i < j => KeyAt(B, q, i) < KeyAt(B, q, j)
    BY <1>1, <1>4 DEF Shape, Ordered
  <2>2. v.lo[r] < v.hi[r] /\ 1 .. Count(B, r) = {}
    BY <1>0, <1>1, SMT
  <2> QED BY <1>1, <2>1, <2>2, Zenon DEF Ordered
<1>10. Hanging(B, v)
  <2>1. \A q \in w.pages : \A i \in 1 .. KidCount(B, q) :
          /\ KidAt(B, q, i) \in w.pages
          /\ w.height[q] = w.height[KidAt(B, q, i)] + 1
          /\ w.lo[KidAt(B, q, i)] = IF i = 1 THEN w.lo[q] ELSE KeyAt(B, q, i - 1)
          /\ w.hi[KidAt(B, q, i)] = IF i = KidCount(B, q) THEN w.hi[q] ELSE KeyAt(B, q, i)
    BY <1>4 DEF Shape, Hanging
  <2>2. \A q \in w.pages : \A i \in 1 .. KidCount(B, q) :
          /\ KidAt(B, q, i) \in v.pages
          /\ v.height[q] = v.height[KidAt(B, q, i)] + 1
          /\ v.lo[KidAt(B, q, i)] = IF i = 1 THEN v.lo[q] ELSE KeyAt(B, q, i - 1)
          /\ v.hi[KidAt(B, q, i)] = IF i = KidCount(B, q) THEN v.hi[q] ELSE KeyAt(B, q, i)
    BY <1>1, <2>1
  <2>3. 1 .. KidCount(B, r) = {1}
    BY SMT
  <2>4. \A i \in 1 .. KidCount(B, r) :
          /\ KidAt(B, r, i) \in v.pages
          /\ v.height[r] = v.height[KidAt(B, r, i)] + 1
          /\ v.lo[KidAt(B, r, i)] = IF i = 1 THEN v.lo[r] ELSE KeyAt(B, r, i - 1)
          /\ v.hi[KidAt(B, r, i)] = IF i = KidCount(B, r) THEN v.hi[r] ELSE KeyAt(B, r, i)
    BY <1>1, <1>2, <2>3
  <2>5. \A q \in v.pages : \A i \in 1 .. KidCount(B, q) :
          /\ KidAt(B, q, i) \in v.pages
          /\ v.height[q] = v.height[KidAt(B, q, i)] + 1
          /\ v.lo[KidAt(B, q, i)] = IF i = 1 THEN v.lo[q] ELSE KeyAt(B, q, i - 1)
          /\ v.hi[KidAt(B, q, i)] = IF i = KidCount(B, q) THEN v.hi[q] ELSE KeyAt(B, q, i)
    BY <1>1, <2>2, <2>4
  <2> QED BY <2>5 DEF Hanging
<1>11. Apart(B, v)
  <2>1. \A q, s \in w.pages : w.height[s] <= w.height[q] /\ q /= s =>
          \/ w.hi[q] <= w.lo[s] \/ w.hi[s] <= w.lo[q]
          \/ w.height[s] < w.height[q] /\ w.lo[q] <= w.lo[s] /\ w.hi[s] <= w.hi[q]
    BY DEF Shape, Apart
  <2>2. \A q, s \in w.pages : w.height[s] < w.height[q] =>
          \A j \in 1 .. Count(B, q) : KeyAt(B, q, j) <= w.lo[s] \/ w.hi[s] <= KeyAt(B, q, j)
    BY <1>4 DEF Shape, Apart
  <2>3. \A s \in w.pages : ~(v.height[r] <= v.height[s]) /\ v.height[s] < v.height[r]
    BY <1>1, <1>2, <1>3, SMT
  <2>4. ASSUME NEW q \in v.pages, NEW s \in v.pages, v.height[s] <= v.height[q], q /= s
        PROVE  \/ v.hi[q] <= v.lo[s] \/ v.hi[s] <= v.lo[q]
               \/ v.height[s] < v.height[q] /\ v.lo[q] <= v.lo[s] /\ v.hi[s] <= v.hi[q]
    <3>1. CASE q = r
      <4>1. s \in w.pages
        BY <3>1, <2>4, <1>1
      <4> QED BY <4>1, <3>1, <2>3, <1>1, <1>2
    <3>2. CASE q /= r
      <4>1. q \in w.pages /\ s \in w.pages
        BY <3>2, <2>3, <2>4, <1>1
      <4> QED BY <4>1, <2>1, <2>4, <1>1
    <3> QED BY <3>1, <3>2
  <2>5. ASSUME NEW q \in v.pages, NEW s \in v.pages, v.height[s] < v.height[q], NEW j \in 1 .. Count(B, q)
        PROVE  KeyAt(B, q, j) <= v.lo[s] \/ v.hi[s] <= KeyAt(B, q, j)
    <3>1. q /= r /\ q \in w.pages
      BY <1>1, SMT
    <3>2. s \in w.pages
      <4>1. v.height[q] \in Nat /\ v.height[s] \in Nat
        BY <1>5, PlacesAre
      <4>2. ~(v.height[r] < v.height[q])
        BY <2>3, <3>1, <4>1, <1>5, <1>1, SMT DEF PlacesOK
      <4> QED BY <4>2, <2>5, <1>1
    <3> QED BY <3>1, <3>2, <2>2, <2>5, <1>1
  <2> QED BY <2>4, <2>5 DEF Apart
<1>12. Reached(B, r, v)
  <2> SUFFICES ASSUME NEW x \in v.pages \ {r}
               PROVE  \E q \in v.pages : \E i \in 1 .. KidCount(B, q) : KidAt(B, q, i) = x
    BY DEF Reached
  <2>1. CASE x = root
    <3>1. 1 \in 1 .. KidCount(B, r)
      BY SMT
    <3> QED BY <2>1, <3>1, <1>1
  <2>2. CASE x /= root
    BY <2>2, <1>1, <1>4 DEF Shape, Reached
  <2> QED BY <2>1, <2>2
<1>13. \A it : Held(B, v, it) <=> Held(B, w, it)
  <2>1. 1 .. Count(B, r) = {}
    BY SMT
  <2> QED BY <2>1, <1>1 DEF Held
<1> QED BY <1>4, <1>5, <1>6, <1>7, <1>8, <1>9, <1>10, <1>11, <1>12, <1>13 DEF Shape

ShrunkPlaces(w, root) ==
  LET ps == w.pages \ {root}
  IN [pages |-> ps, height |-> [q \in ps |-> w.height[q]],
      lo |-> [q \in ps |-> w.lo[q]], hi |-> [q \in ps |-> w.hi[q]]]

ShrinksAt(A, B, v, root) ==
  /\ A[root].leaf = FALSE /\ Count(A, root) = 0 /\ \A q \in v.pages : q \in DOMAIN B /\ B[q] = A[q]
Shrunken(A, B, w, v, c) == Shape(B, c, v) /\ (\A it : Held(B, v, it) <=> Held(A, w, it))

LEMMA Shrink ==
  ASSUME NEW A, NEW B, NEW root, NEW w, Shape(A, root, w), NEW v, v = ShrunkPlaces(w, root), ShrinksAt(A, B, v, root),
         NEW c, c = KidAt(A, root, 1)
  PROVE  Shrunken(A, B, w, v, c)
<1>a. A[root].leaf = FALSE /\ Count(A, root) = 0
  BY DEF ShrinksAt
<1>b. \A q \in v.pages : q \in DOMAIN B /\ B[q] = A[q]
  BY DEF ShrinksAt
<1>0. KeyCount \in Nat
  BY BTreeCallsAssumption
<1>1. /\ v.pages = w.pages \ {root}
      /\ \A q \in v.pages : q /= root /\ q \in w.pages /\ v.height[q] = w.height[q] /\ v.lo[q] = w.lo[q] /\ v.hi[q] = w.hi[q]
  BY SMT DEF ShrunkPlaces
<1>2. /\ PlacesOK(w) /\ root \in w.pages /\ w.lo[root] = 0 /\ w.hi[root] = KeyCount + 1
      /\ \A q \in w.pages : w.height[q] <= w.height[root] /\ w.lo[root] <= w.lo[q] /\ w.hi[q] <= w.hi[root]
  BY DEF Shape, Topped
<1>3. \A q \in w.pages : w.height[q] \in Nat /\ w.lo[q] \in Int /\ w.hi[q] \in Int /\ w.lo[q] < w.hi[q]
  BY <1>2, PlacesAre DEF Shape, Ordered
<1>4. KidCount(A, root) = 1
  <2>1. w.height[root] /= 0
    <3>1. A[root].leaf = (w.height[root] = 0)
      BY <1>2, Zenon DEF Shape, Branching
    <3> QED BY <3>1, <1>a
  <2>2. KidCount(A, root) = Count(A, root) + 1
    BY <2>1, <1>2, Zenon DEF Shape, Branching
  <2> QED BY <2>2, <1>a, SMT
<1>5. /\ c \in w.pages /\ c /= root /\ w.height[root] = w.height[c] + 1
      /\ w.lo[c] = w.lo[root] /\ w.hi[c] = w.hi[root]
  <2>1. 1 \in 1 .. KidCount(A, root)
    BY <1>4, SMT
  <2>2. KidBelow(A, root, w, root, 1, c) /\ KidIn(A, w, root, 1, c)
    BY <1>2, <2>1, KidIsBelow, KidPlace
  <2> QED BY <2>2, <1>4 DEF KidBelow, KidIn
<1>6. \A q \in v.pages :
        /\ B[q] = A[q] /\ Count(B, q) = Count(A, q) /\ KidCount(B, q) = KidCount(A, q)
        /\ \A j : ItemAt(B, q, j) = ItemAt(A, q, j) /\ KeyAt(B, q, j) = KeyAt(A, q, j) /\ KidAt(B, q, j) = KidAt(A, q, j)
  BY <1>b, Others
<1>7. PlacesOK(v)
  BY <1>2, SMT DEF PlacesOK, ShrunkPlaces
<1>8. NodesOK(B, v)
  BY <1>1, <1>b DEF Shape, NodesOK
<1>9. Topped(c, v)
  <2>1. c \in v.pages
    BY <1>1, <1>5
  <2>2. ASSUME NEW q \in v.pages PROVE w.height[q] <= w.height[c]
    <3>1. q \in w.pages /\ q /= root
      BY <1>1
    <3>2. w.height[q] <= w.height[root] /\ w.lo[root] <= w.lo[q] /\ w.hi[q] <= w.hi[root]
      BY <3>1, <1>2
    <3>3. \/ w.hi[root] <= w.lo[q] \/ w.hi[q] <= w.lo[root] \/ w.height[q] < w.height[root]
      BY <3>1, <3>2, <1>2 DEF Shape, Apart
    <3> QED BY <3>1, <3>2, <3>3, <1>2, <1>3, <1>5, SMT
  <2> QED BY <2>1, <2>2, <1>1, <1>2, <1>5 DEF Topped
<1>10. Branching(B, v)
  <2> SUFFICES ASSUME NEW q \in v.pages
               PROVE  /\ B[q].leaf = (v.height[q] = 0)
                      /\ KidCount(B, q) = IF v.height[q] = 0 THEN 0 ELSE Count(B, q) + 1
    BY DEF Branching
  <2>1. /\ A[q].leaf = (w.height[q] = 0)
        /\ KidCount(A, q) = IF w.height[q] = 0 THEN 0 ELSE Count(A, q) + 1
    BY <1>1 DEF Shape, Branching
  <2>2. B[q] = A[q] /\ Count(B, q) = Count(A, q) /\ KidCount(B, q) = KidCount(A, q) /\ v.height[q] = w.height[q]
    BY <1>1, <1>6
  <2> QED BY <2>1, <2>2, Zenon
<1>11. Ordered(B, v)
  BY <1>1, <1>6 DEF Shape, Ordered
<1>12. Hanging(B, v)
  <2> SUFFICES ASSUME NEW q \in v.pages, NEW i \in 1 .. KidCount(A, q), NEW x, x = KidAt(A, q, i)
               PROVE  /\ x \in v.pages
                      /\ v.height[q] = v.height[x] + 1
                      /\ v.lo[x] = IF i = 1 THEN v.lo[q] ELSE KeyAt(A, q, i - 1)
                      /\ v.hi[x] = IF i = KidCount(A, q) THEN v.hi[q] ELSE KeyAt(A, q, i)
    BY <1>6 DEF Hanging
  <2>1. KidIn(A, w, q, i, x) /\ KidBelow(A, root, w, q, i, x)
    BY <1>1, KidPlace, KidIsBelow
  <2>2. x \in v.pages
    BY <2>1, <1>1 DEF KidBelow
  <2> QED BY <2>1, <2>2, <1>1 DEF KidIn
<1>13. Apart(B, v)
  BY <1>1, <1>6 DEF Shape, Apart
<1>14. Reached(B, c, v)
  <2> SUFFICES ASSUME NEW x \in v.pages \ {c}
               PROVE  \E q \in v.pages : \E i \in 1 .. KidCount(B, q) : KidAt(B, q, i) = x
    BY DEF Reached
  <2>1. PICK q \in w.pages : \E i \in 1 .. KidCount(A, q) : KidAt(A, q, i) = x
    BY <1>1 DEF Shape, Reached
  <2>2. q /= root
    <3>1. 1 .. KidCount(A, root) = {1}
      BY <1>4, SMT
    <3> QED BY <2>1, <3>1
  <2> QED BY <2>1, <2>2, <1>1, <1>6
<1>15. \A it : Held(B, v, it) <=> Held(A, w, it)
  <2>1. 1 .. Count(A, root) = {}
    BY <1>a, SMT
  <2> QED BY <2>1, <1>1, <1>6 DEF Held
<1> QED BY <1>7, <1>8, <1>9, <1>10, <1>11, <1>12, <1>13, <1>14, <1>15 DEF Shape, Shrunken

-----------------------------------------------------------------------------
(* Sequences that are cut and put together again.                          *)

LEMMA SeqFacts ==
  ASSUME NEW S, NEW s \in Seq(S)
  PROVE  Len(s) \in Nat /\ DOMAIN s = 1 .. Len(s) /\ \A j \in 1 .. Len(s) : s[j] \in S
  BY LenProperties, ElementOfSeq

LEMMA PieceIs ==
  ASSUME NEW S, NEW s \in Seq(S), NEW a \in 1 .. Len(s) + 1, NEW b \in a - 1 .. Len(s)
  PROVE  /\ SubSeq(s, a, b) \in Seq(S) /\ Len(SubSeq(s, a, b)) = b - a + 1
         /\ \A j \in 1 .. b - a + 1 : SubSeq(s, a, b)[j] = s[a + j - 1]
<1>1. Len(s) \in Nat /\ a \in Int /\ b \in Int /\ \A j \in a .. b : s[j] \in S
  <2>1. Len(s) \in Nat /\ \A j \in 1 .. Len(s) : s[j] \in S
    BY SeqFacts
  <2> QED BY <2>1, SMT
<1>2. IF a <= b THEN TRUE ELSE b - a + 1 = 0
  BY <1>1, SMT
<1>3. /\ SubSeq(s, a, b) \in Seq(S)
      /\ Len(SubSeq(s, a, b)) = IF a <= b THEN b - a + 1 ELSE 0
      /\ \A j \in 1 .. b - a + 1 : SubSeq(s, a, b)[j] = s[a + j - 1]
  BY <1>1, SubSeqProperties
<1> QED BY <1>2, <1>3

LEMMA OneIs ==
  ASSUME NEW S, NEW e \in S
  PROVE  <<e>> \in Seq(S) /\ Len(<<e>>) = 1 /\ <<e>>[1] = e
  OBVIOUS

(* r is s, then e, then t *)
Around(S, r, s, e, t, m) ==
  /\ r \in Seq(S) /\ Len(r) = m + Len(t)
  /\ \A j \in 1 .. Len(s) : r[j] = s[j]
  /\ r[m] = e
  /\ \A j \in 1 .. Len(t) : r[m + j] = t[j]

LEMMA AroundIs ==
  ASSUME NEW S, NEW s \in Seq(S), NEW e \in S, NEW t \in Seq(S), NEW m, m = Len(s) + 1
  PROVE  Around(S, s \o <<e>> \o t, s, e, t, m)
<1> DEFINE a == s \o <<e>>
<1>1. Len(s) \in Nat /\ Len(t) \in Nat /\ m \in Nat
  BY SeqFacts
<1>2. <<e>> \in Seq(S) /\ Len(<<e>>) = 1 /\ <<e>>[1] = e
  BY OneIs
<1>3. a \in Seq(S) /\ Len(a) = Len(s) + 1
      /\ \A j \in 1 .. Len(s) + 1 : a[j] = IF j <= Len(s) THEN s[j] ELSE <<e>>[j - Len(s)]
  BY <1>2, ConcatProperties
<1>4. (\A j \in 1 .. Len(s) : a[j] = s[j]) /\ a[m] = e
  <2>1. \A j \in 1 .. Len(s) : j \in 1 .. Len(s) + 1 /\ j <= Len(s)
    BY <1>1, SMT
  <2>2. m \in 1 .. Len(s) + 1 /\ ~(m <= Len(s)) /\ m - Len(s) = 1
    BY <1>1, SMT
  <2> HIDE DEF a
  <2>3. a[m] = <<e>>[m - Len(s)]
    BY <2>2, <1>3
  <2> QED BY <2>1, <2>2, <2>3, <1>2, <1>3
<1> HIDE DEF a
<1>5. a \o t \in Seq(S) /\ Len(a \o t) = Len(a) + Len(t)
      /\ \A j \in 1 .. Len(a) + Len(t) : (a \o t)[j] = IF j <= Len(a) THEN a[j] ELSE t[j - Len(a)]
  <2>1. a \in Seq(S)
    BY <1>3
  <2> QED BY <2>1, ConcatProperties
<1>6. Len(a \o t) = m + Len(t)
  BY <1>1, <1>3, <1>5
<1>7. /\ \A j \in 1 .. Len(s) : (a \o t)[j] = s[j]
      /\ (a \o t)[m] = e
      /\ \A j \in 1 .. Len(t) : (a \o t)[m + j] = t[j]
  <2>1. \A j \in 1 .. Len(s) : j \in 1 .. Len(a) + Len(t) /\ j <= Len(a)
    BY <1>1, <1>3, SMT
  <2>2. m \in 1 .. Len(a) + Len(t) /\ m <= Len(a)
    BY <1>1, <1>3, SMT
  <2>3. \A j \in 1 .. Len(t) : m + j \in 1 .. Len(a) + Len(t) /\ ~(m + j <= Len(a)) /\ m + j - Len(a) = j
    BY <1>1, <1>3, SMT
  <2>4. \A j \in 1 .. Len(t) : (a \o t)[m + j] = t[j]
    <3> TAKE j \in 1 .. Len(t)
    <3>1. m + j \in 1 .. Len(a) + Len(t) /\ ~(m + j <= Len(a))
      BY <2>3, Zenon
    <3>2. (a \o t)[m + j] = t[m + j - Len(a)]
      BY <3>1, <1>5
    <3> QED BY <3>2, <2>3
  <2> QED BY <2>1, <2>2, <2>4, <1>4, <1>5, Zenon
<1>8. Around(S, a \o t, s, e, t, m)
  BY <1>5, <1>6, <1>7, Zenon DEF Around
<1> QED BY <1>8 DEF a

(* r is s with e at i. *)
Inserted(S, r, s, i, e) ==
  /\ r \in Seq(S) /\ Len(r) = Len(s) + 1 /\ r[i] = e
  /\ \A j \in 1 .. Len(s) : s[j] = r[IF j < i THEN j ELSE j + 1]

LEMMA InsertIs ==
  ASSUME NEW S, NEW s \in Seq(S), NEW i \in 1 .. Len(s) + 1, NEW e \in S
  PROVE  Inserted(S, InsertAt(s, i, e), s, i, e)
<1> DEFINE a == SubSeq(s, 1, i - 1)
           b == SubSeq(s, i, Len(s))
           t == a \o <<e>> \o b
<1>1. Len(s) \in Nat /\ i \in Nat /\ 1 <= i /\ i <= Len(s) + 1
  BY SeqFacts, SMT
<1>2. a \in Seq(S) /\ Len(a) = i - 1 /\ \A j \in 1 .. i - 1 : a[j] = s[j]
  <2>1. 1 \in 1 .. Len(s) + 1 /\ i - 1 \in 1 - 1 .. Len(s) /\ i - 1 - 1 + 1 = i - 1
    BY <1>1, SMT
  <2>2. a \in Seq(S) /\ Len(a) = i - 1 - 1 + 1 /\ \A j \in 1 .. i - 1 - 1 + 1 : a[j] = s[1 + j - 1]
    BY <2>1, PieceIs, Zenon
  <2>3. \A j \in 1 .. i - 1 : 1 + j - 1 = j
    BY <1>1, SMT
  <2> QED BY <2>1, <2>2, <2>3
<1>3. b \in Seq(S) /\ Len(b) = Len(s) - i + 1 /\ \A j \in 1 .. Len(s) - i + 1 : b[j] = s[i + j - 1]
  <2>1. Len(s) \in i - 1 .. Len(s)
    BY <1>1, SMT
  <2> QED BY <2>1, PieceIs, Zenon
<1> HIDE DEF a, b
<1>4. /\ t \in Seq(S) /\ Len(t) = i + Len(b)
      /\ \A j \in 1 .. Len(a) : t[j] = a[j]
      /\ t[i] = e
      /\ \A j \in 1 .. Len(b) : t[i + j] = b[j]
  <2>1. a \in Seq(S) /\ b \in Seq(S) /\ i = Len(a) + 1
    BY <1>1, <1>2, <1>3
  <2>2. Around(S, t, a, e, b, i)
    BY <2>1, AroundIs
  <2> QED BY <2>2, Zenon DEF Around
<1> HIDE DEF t
<1>5. Len(t) = Len(s) + 1
  BY <1>1, <1>3, <1>4, SMT
<1>6. ASSUME NEW j \in 1 .. Len(s)
      PROVE  s[j] = t[IF j < i THEN j ELSE j + 1]
  <2>1. CASE j < i
    <3>1. j \in 1 .. i - 1 /\ j \in 1 .. Len(a)
      BY <2>1, <1>1, <1>2, SMT
    <3> QED BY <3>1, <2>1, <1>2, <1>4
  <2>2. CASE ~(j < i)
    <3> DEFINE n == j - i + 1
    <3>1. n \in 1 .. Len(s) - i + 1 /\ n \in 1 .. Len(b) /\ i + n = j + 1 /\ i + n - 1 = j
      BY <2>2, <1>1, <1>3, SMT
    <3>2. t[i + n] = b[n] /\ b[n] = s[i + n - 1]
      BY <3>1, <1>3, <1>4, Zenon
    <3> QED BY <3>1, <3>2, <2>2
  <2> QED BY <2>1, <2>2
<1>7. Inserted(S, t, s, i, e)
  BY <1>4, <1>5, <1>6, Zenon DEF Inserted
<1>8. InsertAt(s, i, e) = t
  BY DEF InsertAt, t, a, b
<1> QED BY <1>7, <1>8

LEMMA RemoveIs ==
  ASSUME NEW S, NEW s \in Seq(S), NEW i \in 1 .. Len(s)
  PROVE  /\ RemoveAt(s, i) \in Seq(S) /\ Len(RemoveAt(s, i)) = Len(s) - 1
         /\ \A j \in 1 .. Len(s) - 1 : RemoveAt(s, i)[j] = s[IF j < i THEN j ELSE j + 1]
<1> DEFINE a == SubSeq(s, 1, i - 1)
           b == SubSeq(s, i + 1, Len(s))
           t == a \o b
<1>1. Len(s) \in Nat /\ i \in Nat /\ 1 <= i /\ i <= Len(s)
  BY SeqFacts, SMT
<1>2. a \in Seq(S) /\ Len(a) = i - 1 /\ \A j \in 1 .. i - 1 : a[j] = s[j]
  <2>1. 1 \in 1 .. Len(s) + 1 /\ i - 1 \in 1 - 1 .. Len(s) /\ i - 1 - 1 + 1 = i - 1
    BY <1>1, SMT
  <2>2. a \in Seq(S) /\ Len(a) = i - 1 - 1 + 1 /\ \A j \in 1 .. i - 1 - 1 + 1 : a[j] = s[1 + j - 1]
    BY <2>1, PieceIs, Zenon
  <2>3. \A j \in 1 .. i - 1 : 1 + j - 1 = j
    BY <1>1, SMT
  <2> QED BY <2>1, <2>2, <2>3
<1>3. b \in Seq(S) /\ Len(b) = Len(s) - (i + 1) + 1 /\ \A j \in 1 .. Len(s) - (i + 1) + 1 : b[j] = s[i + 1 + j - 1]
  <2>1. i + 1 \in 1 .. Len(s) + 1 /\ Len(s) \in i + 1 - 1 .. Len(s)
    BY <1>1, SMT
  <2>2. /\ b \in Seq(S) /\ Len(b) = Len(s) - (i + 1) + 1
        /\ \A j \in 1 .. Len(s) - (i + 1) + 1 : SubSeq(s, i + 1, Len(s))[j] = s[i + 1 + j - 1]
    BY <2>1, PieceIs
  <2> QED BY <2>2
<1> HIDE DEF a, b
<1>4. /\ t \in Seq(S) /\ Len(t) = Len(a) + Len(b)
      /\ \A j \in 1 .. Len(a) + Len(b) : t[j] = IF j <= Len(a) THEN a[j] ELSE b[j - Len(a)]
  BY <1>2, <1>3, ConcatProperties
<1> HIDE DEF t
<1>5. Len(t) = Len(s) - 1
  BY <1>1, <1>2, <1>3, <1>4, SMT
<1>6. ASSUME NEW j \in 1 .. Len(s) - 1
      PROVE  t[j] = s[IF j < i THEN j ELSE j + 1]
  <2>1. CASE j < i
    <3>1. j \in 1 .. i - 1 /\ j \in 1 .. Len(a) + Len(b) /\ j <= Len(a)
      BY <2>1, <1>1, <1>2, <1>3, SMT
    <3> QED BY <3>1, <2>1, <1>2, <1>4
  <2>2. CASE ~(j < i)
    <3> DEFINE n == j - Len(a)
    <3>1. /\ n \in 1 .. Len(s) - (i + 1) + 1 /\ i + 1 + n - 1 = j + 1
          /\ j \in 1 .. Len(a) + Len(b) /\ ~(j <= Len(a))
      BY <2>2, <1>1, <1>2, <1>3, SMT
    <3>2. t[j] = b[n] /\ b[n] = s[i + 1 + n - 1]
      BY <3>1, <1>3, <1>4, Zenon
    <3> QED BY <3>1, <3>2, <2>2
  <2> QED BY <2>1, <2>2
<1>7. RemoveAt(s, i) = t
  BY DEF RemoveAt, t, a, b
<1> QED BY <1>4, <1>5, <1>6, <1>7

LEMMA CutAgain ==
  ASSUME NEW S, NEW s \in Seq(S), NEW m \in 0 .. Len(s) - 1
  PROVE  SubSeq(s, 1, m) \o <<s[m + 1]>> \o SubSeq(s, m + 2, Len(s)) = s
<1>1. Len(s) \in Nat /\ m \in Nat /\ m + 1 \in 1 .. Len(s) /\ \A j \in 1 .. Len(s) : s[j] \in S
  <2>1. Len(s) \in Nat /\ \A j \in 1 .. Len(s) : s[j] \in S
    BY SeqFacts
  <2> QED BY <2>1, SMT
<1>2. SubSeq(s, 1, m + 1) = SubSeq(s, 1, m) \o <<s[m + 1]>>
  <2>1. 1 \in 1 .. Len(s) /\ m + 1 \in 1 .. Len(s) /\ m + 1 - 1 = m
    BY <1>1, SMT
  <2>2. SubSeq(s, 1, m + 1) = SubSeq(s, 1, m + 1 - 1) \o <<s[m + 1]>>
    BY <2>1, SubSeqRecursiveSecond
  <2> QED BY <2>1, <2>2
<1>3. SubSeq(s, 1, m + 1) \o SubSeq(s, m + 2, Len(s)) = s
  <2>1. /\ 1 \in 1 .. Len(s) + 1 /\ m + 1 \in 1 - 1 .. Len(s) /\ Len(s) \in m + 1 .. Len(s)
        /\ m + 1 + 1 = m + 2
    BY <1>1, SMT
  <2>2. SubSeq(s, 1, m + 1) \o SubSeq(s, m + 1 + 1, Len(s)) = SubSeq(s, 1, Len(s))
    BY <2>1, ConcatAdjacentSubSeq
  <2> QED BY <2>1, <2>2, SubSeqFull
<1> QED BY <1>2, <1>3

LEMMA CutHalves ==
  ASSUME NEW S, NEW s \in Seq(S), NEW m \in 0 .. Len(s)
  PROVE  SubSeq(s, 1, m) \o SubSeq(s, m + 1, Len(s)) = s
<1>1. Len(s) \in Nat
  BY SeqFacts
<1>2. 1 \in 1 .. Len(s) + 1 /\ m \in 1 - 1 .. Len(s) /\ Len(s) \in m .. Len(s)
  BY <1>1, SMT
<1>3. SubSeq(s, 1, m) \o SubSeq(s, m + 1, Len(s)) = SubSeq(s, 1, Len(s))
  BY <1>2, ConcatAdjacentSubSeq
<1> QED BY <1>3, SubSeqFull

LEMMA RemoveInserted ==
  ASSUME NEW S, NEW s \in Seq(S), NEW i \in 1 .. Len(s) + 1, NEW e \in S
  PROVE  RemoveAt(InsertAt(s, i, e), i) = s
<1> DEFINE a == InsertAt(s, i, e)
           b == RemoveAt(a, i)
<1>1. Len(s) \in Nat
  BY SeqFacts
<1>2. a \in Seq(S) /\ Len(a) = Len(s) + 1 /\ \A j \in 1 .. Len(s) : s[j] = a[IF j < i THEN j ELSE j + 1]
  <2>1. Inserted(S, a, s, i, e)
    BY InsertIs
  <2> QED BY <2>1, Zenon DEF Inserted
<1> HIDE DEF a
<1>3. i \in 1 .. Len(a) /\ Len(a) - 1 = Len(s)
  BY <1>1, <1>2, SMT
<1>4. b \in Seq(S) /\ Len(b) = Len(a) - 1 /\ \A j \in 1 .. Len(a) - 1 : b[j] = a[IF j < i THEN j ELSE j + 1]
  <2>1. a \in Seq(S)
    BY <1>2
  <2> QED BY <2>1, <1>3, RemoveIs
<1> HIDE DEF b
<1>5. b \in Seq(S) /\ Len(b) = Len(s) /\ \A j \in 1 .. Len(b) : b[j] = s[j]
  BY <1>2, <1>3, <1>4
<1>6. b = s
  <2>1. b \in Seq(S) /\ Len(b) = Len(s)
    BY <1>5
  <2>2. \A j \in 1 .. Len(b) : b[j] = s[j]
    BY <1>5
  <2> QED BY <2>1, <2>2, SeqEqual
<1> QED BY <1>6 DEF a, b

LEMMA RemoveChanged ==
  ASSUME NEW S, NEW s \in Seq(S), NEW i \in 1 .. Len(s), NEW e \in S
  PROVE  RemoveAt([s EXCEPT ![i] = e], i) = RemoveAt(s, i)
<1> DEFINE a == [s EXCEPT ![i] = e]
           b == RemoveAt(a, i)
           c == RemoveAt(s, i)
<1>1. Len(s) \in Nat /\ 1 <= i /\ i \in Nat
  BY SeqFacts, SMT
<1>2. a \in Seq(S) /\ Len(a) = Len(s) /\ \A j \in 1 .. Len(s) : a[j] = IF j = i THEN e ELSE s[j]
  BY ExceptSeq
<1> HIDE DEF a
<1>3. b \in Seq(S) /\ Len(b) = Len(s) - 1 /\ \A j \in 1 .. Len(s) - 1 : b[j] = a[IF j < i THEN j ELSE j + 1]
  <2>1. a \in Seq(S) /\ i \in 1 .. Len(a)
    BY <1>2
  <2>2. b \in Seq(S) /\ Len(b) = Len(a) - 1 /\ \A j \in 1 .. Len(a) - 1 : b[j] = a[IF j < i THEN j ELSE j + 1]
    BY <2>1, RemoveIs
  <2> QED BY <2>2, <1>2
<1>4. c \in Seq(S) /\ Len(c) = Len(s) - 1 /\ \A j \in 1 .. Len(s) - 1 : c[j] = s[IF j < i THEN j ELSE j + 1]
  BY RemoveIs
<1> HIDE DEF b, c
<1>5. ASSUME NEW j \in 1 .. Len(s) - 1
      PROVE  b[j] = c[j]
  <2> DEFINE n == IF j < i THEN j ELSE j + 1
  <2>1. n \in 1 .. Len(s) /\ n /= i
    BY <1>1, SMT
  <2>2. b[j] = a[n] /\ c[j] = s[n]
    BY <1>3, <1>4, Zenon
  <2> HIDE DEF n
  <2> QED BY <2>1, <2>2, <1>2
<1>6. b = c
  <2>1. b \in Seq(S) /\ c \in Seq(S) /\ Len(b) = Len(c)
    BY <1>3, <1>4
  <2>2. \A j \in 1 .. Len(b) : b[j] = c[j]
    BY <1>3, <1>5
  <2> QED BY <2>1, <2>2, SeqEqual
<1> QED BY <1>6 DEF a, b, c

LEMMA FrontLast ==
  ASSUME NEW S, NEW s \in Seq(S), Len(s) >= 1
  PROVE  /\ Front(s) \in Seq(S) /\ Len(Front(s)) = Len(s) - 1 /\ Last(s) \in S
         /\ Last(s) = s[Len(s)] /\ Front(s) \o <<Last(s)>> = s
<1>1. Len(s) \in Nat /\ \A j \in 1 .. Len(s) : s[j] \in S
  BY SeqFacts
<1>2. /\ 1 \in 1 .. Len(s) + 1 /\ 1 \in 1 .. Len(s) /\ Len(s) - 1 \in 1 - 1 .. Len(s)
      /\ Len(s) \in 1 .. Len(s) /\ Len(s) - 1 - 1 + 1 = Len(s) - 1
  BY <1>1, SMT
<1>3. SubSeq(s, 1, Len(s) - 1) \in Seq(S) /\ Len(SubSeq(s, 1, Len(s) - 1)) = Len(s) - 1 - 1 + 1
  BY <1>2, PieceIs
<1>4. SubSeq(s, 1, Len(s)) = SubSeq(s, 1, Len(s) - 1) \o <<s[Len(s)]>>
  BY <1>2, SubSeqRecursiveSecond
<1>5. SubSeq(s, 1, Len(s)) = s
  BY SubSeqFull
<1> QED BY <1>1, <1>2, <1>3, <1>4, <1>5 DEF Front, Last

LEMMA HeadTail ==
  ASSUME NEW S, NEW s \in Seq(S), Len(s) >= 1
  PROVE  /\ Tail(s) \in Seq(S) /\ Len(Tail(s)) = Len(s) - 1 /\ Head(s) \in S
         /\ Head(s) = s[1] /\ <<Head(s)>> \o Tail(s) = s
<1>1. Len(s) \in Nat /\ s /= <<>>
  BY SeqFacts
<1>2. 1 \in 1 .. Len(s) /\ Len(s) \in 1 .. Len(s) /\ 1 + 1 = 2
  BY <1>1, SMT
<1>3. Head(s) \in S /\ Tail(s) \in Seq(S) /\ Len(Tail(s)) = Len(s) - 1
  BY <1>1, HeadTailProperties
<1>4. Tail(s) = SubSeq(s, 2, Len(s)) /\ Head(s) = s[1]
  BY <1>1, TailIsSubSeq
<1>5. SubSeq(s, 1, Len(s)) = <<s[1]>> \o SubSeq(s, 1 + 1, Len(s))
  BY <1>2, SubSeqRecursiveFirst
<1>6. SubSeq(s, 1, Len(s)) = s
  BY SubSeqFull
<1> QED BY <1>2, <1>3, <1>4, <1>5, <1>6

-----------------------------------------------------------------------------
(* Two kids of a node, next to each other, and the node they would be.     *)

(* Kids i and i + 1 of p are c and d. *)
Siblings(N, p, i, c, d) ==
  /\ p \in DOMAIN N /\ c \in DOMAIN N /\ d \in DOMAIN N /\ p /= c /\ c /= d /\ p /= d
  /\ N[p] \in Nodes /\ N[c] \in Nodes /\ N[d] \in Nodes /\ d \in Nat
  /\ N[p].leaf = FALSE /\ N[d].leaf = N[c].leaf
  /\ i \in 1 .. Count(N, p) /\ KidCount(N, p) = Count(N, p) + 1
  /\ KidAt(N, p, i) = c /\ KidAt(N, p, i + 1) = d
  /\ KidCount(N, c) = IF N[c].leaf THEN 0 ELSE Count(N, c) + 1
  /\ KidCount(N, d) = IF N[c].leaf THEN 0 ELSE Count(N, d) + 1

LessNode(n, i) == Node(FALSE, RemoveAt(n.items, i), RemoveAt(n.kids, i + 1))
JoinedNode(a, it, b) == Node(a.leaf, a.items \o <<it>> \o b.items, a.kids \o b.kids)

(* J is N but for c and d, which are one node, c, in J. *)
Joins(J, N, p, i, c, d) ==
  /\ p \in DOMAIN J /\ c \in DOMAIN J
  /\ J[p] = LessNode(N[p], i)
  /\ J[c] = JoinedNode(N[c], N[p].items[i], N[d])

LEMMA NodeSeqs ==
  ASSUME NEW n \in Nodes
  PROVE  /\ n.items \in Seq(Item) /\ n.kids \in Seq(Nat) /\ n.leaf \in BOOLEAN
         /\ Len(n.items) \in Nat /\ Len(n.kids) \in Nat
         /\ n = Node(n.leaf, n.items, n.kids)
<1>1. n.items \in Seq(Item) /\ n.kids \in Seq(Nat) /\ n.leaf \in BOOLEAN /\ n = Node(n.leaf, n.items, n.kids)
  BY DEF Nodes, Node
<1> QED BY <1>1, SeqFacts

IsNode(n, leaf, s, t) == n \in Nodes /\ n.leaf = leaf /\ n.items = s /\ n.kids = t

LEMMA NodeOf ==
  ASSUME NEW b \in BOOLEAN, NEW s \in Seq(Item), NEW t \in Seq(Nat)
  PROVE  IsNode(Node(b, s, t), b, s, t)
  BY DEF Node, Nodes, IsNode

LEMMA InnerOf ==
  ASSUME NEW s \in Seq(Item), NEW t \in Seq(Nat)
  PROVE  IsNode(Node(FALSE, s, t), FALSE, s, t)
  BY DEF Node, Nodes, IsNode

LEMMA LessNodeIs ==
  ASSUME NEW n \in Nodes, NEW i \in 1 .. Len(n.items), Len(n.kids) = Len(n.items) + 1
  PROVE  /\ LessNode(n, i) \in Nodes /\ LessNode(n, i).leaf = FALSE
         /\ Len(LessNode(n, i).items) = Len(n.items) - 1
         /\ Len(LessNode(n, i).kids) = Len(n.kids) - 1
         /\ \A j \in 1 .. Len(n.items) - 1 : LessNode(n, i).items[j] = n.items[IF j < i THEN j ELSE j + 1]
         /\ \A j \in 1 .. Len(n.kids) - 1 : LessNode(n, i).kids[j] = n.kids[IF j <= i THEN j ELSE j + 1]
<1> DEFINE s == RemoveAt(n.items, i)
           t == RemoveAt(n.kids, i + 1)
<1>1. n.items \in Seq(Item) /\ n.kids \in Seq(Nat) /\ Len(n.items) \in Nat /\ Len(n.kids) \in Nat
  BY NodeSeqs
<1>2. s \in Seq(Item) /\ Len(s) = Len(n.items) - 1
      /\ \A j \in 1 .. Len(n.items) - 1 : s[j] = n.items[IF j < i THEN j ELSE j + 1]
  BY <1>1, RemoveIs
<1>3. i + 1 \in 1 .. Len(n.kids)
  BY <1>1, SMT
<1>4. t \in Seq(Nat) /\ Len(t) = Len(n.kids) - 1
      /\ \A j \in 1 .. Len(n.kids) - 1 : t[j] = n.kids[IF j < i + 1 THEN j ELSE j + 1]
  BY <1>1, <1>3, RemoveIs
<1> HIDE DEF s, t
<1>5. \A j \in 1 .. Len(n.kids) - 1 : j < i + 1 <=> j <= i
  BY <1>1, SMT
<1>6. LessNode(n, i) = Node(FALSE, s, t)
  BY DEF LessNode, s, t
<1>7. /\ LessNode(n, i) \in Nodes /\ LessNode(n, i).leaf = FALSE
      /\ LessNode(n, i).items = s /\ LessNode(n, i).kids = t
  <2>1. s \in Seq(Item) /\ t \in Seq(Nat)
    BY <1>2, <1>4
  <2>2. IsNode(LessNode(n, i), FALSE, s, t)
    BY <2>1, <1>6, InnerOf
  <2> QED BY <2>2, Zenon DEF IsNode
<1>8. \A j \in 1 .. Len(n.kids) - 1 : t[j] = n.kids[IF j <= i THEN j ELSE j + 1]
  BY <1>4, <1>5, Zenon
<1> QED BY <1>2, <1>4, <1>7, <1>8, Zenon

(* n has what a has, then it, then what b has. *)
JoinedTo(n, a, it, b, m) ==
  /\ n \in Nodes /\ n.leaf = a.leaf
  /\ Len(n.items) = Len(a.items) + Len(b.items) + 1
  /\ Len(n.kids) = Len(a.kids) + Len(b.kids)
  /\ \A j \in 1 .. Len(a.items) : n.items[j] = a.items[j]
  /\ n.items[m] = it
  /\ \A j \in 1 .. Len(b.items) : n.items[m + j] = b.items[j]
  /\ \A j \in 1 .. Len(a.kids) : n.kids[j] = a.kids[j]
  /\ \A j \in 1 .. Len(b.kids) : n.kids[Len(a.kids) + j] = b.kids[j]

LEMMA JoinedNodeIs ==
  ASSUME NEW a \in Nodes, NEW b \in Nodes, NEW it \in Item, NEW m, m = Len(a.items) + 1
  PROVE  JoinedTo(JoinedNode(a, it, b), a, it, b, m)
<1> DEFINE ai == a.items
           ak == a.kids
           bi == b.items
           bk == b.kids
           s == ai \o <<it>> \o bi
           t == ak \o bk
           n == JoinedNode(a, it, b)
<1>1. /\ ai \in Seq(Item) /\ ak \in Seq(Nat) /\ bi \in Seq(Item) /\ bk \in Seq(Nat) /\ a.leaf \in BOOLEAN
      /\ m = Len(ai) + 1
  BY NodeSeqs
<1>2. n = Node(a.leaf, s, t)
  BY DEF JoinedNode
<1> HIDE DEF ai, ak, bi, bk
<1>3. Len(ai) \in Nat /\ Len(ak) \in Nat /\ Len(bi) \in Nat /\ Len(bk) \in Nat
  BY <1>1, SeqFacts
<1>4. /\ s \in Seq(Item) /\ Len(s) = m + Len(bi)
      /\ \A j \in 1 .. Len(ai) : s[j] = ai[j]
      /\ s[m] = it
      /\ \A j \in 1 .. Len(bi) : s[m + j] = bi[j]
  <2>1. ai \in Seq(Item) /\ bi \in Seq(Item) /\ m = Len(ai) + 1
    BY <1>1
  <2>2. Around(Item, s, ai, it, bi, m)
    BY <2>1, AroundIs
  <2> QED BY <2>2, Zenon DEF Around
<1>5. /\ t \in Seq(Nat) /\ Len(t) = Len(ak) + Len(bk)
      /\ \A j \in 1 .. Len(ak) + Len(bk) : t[j] = IF j <= Len(ak) THEN ak[j] ELSE bk[j - Len(ak)]
  BY <1>1, ConcatProperties
<1> HIDE DEF s, t, n
<1>6. n \in Nodes /\ n.leaf = a.leaf /\ n.items = s /\ n.kids = t
  <2>1. IsNode(n, a.leaf, s, t)
    BY <1>1, <1>2, <1>4, <1>5, NodeOf
  <2> QED BY <2>1, Zenon DEF IsNode
<1> DEFINE la == Len(ak)
           lb == Len(bk)
           li == Len(ai)
           lj == Len(bi)
<1>7. /\ la \in Nat /\ lb \in Nat /\ li \in Nat /\ lj \in Nat /\ m = li + 1 /\ Len(s) = m + lj
      /\ \A j \in 1 .. la + lb : t[j] = IF j <= la THEN ak[j] ELSE bk[j - la]
  BY <1>1, <1>3, <1>4, <1>5
<1> HIDE DEF la, lb, li, lj
<1>8. \A j \in 1 .. la : t[j] = ak[j]
  <2>1. \A j \in 1 .. la : j \in 1 .. la + lb /\ j <= la
    BY <1>7, SMT
  <2> QED BY <2>1, <1>7
<1>9. \A j \in 1 .. lb : t[la + j] = bk[j]
  <2> TAKE j \in 1 .. lb
  <2> DEFINE x == la + j
  <2>1. x \in 1 .. la + lb /\ ~(x <= la) /\ x - la = j
    BY <1>7, SMT
  <2> HIDE DEF x
  <2>2. t[x] = bk[x - la]
    BY <2>1, <1>7
  <2>3. t[x] = bk[j]
    BY <2>1, <2>2
  <2> QED BY <2>3 DEF x
<1>10. Len(s) = li + lj + 1
  BY <1>7, SMT
<1>11. /\ n \in Nodes /\ n.leaf = a.leaf
       /\ Len(n.items) = Len(ai) + Len(bi) + 1
       /\ Len(n.kids) = Len(ak) + Len(bk)
       /\ \A j \in 1 .. Len(ai) : n.items[j] = ai[j]
       /\ n.items[m] = it
       /\ \A j \in 1 .. Len(bi) : n.items[m + j] = bi[j]
       /\ \A j \in 1 .. Len(ak) : n.kids[j] = ak[j]
       /\ \A j \in 1 .. Len(bk) : n.kids[Len(ak) + j] = bk[j]
  BY <1>4, <1>5, <1>6, <1>8, <1>9, <1>10, Zenon DEF la, lb, li, lj
<1>12. JoinedTo(n, a, it, b, m)
  BY <1>11, Zenon DEF ai, ak, bi, bk, JoinedTo
<1> QED BY <1>12 DEF n

LEMMA CutIs ==
  ASSUME NEW J, NEW N, NEW w, NEW p \in w.pages, NEW i, NEW c \in w.pages, NEW d, d \notin w.pages,
         Siblings(N, p, i, c, d), Joins(J, N, p, i, c, d), N[c].leaf = (w.height[c] = 0),
         \A q \in w.pages \ {p, c} : q \in DOMAIN N /\ q \in DOMAIN J /\ N[q] = J[q]
  PROVE  CutOf(J, N, w, p, i, c, d)
<1> DEFINE m == Count(N, c) + 1
<1> USE DEF Siblings
<1>1. /\ Count(N, p) \in Nat /\ Count(N, c) \in Nat /\ Count(N, d) \in Nat
      /\ KidCount(N, p) \in Nat /\ KidCount(N, c) \in Nat /\ KidCount(N, d) \in Nat
      /\ ItemAt(N, p, i) \in Item
  BY NodeIs
<1>2. /\ J[p] \in Nodes /\ J[p].leaf = FALSE
      /\ Count(J, p) = Count(N, p) - 1
      /\ KidCount(J, p) = KidCount(N, p) - 1
      /\ \A j \in 1 .. Count(N, p) - 1 : ItemAt(J, p, j) = ItemAt(N, p, IF j < i THEN j ELSE j + 1)
      /\ \A j \in 1 .. KidCount(N, p) - 1 : KidAt(J, p, j) = KidAt(N, p, IF j <= i THEN j ELSE j + 1)
  <2> DEFINE n == LessNode(N[p], i)
  <2>1. N[p] \in Nodes /\ i \in 1 .. Len(N[p].items) /\ Len(N[p].kids) = Len(N[p].items) + 1
    BY DEF Count, KidCount
  <2>2. /\ n \in Nodes /\ n.leaf = FALSE
        /\ Len(n.items) = Len(N[p].items) - 1
        /\ Len(n.kids) = Len(N[p].kids) - 1
        /\ \A j \in 1 .. Len(N[p].items) - 1 : n.items[j] = N[p].items[IF j < i THEN j ELSE j + 1]
        /\ \A j \in 1 .. Len(N[p].kids) - 1 : n.kids[j] = N[p].kids[IF j <= i THEN j ELSE j + 1]
    BY <2>1, LessNodeIs
  <2>3. J[p] = n
    BY DEF Joins
  <2> QED BY <2>2, <2>3, Zenon DEF Count, KidCount, ItemAt, KidAt
<1>3. /\ J[c] \in Nodes /\ J[c].leaf = N[c].leaf
      /\ Count(J, c) = Count(N, c) + Count(N, d) + 1
      /\ KidCount(J, c) = KidCount(N, c) + KidCount(N, d)
      /\ \A j \in 1 .. Count(N, c) : ItemAt(J, c, j) = ItemAt(N, c, j)
      /\ ItemAt(J, c, m) = ItemAt(N, p, i)
      /\ \A j \in 1 .. Count(N, d) : ItemAt(J, c, m + j) = ItemAt(N, d, j)
      /\ \A j \in 1 .. KidCount(N, c) : KidAt(J, c, j) = KidAt(N, c, j)
      /\ \A j \in 1 .. KidCount(N, d) : KidAt(J, c, KidCount(N, c) + j) = KidAt(N, d, j)
  <2> DEFINE it == ItemAt(N, p, i)
             a == N[c]
             b == N[d]
             n == JoinedNode(a, it, b)
  <2>1. a \in Nodes /\ b \in Nodes /\ it \in Item /\ m = Len(a.items) + 1
    BY <1>1 DEF Count
  <2> USE DEF Siblings
  <2> HIDE DEF m, a, b, it
  <2>2. /\ n \in Nodes /\ n.leaf = a.leaf
        /\ Len(n.items) = Len(a.items) + Len(b.items) + 1
        /\ Len(n.kids) = Len(a.kids) + Len(b.kids)
        /\ \A j \in 1 .. Len(a.items) : n.items[j] = a.items[j]
        /\ n.items[m] = it
        /\ \A j \in 1 .. Len(b.items) : n.items[m + j] = b.items[j]
        /\ \A j \in 1 .. Len(a.kids) : n.kids[j] = a.kids[j]
        /\ \A j \in 1 .. Len(b.kids) : n.kids[Len(a.kids) + j] = b.kids[j]
    <3>1. JoinedTo(n, a, it, b, m)
      BY <2>1, JoinedNodeIs
    <3> QED BY <3>1, Zenon DEF JoinedTo
  <2>3. J[c] = n
    BY DEF Joins, ItemAt, a, b, it
  <2> HIDE DEF n
  <2> QED BY <2>2, <2>3, Zenon DEF Count, KidCount, ItemAt, KidAt, a, b, it
<1>4. CutNodes(J, N, w, p, c, d)
  BY <1>2, <1>3, Zenon DEF CutNodes, Joins
<1>5. /\ Count(N, p) = Count(J, p) + 1 /\ KidCount(N, p) = KidCount(J, p) + 1
      /\ Count(J, p) = Count(N, p) - 1 /\ KidCount(J, p) = KidCount(N, p) - 1
      /\ i \in 1 .. KidCount(J, p) /\ i <= i
  BY <1>1, <1>2, SMT
<1>6. CutItems(J, N, p, i, c, d, m)
  <2>1. \A j \in 1 .. Count(J, p) : ItemAt(J, p, j) = ItemAt(N, p, IF j < i THEN j ELSE j + 1)
    BY <1>2, <1>5, Zenon
  <2> HIDE DEF m
  <2>2. m = Count(N, c) + 1
    BY DEF m
  <2> QED BY <2>1, <2>2, <1>3, <1>5, Zenon DEF CutItems
<1>7. CutKids(J, N, w, p, i, c, d)
  <2>1. \A j \in 1 .. KidCount(J, p) : KidAt(J, p, j) = KidAt(N, p, IF j <= i THEN j ELSE j + 1)
    BY <1>2, <1>5, Zenon
  <2>2. KidAt(J, p, i) = c
    BY <2>1, <1>5
  <2>3. /\ KidCount(N, c) = IF w.height[c] = 0 THEN 0 ELSE Count(N, c) + 1
        /\ KidCount(N, d) = IF w.height[c] = 0 THEN 0 ELSE Count(N, d) + 1
    BY Zenon
  <2> QED BY <2>1, <2>2, <2>3, <1>3, <1>5, Zenon DEF CutKids
<1> QED BY <1>4, <1>6, <1>7 DEF CutOf

-----------------------------------------------------------------------------
(* What it means to cut a node in two, to join two, and to move the place  *)
(* where two nodes are cut.                                                *)

(* A key that a node above the leaves holds. *)
Inner(nodes, w, x) == \E q \in w.pages : \E j \in 1 .. Count(nodes, q) : w.height[q] /= 0 /\ KeyAt(nodes, q, j) = x

SameHeld(A, w, B, v) == \A it : Held(A, w, it) <=> Held(B, v, it)

CutDone(J, N, root, w, v, k, c, d) ==
  /\ Shape(J, root, w) /\ Shape(N, root, v) /\ PlacesCut(w, v, k, c, d)
  /\ SameHeld(J, w, N, v)
  /\ \A x : Inner(N, v, x) => Inner(J, w, x) \/ x = k
  /\ \A x : Inner(J, w, x) => Inner(N, v, x)

LEMMA InnerCut ==
  ASSUME NEW J, NEW N, NEW root, NEW w, NEW p, NEW i, NEW c, NEW d,
         Shape(J, root, w), CutOf(J, N, w, p, i, c, d),
         NEW k, k = KeyAt(N, p, i), NEW v, PlacesCut(w, v, k, c, d)
  PROVE  /\ \A x : Inner(N, v, x) => Inner(J, w, x) \/ x = k
         /\ \A x : Inner(J, w, x) => Inner(N, v, x)
<1> DEFINE m == Count(N, c) + 1
<1>1. /\ CutCounts(J, N, p, i, c, d, m) /\ CutKeys(J, N, p, i, c, d, k, m) /\ CutKeyOf(J, N, p, i, k)
  BY CutFacts
<1>2. SameNodes(J, N, w, p, c)
  BY CutSame DEF CutOf
<1>3. /\ p \in w.pages /\ c \in w.pages /\ J[p].leaf = FALSE
      /\ v.pages = w.pages \cup {d} /\ v.height[d] = w.height[c]
      /\ \A q \in w.pages : v.height[q] = w.height[q]
      /\ i \in 1 .. Count(N, p)
  BY Zenon DEF CutOf, CutNodes, CutItems, PlacesCut
<1>4. w.height[p] /= 0
  <2>1. J[p].leaf = (w.height[p] = 0)
    BY <1>3, Zenon DEF Shape, Branching
  <2> QED BY <2>1, <1>3
<1> HIDE DEF m
<1>5. ASSUME NEW x, Inner(N, v, x), x /= k
      PROVE  Inner(J, w, x)
  <2>1. PICK q \in v.pages : \E j \in 1 .. Count(N, q) : v.height[q] /= 0 /\ KeyAt(N, q, j) = x
    BY <1>5 DEF Inner
  <2>2. PICK j \in 1 .. Count(N, q) : v.height[q] /= 0 /\ KeyAt(N, q, j) = x
    BY <2>1
  <2>3. CASE q = p
    <3>1. \E n \in 1 .. Count(J, p) : KeyAt(J, p, n) = x
      <4>1. j \in 1 .. Count(N, p) /\ KeyAt(N, p, j) = x
        BY <2>2, <2>3
      <4> QED BY <4>1, <1>1, <1>5, Zenon DEF CutKeyOf
    <3> QED BY <3>1, <1>3, <1>4, Zenon DEF Inner
  <2>4. CASE q = c
    <3>1. j \in 1 .. Count(J, c) /\ KeyAt(J, c, j) = x
      <4>1. j \in 1 .. Count(N, c) /\ KeyAt(N, c, j) = x
        BY <2>2, <2>4
      <4> QED BY <4>1, <1>1, Zenon DEF CutKeys
    <3>2. w.height[c] /= 0
      BY <2>2, <2>4, <1>3
    <3> QED BY <3>1, <3>2, <1>3, Zenon DEF Inner
  <2>5. CASE q = d
    <3>1. m + j \in 1 .. Count(J, c) /\ KeyAt(J, c, m + j) = x
      <4>1. j \in 1 .. Count(N, d) /\ KeyAt(N, d, j) = x
        BY <2>2, <2>5
      <4> QED BY <4>1, <1>1, Zenon DEF CutKeys
    <3>2. w.height[c] /= 0
      BY <2>2, <2>5, <1>3
    <3> QED BY <3>1, <3>2, <1>3, Zenon DEF Inner
  <2>6. CASE q \notin {p, c, d}
    <3>1. q \in w.pages \ {p, c} /\ w.height[q] /= 0
      BY <2>2, <2>6, <1>3
    <3>2. Count(N, q) = Count(J, q) /\ KeyAt(N, q, j) = KeyAt(J, q, j)
      BY <3>1, <1>2, Zenon DEF SameNodes
    <3>3. j \in 1 .. Count(J, q) /\ KeyAt(J, q, j) = x
      BY <3>2, <2>2
    <3> QED BY <3>1, <3>3 DEF Inner
  <2> QED BY <2>3, <2>4, <2>5, <2>6
<1>6. ASSUME NEW x, Inner(J, w, x)
      PROVE  Inner(N, v, x)
  <2>1. PICK q \in w.pages : \E j \in 1 .. Count(J, q) : w.height[q] /= 0 /\ KeyAt(J, q, j) = x
    BY <1>6 DEF Inner
  <2>2. PICK j \in 1 .. Count(J, q) : w.height[q] /= 0 /\ KeyAt(J, q, j) = x
    BY <2>1
  <2>3. CASE q = p
    <3>1. InNode(J, N, p, i)
      BY <1>1, InNodeKeys
    <3>2. j \in 1 .. Count(J, p) /\ KeyAt(J, p, j) = x
      BY <2>2, <2>3
    <3>3. \E n \in 1 .. Count(N, p) : KeyAt(N, p, n) = x
      BY <3>1, <3>2, Zenon DEF InNode
    <3>4. p \in v.pages /\ v.height[p] /= 0
      BY <1>3, <1>4
    <3> QED BY <3>3, <3>4, Zenon DEF Inner
  <2>4. CASE q = c
    <3>1. JoinedKeyOf(J, N, c, d, k, m)
      BY <1>1, JoinedKeys
    <3>2. j \in 1 .. Count(J, c) /\ KeyAt(J, c, j) = x /\ w.height[c] /= 0
      BY <2>2, <2>4
    <3>3. \/ \E n \in 1 .. Count(N, c) : KeyAt(N, c, n) = x
          \/ x = k
          \/ \E n \in 1 .. Count(N, d) : KeyAt(N, d, n) = x
      BY <3>1, <3>2, Zenon DEF JoinedKeyOf
    <3>4. /\ c \in v.pages /\ v.height[c] /= 0 /\ d \in v.pages /\ v.height[d] /= 0
          /\ p \in v.pages /\ v.height[p] /= 0
      BY <1>3, <1>4, <3>2
    <3>5. CASE \E n \in 1 .. Count(N, c) : KeyAt(N, c, n) = x
      BY <3>5, <3>4, Zenon DEF Inner
    <3>6. CASE x = k
      <4>1. KeyAt(N, p, i) = x
        BY <3>6
      <4> QED BY <4>1, <3>4, <1>3, Zenon DEF Inner
    <3>7. CASE \E n \in 1 .. Count(N, d) : KeyAt(N, d, n) = x
      BY <3>7, <3>4, Zenon DEF Inner
    <3> QED BY <3>3, <3>5, <3>6, <3>7
  <2>5. CASE q \notin {p, c}
    <3>1. q \in w.pages \ {p, c} /\ q \in v.pages /\ v.height[q] /= 0
      BY <2>2, <2>5, <1>3
    <3>2. Count(N, q) = Count(J, q) /\ KeyAt(N, q, j) = KeyAt(J, q, j)
      BY <3>1, <1>2, Zenon DEF SameNodes
    <3>3. j \in 1 .. Count(N, q) /\ KeyAt(N, q, j) = x
      BY <3>2, <2>2
    <3> QED BY <3>1, <3>3 DEF Inner
  <2> QED BY <2>3, <2>4, <2>5
<1> QED BY <1>5, <1>6

LEMMA DoCut ==
  ASSUME NEW J, NEW N, NEW root, NEW w, NEW p, NEW i, NEW c, NEW d,
         Shape(J, root, w), CutOf(J, N, w, p, i, c, d),
         NEW k, k = KeyAt(N, p, i), NEW v, v = CutPlaces(w, k, c, d)
  PROVE  CutDone(J, N, root, w, v, k, c, d)
<1>1. Shape(N, root, v)
  BY Cut
<1>2. c \in w.pages /\ d \notin w.pages
  BY DEF CutOf, CutNodes
<1>3. PlacesCut(w, v, k, c, d)
  BY <1>2, CutPlacesAre
<1>4. v.pages = w.pages \cup {d}
  BY <1>3 DEF PlacesCut
<1>5. SameHeld(J, w, N, v)
  BY <1>4, CutContents DEF SameHeld
<1>6. /\ \A x : Inner(N, v, x) => Inner(J, w, x) \/ x = k
      /\ \A x : Inner(J, w, x) => Inner(N, v, x)
  BY <1>3, InnerCut
<1> QED BY <1>1, <1>3, <1>5, <1>6 DEF CutDone

LEMMA DoJoin ==
  ASSUME NEW J, NEW N, NEW root, NEW v, NEW p, NEW i, NEW c, NEW d,
         Shape(N, root, v), c \in v.pages, d \in v.pages,
         NEW w, w = JoinPlaces(v, c, d), CutOf(J, N, w, p, i, c, d),
         NEW k, k = KeyAt(N, p, i)
  PROVE  CutDone(J, N, root, w, v, k, c, d)
<1>1. Shape(J, root, w) /\ PlacesCut(w, v, k, c, d)
  BY Join
<1>2. v.pages = w.pages \cup {d}
  BY <1>1 DEF PlacesCut
<1>3. SameHeld(J, w, N, v)
  BY <1>2, CutContents DEF SameHeld
<1>4. /\ \A x : Inner(N, v, x) => Inner(J, w, x) \/ x = k
      /\ \A x : Inner(J, w, x) => Inner(N, v, x)
  BY <1>1, InnerCut
<1> QED BY <1>1, <1>3, <1>4 DEF CutDone

(* Two kids of a node of the tree. *)
LEMMA SiblingsAre ==
  ASSUME NEW N, NEW root, NEW v, Shape(N, root, v), NEW p \in v.pages, N[p].leaf = FALSE, NEW i \in 1 .. Count(N, p),
         NEW c, c = KidAt(N, p, i), NEW d, d = KidAt(N, p, i + 1)
  PROVE  Siblings(N, p, i, c, d) /\ c \in v.pages /\ d \in v.pages
<1>1. Count(N, p) \in Nat
  BY NodeFacts DEF Shape
<1>2. v.height[p] /= 0 /\ KidCount(N, p) = Count(N, p) + 1
  <2>1. N[p].leaf = (v.height[p] = 0)
    BY Zenon DEF Shape, Branching
  <2>2. v.height[p] /= 0
    BY <2>1
  <2> QED BY <2>2, Zenon DEF Shape, Branching
<1>3. i \in 1 .. KidCount(N, p) /\ i + 1 \in 1 .. KidCount(N, p) /\ i /= i + 1
  BY <1>1, <1>2, SMT
<1>4. KidBelow(N, root, v, p, i, c) /\ KidBelow(N, root, v, p, i + 1, d)
  BY <1>3, KidIsBelow
<1>5. /\ c \in v.pages /\ v.height[p] = v.height[c] + 1 /\ c /= p
      /\ d \in v.pages /\ v.height[p] = v.height[d] + 1 /\ d /= p
  BY <1>4 DEF KidBelow
<1>6. c /= d
  BY <1>3, OneParent
<1>7. v.height[d] = v.height[c]
  <2>1. v.height[c] \in Nat /\ v.height[d] \in Nat
    BY <1>5, PlacesAre DEF Shape
  <2> QED BY <2>1, <1>5, SMT
<1>8. /\ N[c].leaf = (v.height[c] = 0) /\ N[d].leaf = (v.height[d] = 0)
      /\ KidCount(N, c) = IF v.height[c] = 0 THEN 0 ELSE Count(N, c) + 1
      /\ KidCount(N, d) = IF v.height[d] = 0 THEN 0 ELSE Count(N, d) + 1
  BY <1>5, Zenon DEF Shape, Branching
<1>9. /\ N[d].leaf = N[c].leaf
      /\ KidCount(N, c) = IF N[c].leaf THEN 0 ELSE Count(N, c) + 1
      /\ KidCount(N, d) = IF N[c].leaf THEN 0 ELSE Count(N, d) + 1
  <2>1. CASE v.height[c] = 0
    BY <2>1, <1>7, <1>8
  <2>2. CASE v.height[c] /= 0
    BY <2>2, <1>7, <1>8
  <2> QED BY <2>1, <2>2
<1>10. /\ p \in DOMAIN N /\ c \in DOMAIN N /\ d \in DOMAIN N
       /\ N[p] \in Nodes /\ N[c] \in Nodes /\ N[d] \in Nodes
  BY <1>5, NodeFacts DEF Shape
<1>11. d \in Nat
  BY <1>5, PlacesAre DEF Shape
<1> QED BY <1>2, <1>5, <1>6, <1>9, <1>10, <1>11, Zenon DEF Siblings

JoinNodes(N, p, i, c, d) ==
  [q \in DOMAIN N |-> IF q = p THEN LessNode(N[p], i)
                      ELSE IF q = c THEN JoinedNode(N[c], N[p].items[i], N[d]) ELSE N[q]]

LEMMA JoinNodesAre ==
  ASSUME NEW N, NEW p, NEW i, NEW c, NEW d, Siblings(N, p, i, c, d), NEW J, J = JoinNodes(N, p, i, c, d)
  PROVE  /\ Joins(J, N, p, i, c, d)
         /\ DOMAIN J = DOMAIN N /\ \A q \in DOMAIN N : q \notin {p, c} => J[q] = N[q]
  BY Zenon DEF JoinNodes, Siblings, Joins

(* B is A but for where kids c and d of p are cut. *)
Shifts(A, B, v, p, i, c, d) ==
  /\ Siblings(A, p, i, c, d) /\ Siblings(B, p, i, c, d) /\ B[c].leaf = A[c].leaf
  /\ LessNode(B[p], i) = LessNode(A[p], i)
  /\ JoinedNode(B[c], B[p].items[i], B[d]) = JoinedNode(A[c], A[p].items[i], A[d])
  /\ \A q \in v.pages \ {p, c, d} : q \in DOMAIN B /\ B[q] = A[q]

ShiftDone(A, B, root, v, u, k, c, d) ==
  /\ Shape(B, root, u) /\ u.pages = v.pages /\ SameHeld(A, v, B, u)
  /\ \A q \in v.pages : /\ u.height[q] = v.height[q]
                        /\ u.lo[q] = IF q = d THEN k ELSE v.lo[q]
                        /\ u.hi[q] = IF q = c THEN k ELSE v.hi[q]
  /\ \A x : Inner(B, u, x) => Inner(A, v, x) \/ x = k

LEMMA DoShift ==
  ASSUME NEW A, NEW B, NEW root, NEW v, Shape(A, root, v), NEW p \in v.pages, NEW i,
         NEW c \in v.pages, NEW d \in v.pages, Shifts(A, B, v, p, i, c, d), NEW k, k = KeyAt(B, p, i)
  PROVE  \E u : ShiftDone(A, B, root, v, u, k, c, d)
<1> DEFINE w == JoinPlaces(v, c, d)
           J == JoinNodes(A, p, i, c, d)
           u == CutPlaces(w, k, c, d)
           e == KeyAt(A, p, i)
<1>1. /\ Siblings(A, p, i, c, d) /\ Siblings(B, p, i, c, d) /\ B[c].leaf = A[c].leaf
      /\ p /= c /\ p /= d /\ c /= d
  BY DEF Shifts, Siblings
<1>2. Joins(J, A, p, i, c, d) /\ DOMAIN J = DOMAIN A /\ \A q \in DOMAIN A : q \notin {p, c} => J[q] = A[q]
  BY <1>1, JoinNodesAre
<1>3. Joins(J, B, p, i, c, d)
  BY <1>2, Zenon DEF Joins, Shifts
<1>4. w.pages = v.pages \ {d} /\ \A q \in v.pages \ {d} : w.height[q] = v.height[q]
  BY Zenon DEF JoinPlaces
<1> HIDE DEF w, J
<1>5. A[c].leaf = (w.height[c] = 0)
  <2>1. A[c].leaf = (v.height[c] = 0) /\ w.height[c] = v.height[c]
    BY <1>1, <1>4, Zenon DEF Shape, Branching
  <2> QED BY <2>1
<1>6. \A q \in v.pages : q \in DOMAIN A
  BY NodeFacts DEF Shape
<1>7. \A q \in w.pages \ {p, c} : q \in DOMAIN A /\ q \in DOMAIN J /\ A[q] = J[q] /\ q \in DOMAIN B /\ B[q] = J[q]
  BY <1>2, <1>4, <1>6, Zenon DEF Shifts
<1>8. p \in w.pages /\ c \in w.pages /\ d \notin w.pages
  BY <1>1, <1>4
<1>9. CutOf(J, A, w, p, i, c, d)
  BY <1>1, <1>2, <1>5, <1>7, <1>8, CutIs
<1>10. CutOf(J, B, w, p, i, c, d)
  <2>1. B[c].leaf = (w.height[c] = 0)
    BY <1>1, <1>5
  <2> QED BY <1>1, <1>3, <2>1, <1>7, <1>8, CutIs
<1>11. CutDone(J, A, root, w, v, e, c, d)
  BY <1>9, DoJoin DEF w
<1>12. CutDone(J, B, root, w, u, k, c, d)
  <2>1. Shape(J, root, w)
    BY <1>11 DEF CutDone
  <2> QED BY <2>1, <1>10, DoCut
<1> HIDE DEF u, e
<1>13. /\ v.pages = w.pages \cup {d} /\ u.pages = w.pages \cup {d} /\ d /= c
       /\ \A q \in w.pages : v.height[q] = w.height[q] /\ v.lo[q] = w.lo[q]
       /\ \A q \in w.pages : u.height[q] = w.height[q] /\ u.lo[q] = w.lo[q]
       /\ \A q \in w.pages : q /= c => v.hi[q] = w.hi[q] /\ u.hi[q] = w.hi[q]
       /\ v.hi[d] = w.hi[c] /\ u.hi[d] = w.hi[c]
       /\ u.hi[c] = k /\ u.lo[d] = k /\ v.height[d] = w.height[c] /\ u.height[d] = w.height[c]
  BY <1>11, <1>12, Zenon DEF CutDone, PlacesCut
<1>14. \A q \in v.pages : /\ u.height[q] = v.height[q]
                          /\ u.lo[q] = IF q = d THEN k ELSE v.lo[q]
                          /\ u.hi[q] = IF q = c THEN k ELSE v.hi[q]
  <2> TAKE q \in v.pages
  <2>1. CASE q = d
    BY <2>1, <1>13
  <2>2. CASE q /= d
    <3>1. q \in w.pages
      BY <2>2, <1>13
    <3>2. u.height[q] = v.height[q] /\ u.lo[q] = v.lo[q]
      BY <3>1, <1>13, Zenon
    <3>3. u.hi[q] = IF q = c THEN k ELSE v.hi[q]
      BY <3>1, <1>13
    <3> QED BY <3>2, <3>3, <2>2
  <2> QED BY <2>1, <2>2
<1>15. SameHeld(A, v, B, u)
  BY <1>11, <1>12, Zenon DEF CutDone, SameHeld
<1>16. \A x : Inner(B, u, x) => Inner(A, v, x) \/ x = k
  BY <1>11, <1>12, Zenon DEF CutDone
<1>17. Shape(B, root, u)
  BY <1>12 DEF CutDone
<1>18. u.pages = v.pages
  BY <1>13
<1> QED BY <1>14, <1>15, <1>16, <1>17, <1>18, Zenon DEF ShiftDone

-----------------------------------------------------------------------------
(* An item goes from a node to its sibling, by way of their parent.        *)

(* The kids of siblings, which have one more than their items or none. *)
LEMMA SiblingSeqs ==
  ASSUME NEW A, NEW p, NEW i, NEW c, NEW d, Siblings(A, p, i, c, d)
  PROVE  /\ A[p].items \in Seq(Item) /\ A[c].items \in Seq(Item) /\ A[d].items \in Seq(Item)
         /\ A[p].kids \in Seq(Nat) /\ A[c].kids \in Seq(Nat) /\ A[d].kids \in Seq(Nat)
         /\ A[c].leaf \in BOOLEAN /\ i \in 1 .. Len(A[p].items) /\ A[p].items[i] \in Item
         /\ Count(A, p) \in Nat /\ Count(A, c) \in Nat /\ Count(A, d) \in Nat
<1>1. A[p] \in Nodes /\ A[c] \in Nodes /\ A[d] \in Nodes /\ i \in 1 .. Count(A, p)
  BY DEF Siblings
<1>2. /\ A[p].items \in Seq(Item) /\ A[c].items \in Seq(Item) /\ A[d].items \in Seq(Item)
      /\ A[p].kids \in Seq(Nat) /\ A[c].kids \in Seq(Nat) /\ A[d].kids \in Seq(Nat)
      /\ A[c].leaf \in BOOLEAN
  BY <1>1, NodeSeqs, Zenon
<1>3. i \in 1 .. Len(A[p].items)
  BY <1>1 DEF Count
<1>4. A[p].items[i] \in Item
  BY <1>2, <1>3, ElementOfSeq
<1>5. Count(A, p) \in Nat /\ Count(A, c) \in Nat /\ Count(A, d) \in Nat
  BY <1>1, NodeIs
<1> QED BY <1>2, <1>3, <1>4, <1>5

(* The parent of c and d has another item between them; it has the same    *)
(* rest.                                                                   *)
ParentLike(A, B, p, i, e) ==
  /\ B[p] \in Nodes /\ B[p].leaf = FALSE /\ Count(B, p) = Count(A, p) /\ KidCount(B, p) = KidCount(A, p)
  /\ B[p].items[i] = e /\ B[p].kids = A[p].kids
  /\ LessNode(B[p], i) = LessNode(A[p], i)

LEMMA ParentChanged ==
  ASSUME NEW A, NEW B, NEW p, NEW i, NEW c, NEW d, Siblings(A, p, i, c, d), NEW e \in Item,
         B[p] = Node(FALSE, [A[p].items EXCEPT ![i] = e], A[p].kids)
  PROVE  ParentLike(A, B, p, i, e)
<1> DEFINE s == A[p].items
           z == [s EXCEPT ![i] = e]
<1>1. s \in Seq(Item) /\ i \in 1 .. Len(s) /\ A[p].kids \in Seq(Nat)
  BY SiblingSeqs
<1>2. z \in Seq(Item) /\ Len(z) = Len(s) /\ z[i] = e
  <2>1. z \in Seq(Item) /\ Len(z) = Len(s) /\ \A j \in 1 .. Len(s) : z[j] = IF j = i THEN e ELSE s[j]
    BY <1>1, ExceptSeq
  <2> QED BY <2>1, <1>1
<1>3. RemoveAt(z, i) = RemoveAt(s, i)
  BY <1>1, RemoveChanged
<1> HIDE DEF z
<1>4. B[p] \in Nodes /\ B[p].leaf = FALSE /\ B[p].items = z /\ B[p].kids = A[p].kids
  <2>1. B[p] = Node(FALSE, z, A[p].kids)
    BY DEF z
  <2>2. z \in Seq(Item) /\ A[p].kids \in Seq(Nat)
    BY <1>1, <1>2
  <2>3. IsNode(B[p], FALSE, z, A[p].kids)
    BY <2>1, <2>2, InnerOf
  <2> QED BY <2>3, Zenon DEF IsNode
<1> QED BY <1>2, <1>3, <1>4, Zenon DEF Count, KidCount, LessNode, ParentLike

LentRight(A, B, p, i, c, d) ==
  /\ B[p] = Node(FALSE, [A[p].items EXCEPT ![i] = Last(A[c].items)], A[p].kids)
  /\ B[c] = Node(A[c].leaf, Front(A[c].items), IF A[c].leaf THEN <<>> ELSE Front(A[c].kids))
  /\ B[d] = Node(A[c].leaf, <<A[p].items[i]>> \o A[d].items,
                 IF A[c].leaf THEN <<>> ELSE <<Last(A[c].kids)>> \o A[d].kids)

LentLeft(A, B, p, i, c, d) ==
  /\ B[p] = Node(FALSE, [A[p].items EXCEPT ![i] = Head(A[d].items)], A[p].kids)
  /\ B[c] = Node(A[c].leaf, Append(A[c].items, A[p].items[i]),
                 IF A[c].leaf THEN <<>> ELSE Append(A[c].kids, Head(A[d].kids)))
  /\ B[d] = Node(A[c].leaf, Tail(A[d].items), IF A[c].leaf THEN <<>> ELSE Tail(A[d].kids))

ShiftsSo(A, B, v, p, i, c, d, m, n, e) ==
  /\ Shifts(A, B, v, p, i, c, d)
  /\ Count(B, p) = Count(A, p) /\ Count(B, c) = m /\ Count(B, d) = n /\ ItemAt(B, p, i) = e

(* What is the same whether it goes to the right or to the left. *)
LEMMA ShiftsIf ==
  ASSUME NEW A, NEW B, NEW v, NEW p, NEW i, NEW c, NEW d, Siblings(A, p, i, c, d),
         p \in DOMAIN B, c \in DOMAIN B, d \in DOMAIN B,
         \A q \in v.pages \ {p, c, d} : q \in DOMAIN B /\ B[q] = A[q],
         NEW e \in Item, B[p] = Node(FALSE, [A[p].items EXCEPT ![i] = e], A[p].kids),
         NEW ci \in Seq(Item), NEW ck \in Seq(Nat), NEW di \in Seq(Item), NEW dk \in Seq(Nat),
         B[c] = Node(A[c].leaf, ci, ck), B[d] = Node(A[c].leaf, di, dk),
         Len(ck) = IF A[c].leaf THEN 0 ELSE Len(ci) + 1,
         Len(dk) = IF A[c].leaf THEN 0 ELSE Len(di) + 1,
         ci \o <<e>> \o di = A[c].items \o <<A[p].items[i]>> \o A[d].items,
         ck \o dk = A[c].kids \o A[d].kids
  PROVE  ShiftsSo(A, B, v, p, i, c, d, Len(ci), Len(di), e)
<1>1. /\ B[p] \in Nodes /\ B[p].leaf = FALSE /\ Count(B, p) = Count(A, p) /\ KidCount(B, p) = KidCount(A, p)
      /\ B[p].items[i] = e /\ B[p].kids = A[p].kids
      /\ LessNode(B[p], i) = LessNode(A[p], i)
  <2>1. ParentLike(A, B, p, i, e)
    BY ParentChanged
  <2> QED BY <2>1, Zenon DEF ParentLike
<1>2. A[c].leaf \in BOOLEAN
  BY SiblingSeqs
<1>3. B[c] \in Nodes /\ B[c].leaf = A[c].leaf /\ B[c].items = ci /\ B[c].kids = ck
  <2>1. IsNode(B[c], A[c].leaf, ci, ck)
    BY <1>2, NodeOf
  <2> QED BY <2>1, Zenon DEF IsNode
<1>4. B[d] \in Nodes /\ B[d].leaf = A[c].leaf /\ B[d].items = di /\ B[d].kids = dk
  <2>1. IsNode(B[d], A[c].leaf, di, dk)
    BY <1>2, NodeOf
  <2> QED BY <2>1, Zenon DEF IsNode
<1>5. Siblings(B, p, i, c, d)
  <2>1. KidAt(B, p, i) = c /\ KidAt(B, p, i + 1) = d
    BY <1>1 DEF Siblings, KidAt
  <2>2. /\ KidCount(B, c) = IF B[c].leaf THEN 0 ELSE Count(B, c) + 1
        /\ KidCount(B, d) = IF B[c].leaf THEN 0 ELSE Count(B, d) + 1
    BY <1>3, <1>4 DEF KidCount, Count
  <2> QED BY <2>1, <2>2, <1>1, <1>3, <1>4, Zenon DEF Siblings
<1>6. JoinedNode(B[c], B[p].items[i], B[d]) = JoinedNode(A[c], A[p].items[i], A[d])
  BY <1>1, <1>3, <1>4, Zenon DEF JoinedNode
<1> QED BY <1>1, <1>3, <1>4, <1>5, <1>6, Zenon DEF Shifts, Count, ItemAt, ShiftsSo

LEMMA LendRight ==
  ASSUME NEW A, NEW B, NEW v, NEW p, NEW i, NEW c, NEW d, Siblings(A, p, i, c, d), LentRight(A, B, p, i, c, d),
         p \in DOMAIN B, c \in DOMAIN B, d \in DOMAIN B,
         \A q \in v.pages \ {p, c, d} : q \in DOMAIN B /\ B[q] = A[q],
         Count(A, c) >= 1
  PROVE  ShiftsSo(A, B, v, p, i, c, d, Count(A, c) - 1, Count(A, d) + 1, ItemAt(A, c, Count(A, c)))
<1> DEFINE s == A[c].items
           sk == A[c].kids
           t == A[d].items
           tk == A[d].kids
           x == A[p].items[i]
           leaf == A[c].leaf
<1>1. /\ s \in Seq(Item) /\ sk \in Seq(Nat) /\ t \in Seq(Item) /\ tk \in Seq(Nat) /\ x \in Item /\ leaf \in BOOLEAN
      /\ Len(s) \in Nat /\ Len(t) \in Nat /\ Len(s) >= 1
  BY SiblingSeqs DEF Count
<1>2. Len(sk) = (IF leaf THEN 0 ELSE Len(s) + 1) /\ Len(tk) = (IF leaf THEN 0 ELSE Len(t) + 1)
  BY DEF Siblings, KidCount, Count
<1>3. /\ B[p] = Node(FALSE, [A[p].items EXCEPT ![i] = Last(s)], A[p].kids)
      /\ B[c] = Node(leaf, Front(s), IF leaf THEN <<>> ELSE Front(sk))
      /\ B[d] = Node(leaf, <<x>> \o t, IF leaf THEN <<>> ELSE <<Last(sk)>> \o tk)
  BY DEF LentRight
<1>4. Count(A, c) = Len(s) /\ Count(A, d) = Len(t) /\ ItemAt(A, c, Count(A, c)) = s[Len(s)]
  BY DEF Count, ItemAt
<1> DEFINE ci == Front(s)
           di == <<x>> \o t
           ck == IF leaf THEN <<>> ELSE Front(sk)
           dk == IF leaf THEN <<>> ELSE <<Last(sk)>> \o tk
           e == Last(s)
<1> HIDE DEF s, sk, t, tk, x, leaf
<1>5. /\ ci \in Seq(Item) /\ Len(ci) = Len(s) - 1 /\ e \in Item
      /\ e = s[Len(s)] /\ ci \o <<e>> = s
  BY <1>1, FrontLast
<1>6. di \in Seq(Item) /\ Len(di) = Len(t) + 1 /\ <<x>> \in Seq(Item) /\ Len(<<x>>) = 1
  <2>1. <<x>> \in Seq(Item) /\ Len(<<x>>) = 1
    BY <1>1, OneIs
  <2>2. di \in Seq(Item) /\ Len(di) = Len(<<x>>) + Len(t)
    BY <2>1, <1>1, ConcatProperties
  <2> QED BY <2>1, <2>2, <1>1
<1>7. ci \o <<e>> \o di = s \o <<x>> \o t
  <2>1. ci \o <<e>> \o di = s \o (<<x>> \o t)
    BY <1>5
  <2>2. (s \o <<x>>) \o t = s \o (<<x>> \o t)
    BY <1>1, <1>6, ConcatAssociative
  <2> QED BY <2>1, <2>2
<1>8. /\ ck \in Seq(Nat) /\ dk \in Seq(Nat)
      /\ Len(ck) = (IF leaf THEN 0 ELSE Len(ci) + 1) /\ Len(dk) = (IF leaf THEN 0 ELSE Len(di) + 1)
      /\ ck \o dk = sk \o tk
  <2>1. CASE leaf
    <3>1. sk = <<>> /\ tk = <<>>
      <4>1. Len(sk) = 0 /\ Len(tk) = 0
        BY <2>1, <1>2
      <4> QED BY <4>1, <1>1, EmptySeq
    <3>2. ck = <<>> /\ dk = <<>>
      BY <2>1
    <3>3. <<>> \in Seq(Nat) /\ Len(<<>>) = 0
      BY EmptySeq
    <3> QED BY <3>1, <3>2, <3>3, <2>1
  <2>2. CASE ~leaf
    <3>1. Len(sk) = Len(s) + 1 /\ Len(tk) = Len(t) + 1 /\ Len(sk) >= 1
      BY <2>2, <1>1, <1>2
    <3>2. /\ Front(sk) \in Seq(Nat) /\ Len(Front(sk)) = Len(sk) - 1 /\ Last(sk) \in Nat
          /\ Front(sk) \o <<Last(sk)>> = sk
      BY <3>1, <1>1, FrontLast
    <3>3. <<Last(sk)>> \in Seq(Nat) /\ Len(<<Last(sk)>>) = 1
      BY <3>2, OneIs
    <3>4. <<Last(sk)>> \o tk \in Seq(Nat) /\ Len(<<Last(sk)>> \o tk) = Len(<<Last(sk)>>) + Len(tk)
      BY <3>3, <1>1, ConcatProperties
    <3>5. (Front(sk) \o <<Last(sk)>>) \o tk = Front(sk) \o (<<Last(sk)>> \o tk)
      <4>1. Front(sk) \in Seq(Nat) /\ <<Last(sk)>> \in Seq(Nat) /\ tk \in Seq(Nat)
        BY <3>2, <3>3, <1>1
      <4> QED BY <4>1, ConcatAssociative
    <3>6. ck = Front(sk) /\ dk = <<Last(sk)>> \o tk
      BY <2>2
    <3> HIDE DEF ck, dk
    <3>7. ck \in Seq(Nat) /\ dk \in Seq(Nat) /\ ck \o dk = sk \o tk
      BY <3>2, <3>4, <3>5, <3>6
    <3>8. Len(ck) = Len(ci) + 1 /\ Len(dk) = Len(di) + 1
      <4>1. Len(ck) = Len(sk) - 1 /\ Len(dk) = 1 + Len(tk)
        BY <3>2, <3>3, <3>4, <3>6
      <4> HIDE DEF ci, di
      <4> QED BY <4>1, <3>1, <1>1, <1>5, <1>6
    <3> QED BY <3>7, <3>8, <2>2
  <2> QED BY <2>1, <2>2
<1> HIDE DEF ci, di, ck, dk, e
<1>9. /\ B[p] = Node(FALSE, [A[p].items EXCEPT ![i] = e], A[p].kids)
      /\ B[c] = Node(A[c].leaf, ci, ck) /\ B[d] = Node(A[c].leaf, di, dk)
      /\ ci \o <<e>> \o di = A[c].items \o <<A[p].items[i]>> \o A[d].items
      /\ ck \o dk = A[c].kids \o A[d].kids
      /\ Len(ck) = (IF A[c].leaf THEN 0 ELSE Len(ci) + 1)
      /\ Len(dk) = (IF A[c].leaf THEN 0 ELSE Len(di) + 1)
  BY <1>3, <1>7, <1>8, Zenon DEF s, sk, t, tk, x, leaf, ci, di, ck, dk, e
<1>10. ShiftsSo(A, B, v, p, i, c, d, Len(ci), Len(di), e)
  BY <1>5, <1>6, <1>8, <1>9, ShiftsIf
<1> QED BY <1>4, <1>5, <1>6, <1>10 DEF ShiftsSo

LEMMA LendLeft ==
  ASSUME NEW A, NEW B, NEW v, NEW p, NEW i, NEW c, NEW d, Siblings(A, p, i, c, d), LentLeft(A, B, p, i, c, d),
         p \in DOMAIN B, c \in DOMAIN B, d \in DOMAIN B,
         \A q \in v.pages \ {p, c, d} : q \in DOMAIN B /\ B[q] = A[q],
         Count(A, d) >= 1
  PROVE  ShiftsSo(A, B, v, p, i, c, d, Count(A, c) + 1, Count(A, d) - 1, ItemAt(A, d, 1))
<1> DEFINE s == A[c].items
           sk == A[c].kids
           t == A[d].items
           tk == A[d].kids
           x == A[p].items[i]
           leaf == A[c].leaf
<1>1. /\ s \in Seq(Item) /\ sk \in Seq(Nat) /\ t \in Seq(Item) /\ tk \in Seq(Nat) /\ x \in Item /\ leaf \in BOOLEAN
      /\ Len(s) \in Nat /\ Len(t) \in Nat /\ Len(t) >= 1
  BY SiblingSeqs DEF Count
<1>2. Len(sk) = (IF leaf THEN 0 ELSE Len(s) + 1) /\ Len(tk) = (IF leaf THEN 0 ELSE Len(t) + 1)
  BY DEF Siblings, KidCount, Count
<1>3. /\ B[p] = Node(FALSE, [A[p].items EXCEPT ![i] = Head(t)], A[p].kids)
      /\ B[c] = Node(leaf, Append(s, x), IF leaf THEN <<>> ELSE Append(sk, Head(tk)))
      /\ B[d] = Node(leaf, Tail(t), IF leaf THEN <<>> ELSE Tail(tk))
  BY DEF LentLeft
<1>4. Count(A, c) = Len(s) /\ Count(A, d) = Len(t) /\ ItemAt(A, d, 1) = t[1]
  BY DEF Count, ItemAt
<1> DEFINE ci == Append(s, x)
           di == Tail(t)
           ck == IF leaf THEN <<>> ELSE Append(sk, Head(tk))
           dk == IF leaf THEN <<>> ELSE Tail(tk)
           e == Head(t)
<1> HIDE DEF s, sk, t, tk, x, leaf
<1>5. /\ di \in Seq(Item) /\ Len(di) = Len(t) - 1 /\ e \in Item
      /\ e = t[1] /\ <<e>> \o di = t
  BY <1>1, HeadTail
<1>6. ci \in Seq(Item) /\ Len(ci) = Len(s) + 1 /\ ci = s \o <<x>>
  BY <1>1, AppendProperties, AppendIsConcat
<1> HIDE DEF ci, di, e
<1>7. ci \o <<e>> \o di = s \o <<x>> \o t
  <2>1. <<e>> \in Seq(Item)
    BY <1>5, OneIs
  <2>2. (ci \o <<e>>) \o di = ci \o (<<e>> \o di)
    BY <2>1, <1>5, <1>6, ConcatAssociative
  <2> QED BY <2>2, <1>5, <1>6
<1>8. /\ ck \in Seq(Nat) /\ dk \in Seq(Nat)
      /\ Len(ck) = (IF leaf THEN 0 ELSE Len(ci) + 1) /\ Len(dk) = (IF leaf THEN 0 ELSE Len(di) + 1)
      /\ ck \o dk = sk \o tk
  <2>1. CASE leaf
    <3>1. sk = <<>> /\ tk = <<>>
      <4>1. Len(sk) = 0 /\ Len(tk) = 0
        BY <2>1, <1>2
      <4> QED BY <4>1, <1>1, EmptySeq
    <3>2. ck = <<>> /\ dk = <<>>
      BY <2>1
    <3>3. <<>> \in Seq(Nat) /\ Len(<<>>) = 0
      BY EmptySeq
    <3> QED BY <3>1, <3>2, <3>3, <2>1
  <2>2. CASE ~leaf
    <3>1. Len(sk) = Len(s) + 1 /\ Len(tk) = Len(t) + 1 /\ Len(tk) >= 1
      BY <2>2, <1>1, <1>2
    <3>2. /\ Tail(tk) \in Seq(Nat) /\ Len(Tail(tk)) = Len(tk) - 1 /\ Head(tk) \in Nat
          /\ <<Head(tk)>> \o Tail(tk) = tk
      BY <3>1, <1>1, HeadTail
    <3>3. <<Head(tk)>> \in Seq(Nat)
      BY <3>2, OneIs
    <3>4. Append(sk, Head(tk)) \in Seq(Nat) /\ Len(Append(sk, Head(tk))) = Len(sk) + 1
          /\ Append(sk, Head(tk)) = sk \o <<Head(tk)>>
      BY <3>2, <1>1, AppendProperties, AppendIsConcat
    <3>5. (sk \o <<Head(tk)>>) \o Tail(tk) = sk \o (<<Head(tk)>> \o Tail(tk))
      <4>1. sk \in Seq(Nat) /\ <<Head(tk)>> \in Seq(Nat) /\ Tail(tk) \in Seq(Nat)
        BY <3>2, <3>3, <1>1
      <4> QED BY <4>1, ConcatAssociative
    <3>6. ck = Append(sk, Head(tk)) /\ dk = Tail(tk)
      BY <2>2
    <3> HIDE DEF ck, dk
    <3>7. ck \in Seq(Nat) /\ dk \in Seq(Nat) /\ ck \o dk = sk \o tk
      BY <3>2, <3>4, <3>5, <3>6
    <3>8. Len(ck) = Len(ci) + 1 /\ Len(dk) = Len(di) + 1
      <4>1. Len(ck) = Len(sk) + 1 /\ Len(dk) = Len(tk) - 1
        BY <3>2, <3>4, <3>6
      <4> QED BY <4>1, <3>1, <1>1, <1>5, <1>6
    <3> QED BY <3>7, <3>8, <2>2
  <2> QED BY <2>1, <2>2
<1> HIDE DEF ck, dk
<1>9. /\ B[p] = Node(FALSE, [A[p].items EXCEPT ![i] = e], A[p].kids)
      /\ B[c] = Node(A[c].leaf, ci, ck) /\ B[d] = Node(A[c].leaf, di, dk)
      /\ ci \o <<e>> \o di = A[c].items \o <<A[p].items[i]>> \o A[d].items
      /\ ck \o dk = A[c].kids \o A[d].kids
      /\ Len(ck) = (IF A[c].leaf THEN 0 ELSE Len(ci) + 1)
      /\ Len(dk) = (IF A[c].leaf THEN 0 ELSE Len(di) + 1)
  BY <1>3, <1>7, <1>8, Zenon DEF s, sk, t, tk, x, leaf, ci, di, ck, dk, e
<1>10. ShiftsSo(A, B, v, p, i, c, d, Len(ci), Len(di), e)
  BY <1>5, <1>6, <1>8, <1>9, ShiftsIf
<1> QED BY <1>4, <1>5, <1>6, <1>10 DEF ShiftsSo

-----------------------------------------------------------------------------
(* A kid is split; two kids are merged.                                    *)

(* Kid i of p is c. *)
KidOf(A, p, i, c) ==
  /\ p \in DOMAIN A /\ c \in DOMAIN A /\ p /= c /\ A[p] \in Nodes /\ A[c] \in Nodes /\ A[p].leaf = FALSE
  /\ KidCount(A, p) = Count(A, p) + 1 /\ i \in 1 .. KidCount(A, p) /\ KidAt(A, p, i) = c
  /\ KidCount(A, c) = IF A[c].leaf THEN 0 ELSE Count(A, c) + 1

LEMMA KidIs ==
  ASSUME NEW A, NEW root, NEW w, Shape(A, root, w), NEW p \in w.pages, NEW i \in 1 .. KidCount(A, p),
         NEW c, c = KidAt(A, p, i)
  PROVE  KidOf(A, p, i, c) /\ c \in w.pages
<1>1. KidBelow(A, root, w, p, i, c)
  BY KidIsBelow
<1>2. c \in w.pages /\ c /= p /\ A[p].leaf = FALSE /\ KidCount(A, p) = Count(A, p) + 1
  BY <1>1 DEF KidBelow
<1>3. /\ A[c].leaf = (w.height[c] = 0)
      /\ KidCount(A, c) = IF w.height[c] = 0 THEN 0 ELSE Count(A, c) + 1
  BY <1>2, Zenon DEF Shape, Branching
<1>4. KidCount(A, c) = IF A[c].leaf THEN 0 ELSE Count(A, c) + 1
  <2>1. CASE w.height[c] = 0
    BY <2>1, <1>3
  <2>2. CASE w.height[c] /= 0
    BY <2>2, <1>3
  <2> QED BY <2>1, <2>2
<1>5. p \in DOMAIN A /\ c \in DOMAIN A /\ A[p] \in Nodes /\ A[c] \in Nodes
  BY <1>2, NodeFacts DEF Shape
<1> QED BY <1>2, <1>4, <1>5, Zenon DEF KidOf

(* The kid c = kids[i] of p keeps m items; the rest but one goes to d. *)
Splits(A, B, p, i, c, d, m) ==
  /\ B[p] = Node(FALSE, InsertAt(A[p].items, i, A[c].items[m + 1]), InsertAt(A[p].kids, i + 1, d))
  /\ B[c] = Node(A[c].leaf, SubSeq(A[c].items, 1, m), Part(A[c].kids, 1, m + 1))
  /\ B[d] = Node(A[c].leaf, SubSeq(A[c].items, m + 2, Len(A[c].items)), Part(A[c].kids, m + 2, Len(A[c].kids)))

SplitSo(A, B, p, i, c, d, m) ==
  /\ Siblings(B, p, i, c, d) /\ Joins(A, B, p, i, c, d)
  /\ Count(B, p) = Count(A, p) + 1 /\ Count(B, c) = m /\ Count(B, d) = Count(A, c) - m - 1
  /\ ItemAt(B, p, i) = ItemAt(A, c, m + 1) /\ B[c].leaf = A[c].leaf

(* The kids s of a node, in two parts, those of m items and those of n, if *)
(* it has any.                                                             *)
InParts(s, leaf, a, m, b, n) ==
  /\ a \in Seq(Nat) /\ b \in Seq(Nat) /\ a \o b = s
  /\ Len(a) = IF leaf THEN 0 ELSE m + 1
  /\ Len(b) = IF leaf THEN 0 ELSE n + 1

LEMMA PartsOf ==
  ASSUME NEW s \in Seq(Nat), NEW leaf \in BOOLEAN, NEW n \in Nat, Len(s) = IF leaf THEN 0 ELSE n + 1,
         NEW m \in 0 .. n - 1
  PROVE  InParts(s, leaf, Part(s, 1, m + 1), m, Part(s, m + 2, Len(s)), n - m - 1)
<1>1. CASE leaf
  <2>1. s = <<>> /\ <<>> \in Seq(Nat) /\ Len(<<>>) = 0 /\ <<>> \o <<>> = <<>>
    <3>1. Len(s) = 0
      BY <1>1
    <3> QED BY <3>1, EmptySeq
  <2> QED BY <2>1, <1>1 DEF Part, InParts
<1>2. CASE ~leaf
  <2>1. Len(s) = n + 1 /\ m \in Nat /\ m <= n - 1 /\ s /= <<>>
    <3>1. Len(s) = n + 1 /\ m \in Nat /\ m <= n - 1 /\ Len(s) /= 0
      BY <1>2
    <3> QED BY <3>1, EmptySeq
  <2> DEFINE a == SubSeq(s, 1, m + 1)
             b == SubSeq(s, m + 2, Len(s))
  <2>2. a \in Seq(Nat) /\ Len(a) = m + 1
    <3>1. 1 \in 1 .. Len(s) + 1 /\ m + 1 \in 1 - 1 .. Len(s) /\ m + 1 - 1 + 1 = m + 1
      BY <2>1, SMT
    <3>2. a \in Seq(Nat) /\ Len(a) = m + 1 - 1 + 1
      BY <3>1, PieceIs
    <3> QED BY <3>1, <3>2
  <2>3. b \in Seq(Nat) /\ Len(b) = n - m - 1 + 1
    <3>1. m + 2 \in 1 .. Len(s) + 1 /\ Len(s) \in m + 2 - 1 .. Len(s) /\ Len(s) - (m + 2) + 1 = n - m - 1 + 1
      BY <2>1, SMT
    <3>2. b \in Seq(Nat) /\ Len(b) = Len(s) - (m + 2) + 1
      BY <3>1, PieceIs
    <3> QED BY <3>1, <3>2
  <2>4. a \o b = s
    <3>1. m + 1 \in 0 .. Len(s) /\ m + 1 + 1 = m + 2
      BY <2>1, SMT
    <3>2. SubSeq(s, 1, m + 1) \o SubSeq(s, m + 1 + 1, Len(s)) = s
      BY <3>1, CutHalves
    <3> QED BY <3>1, <3>2
  <2>5. Part(s, 1, m + 1) = a /\ Part(s, m + 2, Len(s)) = b
    BY <2>1 DEF Part
  <2> HIDE DEF a, b
  <2> QED BY <2>2, <2>3, <2>4, <2>5, <1>2 DEF InParts
<1> QED BY <1>1, <1>2

LEMMA SplitIs ==
  ASSUME NEW A, NEW B, NEW p, NEW i, NEW c, NEW d, NEW m, KidOf(A, p, i, c), Splits(A, B, p, i, c, d, m),
         m \in 0 .. Count(A, c) - 1, d \in Nat, d /= p, d /= c,
         p \in DOMAIN B, c \in DOMAIN B, d \in DOMAIN B
  PROVE  SplitSo(A, B, p, i, c, d, m)
<1> DEFINE s == A[c].items
           sk == A[c].kids
           n == A[p].items
           nk == A[p].kids
           leaf == A[c].leaf
<1>1. /\ s \in Seq(Item) /\ sk \in Seq(Nat) /\ n \in Seq(Item) /\ nk \in Seq(Nat) /\ leaf \in BOOLEAN
      /\ Len(s) \in Nat /\ Len(n) \in Nat /\ Len(nk) \in Nat
      /\ A[p] = Node(FALSE, n, nk) /\ A[c] = Node(leaf, s, sk)
  <2>1. A[p] \in Nodes /\ A[c] \in Nodes /\ A[p].leaf = FALSE
    BY DEF KidOf
  <2> QED BY <2>1, NodeSeqs
<1>2. /\ Len(sk) = IF leaf THEN 0 ELSE Len(s) + 1
      /\ Len(nk) = Len(n) + 1 /\ i \in 1 .. Len(nk) /\ nk[i] = c
      /\ m \in 0 .. Len(s) - 1
  BY DEF KidOf, KidCount, Count, KidAt
<1>3. /\ B[p] = Node(FALSE, InsertAt(n, i, s[m + 1]), InsertAt(nk, i + 1, d))
      /\ B[c] = Node(leaf, SubSeq(s, 1, m), Part(sk, 1, m + 1))
      /\ B[d] = Node(leaf, SubSeq(s, m + 2, Len(s)), Part(sk, m + 2, Len(sk)))
  BY DEF Splits
<1>4. Count(A, p) = Len(n) /\ Count(A, c) = Len(s) /\ ItemAt(A, c, m + 1) = s[m + 1]
  BY DEF Count, ItemAt
<1> DEFINE e == s[m + 1]
           ni == InsertAt(n, i, e)
           nd == InsertAt(nk, i + 1, d)
           ci == SubSeq(s, 1, m)
           di == SubSeq(s, m + 2, Len(s))
           ck == Part(sk, 1, m + 1)
           dk == Part(sk, m + 2, Len(sk))
<1> HIDE DEF s, sk, n, nk, leaf
<1>5. e \in Item /\ m \in Nat
  <2>1. m + 1 \in 1 .. Len(s) /\ m \in Nat
    BY <1>1, <1>2, SMT
  <2> QED BY <2>1, <1>1, ElementOfSeq
<1> HIDE DEF e
<1>6. ni \in Seq(Item) /\ Len(ni) = Len(n) + 1 /\ ni[i] = e /\ RemoveAt(ni, i) = n
  <2>1. i \in 1 .. Len(n) + 1
    BY <1>2
  <2>2. Inserted(Item, ni, n, i, e)
    BY <2>1, <1>1, <1>5, InsertIs
  <2>3. RemoveAt(ni, i) = n
    BY <2>1, <1>1, <1>5, RemoveInserted
  <2> QED BY <2>2, <2>3, Zenon DEF Inserted
<1>7. nd \in Seq(Nat) /\ Len(nd) = Len(nk) + 1 /\ nd[i + 1] = d /\ nd[i] = c /\ RemoveAt(nd, i + 1) = nk
  <2>1. i + 1 \in 1 .. Len(nk) + 1 /\ i < i + 1
    BY <1>1, <1>2, SMT
  <2>2. /\ nd \in Seq(Nat) /\ Len(nd) = Len(nk) + 1 /\ nd[i + 1] = d
        /\ \A j \in 1 .. Len(nk) : nk[j] = nd[IF j < i + 1 THEN j ELSE j + 1]
    <3>1. nk \in Seq(Nat) /\ d \in Nat /\ i + 1 \in 1 .. Len(nk) + 1
      BY <2>1, <1>1
    <3>2. Inserted(Nat, nd, nk, i + 1, d)
      BY <3>1, InsertIs
    <3> QED BY <3>2, Zenon DEF Inserted
  <2>3. RemoveAt(nd, i + 1) = nk
    BY <2>1, <1>1, RemoveInserted
  <2> HIDE DEF nd
  <2>4. nk[i] = nd[i]
    BY <2>1, <2>2, <1>2
  <2> QED BY <2>2, <2>3, <2>4, <1>2
<1>8. ci \in Seq(Item) /\ Len(ci) = m
  <2>1. 1 \in 1 .. Len(s) + 1 /\ m \in 1 - 1 .. Len(s) /\ m - 1 + 1 = m
    BY <1>1, <1>2, SMT
  <2>2. ci \in Seq(Item) /\ Len(ci) = m - 1 + 1
    BY <2>1, <1>1, PieceIs
  <2> QED BY <2>1, <2>2
<1>9. di \in Seq(Item) /\ Len(di) = Len(s) - m - 1
  <2>1. m + 2 \in 1 .. Len(s) + 1 /\ Len(s) \in m + 2 - 1 .. Len(s) /\ Len(s) - (m + 2) + 1 = Len(s) - m - 1
    BY <1>1, <1>2
  <2>2. s \in Seq(Item) /\ m + 2 \in 1 .. Len(s) + 1 /\ Len(s) \in m + 2 - 1 .. Len(s)
    BY <2>1, <1>1
  <2>3. di \in Seq(Item) /\ Len(di) = Len(s) - (m + 2) + 1
    BY <2>2, PieceIs
  <2> QED BY <2>1, <2>3
<1>10. ci \o <<e>> \o di = s
  BY <1>1, <1>2, CutAgain DEF e
<1>11. /\ ck \in Seq(Nat) /\ dk \in Seq(Nat) /\ ck \o dk = sk
       /\ Len(ck) = IF leaf THEN 0 ELSE m + 1
       /\ Len(dk) = IF leaf THEN 0 ELSE Len(s) - m - 1 + 1
  <2>1. sk \in Seq(Nat) /\ leaf \in BOOLEAN /\ Len(s) \in Nat
    BY <1>1
  <2>2. InParts(sk, leaf, ck, m, dk, Len(s) - m - 1)
    BY <2>1, <1>2, PartsOf
  <2> QED BY <2>2, Zenon DEF InParts
<1> HIDE DEF ni, nd, ci, di, ck, dk
<1>12. IsNode(B[p], FALSE, ni, nd)
  <2>1. B[p] = Node(FALSE, ni, nd)
    BY <1>3 DEF ni, nd, e
  <2>2. ni \in Seq(Item) /\ nd \in Seq(Nat)
    BY <1>6, <1>7
  <2> QED BY <2>1, <2>2, InnerOf
<1>13. IsNode(B[c], leaf, ci, ck) /\ IsNode(B[d], leaf, di, dk)
  <2>1. B[c] = Node(leaf, ci, ck) /\ B[d] = Node(leaf, di, dk)
    BY <1>3 DEF ci, ck, di, dk
  <2>2. ci \in Seq(Item) /\ ck \in Seq(Nat) /\ di \in Seq(Item) /\ dk \in Seq(Nat) /\ leaf \in BOOLEAN
    BY <1>1, <1>8, <1>9, <1>11
  <2> QED BY <2>1, <2>2, NodeOf
<1>14. /\ B[p] \in Nodes /\ B[p].leaf = FALSE /\ B[p].items = ni /\ B[p].kids = nd
       /\ B[c] \in Nodes /\ B[c].leaf = leaf /\ B[c].items = ci /\ B[c].kids = ck
       /\ B[d] \in Nodes /\ B[d].leaf = leaf /\ B[d].items = di /\ B[d].kids = dk
  BY <1>12, <1>13, Zenon DEF IsNode
<1>15. Siblings(B, p, i, c, d)
  <2>1. KidAt(B, p, i) = c /\ KidAt(B, p, i + 1) = d
    BY <1>7, <1>14 DEF KidAt
  <2>2. /\ KidCount(B, c) = IF B[c].leaf THEN 0 ELSE Count(B, c) + 1
        /\ KidCount(B, d) = IF B[c].leaf THEN 0 ELSE Count(B, d) + 1
    BY <1>14, <1>8, <1>9, <1>11 DEF KidCount, Count
  <2>3. i \in 1 .. Count(B, p) /\ KidCount(B, p) = Count(B, p) + 1
    <3>1. Count(B, p) = Len(n) + 1 /\ KidCount(B, p) = Len(nk) + 1
      BY <1>6, <1>7, <1>14 DEF Count, KidCount
    <3> QED BY <3>1, <1>1, <1>2, SMT
  <2>4. p /= c
    BY DEF KidOf
  <2> QED BY <2>1, <2>2, <2>3, <2>4, <1>14, Zenon DEF Siblings
<1>16. Joins(A, B, p, i, c, d)
  <2>1. A[p] = LessNode(B[p], i)
    BY <1>1, <1>6, <1>7, <1>14 DEF LessNode
  <2>2. A[c] = JoinedNode(B[c], B[p].items[i], B[d])
    BY <1>1, <1>6, <1>10, <1>11, <1>14 DEF JoinedNode
  <2>3. p \in DOMAIN A /\ c \in DOMAIN A
    BY DEF KidOf
  <2> QED BY <2>1, <2>2, <2>3 DEF Joins
<1>17. /\ Count(B, p) = Count(A, p) + 1 /\ Count(B, c) = m /\ Count(B, d) = Count(A, c) - m - 1
       /\ ItemAt(B, p, i) = ItemAt(A, c, m + 1) /\ B[c].leaf = A[c].leaf
  BY <1>4, <1>6, <1>8, <1>9, <1>14 DEF Count, ItemAt, e, leaf
<1> QED BY <1>15, <1>16, <1>17 DEF SplitSo

LEMMA DoSplit ==
  ASSUME NEW A, NEW B, NEW root, NEW w, Shape(A, root, w), NEW p \in w.pages, NEW i \in 1 .. KidCount(A, p),
         NEW c, c = KidAt(A, p, i), NEW d \in Nat, d \notin w.pages, NEW m \in 0 .. Count(A, c) - 1,
         Splits(A, B, p, i, c, d, m), p \in DOMAIN B, c \in DOMAIN B, d \in DOMAIN B,
         \A q \in w.pages \ {p, c} : q \in DOMAIN B /\ B[q] = A[q],
         NEW k, k = KeyAt(B, p, i), NEW v, v = CutPlaces(w, k, c, d)
  PROVE  CutDone(A, B, root, w, v, k, c, d) /\ SplitSo(A, B, p, i, c, d, m)
<1>1. KidOf(A, p, i, c) /\ c \in w.pages
  BY KidIs
<1>2. SplitSo(A, B, p, i, c, d, m)
  <2>1. d /= p /\ d /= c
    BY <1>1
  <2> QED BY <2>1, <1>1, SplitIs
<1>3. Siblings(B, p, i, c, d) /\ Joins(A, B, p, i, c, d) /\ B[c].leaf = A[c].leaf
  BY <1>2 DEF SplitSo
<1>4. B[c].leaf = (w.height[c] = 0)
  <2>1. A[c].leaf = (w.height[c] = 0)
    BY <1>1, Zenon DEF Shape, Branching
  <2> QED BY <2>1, <1>3
<1>5. \A q \in w.pages \ {p, c} : q \in DOMAIN B /\ q \in DOMAIN A /\ B[q] = A[q]
  BY NodeFacts DEF Shape
<1>6. CutOf(A, B, w, p, i, c, d)
  BY <1>1, <1>3, <1>4, <1>5, CutIs
<1> QED BY <1>2, <1>6, DoCut

(* A node with other items, or other kids too. *)
LEMMA ItemsChanged ==
  ASSUME NEW n \in Nodes, NEW s
  PROVE  [n EXCEPT !.items = s] = Node(n.leaf, s, n.kids)
  BY DEF Nodes, Node

LEMMA NodeChanged ==
  ASSUME NEW n \in Nodes, NEW s, NEW t
  PROVE  [n EXCEPT !.items = s, !.kids = t] = Node(n.leaf, s, t)
<1>1. n \in [leaf : BOOLEAN, items : Seq(Item), kids : Seq(Nat)]
  BY DEF Nodes
<1>2. [n EXCEPT !.items = s, !.kids = t] = [[n EXCEPT !.items = s] EXCEPT !.kids = t]
  BY <1>1
<1>3. [n EXCEPT !.items = s] = [leaf |-> n.leaf, items |-> s, kids |-> n.kids]
  BY <1>1
<1>4. [[leaf |-> n.leaf, items |-> s, kids |-> n.kids] EXCEPT !.kids = t] = [leaf |-> n.leaf, items |-> s, kids |-> t]
  OBVIOUS
<1> QED BY <1>2, <1>3, <1>4, Zenon DEF Node

LEMMA PieceOfPiece ==
  ASSUME NEW S, NEW s \in Seq(S), NEW i \in 1 .. Len(s), NEW j \in 1 .. Len(s),
         NEW m \in 1 .. j - i + 1, NEW n \in 1 .. j - i + 1
  PROVE  SubSeq(SubSeq(s, i, j), m, n) = SubSeq(s, i + m - 1, i + n - 1)
<1> DEFINE t == s
<1>1. t \in Seq(S)
  OBVIOUS
<1> HIDE DEF t
<1> QED BY <1>1, SubSeqOfSubSeq

LessOf(n, i) == [n EXCEPT !.items = RemoveAt(@, i), !.kids = RemoveAt(@, i + 1)]
MergedOf(a, it, b) == Node(a.leaf, SubSeq(a.items, 1, MinDegree - 1) \o <<it>> \o SubSeq(b.items, 1, MinDegree - 1),
                           Part(a.kids, 1, MinDegree) \o Part(b.kids, 1, MinDegree))

(* Two nodes with MinDegree - 1 items each, as _merge takes from them. *)
LEMMA MergedIs ==
  ASSUME NEW A, NEW p, NEW i, NEW c, NEW d, Siblings(A, p, i, c, d),
         Count(A, c) = MinDegree - 1, Count(A, d) = MinDegree - 1, MinDegree \in Nat, MinDegree >= 2
  PROVE  /\ MergedOf(A[c], A[p].items[i], A[d]) = JoinedNode(A[c], A[p].items[i], A[d])
         /\ LessOf(A[p], i) = LessNode(A[p], i)
<1>1. /\ A[c].items \in Seq(Item) /\ A[d].items \in Seq(Item) /\ A[c].kids \in Seq(Nat) /\ A[d].kids \in Seq(Nat)
  BY SiblingSeqs
<1>2. /\ Len(A[c].items) = MinDegree - 1 /\ Len(A[d].items) = MinDegree - 1
      /\ Len(A[c].kids) = IF A[c].leaf THEN 0 ELSE MinDegree - 1 + 1
      /\ Len(A[d].kids) = IF A[c].leaf THEN 0 ELSE MinDegree - 1 + 1
  BY DEF Siblings, Count, KidCount
<1>3. SubSeq(A[c].items, 1, MinDegree - 1) = A[c].items /\ SubSeq(A[d].items, 1, MinDegree - 1) = A[d].items
  <2>1. SubSeq(A[c].items, 1, Len(A[c].items)) = A[c].items
    BY <1>1, SubSeqFull
  <2>2. SubSeq(A[d].items, 1, Len(A[d].items)) = A[d].items
    BY <1>1, SubSeqFull
  <2> QED BY <2>1, <2>2, <1>2
<1>4. ASSUME NEW s \in Seq(Nat), Len(s) = IF A[c].leaf THEN 0 ELSE MinDegree - 1 + 1
      PROVE  Part(s, 1, MinDegree) = s
  <2>1. CASE A[c].leaf
    <3>1. s = <<>>
      <4>1. Len(s) = 0
        BY <2>1, <1>4
      <4> QED BY <4>1, EmptySeq
    <3> QED BY <3>1 DEF Part
  <2>2. CASE ~A[c].leaf
    <3>1. Len(s) = MinDegree
      BY <2>2, <1>4
    <3>2. SubSeq(s, 1, Len(s)) = s
      BY SubSeqFull
    <3> QED BY <3>1, <3>2 DEF Part
  <2> QED BY <2>1, <2>2
<1>5. Part(A[c].kids, 1, MinDegree) = A[c].kids /\ Part(A[d].kids, 1, MinDegree) = A[d].kids
  BY <1>1, <1>2, <1>4
<1>6. LessOf(A[p], i) = LessNode(A[p], i)
  <2>1. A[p] \in Nodes /\ A[p].leaf = FALSE
    BY DEF Siblings
  <2> DEFINE s == RemoveAt(A[p].items, i)
             t == RemoveAt(A[p].kids, i + 1)
  <2> HIDE DEF s, t
  <2>2. [A[p] EXCEPT !.items = s, !.kids = t] = Node(A[p].leaf, s, t)
    BY <2>1, NodeChanged
  <2> QED BY <2>1, <2>2, Zenon DEF LessNode, LessOf, s, t
<1> QED BY <1>3, <1>5, <1>6 DEF JoinedNode, MergedOf

(* c and d, kids i and i + 1 of p, become one node. *)
LEMMA DoMerge ==
  ASSUME NEW A, NEW B, NEW root, NEW v, Shape(A, root, v), NEW p \in v.pages, NEW i,
         NEW c \in v.pages, NEW d \in v.pages, Siblings(A, p, i, c, d), Joins(B, A, p, i, c, d),
         \A q \in v.pages \ {p, c, d} : q \in DOMAIN B /\ B[q] = A[q],
         NEW k, k = KeyAt(A, p, i), NEW w, w = JoinPlaces(v, c, d)
  PROVE  CutDone(B, A, root, w, v, k, c, d)
<1>1. w.pages = v.pages \ {d} /\ \A q \in v.pages \ {d} : w.height[q] = v.height[q]
  BY Zenon DEF JoinPlaces
<1>2. p /= c /\ p /= d /\ c /= d
  BY DEF Siblings
<1>3. A[c].leaf = (w.height[c] = 0)
  <2>1. A[c].leaf = (v.height[c] = 0) /\ w.height[c] = v.height[c]
    BY <1>1, <1>2, Zenon DEF Shape, Branching
  <2> QED BY <2>1
<1>4. \A q \in v.pages : q \in DOMAIN A
  BY NodeFacts DEF Shape
<1>5. \A q \in w.pages \ {p, c} : q \in DOMAIN A /\ q \in DOMAIN B /\ A[q] = B[q]
  BY <1>1, <1>4, Zenon
<1>6. p \in w.pages /\ c \in w.pages /\ d \notin w.pages
  BY <1>1, <1>2
<1>7. CutOf(B, A, w, p, i, c, d)
  BY <1>3, <1>5, <1>6, CutIs
<1> QED BY <1>7, DoJoin

(* The items of c and d, kids i and i + 1 of p, with that between. *)
AllOf(A, p, i, c, d) == A[c].items \o <<A[p].items[i]>> \o A[d].items

(* The leaves c and d, kids i and i + 1 of p, become three, c, d and e,    *)
(* with m and n items and the rest.                                        *)
SplitsInThree(A, B, p, i, c, d, e, m, n) ==
  LET all == AllOf(A, p, i, c, d)
  IN /\ B[p] = Node(FALSE, InsertAt([A[p].items EXCEPT ![i] = all[m + 1]], i + 1, all[m + n + 2]),
                    InsertAt(A[p].kids, i + 2, e))
     /\ B[c] = Node(TRUE, SubSeq(all, 1, m), <<>>)
     /\ B[d] = Node(TRUE, SubSeq(all, m + 2, m + n + 1), <<>>)
     /\ B[e] = Node(TRUE, SubSeq(all, m + n + 3, Len(all)), <<>>)

(* c and d before d is split *)
HalfSplit(A, p, i, c, d, m) ==
  LET all == AllOf(A, p, i, c, d)
  IN [q \in DOMAIN A |->
        IF q = p THEN Node(FALSE, [A[p].items EXCEPT ![i] = all[m + 1]], A[p].kids)
        ELSE IF q = c THEN Node(TRUE, SubSeq(all, 1, m), <<>>)
        ELSE IF q = d THEN Node(TRUE, SubSeq(all, m + 2, Len(all)), <<>>)
        ELSE A[q]]

HalfDone(A, H, v, p, i, c, d, m, all) ==
  /\ ShiftsSo(A, H, v, p, i, c, d, m, Count(A, c) + Count(A, d) - m, all[m + 1])
  /\ all \in Seq(Item) /\ Len(all) = Count(A, c) + Count(A, d) + 1

LEMMA HalfSplitIs ==
  ASSUME NEW A, NEW p, NEW i, NEW c, NEW d, Siblings(A, p, i, c, d), A[c].leaf = TRUE,
         NEW m \in Nat, m < Count(A, c) + Count(A, d) + 1, NEW v, \A q \in v.pages : q \in DOMAIN A,
         NEW H, H = HalfSplit(A, p, i, c, d, m), NEW all, all = AllOf(A, p, i, c, d)
  PROVE  HalfDone(A, H, v, p, i, c, d, m, all)
<1> DEFINE a == Count(A, c)
           b == Count(A, d)
           l == a + b + 1
<1>1. /\ A[c].items \in Seq(Item) /\ A[d].items \in Seq(Item) /\ A[p].items[i] \in Item
      /\ A[c].kids \in Seq(Nat) /\ A[d].kids \in Seq(Nat)
      /\ a \in Nat /\ b \in Nat /\ p /= c /\ p /= d /\ c /= d
      /\ p \in DOMAIN A /\ c \in DOMAIN A /\ d \in DOMAIN A
      /\ Len(A[c].items) = a /\ Len(A[d].items) = b
  BY SiblingSeqs DEF Siblings, Count
<1>2. all \in Seq(Item) /\ Len(all) = a + 1 + b
  <2> DEFINE x == a + 1
  <2>1. x = Len(A[c].items) + 1
    BY <1>1
  <2> HIDE DEF x
  <2>2. Around(Item, all, A[c].items, A[p].items[i], A[d].items, x)
    BY <2>1, <1>1, AroundIs DEF AllOf
  <2>3. all \in Seq(Item) /\ Len(all) = x + Len(A[d].items)
    BY <2>2, Zenon DEF Around
  <2> QED BY <2>3, <1>1, Zenon DEF x
<1>3. /\ H[p] = Node(FALSE, [A[p].items EXCEPT ![i] = all[m + 1]], A[p].kids)
      /\ H[c] = Node(A[c].leaf, SubSeq(all, 1, m), <<>>)
      /\ H[d] = Node(A[c].leaf, SubSeq(all, m + 2, Len(all)), <<>>)
      /\ DOMAIN H = DOMAIN A
  BY <1>1, Zenon DEF HalfSplit
<1>4. \A q \in v.pages \ {p, c, d} : q \in DOMAIN H /\ H[q] = A[q]
  BY Zenon DEF HalfSplit
<1>5. a \in Nat /\ b \in Nat /\ l \in Nat /\ Len(all) = l /\ l = a + b + 1 /\ m <= a + b
  <2>1. m < a + b + 1
    OBVIOUS
  <2>2. a \in Nat /\ b \in Nat /\ Len(all) = a + 1 + b
    BY <1>1, <1>2
  <2> HIDE DEF a, b
  <2> QED BY <2>1, <2>2
<1> DEFINE ci == SubSeq(all, 1, m)
           di == SubSeq(all, m + 2, Len(all))
           x == all[m + 1]
<1> HIDE DEF a, b, l
<1>6. x \in Item /\ m \in 0 .. Len(all) - 1
  <2>1. m + 1 \in 1 .. Len(all) /\ m \in 0 .. Len(all) - 1
    BY <1>5
  <2> QED BY <2>1, <1>2, ElementOfSeq
<1>7. ci \in Seq(Item) /\ Len(ci) = m
  <2>1. 1 \in 1 .. Len(all) + 1 /\ m \in 1 - 1 .. Len(all) /\ m - 1 + 1 = m
    BY <1>5
  <2>2. all \in Seq(Item)
    BY <1>2
  <2>3. ci \in Seq(Item) /\ Len(ci) = m - 1 + 1
    BY <2>1, <2>2, PieceIs
  <2> QED BY <2>1, <2>3
<1>8. di \in Seq(Item) /\ Len(di) = a + b - m
  <2>1. m + 2 \in 1 .. Len(all) + 1 /\ Len(all) \in m + 2 - 1 .. Len(all) /\ Len(all) - (m + 2) + 1 = a + b - m
    BY <1>5
  <2>2. all \in Seq(Item)
    BY <1>2
  <2>3. di \in Seq(Item) /\ Len(di) = Len(all) - (m + 2) + 1
    BY <2>1, <2>2, PieceIs
  <2> QED BY <2>1, <2>3
<1>9. ci \o <<x>> \o di = all
  BY <1>2, <1>6, CutAgain
<1>10. A[c].kids = <<>> /\ A[d].kids = <<>> /\ <<>> \in Seq(Nat) /\ Len(<<>>) = 0 /\ <<>> \o <<>> = <<>>
  <2>1. Len(A[c].kids) = 0 /\ Len(A[d].kids) = 0
    BY DEF Siblings, KidCount
  <2> QED BY <2>1, <1>1, EmptySeq
<1> DEFINE ck == <<>>
<1> HIDE DEF ci, di, x, ck
<1>11. /\ p \in DOMAIN H /\ c \in DOMAIN H /\ d \in DOMAIN H
       /\ H[p] = Node(FALSE, [A[p].items EXCEPT ![i] = x], A[p].kids)
       /\ H[c] = Node(A[c].leaf, ci, ck) /\ H[d] = Node(A[c].leaf, di, ck)
       /\ ck \in Seq(Nat) /\ Len(ck) = 0 /\ ck \o ck = A[c].kids \o A[d].kids
       /\ ci \o <<x>> \o di = A[c].items \o <<A[p].items[i]>> \o A[d].items
  BY <1>1, <1>3, <1>9, <1>10 DEF ci, di, x, ck, AllOf
<1>12. ShiftsSo(A, H, v, p, i, c, d, Len(ci), Len(di), x)
  <2>1. /\ Len(ck) = IF A[c].leaf THEN 0 ELSE Len(ci) + 1
        /\ Len(ck) = IF A[c].leaf THEN 0 ELSE Len(di) + 1
    BY <1>11
  <2>2. ci \in Seq(Item) /\ di \in Seq(Item) /\ x \in Item
    BY <1>6, <1>7, <1>8
  <2> QED BY <2>1, <2>2, <1>4, <1>11, ShiftsIf
<1>13. ShiftsSo(A, H, v, p, i, c, d, m, a + b - m, all[m + 1])
  BY <1>12, <1>7, <1>8 DEF x
<1> QED BY <1>2, <1>5, <1>13 DEF a, b, HalfDone

InThree(H, B, p, j, c, d, e, n) == Splits(H, B, p, j, d, e, n) /\ B[c] = H[c] /\ n \in 0 .. Count(H, d) - 1

LEMMA ThreeIs ==
  ASSUME NEW A, NEW B, NEW p, NEW i, NEW c, NEW d, NEW e, NEW m \in Nat, NEW n \in Nat, n >= 1,
         Siblings(A, p, i, c, d), A[c].leaf = TRUE, m + n + 1 < Count(A, c) + Count(A, d) + 1,
         SplitsInThree(A, B, p, i, c, d, e, m, n),
         NEW v, \A q \in v.pages : q \in DOMAIN A, NEW H, H = HalfSplit(A, p, i, c, d, m), NEW j, j = i + 1
  PROVE  InThree(H, B, p, j, c, d, e, n)
<1> DEFINE all == AllOf(A, p, i, c, d)
           l == Len(all)
<1>1. /\ Count(A, c) \in Nat /\ Count(A, d) \in Nat /\ p /= c /\ p /= d /\ c /= d
      /\ p \in DOMAIN A /\ c \in DOMAIN A /\ d \in DOMAIN A /\ i \in Nat
  <2>1. i \in 1 .. Count(A, p) /\ Count(A, p) \in Nat
    BY SiblingSeqs DEF Siblings
  <2>2. i \in Nat
    BY <2>1
  <2> QED BY <2>2, SiblingSeqs DEF Siblings
<1>2. /\ ShiftsSo(A, H, v, p, i, c, d, m, Count(A, c) + Count(A, d) - m, all[m + 1])
      /\ all \in Seq(Item) /\ l = Count(A, c) + Count(A, d) + 1
  <2>1. m < Count(A, c) + Count(A, d) + 1
    BY <1>1
  <2>2. HalfDone(A, H, v, p, i, c, d, m, all)
    BY <2>1, HalfSplitIs
  <2> QED BY <2>2, Zenon DEF HalfDone
<1>3. /\ H[p] = Node(FALSE, [A[p].items EXCEPT ![i] = all[m + 1]], A[p].kids)
      /\ H[c] = Node(TRUE, SubSeq(all, 1, m), <<>>)
      /\ H[d] = Node(TRUE, SubSeq(all, m + 2, l), <<>>)
  BY <1>1, Zenon DEF HalfSplit
<1>4. /\ B[p] = Node(FALSE, InsertAt([A[p].items EXCEPT ![i] = all[m + 1]], i + 1, all[m + n + 2]), InsertAt(A[p].kids, i + 2, e))
      /\ B[c] = Node(TRUE, SubSeq(all, 1, m), <<>>)
      /\ B[d] = Node(TRUE, SubSeq(all, m + 2, m + n + 1), <<>>)
      /\ B[e] = Node(TRUE, SubSeq(all, m + n + 3, l), <<>>)
  BY DEF SplitsInThree
<1> HIDE DEF all, l
<1> DEFINE t == SubSeq(all, m + 2, l)
<1>5. l \in Nat /\ l = Len(all) /\ m + n + 1 < l /\ i + 1 + 1 = i + 2
  BY <1>1, <1>2 DEF l
<1>6. /\ t \in Seq(Item) /\ Len(t) = l - (m + 2) + 1
      /\ \A a \in 1 .. l - (m + 2) + 1 : t[a] = all[m + 2 + a - 1]
  <2>1. m + 2 \in 1 .. Len(all) + 1 /\ l \in m + 2 - 1 .. Len(all) /\ all \in Seq(Item)
    BY <1>2, <1>5
  <2> QED BY <2>1, PieceIs
<1> HIDE DEF t
<1>7. t[n + 1] = all[m + n + 2]
  <2>1. n + 1 \in 1 .. l - (m + 2) + 1 /\ m + 2 + (n + 1) - 1 = m + n + 2
    BY <1>5
  <2>2. t[n + 1] = all[m + 2 + (n + 1) - 1]
    BY <2>1, <1>6
  <2> QED BY <2>1, <2>2
<1>8. SubSeq(t, 1, n) = SubSeq(all, m + 2, m + n + 1)
  <2>1. /\ m + 2 \in 1 .. Len(all) /\ l \in 1 .. Len(all) /\ 1 \in 1 .. l - (m + 2) + 1 /\ n \in 1 .. l - (m + 2) + 1
        /\ m + 2 + 1 - 1 = m + 2 /\ m + 2 + n - 1 = m + n + 1
    BY <1>5
  <2>2. all \in Seq(Item)
    BY <1>2
  <2>3. SubSeq(SubSeq(all, m + 2, l), 1, n) = SubSeq(all, m + 2 + 1 - 1, m + 2 + n - 1)
    BY <2>1, <2>2, PieceOfPiece
  <2> QED BY <2>1, <2>3 DEF t
<1>9. SubSeq(t, n + 2, Len(t)) = SubSeq(all, m + n + 3, l)
  <2> DEFINE lt == Len(t)
             la == Len(all)
  <2>1. l \in Nat /\ l = la /\ m + n + 1 < l /\ lt = l - (m + 2) + 1
    BY <1>5, <1>6
  <2>2. all \in Seq(Item)
    BY <1>2
  <2> HIDE DEF lt, la
  <2>3. CASE n + 2 <= lt
    <3> DEFINE x == m + 2
               y == n + 2
    <3>1. /\ x \in 1 .. la /\ l \in 1 .. la /\ y \in 1 .. l - x + 1
          /\ lt \in 1 .. l - x + 1
          /\ x + y - 1 = m + n + 3 /\ x + lt - 1 = l
      BY <2>1, <2>3
    <3> HIDE DEF x, y
    <3>2. x \in 1 .. Len(all) /\ l \in 1 .. Len(all)
      BY <3>1 DEF la
    <3>3. SubSeq(SubSeq(all, x, l), y, lt) = SubSeq(all, x + y - 1, x + lt - 1)
      BY <3>1, <3>2, <2>2, PieceOfPiece
    <3>4. SubSeq(SubSeq(all, x, l), y, lt) = SubSeq(all, m + n + 3, l)
      BY <3>1, <3>3
    <3> QED BY <3>4, Zenon DEF t, lt, x, y
  <2>4. CASE ~(n + 2 <= lt)
    <3>1. lt < n + 2 /\ l < m + n + 3 /\ lt \in Int /\ n + 2 \in Int /\ m + n + 3 \in Int /\ l \in Int
      BY <2>1, <2>4
    <3>2. SubSeq(t, n + 2, lt) = <<>>
      BY <3>1, SubSeqEmpty
    <3>3. SubSeq(all, m + n + 3, l) = <<>>
      BY <3>1, SubSeqEmpty
    <3> QED BY <3>2, <3>3 DEF lt
  <2> QED BY <2>3, <2>4
<1> DEFINE z == [A[p].items EXCEPT ![i] = all[m + 1]]
<1> HIDE DEF z
<1>10. /\ H[p].items = z /\ H[p].kids = A[p].kids
       /\ H[d].items = t /\ H[d].kids = <<>> /\ H[d].leaf = TRUE
  <2>1. H[p] = Node(FALSE, z, A[p].kids) /\ H[d] = Node(TRUE, t, <<>>)
    BY <1>3 DEF z, t
  <2>2. H[d].leaf = TRUE
    BY <1>2, Zenon DEF ShiftsSo, Shifts, Siblings
  <2>3. H[p].items = z /\ H[p].kids = A[p].kids
    BY <2>1 DEF Node
  <2>4. H[d].items = t /\ H[d].kids = <<>>
    BY <2>1 DEF Node
  <2> QED BY <2>2, <2>3, <2>4
<1>11. Splits(H, B, p, i + 1, d, e, n)
  <2>1. Part(<<>>, 1, n + 1) = <<>> /\ Part(<<>>, n + 2, Len(<<>>)) = <<>>
    BY DEF Part
  <2>2. /\ B[p] = Node(FALSE, InsertAt(z, i + 1, t[n + 1]), InsertAt(A[p].kids, i + 1 + 1, e))
        /\ B[d] = Node(TRUE, SubSeq(t, 1, n), <<>>)
        /\ B[e] = Node(TRUE, SubSeq(t, n + 2, Len(t)), <<>>)
    BY <1>4, <1>5, <1>7, <1>8, <1>9 DEF z
  <2> QED BY <2>1, <2>2, <1>10 DEF Splits
<1>12. n \in 0 .. Count(H, d) - 1
  <2>1. Count(H, d) = l - (m + 2) + 1
    BY <1>6, <1>10 DEF Count
  <2> QED BY <2>1, <1>5
<1>13. B[c] = H[c]
  BY <1>3, <1>4
<1> QED BY <1>11, <1>12, <1>13, Zenon DEF InThree

-----------------------------------------------------------------------------
(* What a round of insert does to the nodes.                               *)

LEMMA Numbers ==
  /\ MaxKeys \in Nat /\ MinDegree \in Nat /\ MinDegree >= 2 /\ 3 * MinDegree <= MaxKeys
  /\ MaxKeys \div 2 \in Nat /\ 2 * (MaxKeys \div 2) <= MaxKeys /\ MaxKeys <= 2 * (MaxKeys \div 2) + 1
  /\ (2 * MaxKeys) \div 3 \in Nat /\ 3 * ((2 * MaxKeys) \div 3) <= 2 * MaxKeys
  /\ 2 * MaxKeys <= 3 * ((2 * MaxKeys) \div 3) + 2
  /\ MaxKeys <= 3 * MinDegree + 2 /\ MinDegree = MaxKeys \div 3 /\ MaxKeys >= 6
BY BTreeAssumption DEF MinDegree

SizedAt(B, root, q) == Count(B, q) <= MaxKeys /\ (q /= root => Count(B, q) >= MinDegree - 1)

LEMMA SizedIf ==
  ASSUME NEW A, NEW B, NEW root, NEW w, NEW u, Sized(A, root, w), NEW S,
         \A q \in u.pages : q \notin S => q \in w.pages /\ B[q] = A[q],
         \A q \in S : SizedAt(B, root, q)
  PROVE  Sized(B, root, u)
<1> SUFFICES ASSUME NEW q \in u.pages PROVE SizedAt(B, root, q)
  BY Zenon DEF Sized, SizedAt
<1>1. CASE q \in S
  BY <1>1
<1>2. CASE q \notin S
  <2>1. q \in w.pages /\ Count(B, q) = Count(A, q)
    BY <1>2 DEF Count
  <2> QED BY <2>1 DEF Sized, SizedAt
<1> QED BY <1>1, <1>2

(* Two nodes of the same height that have room for the same key are one. *)
LEMMA OnePlace ==
  ASSUME NEW A, NEW root, NEW w, Shape(A, root, w), NEW x \in w.pages, NEW y \in w.pages,
         w.height[x] = w.height[y], NEW k \in Int,
         w.lo[x] < k, k < w.hi[x], w.lo[y] < k, k < w.hi[y]
  PROVE  x = y
<1>1. PlacesOK(w) /\ Apart(A, w)
  BY Zenon DEF Shape
<1>2. /\ w.height[x] \in Nat /\ w.lo[x] \in Int /\ w.hi[x] \in Int
      /\ w.height[y] \in Nat /\ w.lo[y] \in Int /\ w.hi[y] \in Int
  BY <1>1, PlacesAre
<1>3. x /= y => w.hi[x] <= w.lo[y] \/ w.hi[y] <= w.lo[x] \/ w.height[y] < w.height[x]
  BY <1>1, <1>2 DEF Apart
<1> QED BY <1>2, <1>3

(* The tree has the same items, and p the same place in it. *)
Moved(A, B, root, w, u, p) ==
  /\ Shape(B, root, u) /\ Sized(B, root, u) /\ SameHeld(A, w, B, u)
  /\ p \in u.pages /\ u.lo[p] = w.lo[p] /\ u.hi[p] = w.hi[p]
  /\ \A q \in u.pages \cap w.pages : u.height[q] = w.height[q]

(* The search for k goes on below p, at a node of S. *)
Next_(B, p, k) == KidAt(B, p, Smaller(B[p].items, k) + 1)
GoesOn(B, u, p, k, S) ==
  ~Holds(B[p].items, k) =>
    LET x == Next_(B, p, k) IN x \in S /\ x \in u.pages /\ u.lo[x] < k /\ k < u.hi[x]

LEMMA GoesOnTo ==
  ASSUME NEW B, NEW root, NEW u, Shape(B, root, u), NEW p \in u.pages, u.height[p] /= 0, NEW k \in Int,
         u.lo[p] < k, k < u.hi[p], ~Holds(B[p].items, k), NEW x, x = Next_(B, p, k)
  PROVE  /\ x \in u.pages /\ u.lo[x] < k /\ k < u.hi[x] /\ u.height[p] = u.height[x] + 1
         /\ Smaller(B[p].items, k) + 1 \in 1 .. KidCount(B, p)
<1> DEFINE m == Smaller(B[p].items, k)
<1>1. Located(B, p, k, m)
  BY Locate
<1>2. m + 1 \in 1 .. KidCount(B, p) /\ u.lo[KidAt(B, p, m + 1)] < k /\ k < u.hi[KidAt(B, p, m + 1)]
  BY <1>1, LocateKid
<1>3. KidBelow(B, root, u, p, m + 1, KidAt(B, p, m + 1))
  BY <1>2, KidIsBelow
<1> QED BY <1>2, <1>3 DEF KidBelow, Next_

(* When one of the kids in S has room for k, it is the one. *)
LEMMA GoesOnIn ==
  ASSUME NEW B, NEW root, NEW u, Shape(B, root, u), NEW p \in u.pages, u.height[p] /= 0, NEW k \in Int,
         u.lo[p] < k, k < u.hi[p], NEW S,
         ~Holds(B[p].items, k) => \E y \in S : y \in u.pages /\ u.height[p] = u.height[y] + 1 /\ u.lo[y] < k /\ k < u.hi[y]
  PROVE  GoesOn(B, u, p, k, S)
<1> SUFFICES ASSUME ~Holds(B[p].items, k), NEW x, x = Next_(B, p, k)
             PROVE  x \in S /\ x \in u.pages /\ u.lo[x] < k /\ k < u.hi[x]
  BY Zenon DEF GoesOn
<1>1. x \in u.pages /\ u.lo[x] < k /\ k < u.hi[x] /\ u.height[p] = u.height[x] + 1
  BY GoesOnTo
<1>2. PICK y \in S : y \in u.pages /\ u.height[p] = u.height[y] + 1 /\ u.lo[y] < k /\ k < u.hi[y]
  OBVIOUS
<1>3. u.height[x] = u.height[y]
  <2>1. PlacesOK(u)
    BY Zenon DEF Shape
  <2>2. u.height[x] \in Nat /\ u.height[y] \in Nat
    BY <1>1, <1>2, <2>1, PlacesAre
  <2> QED BY <1>1, <1>2, <2>2
<1>4. x = y
  BY <1>1, <1>2, <1>3, OnePlace
<1> QED BY <1>1, <1>2, <1>4

(* The heights and the places of the nodes that are in both trees. *)
LEMMA CutPlacesMoved ==
  ASSUME NEW w, NEW v, NEW k, NEW c, NEW d, PlacesCut(w, v, k, c, d), c \in w.pages, NEW p \in w.pages, p /= c
  PROVE  /\ p \in v.pages /\ v.lo[p] = w.lo[p] /\ v.hi[p] = w.hi[p]
         /\ \A q \in w.pages : v.height[q] = w.height[q]
         /\ v.lo[c] = w.lo[c]
BY DEF PlacesCut

(* A full kid is split. *)
SplitKept(A, B, root, w, u, p, c, d, k) ==
  /\ Moved(A, B, root, w, u, p) /\ u.pages = w.pages \cup {d}
  /\ Count(B, p) = Count(A, p) + 1 /\ Count(B, c) < MaxKeys /\ Count(B, d) < MaxKeys
  /\ GoesOn(B, u, p, k, {c, d})

LEMMA SplitKeeps ==
  ASSUME NEW A, NEW B, NEW root, NEW w, Shape(A, root, w), Sized(A, root, w),
         NEW p \in w.pages, NEW i \in 1 .. KidCount(A, p),
         NEW c, c = KidAt(A, p, i), NEW d \in Nat, d \notin w.pages,
         Count(A, c) >= MaxKeys, Count(A, p) < MaxKeys,
         NEW m, m = MaxKeys \div 2,
         Splits(A, B, p, i, c, d, m), p \in DOMAIN B, c \in DOMAIN B, d \in DOMAIN B,
         \A q \in w.pages \ {p, c} : q \in DOMAIN B /\ B[q] = A[q],
         NEW k \in Int, w.lo[p] < k, k < w.hi[p], w.lo[c] < k, k < w.hi[c]
  PROVE  \E u : SplitKept(A, B, root, w, u, p, c, d, k)
<1> DEFINE x == KeyAt(B, p, i)
           u == CutPlaces(w, x, c, d)
<1>1. KidBelow(A, root, w, p, i, c)
  BY KidIsBelow
<1>2. /\ c \in w.pages /\ c /= p /\ c /= root /\ w.height[p] = w.height[c] + 1 /\ w.height[p] /= 0
  BY <1>1 DEF KidBelow
<1>3. Count(A, c) = MaxKeys /\ m \in 0 .. Count(A, c) - 1
  <2>1. Count(A, c) <= MaxKeys /\ Count(A, c) \in Nat
    <3>1. NodesOK(A, w)
      BY Zenon DEF Shape
    <3> QED BY <1>2, <3>1, NodeFacts DEF Sized
  <2> QED BY <2>1, Numbers
<1>4. CutDone(A, B, root, w, u, x, c, d) /\ SplitSo(A, B, p, i, c, d, m)
  <2> HIDE DEF x, u
  <2>1. x = KeyAt(B, p, i) /\ u = CutPlaces(w, x, c, d)
    BY DEF x, u
  <2> QED BY <1>3, <2>1, DoSplit
<1> HIDE DEF x, u
<1>5. Shape(B, root, u) /\ PlacesCut(w, u, x, c, d) /\ SameHeld(A, w, B, u)
  BY <1>4, Zenon DEF CutDone
<1>6. /\ Count(B, p) = Count(A, p) + 1 /\ Count(B, c) = m /\ Count(B, d) = Count(A, c) - m - 1
      /\ Siblings(B, p, i, c, d)
  BY <1>4, Zenon DEF SplitSo
<1>7. u.pages = w.pages \cup {d}
  BY <1>5 DEF PlacesCut
<1>8. /\ p \in u.pages /\ u.lo[p] = w.lo[p] /\ u.hi[p] = w.hi[p]
      /\ \A q \in w.pages : u.height[q] = w.height[q]
      /\ u.lo[c] = w.lo[c]
  BY <1>2, <1>5, CutPlacesMoved
<1>9. /\ SizedAt(B, root, p) /\ SizedAt(B, root, c) /\ SizedAt(B, root, d)
      /\ Count(B, c) < MaxKeys /\ Count(B, d) < MaxKeys
  <2>1. Count(A, p) \in Nat /\ (p /= root => Count(A, p) >= MinDegree - 1)
    <3>1. NodesOK(A, w)
      BY Zenon DEF Shape
    <3> QED BY <3>1, NodeFacts DEF Sized
  <2>2. m >= MinDegree - 1 /\ MaxKeys - m - 1 >= MinDegree - 1 /\ m < MaxKeys /\ MaxKeys - m - 1 < MaxKeys
    BY Numbers
  <2>3. SizedAt(B, root, p)
    BY <2>1, <1>6, Numbers DEF SizedAt
  <2> QED BY <2>2, <2>3, <1>3, <1>6, Numbers DEF SizedAt
<1>10. Sized(B, root, u)
  <2>1. \A q \in u.pages : q \notin {p, c, d} => q \in w.pages /\ B[q] = A[q]
    BY <1>7
  <2>2. \A q \in {p, c, d} : SizedAt(B, root, q)
    BY <1>9
  <2> DEFINE S == {p, c, d}
  <2>3. (\A q \in u.pages : q \notin S => q \in w.pages /\ B[q] = A[q]) /\ \A q \in S : SizedAt(B, root, q)
    BY <2>1, <2>2, Zenon
  <2> HIDE DEF S
  <2> QED BY <2>3, SizedIf
<1>11. Moved(A, B, root, w, u, p)
  BY <1>5, <1>8, <1>10 DEF Moved
<1>12. GoesOn(B, u, p, k, {c, d})
  <2>1. ~Holds(B[p].items, k) => k /= x
    <3>1. DOMAIN B[p].items = 1 .. Count(B, p) /\ i \in 1 .. Count(B, p)
      BY <1>6, NodeDomain DEF Siblings
    <3> QED BY <3>1 DEF Holds, x, KeyAt, ItemAt
  <2>2. x \in Int
    <3>1. NodesOK(B, u)
      BY <1>5, Zenon DEF Shape
    <3>2. i \in 1 .. Count(B, p)
      BY <1>6 DEF Siblings
    <3> QED BY <1>8, <3>1, <3>2, NodeFacts DEF x
  <2>3. /\ c \in u.pages /\ d \in u.pages /\ u.height[c] = w.height[c] /\ u.height[d] = w.height[c]
        /\ u.height[p] = w.height[p] /\ u.hi[c] = x /\ u.lo[d] = x /\ u.hi[d] = w.hi[c]
    BY <1>2, <1>5, <1>7, <1>8 DEF PlacesCut
  <2>4. ~Holds(B[p].items, k) => \E y \in {c, d} : y \in u.pages /\ u.height[p] = u.height[y] + 1 /\ u.lo[y] < k /\ k < u.hi[y]
    <3> SUFFICES ASSUME ~Holds(B[p].items, k)
                 PROVE  \E y \in {c, d} : y \in u.pages /\ u.height[p] = u.height[y] + 1 /\ u.lo[y] < k /\ k < u.hi[y]
      OBVIOUS
    <3>1. CASE k < x
      BY <3>1, <2>3, <1>2, <1>8
    <3>2. CASE x < k
      BY <3>2, <2>3, <1>2
    <3> QED BY <3>1, <3>2, <2>1, <2>2
  <2>5. u.height[p] /= 0 /\ u.lo[p] < k /\ k < u.hi[p]
    BY <2>3, <1>2, <1>8
  <2> DEFINE S == {c, d}
  <2>6. ~Holds(B[p].items, k) => \E y \in S : y \in u.pages /\ u.height[p] = u.height[y] + 1 /\ u.lo[y] < k /\ k < u.hi[y]
    BY <2>4
  <2> HIDE DEF S
  <2>7. GoesOn(B, u, p, k, S)
    BY <1>5, <1>8, <2>5, <2>6, GoesOnIn
  <2> QED BY <2>7 DEF S
<1> QED BY <1>6, <1>7, <1>9, <1>11, <1>12, Zenon DEF SplitKept

(* Between two kids of p the place moves where they are cut. *)
ShiftKept(A, B, root, w, u, p, c, d, x) ==
  /\ Moved(A, B, root, w, u, p) /\ u.pages = w.pages
  /\ u.lo[c] = w.lo[c] /\ u.hi[d] = w.hi[d] /\ u.hi[c] = x /\ u.lo[d] = x
  /\ \A y : Inner(B, u, y) => Inner(A, w, y) \/ y = x

LEMMA ShiftKeeps ==
  ASSUME NEW A, NEW B, NEW root, NEW w, Shape(A, root, w),
         NEW p \in w.pages, NEW i, NEW c \in w.pages, NEW d \in w.pages, p /= c, p /= d, c /= d,
         NEW m, NEW n, NEW e, ShiftsSo(A, B, w, p, i, c, d, m, n, e),
         NEW x, x = KeyAt(B, p, i),
         \A q \in w.pages \ {c, d} : SizedAt(A, root, q),
         m \in MinDegree - 1 .. MaxKeys, n \in MinDegree - 1 .. MaxKeys
  PROVE  \E u : ShiftKept(A, B, root, w, u, p, c, d, x)
<1>1. /\ Shifts(A, B, w, p, i, c, d) /\ Count(B, p) = Count(A, p) /\ Count(B, c) = m /\ Count(B, d) = n
  BY Zenon DEF ShiftsSo
<1>2. PICK u : ShiftDone(A, B, root, w, u, x, c, d)
  BY <1>1, DoShift
<1>3. /\ Shape(B, root, u) /\ u.pages = w.pages /\ SameHeld(A, w, B, u)
      /\ \A q \in w.pages : /\ u.height[q] = w.height[q]
                            /\ u.lo[q] = IF q = d THEN x ELSE w.lo[q]
                            /\ u.hi[q] = IF q = c THEN x ELSE w.hi[q]
      /\ \A y : Inner(B, u, y) => Inner(A, w, y) \/ y = x
  BY <1>2, Zenon DEF ShiftDone
<1>4. Sized(B, root, u)
  <2> SUFFICES ASSUME NEW q \in w.pages PROVE SizedAt(B, root, q)
    BY <1>3, Zenon DEF Sized, SizedAt
  <2>1. CASE q = c \/ q = d
    BY <2>1, <1>1, Numbers DEF SizedAt
  <2>2. CASE q = p
    BY <2>2, <1>1 DEF SizedAt
  <2>3. CASE q \notin {p, c, d}
    <3>1. Count(B, q) = Count(A, q)
      BY <2>3, <1>1 DEF Shifts, Count
    <3> QED BY <2>3, <3>1 DEF SizedAt
  <2> QED BY <2>1, <2>2, <2>3
<1>5. Moved(A, B, root, w, u, p)
  BY <1>3, <1>4 DEF Moved
<1>6. ShiftKept(A, B, root, w, u, p, c, d, x)
  BY <1>3, <1>5 DEF ShiftKept
<1> QED BY <1>6

(* An item comes into a leaf. *)
LeafWidened(A, B, root, w, p, it) ==
  /\ Shape(B, root, w) /\ Count(B, p) = Count(A, p) + 1 /\ B[p] \in Nodes
  /\ \A x : Held(B, w, x) <=> Held(A, w, x) \/ x = it

LEMMA LeafWiden ==
  ASSUME NEW A, NEW B, NEW root, NEW w, Shape(A, root, w), NEW p \in w.pages, w.height[p] = 0,
         NEW it \in Item, NEW k, k = it[1], w.lo[p] < k, k < w.hi[p],
         NEW m, Located(A, p, k, m), ~Holds(A[p].items, k),
         NEW r, Inserted(Item, r, A[p].items, m + 1, it),
         p \in DOMAIN B, B[p] = Node(TRUE, r, <<>>),
         \A q \in w.pages \ {p} : q \in DOMAIN B /\ B[q] = A[q]
  PROVE  LeafWidened(A, B, root, w, p, it)
<1>1. IsNode(B[p], TRUE, r, <<>>)
  <2>1. r \in Seq(Item) /\ <<>> \in Seq(Nat)
    BY DEF Inserted
  <2> QED BY <2>1, NodeOf
<1>2. /\ B[p] \in Nodes /\ B[p].leaf = TRUE /\ B[p].items = r /\ B[p].kids = <<>>
  BY <1>1, Zenon DEF IsNode
<1>3. KidCount(B, p) = 0
  BY <1>2, EmptySeq DEF KidCount
<1>4. Wider(A, B, p, m + 1, it) /\ Count(B, p) = Count(A, p) + 1
  <2>1. Count(B, p) = Count(A, p) + 1 /\ ItemAt(B, p, m + 1) = it
    BY <1>2 DEF Inserted, Count, ItemAt
  <2>2. \A j \in 1 .. Count(A, p) : ItemAt(A, p, j) = ItemAt(B, p, IF j < m + 1 THEN j ELSE j + 1)
    BY <1>2 DEF Inserted, Count, ItemAt
  <2>3. m + 1 \in 1 .. Count(B, p)
    BY <2>1 DEF Located
  <2> QED BY <2>1, <2>2, <2>3 DEF Wider
<1>5. OnlyAt(A, B, w, p)
  BY <1>2 DEF OnlyAt
<1>6. k \in Int
  BY KeyIsInt
<1>7. Shape(B, root, w) /\ (\A x : Held(B, w, x) <=> Held(A, w, x) \/ x = it)
  <2>1. B[p].leaf = TRUE /\ KidCount(B, p) = 0
    BY <1>2, <1>3, Zenon
  <2>2. Wider(A, B, p, m + 1, it)
    BY <1>4, Zenon
  <2>3. With(A, B, root, w, it)
    BY <2>1, <2>2, <1>5, <1>6, LeafInsert
  <2> QED BY <2>3, Zenon DEF With
<1> QED BY <1>2, <1>4, <1>7, Zenon DEF LeafWidened

AddKept(A, B, root, w, u, it) ==
  /\ Shape(B, root, u) /\ Sized(B, root, u) /\ u.pages = w.pages
  /\ \A x : Held(B, u, x) <=> Held(A, w, x) \/ x = it

LEMMA LeafAdd ==
  ASSUME NEW A, NEW B, NEW root, NEW w, Shape(A, root, w), Sized(A, root, w), NEW p \in w.pages, w.height[p] = 0,
         Count(A, p) < MaxKeys,
         NEW it \in Item, NEW k, k = it[1], w.lo[p] < k, k < w.hi[p], ~Holds(A[p].items, k),
         NEW i, i = Smaller(A[p].items, k) + 1,
         p \in DOMAIN B, B[p] = Node(TRUE, InsertAt(A[p].items, i, it), <<>>),
         \A q \in w.pages \ {p} : q \in DOMAIN B /\ B[q] = A[q]
  PROVE  AddKept(A, B, root, w, w, it)
<1> DEFINE m == Smaller(A[p].items, k)
<1>1. Located(A, p, k, m) /\ k \in Int
  BY KeyIsInt, Locate
<1>2. NodesOK(A, w)
  BY Zenon DEF Shape
<1>3. A[p] \in Nodes /\ Count(A, p) \in Nat
  BY <1>2, NodeFacts
<1>4. Inserted(Item, InsertAt(A[p].items, i, it), A[p].items, i, it)
  <2>1. A[p].items \in Seq(Item)
    BY <1>3, NodeSeqs
  <2>2. i \in 1 .. Len(A[p].items) + 1
    BY <1>1 DEF Located, Count
  <2> QED BY <2>1, <2>2, InsertIs
<1> HIDE DEF m
<1>5. i = m + 1
  BY DEF m
<1>6. LeafWidened(A, B, root, w, p, it)
  BY <1>1, <1>4, <1>5, LeafWiden
<1>7. Shape(B, root, w) /\ Count(B, p) = Count(A, p) + 1 /\ (\A x : Held(B, w, x) <=> Held(A, w, x) \/ x = it)
  BY <1>6, Zenon DEF LeafWidened
<1>8. Sized(B, root, w)
  <2> SUFFICES ASSUME NEW q \in w.pages PROVE SizedAt(B, root, q)
    BY Zenon DEF Sized, SizedAt
  <2>1. CASE q = p
    BY <2>1, <1>3, <1>7, Numbers DEF Sized, SizedAt
  <2>2. CASE q /= p
    BY <2>2 DEF Sized, SizedAt, Count
  <2> QED BY <2>1, <2>2
<1> QED BY <1>7, <1>8, Zenon DEF AddKept

(* At either end. *)
LEMMA AppendIs ==
  ASSUME NEW S, NEW s \in Seq(S), NEW e \in S
  PROVE  Inserted(S, Append(s, e), s, Len(s) + 1, e)
BY DEF Inserted

LEMMA PrependIs ==
  ASSUME NEW S, NEW s \in Seq(S), NEW e \in S
  PROVE  Inserted(S, <<e>> \o s, s, 0 + 1, e)
<1>1. /\ <<e>> \o s \in Seq(S) /\ Len(<<e>> \o s) = Len(s) + 1 /\ (<<e>> \o s)[1] = e
      /\ \A j \in 1 .. Len(s) : (<<e>> \o s)[j + 1] = s[j]
  OBVIOUS
<1>2. \A j \in 1 .. Len(s) : ~(j < 0 + 1)
  OBVIOUS
<1> QED BY <1>1, <1>2 DEF Inserted

LEMMA FrontOfAppend ==
  ASSUME NEW S, NEW s \in Seq(S), NEW e \in S
  PROVE  Last(Append(s, e)) = e /\ Front(Append(s, e)) = s
<1>1. Last(Append(s, e)) = e
  BY DEF Last
<1>2. Front(Append(s, e)) = SubSeq(Append(s, e), 1, Len(s))
  BY DEF Front
<1> QED BY <1>1, <1>2

LEMMA TailOfPrepend ==
  ASSUME NEW S, NEW s \in Seq(S), NEW e \in S
  PROVE  Head(<<e>> \o s) = e /\ Tail(<<e>> \o s) = s
OBVIOUS

-----------------------------------------------------------------------------
(* An item goes from a node to its sibling: what becomes of their places   *)
(* and sizes.                                                              *)

(* Kids i and i + 1 of p, c and d, in a tree. *)
Pair(A, root, w, p, i, c, d) ==
  /\ Siblings(A, p, i, c, d) /\ c \in w.pages /\ d \in w.pages /\ c /= root /\ d /= root
  /\ p /= c /\ p /= d /\ c /= d
  /\ w.hi[c] = w.lo[d] /\ w.hi[c] = KeyAt(A, p, i) /\ w.hi[c] \in Int /\ w.lo[c] \in Int /\ w.hi[d] \in Int
  /\ w.lo[c] < w.hi[c] /\ w.lo[d] < w.hi[d]
  /\ w.height[p] = w.height[c] + 1 /\ w.height[d] = w.height[c] /\ w.height[c] \in Nat
  /\ Count(A, p) \in Nat /\ Count(A, c) \in Nat /\ Count(A, d) \in Nat /\ i \in Nat
  /\ \A j \in 1 .. Count(A, c) : KeyAt(A, c, j) \in Int /\ w.lo[c] < KeyAt(A, c, j) /\ KeyAt(A, c, j) < w.hi[c]
  /\ \A j \in 1 .. Count(A, d) : KeyAt(A, d, j) \in Int /\ w.lo[d] < KeyAt(A, d, j) /\ KeyAt(A, d, j) < w.hi[d]

LEMMA PairIs ==
  ASSUME NEW A, NEW root, NEW w, Shape(A, root, w), NEW p \in w.pages, A[p].leaf = FALSE, NEW i \in 1 .. Count(A, p),
         NEW c, c = KidAt(A, p, i), NEW d, d = KidAt(A, p, i + 1)
  PROVE  Pair(A, root, w, p, i, c, d)
<1>1. Siblings(A, p, i, c, d) /\ c \in w.pages /\ d \in w.pages
  BY SiblingsAre
<1>2. p /= c /\ p /= d /\ c /= d /\ KidCount(A, p) = Count(A, p) + 1
  BY <1>1, Zenon DEF Siblings
<1>3. NodesOK(A, w) /\ PlacesOK(w) /\ Hanging(A, w) /\ Ordered(A, w)
  BY Zenon DEF Shape
<1>4. Count(A, p) \in Nat /\ Count(A, c) \in Nat /\ Count(A, d) \in Nat
  BY <1>1, <1>3, NodeFacts
<1>5. i \in 1 .. KidCount(A, p) /\ i + 1 \in 1 .. KidCount(A, p) /\ i /= KidCount(A, p) /\ i + 1 /= 1 /\ i + 1 - 1 = i /\ i \in Nat
  BY <1>2, <1>4
<1>6. c /= root /\ w.height[p] = w.height[c] + 1
  <2>1. KidBelow(A, root, w, p, i, c)
    BY <1>5, KidIsBelow
  <2> QED BY <2>1, Zenon DEF KidBelow
<1>7. d /= root /\ w.height[p] = w.height[d] + 1
  <2> DEFINE j == i + 1
  <2>1. j \in 1 .. KidCount(A, p) /\ d = KidAt(A, p, j)
    BY <1>5
  <2> HIDE DEF j
  <2>2. KidBelow(A, root, w, p, j, d)
    BY <2>1, KidIsBelow
  <2> QED BY <2>2, Zenon DEF KidBelow
<1>8. /\ w.height[c] \in Nat /\ w.lo[c] \in Int /\ w.hi[c] \in Int
      /\ w.height[d] \in Nat /\ w.lo[d] \in Int /\ w.hi[d] \in Int
  BY <1>1, <1>3, PlacesAre
<1>9. w.hi[c] = KeyAt(A, p, i)
  BY <1>3, <1>5, Zenon DEF Hanging
<1>10. w.lo[d] = KeyAt(A, p, i)
  <2> DEFINE j == i + 1
  <2>1. j \in 1 .. KidCount(A, p) /\ d = KidAt(A, p, j) /\ j /= 1 /\ j - 1 = i
    BY <1>5
  <2> HIDE DEF j
  <2>2. w.lo[d] = KeyAt(A, p, j - 1)
    BY <2>1, <1>3 DEF Hanging
  <2> QED BY <2>1, <2>2
<1>11. w.lo[c] < w.hi[c] /\ w.lo[d] < w.hi[d]
  BY <1>1, <1>3 DEF Ordered
<1>12. /\ \A j \in 1 .. Count(A, c) : KeyAt(A, c, j) \in Int /\ w.lo[c] < KeyAt(A, c, j) /\ KeyAt(A, c, j) < w.hi[c]
       /\ \A j \in 1 .. Count(A, d) : KeyAt(A, d, j) \in Int /\ w.lo[d] < KeyAt(A, d, j) /\ KeyAt(A, d, j) < w.hi[d]
  BY <1>1, <1>3, NodeFacts DEF Ordered
<1>13. w.height[d] = w.height[c]
  BY <1>6, <1>7, <1>8
<1>14. w.hi[c] = w.lo[d]
  BY <1>9, <1>10
<1> QED BY <1>1, <1>2, <1>4, <1>5, <1>6, <1>7, <1>8, <1>9, <1>11, <1>12, <1>13, <1>14, Zenon DEF Pair

LentKept(A, B, root, w, u, p, c, d, x, m, n) ==
  /\ ShiftKept(A, B, root, w, u, p, c, d, x)
  /\ Count(B, p) = Count(A, p) /\ Count(B, c) = m /\ Count(B, d) = n

LEMMA LendKeeps ==
  ASSUME NEW A, NEW B, NEW root, NEW w, Shape(A, root, w), NEW p \in w.pages, NEW i, NEW c, NEW d,
         Pair(A, root, w, p, i, c, d),
         \A q \in w.pages \ {c, d} : SizedAt(A, root, q),
         NEW m, NEW n, NEW e, ShiftsSo(A, B, w, p, i, c, d, m, n, e),
         m \in MinDegree - 1 .. MaxKeys, n \in MinDegree - 1 .. MaxKeys, NEW x, x = e[1]
  PROVE  \E u : LentKept(A, B, root, w, u, p, c, d, x, m, n)
<1>1. x = KeyAt(B, p, i) /\ Count(B, p) = Count(A, p) /\ Count(B, c) = m /\ Count(B, d) = n
  BY DEF ShiftsSo, KeyAt
<1>2. c \in w.pages /\ d \in w.pages /\ p /= c /\ p /= d /\ c /= d
  BY Zenon DEF Pair
<1>3. PICK u : ShiftKept(A, B, root, w, u, p, c, d, x)
  BY <1>1, <1>2, ShiftKeeps
<1>4. LentKept(A, B, root, w, u, p, c, d, x, m, n)
  BY <1>1, <1>3, Zenon DEF LentKept
<1> QED BY <1>4

LEMMA LendRightKeeps ==
  ASSUME NEW A, NEW B, NEW root, NEW w, Shape(A, root, w), NEW p \in w.pages, NEW i, NEW c, NEW d,
         Pair(A, root, w, p, i, c, d),
         \A q \in w.pages \ {c, d} : SizedAt(A, root, q),
         LentRight(A, B, p, i, c, d), p \in DOMAIN B, c \in DOMAIN B, d \in DOMAIN B,
         \A q \in w.pages \ {p, c, d} : q \in DOMAIN B /\ B[q] = A[q],
         Count(A, c) >= MinDegree, Count(A, c) - 1 <= MaxKeys, Count(A, d) < MaxKeys, Count(A, d) >= MinDegree - 1,
         NEW x, x = KeyAt(A, c, Count(A, c))
  PROVE  \E u : LentKept(A, B, root, w, u, p, c, d, x, Count(A, c) - 1, Count(A, d) + 1)
<1> DEFINE m == Count(A, c) - 1
           n == Count(A, d) + 1
           e == ItemAt(A, c, Count(A, c))
<1>1. /\ Siblings(A, p, i, c, d) /\ Count(A, c) \in Nat /\ Count(A, d) \in Nat
  BY Zenon DEF Pair
<1>2. Count(A, c) >= 1 /\ m \in MinDegree - 1 .. MaxKeys /\ n \in MinDegree - 1 .. MaxKeys
  BY <1>1, Numbers
<1>3. ShiftsSo(A, B, w, p, i, c, d, m, n, e)
  BY <1>1, <1>2, LendRight
<1>4. x = e[1]
  BY DEF KeyAt
<1> HIDE DEF m, n, e
<1>5. \E u : LentKept(A, B, root, w, u, p, c, d, x, m, n)
  BY <1>2, <1>3, <1>4, LendKeeps
<1> QED BY <1>5, Zenon DEF m, n

LEMMA LendLeftKeeps ==
  ASSUME NEW A, NEW B, NEW root, NEW w, Shape(A, root, w), NEW p \in w.pages, NEW i, NEW c, NEW d,
         Pair(A, root, w, p, i, c, d),
         \A q \in w.pages \ {c, d} : SizedAt(A, root, q),
         LentLeft(A, B, p, i, c, d), p \in DOMAIN B, c \in DOMAIN B, d \in DOMAIN B,
         \A q \in w.pages \ {p, c, d} : q \in DOMAIN B /\ B[q] = A[q],
         Count(A, d) >= MinDegree, Count(A, d) - 1 <= MaxKeys, Count(A, c) < MaxKeys, Count(A, c) >= MinDegree - 1,
         NEW x, x = KeyAt(A, d, 1)
  PROVE  \E u : LentKept(A, B, root, w, u, p, c, d, x, Count(A, c) + 1, Count(A, d) - 1)
<1> DEFINE m == Count(A, c) + 1
           n == Count(A, d) - 1
           e == ItemAt(A, d, 1)
<1>1. /\ Siblings(A, p, i, c, d) /\ Count(A, c) \in Nat /\ Count(A, d) \in Nat
  BY Zenon DEF Pair
<1>2. Count(A, d) >= 1 /\ m \in MinDegree - 1 .. MaxKeys /\ n \in MinDegree - 1 .. MaxKeys
  BY <1>1, Numbers
<1>3. ShiftsSo(A, B, w, p, i, c, d, m, n, e)
  BY <1>1, <1>2, LendLeft
<1>4. x = e[1]
  BY DEF KeyAt
<1> HIDE DEF m, n, e
<1>5. \E u : LentKept(A, B, root, w, u, p, c, d, x, m, n)
  BY <1>2, <1>3, <1>4, LendKeeps
<1> QED BY <1>5, Zenon DEF m, n

(* The last leaf but one is full, and the item would be its last: the item *)
(* goes to the parent, and the parent's to the sibling.                    *)
IsLeaf(n) == n = Node(TRUE, n.items, <<>>) /\ n.kids = <<>> /\ n.leaf = TRUE

LEMMA LeafNode ==
  ASSUME NEW A, NEW p, NEW i, NEW c, NEW d, Siblings(A, p, i, c, d), A[c].leaf = TRUE
  PROVE  IsLeaf(A[c]) /\ IsLeaf(A[d])
<1>1. A[c] \in Nodes /\ A[d] \in Nodes /\ A[d].leaf = A[c].leaf /\ KidCount(A, c) = 0 /\ KidCount(A, d) = 0
  BY DEF Siblings
<1>2. A[c].kids = <<>> /\ A[d].kids = <<>>
  <2>1. A[c].kids \in Seq(Nat) /\ A[d].kids \in Seq(Nat) /\ Len(A[c].kids) = 0 /\ Len(A[d].kids) = 0
    BY <1>1, NodeSeqs DEF KidCount
  <2> QED BY <2>1, EmptySeq
<1>3. A[c] = Node(A[c].leaf, A[c].items, A[c].kids) /\ A[d] = Node(A[d].leaf, A[d].items, A[d].kids)
  BY <1>1, NodeSeqs
<1> QED BY <1>1, <1>2, <1>3 DEF IsLeaf

LEMMA AllBelow ==
  ASSUME NEW A, NEW root, NEW w, Shape(A, root, w), NEW c \in w.pages, NEW n, n = Count(A, c), n >= 1,
         NEW k \in Int, KeyAt(A, c, n) < k
  PROVE  Located(A, c, k, n) /\ ~Holds(A[c].items, k)
<1> DEFINE m == Smaller(A[c].items, k)
<1>1. Located(A, c, k, m)
  BY Locate
<1> HIDE DEF m
<1>2. m \in Nat /\ m <= n /\ n \in Nat /\ KeyAt(A, c, n) \in Int /\ (m < n => k <= KeyAt(A, c, n))
  BY <1>1 DEF Located
<1>3. m = n
  BY <1>2
<1> QED BY <1>1, <1>2, <1>3 DEF Located

LEMMA AllAbove ==
  ASSUME NEW A, NEW root, NEW w, Shape(A, root, w), NEW c \in w.pages, Count(A, c) >= 1,
         NEW k \in Int, k < KeyAt(A, c, 1)
  PROVE  Located(A, c, k, 0) /\ ~Holds(A[c].items, k)
<1> DEFINE m == Smaller(A[c].items, k)
<1>1. Located(A, c, k, m)
  BY Locate
<1> HIDE DEF m
<1>2. m \in Nat /\ KeyAt(A, c, 1) \in Int /\ (1 <= m => KeyAt(A, c, 1) < k)
  BY <1>1 DEF Located
<1>3. m = 0
  BY <1>2
<1> QED BY <1>1, <1>2, <1>3 DEF Located

LEMMA ShareRightAdds ==
  ASSUME NEW A, NEW B, NEW root, NEW w, Shape(A, root, w), Sized(A, root, w), NEW p \in w.pages, NEW i, NEW c, NEW d,
         Pair(A, root, w, p, i, c, d), A[c].leaf = TRUE, Count(A, c) >= MaxKeys, Count(A, d) < MaxKeys,
         NEW it \in Item, NEW k, k = it[1], KeyAt(A, c, Count(A, c)) < k, k < w.hi[c],
         p \in DOMAIN B, c \in DOMAIN B, d \in DOMAIN B,
         B[p] = Node(FALSE, [A[p].items EXCEPT ![i] = it], A[p].kids), B[c] = A[c],
         B[d] = Node(TRUE, <<A[p].items[i]>> \o A[d].items, <<>>),
         \A q \in w.pages \ {p, c, d} : q \in DOMAIN B /\ B[q] = A[q]
  PROVE  \E u : AddKept(A, B, root, w, u, it)
<1> DEFINE n == Count(A, c)
           r == Append(A[c].items, it)
           H == [q \in DOMAIN A |-> IF q = c THEN Node(TRUE, r, <<>>) ELSE A[q]]
<1>1. /\ Siblings(A, p, i, c, d) /\ c \in w.pages /\ d \in w.pages /\ c /= root /\ d /= root
      /\ p /= c /\ p /= d /\ c /= d
      /\ n \in Nat /\ Count(A, d) \in Nat /\ w.lo[c] \in Int /\ w.hi[c] \in Int /\ w.height[c] \in Nat
  BY Zenon DEF Pair
<1>2. n = MaxKeys /\ Count(A, d) >= MinDegree - 1
  BY <1>1, Numbers DEF Sized
<1>3. k \in Int /\ w.lo[c] < k
  <2>1. n \in 1 .. n
    BY <1>2, Numbers
  <2>2. KeyAt(A, c, n) \in Int /\ w.lo[c] < KeyAt(A, c, n)
    BY <2>1 DEF Pair
  <2> QED BY <1>1, <2>2, KeyIsInt
<1>4. Located(A, c, k, n) /\ ~Holds(A[c].items, k)
  BY <1>1, <1>2, <1>3, AllBelow, Numbers
<1>5. A[c] = Node(TRUE, A[c].items, <<>>) /\ A[c].items \in Seq(Item) /\ NodesOK(A, w) /\ A[c].items = A[c].items
  <2>1. A[c] = Node(TRUE, A[c].items, <<>>)
    <3>1. IsLeaf(A[c])
      BY <1>1, LeafNode
    <3> QED BY <3>1, Zenon DEF IsLeaf
  <2>2. A[c] \in Nodes /\ NodesOK(A, w)
    BY <1>1, Zenon DEF Siblings, Shape
  <2> QED BY <2>1, <2>2, NodeSeqs
<1>6. Inserted(Item, r, A[c].items, n + 1, it)
  BY <1>5, AppendIs DEF Count
<1>7. c \in DOMAIN A /\ p \in DOMAIN A /\ d \in DOMAIN A /\ \A q \in w.pages : q \in DOMAIN A
  BY <1>1, <1>5 DEF NodesOK
<1>8. /\ \A q \in w.pages \ {c} : q \in DOMAIN H /\ H[q] = A[q]
      /\ c \in DOMAIN H /\ H[c] = Node(TRUE, r, <<>>)
      /\ H[p] = A[p] /\ H[d] = A[d]
  BY <1>1, <1>7
<1> HIDE DEF H, r, n
<1>9. LeafWidened(A, H, root, w, c, it)
  <2>1. w.height[c] = 0
    BY <1>1 DEF Shape, Branching
  <2> QED BY <2>1, <1>1, <1>3, <1>4, <1>6, <1>8, LeafWiden
<1>10. /\ Shape(H, root, w) /\ Count(H, c) = n + 1 /\ H[c] \in Nodes
       /\ \A x : Held(H, w, x) <=> Held(A, w, x) \/ x = it
  BY <1>9, Zenon DEF LeafWidened, n
<1>11. Pair(H, root, w, p, i, c, d)
  <2>1. i \in 1 .. Count(H, p) /\ c = KidAt(H, p, i) /\ d = KidAt(H, p, i + 1) /\ H[p].leaf = FALSE
    BY <1>1, <1>8 DEF Siblings, Count, KidAt
  <2> QED BY <1>10, <2>1, PairIs
<1>12. /\ H[c].items = r /\ H[c].leaf = TRUE /\ H[d].items = A[d].items /\ H[p].items = A[p].items /\ H[p].kids = A[p].kids
  BY <1>8 DEF Node
<1>13. LentRight(H, B, p, i, c, d)
  <2>1. Last(r) = it /\ Front(r) = A[c].items
    BY <1>5, FrontOfAppend DEF r
  <2>2. B[p] = Node(FALSE, [H[p].items EXCEPT ![i] = Last(H[c].items)], H[p].kids)
    BY <1>12, <2>1
  <2>3. B[c] = Node(H[c].leaf, Front(H[c].items), IF H[c].leaf THEN <<>> ELSE Front(H[c].kids))
    BY <1>5, <1>12, <2>1
  <2>4. B[d] = Node(H[c].leaf, <<H[p].items[i]>> \o H[d].items, IF H[c].leaf THEN <<>> ELSE <<Last(H[c].kids)>> \o H[d].kids)
    BY <1>12
  <2> QED BY <2>2, <2>3, <2>4, Zenon DEF LentRight
<1> DEFINE x == KeyAt(H, c, Count(H, c))
<1>14. \E u : LentKept(H, B, root, w, u, p, c, d, x, Count(H, c) - 1, Count(H, d) + 1)
  <2>1. \A q \in w.pages \ {c, d} : SizedAt(H, root, q)
    BY <1>8 DEF Sized, SizedAt, Count
  <2>2. \A q \in w.pages \ {p, c, d} : q \in DOMAIN B /\ B[q] = H[q]
    BY <1>8
  <2>3. Count(H, d) = Count(A, d) /\ Count(H, c) = MaxKeys + 1
    BY <1>2, <1>8, <1>10 DEF Count
  <2>4. Count(H, c) >= MinDegree /\ Count(H, c) - 1 <= MaxKeys /\ Count(H, d) < MaxKeys /\ Count(H, d) >= MinDegree - 1
    BY <2>3, <1>2, Numbers
  <2>5. x = KeyAt(H, c, Count(H, c))
    OBVIOUS
  <2> HIDE DEF x
  <2> QED BY <2>1, <2>2, <2>4, <2>5, <1>10, <1>11, <1>13, LendRightKeeps
<1>15. PICK u : LentKept(H, B, root, w, u, p, c, d, x, Count(H, c) - 1, Count(H, d) + 1)
  BY <1>14
<1>16. Shape(B, root, u) /\ Sized(B, root, u) /\ SameHeld(H, w, B, u) /\ u.pages = w.pages
  BY <1>15, Zenon DEF LentKept, ShiftKept, Moved
<1>17. \A y : Held(B, u, y) <=> Held(A, w, y) \/ y = it
  BY <1>10, <1>16, Zenon DEF SameHeld
<1>18. AddKept(A, B, root, w, u, it)
  BY <1>16, <1>17, Zenon DEF AddKept
<1> QED BY <1>18
LEMMA ShareLeftAdds ==
  ASSUME NEW A, NEW B, NEW root, NEW w, Shape(A, root, w), Sized(A, root, w), NEW p \in w.pages, NEW i, NEW c, NEW d,
         Pair(A, root, w, p, i, c, d), A[d].leaf = TRUE, Count(A, d) >= MaxKeys, Count(A, c) < MaxKeys,
         NEW it \in Item, NEW k, k = it[1], k < KeyAt(A, d, 1), w.lo[d] < k,
         p \in DOMAIN B, c \in DOMAIN B, d \in DOMAIN B,
         B[p] = Node(FALSE, [A[p].items EXCEPT ![i] = it], A[p].kids), B[d] = A[d],
         B[c] = Node(TRUE, Append(A[c].items, A[p].items[i]), <<>>),
         \A q \in w.pages \ {p, c, d} : q \in DOMAIN B /\ B[q] = A[q]
  PROVE  \E u : AddKept(A, B, root, w, u, it)
<1> DEFINE n == Count(A, d)
           r == <<it>> \o A[d].items
           H == [q \in DOMAIN A |-> IF q = d THEN Node(TRUE, r, <<>>) ELSE A[q]]
<1>1. /\ Siblings(A, p, i, c, d) /\ c \in w.pages /\ d \in w.pages /\ c /= root /\ d /= root
      /\ p /= c /\ p /= d /\ c /= d
      /\ n \in Nat /\ Count(A, c) \in Nat /\ w.lo[d] \in Int /\ w.hi[d] \in Int /\ w.height[d] \in Nat
  <2>1. w.lo[d] \in Int /\ w.height[d] \in Nat
    BY DEF Pair
  <2> QED BY <2>1, Zenon DEF Pair
<1>2. n = MaxKeys /\ Count(A, c) >= MinDegree - 1
  BY <1>1, Numbers DEF Sized
<1>3. k \in Int /\ k < w.hi[d]
  <2>1. 1 \in 1 .. n
    BY <1>2, Numbers
  <2>2. KeyAt(A, d, 1) \in Int /\ KeyAt(A, d, 1) < w.hi[d]
    BY <2>1 DEF Pair
  <2> QED BY <1>1, <2>2, KeyIsInt
<1>4. Located(A, d, k, 0) /\ ~Holds(A[d].items, k)
  BY <1>1, <1>2, <1>3, AllAbove, Numbers
<1>5. A[d] = Node(TRUE, A[d].items, <<>>) /\ A[d].items \in Seq(Item) /\ NodesOK(A, w) /\ A[c].leaf = TRUE
  <2>1. A[d] \in Nodes /\ NodesOK(A, w) /\ A[c].leaf = TRUE
    BY <1>1, Zenon DEF Siblings, Shape
  <2>2. Siblings(A, p, i, c, d) /\ A[c].leaf = TRUE
    BY <1>1, <2>1
  <2>3. A[d] = Node(TRUE, A[d].items, <<>>)
    <3>1. IsLeaf(A[d])
      BY <2>2, LeafNode
    <3> QED BY <3>1, Zenon DEF IsLeaf
  <2> QED BY <2>1, <2>3, NodeSeqs
<1>6. Inserted(Item, r, A[d].items, 0 + 1, it)
  BY <1>5, PrependIs
<1>7. c \in DOMAIN A /\ p \in DOMAIN A /\ d \in DOMAIN A /\ \A q \in w.pages : q \in DOMAIN A
  BY <1>1, <1>5 DEF NodesOK
<1>8. /\ \A q \in w.pages \ {d} : q \in DOMAIN H /\ H[q] = A[q]
      /\ d \in DOMAIN H /\ H[d] = Node(TRUE, r, <<>>)
      /\ H[p] = A[p] /\ H[c] = A[c]
  BY <1>1, <1>7
<1> HIDE DEF H, r, n
<1>9. LeafWidened(A, H, root, w, d, it)
  <2>1. w.height[d] = 0
    BY <1>1 DEF Shape, Branching
  <2> QED BY <2>1, <1>1, <1>3, <1>4, <1>6, <1>8, LeafWiden
<1>10. /\ Shape(H, root, w) /\ Count(H, d) = n + 1 /\ H[d] \in Nodes
       /\ \A x : Held(H, w, x) <=> Held(A, w, x) \/ x = it
  BY <1>9, Zenon DEF LeafWidened, n
<1>11. Pair(H, root, w, p, i, c, d)
  <2>1. i \in 1 .. Count(H, p) /\ c = KidAt(H, p, i) /\ d = KidAt(H, p, i + 1) /\ H[p].leaf = FALSE
    BY <1>1, <1>8 DEF Siblings, Count, KidAt
  <2> QED BY <1>10, <2>1, PairIs
<1>12. /\ H[d].items = r /\ H[c].leaf = TRUE /\ H[c].items = A[c].items /\ H[p].items = A[p].items /\ H[p].kids = A[p].kids
  <2>1. H[d].items = r
    BY <1>8 DEF Node
  <2> QED BY <2>1, <1>5, <1>8
<1>13. LentLeft(H, B, p, i, c, d)
  <2>1. Head(r) = it /\ Tail(r) = A[d].items
    BY <1>5, TailOfPrepend DEF r
  <2>2. B[p] = Node(FALSE, [H[p].items EXCEPT ![i] = Head(H[d].items)], H[p].kids)
    BY <1>12, <2>1
  <2>3. B[d] = Node(H[c].leaf, Tail(H[d].items), IF H[c].leaf THEN <<>> ELSE Tail(H[d].kids))
    BY <1>5, <1>12, <2>1
  <2>4. B[c] = Node(H[c].leaf, Append(H[c].items, H[p].items[i]), IF H[c].leaf THEN <<>> ELSE Append(H[c].kids, Head(H[d].kids)))
    BY <1>12
  <2> QED BY <2>2, <2>3, <2>4, Zenon DEF LentLeft
<1> DEFINE x == KeyAt(H, d, 1)
<1>14. \E u : LentKept(H, B, root, w, u, p, c, d, x, Count(H, c) + 1, Count(H, d) - 1)
  <2>1. \A q \in w.pages \ {c, d} : SizedAt(H, root, q)
    BY <1>8 DEF Sized, SizedAt, Count
  <2>2. \A q \in w.pages \ {p, c, d} : q \in DOMAIN B /\ B[q] = H[q]
    BY <1>8
  <2>3. Count(H, c) = Count(A, c) /\ Count(H, d) = MaxKeys + 1
    BY <1>2, <1>8, <1>10 DEF Count
  <2>4. Count(H, d) >= MinDegree /\ Count(H, d) - 1 <= MaxKeys /\ Count(H, c) < MaxKeys /\ Count(H, c) >= MinDegree - 1
    BY <2>3, <1>2, Numbers
  <2>5. x = KeyAt(H, d, 1)
    OBVIOUS
  <2> HIDE DEF x
  <2> QED BY <2>1, <2>2, <2>4, <2>5, <1>10, <1>11, <1>13, LendLeftKeeps
<1>15. PICK u : LentKept(H, B, root, w, u, p, c, d, x, Count(H, c) + 1, Count(H, d) - 1)
  BY <1>14
<1>16. Shape(B, root, u) /\ Sized(B, root, u) /\ SameHeld(H, w, B, u) /\ u.pages = w.pages
  BY <1>15, Zenon DEF LentKept, ShiftKept, Moved
<1>17. \A y : Held(B, u, y) <=> Held(A, w, y) \/ y = it
  BY <1>10, <1>16, Zenon DEF SameHeld
<1>18. AddKept(A, B, root, w, u, it)
  BY <1>16, <1>17, Zenon DEF AddKept
<1> QED BY <1>18

(* Two full leaves become three. *)
ThreeKept(A, B, root, w, u, p, c, d, e, k) ==
  /\ Moved(A, B, root, w, u, p) /\ u.pages = w.pages \cup {e}
  /\ Count(B, p) = Count(A, p) + 1 /\ Count(B, c) < MaxKeys /\ Count(B, d) < MaxKeys /\ Count(B, e) < MaxKeys
  /\ GoesOn(B, u, p, k, {c, d, e})

ThreeSizes(M, m, n) ==
  /\ m \in Nat /\ n \in Nat /\ n >= 1 /\ m + n + 1 < 2 * M + 1 /\ m < 2 * M + 1
  /\ m >= MinDegree - 1 /\ m < M /\ n >= MinDegree - 1 /\ n < M
  /\ 2 * M - m - n - 1 >= MinDegree - 1 /\ 2 * M - m - n - 1 < M

LEMMA ThreeSizesAre ==
  ASSUME NEW m, m = (2 * MaxKeys) \div 3, NEW n, n = 2 * MaxKeys - 1 - m - (MaxKeys - MinDegree - 1)
  PROVE  ThreeSizes(MaxKeys, m, n)
BY Numbers DEF ThreeSizes

(* The item before the one that is inserted stays where it is. *)
LEMMA BeforeInserted ==
  ASSUME NEW S, NEW s \in Seq(S), NEW i \in 1 .. Len(s), NEW e \in S
  PROVE  InsertAt(s, i + 1, e)[i] = s[i]
<1> DEFINE j == i + 1
<1>1. j \in 1 .. Len(s) + 1 /\ i < j
  OBVIOUS
<1> HIDE DEF j
<1>2. Inserted(S, InsertAt(s, j, e), s, j, e)
  BY <1>1, InsertIs
<1>3. s[i] = InsertAt(s, j, e)[IF i < j THEN i ELSE i + 1]
  BY <1>2, Zenon DEF Inserted
<1> QED BY <1>1, <1>3 DEF j

LEMMA ThreeKeeps ==
  ASSUME NEW A, NEW B, NEW root, NEW w, Shape(A, root, w), Sized(A, root, w), NEW p \in w.pages, NEW i, NEW c, NEW d,
         Pair(A, root, w, p, i, c, d), A[c].leaf = TRUE, Count(A, c) >= MaxKeys, Count(A, d) >= MaxKeys,
         Count(A, p) < MaxKeys, NEW e \in Nat, e \notin w.pages,
         NEW m, m = (2 * MaxKeys) \div 3, NEW n, n = 2 * MaxKeys - 1 - m - (MaxKeys - MinDegree - 1),
         SplitsInThree(A, B, p, i, c, d, e, m, n),
         p \in DOMAIN B, c \in DOMAIN B, d \in DOMAIN B, e \in DOMAIN B,
         \A q \in w.pages \ {p, c, d} : q \in DOMAIN B /\ B[q] = A[q],
         NEW k \in Int, w.lo[p] < k, k < w.hi[p], w.lo[c] < k, k < w.hi[d]
  PROVE  \E u : ThreeKept(A, B, root, w, u, p, c, d, e, k)
<1> DEFINE H == HalfSplit(A, p, i, c, d, m)
           all == AllOf(A, p, i, c, d)
           j == i + 1
<1>1. /\ Siblings(A, p, i, c, d) /\ c \in w.pages /\ d \in w.pages /\ c /= root /\ d /= root
      /\ p /= c /\ p /= d /\ c /= d
      /\ Count(A, p) \in Nat /\ Count(A, c) \in Nat /\ Count(A, d) \in Nat /\ i \in Nat
      /\ w.height[p] = w.height[c] + 1 /\ w.height[d] = w.height[c] /\ w.height[c] \in Nat
  BY Zenon DEF Pair
<1>2. Count(A, c) = MaxKeys /\ Count(A, d) = MaxKeys /\ (p /= root => Count(A, p) >= MinDegree - 1)
  BY <1>1, Numbers DEF Sized
<1>3. /\ m \in Nat /\ n \in Nat /\ n >= 1 /\ m + n + 1 < 2 * MaxKeys + 1 /\ m < 2 * MaxKeys + 1
      /\ m >= MinDegree - 1 /\ m < MaxKeys /\ n >= MinDegree - 1 /\ n < MaxKeys
      /\ 2 * MaxKeys - m - n - 1 >= MinDegree - 1 /\ 2 * MaxKeys - m - n - 1 < MaxKeys
  <2>1. ThreeSizes(MaxKeys, m, n)
    BY ThreeSizesAre
  <2> QED BY <2>1, Zenon DEF ThreeSizes
<1>4. \A q \in w.pages : q \in DOMAIN A
  BY DEF Shape, NodesOK
<1> HIDE DEF H, all, j
<1>5. HalfDone(A, H, w, p, i, c, d, m, all)
  <2>1. m < Count(A, c) + Count(A, d) + 1 /\ H = HalfSplit(A, p, i, c, d, m) /\ all = AllOf(A, p, i, c, d)
    BY <1>2, <1>3, Numbers DEF H, all
  <2> QED BY <2>1, <1>1, <1>3, <1>4, HalfSplitIs
<1>6. /\ Shifts(A, H, w, p, i, c, d)
      /\ Count(H, p) = Count(A, p) /\ Count(H, c) = m /\ Count(H, d) = Count(A, c) + Count(A, d) - m
  BY <1>5, Zenon DEF HalfDone, ShiftsSo
<1>7. Siblings(H, p, i, c, d) /\ \A q \in w.pages \ {p, c, d} : H[q] = A[q]
  BY <1>6, Zenon DEF Shifts
<1> DEFINE x == KeyAt(H, p, i)
<1>8. PICK v : ShiftDone(A, H, root, w, v, x, c, d)
  <2>1. x = KeyAt(H, p, i)
    OBVIOUS
  <2> HIDE DEF x
  <2> QED BY <2>1, <1>1, <1>6, DoShift
<1> HIDE DEF x
<1>9. /\ Shape(H, root, v) /\ v.pages = w.pages /\ SameHeld(A, w, H, v)
      /\ \A q \in w.pages : /\ v.height[q] = w.height[q]
                            /\ v.lo[q] = IF q = d THEN x ELSE w.lo[q]
                            /\ v.hi[q] = IF q = c THEN x ELSE w.hi[q]
  BY <1>8, Zenon DEF ShiftDone
<1>10. Splits(H, B, p, j, d, e, n) /\ B[c] = H[c] /\ n \in 0 .. Count(H, d) - 1
  <2>1. m + n + 1 < Count(A, c) + Count(A, d) + 1 /\ H = HalfSplit(A, p, i, c, d, m)
    BY <1>2, <1>3, Numbers DEF H
  <2>2. j = i + 1
    BY DEF j
  <2>3. InThree(H, B, p, j, c, d, e, n)
    BY <2>1, <2>2, <1>1, <1>3, <1>4, ThreeIs
  <2> QED BY <2>3, Zenon DEF InThree
<1> DEFINE y == KeyAt(B, p, j)
           u == CutPlaces(v, y, d, e)
<1>11. CutDone(H, B, root, v, u, y, d, e) /\ SplitSo(H, B, p, j, d, e, n)
  <2>1. j \in 1 .. KidCount(H, p) /\ d = KidAt(H, p, j)
    <3>1. Count(H, p) \in Nat /\ i \in 1 .. Count(H, p) /\ KidCount(H, p) = Count(H, p) + 1 /\ KidAt(H, p, i + 1) = d
      BY <1>1, <1>6, <1>7 DEF Siblings
    <3> QED BY <3>1 DEF j
  <2>2. y = KeyAt(B, p, j) /\ u = CutPlaces(v, y, d, e)
    OBVIOUS
  <2>3. \A q \in v.pages \ {p, d} : q \in DOMAIN B /\ B[q] = H[q]
    BY <1>7, <1>9, <1>10
  <2>4. p \in v.pages /\ e \notin v.pages
    BY <1>9
  <2> HIDE DEF y, u
  <2> QED BY <2>1, <2>2, <2>3, <2>4, <1>9, <1>10, DoSplit
<1> HIDE DEF y, u
<1>12. Shape(B, root, u) /\ PlacesCut(v, u, y, d, e) /\ SameHeld(H, v, B, u)
  BY <1>11, Zenon DEF CutDone
<1>13. /\ Count(B, p) = Count(A, p) + 1 /\ Count(B, c) = m /\ Count(B, d) = n /\ Count(B, e) = 2 * MaxKeys - m - n - 1
       /\ Siblings(B, p, j, d, e)
  <2>1. /\ Count(B, p) = Count(H, p) + 1 /\ Count(B, d) = n /\ Count(B, e) = Count(H, d) - n - 1
        /\ Siblings(B, p, j, d, e)
    BY <1>11, Zenon DEF SplitSo
  <2>2. Count(B, c) = Count(H, c)
    BY <1>10 DEF Count
  <2> QED BY <2>1, <2>2, <1>2, <1>3, <1>6, Numbers
<1>14. /\ u.pages = w.pages \cup {e} /\ p \in u.pages /\ u.lo[p] = w.lo[p] /\ u.hi[p] = w.hi[p]
       /\ \A q \in w.pages : u.height[q] = w.height[q]
       /\ u.lo[c] = w.lo[c] /\ u.hi[c] = x /\ u.lo[d] = x /\ u.hi[d] = y /\ u.lo[e] = y /\ u.hi[e] = w.hi[d]
       /\ u.height[e] = w.height[c]
  BY <1>1, <1>9, <1>12 DEF PlacesCut
<1>15. /\ SizedAt(B, root, p) /\ SizedAt(B, root, c) /\ SizedAt(B, root, d) /\ SizedAt(B, root, e)
       /\ Count(B, c) < MaxKeys /\ Count(B, d) < MaxKeys /\ Count(B, e) < MaxKeys
  <2>1. SizedAt(B, root, p)
    BY <1>1, <1>2, <1>13, Numbers DEF SizedAt
  <2> QED BY <2>1, <1>3, <1>13, Numbers DEF SizedAt
<1>16. Sized(B, root, u)
  <2> SUFFICES ASSUME NEW q \in u.pages PROVE SizedAt(B, root, q)
    BY Zenon DEF Sized, SizedAt
  <2>1. CASE q \in {p, c, d, e}
    BY <2>1, <1>15
  <2>2. CASE q \notin {p, c, d, e}
    <3>1. q \in w.pages /\ Count(B, q) = Count(A, q)
      BY <2>2, <1>14 DEF Count
    <3> QED BY <3>1 DEF Sized, SizedAt
  <2> QED BY <2>1, <2>2
<1>17. SameHeld(A, w, B, u)
  BY <1>9, <1>12, Zenon DEF SameHeld
<1>18. Moved(A, B, root, w, u, p)
  BY <1>12, <1>14, <1>16, <1>17 DEF Moved
<1>19. x \in Int /\ y \in Int /\ (~Holds(B[p].items, k) => k /= x /\ k /= y)
  <2>1. NodesOK(B, u)
    BY <1>12, Zenon DEF Shape
  <2>2. DOMAIN B[p].items = 1 .. Count(B, p) /\ \A a \in 1 .. Count(B, p) : KeyAt(B, p, a) \in Int
    BY <2>1, <1>14, NodeFacts, NodeDomain
  <2>3. j \in 1 .. Count(B, p)
    BY <1>13 DEF Siblings
  <2>4. i \in 1 .. Count(B, p)
    BY <2>3, <1>1, <1>13, Numbers DEF j, Siblings
  <2>5. x = KeyAt(B, p, i)
    <3>1. H[p].items \in Seq(Item) /\ i \in 1 .. Len(H[p].items) /\ H[d].items \in Seq(Item)
      BY <1>7, NodeSeqs DEF Siblings, Count
    <3> DEFINE s == H[p].items
               z == H[d].items[n + 1]
    <3>2. z \in Item
      BY <3>1, <1>10, ElementOfSeq DEF Count
    <3>3. s \in Seq(Item) /\ i \in 1 .. Len(s)
      BY <3>1
    <3>4. B[p] = Node(FALSE, InsertAt(s, j, z), InsertAt(H[p].kids, j + 1, e))
      BY <1>10, Zenon DEF Splits
    <3> HIDE DEF s, z
    <3>5. B[p].items = InsertAt(s, j, z)
      BY <3>4 DEF Node
    <3>6. InsertAt(s, j, z)[i] = s[i]
      BY <3>2, <3>3, BeforeInserted DEF j
    <3> QED BY <3>5, <3>6, Zenon DEF KeyAt, ItemAt, x, s
  <2> QED BY <2>2, <2>3, <2>4, <2>5, Zenon DEF Holds, y, KeyAt, ItemAt
<1>20. GoesOn(B, u, p, k, {c, d, e})
  <2>1. /\ c \in u.pages /\ d \in u.pages /\ e \in u.pages
        /\ u.height[p] = u.height[c] + 1 /\ u.height[p] = u.height[d] + 1 /\ u.height[p] = u.height[e] + 1
        /\ u.height[p] /= 0
    BY <1>1, <1>14
  <2> DEFINE S == {c, d, e}
  <2>2. ~Holds(B[p].items, k) => \E q \in S : q \in u.pages /\ u.height[p] = u.height[q] + 1 /\ u.lo[q] < k /\ k < u.hi[q]
    <3> SUFFICES ASSUME ~Holds(B[p].items, k)
                 PROVE  \E q \in S : q \in u.pages /\ u.height[p] = u.height[q] + 1 /\ u.lo[q] < k /\ k < u.hi[q]
      OBVIOUS
    <3>1. CASE k < x
      BY <3>1, <2>1, <1>14
    <3>2. CASE y < k
      BY <3>2, <2>1, <1>14
    <3>3. CASE x < k /\ k < y
      BY <3>3, <2>1, <1>14
    <3> QED BY <3>1, <3>2, <3>3, <1>19
  <2> HIDE DEF S
  <2>3. GoesOn(B, u, p, k, S)
    BY <2>1, <2>2, <1>12, <1>14, GoesOnIn
  <2> QED BY <2>3 DEF S
<1>21. ThreeKept(A, B, root, w, u, p, c, d, e, k)
  BY <1>13, <1>14, <1>15, <1>18, <1>20, Zenon DEF ThreeKept
<1> QED BY <1>21

-----------------------------------------------------------------------------
(* What a round of _delete does to the nodes.                              *)

(* The search for k goes on at x, a kid of p that can spare an item.       *)
BelowKept(A, B, root, w, u, p, x, k) ==
  /\ Moved(A, B, root, w, u, p) /\ u.pages \subseteq w.pages
  /\ x \in u.pages /\ x /= root /\ w.height[p] = w.height[x] + 1 /\ u.lo[x] < k /\ k < u.hi[x] /\ Count(B, x) >= MinDegree
  /\ Inner(B, u, k) => Inner(A, w, k)

BelowAt(A, B, root, w, u, p, x, k) ==
  BelowKept(A, B, root, w, u, p, x, k) /\ u.pages = w.pages /\ Count(B, p) = Count(A, p)
BelowLess(A, B, root, w, u, p, x, k, d) ==
  BelowKept(A, B, root, w, u, p, x, k) /\ u.pages = w.pages \ {d} /\ Count(B, p) = Count(A, p) - 1

(* c has one item less than it must have to lose one; its left sibling l,  *)
(* or the right one, lends one.                                            *)
LEMMA FromLeftKeeps ==
  ASSUME NEW A, NEW B, NEW root, NEW w, Shape(A, root, w), Sized(A, root, w), NEW p \in w.pages, NEW i, NEW c, NEW d,
         Pair(A, root, w, p, i, c, d),
         LentRight(A, B, p, i, c, d), p \in DOMAIN B, c \in DOMAIN B, d \in DOMAIN B,
         \A q \in w.pages \ {p, c, d} : q \in DOMAIN B /\ B[q] = A[q],
         Count(A, c) >= MinDegree, Count(A, d) < MinDegree,
         NEW k \in Int, w.lo[d] < k, k < w.hi[d]
  PROVE  \E u : BelowAt(A, B, root, w, u, p, d, k)
<1> DEFINE x == KeyAt(A, c, Count(A, c))
           m == Count(A, c) - 1
           n == Count(A, d) + 1
<1>1. /\ c \in w.pages /\ d \in w.pages /\ d /= root /\ c /= root
      /\ w.hi[c] = w.lo[d] /\ w.lo[c] \in Int /\ w.hi[c] \in Int
      /\ w.height[p] = w.height[c] + 1 /\ w.height[d] = w.height[c]
      /\ Count(A, c) \in Nat /\ Count(A, d) \in Nat
  BY Zenon DEF Pair
<1>2. /\ Count(A, c) - 1 <= MaxKeys /\ Count(A, d) < MaxKeys /\ Count(A, d) >= MinDegree - 1
      /\ Count(A, c) \in 1 .. Count(A, c) /\ Count(A, d) + 1 >= MinDegree
  BY <1>1, Numbers DEF Sized
<1>3. \A q \in w.pages \ {c, d} : SizedAt(A, root, q)
  BY DEF Sized, SizedAt
<1>4. x \in Int /\ x < w.hi[c]
  BY <1>2 DEF Pair
<1>5. \E u : LentKept(A, B, root, w, u, p, c, d, x, Count(A, c) - 1, Count(A, d) + 1)
  <2>1. x = KeyAt(A, c, Count(A, c))
    OBVIOUS
  <2> HIDE DEF x
  <2> QED BY <2>1, <1>2, <1>3, LendRightKeeps
<1>6. PICK u : LentKept(A, B, root, w, u, p, c, d, x, m, n)
  BY <1>5
<1> HIDE DEF x, m, n
<1>7. /\ Moved(A, B, root, w, u, p) /\ u.pages = w.pages /\ u.hi[d] = w.hi[d] /\ u.lo[d] = x
      /\ \A y : Inner(B, u, y) => Inner(A, w, y) \/ y = x
      /\ Count(B, p) = Count(A, p) /\ Count(B, d) = n
  BY <1>6, Zenon DEF LentKept, ShiftKept
<1>8. x < k /\ k /= x
  BY <1>1, <1>4
<1>9. Inner(B, u, k) => Inner(A, w, k)
  BY <1>7, <1>8
<1>10. Count(B, d) >= MinDegree
  BY <1>2, <1>7 DEF n
<1>11. BelowKept(A, B, root, w, u, p, d, k)
  <2>1. w.height[p] = w.height[d] + 1 /\ u.lo[d] < k /\ k < u.hi[d] /\ u.pages \subseteq w.pages /\ d \in u.pages
    BY <1>1, <1>7, <1>8
  <2> QED BY <2>1, <1>1, <1>7, <1>9, <1>10, Zenon DEF BelowKept
<1> QED BY <1>7, <1>11, Zenon DEF BelowAt

LEMMA FromRightKeeps ==
  ASSUME NEW A, NEW B, NEW root, NEW w, Shape(A, root, w), Sized(A, root, w), NEW p \in w.pages, NEW i, NEW c, NEW d,
         Pair(A, root, w, p, i, c, d),
         LentLeft(A, B, p, i, c, d), p \in DOMAIN B, c \in DOMAIN B, d \in DOMAIN B,
         \A q \in w.pages \ {p, c, d} : q \in DOMAIN B /\ B[q] = A[q],
         Count(A, d) >= MinDegree, Count(A, c) < MinDegree,
         NEW k \in Int, w.lo[c] < k, k < w.hi[c]
  PROVE  \E u : BelowAt(A, B, root, w, u, p, c, k)
<1> DEFINE x == KeyAt(A, d, 1)
           m == Count(A, c) + 1
           n == Count(A, d) - 1
<1>1. /\ c \in w.pages /\ d \in w.pages /\ d /= root /\ c /= root
      /\ w.hi[c] = w.lo[d] /\ w.lo[c] \in Int /\ w.hi[c] \in Int
      /\ w.height[p] = w.height[c] + 1 /\ w.height[d] = w.height[c]
      /\ Count(A, c) \in Nat /\ Count(A, d) \in Nat
  BY Zenon DEF Pair
<1>2. /\ Count(A, d) - 1 <= MaxKeys /\ Count(A, c) < MaxKeys /\ Count(A, c) >= MinDegree - 1
      /\ 1 \in 1 .. Count(A, d) /\ Count(A, c) + 1 >= MinDegree
  BY <1>1, Numbers DEF Sized
<1>3. \A q \in w.pages \ {c, d} : SizedAt(A, root, q)
  BY DEF Sized, SizedAt
<1>4. x \in Int /\ w.lo[d] < x
  BY <1>2 DEF Pair
<1>5. \E u : LentKept(A, B, root, w, u, p, c, d, x, Count(A, c) + 1, Count(A, d) - 1)
  <2>1. x = KeyAt(A, d, 1)
    OBVIOUS
  <2> HIDE DEF x
  <2> QED BY <2>1, <1>2, <1>3, LendLeftKeeps
<1>6. PICK u : LentKept(A, B, root, w, u, p, c, d, x, m, n)
  BY <1>5
<1> HIDE DEF x, m, n
<1>7. /\ Moved(A, B, root, w, u, p) /\ u.pages = w.pages /\ u.lo[c] = w.lo[c] /\ u.hi[c] = x
      /\ \A y : Inner(B, u, y) => Inner(A, w, y) \/ y = x
      /\ Count(B, p) = Count(A, p) /\ Count(B, c) = m
  BY <1>6, Zenon DEF LentKept, ShiftKept
<1>8. k < x /\ k /= x
  BY <1>1, <1>4
<1>9. Inner(B, u, k) => Inner(A, w, k)
  BY <1>7, <1>8
<1>10. Count(B, c) >= MinDegree
  BY <1>2, <1>7 DEF m
<1>11. BelowKept(A, B, root, w, u, p, c, k)
  <2>1. w.height[p] = w.height[c] + 1 /\ u.lo[c] < k /\ k < u.hi[c] /\ u.pages \subseteq w.pages /\ c \in u.pages
    BY <1>1, <1>7, <1>8
  <2> QED BY <2>1, <1>1, <1>7, <1>9, <1>10, Zenon DEF BelowKept
<1> QED BY <1>7, <1>11, Zenon DEF BelowAt

(* Neither can lend: they become one node. *)
LEMMA MergeKeeps ==
  ASSUME NEW A, NEW B, NEW root, NEW w, Shape(A, root, w), Sized(A, root, w), NEW p \in w.pages, NEW i, NEW c, NEW d,
         Pair(A, root, w, p, i, c, d), Joins(B, A, p, i, c, d),
         \A q \in w.pages \ {p, c, d} : q \in DOMAIN B /\ B[q] = A[q],
         Count(A, c) < MinDegree, Count(A, d) < MinDegree, p = root \/ Count(A, p) >= MinDegree,
         NEW k \in Int, w.lo[c] < k, k < w.hi[d]
  PROVE  \E u : BelowLess(A, B, root, w, u, p, c, k, d)
<1> DEFINE x == KeyAt(A, p, i)
           u == JoinPlaces(w, c, d)
<1>1. /\ Siblings(A, p, i, c, d) /\ c \in w.pages /\ d \in w.pages /\ d /= root /\ c /= root
      /\ p /= c /\ p /= d /\ c /= d
      /\ w.height[p] = w.height[c] + 1 /\ w.height[d] = w.height[c]
      /\ Count(A, c) \in Nat /\ Count(A, d) \in Nat /\ Count(A, p) \in Nat
  BY Zenon DEF Pair
<1>2. Count(A, c) = MinDegree - 1 /\ Count(A, d) = MinDegree - 1
  BY <1>1, Numbers DEF Sized
<1>3. CutDone(B, A, root, u, w, x, c, d)
  <2>1. x = KeyAt(A, p, i) /\ u = JoinPlaces(w, c, d)
    OBVIOUS
  <2> HIDE DEF x, u
  <2> QED BY <2>1, <1>1, DoMerge
<1>4. u.pages = w.pages \ {d}
  BY DEF JoinPlaces
<1> HIDE DEF x, u
<1>5. /\ Shape(B, root, u) /\ PlacesCut(u, w, x, c, d) /\ SameHeld(B, u, A, w)
      /\ \A y : Inner(B, u, y) => Inner(A, w, y)
  BY <1>3, Zenon DEF CutDone
<1>6. /\ p \in u.pages /\ c \in u.pages /\ u.lo[p] = w.lo[p] /\ u.hi[p] = w.hi[p]
      /\ \A q \in u.pages : u.height[q] = w.height[q]
      /\ u.lo[c] = w.lo[c] /\ u.hi[c] = w.hi[d]
  BY <1>1, <1>4, <1>5 DEF PlacesCut
<1>7. Count(B, p) = Count(A, p) - 1
  <2>1. B[p] = LessNode(A[p], i)
    BY DEF Joins
  <2>2. A[p] \in Nodes /\ i \in 1 .. Len(A[p].items) /\ Len(A[p].kids) = Len(A[p].items) + 1
    BY <1>1 DEF Siblings, Count, KidCount
  <2>3. Len(LessNode(A[p], i).items) = Len(A[p].items) - 1
    BY <2>2, LessNodeIs
  <2> QED BY <2>1, <2>3 DEF Count
<1>8. Count(B, c) = MinDegree + MinDegree - 1
  <2>1. B[c] = JoinedNode(A[c], A[p].items[i], A[d])
    BY DEF Joins
  <2> DEFINE it == A[p].items[i]
             a == A[c]
             b == A[d]
             m == Len(a.items) + 1
  <2>2. a \in Nodes /\ b \in Nodes /\ it \in Item /\ m = Len(a.items) + 1
    BY <1>1, SiblingSeqs DEF Siblings
  <2>3. Len(a.items) = MinDegree - 1 /\ Len(b.items) = MinDegree - 1
    BY <1>2 DEF Count
  <2> HIDE DEF it, a, b, m
  <2>4. JoinedTo(JoinedNode(a, it, b), a, it, b, m)
    BY <2>2, JoinedNodeIs
  <2>5. Len(JoinedNode(a, it, b).items) = Len(a.items) + Len(b.items) + 1
    BY <2>4, Zenon DEF JoinedTo
  <2>6. Count(B, c) = Len(JoinedNode(a, it, b).items)
    BY <2>1, Zenon DEF Count, a, b, it
  <2> QED BY <2>3, <2>5, <2>6, Numbers
<1>9. Sized(B, root, u)
  <2> SUFFICES ASSUME NEW q \in u.pages PROVE SizedAt(B, root, q)
    BY Zenon DEF Sized, SizedAt
  <2>1. CASE q = p
    BY <2>1, <1>1, <1>7, Numbers DEF Sized, SizedAt
  <2>2. CASE q = c
    BY <2>2, <1>8, Numbers DEF SizedAt
  <2>3. CASE q \notin {p, c}
    <3>1. q \in w.pages /\ Count(B, q) = Count(A, q)
      BY <2>3, <1>4 DEF Count
    <3> QED BY <3>1 DEF Sized, SizedAt
  <2> QED BY <2>1, <2>2, <2>3
<1>10. Moved(A, B, root, w, u, p)
  <2>1. SameHeld(A, w, B, u)
    BY <1>5, Zenon DEF SameHeld
  <2> QED BY <2>1, <1>5, <1>6, <1>9 DEF Moved
<1>11. BelowKept(A, B, root, w, u, p, c, k)
  <2>1. u.pages \subseteq w.pages /\ u.lo[c] < k /\ k < u.hi[c] /\ Count(B, c) >= MinDegree
    BY <1>4, <1>6, <1>8, Numbers
  <2> QED BY <2>1, <1>1, <1>5, <1>6, <1>10, Zenon DEF BelowKept
<1> QED BY <1>4, <1>7, <1>11 DEF BelowLess

(* An item leaves a leaf. *)
LEMMA RemovedIs ==
  ASSUME NEW S, NEW s \in Seq(S), NEW i \in 1 .. Len(s)
  PROVE  Inserted(S, s, RemoveAt(s, i), i, s[i]) /\ RemoveAt(s, i) \in Seq(S) /\ Len(RemoveAt(s, i)) = Len(s) - 1
<1> DEFINE r == RemoveAt(s, i)
<1>1. r \in Seq(S) /\ Len(r) = Len(s) - 1 /\ \A j \in 1 .. Len(s) - 1 : r[j] = s[IF j < i THEN j ELSE j + 1]
  BY RemoveIs
<1>2. Len(s) \in Nat /\ Len(s) = Len(r) + 1
  BY <1>1
<1> HIDE DEF r
<1>3. \A j \in 1 .. Len(r) : r[j] = s[IF j < i THEN j ELSE j + 1]
  BY <1>1, <1>2
<1>4. Inserted(S, s, r, i, s[i])
  BY <1>2, <1>3 DEF Inserted
<1> QED BY <1>1, <1>4 DEF r

LEMMA LeafGone ==
  ASSUME NEW A, NEW B, NEW root, NEW w, Shape(A, root, w), Sized(A, root, w), NEW p \in w.pages, w.height[p] = 0,
         NEW i \in 1 .. Count(A, p), NEW it, it = ItemAt(A, p, i),
         p \in DOMAIN B, B[p] = Node(TRUE, RemoveAt(A[p].items, i), <<>>),
         \A q \in w.pages \ {p} : q \in DOMAIN B /\ B[q] = A[q],
         p = root \/ Count(A, p) >= MinDegree
  PROVE  Without(A, B, root, w, it) /\ Sized(B, root, w)
<1> DEFINE s == A[p].items
           r == RemoveAt(s, i)
<1>1. A[p] \in Nodes /\ s \in Seq(Item) /\ Count(A, p) \in Nat
  <2>1. NodesOK(A, w)
    BY Zenon DEF Shape
  <2> QED BY <2>1, NodeFacts, NodeSeqs
<1>2. Inserted(Item, s, r, i, s[i]) /\ r \in Seq(Item) /\ Len(r) = Len(s) - 1
  <2>1. i \in 1 .. Len(s) /\ s \in Seq(Item)
    BY <1>1 DEF Count
  <2> HIDE DEF s
  <2> QED BY <2>1, RemovedIs
<1>3. B[p] = Node(TRUE, r, <<>>)
  OBVIOUS
<1> HIDE DEF r
<1>4. IsNode(B[p], TRUE, r, <<>>)
  <2>1. <<>> \in Seq(Nat)
    OBVIOUS
  <2> QED BY <2>1, <1>2, <1>3, NodeOf
<1>5. /\ B[p] \in Nodes /\ B[p].leaf = TRUE /\ B[p].items = r /\ B[p].kids = <<>>
  BY <1>4, Zenon DEF IsNode
<1>6. KidCount(B, p) = 0 /\ Count(B, p) = Count(A, p) - 1
  BY <1>1, <1>2, <1>5, EmptySeq DEF KidCount, Count
<1>7. Wider(B, A, p, i, it)
  <2>1. Count(A, p) = Count(B, p) + 1
    BY <1>1, <1>6
  <2>2. \A j \in 1 .. Count(B, p) : ItemAt(B, p, j) = ItemAt(A, p, IF j < i THEN j ELSE j + 1)
    BY <1>2, <1>5 DEF Inserted, Count, ItemAt
  <2> QED BY <2>1, <2>2 DEF Wider
<1>8. OnlyAt(A, B, w, p)
  BY <1>5 DEF OnlyAt
<1>9. B[p].leaf = TRUE /\ KidCount(B, p) = 0
  BY <1>5, <1>6
<1>10. Without(A, B, root, w, it)
  BY <1>7, <1>8, <1>9, LeafRemove
<1>11. Sized(B, root, w)
  <2> SUFFICES ASSUME NEW q \in w.pages PROVE SizedAt(B, root, q)
    BY Zenon DEF Sized, SizedAt
  <2>1. CASE q = p
    BY <2>1, <1>1, <1>6, Numbers DEF Sized, SizedAt
  <2>2. CASE q /= p
    BY <2>2 DEF Sized, SizedAt, Count
  <2> QED BY <2>1, <2>2
<1> QED BY <1>10, <1>11

(* Two items of a tree have two keys. *)
LEMMA OneItem ==
  ASSUME NEW A, NEW root, NEW w, Shape(A, root, w), NEW x, NEW y, Held(A, w, x), Held(A, w, y), x[1] = y[1]
  PROVE  x = y
<1>a. PICK p \in w.pages : \E i \in 1 .. Count(A, p) : ItemAt(A, p, i) = x
  BY DEF Held
<1>1. PICK i \in 1 .. Count(A, p) : ItemAt(A, p, i) = x
  BY <1>a
<1>b. PICK q \in w.pages : \E j \in 1 .. Count(A, q) : ItemAt(A, q, j) = y
  BY DEF Held
<1>2. PICK j \in 1 .. Count(A, q) : ItemAt(A, q, j) = y
  BY <1>b
<1>3. KeyAt(A, p, i) = KeyAt(A, q, j)
  BY <1>1, <1>2 DEF KeyAt
<1>4. p = q /\ i = j
  BY <1>3, OneHolder
<1> QED BY <1>1, <1>2, <1>4

-----------------------------------------------------------------------------
(* The loan: the item that is to go has been replaced by its neighbour e,  *)
(* which then goes from the leaf it was in.  M is the tree without the     *)
(* loan.                                                                   *)
LentTo(M, V, w, top, place, k, e) ==
  /\ top \in w.pages /\ place \in 1 .. Count(M, top) /\ KeyAt(M, top, place) = k
  /\ top \in DOMAIN V /\ V[top] = Node(M[top].leaf, [M[top].items EXCEPT ![place] = e], M[top].kids)
  /\ \A q \in w.pages \ {top} : q \in DOMAIN V /\ V[q] = M[q]

LoanOver(M, B, root, w, v, old) ==
  /\ Shape(B, root, v) /\ Sized(B, root, v) /\ v.pages = w.pages
  /\ \A x : Held(B, v, x) <=> Held(M, w, x) /\ x /= old

(* The top of the loan. *)
TopIs(H, B, top, place, k, e, s) ==
  /\ B[top] \in Nodes /\ B[top].leaf = H[top].leaf /\ Count(B, top) = Count(H, top) /\ KidCount(B, top) = KidCount(H, top)
  /\ ItemAt(B, top, place) = e
  /\ \A j \in 1 .. Count(H, top) : j /= place => ItemAt(B, top, j) = ItemAt(H, top, j)
  /\ \A j \in 1 .. KidCount(H, top) : KidAt(B, top, j) = KidAt(H, top, j)

LEMMA TopChanged ==
  ASSUME NEW H, NEW B, NEW top, NEW place \in 1 .. Count(H, top), NEW k, NEW e \in Item, NEW s, H[top] \in Nodes,
         B[top] = Node(H[top].leaf, [H[top].items EXCEPT ![place] = e], H[top].kids)
  PROVE  TopIs(H, B, top, place, k, e, s)
<1> DEFINE h == H[top].items
           r == [h EXCEPT ![place] = e]
<1>1. h \in Seq(Item) /\ H[top].leaf \in BOOLEAN /\ H[top].kids \in Seq(Nat) /\ place \in 1 .. Len(h)
  BY NodeSeqs DEF Count
<1>2. r \in Seq(Item) /\ Len(r) = Len(h) /\ r[place] = e /\ \A j \in 1 .. Len(h) : j /= place => r[j] = h[j]
  <2> HIDE DEF h
  <2> QED BY <1>1
<1>3. B[top] = Node(H[top].leaf, r, H[top].kids)
  OBVIOUS
<1> HIDE DEF r
<1>4. IsNode(B[top], H[top].leaf, r, H[top].kids)
  BY <1>1, <1>2, <1>3, NodeOf
<1>5. B[top] \in Nodes /\ B[top].leaf = H[top].leaf /\ B[top].items = r /\ B[top].kids = H[top].kids
  BY <1>4, Zenon DEF IsNode
<1> QED BY <1>2, <1>5 DEF TopIs, Count, KidCount, ItemAt, KidAt

(* B is H but for the item of top at place. *)
ForOld(H, w, B, v, old, e) == \A x : Held(B, v, x) <=> (Held(H, w, x) /\ x /= old) \/ x = e

LEMMA Reheld ==
  ASSUME NEW H, NEW B, NEW root, NEW w, Shape(H, root, w), NEW top \in w.pages, NEW place \in 1 .. Count(H, top),
         NEW old, old = ItemAt(H, top, place), NEW k, k = old[1], NEW e, NEW s, TopIs(H, B, top, place, k, e, s),
         \A q \in w.pages \ {top} : B[q] = H[q], NEW v, v.pages = w.pages
  PROVE  ForOld(H, w, B, v, old, e)
<1>1. /\ Count(B, top) = Count(H, top) /\ ItemAt(B, top, place) = e
      /\ \A j \in 1 .. Count(H, top) : j /= place => ItemAt(B, top, j) = ItemAt(H, top, j)
  BY Zenon DEF TopIs
<1>2. KeyAt(H, top, place) = k
  BY DEF KeyAt
<1>3. ASSUME NEW x, Held(B, v, x), x /= e PROVE Held(H, w, x) /\ x /= old
  <2>1. PICK q \in w.pages : \E j \in 1 .. Count(B, q) : ItemAt(B, q, j) = x
    BY <1>3 DEF Held
  <2>2. PICK j \in 1 .. Count(B, q) : ItemAt(B, q, j) = x
    BY <2>1
  <2>3. CASE q = top
    <3>1. j \in 1 .. Count(H, top) /\ j /= place /\ ItemAt(H, top, j) = x
      BY <1>1, <1>3, <2>2, <2>3
    <3>2. x /= old
      <4>1. x = old => KeyAt(H, top, j) = KeyAt(H, top, place)
        BY <3>1 DEF KeyAt
      <4> QED BY <3>1, <4>1, OneHolder
    <3> QED BY <3>1, <3>2 DEF Held
  <2>4. CASE q /= top
    <3>1. j \in 1 .. Count(H, q) /\ ItemAt(H, q, j) = x
      BY <2>2, <2>4, Others
    <3>2. x /= old
      <4>1. x = old => KeyAt(H, q, j) = KeyAt(H, top, place)
        BY <3>1 DEF KeyAt
      <4> QED BY <2>4, <3>1, <4>1, OneHolder
    <3> QED BY <3>1, <3>2 DEF Held
  <2> QED BY <2>3, <2>4
<1>4. ASSUME NEW x, Held(H, w, x), x /= old PROVE Held(B, v, x)
  <2>1. PICK q \in w.pages : \E j \in 1 .. Count(H, q) : ItemAt(H, q, j) = x
    BY <1>4 DEF Held
  <2>2. PICK j \in 1 .. Count(H, q) : ItemAt(H, q, j) = x
    BY <2>1
  <2>3. CASE q = top
    <3>1. j \in 1 .. Count(B, top) /\ j /= place /\ ItemAt(B, top, j) = x
      BY <1>1, <1>4, <2>2, <2>3
    <3> QED BY <3>1 DEF Held
  <2>4. CASE q /= top
    <3>1. j \in 1 .. Count(B, q) /\ ItemAt(B, q, j) = x
      BY <2>2, <2>4, Others
    <3> QED BY <3>1 DEF Held
  <2> QED BY <2>3, <2>4
<1>5. Held(B, v, e)
  BY <1>1 DEF Held
<1> QED BY <1>3, <1>4, <1>5 DEF ForOld

(* Keys of a tree in which no key but k takes another value. *)
LEMMA TopRelabelled ==
  ASSUME NEW H, NEW B, NEW root, NEW w, Shape(H, root, w), NEW top \in w.pages, NEW place \in 1 .. Count(H, top),
         NEW k, k = KeyAt(H, top, place), NEW e \in Item, NEW s, s = e[1], TopIs(H, B, top, place, k, e, s),
         top \in DOMAIN B, \A q \in w.pages \ {top} : q \in DOMAIN B /\ B[q] = H[q], NEW q \in w.pages
  PROVE  Relabelled(H, B, q, k, s)
<1>1. CASE q = top
  <2>1. /\ B[top] \in Nodes /\ B[top].leaf = H[top].leaf /\ Count(B, top) = Count(H, top) /\ KidCount(B, top) = KidCount(H, top)
        /\ ItemAt(B, top, place) = e
        /\ \A j \in 1 .. Count(H, top) : j /= place => ItemAt(B, top, j) = ItemAt(H, top, j)
        /\ \A j \in 1 .. KidCount(H, top) : KidAt(B, top, j) = KidAt(H, top, j)
    BY Zenon DEF TopIs
  <2>2. \A j \in 1 .. Count(H, top) : KeyAt(B, top, j) = Rel(KeyAt(H, top, j), k, s)
    <3> SUFFICES ASSUME NEW j \in 1 .. Count(H, top) PROVE KeyAt(B, top, j) = Rel(KeyAt(H, top, j), k, s)
      OBVIOUS
    <3>1. CASE j = place
      BY <3>1, <2>1 DEF KeyAt, Rel
    <3>2. CASE j /= place
      <4>1. KeyAt(H, top, j) /= k
        BY <3>2, OneHolder
      <4>2. KeyAt(B, top, j) = KeyAt(H, top, j)
        BY <3>2, <2>1 DEF KeyAt
      <4> QED BY <4>1, <4>2 DEF Rel
    <3> QED BY <3>1, <3>2
  <2> QED BY <1>1, <2>1, <2>2 DEF Relabelled
<1>2. CASE q /= top
  <2>1. q \in DOMAIN B /\ B[q] = H[q] /\ H[q] \in Nodes
    BY <1>2 DEF Shape, NodesOK
  <2>2. \A j \in 1 .. Count(H, q) : KeyAt(H, q, j) /= k
    BY <1>2, OneHolder
  <2>3. /\ Count(B, q) = Count(H, q) /\ KidCount(B, q) = KidCount(H, q)
        /\ \A j : KeyAt(B, q, j) = KeyAt(H, q, j) /\ KidAt(B, q, j) = KidAt(H, q, j)
    BY <2>1, Others
  <2>4. \A j \in 1 .. Count(H, q) : KeyAt(B, q, j) = Rel(KeyAt(H, q, j), k, s)
    BY <2>2, <2>3 DEF Rel
  <2> QED BY <2>1, <2>3, <2>4, Zenon DEF Relabelled
<1> QED BY <1>1, <1>2

Between(x, s, k) == (s < x /\ x < k) \/ (k < x /\ x < s)

LEMMA LoanEnds ==
  ASSUME NEW M, NEW V, NEW B, NEW root, NEW w, Shape(M, root, w), Sized(M, root, w), NEW p \in w.pages, w.height[p] = 0,
         NEW i \in 1 .. Count(M, p), NEW e, e = ItemAt(M, p, i), NEW s, s = e[1],
         NEW k, w.lo[p] = k \/ w.hi[p] = k, NEW top, NEW place, LentTo(M, V, w, top, place, k, e), p /= top,
         p \in DOMAIN B, B[p] = Node(TRUE, RemoveAt(V[p].items, i), <<>>),
         \A q \in w.pages \ {p} : q \in DOMAIN B /\ B[q] = V[q],
         p = root \/ Count(M, p) >= MinDegree,
         \A x : Held(M, w, x) => ~Between(x[1], s, k),
         NEW old, old = ItemAt(M, top, place)
  PROVE  \E v : LoanOver(M, B, root, w, v, old)
<1> DEFINE H == [q \in DOMAIN M |-> IF q = p THEN B[p] ELSE M[q]]
<1>1. /\ top \in w.pages /\ place \in 1 .. Count(M, top) /\ KeyAt(M, top, place) = k
      /\ V[p] = M[p] /\ V[top] = Node(M[top].leaf, [M[top].items EXCEPT ![place] = e], M[top].kids)
      /\ \A q \in w.pages \ {top} : V[q] = M[q]
  BY DEF LentTo
<1>2. NodesOK(M, w) /\ \A q \in w.pages : q \in DOMAIN M
  BY DEF Shape, NodesOK
<1>3. /\ p \in DOMAIN H /\ H[p] = Node(TRUE, RemoveAt(M[p].items, i), <<>>) /\ H[p] = B[p]
      /\ \A q \in w.pages \ {p} : q \in DOMAIN H /\ H[q] = M[q]
  BY <1>1, <1>2
<1> HIDE DEF H
<1>4. Without(M, H, root, w, e) /\ Sized(H, root, w)
  BY <1>3, LeafGone
<1>5. Shape(H, root, w) /\ \A x : Held(H, w, x) <=> Held(M, w, x) /\ x /= e
  BY <1>4, Zenon DEF Without
<1>6. Held(M, w, e) /\ e \in Item /\ s \in Int
  <2>1. Held(M, w, e)
    BY DEF Held
  <2>2. e \in Item
    BY <2>1, <1>2, HeldIsItem
  <2> QED BY <2>1, <2>2, KeyIsInt
<1>7. Held(M, w, old) /\ old[1] = k /\ k \in Int /\ 1 <= k /\ k <= KeyCount
  <2>1. Held(M, w, old)
    BY <1>1 DEF Held
  <2>2. old \in Item
    BY <2>1, <1>2, HeldIsItem
  <2>3. old[1] = k
    BY <1>1 DEF KeyAt
  <2> QED BY <2>1, <2>2, <2>3, KeyIsInt
<1>8. s /= k /\ e /= old
  <2>1. KeyAt(M, p, i) = s
    BY DEF KeyAt
  <2>2. s /= k
    BY <1>1, <2>1, OneHolder
  <2> QED BY <1>7, <2>2
<1>9. w.lo[p] < s /\ s < w.hi[p]
  BY DEF Shape, Ordered, KeyAt
<1>10. \A q \in w.pages : \A j \in 1 .. Count(H, q) :
         KeyAt(H, q, j) /= s /\ ~(s < KeyAt(H, q, j) /\ KeyAt(H, q, j) < k) /\ ~(k < KeyAt(H, q, j) /\ KeyAt(H, q, j) < s)
  <2> SUFFICES ASSUME NEW q \in w.pages, NEW j \in 1 .. Count(H, q)
               PROVE  KeyAt(H, q, j) /= s /\ ~(s < KeyAt(H, q, j) /\ KeyAt(H, q, j) < k) /\ ~(k < KeyAt(H, q, j) /\ KeyAt(H, q, j) < s)
    OBVIOUS
  <2> DEFINE x == ItemAt(H, q, j)
  <2>1. Held(H, w, x)
    BY DEF Held
  <2>2. Held(M, w, x) /\ x /= e
    BY <2>1, <1>5
  <2>3. x[1] /= s
    BY <2>2, <1>6, OneItem
  <2>4. ~Between(x[1], s, k)
    BY <2>2
  <2>5. KeyAt(H, q, j) = x[1]
    BY DEF KeyAt
  <2> HIDE DEF x
  <2> QED BY <2>3, <2>4, <2>5 DEF Between
<1>11. \A q \in w.pages : /\ KeepsOrder(w.lo[q], k, s) /\ KeepsOrder(w.hi[q], k, s)
                          /\ \A j \in 1 .. Count(H, q) : KeepsOrder(KeyAt(H, q, j), k, s)
  BY <1>5, <1>6, <1>7, <1>9, <1>10, ClearKeys
<1>12. H[top] = M[top] /\ Count(H, top) = Count(M, top) /\ H[top] \in Nodes /\ place \in 1 .. Count(H, top)
       /\ old = ItemAt(H, top, place) /\ k = KeyAt(H, top, place)
  <2>1. H[top] = M[top]
    BY <1>1, <1>3
  <2>2. H[top] \in Nodes
    BY <2>1, <1>1, <1>2, NodeFacts
  <2> QED BY <2>1, <2>2, <1>1 DEF Count, ItemAt, KeyAt
<1>13. TopIs(H, B, top, place, k, e, s)
  <2>1. B[top] = Node(H[top].leaf, [H[top].items EXCEPT ![place] = e], H[top].kids)
    BY <1>1, <1>12
  <2> QED BY <2>1, <1>6, <1>12, TopChanged
<1>14. top \in DOMAIN B /\ \A q \in w.pages \ {top} : q \in DOMAIN B /\ B[q] = H[q]
  BY <1>1, <1>3
<1>15. \A q \in w.pages : Relabelled(H, B, q, k, s)
  BY <1>1, <1>5, <1>6, <1>12, <1>13, <1>14, TopRelabelled
<1> DEFINE v == RelPlaces(w, k, s)
<1>16. Shape(B, root, v)
  <2>1. k /= 0 /\ k /= KeyCount + 1 /\ v = RelPlaces(w, k, s)
    BY <1>7, BTreeCallsAssumption
  <2> HIDE DEF v
  <2> QED BY <2>1, <1>5, <1>6, <1>7, <1>11, <1>15, Relabel
<1>17. v.pages = w.pages
  BY DEF RelPlaces
<1> HIDE DEF v
<1>18. Sized(B, root, v)
  BY <1>4, <1>15, <1>17 DEF Sized, Relabelled
<1>19. \A x : Held(B, v, x) <=> (Held(H, w, x) /\ x /= old) \/ x = e
  <2>1. \A q \in w.pages \ {top} : B[q] = H[q]
    BY <1>14
  <2>2. ForOld(H, w, B, v, old, e)
    BY <2>1, <1>1, <1>5, <1>7, <1>12, <1>13, <1>17, Reheld
  <2> QED BY <2>2, Zenon DEF ForOld
<1>20. \A x : Held(B, v, x) <=> Held(M, w, x) /\ x /= old
  BY <1>5, <1>6, <1>8, <1>19
<1>21. LoanOver(M, B, root, w, v, old)
  BY <1>16, <1>17, <1>18, <1>20, Zenon DEF LoanOver
<1> QED BY <1>21

-----------------------------------------------------------------------------
(* What is loaded and what is marked.                                      *)

IsTree(t) == t = [mem |-> t.mem, dirty |-> t.dirty, root |-> t.root, num |-> t.num, pages |-> t.pages]

(* m is h, with the values of g where g has one. *)
IsOver(m, g, h) ==
  /\ DOMAIN m = DOMAIN g \cup DOMAIN h
  /\ \A q \in DOMAIN m : m[q] = IF q \in DOMAIN g THEN g[q] ELSE h[q]

LEMMA OverIs ==
  ASSUME NEW g, NEW h, NEW m, m = g ++ h
  PROVE  IsOver(m, g, h)
BY DEF ++, IsOver

LEMMA ViewIs ==
  ASSUME NEW t, NEW f
  PROVE  IsOver(View(t, f), t.mem, f)
BY OverIs DEF View

LEMMA ViewAt ==
  ASSUME NEW t, NEW f, NEW q \in DOMAIN t.mem \cup DOMAIN f
  PROVE  View(t, f)[q] = IF q \in DOMAIN t.mem THEN t.mem[q] ELSE f[q]
<1> DEFINE v == View(t, f)
           m == t.mem
<1>1. IsOver(v, m, f)
  BY ViewIs
<1> HIDE DEF v, m
<1>2. q \in DOMAIN m \cup DOMAIN f
  BY DEF m
<1>3. v[q] = IF q \in DOMAIN m THEN m[q] ELSE f[q]
  BY <1>1, <1>2, Zenon DEF IsOver
<1> QED BY <1>3 DEF v, m

LEMMA ViewDomain ==
  ASSUME NEW t, NEW f
  PROVE  DOMAIN View(t, f) = DOMAIN t.mem \cup DOMAIN f
BY ViewIs DEF IsOver

LEMMA LoadedAt ==
  ASSUME NEW t, NEW f, NEW q \in DOMAIN t.mem
  PROVE  q \in DOMAIN View(t, f) /\ View(t, f)[q] = t.mem[q]
<1>1. q \in DOMAIN t.mem \cup DOMAIN f
  OBVIOUS
<1>2. q \in DOMAIN View(t, f)
  BY <1>1, ViewDomain
<1>3. View(t, f)[q] = IF q \in DOMAIN t.mem THEN t.mem[q] ELSE f[q]
  BY <1>1, ViewAt, Zenon
<1> QED BY <1>2, <1>3

(* The loaded part t of a tree whose pages are those of w, and the file f. *)
Kept(t, f, w) ==
  /\ IsTree(t) /\ t.pages \in Nat /\ w.pages \subseteq 0 .. t.pages - 1
  /\ DOMAIN t.mem \subseteq w.pages /\ t.dirty \subseteq DOMAIN t.mem
  /\ w.pages \subseteq DOMAIN View(t, f)
  /\ t.root \in DOMAIN t.mem
  /\ Hollow(t) => t.mem[t.root].kids[1] \in DOMAIN t.mem
  /\ \A q \in DOMAIN t.mem \ t.dirty : (q = t.root /\ Hollow(t)) \/ (q \in DOMAIN f /\ t.mem[q] = f[q])

LEMMA MemSet ==
  ASSUME NEW t, IsTree(t), NEW x
  PROVE  [t EXCEPT !.mem = x] = [mem |-> x, dirty |-> t.dirty, root |-> t.root, num |-> t.num, pages |-> t.pages]
<1>1. PICK a, b, c, d, e : t = [mem |-> a, dirty |-> b, root |-> c, num |-> d, pages |-> e]
  BY DEF IsTree
<1> QED BY <1>1

LEMMA BothSet ==
  ASSUME NEW t, IsTree(t), NEW x, NEW y
  PROVE  [t EXCEPT !.mem = x, !.dirty = y] = [mem |-> x, dirty |-> y, root |-> t.root, num |-> t.num, pages |-> t.pages]
<1> DEFINE g == [t EXCEPT !.mem = x]
<1>1. g = [mem |-> x, dirty |-> t.dirty, root |-> t.root, num |-> t.num, pages |-> t.pages]
  BY MemSet
<1> HIDE DEF g
<1>2. [g EXCEPT !.dirty = y] = [mem |-> x, dirty |-> y, root |-> t.root, num |-> t.num, pages |-> t.pages]
  BY <1>1
<1> QED BY <1>2 DEF g

LEMMA LoadIs ==
  ASSUME NEW t, IsTree(t), NEW f, NEW ps, NEW u, u = Load(t, f, ps)
  PROVE  /\ IsTree(u) /\ u.dirty = t.dirty /\ u.root = t.root /\ u.num = t.num /\ u.pages = t.pages
         /\ DOMAIN u.mem = DOMAIN t.mem \cup ps
         /\ \A q \in DOMAIN u.mem : u.mem[q] = IF q \in DOMAIN t.mem THEN t.mem[q] ELSE f[q]
<1> DEFINE l == [p \in ps \ DOMAIN t.mem |-> f[p]]
           m == t.mem ++ l
<1>1. u = [mem |-> m, dirty |-> t.dirty, root |-> t.root, num |-> t.num, pages |-> t.pages]
  <2>1. u = [t EXCEPT !.mem = m]
    BY DEF Load
  <2> HIDE DEF m
  <2> QED BY <2>1, MemSet
<1>2. /\ DOMAIN m = DOMAIN t.mem \cup ps
      /\ \A q \in DOMAIN m : m[q] = IF q \in DOMAIN t.mem THEN t.mem[q] ELSE f[q]
  <2>1. m = t.mem ++ l
    OBVIOUS
  <2>2. DOMAIN l = ps \ DOMAIN t.mem /\ \A q \in DOMAIN l : l[q] = f[q]
    OBVIOUS
  <2> HIDE DEF m, l
  <2>3. IsOver(m, t.mem, l)
    BY <2>1, OverIs
  <2> QED BY <2>2, <2>3 DEF IsOver
<1> HIDE DEF m
<1> QED BY <1>1, <1>2 DEF IsTree

(* u is t with some of its kids loaded. *)
Loads(t, u, f, w, ps) ==
  /\ Kept(u, f, w) /\ u.dirty = t.dirty /\ u.root = t.root /\ u.num = t.num /\ u.pages = t.pages
  /\ DOMAIN u.mem = DOMAIN t.mem \cup ps /\ Hollow(u) = Hollow(t)
  /\ \A q \in DOMAIN t.mem : u.mem[q] = t.mem[q]
  /\ \A q \in w.pages : View(u, f)[q] = View(t, f)[q]

LEMMA LoadKept ==
  ASSUME NEW t, NEW f, NEW w, Kept(t, f, w), NEW ps, ps \subseteq w.pages, NEW u, u = Load(t, f, ps)
  PROVE  Loads(t, u, f, w, ps)
<1>1. /\ IsTree(t) /\ t.pages \in Nat /\ w.pages \subseteq 0 .. t.pages - 1
      /\ DOMAIN t.mem \subseteq w.pages /\ t.dirty \subseteq DOMAIN t.mem
      /\ w.pages \subseteq DOMAIN View(t, f)
      /\ t.root \in DOMAIN t.mem
      /\ Hollow(t) => t.mem[t.root].kids[1] \in DOMAIN t.mem
      /\ \A q \in DOMAIN t.mem \ t.dirty : (q = t.root /\ Hollow(t)) \/ (q \in DOMAIN f /\ t.mem[q] = f[q])
  BY Zenon DEF Kept
<1>2. /\ IsTree(u) /\ u.dirty = t.dirty /\ u.root = t.root /\ u.num = t.num /\ u.pages = t.pages
      /\ DOMAIN u.mem = DOMAIN t.mem \cup ps
      /\ \A q \in DOMAIN u.mem : u.mem[q] = IF q \in DOMAIN t.mem THEN t.mem[q] ELSE f[q]
  BY <1>1, LoadIs
<1>3. Hollow(u) = Hollow(t)
  BY <1>1, <1>2 DEF Hollow
<1>4. DOMAIN View(u, f) = DOMAIN u.mem \cup DOMAIN f /\ DOMAIN View(t, f) = DOMAIN t.mem \cup DOMAIN f
  BY ViewDomain
<1>5. \A q \in w.pages : View(u, f)[q] = View(t, f)[q]
  BY <1>1, <1>2, <1>4, ViewAt
<1>6. \A q \in DOMAIN u.mem \ u.dirty : (q = u.root /\ Hollow(u)) \/ (q \in DOMAIN f /\ u.mem[q] = f[q])
  <2> SUFFICES ASSUME NEW q \in DOMAIN u.mem \ u.dirty
               PROVE  (q = u.root /\ Hollow(u)) \/ (q \in DOMAIN f /\ u.mem[q] = f[q])
    OBVIOUS
  <2>1. CASE q \in DOMAIN t.mem
    BY <2>1, <1>1, <1>2, <1>3
  <2>2. CASE q \notin DOMAIN t.mem
    BY <2>2, <1>1, <1>2, <1>4
  <2> QED BY <2>1, <2>2
<1>7. Kept(u, f, w)
  <2>1. DOMAIN u.mem \subseteq w.pages /\ w.pages \subseteq DOMAIN View(u, f) /\ u.dirty \subseteq DOMAIN u.mem
    BY <1>1, <1>2, <1>4
  <2>2. u.root \in DOMAIN u.mem /\ (Hollow(u) => u.mem[u.root].kids[1] \in DOMAIN u.mem)
    BY <1>1, <1>2, <1>3
  <2>3. u.pages \in Nat /\ w.pages \subseteq 0 .. u.pages - 1
    BY <1>1, <1>2
  <2> QED BY <2>1, <2>2, <2>3, <1>2, <1>6, Zenon DEF Kept
<1>8. \A q \in DOMAIN t.mem : u.mem[q] = t.mem[q]
  BY <1>2
<1> QED BY <1>2, <1>3, <1>5, <1>7, <1>8, Zenon DEF Loads

(* u is t with the nodes of ns in the place of its own. *)
ChangedTo(t, u, ns) ==
  /\ IsTree(u) /\ DOMAIN u.mem = DOMAIN ns \cup DOMAIN t.mem
  /\ \A q \in DOMAIN u.mem : u.mem[q] = IF q \in DOMAIN ns THEN ns[q] ELSE t.mem[q]
  /\ u.dirty = t.dirty \cup DOMAIN ns /\ u.root = t.root

LEMMA ChangeIs ==
  ASSUME NEW t, IsTree(t), NEW ns, NEW u, u = Change(t, ns)
  PROVE  ChangedTo(t, u, ns) /\ u.num = t.num /\ u.pages = t.pages
<1> DEFINE m == ns ++ t.mem
<1>1. u = [mem |-> m, dirty |-> t.dirty \cup DOMAIN ns, root |-> t.root, num |-> t.num, pages |-> t.pages]
  <2>1. u = [t EXCEPT !.mem = m, !.dirty = t.dirty \cup DOMAIN ns]
    BY DEF Change
  <2> HIDE DEF m
  <2> QED BY <2>1, BothSet
<1>2. /\ DOMAIN m = DOMAIN ns \cup DOMAIN t.mem
      /\ \A q \in DOMAIN m : m[q] = IF q \in DOMAIN ns THEN ns[q] ELSE t.mem[q]
  <2>1. m = ns ++ t.mem
    OBVIOUS
  <2> HIDE DEF m
  <2>2. IsOver(m, ns, t.mem)
    BY <2>1, OverIs
  <2> QED BY <2>2, Zenon DEF IsOver
<1> HIDE DEF m
<1> QED BY <1>1, <1>2 DEF IsTree, ChangedTo

LEMMA GrownIs ==
  ASSUME NEW t, IsTree(t), NEW ns, NEW u, u = Change([t EXCEPT !.pages = @ + 1], ns)
  PROVE  ChangedTo(t, u, ns) /\ u.num = t.num /\ u.pages = t.pages + 1
<1> DEFINE g == [t EXCEPT !.pages = @ + 1]
<1>1. /\ IsTree(g) /\ g.mem = t.mem /\ g.dirty = t.dirty /\ g.root = t.root /\ g.num = t.num /\ g.pages = t.pages + 1
  BY DEF IsTree
<1>2. u = Change(g, ns)
  OBVIOUS
<1> HIDE DEF g
<1>3. ChangedTo(g, u, ns) /\ u.num = g.num /\ u.pages = g.pages
  BY <1>1, <1>2, ChangeIs
<1> QED BY <1>1, <1>3 DEF ChangedTo

LEMMA CountedIs ==
  ASSUME NEW t, IsTree(t), NEW ns, NEW u, u = [Change(t, ns) EXCEPT !.num = @ + 1]
  PROVE  ChangedTo(t, u, ns) /\ u.num = t.num + 1 /\ u.pages = t.pages
<1> DEFINE g == Change(t, ns)
<1>1. ChangedTo(t, g, ns) /\ g.num = t.num /\ g.pages = t.pages
  <2>1. g = Change(t, ns)
    OBVIOUS
  <2> HIDE DEF g
  <2> QED BY <2>1, ChangeIs
<1>2. u = [g EXCEPT !.num = @ + 1]
  OBVIOUS
<1> HIDE DEF g
<1>3. /\ IsTree(u) /\ u.mem = g.mem /\ u.dirty = g.dirty /\ u.root = g.root /\ u.num = g.num + 1 /\ u.pages = g.pages
  <2>1. IsTree(g)
    BY <1>1 DEF ChangedTo
  <2> QED BY <2>1, <1>2 DEF IsTree
<1> QED BY <1>1, <1>3 DEF ChangedTo

IsHollow(n) == n.leaf = FALSE /\ n.items = <<>>

Changes(t, u, f, v, ns) ==
  /\ Kept(u, f, v)
  /\ \A q \in v.pages : View(u, f)[q] = IF q \in DOMAIN ns THEN ns[q] ELSE View(t, f)[q]
  /\ Hollow(u) => Hollow(t)

LEMMA ChangeKept ==
  ASSUME NEW t, NEW f, NEW w, Kept(t, f, w), NEW u, NEW ns, ChangedTo(t, u, ns),
         NEW v, v.pages \subseteq w.pages \cup DOMAIN ns, DOMAIN ns \subseteq v.pages, DOMAIN t.mem \subseteq v.pages,
         u.pages \in Nat, v.pages \subseteq 0 .. u.pages - 1,
         t.root \in DOMAIN ns => ~IsHollow(ns[t.root])
  PROVE  Changes(t, u, f, v, ns)
<1>1. /\ IsTree(t) /\ DOMAIN t.mem \subseteq w.pages /\ t.dirty \subseteq DOMAIN t.mem
      /\ w.pages \subseteq DOMAIN View(t, f)
      /\ t.root \in DOMAIN t.mem
      /\ Hollow(t) => t.mem[t.root].kids[1] \in DOMAIN t.mem
      /\ \A q \in DOMAIN t.mem \ t.dirty : (q = t.root /\ Hollow(t)) \/ (q \in DOMAIN f /\ t.mem[q] = f[q])
  BY Zenon DEF Kept
<1>2. /\ IsTree(u) /\ DOMAIN u.mem = DOMAIN ns \cup DOMAIN t.mem
      /\ \A q \in DOMAIN u.mem : u.mem[q] = IF q \in DOMAIN ns THEN ns[q] ELSE t.mem[q]
      /\ u.dirty = t.dirty \cup DOMAIN ns /\ u.root = t.root
  BY Zenon DEF ChangedTo
<1>3. Hollow(u) => Hollow(t) /\ t.root \notin DOMAIN ns /\ u.mem[u.root] = t.mem[t.root]
  BY <1>1, <1>2 DEF Hollow, IsHollow
<1>4. t.root \notin DOMAIN ns => (Hollow(t) <=> Hollow(u))
  BY <1>1, <1>2 DEF Hollow
<1>5. \A q \in DOMAIN u.mem \ u.dirty : (q = u.root /\ Hollow(u)) \/ (q \in DOMAIN f /\ u.mem[q] = f[q])
  <2> SUFFICES ASSUME NEW q \in DOMAIN u.mem \ u.dirty
               PROVE  (q = u.root /\ Hollow(u)) \/ (q \in DOMAIN f /\ u.mem[q] = f[q])
    OBVIOUS
  <2>1. q \notin DOMAIN ns /\ q \in DOMAIN t.mem \ t.dirty /\ u.mem[q] = t.mem[q]
    BY <1>2
  <2> QED BY <2>1, <1>1, <1>2, <1>4
<1>6. DOMAIN View(u, f) = DOMAIN u.mem \cup DOMAIN f /\ DOMAIN View(t, f) = DOMAIN t.mem \cup DOMAIN f
  BY ViewDomain
<1>7. v.pages \subseteq DOMAIN View(u, f)
  BY <1>1, <1>2, <1>6
<1>8. \A q \in v.pages : View(u, f)[q] = IF q \in DOMAIN ns THEN ns[q] ELSE View(t, f)[q]
  BY <1>1, <1>2, <1>6, <1>7, ViewAt
<1>9. Kept(u, f, v)
  <2>1. DOMAIN u.mem \subseteq v.pages /\ u.dirty \subseteq DOMAIN u.mem
    BY <1>1, <1>2
  <2>2. u.root \in DOMAIN u.mem /\ (Hollow(u) => u.mem[u.root].kids[1] \in DOMAIN u.mem)
    BY <1>1, <1>2, <1>3
  <2> QED BY <2>1, <2>2, <1>2, <1>5, <1>7, Zenon DEF Kept
<1>10. Hollow(u) => Hollow(t)
  BY <1>3
<1> QED BY <1>8, <1>9, <1>10, Zenon DEF Changes

(* B is A but for the nodes of ns. *)
Follow(A, B, S, ns) == \A q \in S : q \in DOMAIN B /\ B[q] = IF q \in DOMAIN ns THEN ns[q] ELSE A[q]

LEMMA ChangeFollows ==
  ASSUME NEW t, NEW f, NEW w, Kept(t, f, w), NEW u, NEW ns, ChangedTo(t, u, ns)
  PROVE  Follow(View(t, f), View(u, f), w.pages \cup DOMAIN ns, ns)
<1>1. w.pages \subseteq DOMAIN t.mem \cup DOMAIN f
  BY ViewDomain, Zenon DEF Kept
<1>2. /\ DOMAIN u.mem = DOMAIN ns \cup DOMAIN t.mem
      /\ \A q \in DOMAIN u.mem : u.mem[q] = IF q \in DOMAIN ns THEN ns[q] ELSE t.mem[q]
  BY Zenon DEF ChangedTo
<1> SUFFICES ASSUME NEW q \in w.pages \cup DOMAIN ns
             PROVE  q \in DOMAIN View(u, f) /\ View(u, f)[q] = IF q \in DOMAIN ns THEN ns[q] ELSE View(t, f)[q]
  BY Zenon DEF Follow
<1>3. q \in DOMAIN u.mem \cup DOMAIN f
  BY <1>1, <1>2
<1>4. q \in DOMAIN View(u, f)
  BY <1>3, ViewDomain
<1>5. View(u, f)[q] = IF q \in DOMAIN u.mem THEN u.mem[q] ELSE f[q]
  BY <1>3, ViewAt
<1>6. q \notin DOMAIN ns => View(t, f)[q] = IF q \in DOMAIN t.mem THEN t.mem[q] ELSE f[q]
  BY <1>1, ViewAt
<1> QED BY <1>2, <1>4, <1>5, <1>6

(* The nodes that an operation puts. *)
PutsOne(ns, p, a) == DOMAIN ns = {p} /\ ns[p] = a
PutsTwo(ns, p, a, c, b) == DOMAIN ns = {p, c} /\ ns[p] = a /\ ns[c] = b
PutsThree(ns, p, a, c, b, d, e) == DOMAIN ns = {p, c, d} /\ ns[p] = a /\ ns[c] = b /\ ns[d] = e
PutsFour(ns, p, a, c, b, d, e, q, g) == DOMAIN ns = {p, c, d, q} /\ ns[p] = a /\ ns[c] = b /\ ns[d] = e /\ ns[q] = g

LEMMA PutIs ==
  ASSUME NEW p, NEW a
  PROVE  PutsOne(Put(p, a), p, a)
BY DEF Put, PutsOne

LEMMA PutTwo ==
  ASSUME NEW p, NEW a, NEW c, NEW b, p /= c
  PROVE  PutsTwo(Put(p, a) ++ Put(c, b), p, a, c, b)
<1> DEFINE g == Put(p, a)
           h == Put(c, b)
           m == g ++ h
<1>1. PutsOne(g, p, a) /\ PutsOne(h, c, b) /\ IsOver(m, g, h)
  BY PutIs, OverIs
<1> HIDE DEF g, h, m
<1>2. PutsTwo(m, p, a, c, b)
  BY <1>1 DEF PutsOne, PutsTwo, IsOver
<1> QED BY <1>2 DEF m, g, h

LEMMA PutThree ==
  ASSUME NEW p, NEW a, NEW c, NEW b, NEW d, NEW e, p /= c, p /= d, c /= d
  PROVE  PutsThree(Put(p, a) ++ Put(c, b) ++ Put(d, e), p, a, c, b, d, e)
<1> DEFINE g == Put(p, a) ++ Put(c, b)
           h == Put(d, e)
           m == g ++ h
<1>1. PutsTwo(g, p, a, c, b) /\ PutsOne(h, d, e) /\ IsOver(m, g, h)
  BY PutTwo, PutIs, OverIs
<1> HIDE DEF g, h, m
<1>2. PutsThree(m, p, a, c, b, d, e)
  BY <1>1 DEF PutsOne, PutsTwo, PutsThree, IsOver
<1> QED BY <1>2 DEF m, g, h

LEMMA PutFour ==
  ASSUME NEW p, NEW a, NEW c, NEW b, NEW d, NEW e, NEW q, NEW o,
         p /= c, p /= d, p /= q, c /= d, c /= q, d /= q
  PROVE  PutsFour(Put(p, a) ++ Put(c, b) ++ Put(d, e) ++ Put(q, o), p, a, c, b, d, e, q, o)
<1> DEFINE g == Put(p, a) ++ Put(c, b) ++ Put(d, e)
           h == Put(q, o)
           m == g ++ h
<1>1. PutsThree(g, p, a, c, b, d, e) /\ PutsOne(h, q, o) /\ IsOver(m, g, h)
  BY PutThree, PutIs, OverIs
<1> HIDE DEF g, h, m
<1>2. PutsFour(m, p, a, c, b, d, e, q, o)
  BY <1>1 DEF PutsOne, PutsThree, PutsFour, IsOver
<1> QED BY <1>2 DEF m, g, h

ButAt(A, B, S, T) == \A q \in S \ T : q \in DOMAIN B /\ B[q] = A[q]

LEMMA FollowOne ==
  ASSUME NEW A, NEW B, NEW S, NEW ns, NEW p \in S, NEW a, Follow(A, B, S, ns), PutsOne(ns, p, a)
  PROVE  p \in DOMAIN B /\ B[p] = a /\ ButAt(A, B, S, {p})
BY DEF Follow, PutsOne, ButAt

LEMMA FollowTwo ==
  ASSUME NEW A, NEW B, NEW S, NEW ns, NEW p \in S, NEW a, NEW c \in S, NEW b, Follow(A, B, S, ns), PutsTwo(ns, p, a, c, b)
  PROVE  p \in DOMAIN B /\ B[p] = a /\ c \in DOMAIN B /\ B[c] = b /\ ButAt(A, B, S, {p, c})
BY DEF Follow, PutsTwo, ButAt

LEMMA FollowThree ==
  ASSUME NEW A, NEW B, NEW S, NEW ns, NEW p \in S, NEW a, NEW c \in S, NEW b, NEW d \in S, NEW e,
         Follow(A, B, S, ns), PutsThree(ns, p, a, c, b, d, e)
  PROVE  p \in DOMAIN B /\ B[p] = a /\ c \in DOMAIN B /\ B[c] = b /\ d \in DOMAIN B /\ B[d] = e /\ ButAt(A, B, S, {p, c, d})
BY DEF Follow, PutsThree, ButAt

LEMMA FollowFour ==
  ASSUME NEW A, NEW B, NEW S, NEW ns, NEW p \in S, NEW a, NEW c \in S, NEW b, NEW d \in S, NEW e, NEW q \in S, NEW g,
         Follow(A, B, S, ns), PutsFour(ns, p, a, c, b, d, e, q, g)
  PROVE  /\ p \in DOMAIN B /\ B[p] = a /\ c \in DOMAIN B /\ B[c] = b /\ d \in DOMAIN B /\ B[d] = e
         /\ q \in DOMAIN B /\ B[q] = g /\ ButAt(A, B, S, {p, c, d, q})
BY DEF Follow, PutsFour, ButAt

-----------------------------------------------------------------------------
(* The tree between two rounds.                                            *)

(* its are the items that are held. *)
Stock(A, w, its) == \A x : Held(A, w, x) <=> x \in its
Holding(A, root, w, its) == Shape(A, root, w) /\ Sized(A, root, w) /\ Stock(A, w, its)
Counted(t, its) == IsFiniteSet(its) /\ t.num = Cardinality(its)
Good(t, f, w, its) == Kept(t, f, w) /\ Holding(View(t, f), t.root, w, its) /\ Counted(t, its)

(* p is loaded, and k lies where it is. *)
Here(t, w, p, k) == p \in DOMAIN t.mem /\ w.lo[p] < k /\ k < w.hi[p]

LEMMA SameHolding ==
  ASSUME NEW A, NEW B, NEW root, NEW w, NEW its, Holding(A, root, w, its), \A q \in w.pages : q \in DOMAIN B /\ B[q] = A[q]
  PROVE  Holding(B, root, w, its)
<1>1. Shape(A, root, w) /\ Sized(A, root, w) /\ Stock(A, w, its)
  BY Zenon DEF Holding
<1>2. Shape(B, root, w) /\ (\A it : Held(B, w, it) <=> Held(A, w, it))
  BY <1>1, SameShape
<1>3. Sized(B, root, w)
  BY <1>1, Zenon DEF Sized, Count
<1>4. Stock(B, w, its)
  BY <1>1, <1>2, Zenon DEF Stock
<1> QED BY <1>2, <1>3, <1>4, Zenon DEF Holding

LEMMA LoadGood ==
  ASSUME NEW t, NEW f, NEW w, NEW its, Good(t, f, w, its), NEW ps, ps \subseteq w.pages, NEW u, u = Load(t, f, ps)
  PROVE  Good(u, f, w, its) /\ Loads(t, u, f, w, ps)
<1>1. Kept(t, f, w) /\ Holding(View(t, f), t.root, w, its) /\ Counted(t, its)
  BY Zenon DEF Good
<1>2. Loads(t, u, f, w, ps)
  BY <1>1, LoadKept
<1>3. Kept(u, f, w) /\ u.root = t.root /\ u.num = t.num /\ \A q \in w.pages : View(u, f)[q] = View(t, f)[q]
  BY <1>2, Zenon DEF Loads
<1>4. \A q \in w.pages : q \in DOMAIN View(u, f)
  BY <1>3, Zenon DEF Kept
<1>5. Holding(View(u, f), u.root, w, its)
  BY <1>1, <1>3, <1>4, SameHolding
<1>6. Counted(u, its)
  BY <1>1, <1>3, Zenon DEF Counted
<1> QED BY <1>2, <1>3, <1>5, <1>6, Zenon DEF Good

(* Node n of page p, in the tree A of w. *)
NodeSeen(A, w, p, n) ==
  /\ p \in w.pages /\ p \in Nat /\ p \in DOMAIN A /\ A[p] = n /\ n \in Nodes
  /\ Count(A, p) = Len(n.items) /\ KidCount(A, p) = Len(n.kids)
  /\ n.leaf = (w.height[p] = 0) /\ Len(n.kids) = IF n.leaf THEN 0 ELSE Len(n.items) + 1
  /\ Len(n.items) \in Nat /\ Len(n.items) <= MaxKeys

LEMMA SeenIn ==
  ASSUME NEW A, NEW root, NEW w, Shape(A, root, w), Sized(A, root, w), NEW p \in w.pages
  PROVE  NodeSeen(A, w, p, A[p])
<1>1. NodesOK(A, w) /\ Branching(A, w) /\ PlacesOK(w)
  BY Zenon DEF Shape
<1>2. p \in DOMAIN A /\ A[p] \in Nodes /\ Count(A, p) \in Nat
  BY <1>1, NodeFacts
<1>3. A[p].leaf = (w.height[p] = 0) /\ KidCount(A, p) = IF w.height[p] = 0 THEN 0 ELSE Count(A, p) + 1
  BY <1>1, Zenon DEF Branching
<1>4. Count(A, p) <= MaxKeys
  BY DEF Sized
<1>5. p \in Nat
  BY <1>1, PlacesAre
<1> QED BY <1>2, <1>3, <1>4, <1>5 DEF NodeSeen, Count, KidCount

LEMMA LoadedIn ==
  ASSUME NEW t, NEW f, NEW w, Kept(t, f, w), NEW p \in DOMAIN t.mem
  PROVE  p \in w.pages /\ View(t, f)[p] = t.mem[p]
BY LoadedAt, Zenon DEF Kept

LEMMA Seen ==
  ASSUME NEW t, NEW f, NEW w, NEW its, Good(t, f, w, its), NEW p \in DOMAIN t.mem
  PROVE  NodeSeen(View(t, f), w, p, t.mem[p])
<1>1. p \in w.pages /\ View(t, f)[p] = t.mem[p]
  BY LoadedIn, Zenon DEF Good
<1>2. NodeSeen(View(t, f), w, p, View(t, f)[p])
  BY <1>1, SeenIn, Zenon DEF Good, Holding
<1> QED BY <1>1, <1>2

(* The kid i, c, of p, where k is. *)
KidOn(A, root, w, p, i, c, k) ==
  /\ KidBelow(A, root, w, p, i, c) /\ i \in 1 .. KidCount(A, p) /\ w.lo[c] < k /\ k < w.hi[c]

LEMMA KidFor ==
  ASSUME NEW A, NEW root, NEW w, Shape(A, root, w), NEW p \in w.pages, A[p].leaf = FALSE, NEW k \in Int,
         w.lo[p] < k, k < w.hi[p], ~Holds(A[p].items, k), NEW i, i = Smaller(A[p].items, k) + 1, NEW c, c = A[p].kids[i]
  PROVE  KidOn(A, root, w, p, i, c, k)
<1> DEFINE m == Smaller(A[p].items, k)
<1>1. Located(A, p, k, m)
  BY Locate
<1>2. w.height[p] /= 0
  BY Zenon DEF Shape, Branching
<1>3. i \in 1 .. KidCount(A, p) /\ w.lo[KidAt(A, p, i)] < k /\ k < w.hi[KidAt(A, p, i)]
  <2> HIDE DEF m
  <2>1. m + 1 \in 1 .. KidCount(A, p) /\ w.lo[KidAt(A, p, m + 1)] < k /\ k < w.hi[KidAt(A, p, m + 1)]
    BY <1>1, <1>2, LocateKid
  <2> QED BY <2>1 DEF m
<1>4. KidBelow(A, root, w, p, i, KidAt(A, p, i))
  BY <1>3, KidIsBelow
<1>5. c = KidAt(A, p, i)
  BY DEF KidAt
<1> QED BY <1>3, <1>4, <1>5, Zenon DEF KidOn

(* In a leaf, or found: what the tree says of k. *)
LEMMA FoundIn ==
  ASSUME NEW A, NEW root, NEW w, NEW its, Holding(A, root, w, its), NEW p \in w.pages, NEW k \in Int,
         Holds(A[p].items, k), NEW i, i = Smaller(A[p].items, k) + 1
  PROVE  i \in 1 .. Count(A, p) /\ KeyAt(A, p, i) = k /\ ItemAt(A, p, i) \in its
<1> DEFINE m == Smaller(A[p].items, k)
<1>1. Located(A, p, k, m)
  BY Locate, Zenon DEF Holding
<1> HIDE DEF m
<1>2. m + 1 \in 1 .. Count(A, p) /\ KeyAt(A, p, m + 1) = k
  BY <1>1, Zenon DEF Located
<1>3. i \in 1 .. Count(A, p) /\ KeyAt(A, p, i) = k
  BY <1>2 DEF m
<1>4. Held(A, w, ItemAt(A, p, i))
  BY <1>3, Zenon DEF Held
<1>5. ItemAt(A, p, i) \in its
  BY <1>4, Zenon DEF Holding, Stock
<1> QED BY <1>3, <1>5

LEMMA NotIn ==
  ASSUME NEW A, NEW root, NEW w, NEW its, Holding(A, root, w, its), NEW p \in w.pages, A[p].leaf = TRUE, NEW k \in Int,
         ~Holds(A[p].items, k), w.lo[p] < k, k < w.hi[p], NEW x \in its
  PROVE  x[1] /= k
<1>1. Shape(A, root, w) /\ Held(A, w, x)
  BY Zenon DEF Holding, Stock
<1>2. w.height[p] = 0 /\ A[p] \in Nodes
  BY <1>1, Zenon DEF Shape, Branching, NodesOK
<1>3. PICK q \in w.pages : \E j \in 1 .. Count(A, q) : ItemAt(A, q, j) = x
  BY <1>1 DEF Held
<1>4. PICK j \in 1 .. Count(A, q) : ItemAt(A, q, j) = x
  BY <1>3
<1>5. ASSUME x[1] = k PROVE FALSE
  <2>1. KeyAt(A, q, j) = k
    BY <1>4, <1>5 DEF KeyAt
  <2>2. q = p
    BY <1>1, <1>2, <2>1, LeafHolder
  <2>3. j \in DOMAIN A[p].items /\ A[p].items[j][1] = k
    BY <1>2, <2>1, <2>2, NodeDomain DEF KeyAt, ItemAt
  <2> QED BY <2>3, Zenon DEF Holds
<1> QED BY <1>5

-----------------------------------------------------------------------------
(* insert, round by round                                                  *)

InsOn(o, f, its, k) ==
  /\ o.res = "on" /\ ~Hollow(o.tree)
  /\ \E v : Good(o.tree, f, v, its) /\ Here(o.tree, v, o.at, k) /\ ~Full(o.tree.mem[o.at])
InsNo(o, f, its, k) ==
  /\ o.res = "no" /\ ~Hollow(o.tree)
  /\ \E v : Good(o.tree, f, v, its)
  /\ \E x \in its : x[1] = k
InsYes(o, f, its, it, k) ==
  /\ o.res = "yes" /\ ~Hollow(o.tree)
  /\ \E v : Good(o.tree, f, v, its \cup {it})
  /\ \A x \in its : x[1] /= k
InsDone(o, f, its, it, k) == InsOn(o, f, its, k) \/ InsNo(o, f, its, k) \/ InsYes(o, f, its, it, k)

(* A round at p, where node n is. *)
Ins(t, f, w, its, p, it, k, n) ==
  /\ Good(t, f, w, its) /\ ~Hollow(t) /\ it \in Item /\ k = it[1] /\ k \in Int
  /\ Here(t, w, p, k) /\ n = t.mem[p] /\ ~Full(n)

LEMMA EndedIs ==
  ASSUME NEW t, NEW res, NEW o, o = Ended(t, res)
  PROVE  o.tree = t /\ o.res = res
BY DEF Ended

LEMMA OnIs ==
  ASSUME NEW t, NEW p, NEW o, o = On(t, p)
  PROVE  o.tree = t /\ o.res = "on" /\ o.at = p
BY DEF On

Widens(u, v, w, ns) ==
  /\ v.pages \subseteq w.pages \cup DOMAIN ns /\ w.pages \cup DOMAIN ns \subseteq v.pages
  /\ u.pages \in Nat /\ v.pages \subseteq 0 .. u.pages - 1

LEMMA ChangeGood ==
  ASSUME NEW t, NEW f, NEW w, Kept(t, f, w), NEW u, NEW ns, ChangedTo(t, u, ns),
         NEW v, Widens(u, v, w, ns), t.root \in DOMAIN ns => ~IsHollow(ns[t.root]),
         NEW its, Holding(View(u, f), t.root, v, its), Counted(u, its)
  PROVE  Good(u, f, v, its) /\ (~Hollow(t) => ~Hollow(u))
<1>1. DOMAIN t.mem \subseteq w.pages
  BY Zenon DEF Kept
<1>2. DOMAIN ns \subseteq v.pages /\ DOMAIN t.mem \subseteq v.pages /\ v.pages \subseteq w.pages \cup DOMAIN ns
      /\ u.pages \in Nat /\ v.pages \subseteq 0 .. u.pages - 1
  BY <1>1 DEF Widens
<1>3. Changes(t, u, f, v, ns)
  BY <1>2, ChangeKept
<1>4. Kept(u, f, v) /\ (Hollow(u) => Hollow(t))
  BY <1>3, Zenon DEF Changes
<1>5. u.root = t.root
  BY Zenon DEF ChangedTo
<1> QED BY <1>4, <1>5, Zenon DEF Good

LEMMA CountMore ==
  ASSUME NEW t, NEW its, Counted(t, its), NEW it, it \notin its, NEW u, u.num = t.num + 1
  PROVE  Counted(u, its \cup {it})
BY FS_AddElement DEF Counted

LEMMA AddGood ==
  ASSUME NEW t, NEW f, NEW w, NEW its, Good(t, f, w, its), ~Hollow(t), NEW ns, DOMAIN ns \subseteq w.pages,
         t.root \in DOMAIN ns => ~IsHollow(ns[t.root]),
         NEW u, u = [Change(t, ns) EXCEPT !.num = @ + 1], NEW it, NEW k, k = it[1], \A x \in its : x[1] /= k,
         \E v : AddKept(View(t, f), View(u, f), t.root, w, v, it)
  PROVE  ~Hollow(u) /\ \E v : Good(u, f, v, its \cup {it})
<1>1. Kept(t, f, w) /\ Holding(View(t, f), t.root, w, its) /\ Counted(t, its) /\ IsTree(t) /\ t.pages \in Nat
  BY Zenon DEF Good, Kept
<1>2. ChangedTo(t, u, ns) /\ u.num = t.num + 1 /\ u.pages = t.pages
  BY <1>1, CountedIs
<1>3. PICK v : AddKept(View(t, f), View(u, f), t.root, w, v, it)
  OBVIOUS
<1>4. /\ Shape(View(u, f), t.root, v) /\ Sized(View(u, f), t.root, v) /\ v.pages = w.pages
      /\ \A x : Held(View(u, f), v, x) <=> Held(View(t, f), w, x) \/ x = it
  BY <1>3, Zenon DEF AddKept
<1>5. Stock(View(u, f), v, its \cup {it})
  <2>1. \A x : Held(View(t, f), w, x) <=> x \in its
    BY <1>1, Zenon DEF Holding, Stock
  <2>2. \A x : Held(View(u, f), v, x) <=> x \in its \cup {it}
    BY <1>4, <2>1
  <2> QED BY <2>2, Zenon DEF Stock
<1>6. Holding(View(u, f), t.root, v, its \cup {it})
  BY <1>4, <1>5, Zenon DEF Holding
<1>7. it \notin its
  OBVIOUS
<1>8. Counted(u, its \cup {it})
  BY <1>1, <1>2, <1>7, CountMore
<1>9. Widens(u, v, w, ns)
  BY <1>1, <1>2, <1>4 DEF Kept, Widens
<1>10. Good(u, f, v, its \cup {it}) /\ (~Hollow(t) => ~Hollow(u))
  <2>1. Kept(t, f, w) /\ ChangedTo(t, u, ns)
    BY <1>1, <1>2
  <2> QED BY <2>1, <1>6, <1>8, <1>9, ChangeGood
<1> QED BY <1>10

LEMMA InsertFound ==
  ASSUME NEW t, NEW f, NEW w, NEW its, NEW p, NEW it, NEW k, NEW n, Ins(t, f, w, its, p, it, k, n),
         Holds(n.items, k), NEW o, o = Ended(t, "no")
  PROVE  InsNo(o, f, its, k)
<1>1. Good(t, f, w, its) /\ ~Hollow(t) /\ k \in Int /\ p \in DOMAIN t.mem /\ n = t.mem[p]
  BY Zenon DEF Ins, Here
<1>2. Kept(t, f, w) /\ Holding(View(t, f), t.root, w, its)
  BY <1>1, Zenon DEF Good
<1>3. p \in w.pages /\ View(t, f)[p] = n
  BY <1>1, <1>2, LoadedIn
<1>4. \E x \in its : x[1] = k
  <2> DEFINE A == View(t, f)
             i == Smaller(A[p].items, k) + 1
  <2>1. Holding(A, t.root, w, its) /\ Holds(A[p].items, k)
    BY <1>2, <1>3
  <2> HIDE DEF A
  <2>2. KeyAt(A, p, i) = k /\ ItemAt(A, p, i) \in its
    BY <1>1, <1>3, <2>1, FoundIn
  <2> QED BY <2>2, Zenon DEF KeyAt
<1>5. o.tree = t /\ o.res = "no"
  BY EndedIs
<1> QED BY <1>1, <1>4, <1>5, Zenon DEF InsNo

LEMMA InsertLeaf ==
  ASSUME NEW t, NEW f, NEW w, NEW its, NEW p, NEW it, NEW k, NEW n, Ins(t, f, w, its, p, it, k, n),
         ~Holds(n.items, k), n.leaf = TRUE, NEW i, i = Smaller(n.items, k) + 1,
         NEW o, o = Added(t, Put(p, [n EXCEPT !.items = InsertAt(@, i, it)]))
  PROVE  InsYes(o, f, its, it, k)
<1> DEFINE A == View(t, f)
           a == [n EXCEPT !.items = InsertAt(@, i, it)]
           ns == Put(p, a)
           u == [Change(t, ns) EXCEPT !.num = @ + 1]
           B == View(u, f)
<1>1. /\ Good(t, f, w, its) /\ ~Hollow(t) /\ k \in Int /\ it \in Item /\ k = it[1]
      /\ p \in DOMAIN t.mem /\ n = t.mem[p] /\ ~Full(n) /\ w.lo[p] < k /\ k < w.hi[p]
  BY Zenon DEF Ins, Here
<1>2. Kept(t, f, w) /\ Holding(A, t.root, w, its) /\ IsTree(t)
  BY <1>1, Zenon DEF Good, Kept
<1>3. NodeSeen(A, w, p, n)
  BY <1>1, Seen
<1>4. p \in w.pages /\ A[p] = n /\ n \in Nodes /\ w.height[p] = 0 /\ Count(A, p) = Len(n.items) /\ Len(n.items) \in Nat
  BY <1>3, Zenon DEF NodeSeen
<1>5. o.tree = u /\ o.res = "yes"
  <2>1. o = Ended(u, "yes")
    BY DEF Added
  <2> HIDE DEF u
  <2> QED BY <2>1, EndedIs
<1>6. PutsOne(ns, p, a)
  BY PutIs
<1>7. a = Node(TRUE, InsertAt(n.items, i, it), <<>>)
  <2>1. n.kids = <<>>
    <3>1. n.kids \in Seq(Nat) /\ Len(n.kids) = 0
      BY <1>3, NodeSeqs DEF NodeSeen
    <3> QED BY <3>1, EmptySeq
  <2>2. a = Node(n.leaf, InsertAt(n.items, i, it), n.kids)
    BY <1>4, ItemsChanged
  <2> QED BY <2>1, <2>2
<1> HIDE DEF a, ns
<1>8. ChangedTo(t, u, ns)
  <2>1. u = [Change(t, ns) EXCEPT !.num = @ + 1]
    OBVIOUS
  <2> HIDE DEF u
  <2> QED BY <1>2, <2>1, CountedIs
<1>9. Follow(A, B, w.pages \cup DOMAIN ns, ns)
  <2> HIDE DEF u
  <2> QED BY <1>2, <1>8, ChangeFollows
<1>u. u = [Change(t, ns) EXCEPT !.num = @ + 1] /\ B = View(u, f)
  OBVIOUS
<1> HIDE DEF u, B
<1>10. DOMAIN ns \subseteq w.pages /\ DOMAIN ns = {p} /\ ns[p] = a
  BY <1>4, <1>6 DEF PutsOne
<1>11. Follow(A, B, w.pages, ns)
  BY <1>9 DEF Follow
<1>12. p \in DOMAIN B /\ B[p] = a /\ ButAt(A, B, w.pages, {p})
  BY <1>4, <1>6, <1>11, FollowOne
<1>13. \A q \in w.pages \ {p} : q \in DOMAIN B /\ B[q] = A[q]
  BY <1>12, Zenon DEF ButAt
<1>14. AddKept(A, B, t.root, w, w, it)
  <2>1. Count(A, p) < MaxKeys
    BY <1>1, <1>4, BTreeAssumption DEF Full
  <2>2. Shape(A, t.root, w) /\ Sized(A, t.root, w)
    BY <1>2, Zenon DEF Holding
  <2>3. B[p] = Node(TRUE, InsertAt(A[p].items, i, it), <<>>) /\ ~Holds(A[p].items, k) /\ i = Smaller(A[p].items, k) + 1
    BY <1>4, <1>7, <1>12
  <2> HIDE DEF A
  <2> QED BY <1>1, <1>4, <1>12, <1>13, <2>1, <2>2, <2>3, LeafAdd
<1>15. \A x \in its : x[1] /= k
  <2>1. A[p].leaf = TRUE /\ ~Holds(A[p].items, k)
    BY <1>4
  <2>2. Holding(A, t.root, w, its) /\ p \in w.pages
    BY <1>2, <1>4
  <2> HIDE DEF A
  <2> SUFFICES ASSUME NEW x \in its PROVE x[1] /= k
    OBVIOUS
  <2> QED BY <1>1, <2>1, <2>2, NotIn
<1>16. t.root \in DOMAIN ns => ~IsHollow(ns[t.root])
  <2>1. a.leaf = TRUE
    BY <1>7 DEF Node
  <2> QED BY <1>10, <2>1 DEF IsHollow
<1>17. ~Hollow(u) /\ \E v : Good(u, f, v, its \cup {it})
  <2>1. \E v : AddKept(View(t, f), View(u, f), t.root, w, v, it)
    BY <1>14, <1>u
  <2> QED BY <1>1, <1>u, <1>10, <1>15, <1>16, <2>1, AddGood
<1> QED BY <1>5, <1>15, <1>17, Zenon DEF InsYes

AtTwo(A, B, S, p, a, c, b) ==
  /\ p \in DOMAIN B /\ B[p] = a /\ c \in DOMAIN B /\ B[c] = b
  /\ \A q \in S \ {p, c} : q \in DOMAIN B /\ B[q] = A[q]
AtThree(A, B, S, p, a, c, b, d, e) ==
  /\ p \in DOMAIN B /\ B[p] = a /\ c \in DOMAIN B /\ B[c] = b /\ d \in DOMAIN B /\ B[d] = e
  /\ \A q \in S \ {p, c, d} : q \in DOMAIN B /\ B[q] = A[q]
AtFour(A, B, S, p, a, c, b, d, e, x, g) ==
  /\ p \in DOMAIN B /\ B[p] = a /\ c \in DOMAIN B /\ B[c] = b /\ d \in DOMAIN B /\ B[d] = e
  /\ x \in DOMAIN B /\ B[x] = g
  /\ \A q \in S \ {p, c, d, x} : q \in DOMAIN B /\ B[q] = A[q]

LEMMA TwoPut ==
  ASSUME NEW t, NEW f, NEW w, Kept(t, f, w), NEW u, NEW ns, ChangedTo(t, u, ns),
         NEW p, NEW a, NEW c, NEW b, PutsTwo(ns, p, a, c, b)
  PROVE  AtTwo(View(t, f), View(u, f), w.pages, p, a, c, b)
<1> DEFINE A == View(t, f)
           B == View(u, f)
<1>1. Follow(A, B, w.pages \cup DOMAIN ns, ns)
  BY ChangeFollows
<1> HIDE DEF A, B
<1>2. AtTwo(A, B, w.pages, p, a, c, b)
  BY <1>1 DEF Follow, PutsTwo, AtTwo
<1> QED BY <1>2 DEF A, B

LEMMA ThreePut ==
  ASSUME NEW t, NEW f, NEW w, Kept(t, f, w), NEW u, NEW ns, ChangedTo(t, u, ns),
         NEW p, NEW a, NEW c, NEW b, NEW d, NEW e, PutsThree(ns, p, a, c, b, d, e)
  PROVE  AtThree(View(t, f), View(u, f), w.pages, p, a, c, b, d, e)
<1> DEFINE A == View(t, f)
           B == View(u, f)
<1>1. Follow(A, B, w.pages \cup DOMAIN ns, ns)
  BY ChangeFollows
<1> HIDE DEF A, B
<1>2. AtThree(A, B, w.pages, p, a, c, b, d, e)
  BY <1>1 DEF Follow, PutsThree, AtThree
<1> QED BY <1>2 DEF A, B

LEMMA FourPut ==
  ASSUME NEW t, NEW f, NEW w, Kept(t, f, w), NEW u, NEW ns, ChangedTo(t, u, ns),
         NEW p, NEW a, NEW c, NEW b, NEW d, NEW e, NEW x, NEW g, PutsFour(ns, p, a, c, b, d, e, x, g)
  PROVE  AtFour(View(t, f), View(u, f), w.pages, p, a, c, b, d, e, x, g)
<1> DEFINE A == View(t, f)
           B == View(u, f)
<1>1. Follow(A, B, w.pages \cup DOMAIN ns, ns)
  BY ChangeFollows
<1> HIDE DEF A, B
<1>2. AtFour(A, B, w.pages, p, a, c, b, d, e, x, g)
  BY <1>1 DEF Follow, PutsFour, AtFour
<1> QED BY <1>2 DEF A, B

LEMMA MovedGood ==
  ASSUME NEW t, NEW f, NEW w, NEW its, Good(t, f, w, its), ~Hollow(t), NEW u, NEW ns, ChangedTo(t, u, ns), u.num = t.num,
         NEW v, Widens(u, v, w, ns), t.root \in DOMAIN ns => ~IsHollow(ns[t.root]),
         NEW p, Moved(View(t, f), View(u, f), t.root, w, v, p)
  PROVE  Good(u, f, v, its) /\ ~Hollow(u)
<1>1. Kept(t, f, w) /\ Stock(View(t, f), w, its) /\ Counted(t, its)
  BY Zenon DEF Good, Holding
<1>2. Shape(View(u, f), t.root, v) /\ Sized(View(u, f), t.root, v) /\ SameHeld(View(t, f), w, View(u, f), v)
  BY Zenon DEF Moved
<1>3. Stock(View(u, f), v, its)
  BY <1>1, <1>2, Zenon DEF Stock, SameHeld
<1>4. Holding(View(u, f), t.root, v, its) /\ Counted(u, its)
  BY <1>1, <1>2, <1>3, Zenon DEF Holding, Counted
<1> QED BY <1>1, <1>4, ChangeGood

(* After a split the item goes below p, into a kid with room for it. *)
LEMMA InsertBelowIs ==
  ASSUME NEW u, NEW f, NEW v, NEW its, Good(u, f, v, its), ~Hollow(u), NEW p \in DOMAIN u.mem,
         NEW it \in Item, NEW k, k = it[1], NEW S, S \subseteq DOMAIN u.mem, GoesOn(View(u, f), v, p, k, S),
         \A x \in S : Count(View(u, f), x) < MaxKeys, NEW o, o = InsertBelow(u, p, it)
  PROVE  InsNo(o, f, its, k) \/ InsOn(o, f, its, k)
<1> DEFINE B == View(u, f)
           n == u.mem[p]
           y == Next_(B, p, k)
<1>1. Kept(u, f, v) /\ Holding(B, u.root, v, its)
  BY Zenon DEF Good
<1>2. p \in v.pages /\ B[p] = n
  BY <1>1, LoadedIn
<1>3. k \in Int
  BY KeyIsInt
<1>4. CASE Holds(n.items, k)
  <2>1. o = Ended(u, "no")
    BY <1>4 DEF InsertBelow
  <2>2. o.tree = u /\ o.res = "no"
    BY <2>1, EndedIs
  <2>3. \E x \in its : x[1] = k
    <3> DEFINE i == Smaller(B[p].items, k) + 1
    <3>1. Holds(B[p].items, k)
      BY <1>2, <1>4
    <3> HIDE DEF B
    <3>2. KeyAt(B, p, i) = k /\ ItemAt(B, p, i) \in its
      BY <1>1, <1>2, <1>3, <3>1, FoundIn
    <3> QED BY <3>2, Zenon DEF KeyAt
  <2> QED BY <2>2, <2>3, Zenon DEF InsNo
<1>5. CASE ~Holds(n.items, k)
  <2>1. o = On(u, y)
    <3>1. y = n.kids[Smaller(n.items, k) + 1]
      BY <1>2 DEF Next_, KidAt
    <3> HIDE DEF y
    <3> QED BY <1>5, <3>1 DEF InsertBelow
  <2>2. y \in S /\ y \in v.pages /\ v.lo[y] < k /\ k < v.hi[y]
    BY <1>2, <1>5 DEF GoesOn
  <2> HIDE DEF y
  <2>3. o.tree = u /\ o.res = "on" /\ o.at = y
    BY <2>1, OnIs
  <2>4. y \in DOMAIN u.mem /\ B[y] = u.mem[y]
    BY <1>1, <2>2, LoadedIn
  <2>5. ~Full(u.mem[y])
    BY <2>2, <2>4, BTreeAssumption DEF Full, Count
  <2>6. Here(u, v, y, k)
    BY <2>2, <2>4 DEF Here
  <2> QED BY <2>3, <2>5, <2>6, Zenon DEF InsOn
<1> QED BY <1>4, <1>5

(* The kid c of p that is gone to has been loaded. *)
Down(u, f, w, its, p, it, k, n, i, c) ==
  /\ Ins(u, f, w, its, p, it, k, n) /\ ~Holds(n.items, k) /\ n.leaf = FALSE /\ i = Smaller(n.items, k) + 1
  /\ KidOn(View(u, f), u.root, w, p, i, c, k) /\ c \in DOMAIN u.mem

LEMMA LoadIns ==
  ASSUME NEW t, NEW f, NEW w, NEW its, NEW p, NEW it, NEW k, NEW n, Ins(t, f, w, its, p, it, k, n),
         NEW ps, ps \subseteq w.pages, NEW u, u = Load(t, f, ps)
  PROVE  Ins(u, f, w, its, p, it, k, n) /\ Loads(t, u, f, w, ps)
<1>1. /\ Good(t, f, w, its) /\ ~Hollow(t) /\ p \in DOMAIN t.mem /\ n = t.mem[p]
      /\ it \in Item /\ k = it[1] /\ k \in Int /\ w.lo[p] < k /\ k < w.hi[p] /\ ~Full(n)
  BY Zenon DEF Ins, Here
<1>2. Good(u, f, w, its) /\ Loads(t, u, f, w, ps)
  BY <1>1, LoadGood
<1>3. p \in DOMAIN u.mem /\ u.mem[p] = n /\ ~Hollow(u)
  <2>1. DOMAIN u.mem = DOMAIN t.mem \cup ps /\ Hollow(u) = Hollow(t) /\ \A q \in DOMAIN t.mem : u.mem[q] = t.mem[q]
    BY <1>2, Zenon DEF Loads
  <2> QED BY <1>1, <2>1
<1> QED BY <1>1, <1>2, <1>3, Zenon DEF Ins, Here

LEMMA GoDown ==
  ASSUME NEW t, NEW f, NEW w, NEW its, NEW p, NEW it, NEW k, NEW n, Ins(t, f, w, its, p, it, k, n),
         ~Holds(n.items, k), n.leaf = FALSE, NEW i, i = Smaller(n.items, k) + 1, NEW c, c = n.kids[i],
         NEW u, u = Load(t, f, {c})
  PROVE  Down(u, f, w, its, p, it, k, n, i, c)
<1> DEFINE A == View(t, f)
           B == View(u, f)
<1>1. /\ Good(t, f, w, its) /\ p \in DOMAIN t.mem /\ n = t.mem[p] /\ k \in Int /\ w.lo[p] < k /\ k < w.hi[p]
  BY Zenon DEF Ins, Here
<1>2. Kept(t, f, w) /\ Shape(A, t.root, w)
  BY <1>1, Zenon DEF Good, Holding
<1>3. p \in w.pages /\ A[p] = n
  BY <1>1, <1>2, LoadedIn
<1>4. KidOn(A, t.root, w, p, i, c, k)
  <2>1. A[p].leaf = FALSE /\ ~Holds(A[p].items, k) /\ i = Smaller(A[p].items, k) + 1 /\ c = A[p].kids[i]
    BY <1>3
  <2> HIDE DEF A
  <2> QED BY <1>1, <1>2, <1>3, <2>1, KidFor
<1>5. c \in w.pages
  BY <1>4, Zenon DEF KidOn, KidBelow
<1>6. Ins(u, f, w, its, p, it, k, n) /\ Loads(t, u, f, w, {c})
  <2> DEFINE ps == {c}
  <2>1. ps \subseteq w.pages /\ u = Load(t, f, ps)
    BY <1>5
  <2> HIDE DEF ps
  <2>2. Ins(u, f, w, its, p, it, k, n) /\ Loads(t, u, f, w, ps)
    BY <2>1, LoadIns
  <2> QED BY <2>2 DEF ps
<1>7. DOMAIN u.mem = DOMAIN t.mem \cup {c} /\ u.root = t.root /\ \A q \in w.pages : B[q] = A[q]
  BY <1>6, Zenon DEF Loads
<1>8. KidOn(B, u.root, w, p, i, c, k)
  <2>1. B[p] = A[p]
    BY <1>3, <1>7
  <2> QED BY <1>4, <1>7, <2>1 DEF KidOn, KidBelow, KidCount, KidAt, Count
<1>9. c \in DOMAIN u.mem
  BY <1>7
<1> QED BY <1>6, <1>8, <1>9, Zenon DEF Down

DownAt(A, u, f, w, its, p, it, k, n, i, c) ==
  /\ Good(u, f, w, its) /\ ~Hollow(u) /\ Kept(u, f, w) /\ Shape(A, u.root, w) /\ Sized(A, u.root, w)
  /\ IsTree(u) /\ u.pages \in Nat /\ w.pages \subseteq 0 .. u.pages - 1
  /\ it \in Item /\ k = it[1] /\ k \in Int /\ w.lo[p] < k /\ k < w.hi[p] /\ n = u.mem[p] /\ ~Full(n)
  /\ ~Holds(n.items, k) /\ n.leaf = FALSE /\ i = Smaller(n.items, k) + 1
  /\ i \in 1 .. KidCount(A, p) /\ c = KidAt(A, p, i) /\ c = n.kids[i]
  /\ w.lo[c] < k /\ k < w.hi[c] /\ c /= p /\ c /= u.root /\ w.height[p] = w.height[c] + 1
  /\ NodeSeen(A, w, p, n) /\ NodeSeen(A, w, c, u.mem[c])
  /\ p \in DOMAIN u.mem /\ c \in DOMAIN u.mem

LEMMA DownIs ==
  ASSUME NEW u, NEW f, NEW w, NEW its, NEW p, NEW it, NEW k, NEW n, NEW i, NEW c, Down(u, f, w, its, p, it, k, n, i, c),
         NEW A, A = View(u, f)
  PROVE  DownAt(A, u, f, w, its, p, it, k, n, i, c)
<1>1. /\ Ins(u, f, w, its, p, it, k, n) /\ ~Holds(n.items, k) /\ n.leaf = FALSE /\ i = Smaller(n.items, k) + 1
      /\ KidOn(A, u.root, w, p, i, c, k) /\ c \in DOMAIN u.mem
  BY Zenon DEF Down
<1>2. /\ Good(u, f, w, its) /\ ~Hollow(u) /\ it \in Item /\ k = it[1] /\ k \in Int /\ w.lo[p] < k /\ k < w.hi[p]
      /\ n = u.mem[p] /\ ~Full(n) /\ p \in DOMAIN u.mem
  BY <1>1, Zenon DEF Ins, Here
<1>3. /\ Kept(u, f, w) /\ Shape(A, u.root, w) /\ Sized(A, u.root, w)
      /\ IsTree(u) /\ u.pages \in Nat /\ w.pages \subseteq 0 .. u.pages - 1
  BY <1>2, Zenon DEF Good, Kept, Holding
<1>4. NodeSeen(A, w, p, n) /\ NodeSeen(A, w, c, u.mem[c])
  BY <1>1, <1>2, Seen
<1>5. /\ i \in 1 .. KidCount(A, p) /\ c = KidAt(A, p, i)
      /\ w.lo[c] < k /\ k < w.hi[c] /\ c /= p /\ c /= u.root /\ w.height[p] = w.height[c] + 1
  BY <1>1, Zenon DEF KidOn, KidBelow
<1>6. c = n.kids[i]
  BY <1>4, <1>5, Zenon DEF NodeSeen, KidAt
<1> QED BY <1>1, <1>2, <1>3, <1>4, <1>5, <1>6, Zenon DEF DownAt

LEMMA InsertDown ==
  ASSUME NEW u, NEW f, NEW w, NEW its, NEW p, NEW it, NEW k, NEW n, NEW i, NEW c, Down(u, f, w, its, p, it, k, n, i, c),
         ~Full(u.mem[c]), NEW o, o = On(u, c)
  PROVE  InsOn(o, f, its, k)
<1>0. DownAt(View(u, f), u, f, w, its, p, it, k, n, i, c)
  BY DownIs
<1>1. Good(u, f, w, its) /\ ~Hollow(u) /\ c \in DOMAIN u.mem /\ w.lo[c] < k /\ k < w.hi[c]
  BY <1>0, Zenon DEF DownAt
<1>2. o.tree = u /\ o.res = "on" /\ o.at = c
  BY OnIs
<1> QED BY <1>1, <1>2, Zenon DEF InsOn, Here

LEMMA HeldHolding ==
  ASSUME NEW M, NEW N, NEW root, NEW w, NEW v, NEW its, Holding(M, root, w, its),
         Shape(N, root, v), Sized(N, root, v), SameHeld(M, w, N, v)
  PROVE  Holding(N, root, v, its)
  BY Zenon DEF Holding, Stock, SameHeld

LEMMA NotHollow ==
  ASSUME NEW B, NEW p, NEW a, B[p] = a, NEW m, Count(B, p) = m, m /= 0
  PROVE  ~IsHollow(a)
<1>1. ASSUME IsHollow(a) PROVE FALSE
  <2>1. B[p].items = <<>>
    BY <1>1, Zenon DEF IsHollow
  <2>2. Count(B, p) = 0
    BY <2>1 DEF Count
  <2> QED BY <2>2
<1> QED BY <1>1

(* The full kid c, where k is, of a node p with room is split. *)
SplitAt(A, t, f, w, its, p, k, n, i, c) ==
  /\ Good(t, f, w, its) /\ Kept(t, f, w) /\ Shape(A, t.root, w) /\ Sized(A, t.root, w)
  /\ IsTree(t) /\ t.pages \in Nat /\ w.pages \subseteq 0 .. t.pages - 1
  /\ k \in Int /\ w.lo[p] < k /\ k < w.hi[p] /\ n = t.mem[p] /\ ~Full(n) /\ Full(t.mem[c])
  /\ i \in 1 .. KidCount(A, p) /\ c = KidAt(A, p, i) /\ c = n.kids[i]
  /\ w.lo[c] < k /\ k < w.hi[c] /\ c /= p /\ c /= t.root /\ n.leaf = FALSE
  /\ p \in DOMAIN t.mem /\ c \in DOMAIN t.mem
  /\ NodeSeen(A, w, p, n) /\ NodeSeen(A, w, c, t.mem[c])
SplitTo(t, u, f, w, its, v, p, c, d, k) ==
  /\ Good(u, f, v, its) /\ SplitKept(View(t, f), View(u, f), t.root, w, v, p, c, d, k)
  /\ DOMAIN u.mem = {p, c, d} \cup DOMAIN t.mem /\ u.root = t.root
  /\ ~IsHollow(u.mem[p]) /\ (~Hollow(t) => ~Hollow(u))

LEMMA SplitGood ==
  ASSUME NEW t, NEW f, NEW w, NEW its, NEW p, NEW k, NEW n, NEW i, NEW c, SplitAt(View(t, f), t, f, w, its, p, k, n, i, c),
         NEW u, u = Split(t, p, i), NEW d, d = t.pages
  PROVE  \E v : SplitTo(t, u, f, w, its, v, p, c, d, k)
<1> DEFINE A == View(t, f)
           child == t.mem[c]
           m == MaxKeys \div 2
           a == [n EXCEPT !.items = InsertAt(@, i, child.items[m + 1]), !.kids = InsertAt(@, i + 1, d)]
           b == [child EXCEPT !.items = SubSeq(@, 1, m), !.kids = Part(@, 1, m + 1)]
           e == [child EXCEPT !.items = SubSeq(@, m + 2, Len(@)), !.kids = Part(@, m + 2, Len(@))]
           ns == Put(p, a) ++ Put(c, b) ++ Put(d, e)
           B == View(u, f)
<1>1. /\ Good(t, f, w, its) /\ Kept(t, f, w) /\ Shape(A, t.root, w) /\ Sized(A, t.root, w)
      /\ IsTree(t) /\ t.pages \in Nat /\ w.pages \subseteq 0 .. t.pages - 1
      /\ k \in Int /\ w.lo[p] < k /\ k < w.hi[p] /\ n = t.mem[p] /\ ~Full(n) /\ Full(child)
      /\ i \in 1 .. KidCount(A, p) /\ c = KidAt(A, p, i) /\ c = n.kids[i]
      /\ w.lo[c] < k /\ k < w.hi[c] /\ c /= p /\ c /= t.root /\ n.leaf = FALSE
      /\ p \in DOMAIN t.mem /\ c \in DOMAIN t.mem
  BY Zenon DEF SplitAt
<1>2. NodeSeen(A, w, p, n) /\ NodeSeen(A, w, c, child)
  BY Zenon DEF SplitAt
<1>3. /\ p \in w.pages /\ A[p] = n /\ n \in Nodes /\ Count(A, p) = Len(n.items) /\ Len(n.items) \in Nat
      /\ c \in w.pages /\ A[c] = child /\ child \in Nodes /\ Count(A, c) = Len(child.items)
      /\ Len(child.items) \in Nat /\ Len(child.items) <= MaxKeys
  BY <1>2, Zenon DEF NodeSeen
<1>4. d \in Nat /\ d \notin w.pages /\ p /= d /\ c /= d
  BY <1>1, <1>3
<1>5. Len(child.items) = MaxKeys /\ Len(child.items) \div 2 = m
  <2>1. Len(child.items) >= MaxKeys
    BY <1>1 DEF Full
  <2> DEFINE l == Len(child.items)
  <2>2. l \in Nat /\ l <= MaxKeys /\ l >= MaxKeys /\ MaxKeys \in Nat
    BY <1>3, <2>1, BTreeAssumption
  <2> HIDE DEF l
  <2>3. l = MaxKeys
    BY <2>2
  <2> QED BY <2>3 DEF l
<1>6. u = Change([t EXCEPT !.pages = @ + 1], ns)
  BY <1>1, <1>5 DEF Split
<1>7. PutsThree(ns, p, a, c, b, d, e)
  <2> HIDE DEF a, b, e
  <2> QED BY <1>1, <1>4, PutThree
<1>8. a = Node(FALSE, InsertAt(n.items, i, child.items[m + 1]), InsertAt(n.kids, i + 1, d))
  <2> DEFINE s == InsertAt(n.items, i, child.items[m + 1])
             r == InsertAt(n.kids, i + 1, d)
  <2> HIDE DEF s, r
  <2>1. [n EXCEPT !.items = s, !.kids = r] = Node(n.leaf, s, r)
    BY <1>3, NodeChanged
  <2> QED BY <1>1, <2>1, Zenon DEF s, r, a
<1>9. b = Node(child.leaf, SubSeq(child.items, 1, m), Part(child.kids, 1, m + 1))
  <2> DEFINE s == SubSeq(child.items, 1, m)
             r == Part(child.kids, 1, m + 1)
  <2> HIDE DEF s, r
  <2>1. [child EXCEPT !.items = s, !.kids = r] = Node(child.leaf, s, r)
    BY <1>3, NodeChanged
  <2> QED BY <2>1, Zenon DEF s, r, b
<1>10. e = Node(child.leaf, SubSeq(child.items, m + 2, Len(child.items)), Part(child.kids, m + 2, Len(child.kids)))
  <2> DEFINE s == SubSeq(child.items, m + 2, Len(child.items))
             r == Part(child.kids, m + 2, Len(child.kids))
  <2> HIDE DEF s, r
  <2>1. [child EXCEPT !.items = s, !.kids = r] = Node(child.leaf, s, r)
    BY <1>3, NodeChanged
  <2> QED BY <2>1, Zenon DEF s, r, e
<1> HIDE DEF a, b, e, ns
<1>11. ChangedTo(t, u, ns) /\ u.num = t.num /\ u.pages = t.pages + 1
  <2> QED BY <1>1, <1>6, GrownIs
<1>12. AtThree(A, B, w.pages, p, a, c, b, d, e)
  BY <1>1, <1>7, <1>11, ThreePut
<1> HIDE DEF A, B
<1>13. /\ p \in DOMAIN B /\ B[p] = a /\ c \in DOMAIN B /\ B[c] = b /\ d \in DOMAIN B /\ B[d] = e
       /\ \A q \in w.pages \ {p, c, d} : q \in DOMAIN B /\ B[q] = A[q]
  BY <1>12, Zenon DEF AtThree
<1>14. Splits(A, B, p, i, c, d, m)
  BY <1>3, <1>8, <1>9, <1>10, <1>13 DEF Splits
<1>15. \A q \in w.pages \ {p, c} : q \in DOMAIN B /\ B[q] = A[q]
  BY <1>4, <1>13
<1>16. PICK v : SplitKept(A, B, t.root, w, v, p, c, d, k)
  <2>1. Count(A, c) >= MaxKeys /\ Count(A, p) < MaxKeys
    BY <1>1, <1>3, <1>5, BTreeAssumption DEF Full
  <2>2. m = MaxKeys \div 2
    OBVIOUS
  <2> HIDE DEF m, child
  <2> QED BY <1>1, <1>3, <1>4, <1>13, <1>14, <1>15, <2>1, <2>2, SplitKeeps
<1>17. /\ Moved(A, B, t.root, w, v, p) /\ v.pages = w.pages \cup {d}
       /\ Count(B, p) = Count(A, p) + 1 /\ Count(B, c) < MaxKeys /\ Count(B, d) < MaxKeys
       /\ GoesOn(B, v, p, k, {c, d})
  BY <1>16, Zenon DEF SplitKept
<1>18. DOMAIN ns = {p, c, d} /\ ns[p] = a
  BY <1>7, Zenon DEF PutsThree
<1>19. Widens(u, v, w, ns)
  <2>1. v.pages = w.pages \cup DOMAIN ns
    BY <1>1, <1>3, <1>17, <1>18
  <2>2. u.pages \in Nat /\ w.pages \cup {d} \subseteq 0 .. u.pages - 1
    BY <1>1, <1>11
  <2>3. v.pages \subseteq 0 .. u.pages - 1
    BY <1>17, <2>2
  <2>4. v.pages \subseteq w.pages \cup DOMAIN ns /\ w.pages \cup DOMAIN ns \subseteq v.pages
    BY <2>1
  <2> QED BY <2>2, <2>3, <2>4, Zenon DEF Widens
<1>20. ~IsHollow(a)
  <2>1. Count(B, p) /= 0
    BY <1>3, <1>17
  <2> QED BY <1>13, <2>1, NotHollow
<1>21. t.root \in DOMAIN ns => ~IsHollow(ns[t.root])
  <2>1. t.root \in w.pages
    BY <1>1, Zenon DEF Kept
  <2>2. t.root \in DOMAIN ns => t.root = p
    BY <1>1, <1>4, <1>18, <2>1
  <2> QED BY <1>18, <1>20, <2>2
<1>22. Holding(B, t.root, v, its) /\ Counted(u, its)
  <2>1. Holding(A, t.root, w, its) /\ Counted(t, its)
    BY <1>1, Zenon DEF Good, A
  <2>2. Shape(B, t.root, v) /\ Sized(B, t.root, v) /\ SameHeld(A, w, B, v)
    BY <1>17, Zenon DEF Moved
  <2> QED BY <1>11, <2>1, <2>2, HeldHolding DEF Counted
<1>23. Good(u, f, v, its) /\ (~Hollow(t) => ~Hollow(u))
  BY <1>1, <1>11, <1>19, <1>21, <1>22, ChangeGood DEF A, B
<1>24. DOMAIN u.mem = {p, c, d} \cup DOMAIN t.mem /\ u.mem[p] = a /\ u.root = t.root
  BY <1>11, <1>18 DEF ChangedTo
<1>25. SplitTo(t, u, f, w, its, v, p, c, d, k)
  BY <1>16, <1>20, <1>23, <1>24, Zenon DEF SplitTo, A, B
<1> QED BY <1>25

LEMMA InsertSplit ==
  ASSUME NEW t, NEW f, NEW w, NEW its, NEW p, NEW it, NEW k, NEW n, NEW i, NEW c, Down(t, f, w, its, p, it, k, n, i, c),
         Full(t.mem[c]), NEW o, o = InsertBelow(Split(t, p, i), p, it)
  PROVE  InsNo(o, f, its, k) \/ InsOn(o, f, its, k)
<1> DEFINE A == View(t, f)
           d == t.pages
           u == Split(t, p, i)
           B == View(u, f)
<1>1. DownAt(A, t, f, w, its, p, it, k, n, i, c)
  BY DownIs
<1>2. SplitAt(A, t, f, w, its, p, k, n, i, c) /\ ~Hollow(t) /\ it \in Item /\ k = it[1]
  BY <1>1, Zenon DEF DownAt, SplitAt
<1>m. A = View(t, f) /\ B = View(u, f) /\ d = t.pages /\ u = Split(t, p, i)
  OBVIOUS
<1> HIDE DEF A, B, d, u
<1>3. PICK v : SplitTo(t, u, f, w, its, v, p, c, d, k)
  BY <1>m, <1>2, SplitGood
<1>4. /\ Good(u, f, v, its) /\ SplitKept(A, B, t.root, w, v, p, c, d, k) /\ DOMAIN u.mem = {p, c, d} \cup DOMAIN t.mem
      /\ ~Hollow(u)
  BY <1>m, <1>2, <1>3, Zenon DEF SplitTo
<1> DEFINE S == {c, d}
<1>5. S \subseteq DOMAIN u.mem /\ p \in DOMAIN u.mem /\ GoesOn(B, v, p, k, S) /\ \A x \in S : Count(B, x) < MaxKeys
  BY <1>4 DEF SplitKept
<1> HIDE DEF S
<1> QED BY <1>m, <1>2, <1>4, <1>5, InsertBelowIs

(* Two leaves next to each other below p, one of which is gone to. *)
Beside(A, t, f, w, its, p, it, k, n, i, c, d) ==
  /\ Good(t, f, w, its) /\ ~Hollow(t) /\ Kept(t, f, w) /\ IsTree(t) /\ t.pages \in Nat
  /\ A = View(t, f) /\ Holding(A, t.root, w, its) /\ Shape(A, t.root, w) /\ Sized(A, t.root, w)
  /\ it \in Item /\ k = it[1] /\ k \in Int /\ w.lo[p] < k /\ k < w.hi[p]
  /\ p \in w.pages /\ p \in DOMAIN t.mem /\ c \in DOMAIN t.mem /\ d \in DOMAIN t.mem
  /\ n = t.mem[p] /\ A[p] = n /\ A[c] = t.mem[c] /\ A[d] = t.mem[d] /\ n \in Nodes /\ n.leaf = FALSE /\ ~Full(n)
  /\ Pair(A, t.root, w, p, i, c, d) /\ IsLeaf(A[c]) /\ IsLeaf(A[d])

LEMMA BesideIs ==
  ASSUME NEW t, NEW f, NEW w, NEW its, NEW p, NEW it, NEW k, NEW n, NEW j, NEW x, Down(t, f, w, its, p, it, k, n, j, x),
         NEW A, A = View(t, f), NEW i \in 1 .. Count(A, p), NEW c, c = n.kids[i], NEW d, d = n.kids[i + 1],
         c \in DOMAIN t.mem, d \in DOMAIN t.mem, x \in {c, d}, t.mem[x].leaf = TRUE
  PROVE  Beside(A, t, f, w, its, p, it, k, n, i, c, d)
<1>0. DownAt(A, t, f, w, its, p, it, k, n, j, x)
  BY DownIs
<1>1. /\ Good(t, f, w, its) /\ ~Hollow(t) /\ Kept(t, f, w) /\ IsTree(t) /\ t.pages \in Nat
      /\ Shape(A, t.root, w) /\ Sized(A, t.root, w)
      /\ it \in Item /\ k = it[1] /\ k \in Int /\ w.lo[p] < k /\ k < w.hi[p]
      /\ p \in DOMAIN t.mem /\ n = t.mem[p] /\ n.leaf = FALSE /\ ~Full(n)
  BY <1>0, Zenon DEF DownAt
<1>2. NodeSeen(A, w, p, n)
  BY <1>0, Zenon DEF DownAt
<1>3. p \in w.pages /\ A[p] = n /\ n \in Nodes
  BY <1>2, Zenon DEF NodeSeen
<1>4. c = KidAt(A, p, i) /\ d = KidAt(A, p, i + 1) /\ A[p].leaf = FALSE
  BY <1>1, <1>3 DEF KidAt
<1>5. Pair(A, t.root, w, p, i, c, d)
  BY <1>1, <1>3, <1>4, PairIs
<1>6. Siblings(A, p, i, c, d)
  BY <1>5, Zenon DEF Pair
<1>7. A[c] = t.mem[c] /\ A[d] = t.mem[d]
  BY <1>1, LoadedIn
<1>8. A[c].leaf = TRUE
  BY <1>6, <1>7, Zenon DEF Siblings
<1>9. IsLeaf(A[c]) /\ IsLeaf(A[d])
  BY <1>6, <1>8, LeafNode
<1>10. Holding(A, t.root, w, its)
  BY <1>1, Zenon DEF Good
<1> QED BY <1>1, <1>3, <1>5, <1>7, <1>9, <1>10, Zenon DEF Beside

LEMMA ItemSet ==
  ASSUME NEW n \in Nodes, n.leaf = FALSE, NEW i, NEW it
  PROVE  [n EXCEPT !.items[i] = it] = Node(FALSE, [n.items EXCEPT ![i] = it], n.kids)
<1> DEFINE s == [n.items EXCEPT ![i] = it]
<1> HIDE DEF s
<1>1. [n EXCEPT !.items = s] = Node(n.leaf, s, n.kids)
  BY ItemsChanged
<1> QED BY <1>1 DEF s

LEMMA LeafSet ==
  ASSUME NEW n \in Nodes, IsLeaf(n), NEW s
  PROVE  [n EXCEPT !.items = s] = Node(TRUE, s, <<>>)
BY ItemsChanged DEF IsLeaf

(* The key k is not one of the tree when it is not one of leaf c where it  *)
(* lies.                                                                   *)
LEMMA ShareSame ==
  ASSUME NEW A, NEW t, NEW f, NEW w, NEW its, NEW p, NEW it, NEW k, NEW n, NEW i, NEW c, NEW d,
         Beside(A, t, f, w, its, p, it, k, n, i, c, d),
         NEW x \in w.pages, NEW j \in 1 .. Count(A, x), KeyAt(A, x, j) = k, NEW o, o = Ended(t, "no")
  PROVE  InsNo(o, f, its, k)
<1>1. Good(t, f, w, its) /\ ~Hollow(t) /\ Holding(A, t.root, w, its)
  BY Zenon DEF Beside
<1>2. ItemAt(A, x, j) \in its
  BY <1>1, Zenon DEF Holding, Stock, Held
<1>3. o.tree = t /\ o.res = "no"
  BY EndedIs
<1>4. \E y \in its : y[1] = k
  BY <1>2, Zenon DEF KeyAt
<1> QED BY <1>1, <1>3, <1>4, Zenon DEF InsNo

LEMMA ShareRightAdd ==
  ASSUME NEW A, NEW t, NEW f, NEW w, NEW its, NEW p, NEW it, NEW k, NEW n, NEW i, NEW c, NEW d,
         Beside(A, t, f, w, its, p, it, k, n, i, c, d), Full(t.mem[c]), ~Full(t.mem[d]), k < w.hi[c], w.lo[c] < k,
         KeyAt(A, c, Count(A, c)) < k,
         NEW o, o = Added(t, Put(p, [n EXCEPT !.items[i] = it]) ++ Put(d, [t.mem[d] EXCEPT !.items = <<n.items[i]>> \o @]))
  PROVE  InsYes(o, f, its, it, k)
<1> DEFINE a == [n EXCEPT !.items[i] = it]
           s == <<n.items[i]>> \o t.mem[d].items
           b == [t.mem[d] EXCEPT !.items = s]
           ns == Put(p, a) ++ Put(d, b)
           u == [Change(t, ns) EXCEPT !.num = @ + 1]
           B == View(u, f)
<1>1. /\ Good(t, f, w, its) /\ ~Hollow(t) /\ Kept(t, f, w) /\ IsTree(t) /\ A = View(t, f)
      /\ Holding(A, t.root, w, its) /\ Shape(A, t.root, w) /\ Sized(A, t.root, w)
      /\ it \in Item /\ k = it[1] /\ k \in Int
      /\ p \in w.pages /\ n = t.mem[p] /\ A[p] = n /\ A[c] = t.mem[c] /\ A[d] = t.mem[d] /\ n \in Nodes /\ n.leaf = FALSE
      /\ Pair(A, t.root, w, p, i, c, d) /\ IsLeaf(A[c]) /\ IsLeaf(A[d])
  BY Zenon DEF Beside
<1>2. /\ Siblings(A, p, i, c, d) /\ c \in w.pages /\ d \in w.pages /\ p /= d /\ p /= c /\ c /= d
      /\ Count(A, c) \in Nat /\ Count(A, d) \in Nat /\ Count(A, p) \in Nat
  BY <1>1, Zenon DEF Pair
<1>3. A[d] \in Nodes /\ A[c].leaf = TRUE /\ i \in 1 .. Count(A, p) /\ A[p].leaf = FALSE
  BY <1>1, <1>2, Zenon DEF Siblings, IsLeaf
<1>4. o.tree = u /\ o.res = "yes"
  <2>1. o = Ended(u, "yes")
    BY DEF Added
  <2> HIDE DEF u
  <2> QED BY <2>1, EndedIs
<1>5. PutsTwo(ns, p, a, d, b)
  <2> HIDE DEF a, b
  <2> QED BY <1>2, PutTwo
<1>6. a = Node(FALSE, [A[p].items EXCEPT ![i] = it], A[p].kids)
  <2>1. a = Node(FALSE, [n.items EXCEPT ![i] = it], n.kids)
    <3>1. n \in Nodes /\ n.leaf = FALSE
      BY <1>1
    <3> QED BY <3>1, ItemSet, Zenon
  <2> HIDE DEF a
  <2> QED BY <1>1, <2>1
<1>7. b = Node(TRUE, <<A[p].items[i]>> \o A[d].items, <<>>)
  <2> DEFINE g == t.mem[d]
  <2>1. IsLeaf(g) /\ g \in Nodes /\ b = [g EXCEPT !.items = s]
    BY <1>1, <1>3
  <2>2. s = <<A[p].items[i]>> \o A[d].items
    BY <1>1
  <2> HIDE DEF s, g, b
  <2>3. b = Node(TRUE, s, <<>>)
    BY <2>1, LeafSet
  <2> QED BY <2>2, <2>3
<1>8. u = [Change(t, ns) EXCEPT !.num = @ + 1] /\ B = View(u, f)
  OBVIOUS
<1> HIDE DEF a, b, ns, u
<1>9. ChangedTo(t, u, ns)
  BY <1>1, <1>8, CountedIs
<1>10. AtTwo(A, B, w.pages, p, a, d, b)
  BY <1>1, <1>5, <1>9, TwoPut
<1> HIDE DEF B
<1>11. p \in DOMAIN B /\ B[p] = a /\ d \in DOMAIN B /\ B[d] = b /\ \A q \in w.pages \ {p, d} : q \in DOMAIN B /\ B[q] = A[q]
  BY <1>10, Zenon DEF AtTwo
<1>12. c \in DOMAIN B /\ B[c] = A[c] /\ \A q \in w.pages \ {p, c, d} : q \in DOMAIN B /\ B[q] = A[q]
  BY <1>2, <1>11
<1>13. Count(A, c) >= MaxKeys /\ Count(A, d) < MaxKeys
  BY <1>1, <1>2, BTreeAssumption DEF Full, Count
<1>14. \E v : AddKept(A, B, t.root, w, v, it)
  <2>1. B[p] = Node(FALSE, [A[p].items EXCEPT ![i] = it], A[p].kids) /\ B[d] = Node(TRUE, <<A[p].items[i]>> \o A[d].items, <<>>)
    BY <1>6, <1>7, <1>11
  <2>2. Shape(A, t.root, w) /\ Sized(A, t.root, w) /\ Pair(A, t.root, w, p, i, c, d) /\ it \in Item /\ k = it[1] /\ p \in w.pages
    BY <1>1
  <2>3. p \in DOMAIN B /\ d \in DOMAIN B
    BY <1>11
  <2> QED BY <1>3, <1>12, <1>13, <2>1, <2>2, <2>3, ShareRightAdds
<1>15. \A x \in its : x[1] /= k
  <2>1. ~Holds(A[c].items, k)
    <3>1. Count(A, c) >= 1
      BY <1>2, <1>13, BTreeAssumption
    <3> QED BY <1>1, <1>2, <3>1, AllBelow
  <2>2. Holding(A, t.root, w, its) /\ c \in w.pages /\ A[c].leaf = TRUE /\ k \in Int
    BY <1>1, <1>2, <1>3
  <2> SUFFICES ASSUME NEW x \in its PROVE x[1] /= k
    OBVIOUS
  <2> QED BY <2>1, <2>2, NotIn
<1>16. DOMAIN ns = {p, d} /\ ns[p] = a
  BY <1>5, Zenon DEF PutsTwo
<1>17. t.root \in DOMAIN ns => ~IsHollow(ns[t.root])
  <2>1. d /= t.root
    BY <1>1, Zenon DEF Pair
  <2>2. Count(B, p) /= 0
    <3>1. Count(B, p) = Count(A, p)
      <4>1. A[p].items \in Seq(Item) /\ B[p].items = [A[p].items EXCEPT ![i] = it]
        BY <1>1, <1>6, <1>11, NodeSeqs DEF Node
      <4> QED BY <1>1, <1>3, <4>1 DEF Count
    <3> QED BY <1>2, <1>3, <3>1
  <2>3. ~IsHollow(a)
    BY <1>11, <2>2, NotHollow
  <2> QED BY <1>16, <2>1, <2>3
<1>18. ~Hollow(u) /\ \E v : Good(u, f, v, its \cup {it})
  <2>1. \E v : AddKept(View(t, f), View(u, f), t.root, w, v, it)
    BY <1>1, <1>8, <1>14
  <2>2. DOMAIN ns \subseteq w.pages
    BY <1>1, <1>2, <1>16
  <2> QED BY <1>1, <1>8, <1>15, <1>17, <2>1, <2>2, AddGood
<1> QED BY <1>4, <1>15, <1>18, Zenon DEF InsYes

(* An item goes from leaf c to d, or from d to c, and the round goes on at *)
(* the one that gave.                                                      *)
Either(x, y, c, d) == (x = c /\ y = d) \/ (x = d /\ y = c)
(* z is what then lies between c and d, and they have r and m items. *)
Stays(w, c, d, z, r, m, k, h) ==
  /\ h = c \/ h = d
  /\ h = c => w.lo[c] < k /\ k < z /\ r < MaxKeys
  /\ h = d => z < k /\ k < w.hi[d] /\ m < MaxKeys

LEMMA ShareMove ==
  ASSUME NEW A, NEW t, NEW f, NEW w, NEW its, NEW p, NEW it, NEW k, NEW n, NEW i, NEW c, NEW d,
         Beside(A, t, f, w, its, p, it, k, n, i, c, d),
         NEW ns, NEW a, NEW x, NEW b, NEW y, NEW e, PutsThree(ns, p, a, x, b, y, e), Either(x, y, c, d),
         NEW u, u = Change(t, ns), NEW B, B = View(u, f),
         NEW z, NEW r, NEW m, \E v : LentKept(A, B, t.root, w, v, p, c, d, z, r, m),
         NEW h, Stays(w, c, d, z, r, m, k, h),
         NEW o, o = On(u, h)
  PROVE  InsOn(o, f, its, k)
<1>1. /\ Good(t, f, w, its) /\ ~Hollow(t) /\ Kept(t, f, w) /\ IsTree(t) /\ t.pages \in Nat /\ A = View(t, f)
      /\ p \in w.pages /\ Pair(A, t.root, w, p, i, c, d)
  BY Zenon DEF Beside
<1>2. /\ c \in w.pages /\ d \in w.pages /\ c /= d /\ c /= t.root /\ d /= t.root /\ Count(A, p) \in Nat /\ i \in 1 .. Count(A, p)
  BY <1>1, Zenon DEF Pair, Siblings
<1>3. ChangedTo(t, u, ns) /\ u.num = t.num /\ u.pages = t.pages
  BY <1>1, ChangeIs
<1>4. PICK v : LentKept(A, B, t.root, w, v, p, c, d, z, r, m)
  OBVIOUS
<1>5. /\ Moved(A, B, t.root, w, v, p) /\ v.pages = w.pages /\ Count(B, p) = Count(A, p) /\ Count(B, c) = r /\ Count(B, d) = m
      /\ v.lo[c] = w.lo[c] /\ v.hi[d] = w.hi[d] /\ v.hi[c] = z /\ v.lo[d] = z
  BY <1>4, Zenon DEF LentKept, ShiftKept
<1>6. DOMAIN ns = {p, c, d} /\ ns[p] = a
  BY DEF PutsThree, Either
<1>7. Widens(u, v, w, ns)
  <2>1. w.pages \subseteq 0 .. t.pages - 1
    BY <1>1, Zenon DEF Kept
  <2> QED BY <1>1, <1>2, <1>3, <1>5, <1>6, <2>1 DEF Widens
<1>8. t.root \in DOMAIN ns => ~IsHollow(ns[t.root])
  <2>1. B[p] = a
    <3>1. AtThree(A, B, w.pages, p, a, x, b, y, e)
      BY <1>1, <1>3, ThreePut
    <3> QED BY <3>1, Zenon DEF AtThree
  <2>2. Count(B, p) /= 0
    BY <1>2, <1>5
  <2>3. ~IsHollow(a)
    BY <2>1, <2>2, NotHollow
  <2> QED BY <1>2, <1>6, <2>3
<1>9. Good(u, f, v, its) /\ ~Hollow(u)
  BY <1>1, <1>3, <1>5, <1>7, <1>8, MovedGood
<1>10. h \in DOMAIN u.mem /\ h \in v.pages
  <2>1. DOMAIN u.mem = DOMAIN ns \cup DOMAIN t.mem
    BY <1>3, Zenon DEF ChangedTo
  <2> QED BY <1>2, <1>5, <1>6, <2>1 DEF Stays
<1>11. Here(u, v, h, k)
  BY <1>2, <1>5, <1>10 DEF Here, Stays
<1>12. ~Full(u.mem[h])
  <2>1. B[h] = u.mem[h]
    BY <1>9, <1>10, LoadedIn DEF Good
  <2>2. Count(B, h) < MaxKeys
    BY <1>5 DEF Stays
  <2>3. Count(B, h) = Len(u.mem[h].items)
    BY <2>1 DEF Count
  <2> QED BY <2>2, <2>3, BTreeAssumption DEF Full
<1>13. o.tree = u /\ o.res = "on" /\ o.at = h
  BY OnIs
<1> QED BY <1>9, <1>11, <1>12, <1>13, Zenon DEF InsOn

LEMMA LastKey ==
  ASSUME NEW A, NEW c, A[c] \in Nodes, Count(A, c) >= 1
  PROVE  Last(A[c].items) = ItemAt(A, c, Count(A, c)) /\ Head(A[c].items) = ItemAt(A, c, 1)
<1> DEFINE s == A[c].items
<1>1. s \in Seq(Item) /\ Len(s) >= 1
  BY NodeSeqs DEF Count
<1> HIDE DEF s
<1>2. Last(s) = s[Len(s)] /\ Head(s) = s[1]
  BY <1>1, FrontLast, HeadTail
<1> QED BY <1>2 DEF s, ItemAt, Count

LEMMA BesideSizes ==
  ASSUME NEW A, NEW t, NEW f, NEW w, NEW its, NEW p, NEW it, NEW k, NEW n, NEW i, NEW c, NEW d,
         Beside(A, t, f, w, its, p, it, k, n, i, c, d)
  PROVE  /\ \A q \in w.pages \ {c, d} : SizedAt(A, t.root, q)
         /\ Count(A, c) >= MinDegree - 1 /\ Count(A, d) >= MinDegree - 1 /\ Count(A, c) <= MaxKeys /\ Count(A, d) <= MaxKeys
         /\ Count(A, c) \in Nat /\ Count(A, d) \in Nat
         /\ (Full(t.mem[c]) <=> Count(A, c) >= MaxKeys) /\ (Full(t.mem[d]) <=> Count(A, d) >= MaxKeys)
<1>1. /\ Sized(A, t.root, w) /\ Pair(A, t.root, w, p, i, c, d) /\ A[c] = t.mem[c] /\ A[d] = t.mem[d]
  BY Zenon DEF Beside
<1>2. c \in w.pages /\ d \in w.pages /\ c /= t.root /\ d /= t.root /\ Count(A, c) \in Nat /\ Count(A, d) \in Nat
  BY <1>1, Zenon DEF Pair
<1>3. \A q \in w.pages : SizedAt(A, t.root, q)
  BY <1>1, Zenon DEF Sized, SizedAt
<1>4. \A q \in w.pages \ {c, d} : SizedAt(A, t.root, q)
  BY <1>3
<1>5. /\ Count(A, c) >= MinDegree - 1 /\ Count(A, d) >= MinDegree - 1 /\ Count(A, c) <= MaxKeys /\ Count(A, d) <= MaxKeys
  BY <1>2, <1>3, Zenon DEF SizedAt
<1>6. (Full(t.mem[c]) <=> Count(A, c) >= MaxKeys) /\ (Full(t.mem[d]) <=> Count(A, d) >= MaxKeys)
  BY <1>1, Zenon DEF Full, Count
<1> QED BY <1>2, <1>4, <1>5, <1>6

StayRight(t, n, p, i, c, d) ==
  Put(p, [n EXCEPT !.items[i] = Last(t.mem[c].items)]) ++ Put(d, [t.mem[d] EXCEPT !.items = <<n.items[i]>> \o @])
    ++ Put(c, [t.mem[c] EXCEPT !.items = Front(@)])

LEMMA ShareRightStay ==
  ASSUME NEW A, NEW t, NEW f, NEW w, NEW its, NEW p, NEW it, NEW k, NEW n, NEW i, NEW c, NEW d,
         Beside(A, t, f, w, its, p, it, k, n, i, c, d), Full(t.mem[c]), ~Full(t.mem[d]), w.lo[c] < k,
         k < KeyAt(A, c, Count(A, c)),
         NEW o, o = On(Change(t, StayRight(t, n, p, i, c, d)), c)
  PROVE  InsOn(o, f, its, k)
<1> DEFINE l == Last(t.mem[c].items)
           a == [n EXCEPT !.items[i] = l]
           s == <<n.items[i]>> \o t.mem[d].items
           b == [t.mem[d] EXCEPT !.items = s]
           r == Front(t.mem[c].items)
           e == [t.mem[c] EXCEPT !.items = r]
           ns == Put(p, a) ++ Put(d, b) ++ Put(c, e)
           u == Change(t, ns)
           B == View(u, f)
<1>1. /\ Kept(t, f, w) /\ IsTree(t) /\ A = View(t, f) /\ Shape(A, t.root, w) /\ p \in w.pages
      /\ A[p] = n /\ A[c] = t.mem[c] /\ A[d] = t.mem[d] /\ n \in Nodes /\ n.leaf = FALSE
      /\ Pair(A, t.root, w, p, i, c, d) /\ IsLeaf(A[c]) /\ IsLeaf(A[d])
  BY Zenon DEF Beside
<1>2. Siblings(A, p, i, c, d) /\ p /= d /\ p /= c /\ c /= d
  BY <1>1, Zenon DEF Pair
<1>3. A[d] \in Nodes /\ A[c] \in Nodes /\ A[c].leaf = TRUE
  BY <1>1, <1>2, Zenon DEF Siblings, IsLeaf
<1>4. PutsThree(ns, p, a, d, b, c, e)
  <2> HIDE DEF a, b, e
  <2> QED BY <1>2, PutThree
<1>5. a = Node(FALSE, [A[p].items EXCEPT ![i] = Last(A[c].items)], A[p].kids)
  <2>1. l = Last(A[c].items)
    BY <1>1
  <2> HIDE DEF l
  <2>2. a = Node(FALSE, [n.items EXCEPT ![i] = l], n.kids)
    <3>1. n \in Nodes /\ n.leaf = FALSE
      BY <1>1
    <3> QED BY <3>1, ItemSet, Zenon
  <2> HIDE DEF a
  <2> QED BY <1>1, <2>1, <2>2
<1>6. b = Node(TRUE, <<A[p].items[i]>> \o A[d].items, <<>>)
  <2> DEFINE g == t.mem[d]
  <2>1. IsLeaf(g) /\ g \in Nodes /\ b = [g EXCEPT !.items = s]
    BY <1>1, <1>3
  <2>2. s = <<A[p].items[i]>> \o A[d].items
    BY <1>1
  <2> HIDE DEF s, g, b
  <2>3. b = Node(TRUE, s, <<>>)
    BY <2>1, LeafSet
  <2> QED BY <2>2, <2>3
<1>7. e = Node(TRUE, Front(A[c].items), <<>>)
  <2> DEFINE g == t.mem[c]
  <2>1. IsLeaf(g) /\ g \in Nodes /\ e = [g EXCEPT !.items = r]
    BY <1>1, <1>3
  <2>2. r = Front(A[c].items)
    BY <1>1
  <2> HIDE DEF r, g, e
  <2>3. e = Node(TRUE, r, <<>>)
    BY <2>1, LeafSet
  <2> QED BY <2>2, <2>3
<1>8. u = Change(t, ns) /\ B = View(u, f) /\ o = On(u, c)
  <2>1. ns = StayRight(t, n, p, i, c, d)
    BY DEF StayRight
  <2> HIDE DEF ns
  <2> QED BY <2>1
<1> HIDE DEF a, b, e, ns, u
<1>9. ChangedTo(t, u, ns)
  BY <1>1, <1>8, ChangeIs
<1>10. AtThree(A, B, w.pages, p, a, d, b, c, e)
  BY <1>1, <1>4, <1>9, ThreePut
<1> HIDE DEF B
<1>11. /\ p \in DOMAIN B /\ B[p] = a /\ d \in DOMAIN B /\ B[d] = b /\ c \in DOMAIN B /\ B[c] = e
       /\ \A q \in w.pages \ {p, c, d} : q \in DOMAIN B /\ B[q] = A[q]
  BY <1>10 DEF AtThree
<1>12. LentRight(A, B, p, i, c, d)
  BY <1>3, <1>5, <1>6, <1>7, <1>11 DEF LentRight
<1>13. /\ \A q \in w.pages \ {c, d} : SizedAt(A, t.root, q)
       /\ Count(A, c) >= MaxKeys /\ Count(A, c) <= MaxKeys /\ Count(A, d) >= MinDegree - 1 /\ ~(Count(A, d) >= MaxKeys)
       /\ Count(A, c) \in Nat /\ Count(A, d) \in Nat
  BY BesideSizes, Zenon
<1>14. Count(A, c) >= MinDegree /\ Count(A, c) - 1 <= MaxKeys /\ Count(A, d) < MaxKeys
  <2> DEFINE x == Count(A, c)
             y == Count(A, d)
  <2>1. x \in Nat /\ y \in Nat /\ x >= MaxKeys /\ x <= MaxKeys /\ ~(y >= MaxKeys)
    BY <1>13
  <2> HIDE DEF x, y
  <2>2. x >= MinDegree /\ x - 1 <= MaxKeys /\ y < MaxKeys
    BY <2>1, Numbers
  <2> QED BY <2>2 DEF x, y
<1> DEFINE z == KeyAt(A, c, Count(A, c))
<1>15. \E v : LentKept(A, B, t.root, w, v, p, c, d, z, Count(A, c) - 1, Count(A, d) + 1)
  <2>1. Shape(A, t.root, w) /\ Pair(A, t.root, w, p, i, c, d) /\ p \in w.pages
    BY <1>1
  <2> QED BY <1>11, <1>12, <1>13, <1>14, <2>1, LendRightKeeps
<1>16. Count(A, c) - 1 < MaxKeys
  BY <1>13, BTreeAssumption
<1>17. Either(d, c, c, d)
  BY DEF Either
<1> DEFINE y == Count(A, c) - 1
           x == Count(A, d) + 1
<1>18. Stays(w, c, d, z, y, x, k, c)
  BY <1>2, <1>16 DEF Stays
<1>19. \E v : LentKept(A, B, t.root, w, v, p, c, d, z, y, x)
  BY <1>15
<1>20. u = Change(t, ns) /\ B = View(u, f) /\ o = On(u, c)
  BY <1>8 DEF B
<1> HIDE DEF x, y, z
<1> QED BY <1>4, <1>17, <1>18, <1>19, <1>20, ShareMove

LEMMA ShareRightIs ==
  ASSUME NEW A, NEW t, NEW f, NEW w, NEW its, NEW p, NEW it, NEW k, NEW n, NEW i, NEW c, NEW d,
         Beside(A, t, f, w, its, p, it, k, n, i, c, d), Full(t.mem[c]), ~Full(t.mem[d]), w.lo[c] < k, k < w.hi[c],
         c = n.kids[i], d = n.kids[i + 1], NEW o, o = ShareRight(t, p, i, it)
  PROVE  InsDone(o, f, its, it, k)
<1> DEFINE l == Last(t.mem[c].items)
<1>1. /\ n = t.mem[p] /\ A[c] = t.mem[c] /\ k = it[1] /\ k \in Int /\ Pair(A, t.root, w, p, i, c, d)
  BY Zenon DEF Beside
<1>2. Siblings(A, p, i, c, d) /\ c \in w.pages
  BY <1>1, Zenon DEF Pair
<1>3. A[c] \in Nodes
  BY <1>2, Zenon DEF Siblings
<1>4. Count(A, c) >= 1 /\ Count(A, c) \in Nat
  <2>1. Count(A, c) >= MaxKeys /\ Count(A, c) \in Nat
    BY BesideSizes, Zenon
  <2> QED BY <2>1, BTreeAssumption
<1>5. l[1] = KeyAt(A, c, Count(A, c)) /\ KeyAt(A, c, Count(A, c)) \in Int
  <2>1. l = ItemAt(A, c, Count(A, c))
    BY <1>1, <1>3, <1>4, LastKey
  <2>2. KeyAt(A, c, Count(A, c)) \in Int
    BY <1>3, <1>4, NodeKeys
  <2> QED BY <2>1, <2>2 DEF KeyAt
<1>6. o = CASE l[1] = it[1] -> Ended(t, "no")
            [] l[1] < it[1] -> Added(t, Put(p, [n EXCEPT !.items[i] = it]) ++ Put(d, [t.mem[d] EXCEPT !.items = <<n.items[i]>> \o @]))
            [] OTHER -> On(Change(t, StayRight(t, n, p, i, c, d)), c)
  BY <1>1 DEF ShareRight, StayRight
<1>7. CASE l[1] = it[1]
  <2>1. o = Ended(t, "no")
    <3>1. ~(l[1] < it[1])
      BY <1>1, <1>5, <1>7
    <3> HIDE DEF l
    <3> QED BY <1>6, <1>7, <3>1, Zenon
  <2>2. KeyAt(A, c, Count(A, c)) = k /\ Count(A, c) \in 1 .. Count(A, c)
    BY <1>1, <1>4, <1>5, <1>7
  <2>3. InsNo(o, f, its, k)
    BY <1>2, <2>1, <2>2, ShareSame
  <2> QED BY <2>3 DEF InsDone
<1>8. CASE l[1] < it[1]
  <2>1. o = Added(t, Put(p, [n EXCEPT !.items[i] = it]) ++ Put(d, [t.mem[d] EXCEPT !.items = <<n.items[i]>> \o @]))
    <3>1. l[1] /= it[1]
      BY <1>1, <1>5, <1>8
    <3> HIDE DEF l
    <3> QED BY <1>6, <1>8, <3>1, Zenon
  <2>2. KeyAt(A, c, Count(A, c)) < k
    BY <1>1, <1>5, <1>8
  <2>3. InsYes(o, f, its, it, k)
    BY <2>1, <2>2, ShareRightAdd
  <2> QED BY <2>3 DEF InsDone
<1>9. CASE ~(l[1] = it[1]) /\ ~(l[1] < it[1])
  <2>1. o = On(Change(t, StayRight(t, n, p, i, c, d)), c)
    <3> HIDE DEF l
    <3> QED BY <1>6, <1>9, Zenon
  <2>2. k < KeyAt(A, c, Count(A, c))
    BY <1>1, <1>5, <1>9
  <2>3. InsOn(o, f, its, k)
    BY <2>1, <2>2, ShareRightStay
  <2> QED BY <2>3 DEF InsDone
<1> QED BY <1>7, <1>8, <1>9

LEMMA ShareLeftAdd ==
  ASSUME NEW A, NEW t, NEW f, NEW w, NEW its, NEW p, NEW it, NEW k, NEW n, NEW i, NEW c, NEW d,
         Beside(A, t, f, w, its, p, it, k, n, i, c, d), Full(t.mem[d]), ~Full(t.mem[c]), k < w.hi[d], w.lo[d] < k,
         k < KeyAt(A, d, 1),
         NEW o, o = Added(t, Put(p, [n EXCEPT !.items[i] = it]) ++ Put(c, [t.mem[c] EXCEPT !.items = Append(@, n.items[i])]))
  PROVE  InsYes(o, f, its, it, k)
<1> DEFINE a == [n EXCEPT !.items[i] = it]
           s == Append(t.mem[c].items, n.items[i])
           b == [t.mem[c] EXCEPT !.items = s]
           ns == Put(p, a) ++ Put(c, b)
           u == [Change(t, ns) EXCEPT !.num = @ + 1]
           B == View(u, f)
<1>1. /\ Good(t, f, w, its) /\ ~Hollow(t) /\ Kept(t, f, w) /\ IsTree(t) /\ A = View(t, f)
      /\ Holding(A, t.root, w, its) /\ Shape(A, t.root, w) /\ Sized(A, t.root, w)
      /\ it \in Item /\ k = it[1] /\ k \in Int
      /\ p \in w.pages /\ n = t.mem[p] /\ A[p] = n /\ A[c] = t.mem[c] /\ A[d] = t.mem[d] /\ n \in Nodes /\ n.leaf = FALSE
      /\ Pair(A, t.root, w, p, i, c, d) /\ IsLeaf(A[c]) /\ IsLeaf(A[d])
  BY Zenon DEF Beside
<1>2. /\ Siblings(A, p, i, c, d) /\ c \in w.pages /\ d \in w.pages /\ p /= d /\ p /= c /\ c /= d
      /\ Count(A, c) \in Nat /\ Count(A, d) \in Nat /\ Count(A, p) \in Nat
  BY <1>1, Zenon DEF Pair
<1>3. A[c] \in Nodes /\ A[d].leaf = TRUE /\ i \in 1 .. Count(A, p) /\ A[p].leaf = FALSE
  BY <1>1, <1>2, Zenon DEF Siblings, IsLeaf
<1>4. o.tree = u /\ o.res = "yes"
  <2>1. o = Ended(u, "yes")
    BY DEF Added
  <2> HIDE DEF u
  <2> QED BY <2>1, EndedIs
<1>5. PutsTwo(ns, p, a, c, b)
  <2> HIDE DEF a, b
  <2> QED BY <1>2, PutTwo
<1>6. a = Node(FALSE, [A[p].items EXCEPT ![i] = it], A[p].kids)
  <2>1. a = Node(FALSE, [n.items EXCEPT ![i] = it], n.kids)
    <3>1. n \in Nodes /\ n.leaf = FALSE
      BY <1>1
    <3> QED BY <3>1, ItemSet, Zenon
  <2> HIDE DEF a
  <2> QED BY <1>1, <2>1
<1>7. b = Node(TRUE, Append(A[c].items, A[p].items[i]), <<>>)
  <2> DEFINE g == t.mem[c]
  <2>1. IsLeaf(g) /\ g \in Nodes /\ b = [g EXCEPT !.items = s]
    BY <1>1, <1>3
  <2>2. s = Append(A[c].items, A[p].items[i])
    BY <1>1
  <2> HIDE DEF s, g, b
  <2>3. b = Node(TRUE, s, <<>>)
    BY <2>1, LeafSet
  <2> QED BY <2>2, <2>3
<1>8. u = [Change(t, ns) EXCEPT !.num = @ + 1] /\ B = View(u, f)
  OBVIOUS
<1> HIDE DEF a, b, ns, u
<1>9. ChangedTo(t, u, ns)
  BY <1>1, <1>8, CountedIs
<1>10. AtTwo(A, B, w.pages, p, a, c, b)
  BY <1>1, <1>5, <1>9, TwoPut
<1> HIDE DEF B
<1>11. p \in DOMAIN B /\ B[p] = a /\ c \in DOMAIN B /\ B[c] = b /\ \A q \in w.pages \ {p, c} : q \in DOMAIN B /\ B[q] = A[q]
  BY <1>10, Zenon DEF AtTwo
<1>12. d \in DOMAIN B /\ B[d] = A[d] /\ \A q \in w.pages \ {p, c, d} : q \in DOMAIN B /\ B[q] = A[q]
  BY <1>2, <1>11
<1>13. Count(A, d) >= MaxKeys /\ Count(A, c) < MaxKeys
  BY <1>1, <1>2, BTreeAssumption DEF Full, Count
<1>14. \E v : AddKept(A, B, t.root, w, v, it)
  <2>1. B[p] = Node(FALSE, [A[p].items EXCEPT ![i] = it], A[p].kids) /\ B[c] = Node(TRUE, Append(A[c].items, A[p].items[i]), <<>>)
    BY <1>6, <1>7, <1>11
  <2>2. Shape(A, t.root, w) /\ Sized(A, t.root, w) /\ Pair(A, t.root, w, p, i, c, d) /\ it \in Item /\ k = it[1] /\ p \in w.pages
    BY <1>1
  <2>3. p \in DOMAIN B /\ c \in DOMAIN B
    BY <1>11
  <2> QED BY <1>3, <1>12, <1>13, <2>1, <2>2, <2>3, ShareLeftAdds
<1>15. \A x \in its : x[1] /= k
  <2>1. ~Holds(A[d].items, k)
    <3>1. Count(A, d) >= 1
      BY <1>2, <1>13, BTreeAssumption
    <3> QED BY <1>1, <1>2, <3>1, AllAbove
  <2>2. Holding(A, t.root, w, its) /\ d \in w.pages /\ A[d].leaf = TRUE /\ k \in Int
    BY <1>1, <1>2, <1>3
  <2> SUFFICES ASSUME NEW x \in its PROVE x[1] /= k
    OBVIOUS
  <2> QED BY <2>1, <2>2, NotIn
<1>16. DOMAIN ns = {p, c} /\ ns[p] = a
  BY <1>5, Zenon DEF PutsTwo
<1>17. t.root \in DOMAIN ns => ~IsHollow(ns[t.root])
  <2>1. c /= t.root
    BY <1>1, Zenon DEF Pair
  <2>2. Count(B, p) /= 0
    <3>1. Count(B, p) = Count(A, p)
      <4>1. A[p].items \in Seq(Item) /\ B[p].items = [A[p].items EXCEPT ![i] = it]
        BY <1>1, <1>6, <1>11, NodeSeqs DEF Node
      <4> QED BY <1>1, <1>3, <4>1 DEF Count
    <3> QED BY <1>2, <1>3, <3>1
  <2>3. ~IsHollow(a)
    BY <1>11, <2>2, NotHollow
  <2> QED BY <1>16, <2>1, <2>3
<1>18. ~Hollow(u) /\ \E v : Good(u, f, v, its \cup {it})
  <2>1. \E v : AddKept(View(t, f), View(u, f), t.root, w, v, it)
    BY <1>1, <1>8, <1>14
  <2>2. DOMAIN ns \subseteq w.pages
    BY <1>1, <1>2, <1>16
  <2> QED BY <1>1, <1>8, <1>15, <1>17, <2>1, <2>2, AddGood
<1> QED BY <1>4, <1>15, <1>18, Zenon DEF InsYes

StayLeft(t, n, p, i, c, d) ==
  Put(p, [n EXCEPT !.items[i] = Head(t.mem[d].items)]) ++ Put(c, [t.mem[c] EXCEPT !.items = Append(@, n.items[i])])
    ++ Put(d, [t.mem[d] EXCEPT !.items = Tail(@)])

LEMMA ShareLeftStay ==
  ASSUME NEW A, NEW t, NEW f, NEW w, NEW its, NEW p, NEW it, NEW k, NEW n, NEW i, NEW c, NEW d,
         Beside(A, t, f, w, its, p, it, k, n, i, c, d), Full(t.mem[d]), ~Full(t.mem[c]), k < w.hi[d],
         KeyAt(A, d, 1) < k,
         NEW o, o = On(Change(t, StayLeft(t, n, p, i, c, d)), d)
  PROVE  InsOn(o, f, its, k)
<1> DEFINE l == Head(t.mem[d].items)
           a == [n EXCEPT !.items[i] = l]
           s == Append(t.mem[c].items, n.items[i])
           b == [t.mem[c] EXCEPT !.items = s]
           r == Tail(t.mem[d].items)
           e == [t.mem[d] EXCEPT !.items = r]
           ns == Put(p, a) ++ Put(c, b) ++ Put(d, e)
           u == Change(t, ns)
           B == View(u, f)
<1>1. /\ Kept(t, f, w) /\ IsTree(t) /\ A = View(t, f) /\ Shape(A, t.root, w) /\ p \in w.pages
      /\ A[p] = n /\ A[c] = t.mem[c] /\ A[d] = t.mem[d] /\ n \in Nodes /\ n.leaf = FALSE
      /\ Pair(A, t.root, w, p, i, c, d) /\ IsLeaf(A[c]) /\ IsLeaf(A[d])
  BY Zenon DEF Beside
<1>2. Siblings(A, p, i, c, d) /\ p /= d /\ p /= c /\ c /= d
  BY <1>1, Zenon DEF Pair
<1>3. A[d] \in Nodes /\ A[c] \in Nodes /\ A[c].leaf = TRUE /\ A[d].leaf = TRUE
  BY <1>1, <1>2, Zenon DEF Siblings, IsLeaf
<1>4. PutsThree(ns, p, a, c, b, d, e)
  <2> HIDE DEF a, b, e
  <2> QED BY <1>2, PutThree
<1>5. a = Node(FALSE, [A[p].items EXCEPT ![i] = Head(A[d].items)], A[p].kids)
  <2>1. l = Head(A[d].items)
    BY <1>1
  <2> HIDE DEF l
  <2>2. a = Node(FALSE, [n.items EXCEPT ![i] = l], n.kids)
    <3>1. n \in Nodes /\ n.leaf = FALSE
      BY <1>1
    <3> QED BY <3>1, ItemSet, Zenon
  <2> HIDE DEF a
  <2> QED BY <1>1, <2>1, <2>2
<1>6. b = Node(TRUE, Append(A[c].items, A[p].items[i]), <<>>)
  <2> DEFINE g == t.mem[c]
  <2>0. IsLeaf(g) /\ g \in Nodes
    BY <1>1, <1>3
  <2>1. b = [g EXCEPT !.items = s]
    OBVIOUS
  <2>2. s = Append(A[c].items, A[p].items[i])
    BY <1>1
  <2> HIDE DEF s, g, b
  <2>3. b = Node(TRUE, s, <<>>)
    BY <2>0, <2>1, LeafSet
  <2> QED BY <2>2, <2>3
<1>7. e = Node(TRUE, Tail(A[d].items), <<>>)
  <2> DEFINE g == t.mem[d]
  <2>0. IsLeaf(g) /\ g \in Nodes
    BY <1>1, <1>3
  <2>1. e = [g EXCEPT !.items = r]
    OBVIOUS
  <2>2. r = Tail(A[d].items)
    BY <1>1
  <2> HIDE DEF r, g, e
  <2>3. e = Node(TRUE, r, <<>>)
    BY <2>0, <2>1, LeafSet
  <2> QED BY <2>2, <2>3
<1>8. u = Change(t, ns) /\ B = View(u, f) /\ o = On(u, d)
  <2>1. ns = StayLeft(t, n, p, i, c, d)
    BY DEF StayLeft
  <2> HIDE DEF ns
  <2> QED BY <2>1
<1> HIDE DEF a, b, e, ns, u
<1>9. ChangedTo(t, u, ns)
  BY <1>1, <1>8, ChangeIs
<1>10. AtThree(A, B, w.pages, p, a, c, b, d, e)
  BY <1>1, <1>4, <1>9, ThreePut
<1> HIDE DEF B
<1>11. /\ p \in DOMAIN B /\ B[p] = a /\ c \in DOMAIN B /\ B[c] = b /\ d \in DOMAIN B /\ B[d] = e
       /\ \A q \in w.pages \ {p, c, d} : q \in DOMAIN B /\ B[q] = A[q]
  BY <1>10 DEF AtThree
<1>12. LentLeft(A, B, p, i, c, d)
  BY <1>3, <1>5, <1>6, <1>7, <1>11 DEF LentLeft
<1>13. /\ \A q \in w.pages \ {c, d} : SizedAt(A, t.root, q)
       /\ Count(A, d) >= MaxKeys /\ Count(A, d) <= MaxKeys /\ Count(A, c) >= MinDegree - 1 /\ ~(Count(A, c) >= MaxKeys)
       /\ Count(A, c) \in Nat /\ Count(A, d) \in Nat
  BY BesideSizes, Zenon
<1>14. Count(A, d) >= MinDegree /\ Count(A, d) - 1 <= MaxKeys /\ Count(A, c) < MaxKeys
  <2> DEFINE x == Count(A, d)
             y == Count(A, c)
  <2>1. x \in Nat /\ y \in Nat /\ x >= MaxKeys /\ x <= MaxKeys /\ ~(y >= MaxKeys)
    BY <1>13
  <2> HIDE DEF x, y
  <2>2. x >= MinDegree /\ x - 1 <= MaxKeys /\ y < MaxKeys
    BY <2>1, Numbers
  <2> QED BY <2>2 DEF x, y
<1> DEFINE z == KeyAt(A, d, 1)
<1>15. \E v : LentKept(A, B, t.root, w, v, p, c, d, z, Count(A, c) + 1, Count(A, d) - 1)
  <2>1. Shape(A, t.root, w) /\ Pair(A, t.root, w, p, i, c, d) /\ p \in w.pages
    BY <1>1
  <2> QED BY <1>11, <1>12, <1>13, <1>14, <2>1, LendLeftKeeps
<1>16. Count(A, d) - 1 < MaxKeys
  BY <1>13, BTreeAssumption
<1>17. Either(c, d, c, d)
  BY DEF Either
<1> DEFINE y == Count(A, c) + 1
           x == Count(A, d) - 1
<1>18. Stays(w, c, d, z, y, x, k, d)
  BY <1>2, <1>16 DEF Stays
<1>19. \E v : LentKept(A, B, t.root, w, v, p, c, d, z, y, x)
  BY <1>15
<1>20. u = Change(t, ns) /\ B = View(u, f) /\ o = On(u, d)
  BY <1>8 DEF B
<1> HIDE DEF x, y, z
<1> QED BY <1>4, <1>17, <1>18, <1>19, <1>20, ShareMove

LEMMA ShareLeftIs ==
  ASSUME NEW A, NEW t, NEW f, NEW w, NEW its, NEW p, NEW it, NEW k, NEW n, NEW j, NEW i, i = j - 1, NEW c, NEW d,
         Beside(A, t, f, w, its, p, it, k, n, i, c, d), Full(t.mem[d]), ~Full(t.mem[c]), w.lo[d] < k, k < w.hi[d],
         c = n.kids[i], d = n.kids[j], NEW o, o = ShareLeft(t, p, j, it)
  PROVE  InsDone(o, f, its, it, k)
<1> DEFINE l == Head(t.mem[d].items)
<1>1. /\ n = t.mem[p] /\ A[d] = t.mem[d] /\ k = it[1] /\ k \in Int /\ Pair(A, t.root, w, p, i, c, d)
  BY Zenon DEF Beside
<1>2. Siblings(A, p, i, c, d) /\ d \in w.pages
  BY <1>1, Zenon DEF Pair
<1>3. A[d] \in Nodes
  BY <1>2, Zenon DEF Siblings
<1>4. Count(A, d) >= 1 /\ Count(A, d) \in Nat
  <2>1. Count(A, d) >= MaxKeys /\ Count(A, d) \in Nat
    BY BesideSizes, Zenon
  <2> QED BY <2>1, BTreeAssumption
<1>5. l[1] = KeyAt(A, d, 1) /\ KeyAt(A, d, 1) \in Int
  <2>1. l = ItemAt(A, d, 1)
    BY <1>1, <1>3, <1>4, LastKey
  <2>2. KeyAt(A, d, 1) \in Int
    BY <1>3, <1>4, NodeKeys
  <2> QED BY <2>1, <2>2 DEF KeyAt
<1>6. o = CASE l[1] = it[1] -> Ended(t, "no")
            [] l[1] > it[1] -> Added(t, Put(p, [n EXCEPT !.items[i] = it]) ++ Put(c, [t.mem[c] EXCEPT !.items = Append(@, n.items[i])]))
            [] OTHER -> On(Change(t, StayLeft(t, n, p, i, c, d)), d)
  BY <1>1 DEF ShareLeft, StayLeft
<1> DEFINE x == l[1]
           y == KeyAt(A, d, 1)
<1>10. x = y /\ y \in Int /\ k \in Int /\ it[1] = k
  BY <1>1, <1>5
<1>11. 1 \in 1 .. Count(A, d)
  BY <1>4, SMT
<1>12. o = CASE x = it[1] -> Ended(t, "no")
            [] x > it[1] -> Added(t, Put(p, [n EXCEPT !.items[i] = it]) ++ Put(c, [t.mem[c] EXCEPT !.items = Append(@, n.items[i])]))
            [] OTHER -> On(Change(t, StayLeft(t, n, p, i, c, d)), d)
  BY <1>6
<1> HIDE DEF l, x, y
<1>7. CASE x = it[1]
  <2>1. o = Ended(t, "no")
    <3>1. ~(x > it[1])
      BY <1>10, <1>7
    <3> QED BY <1>12, <1>7, <3>1, Zenon
  <2>2. KeyAt(A, d, 1) = k
    BY <1>10, <1>7 DEF y
  <2>3. InsNo(o, f, its, k)
    BY <1>2, <1>11, <2>1, <2>2, ShareSame
  <2> QED BY <2>3 DEF InsDone
<1>8. CASE x > it[1]
  <2>1. o = Added(t, Put(p, [n EXCEPT !.items[i] = it]) ++ Put(c, [t.mem[c] EXCEPT !.items = Append(@, n.items[i])]))
    <3>1. x /= it[1]
      BY <1>10, <1>8
    <3> QED BY <1>12, <1>8, <3>1, Zenon
  <2>2. k < KeyAt(A, d, 1)
    BY <1>10, <1>8 DEF y
  <2>3. InsYes(o, f, its, it, k)
    BY <2>1, <2>2, ShareLeftAdd
  <2> QED BY <2>3 DEF InsDone
<1>9. CASE ~(x = it[1]) /\ ~(x > it[1])
  <2>1. o = On(Change(t, StayLeft(t, n, p, i, c, d)), d)
    <3> QED BY <1>12, <1>9, Zenon
  <2>2. KeyAt(A, d, 1) < k
    BY <1>10, <1>9 DEF y
  <2>3. InsOn(o, f, its, k)
    BY <2>1, <2>2, ShareLeftStay
  <2> QED BY <2>3 DEF InsDone
<1> QED BY <1>7, <1>8, <1>9

ThreeNs(n, p, i, c, d, x, all, m, second) ==
  Put(p, [n EXCEPT !.items = InsertAt([@ EXCEPT ![i] = all[m + 1]], i + 1, all[second]), !.kids = InsertAt(@, i + 2, x)])
    ++ Put(c, Node(TRUE, SubSeq(all, 1, m), <<>>))
    ++ Put(d, Node(TRUE, SubSeq(all, m + 2, second - 1), <<>>))
    ++ Put(x, Node(TRUE, SubSeq(all, second + 1, Len(all)), <<>>))

ThreeFor(t, p, i, n, c, d, all, m, r, second, x, ns) ==
  /\ n = t.mem[p] /\ c = n.kids[i] /\ d = n.kids[i + 1]
  /\ all = t.mem[c].items \o <<n.items[i]>> \o t.mem[d].items
  /\ m = (2 * MaxKeys) \div 3 /\ r = 2 * MaxKeys - 1 - m - (MaxKeys - MinDegree - 1)
  /\ second = m + r + 2 /\ x = t.pages /\ ns = ThreeNs(n, p, i, c, d, x, all, m, second)

LEMMA Split3Is ==
  ASSUME NEW t, NEW p, NEW i, NEW n, NEW c, NEW d, NEW all, NEW m, NEW r, NEW second, NEW x, NEW ns,
         ThreeFor(t, p, i, n, c, d, all, m, r, second, x, ns), IsTree(t), NEW u, u = Split3Leaf(t, p, i)
  PROVE  ChangedTo(t, u, ns) /\ u.num = t.num /\ u.pages = t.pages + 1
<1>1. u = Change([t EXCEPT !.pages = @ + 1], ns)
  BY Zenon DEF Split3Leaf, ThreeNs, MinDegree, ThreeFor
<1> QED BY <1>1, GrownIs

LEMMA InsertSplit3 ==
  ASSUME NEW A, NEW t, NEW f, NEW w, NEW its, NEW p, NEW it, NEW k, NEW n, NEW i, NEW c, NEW d,
         Beside(A, t, f, w, its, p, it, k, n, i, c, d), Full(t.mem[c]), Full(t.mem[d]), w.lo[c] < k, k < w.hi[d],
         c = n.kids[i], d = n.kids[i + 1], NEW o, o = InsertBelow(Split3Leaf(t, p, i), p, it)
  PROVE  InsNo(o, f, its, k) \/ InsOn(o, f, its, k)
<1> DEFINE all == t.mem[c].items \o <<n.items[i]>> \o t.mem[d].items
           m == (2 * MaxKeys) \div 3
           r == 2 * MaxKeys - 1 - m - (MaxKeys - MinDegree - 1)
           second == m + r + 2
           x == t.pages
           s == InsertAt([n.items EXCEPT ![i] = all[m + 1]], i + 1, all[second])
           h == InsertAt(n.kids, i + 2, x)
           a == [n EXCEPT !.items = InsertAt([@ EXCEPT ![i] = all[m + 1]], i + 1, all[second]), !.kids = InsertAt(@, i + 2, x)]
           b == Node(TRUE, SubSeq(all, 1, m), <<>>)
           e == Node(TRUE, SubSeq(all, m + 2, second - 1), <<>>)
           g == Node(TRUE, SubSeq(all, second + 1, Len(all)), <<>>)
           ns == ThreeNs(n, p, i, c, d, x, all, m, second)
           u == Split3Leaf(t, p, i)
           B == View(u, f)
<1>1. /\ Good(t, f, w, its) /\ ~Hollow(t) /\ Kept(t, f, w) /\ IsTree(t) /\ t.pages \in Nat /\ A = View(t, f)
      /\ Shape(A, t.root, w) /\ Sized(A, t.root, w)
      /\ it \in Item /\ k = it[1] /\ k \in Int /\ w.lo[p] < k /\ k < w.hi[p]
      /\ p \in w.pages /\ p \in DOMAIN t.mem /\ c \in DOMAIN t.mem /\ d \in DOMAIN t.mem
      /\ n = t.mem[p] /\ A[p] = n /\ A[c] = t.mem[c] /\ A[d] = t.mem[d] /\ n \in Nodes /\ n.leaf = FALSE /\ ~Full(n)
      /\ Pair(A, t.root, w, p, i, c, d) /\ IsLeaf(A[c])
  BY Zenon DEF Beside
<1>2. /\ c \in w.pages /\ d \in w.pages /\ c /= t.root /\ d /= t.root /\ p /= c /\ p /= d /\ c /= d
      /\ Count(A, p) \in Nat
  BY <1>1, Zenon DEF Pair
<1>3. x \in Nat /\ x \notin w.pages /\ p /= x /\ c /= x /\ d /= x
  <2>1. w.pages \subseteq 0 .. t.pages - 1
    BY <1>1, Zenon DEF Kept
  <2> QED BY <1>1, <1>2, <2>1
<1>4. ThreeFor(t, p, i, n, c, d, all, m, r, second, x, ns)
  <2>1. n = t.mem[p]
    BY <1>1
  <2> QED BY <2>1, Zenon DEF ThreeFor
<1>5. PutsFour(ns, p, a, c, b, d, e, x, g)
  <2>1. ns = Put(p, a) ++ Put(c, b) ++ Put(d, e) ++ Put(x, g)
    BY DEF ThreeNs
  <2> HIDE DEF a, b, e, g, x, ns
  <2> QED BY <1>2, <1>3, <2>1, PutFour
<1>6. a = Node(FALSE, s, h)
  <2> HIDE DEF s, h
  <2>1. [n EXCEPT !.items = s, !.kids = h] = Node(n.leaf, s, h)
    <3>1. n \in Nodes
      BY <1>1
    <3> HIDE DEF a, b, e, g, ns, u, x
    <3> QED BY <3>1, NodeChanged
  <2> QED BY <1>1, <2>1, Zenon DEF s, h, a
<1>7. all = AllOf(A, p, i, c, d)
  BY <1>1 DEF AllOf
<1>8. u = Split3Leaf(t, p, i) /\ B = View(u, f) /\ second = m + r + 2
  OBVIOUS
<1>9. b = Node(TRUE, SubSeq(all, 1, m), <<>>) /\ e = Node(TRUE, SubSeq(all, m + 2, m + r + 1), <<>>)
      /\ g = Node(TRUE, SubSeq(all, m + r + 3, Len(all)), <<>>)
  <2>1. m \in Nat /\ r \in Int
    BY Numbers
  <2> HIDE DEF m, r, all
  <2>2. second - 1 = m + r + 1 /\ second + 1 = m + r + 3
    BY <2>1
  <2> QED BY <2>2
<1> HIDE DEF a, b, e, g, ns, u
<1>10. ChangedTo(t, u, ns) /\ u.num = t.num /\ u.pages = t.pages + 1
  <2> HIDE DEF all, m, r, x, second
  <2> QED BY <1>1, <1>4, <1>8, Split3Is
<1>11. AtFour(A, B, w.pages, p, a, c, b, d, e, x, g)
  BY <1>1, <1>5, <1>8, <1>10, FourPut
<1> HIDE DEF B
<1>12. /\ p \in DOMAIN B /\ B[p] = a /\ c \in DOMAIN B /\ B[c] = b /\ d \in DOMAIN B /\ B[d] = e
       /\ x \in DOMAIN B /\ B[x] = g
       /\ \A q \in w.pages \ {p, c, d, x} : q \in DOMAIN B /\ B[q] = A[q]
  BY <1>11, Zenon DEF AtFour
<1>13. SplitsInThree(A, B, p, i, c, d, x, m, r)
  <2>1. B[p] = Node(FALSE, InsertAt([A[p].items EXCEPT ![i] = all[m + 1]], i + 1, all[m + r + 2]), InsertAt(A[p].kids, i + 2, x))
    BY <1>1, <1>6, <1>8, <1>12
  <2> HIDE DEF all, m, r, x, second
  <2> QED BY <1>7, <1>9, <1>12, <2>1, Zenon DEF SplitsInThree
<1>14. \A q \in w.pages \ {p, c, d} : q \in DOMAIN B /\ B[q] = A[q]
  BY <1>3, <1>12
<1>15. PICK v : ThreeKept(A, B, t.root, w, v, p, c, d, x, k)
  <2>1. Count(A, c) >= MaxKeys /\ Count(A, d) >= MaxKeys /\ Count(A, p) < MaxKeys
    BY <1>1, <1>2, BTreeAssumption DEF Full, Count
  <2>2. m = (2 * MaxKeys) \div 3 /\ r = 2 * MaxKeys - 1 - m - (MaxKeys - MinDegree - 1)
    OBVIOUS
  <2>3. A[c].leaf = TRUE
    BY <1>1, Zenon DEF IsLeaf
  <2> HIDE DEF m, r, x, all, second
  <2> QED BY <1>1, <1>3, <1>12, <1>13, <1>14, <2>1, <2>2, <2>3, ThreeKeeps
<1> HIDE DEF m, r, x, all, second
<1>17. /\ Moved(A, B, t.root, w, v, p) /\ v.pages = w.pages \cup {x}
       /\ Count(B, p) = Count(A, p) + 1 /\ Count(B, c) < MaxKeys /\ Count(B, d) < MaxKeys /\ Count(B, x) < MaxKeys
       /\ GoesOn(B, v, p, k, {c, d, x})
  BY <1>15, Zenon DEF ThreeKept
<1>18. DOMAIN ns = {p, c, d, x} /\ ns[p] = a
  BY <1>5, Zenon DEF PutsFour
<1>19. Widens(u, v, w, ns)
  <2>1. w.pages \subseteq 0 .. t.pages - 1
    BY <1>1, Zenon DEF Kept
  <2>2. p \in w.pages /\ c \in w.pages /\ d \in w.pages /\ x = t.pages /\ t.pages \in Nat /\ u.pages = t.pages + 1
    BY <1>1, <1>2, <1>10 DEF x
  <2>3. v.pages \subseteq w.pages \cup DOMAIN ns /\ w.pages \cup DOMAIN ns \subseteq v.pages
    BY <1>17, <1>18, <2>2
  <2>4. u.pages \in Nat /\ v.pages \subseteq 0 .. u.pages - 1
    BY <1>17, <2>1, <2>2
  <2> QED BY <2>3, <2>4, Zenon DEF Widens
<1>20. t.root \in DOMAIN ns => ~IsHollow(ns[t.root])
  <2>1. t.root \in w.pages
    BY <1>1, Zenon DEF Shape, Topped
  <2>2. t.root \in DOMAIN ns => t.root = p
    BY <1>2, <1>3, <1>18, <2>1
  <2>3. Count(B, p) /= 0
    BY <1>2, <1>17
  <2>4. ~IsHollow(a)
    BY <1>12, <2>3, NotHollow
  <2> QED BY <1>18, <2>2, <2>4
<1>21. Good(u, f, v, its) /\ ~Hollow(u)
  BY <1>1, <1>8, <1>10, <1>17, <1>19, <1>20, MovedGood
<1>22. DOMAIN u.mem = DOMAIN ns \cup DOMAIN t.mem
  BY <1>10, Zenon DEF ChangedTo
<1> DEFINE S == {c, d, x}
<1>23. S \subseteq DOMAIN u.mem /\ p \in DOMAIN u.mem /\ GoesOn(B, v, p, k, S) /\ \A q \in S : Count(B, q) < MaxKeys
  BY <1>17, <1>18, <1>22
<1> HIDE DEF S
<1> QED BY <1>1, <1>8, <1>21, <1>23, InsertBelowIs

DownOn(t, u, f, w, its, p, it, k, n, i, c, ps) ==
  Down(u, f, w, its, p, it, k, n, i, c) /\ u.mem[c] = t.mem[c] /\ ps \subseteq DOMAIN u.mem

LEMMA LoadDown ==
  ASSUME NEW t, NEW f, NEW w, NEW its, NEW p, NEW it, NEW k, NEW n, NEW i, NEW c, Down(t, f, w, its, p, it, k, n, i, c),
         NEW ps, ps \subseteq w.pages, NEW u, u = Load(t, f, ps)
  PROVE  DownOn(t, u, f, w, its, p, it, k, n, i, c, ps)
<1> DEFINE A == View(t, f)
           B == View(u, f)
<1>1. Ins(t, f, w, its, p, it, k, n) /\ ~Holds(n.items, k) /\ n.leaf = FALSE /\ i = Smaller(n.items, k) + 1
      /\ KidOn(A, t.root, w, p, i, c, k) /\ c \in DOMAIN t.mem
  BY Zenon DEF Down
<1>2. p \in w.pages
  <2>1. DownAt(A, t, f, w, its, p, it, k, n, i, c)
    BY DownIs
  <2>2. NodeSeen(A, w, p, n)
    BY <2>1, Zenon DEF DownAt
  <2> QED BY <2>2, Zenon DEF NodeSeen
<1>3. Ins(u, f, w, its, p, it, k, n) /\ Loads(t, u, f, w, ps)
  BY <1>1, LoadIns
<1>4. /\ DOMAIN u.mem = DOMAIN t.mem \cup ps /\ u.root = t.root /\ \A q \in w.pages : B[q] = A[q]
      /\ \A q \in DOMAIN t.mem : u.mem[q] = t.mem[q]
  BY <1>3, Zenon DEF Loads
<1>5. KidOn(B, u.root, w, p, i, c, k)
  <2>1. B[p] = A[p]
    BY <1>2, <1>4
  <2> QED BY <1>1, <1>4, <2>1 DEF KidOn, KidBelow, KidCount, KidAt, Count
<1>6. c \in DOMAIN u.mem /\ ps \subseteq DOMAIN u.mem /\ u.mem[c] = t.mem[c]
  BY <1>1, <1>4
<1> QED BY <1>1, <1>3, <1>5, <1>6, Zenon DEF Down, DownOn

BesideOf(u, f, w, its, p, it, k, n, i, c, d) == Beside(View(u, f), u, f, w, its, p, it, k, n, i, c, d)
BetweenKids(w, c, d, x, k) == w.lo[x] < k /\ k < w.hi[x] /\ w.lo[c] < k /\ k < w.hi[d]

KidsIn(A, w, p, n, i, c) ==
  /\ \A j \in 1 .. Len(n.kids) : n.kids[j] \in w.pages
  /\ Len(n.kids) = Count(A, p) + 1 /\ Count(A, p) \in Nat /\ Len(n.kids) \in Nat /\ Len(n.kids) >= 2
  /\ i \in 1 .. Len(n.kids) /\ p \in w.pages /\ c = n.kids[i]

LEMMA KidPages ==
  ASSUME NEW t, NEW f, NEW w, NEW its, NEW p, NEW it, NEW k, NEW n, NEW i, NEW c, Down(t, f, w, its, p, it, k, n, i, c)
  PROVE  KidsIn(View(t, f), w, p, n, i, c)
<1> DEFINE A == View(t, f)
<1>1. DownAt(A, t, f, w, its, p, it, k, n, i, c)
  BY DownIs
<1>2. /\ Shape(A, t.root, w) /\ Sized(A, t.root, w) /\ NodeSeen(A, w, p, n) /\ n.leaf = FALSE /\ ~Hollow(t)
      /\ n = t.mem[p] /\ p \in DOMAIN t.mem /\ i \in 1 .. KidCount(A, p) /\ c = n.kids[i]
  BY <1>1, Zenon DEF DownAt
<1>3. /\ p \in w.pages /\ A[p] = n /\ n \in Nodes
      /\ Count(A, p) = Len(n.items) /\ KidCount(A, p) = Len(n.kids)
      /\ Len(n.kids) = (IF n.leaf THEN 0 ELSE Len(n.items) + 1) /\ Len(n.items) \in Nat
  BY <1>2, Zenon DEF NodeSeen
<1> HIDE DEF A
<1>4. ASSUME NEW j \in 1 .. Len(n.kids) PROVE n.kids[j] \in w.pages
  <2>1. j \in 1 .. KidCount(A, p)
    BY <1>3
  <2>2. KidBelow(A, t.root, w, p, j, KidAt(A, p, j))
    BY <1>2, <1>3, <2>1, KidIsBelow
  <2>3. KidAt(A, p, j) = n.kids[j]
    BY <1>3 DEF KidAt
  <2>4. KidAt(A, p, j) \in w.pages
    BY <2>2, Zenon DEF KidBelow
  <2> QED BY <2>3, <2>4
<1>5. Len(n.items) >= 1
  <2>1. CASE p = t.root
    <3>1. n.items /= <<>>
      BY <1>2, <2>1 DEF Hollow
    <3>2. n.items \in Seq(Item)
      BY <1>3, NodeSeqs
    <3> QED BY <1>3, <3>1, <3>2
  <2>2. CASE p /= t.root
    <3>1. Count(A, p) >= MinDegree - 1
      BY <1>2, <1>3, <2>2 DEF Sized
    <3> QED BY <1>3, <3>1, Numbers
  <2> QED BY <2>1, <2>2
<1>6. Len(n.kids) = Len(n.items) + 1
  BY <1>2, <1>3
<1> QED BY <1>2, <1>3, <1>4, <1>5, <1>6 DEF A, KidsIn

LEMMA PairBetween ==
  ASSUME NEW A, NEW root, NEW w, NEW p, NEW i, NEW c, NEW d, Pair(A, root, w, p, i, c, d), NEW x, x \in {c, d},
         NEW k \in Int, w.lo[x] < k, k < w.hi[x]
  PROVE  BetweenKids(w, c, d, x, k)
<1>1. /\ w.hi[c] = w.lo[d] /\ w.hi[c] \in Int /\ w.lo[c] \in Int /\ w.hi[d] \in Int
      /\ w.lo[c] < w.hi[c] /\ w.lo[d] < w.hi[d]
  BY Zenon DEF Pair
<1>2. CASE x = c
  BY <1>1, <1>2 DEF BetweenKids
<1>3. CASE x = d
  BY <1>1, <1>3 DEF BetweenKids
<1> QED BY <1>2, <1>3

DownBeside(t, u, f, w, its, p, it, k, n, i, x, j, c, d) ==
  /\ Down(u, f, w, its, p, it, k, n, i, x) /\ u.mem[x] = t.mem[x]
  /\ BesideOf(u, f, w, its, p, it, k, n, j, c, d) /\ BetweenKids(w, c, d, x, k)

LEMMA DownRight ==
  ASSUME NEW t, NEW f, NEW w, NEW its, NEW p, NEW it, NEW k, NEW n, NEW i, NEW c, Down(t, f, w, its, p, it, k, n, i, c),
         t.mem[c].leaf = TRUE, i + 1 <= Len(n.kids), NEW d, d = n.kids[i + 1], NEW u, u = Load(t, f, {d})
  PROVE  DownBeside(t, u, f, w, its, p, it, k, n, i, c, i, c, d)
<1> DEFINE B == View(u, f)
<1>1. /\ \A j \in 1 .. Len(n.kids) : n.kids[j] \in w.pages
      /\ Len(n.kids) \in Nat /\ i \in 1 .. Len(n.kids) /\ c = n.kids[i]
  <2>1. KidsIn(View(t, f), w, p, n, i, c)
    BY KidPages
  <2> QED BY <2>1, Zenon DEF KidsIn
<1>2. d \in w.pages
  BY <1>1
<1>3. Down(u, f, w, its, p, it, k, n, i, c) /\ u.mem[c] = t.mem[c] /\ d \in DOMAIN u.mem
  <2> DEFINE ps == {d}
  <2>1. ps \subseteq w.pages /\ u = Load(t, f, ps)
    BY <1>2
  <2> HIDE DEF ps
  <2>2. DownOn(t, u, f, w, its, p, it, k, n, i, c, ps)
    BY <2>1, LoadDown, Zenon
  <2> QED BY <2>2, Zenon DEF ps, DownOn
<1>4. i \in 1 .. Count(B, p)
  <2>1. Len(n.kids) = Count(B, p) + 1 /\ Count(B, p) \in Nat
    <3>1. KidsIn(B, w, p, n, i, c)
      BY <1>3, KidPages
    <3> QED BY <3>1, Zenon DEF KidsIn
  <2> HIDE DEF B
  <2> QED BY <1>1, <2>1
<1>5. c \in DOMAIN u.mem /\ u.mem[c].leaf = TRUE
  BY <1>3, Zenon DEF Down
<1>6. c \in {c, d} /\ B = View(u, f)
  OBVIOUS
<1> HIDE DEF B
<1>7. Beside(B, u, f, w, its, p, it, k, n, i, c, d)
  BY <1>1, <1>3, <1>4, <1>5, <1>6, BesideIs
<1>8. Pair(B, u.root, w, p, i, c, d) /\ k \in Int
  BY <1>7, Zenon DEF Beside
<1>9. w.lo[c] < k /\ k < w.hi[c]
  BY <1>3, Zenon DEF Down, KidOn
<1>10. BetweenKids(w, c, d, c, k)
  BY <1>6, <1>8, <1>9, PairBetween
<1> QED BY <1>3, <1>6, <1>7, <1>10, Zenon DEF BesideOf, DownBeside

LEMMA DownLeft ==
  ASSUME NEW t, NEW f, NEW w, NEW its, NEW p, NEW it, NEW k, NEW n, NEW i, NEW c, Down(t, f, w, its, p, it, k, n, i, c),
         t.mem[c].leaf = TRUE, NEW j, j = i - 1, j >= 1, NEW d, d = n.kids[j], NEW u, u = Load(t, f, {d})
  PROVE  DownBeside(t, u, f, w, its, p, it, k, n, i, c, j, d, c)
<1> DEFINE B == View(u, f)
<1>1. /\ \A x \in 1 .. Len(n.kids) : n.kids[x] \in w.pages
      /\ Len(n.kids) \in Nat /\ i \in 1 .. Len(n.kids) /\ c = n.kids[i]
  <2>1. KidsIn(View(t, f), w, p, n, i, c)
    BY KidPages
  <2> QED BY <2>1, Zenon DEF KidsIn
<1>2. d \in w.pages /\ j + 1 = i
  BY <1>1
<1>3. Down(u, f, w, its, p, it, k, n, i, c) /\ u.mem[c] = t.mem[c] /\ d \in DOMAIN u.mem
  <2> DEFINE ps == {d}
  <2>1. ps \subseteq w.pages /\ u = Load(t, f, ps)
    BY <1>2
  <2> HIDE DEF ps
  <2>2. DownOn(t, u, f, w, its, p, it, k, n, i, c, ps)
    BY <2>1, LoadDown, Zenon
  <2> QED BY <2>2, Zenon DEF ps, DownOn
<1>4. j \in 1 .. Count(B, p)
  <2>1. Len(n.kids) = Count(B, p) + 1 /\ Count(B, p) \in Nat
    <3>1. KidsIn(B, w, p, n, i, c)
      BY <1>3, KidPages
    <3> QED BY <3>1, Zenon DEF KidsIn
  <2> HIDE DEF B
  <2> QED BY <1>1, <2>1
<1>5. c \in DOMAIN u.mem /\ u.mem[c].leaf = TRUE
  BY <1>3, Zenon DEF Down
<1>6. c \in {d, c} /\ B = View(u, f) /\ c = n.kids[j + 1]
  BY <1>1, <1>2
<1> HIDE DEF B
<1>7. Beside(B, u, f, w, its, p, it, k, n, j, d, c)
  BY <1>1, <1>3, <1>4, <1>5, <1>6, BesideIs
<1>8. Pair(B, u.root, w, p, j, d, c) /\ k \in Int
  BY <1>7, Zenon DEF Beside
<1>9. w.lo[c] < k /\ k < w.hi[c]
  BY <1>3, Zenon DEF Down, KidOn
<1>10. BetweenKids(w, d, c, c, k)
  BY <1>6, <1>8, <1>9, PairBetween
<1> QED BY <1>3, <1>6, <1>7, <1>10, Zenon DEF BesideOf, DownBeside

LEMMA FullAt ==
  ASSUME NEW A, NEW t, NEW f, NEW w, NEW its, NEW p, NEW it, NEW k, NEW n, NEW i, NEW c, NEW d,
         Beside(A, t, f, w, its, p, it, k, n, i, c, d)
  PROVE  t.mem[p] = n
BY Zenon DEF Beside

LEMMA ShareRightGo ==
  ASSUME NEW t, NEW f, NEW w, NEW its, NEW p, NEW it, NEW k, NEW n, NEW i, NEW c, NEW d,
         BesideOf(t, f, w, its, p, it, k, n, i, c, d), BetweenKids(w, c, d, c, k), Full(t.mem[c]), ~Full(t.mem[d]),
         c = n.kids[i], d = n.kids[i + 1], NEW o, o = ShareRight(t, p, i, it)
  PROVE  InsDone(o, f, its, it, k)
<1> DEFINE A == View(t, f)
<1>1. Beside(A, t, f, w, its, p, it, k, n, i, c, d) /\ w.lo[c] < k /\ k < w.hi[c]
  BY Zenon DEF BesideOf, BetweenKids
<1> HIDE DEF A
<1> QED BY <1>1, ShareRightIs

LEMMA ShareLeftGo ==
  ASSUME NEW t, NEW f, NEW w, NEW its, NEW p, NEW it, NEW k, NEW n, NEW j, NEW i, i = j - 1, NEW c, NEW d,
         BesideOf(t, f, w, its, p, it, k, n, i, c, d), BetweenKids(w, c, d, d, k), Full(t.mem[d]), ~Full(t.mem[c]),
         c = n.kids[i], d = n.kids[j], NEW o, o = ShareLeft(t, p, j, it)
  PROVE  InsDone(o, f, its, it, k)
<1> DEFINE A == View(t, f)
<1>1. Beside(A, t, f, w, its, p, it, k, n, i, c, d) /\ w.lo[d] < k /\ k < w.hi[d]
  BY Zenon DEF BesideOf, BetweenKids
<1> HIDE DEF A
<1> QED BY <1>1, ShareLeftIs

LEMMA SplitThreeGo ==
  ASSUME NEW t, NEW f, NEW w, NEW its, NEW p, NEW it, NEW k, NEW n, NEW i, NEW c, NEW d, NEW x,
         BesideOf(t, f, w, its, p, it, k, n, i, c, d), BetweenKids(w, c, d, x, k), Full(t.mem[c]), Full(t.mem[d]),
         c = n.kids[i], d = n.kids[i + 1], NEW o, o = InsertBelow(Split3Leaf(t, p, i), p, it)
  PROVE  InsDone(o, f, its, it, k)
<1> DEFINE A == View(t, f)
<1>1. Beside(A, t, f, w, its, p, it, k, n, i, c, d) /\ w.lo[c] < k /\ k < w.hi[d]
  BY Zenon DEF BesideOf, BetweenKids
<1> HIDE DEF A
<1>2. InsNo(o, f, its, k) \/ InsOn(o, f, its, k)
  BY <1>1, InsertSplit3
<1> QED BY <1>2 DEF InsDone

RightTree(t, f, n, i) == IF i + 1 <= Len(n.kids) THEN Load(t, f, {n.kids[i + 1]}) ELSE t
BothTree(t, f, n, i) == IF i - 1 >= 1 THEN Load(RightTree(t, f, n, i), f, {n.kids[i - 1]}) ELSE RightTree(t, f, n, i)
RoomRight(t, f, n, i) == i + 1 <= Len(n.kids) /\ ~Full(RightTree(t, f, n, i).mem[n.kids[i + 1]])
RoomLeft(t, f, n, i) == i - 1 >= 1 /\ ~Full(BothTree(t, f, n, i).mem[n.kids[i - 1]])

DelayedIs(o, t, f, p, i, it, n) ==
  o = CASE RoomRight(t, f, n, i) -> ShareRight(RightTree(t, f, n, i), p, i, it)
        [] ~RoomRight(t, f, n, i) /\ RoomLeft(t, f, n, i) -> ShareLeft(BothTree(t, f, n, i), p, i, it)
        [] Len(n.kids) < 2 -> Ended(t, "crash")
        [] OTHER -> InsertBelow(Split3Leaf(BothTree(t, f, n, i), p, IF i - 1 >= 1 THEN i - 1 ELSE i), p, it)

LEMMA InsertDelayedBy ==
  ASSUME NEW t, NEW f, NEW p, NEW i, NEW it, NEW n, n = t.mem[p], NEW o, o = InsertDelayed(t, f, p, i, it)
  PROVE  DelayedIs(o, t, f, p, i, it, n)
BY Zenon DEF InsertDelayed, RightTree, BothTree, RoomRight, RoomLeft, DelayedIs

LEMMA InsertDelayedIs ==
  ASSUME NEW t, NEW f, NEW w, NEW its, NEW p, NEW it, NEW k, NEW n, NEW i, NEW c, Down(t, f, w, its, p, it, k, n, i, c),
         Full(t.mem[c]), t.mem[c].leaf = TRUE, NEW o, o = InsertDelayed(t, f, p, i, it)
  PROVE  InsDone(o, f, its, it, k)
<1> DEFINE R == RightTree(t, f, n, i)
           B == BothTree(t, f, n, i)
           r == n.kids[i + 1]
           l == n.kids[i - 1]
           j == i - 1
<1>1. KidsIn(View(t, f), w, p, n, i, c)
  BY KidPages
<1>2. Len(n.kids) \in Nat /\ Len(n.kids) >= 2 /\ i \in 1 .. Len(n.kids) /\ c = n.kids[i]
  BY <1>1, Zenon DEF KidsIn
<1>3. n = t.mem[p]
  BY Zenon DEF Down, Ins
<1>4. o = CASE RoomRight(t, f, n, i) -> ShareRight(R, p, i, it)
            [] ~RoomRight(t, f, n, i) /\ RoomLeft(t, f, n, i) -> ShareLeft(B, p, i, it)
            [] Len(n.kids) < 2 -> Ended(t, "crash")
            [] OTHER -> InsertBelow(Split3Leaf(B, p, IF i - 1 >= 1 THEN i - 1 ELSE i), p, it)
  <2>1. DelayedIs(o, t, f, p, i, it, n)
    BY <1>3, InsertDelayedBy, Zenon
  <2> QED BY <2>1, Zenon DEF DelayedIs
<1>5. ~(Len(n.kids) < 2)
  BY <1>2
<1>6. ASSUME i + 1 <= Len(n.kids)
      PROVE  /\ Down(R, f, w, its, p, it, k, n, i, c) /\ R.mem[c] = t.mem[c]
             /\ BesideOf(R, f, w, its, p, it, k, n, i, c, r) /\ BetweenKids(w, c, r, c, k)
  <2>1. R = Load(t, f, {r})
    BY <1>6, Zenon DEF RightTree
  <2>2. r = n.kids[i + 1]
    OBVIOUS
  <2> HIDE DEF R, r
  <2>3. DownBeside(t, R, f, w, its, p, it, k, n, i, c, i, c, r)
    BY <1>6, <2>1, <2>2, DownRight
  <2> QED BY <2>3, Zenon DEF DownBeside
<1>7. Down(R, f, w, its, p, it, k, n, i, c) /\ R.mem[c] = t.mem[c]
  <2>1. CASE i + 1 <= Len(n.kids)
    BY <1>6, <2>1
  <2>2. CASE ~(i + 1 <= Len(n.kids))
    <3>1. R = t
      BY <2>2, Zenon DEF RightTree
    <3> QED BY <3>1, Zenon
  <2> QED BY <2>1, <2>2
<1>8. ASSUME i - 1 >= 1
      PROVE  /\ Down(B, f, w, its, p, it, k, n, i, c) /\ B.mem[c] = R.mem[c]
             /\ BesideOf(B, f, w, its, p, it, k, n, j, l, c) /\ BetweenKids(w, l, c, c, k)
  <2>1. B = Load(R, f, {l})
    BY <1>8, Zenon DEF BothTree
  <2>2. l = n.kids[j] /\ j = i - 1 /\ j >= 1 /\ R.mem[c].leaf = TRUE
    BY <1>7, <1>8
  <2> HIDE DEF R, B, l, j
  <2>3. DownBeside(R, B, f, w, its, p, it, k, n, i, c, j, l, c)
    BY <1>7, <2>1, <2>2, DownLeft
  <2> QED BY <2>3, Zenon DEF DownBeside
<1>9. CASE RoomRight(t, f, n, i)
  <2>1. o = ShareRight(R, p, i, it)
    BY <1>4, <1>5, <1>9, Zenon
  <2>2. i + 1 <= Len(n.kids) /\ ~Full(R.mem[r])
    BY <1>9, Zenon DEF RoomRight
  <2>3. BesideOf(R, f, w, its, p, it, k, n, i, c, r) /\ BetweenKids(w, c, r, c, k) /\ Full(R.mem[c]) /\ r = n.kids[i + 1]
    BY <1>6, <2>2
  <2> HIDE DEF R, r
  <2> QED BY <1>2, <2>1, <2>2, <2>3, ShareRightGo
<1>10. CASE ~RoomRight(t, f, n, i) /\ RoomLeft(t, f, n, i)
  <2>1. o = ShareLeft(B, p, i, it)
    BY <1>4, <1>5, <1>10, Zenon
  <2>2. i - 1 >= 1 /\ ~Full(B.mem[l])
    BY <1>10, Zenon DEF RoomLeft
  <2>3. BesideOf(B, f, w, its, p, it, k, n, j, l, c) /\ BetweenKids(w, l, c, c, k) /\ Full(B.mem[c]) /\ l = n.kids[j]
    BY <1>7, <1>8, <2>2
  <2>4. j = i - 1
    OBVIOUS
  <2> HIDE DEF B, l, j
  <2> QED BY <1>2, <2>1, <2>2, <2>3, <2>4, ShareLeftGo
<1>11. CASE ~RoomRight(t, f, n, i) /\ ~RoomLeft(t, f, n, i)
  <2>1. o = InsertBelow(Split3Leaf(B, p, IF i - 1 >= 1 THEN i - 1 ELSE i), p, it)
    BY <1>4, <1>5, <1>11, Zenon
  <2>2. CASE i - 1 >= 1
    <3>1. o = InsertBelow(Split3Leaf(B, p, j), p, it)
      BY <2>1, <2>2, Zenon
    <3>2. Full(B.mem[l])
      BY <1>11, <2>2, Zenon DEF RoomLeft
    <3>3. BesideOf(B, f, w, its, p, it, k, n, j, l, c) /\ BetweenKids(w, l, c, c, k) /\ Full(B.mem[c]) /\ l = n.kids[j]
      BY <1>7, <1>8, <2>2
    <3>4. c = n.kids[j + 1]
      BY <1>2
    <3> HIDE DEF B, l, j
    <3> QED BY <3>1, <3>2, <3>3, <3>4, SplitThreeGo
  <2>3. CASE ~(i - 1 >= 1)
    <3>1. o = InsertBelow(Split3Leaf(B, p, i), p, it) /\ B = R
      BY <2>1, <2>3, Zenon DEF BothTree
    <3>2. i + 1 <= Len(n.kids)
      BY <1>2, <2>3
    <3>3. Full(R.mem[r])
      BY <1>11, <3>2, Zenon DEF RoomRight
    <3>4. BesideOf(R, f, w, its, p, it, k, n, i, c, r) /\ BetweenKids(w, c, r, c, k) /\ Full(R.mem[c]) /\ r = n.kids[i + 1]
      BY <1>6, <3>2
    <3>5. o = InsertBelow(Split3Leaf(R, p, i), p, it)
      BY <3>1
    <3> HIDE DEF B, R, r
    <3> QED BY <1>2, <3>3, <3>4, <3>5, SplitThreeGo
  <2> QED BY <2>2, <2>3
<1> QED BY <1>9, <1>10, <1>11

LEMMA InsertStepIs ==
  ASSUME NEW t, NEW f, NEW w, NEW its, NEW p, NEW it, NEW k, NEW n, Ins(t, f, w, its, p, it, k, n),
         NEW o, o = InsertStep(t, f, p, it)
  PROVE  InsDone(o, f, its, it, k)
<1> DEFINE i == Smaller(n.items, k) + 1
           c == n.kids[i]
           u == Load(t, f, {c})
<1>1. n = t.mem[p] /\ k = it[1]
  BY Zenon DEF Ins
<1>2. o = CASE Holds(n.items, k) -> Ended(t, "no")
            [] ~Holds(n.items, k) /\ n.leaf -> Added(t, Put(p, [n EXCEPT !.items = InsertAt(@, i, it)]))
            [] ~Holds(n.items, k) /\ ~n.leaf ->
                 IF n.kids = <<>> THEN Ended(t, "crash")
                 ELSE IF ~Full(u.mem[c]) THEN On(u, c)
                 ELSE IF u.mem[c].leaf /\ DelaySplit THEN InsertDelayed(u, f, p, i, it)
                 ELSE InsertBelow(Split(u, p, i), p, it)
  BY <1>1, Zenon DEF InsertStep
<1>3. CASE Holds(n.items, k)
  <2>1. o = Ended(t, "no")
    BY <1>2, <1>3, Zenon
  <2>2. InsNo(o, f, its, k)
    BY <1>3, <2>1, InsertFound
  <2> QED BY <2>2, Zenon DEF InsDone
<1>4. n.leaf \in BOOLEAN
  <2>1. Good(t, f, w, its) /\ p \in DOMAIN t.mem
    BY Zenon DEF Ins, Here
  <2>2. NodeSeen(View(t, f), w, p, t.mem[p])
    BY <2>1, Seen
  <2>3. n \in Nodes
    BY <1>1, <2>2, Zenon DEF NodeSeen
  <2> QED BY <2>3, NodeSeqs
<1>5. CASE ~Holds(n.items, k) /\ n.leaf
  <2>1. o = Added(t, Put(p, [n EXCEPT !.items = InsertAt(@, i, it)]))
    BY <1>2, <1>5, Zenon
  <2>2. n.leaf = TRUE
    BY <1>4, <1>5
  <2>3. i = Smaller(n.items, k) + 1
    OBVIOUS
  <2> HIDE DEF i
  <2>4. InsYes(o, f, its, it, k)
    BY <1>5, <2>1, <2>2, <2>3, InsertLeaf
  <2> QED BY <2>4, Zenon DEF InsDone
<1>6. CASE ~Holds(n.items, k) /\ ~n.leaf
  <2>1. n.leaf = FALSE
    BY <1>4, <1>6
  <2>2. i = Smaller(n.items, k) + 1 /\ c = n.kids[i] /\ u = Load(t, f, {c})
    OBVIOUS
  <2>3. o = IF n.kids = <<>> THEN Ended(t, "crash")
            ELSE IF ~Full(u.mem[c]) THEN On(u, c)
            ELSE IF u.mem[c].leaf /\ DelaySplit THEN InsertDelayed(u, f, p, i, it)
            ELSE InsertBelow(Split(u, p, i), p, it)
    BY <1>2, <1>6, Zenon
  <2> HIDE DEF i, c, u
  <2>4. Down(u, f, w, its, p, it, k, n, i, c)
    BY <1>6, <2>1, <2>2, GoDown
  <2>5. n.kids /= <<>>
    <3>1. KidsIn(View(u, f), w, p, n, i, c)
      BY <2>4, KidPages
    <3>2. Len(n.kids) >= 2
      BY <3>1, Zenon DEF KidsIn
    <3> QED BY <3>2
  <2>6. CASE ~Full(u.mem[c])
    <3>1. o = On(u, c)
      BY <2>3, <2>5, <2>6, Zenon
    <3>2. InsOn(o, f, its, k)
      BY <2>4, <2>6, <3>1, InsertDown
    <3> QED BY <3>2, Zenon DEF InsDone
  <2>7. CASE Full(u.mem[c]) /\ u.mem[c].leaf /\ DelaySplit
    <3>1. o = InsertDelayed(u, f, p, i, it)
      BY <2>3, <2>5, <2>7, Zenon
    <3>2. u.mem[c].leaf = TRUE
      <4>1. DownAt(View(u, f), u, f, w, its, p, it, k, n, i, c)
        BY <2>4, DownIs
      <4>2. NodeSeen(View(u, f), w, c, u.mem[c])
        BY <4>1, Zenon DEF DownAt
      <4>3. u.mem[c] \in Nodes
        BY <4>2, Zenon DEF NodeSeen
      <4>4. u.mem[c].leaf \in BOOLEAN
        BY <4>3, NodeSeqs
      <4> QED BY <2>7, <4>4
    <3> QED BY <2>4, <2>7, <3>1, <3>2, InsertDelayedIs
  <2>8. CASE Full(u.mem[c]) /\ ~(u.mem[c].leaf /\ DelaySplit)
    <3>1. o = InsertBelow(Split(u, p, i), p, it)
      BY <2>3, <2>5, <2>8, Zenon
    <3>2. InsNo(o, f, its, k) \/ InsOn(o, f, its, k)
      BY <2>4, <2>8, <3>1, InsertSplit
    <3> QED BY <3>2, Zenon DEF InsDone
  <2> QED BY <2>6, <2>7, <2>8
<1> QED BY <1>3, <1>5, <1>6
=============================================================================
