---------------------------- MODULE BTreeProofs ----------------------------
(***************************************************************************)
(* For any keys, values and sizes of the cache, and any number of keys in  *)
(* a node from 6 on: between the rounds of its calls the tree of btreedb   *)
(* is a B-tree of the items that were inserted and not deleted, so is what *)
(* the file holds of those last saved, numItems counts them, every node    *)
(* that differs from the file is marked, and the client sees the           *)
(* dictionary of ItemStore.                                                *)
(*                                                                         *)
(* CallsOK, the invariant, says of every call that is under way where it   *)
(* is: what an insert or a search looks for lies between the keys of the   *)
(* node it is at, which an insert has made room in; what a delete looks    *)
(* for is there too, in a node that can spare an item.  While a neighbour  *)
(* has taken the place of the item to be deleted (Lend) there is no        *)
(* B-tree; the invariant then speaks of the tree M as if it had not.       *)
(***************************************************************************)
EXTENDS BTreeInsertProofs

SameBelow(M, V, w, p) == \A q \in w.pages : w.height[q] <= w.height[p] => V[q] = M[q]
SameKids(M, V, w) == \A q \in w.pages : V[q].kids = M[q].kids
Deep(M, t, p) == IF p = t.root THEN ~Hollow(t) ELSE Count(M, p) >= MinDegree

(* Where del stands: M is the tree, and t has all of it that is not above p. *)
Dig(M, t, f, w, p, k, n) ==
  /\ Kept(t, f, w) /\ Shape(M, t.root, w) /\ Sized(M, t.root, w) /\ k \in Int /\ Here(t, w, p, k) /\ n = t.mem[p]
  /\ SameBelow(M, View(t, f), w, p) /\ SameKids(M, View(t, f), w) /\ Deep(M, t, p)

Above(M, N, V, B, w, v, p) ==
  /\ \A q \in v.pages : B[q] = IF w.height[q] <= w.height[p] THEN N[q] ELSE V[q]
  /\ \A q \in v.pages : w.height[q] > w.height[p] => N[q] = M[q]
  /\ \A q \in w.pages : w.height[q] >= w.height[p] => q \in v.pages

Dug(M, t, f, w, p, k, u, N, v, x) ==
  /\ Kept(u, f, v) /\ BelowKept(M, N, t.root, w, v, p, x, k) /\ u.root = t.root /\ u.num = t.num
  /\ x \in DOMAIN u.mem /\ Above(M, N, View(t, f), View(u, f), w, v, p)

DigOn(M, t, f, w, p, k, o) == o.res = "on" /\ \E v, N : Dug(M, t, f, w, p, k, o.tree, N, v, o.at)

DigNode(M, V, t, w, p, n) ==
  /\ p \in w.pages /\ p \in DOMAIN M /\ M[p] = n /\ V[p] = n /\ NodeSeen(M, w, p, n) /\ n \in Nodes
  /\ Count(M, p) = Len(n.items) /\ KidCount(M, p) = Len(n.kids)
  /\ n.leaf = (w.height[p] = 0) /\ Len(n.kids) = (IF n.leaf THEN 0 ELSE Len(n.items) + 1)
  /\ Len(n.items) \in Nat /\ Len(n.items) <= MaxKeys
  /\ n.leaf = FALSE => Len(n.items) >= 1
  /\ w.height[p] \in Nat

LEMMA DigNodeIs ==
  ASSUME NEW M, NEW t, NEW f, NEW w, NEW p, NEW k, NEW n, Dig(M, t, f, w, p, k, n)
  PROVE  DigNode(M, View(t, f), t, w, p, n)
<1> DEFINE V == View(t, f)
<1>1. /\ Kept(t, f, w) /\ Shape(M, t.root, w) /\ Sized(M, t.root, w) /\ p \in DOMAIN t.mem /\ n = t.mem[p]
      /\ SameBelow(M, V, w, p) /\ Deep(M, t, p)
  BY Zenon DEF Dig, Here
<1>2. p \in w.pages /\ V[p] = n
  BY <1>1, LoadedIn
<1> HIDE DEF V
<1>3. w.height[p] \in Nat
  BY <1>1, <1>2, PlacesAre DEF Shape
<1>4. M[p] = n
  BY <1>1, <1>2, <1>3 DEF SameBelow
<1>5. NodeSeen(M, w, p, n)
  BY <1>1, <1>2, <1>4, SeenIn
<1>6. /\ p \in DOMAIN M /\ n \in Nodes /\ Count(M, p) = Len(n.items) /\ KidCount(M, p) = Len(n.kids)
      /\ n.leaf = (w.height[p] = 0) /\ Len(n.kids) = (IF n.leaf THEN 0 ELSE Len(n.items) + 1)
      /\ Len(n.items) \in Nat /\ Len(n.items) <= MaxKeys
  BY <1>5, Zenon DEF NodeSeen
<1>7. ASSUME n.leaf = FALSE PROVE Len(n.items) >= 1
  <2>1. CASE p = t.root
    <3>1. n.items /= <<>>
      BY <1>1, <1>7, <2>1 DEF Hollow, Deep
    <3>2. n.items \in Seq(Item)
      BY <1>6, NodeSeqs
    <3> QED BY <1>6, <3>1, <3>2
  <2>2. CASE p /= t.root
    <3>1. Count(M, p) >= MinDegree
      BY <1>1, <2>2 DEF Deep
    <3> QED BY <1>6, <3>1, Numbers
  <2> QED BY <2>1, <2>2
<1> QED BY <1>2, <1>3, <1>4, <1>5, <1>6, <1>7, Zenon DEF DigNode, V

LEMMA DigLoad ==
  ASSUME NEW M, NEW t, NEW f, NEW w, NEW p, NEW k, NEW n, Dig(M, t, f, w, p, k, n),
         NEW ps, ps \subseteq w.pages, NEW u, u = Load(t, f, ps)
  PROVE  Dig(M, u, f, w, p, k, n) /\ Loads(t, u, f, w, ps)
<1> DEFINE V == View(t, f)
           B == View(u, f)
<1>1. /\ Kept(t, f, w) /\ Shape(M, t.root, w) /\ Sized(M, t.root, w) /\ k \in Int /\ n = t.mem[p]
      /\ p \in DOMAIN t.mem /\ w.lo[p] < k /\ k < w.hi[p]
      /\ SameBelow(M, V, w, p) /\ SameKids(M, V, w) /\ Deep(M, t, p)
  BY Zenon DEF Dig, Here
<1>2. Loads(t, u, f, w, ps)
  BY <1>1, LoadKept
<1>3. /\ Kept(u, f, w) /\ u.root = t.root /\ DOMAIN u.mem = DOMAIN t.mem \cup ps /\ Hollow(u) = Hollow(t)
      /\ \A q \in DOMAIN t.mem : u.mem[q] = t.mem[q]
      /\ \A q \in w.pages : B[q] = V[q]
  BY <1>2, Zenon DEF Loads
<1> HIDE DEF V, B
<1>4. SameBelow(M, B, w, p)
  BY <1>1, <1>3 DEF SameBelow
<1>5. SameKids(M, B, w)
  BY <1>1, <1>3 DEF SameKids
<1>6. Deep(M, u, p)
  BY <1>1, <1>3 DEF Deep
<1>7. p \in DOMAIN u.mem /\ n = u.mem[p]
  BY <1>1, <1>3
<1>8. Here(u, w, p, k)
  BY <1>1, <1>7, Zenon DEF Here
<1>9. Shape(M, u.root, w) /\ Sized(M, u.root, w)
  BY <1>1, <1>3
<1> QED BY <1>1, <1>2, <1>3, <1>4, <1>5, <1>6, <1>7, <1>8, <1>9, Zenon DEF Dig, B

DigKid(M, t, w, p, n, i, x) ==
  /\ x \in w.pages /\ x = KidAt(M, p, i) /\ w.height[p] = w.height[x] + 1 /\ x /= p /\ x /= t.root
  /\ w.height[x] \in Nat /\ i \in 1 .. KidCount(M, p)
  /\ x \in DOMAIN t.mem => M[x] = t.mem[x]

LEMMA DigKidIs ==
  ASSUME NEW M, NEW t, NEW f, NEW w, NEW p, NEW k, NEW n, Dig(M, t, f, w, p, k, n),
         NEW i \in 1 .. Len(n.kids), NEW x, x = n.kids[i]
  PROVE  DigKid(M, t, w, p, n, i, x)
<1> DEFINE V == View(t, f)
<1>1. Kept(t, f, w) /\ Shape(M, t.root, w) /\ SameBelow(M, V, w, p)
  BY Zenon DEF Dig
<1>2. DigNode(M, V, t, w, p, n)
  BY DigNodeIs
<1>3. p \in w.pages /\ M[p] = n /\ KidCount(M, p) = Len(n.kids) /\ w.height[p] \in Nat
  BY <1>2, Zenon DEF DigNode
<1>4. x = KidAt(M, p, i) /\ i \in 1 .. KidCount(M, p)
  BY <1>3 DEF KidAt
<1>5. KidBelow(M, t.root, w, p, i, x)
  BY <1>1, <1>3, <1>4, KidIsBelow
<1>6. x \in w.pages /\ w.height[p] = w.height[x] + 1 /\ x /= p /\ x /= t.root
  BY <1>5, Zenon DEF KidBelow
<1>7. w.height[x] \in Nat
  BY <1>1, <1>6, PlacesAre DEF Shape
<1>8. ASSUME x \in DOMAIN t.mem PROVE M[x] = t.mem[x]
  <2>1. V[x] = t.mem[x]
    BY <1>1, <1>8, LoadedIn
  <2> HIDE DEF V
  <2>2. w.height[x] <= w.height[p]
    BY <1>6, <1>7
  <2> QED BY <1>1, <1>6, <2>1, <2>2 DEF SameBelow
<1> QED BY <1>4, <1>6, <1>7, <1>8, Zenon DEF DigKid

DigPair(M, t, f, w, p, k, n, i, c, d) ==
  /\ Dig(M, t, f, w, p, k, n) /\ DigNode(M, View(t, f), t, w, p, n) /\ n.leaf = FALSE
  /\ Pair(M, t.root, w, p, i, c, d) /\ c \in DOMAIN t.mem /\ d \in DOMAIN t.mem
  /\ M[c] = t.mem[c] /\ M[d] = t.mem[d] /\ M[p] = n /\ n = t.mem[p] /\ p \in DOMAIN t.mem /\ p \in w.pages

LEMMA DigPairIs ==
  ASSUME NEW M, NEW t, NEW f, NEW w, NEW p, NEW k, NEW n, Dig(M, t, f, w, p, k, n), n.leaf = FALSE,
         NEW i \in 1 .. Len(n.items), NEW c, c = n.kids[i], NEW d, d = n.kids[i + 1],
         c \in DOMAIN t.mem, d \in DOMAIN t.mem
  PROVE  DigPair(M, t, f, w, p, k, n, i, c, d)
<1> DEFINE V == View(t, f)
<1>1. Shape(M, t.root, w) /\ p \in DOMAIN t.mem /\ n = t.mem[p]
  BY Zenon DEF Dig, Here
<1>2. DigNode(M, V, t, w, p, n)
  BY DigNodeIs
<1> HIDE DEF V
<1>3. p \in w.pages /\ M[p] = n /\ Count(M, p) = Len(n.items) /\ Len(n.items) \in Nat
      /\ Len(n.kids) = (IF n.leaf THEN 0 ELSE Len(n.items) + 1)
  BY <1>2, Zenon DEF DigNode
<1>4. i \in 1 .. Len(n.kids) /\ i + 1 \in 1 .. Len(n.kids)
  BY <1>3
<1>5. DigKid(M, t, w, p, n, i, c)
  BY <1>4, DigKidIs
<1>6. DigKid(M, t, w, p, n, i + 1, d)
  BY <1>4, DigKidIs
<1>7. M[c] = t.mem[c] /\ M[d] = t.mem[d] /\ c = KidAt(M, p, i) /\ d = KidAt(M, p, i + 1)
  BY <1>5, <1>6, Zenon DEF DigKid
<1>8. Pair(M, t.root, w, p, i, c, d)
  BY <1>1, <1>3, <1>7, PairIs
<1> QED BY <1>1, <1>2, <1>3, <1>7, <1>8, Zenon DEF DigPair, V

LEMMA LaidOver ==
  ASSUME NEW M, NEW ns, NEW N, N = ns ++ M, NEW w, \A q \in w.pages : q \in DOMAIN M,
         NEW p, NEW a, NEW c, NEW b, NEW d, NEW e, PutsThree(ns, p, a, c, b, d, e)
  PROVE  AtThree(M, N, w.pages, p, a, c, b, d, e)
<1>1. IsOver(N, ns, M)
  BY OverIs
<1>2. DOMAIN ns = {p, c, d} /\ ns[p] = a /\ ns[c] = b /\ ns[d] = e
  BY Zenon DEF PutsThree
<1>3. DOMAIN N = DOMAIN ns \cup DOMAIN M /\ \A q \in DOMAIN N : N[q] = IF q \in DOMAIN ns THEN ns[q] ELSE M[q]
  BY <1>1, Zenon DEF IsOver
<1>4. p \in DOMAIN N /\ c \in DOMAIN N /\ d \in DOMAIN N /\ p \in DOMAIN ns /\ c \in DOMAIN ns /\ d \in DOMAIN ns
  BY <1>2, <1>3
<1>5. \A q \in w.pages \ {p, c, d} : q \in DOMAIN N /\ N[q] = M[q]
  BY <1>2, <1>3
<1> QED BY <1>2, <1>3, <1>4, <1>5 DEF AtThree

LEMMA LendDug ==
  ASSUME NEW M, NEW t, NEW f, NEW w, NEW p, NEW k, NEW n, NEW i, NEW c, NEW d, DigPair(M, t, f, w, p, k, n, i, c, d),
         NEW ns, NEW a, NEW x, NEW b, NEW y, NEW e, PutsThree(ns, p, a, x, b, y, e), Either(x, y, c, d),
         NEW u, u = Change(t, ns), NEW N, N = ns ++ M,
         NEW h, h \in DOMAIN t.mem, \E v : BelowAt(M, N, t.root, w, v, p, h, k),
         NEW o, o = On(u, h)
  PROVE  DigOn(M, t, f, w, p, k, o)
<1> DEFINE V == View(t, f)
           B == View(u, f)
<1>1. /\ Dig(M, t, f, w, p, k, n) /\ DigNode(M, V, t, w, p, n) /\ n.leaf = FALSE
      /\ Pair(M, t.root, w, p, i, c, d) /\ p \in w.pages
  BY Zenon DEF DigPair
<1>2. /\ Kept(t, f, w) /\ Shape(M, t.root, w) /\ SameBelow(M, V, w, p)
  BY <1>1, Zenon DEF Dig
<1>3. /\ c \in w.pages /\ d \in w.pages /\ c /= t.root /\ d /= t.root /\ p /= c /\ p /= d /\ c /= d
      /\ w.height[p] = w.height[c] + 1 /\ w.height[d] = w.height[c] /\ w.height[c] \in Nat
  BY <1>1, Zenon DEF Pair
<1>4. o.res = "on" /\ o.at = h /\ o.tree = u
  BY OnIs
<1>5. IsTree(t) /\ t.pages \in Nat /\ w.pages \subseteq 0 .. t.pages - 1 /\ DOMAIN t.mem \subseteq w.pages
  BY <1>2, Zenon DEF Kept
<1>6. ChangedTo(t, u, ns) /\ u.num = t.num /\ u.pages = t.pages
  BY <1>5, ChangeIs
<1>7. DOMAIN ns = {p, x, y} /\ ns[p] = a
  BY Zenon DEF PutsThree
<1>8. DOMAIN ns = {p, c, d}
  BY <1>7 DEF Either
<1>9. PICK v : BelowAt(M, N, t.root, w, v, p, h, k)
  OBVIOUS
<1>10. BelowKept(M, N, t.root, w, v, p, h, k) /\ v.pages = w.pages /\ Count(N, p) = Count(M, p)
  BY <1>9, Zenon DEF BelowAt
<1>11. \A q \in w.pages : q \in DOMAIN M
  BY <1>2 DEF Shape, NodesOK
<1>12. AtThree(M, N, w.pages, p, a, x, b, y, e)
  BY <1>11, LaidOver
<1>13. t.root \in DOMAIN ns => ~IsHollow(ns[t.root])
  <2>1. N[p] = a
    BY <1>12, Zenon DEF AtThree
  <2>2. Count(M, p) = Len(n.items) /\ Len(n.items) >= 1 /\ Len(n.items) \in Nat
    BY <1>1, Zenon DEF DigNode
  <2>3. Count(N, p) /= 0
    BY <1>10, <2>2
  <2>4. ~IsHollow(a)
    BY <2>1, <2>3, NotHollow
  <2> QED BY <1>3, <1>7, <1>8, <2>4
<1>14. Kept(u, f, v) /\ \A q \in v.pages : B[q] = IF q \in DOMAIN ns THEN ns[q] ELSE V[q]
  <2>1. v.pages \subseteq w.pages \cup DOMAIN ns /\ DOMAIN ns \subseteq v.pages /\ DOMAIN t.mem \subseteq v.pages
        /\ u.pages \in Nat /\ v.pages \subseteq 0 .. u.pages - 1
    BY <1>1, <1>3, <1>5, <1>6, <1>8, <1>10
  <2>2. Changes(t, u, f, v, ns)
    BY <1>2, <1>6, <1>13, <2>1, ChangeKept
  <2> QED BY <2>2, Zenon DEF Changes
<1>15. u.root = t.root /\ DOMAIN u.mem = DOMAIN ns \cup DOMAIN t.mem
  BY <1>6, Zenon DEF ChangedTo
<1>16. h \in DOMAIN u.mem
  BY <1>15
<1>u. B = View(u, f)
  OBVIOUS
<1> HIDE DEF V, B
<1>17. \A q \in w.pages : N[q] = IF q \in DOMAIN ns THEN ns[q] ELSE M[q]
  <2>1. IsOver(N, ns, M)
    BY OverIs
  <2>2. DOMAIN N = DOMAIN ns \cup DOMAIN M /\ \A q \in DOMAIN N : N[q] = IF q \in DOMAIN ns THEN ns[q] ELSE M[q]
    BY <2>1, Zenon DEF IsOver
  <2> QED BY <1>11, <2>2
<1>18. \A q \in DOMAIN ns : w.height[q] <= w.height[p]
  <2>1. w.height[p] \in Nat
    BY <1>3
  <2> QED BY <1>3, <1>8, <2>1
<1>19. Above(M, N, V, B, w, v, p)
  <2>1. ASSUME NEW q \in v.pages PROVE B[q] = IF w.height[q] <= w.height[p] THEN N[q] ELSE V[q]
    <3>1. B[q] = IF q \in DOMAIN ns THEN ns[q] ELSE V[q]
      BY <1>14, <2>1
    <3>2. q \in w.pages
      BY <1>10, <2>1
    <3>3. N[q] = IF q \in DOMAIN ns THEN ns[q] ELSE M[q]
      BY <1>17, <3>2
    <3>4. w.height[q] <= w.height[p] => V[q] = M[q]
      BY <1>2, <3>2 DEF SameBelow
    <3>5. q \in DOMAIN ns => w.height[q] <= w.height[p]
      BY <1>18
    <3> QED BY <3>1, <3>3, <3>4, <3>5, Zenon
  <2>2. ASSUME NEW q \in v.pages, w.height[q] > w.height[p] PROVE N[q] = M[q]
    <3>1. q \in w.pages /\ w.height[q] \in Nat /\ w.height[p] \in Nat
      BY <1>1, <1>2, <1>10, <2>2, PlacesAre DEF Shape
    <3>2. q \notin DOMAIN ns
      BY <1>18, <2>2, <3>1
    <3> QED BY <1>17, <3>1, <3>2
  <2> QED BY <1>10, <2>1, <2>2, Zenon DEF Above
<1>20. Dug(M, t, f, w, p, k, u, N, v, h)
  BY <1>6, <1>10, <1>14, <1>15, <1>16, <1>19, Zenon DEF Dug, V, B
<1> QED BY <1>4, <1>20, Zenon DEF DigOn

LEMMA FromLeftIs ==
  ASSUME NEW M, NEW t, NEW f, NEW w, NEW p, NEW k, NEW n, NEW i, NEW c, NEW d, DigPair(M, t, f, w, p, k, n, i, c, d),
         NEW j, i = j - 1, c = n.kids[i], d = n.kids[j], Enough(t.mem[c]), ~Enough(t.mem[d]), w.lo[d] < k, k < w.hi[d],
         NEW o, o = On(FromLeft(t, p, j), d)
  PROVE  DigOn(M, t, f, w, p, k, o)
<1> DEFINE g == t.mem[c]
           h == t.mem[d]
           l == Last(g.items)
           a == [n EXCEPT !.items[i] = l]
           b == Node(h.leaf, <<n.items[i]>> \o h.items, IF g.leaf THEN <<>> ELSE <<Last(g.kids)>> \o h.kids)
           e == Node(g.leaf, Front(g.items), IF g.leaf THEN <<>> ELSE Front(g.kids))
           ns == Put(p, a) ++ Put(d, b) ++ Put(c, e)
           u == Change(t, ns)
           N == ns ++ M
<1>1. /\ Dig(M, t, f, w, p, k, n) /\ DigNode(M, View(t, f), t, w, p, n) /\ n.leaf = FALSE
      /\ Pair(M, t.root, w, p, i, c, d) /\ p \in w.pages /\ M[p] = n /\ M[c] = g /\ M[d] = h /\ n = t.mem[p]
      /\ d \in DOMAIN t.mem
  BY Zenon DEF DigPair
<1>2. /\ Shape(M, t.root, w) /\ Sized(M, t.root, w) /\ k \in Int
  BY <1>1, Zenon DEF Dig
<1>3. /\ Siblings(M, p, i, c, d) /\ p /= d /\ p /= c /\ c /= d /\ c \in w.pages /\ d \in w.pages
  BY <1>1, Zenon DEF Pair
<1>4. h.leaf = g.leaf /\ n \in Nodes /\ g \in Nodes /\ h \in Nodes
  BY <1>1, <1>3, Zenon DEF Siblings
<1>5. o = On(u, d)
  BY <1>1, Zenon DEF FromLeft
<1>6. a = Node(FALSE, [n.items EXCEPT ![i] = l], n.kids)
  <2>1. n \in Nodes /\ n.leaf = FALSE
    BY <1>1, <1>4
  <2> HIDE DEF l
  <2> QED BY <2>1, ItemSet, Zenon
<1>u. u = Change(t, ns) /\ N = ns ++ M
  OBVIOUS
<1>7. PutsThree(ns, p, a, d, b, c, e)
  <2> HIDE DEF a, b, e
  <2> QED BY <1>3, PutThree
<1>8. b = Node(g.leaf, <<n.items[i]>> \o h.items, IF g.leaf THEN <<>> ELSE <<Last(g.kids)>> \o h.kids)
  BY <1>4
<1>9. e = Node(g.leaf, Front(g.items), IF g.leaf THEN <<>> ELSE Front(g.kids)) /\ l = Last(g.items)
  OBVIOUS
<1>10. Count(M, c) >= MinDegree /\ Count(M, d) < MinDegree
  <2>1. Count(M, c) = Len(g.items) /\ Count(M, d) = Len(h.items)
    BY <1>1 DEF Count
  <2>2. Len(h.items) \in Nat
    BY <1>4, NodeSeqs
  <2> HIDE DEF g, h
  <2>3. Enough(g) /\ ~Enough(h)
    BY DEF g, h
  <2> QED BY <2>1, <2>2, <2>3, Numbers DEF Enough
<1> HIDE DEF a, b, e, ns, u, N, g, h, l
<1>11. AtThree(M, N, w.pages, p, a, d, b, c, e)
  <2>1. \A q \in w.pages : q \in DOMAIN M
    BY <1>2 DEF Shape, NodesOK
  <2> QED BY <1>u, <1>7, <2>1, LaidOver
<1>12. /\ p \in DOMAIN N /\ N[p] = a /\ d \in DOMAIN N /\ N[d] = b /\ c \in DOMAIN N /\ N[c] = e
       /\ \A q \in w.pages \ {p, d, c} : q \in DOMAIN N /\ N[q] = M[q]
  BY <1>11, Zenon DEF AtThree
<1>13. \A q \in w.pages \ {p, c, d} : q \in DOMAIN N /\ N[q] = M[q]
  BY <1>12
<1>14. LentRight(M, N, p, i, c, d)
  <2>1. /\ N[p] = Node(FALSE, [n.items EXCEPT ![i] = Last(g.items)], n.kids)
        /\ N[c] = Node(g.leaf, Front(g.items), IF g.leaf THEN <<>> ELSE Front(g.kids))
        /\ N[d] = Node(g.leaf, <<n.items[i]>> \o h.items, IF g.leaf THEN <<>> ELSE <<Last(g.kids)>> \o h.kids)
    BY <1>6, <1>8, <1>9, <1>12
  <2> QED BY <1>1, <2>1 DEF LentRight
<1>15. \E v : BelowAt(M, N, t.root, w, v, p, d, k)
  BY <1>1, <1>2, <1>3, <1>10, <1>12, <1>13, <1>14, FromLeftKeeps
<1>16. Either(d, c, c, d)
  BY DEF Either
<1> QED BY <1>1, <1>5, <1>u, <1>7, <1>15, <1>16, LendDug

LEMMA FromRightIs ==
  ASSUME NEW M, NEW t, NEW f, NEW w, NEW p, NEW k, NEW n, NEW i, NEW c, NEW d, DigPair(M, t, f, w, p, k, n, i, c, d),
         c = n.kids[i], d = n.kids[i + 1], Enough(t.mem[d]), ~Enough(t.mem[c]), w.lo[c] < k, k < w.hi[c],
         NEW o, o = On(FromRight(t, p, i), c)
  PROVE  DigOn(M, t, f, w, p, k, o)
<1> DEFINE g == t.mem[d]
           h == t.mem[c]
           l == Head(g.items)
           a == [n EXCEPT !.items[i] = l]
           b == Node(h.leaf, Append(h.items, n.items[i]), IF g.leaf THEN <<>> ELSE Append(h.kids, Head(g.kids)))
           e == Node(g.leaf, Tail(g.items), IF g.leaf THEN <<>> ELSE Tail(g.kids))
           ns == Put(p, a) ++ Put(c, b) ++ Put(d, e)
           u == Change(t, ns)
           N == ns ++ M
<1>1. /\ Dig(M, t, f, w, p, k, n) /\ DigNode(M, View(t, f), t, w, p, n) /\ n.leaf = FALSE
      /\ Pair(M, t.root, w, p, i, c, d) /\ p \in w.pages /\ M[p] = n /\ M[d] = g /\ M[c] = h /\ n = t.mem[p]
      /\ c \in DOMAIN t.mem
  BY Zenon DEF DigPair
<1>2. /\ Shape(M, t.root, w) /\ Sized(M, t.root, w) /\ k \in Int
  BY <1>1, Zenon DEF Dig
<1>3. /\ Siblings(M, p, i, c, d) /\ p /= d /\ p /= c /\ c /= d /\ c \in w.pages /\ d \in w.pages
  BY <1>1, Zenon DEF Pair
<1>4. g.leaf = h.leaf /\ n \in Nodes /\ g \in Nodes /\ h \in Nodes
  BY <1>1, <1>3, Zenon DEF Siblings
<1>5. o = On(u, c)
  BY <1>1, Zenon DEF FromRight
<1>6. a = Node(FALSE, [n.items EXCEPT ![i] = l], n.kids)
  <2>1. n \in Nodes /\ n.leaf = FALSE
    BY <1>1, <1>4
  <2> HIDE DEF l
  <2> QED BY <2>1, ItemSet, Zenon
<1>u. u = Change(t, ns) /\ N = ns ++ M
  OBVIOUS
<1>7. PutsThree(ns, p, a, c, b, d, e)
  <2> HIDE DEF a, b, e
  <2> QED BY <1>3, PutThree
<1>8. b = Node(h.leaf, Append(h.items, n.items[i]), IF h.leaf THEN <<>> ELSE Append(h.kids, Head(g.kids)))
  BY <1>4
<1>9. e = Node(h.leaf, Tail(g.items), IF h.leaf THEN <<>> ELSE Tail(g.kids)) /\ l = Head(g.items)
  BY <1>4
<1>10. Count(M, d) >= MinDegree /\ Count(M, c) < MinDegree
  <2>1. Count(M, d) = Len(g.items) /\ Count(M, c) = Len(h.items)
    BY <1>1 DEF Count
  <2>2. Len(h.items) \in Nat
    BY <1>4, NodeSeqs
  <2> HIDE DEF g, h
  <2>3. Enough(g) /\ ~Enough(h)
    BY DEF g, h
  <2> QED BY <2>1, <2>2, <2>3, Numbers DEF Enough
<1> HIDE DEF a, b, e, ns, u, N, g, h, l
<1>11. AtThree(M, N, w.pages, p, a, c, b, d, e)
  <2>1. \A q \in w.pages : q \in DOMAIN M
    BY <1>2 DEF Shape, NodesOK
  <2> QED BY <1>u, <1>7, <2>1, LaidOver
<1>12. /\ p \in DOMAIN N /\ N[p] = a /\ c \in DOMAIN N /\ N[c] = b /\ d \in DOMAIN N /\ N[d] = e
       /\ \A q \in w.pages \ {p, c, d} : q \in DOMAIN N /\ N[q] = M[q]
  BY <1>11, Zenon DEF AtThree
<1>14. LentLeft(M, N, p, i, c, d)
  <2>1. /\ N[p] = Node(FALSE, [n.items EXCEPT ![i] = Head(g.items)], n.kids)
        /\ N[c] = Node(h.leaf, Append(h.items, n.items[i]), IF h.leaf THEN <<>> ELSE Append(h.kids, Head(g.kids)))
        /\ N[d] = Node(h.leaf, Tail(g.items), IF h.leaf THEN <<>> ELSE Tail(g.kids))
    BY <1>6, <1>8, <1>9, <1>12
  <2> QED BY <1>1, <2>1 DEF LentLeft
<1>15. \E v : BelowAt(M, N, t.root, w, v, p, c, k)
  BY <1>1, <1>2, <1>3, <1>10, <1>12, <1>14, FromRightKeeps
<1>16. Either(c, d, c, d)
  BY DEF Either
<1> QED BY <1>1, <1>5, <1>u, <1>7, <1>15, <1>16, LendDug

MergedTree(u, r, p, c, d, less, merged) ==
  /\ IsTree(r) /\ r.root = u.root /\ r.num = u.num /\ r.pages = u.pages
  /\ DOMAIN r.mem = {p, c} \cup (DOMAIN u.mem \ {d})
  /\ \A q \in DOMAIN r.mem : r.mem[q] = IF q = p THEN less ELSE IF q = c THEN merged ELSE u.mem[q]
  /\ r.dirty = (u.dirty \ {d}) \cup {c, IF less.items = <<>> THEN c ELSE p}

MergedInto(u, p, c, d, less, merged) ==
  LET w == [u EXCEPT !.mem = Restrict(@, DOMAIN @ \ {d}), !.dirty = @ \ {d}]
  IN [w EXCEPT !.mem = Put(p, less) ++ Put(c, merged) ++ @,
               !.dirty = @ \cup {c, IF less.items = <<>> THEN c ELSE p}]

LEMMA MergedIntoIs ==
  ASSUME NEW u, IsTree(u), NEW p, NEW c, NEW d, p /= c, NEW less, NEW merged, NEW r, r = MergedInto(u, p, c, d, less, merged)
  PROVE  MergedTree(u, r, p, c, d, less, merged)
<1> DEFINE m == Restrict(u.mem, DOMAIN u.mem \ {d})
           e == u.dirty \ {d}
           w == [u EXCEPT !.mem = m, !.dirty = e]
           ns == Put(p, less) ++ Put(c, merged)
           g == ns ++ m
           h == e \cup {c, IF less.items = <<>> THEN c ELSE p}
<1>1. w = [mem |-> m, dirty |-> e, root |-> u.root, num |-> u.num, pages |-> u.pages]
  <2> HIDE DEF m, e
  <2> QED BY BothSet, Zenon
<1>2. r = [w EXCEPT !.mem = ns ++ w.mem, !.dirty = w.dirty \cup {c, IF less.items = <<>> THEN c ELSE p}]
  BY Zenon DEF MergedInto
<1>3. w.mem = m /\ w.dirty = e /\ w.root = u.root /\ w.num = u.num /\ w.pages = u.pages /\ IsTree(w)
  <2> HIDE DEF w, m, e
  <2> QED BY <1>1 DEF IsTree
<1>4. r = [w EXCEPT !.mem = g, !.dirty = h]
  <2> HIDE DEF w, m, e, ns
  <2> QED BY <1>2, <1>3, Zenon DEF g, h
<1>5. r = [mem |-> g, dirty |-> h, root |-> w.root, num |-> w.num, pages |-> w.pages]
  <2> HIDE DEF w, g, h
  <2> QED BY <1>3, <1>4, BothSet, Zenon
<1>6. r.mem = g /\ r.dirty = h /\ r.root = u.root /\ r.num = u.num /\ r.pages = u.pages /\ IsTree(r)
  <2> HIDE DEF w, g, h
  <2> QED BY <1>3, <1>5 DEF IsTree
<1>7. PutsTwo(ns, p, less, c, merged)
  BY PutTwo
<1>8. DOMAIN ns = {p, c} /\ ns[p] = less /\ ns[c] = merged
  BY <1>7, Zenon DEF PutsTwo
<1>9. DOMAIN m = DOMAIN u.mem \ {d} /\ \A q \in DOMAIN m : m[q] = u.mem[q]
  BY DEF Restrict
<1>10. IsOver(g, ns, m)
  <2>1. g = ns ++ m
    OBVIOUS
  <2> HIDE DEF g, ns, m
  <2> QED BY <2>1, OverIs
<1> HIDE DEF ns, m, g
<1>11. DOMAIN g = {p, c} \cup (DOMAIN u.mem \ {d})
  BY <1>8, <1>9, <1>10 DEF IsOver
<1>12. ASSUME NEW q \in DOMAIN g PROVE g[q] = IF q = p THEN less ELSE IF q = c THEN merged ELSE u.mem[q]
  BY <1>8, <1>9, <1>10 DEF IsOver
<1> QED BY <1>6, <1>11, <1>12 DEF MergedTree

KidsMoved(n, i, b) == {n.kids[j] : j \in i + 2 .. Len(n.kids)} \cup {b.kids[j] : j \in DOMAIN b.kids}

LEMMA MergeWritten ==
  ASSUME NEW t, NEW f, NEW p, NEW i
  PROVE  Merge(t, f, p, i) =
           MergedInto(Load(t, f, KidsMoved(t.mem[p], i, t.mem[t.mem[p].kids[i + 1]])), p, t.mem[p].kids[i],
                      t.mem[p].kids[i + 1], LessOf(t.mem[p], i),
                      MergedOf(t.mem[t.mem[p].kids[i]], t.mem[p].items[i], t.mem[t.mem[p].kids[i + 1]]))
BY Zenon DEF Merge, MergedInto, KidsMoved, LessOf, MergedOf

LEMMA MergeIsInto ==
  ASSUME NEW t, NEW f, NEW p, NEW i, NEW n, n = t.mem[p], NEW c, c = n.kids[i], NEW d, d = n.kids[i + 1],
         NEW u, u = Load(t, f, KidsMoved(n, i, t.mem[d])),
         NEW less, less = LessOf(n, i), NEW merged, merged = MergedOf(t.mem[c], n.items[i], t.mem[d])
  PROVE  Merge(t, f, p, i) = MergedInto(u, p, c, d, less, merged)
BY MergeWritten, Zenon

MergeView(r, u, f, v, p, c, less, merged) ==
  \A q \in v.pages : View(r, f)[q] = IF q = p THEN less ELSE IF q = c THEN merged ELSE View(u, f)[q]

MergeRoom(u, p, c, d, a) ==
  /\ a.items = <<>> => p = u.root /\ a.leaf = FALSE /\ a.kids[1] = c
  /\ Hollow(u) /\ u.root /= p => u.mem[u.root].kids[1] /= d

LEMMA MergeKept ==
  ASSUME NEW u, NEW f, NEW w, Kept(u, f, w), NEW r, NEW p \in w.pages, NEW c \in w.pages, NEW d,
         NEW less, NEW merged, MergedTree(u, r, p, c, d, less, merged), NEW v, v.pages = w.pages \ {d},
         p /= d, c /= d, p /= c, u.root /= d, u.root /= c,
         MergeRoom(u, p, c, d, less)
  PROVE  Kept(r, f, v) /\ MergeView(r, u, f, v, p, c, less, merged)
<1>1. /\ IsTree(r) /\ r.root = u.root /\ r.pages = u.pages
      /\ DOMAIN r.mem = {p, c} \cup (DOMAIN u.mem \ {d})
      /\ \A q \in DOMAIN r.mem : r.mem[q] = IF q = p THEN less ELSE IF q = c THEN merged ELSE u.mem[q]
      /\ r.dirty = (u.dirty \ {d}) \cup {c, IF less.items = <<>> THEN c ELSE p}
  BY Zenon DEF MergedTree
<1>2. /\ IsTree(u) /\ u.pages \in Nat /\ w.pages \subseteq 0 .. u.pages - 1
      /\ DOMAIN u.mem \subseteq w.pages /\ u.dirty \subseteq DOMAIN u.mem
      /\ w.pages \subseteq DOMAIN View(u, f) /\ u.root \in DOMAIN u.mem
      /\ Hollow(u) => u.mem[u.root].kids[1] \in DOMAIN u.mem
      /\ \A q \in DOMAIN u.mem \ u.dirty : (q = u.root /\ Hollow(u)) \/ (q \in DOMAIN f /\ u.mem[q] = f[q])
  BY Zenon DEF Kept
<1>h. /\ less.items = <<>> => p = u.root /\ less.leaf = FALSE /\ less.kids[1] = c
      /\ Hollow(u) /\ u.root /= p => u.mem[u.root].kids[1] /= d
  BY Zenon DEF MergeRoom
<1>3. DOMAIN View(u, f) = DOMAIN u.mem \cup DOMAIN f /\ DOMAIN View(r, f) = DOMAIN r.mem \cup DOMAIN f
  BY ViewDomain
<1>4. r.pages \in Nat /\ v.pages \subseteq 0 .. r.pages - 1
  BY <1>1, <1>2
<1>5. DOMAIN r.mem \subseteq v.pages /\ r.dirty \subseteq DOMAIN r.mem /\ r.root \in DOMAIN r.mem
  BY <1>1, <1>2
<1>6. v.pages \subseteq DOMAIN View(r, f)
  BY <1>1, <1>2, <1>3
<1>7. u.root /= p => r.mem[r.root] = u.mem[u.root]
  BY <1>1, <1>5
<1>8. u.root = p => r.mem[r.root] = less
  BY <1>1, <1>5
<1>9. u.root /= p => (Hollow(r) <=> Hollow(u))
  BY <1>1, <1>2, <1>5, <1>7 DEF Hollow
<1>10. u.root = p => (Hollow(r) <=> ~less.leaf /\ less.items = <<>>)
  BY <1>5, <1>8 DEF Hollow
<1>11. ASSUME Hollow(r) PROVE r.mem[r.root].kids[1] \in DOMAIN r.mem
  <2>1. CASE u.root = p
    BY <1>1, <1>h, <1>8, <1>10, <1>11, <2>1
  <2>2. CASE u.root /= p
    BY <1>1, <1>2, <1>h, <1>7, <1>9, <1>11, <2>2
  <2> QED BY <2>1, <2>2
<1>12. ASSUME NEW q \in DOMAIN r.mem \ r.dirty PROVE (q = r.root /\ Hollow(r)) \/ (q \in DOMAIN f /\ r.mem[q] = f[q])
  <2>1. q /= c
    BY <1>1
  <2>2. CASE q = p
    <3>1. less.items = <<>>
      BY <1>1, <2>2
    <3> QED BY <1>1, <1>h, <1>10, <2>2, <3>1
  <2>3. CASE q /= p
    <3>1. q \in DOMAIN u.mem \ u.dirty /\ r.mem[q] = u.mem[q]
      BY <1>1, <2>1, <2>3
    <3>2. (q = u.root /\ Hollow(u)) \/ (q \in DOMAIN f /\ u.mem[q] = f[q])
      BY <1>2, <3>1
    <3> QED BY <1>1, <1>9, <2>3, <3>1, <3>2
  <2> QED BY <2>2, <2>3
<1>13. ASSUME NEW q \in v.pages
       PROVE  View(r, f)[q] = IF q = p THEN less ELSE IF q = c THEN merged ELSE View(u, f)[q]
  <2>1. q \in w.pages /\ q /= d
    OBVIOUS
  <2>2. View(r, f)[q] = IF q \in DOMAIN r.mem THEN r.mem[q] ELSE f[q]
    BY <1>3, <1>6, ViewAt
  <2>3. View(u, f)[q] = IF q \in DOMAIN u.mem THEN u.mem[q] ELSE f[q]
    BY <1>2, <1>3, <2>1, ViewAt
  <2> QED BY <1>1, <2>1, <2>2, <2>3
<1> QED BY <1>1, <1>4, <1>5, <1>6, <1>11, <1>12, <1>13, Zenon DEF Kept, MergeView

LEMMA LaidTwo ==
  ASSUME NEW M, NEW ns, NEW N, N = ns ++ M, NEW w, \A q \in w.pages : q \in DOMAIN M,
         NEW p, NEW a, NEW c, NEW b, PutsTwo(ns, p, a, c, b)
  PROVE  AtTwo(M, N, w.pages, p, a, c, b)
<1>1. IsOver(N, ns, M)
  BY OverIs
<1>2. DOMAIN ns = {p, c} /\ ns[p] = a /\ ns[c] = b
  BY Zenon DEF PutsTwo
<1>3. DOMAIN N = DOMAIN ns \cup DOMAIN M /\ \A q \in DOMAIN N : N[q] = IF q \in DOMAIN ns THEN ns[q] ELSE M[q]
  BY <1>1, Zenon DEF IsOver
<1>4. p \in DOMAIN N /\ c \in DOMAIN N /\ p \in DOMAIN ns /\ c \in DOMAIN ns
  BY <1>2, <1>3
<1>5. \A q \in w.pages \ {p, c} : q \in DOMAIN N /\ N[q] = M[q]
  BY <1>2, <1>3
<1> QED BY <1>2, <1>3, <1>4, <1>5 DEF AtTwo

(* The pages of the nodes that _merge looks at. *)
LEMMA KidsMovedIn ==
  ASSUME NEW M, NEW t, NEW f, NEW w, NEW p, NEW k, NEW n, NEW i, NEW c, NEW d, DigPair(M, t, f, w, p, k, n, i, c, d)
  PROVE  KidsMoved(n, i, t.mem[d]) \subseteq w.pages
<1>1. /\ Shape(M, t.root, w) /\ d \in w.pages /\ p \in w.pages /\ M[p] = n /\ M[d] = t.mem[d] /\ M[d] \in Nodes /\ n \in Nodes
      /\ i \in Nat
  BY Zenon DEF DigPair, Dig, Pair, Siblings, DigNode
<1>2. \A j \in 1 .. Len(n.kids) : n.kids[j] \in w.pages
  BY <1>1 DEF Shape, Hanging, KidCount, KidAt
<1>3. \A j \in 1 .. Len(M[d].kids) : M[d].kids[j] \in w.pages
  BY <1>1 DEF Shape, Hanging, KidCount, KidAt
<1>4. DOMAIN M[d].kids = 1 .. Len(M[d].kids)
  BY <1>1, NodeSeqs, SeqFacts, Zenon
<1>5. Len(n.kids) \in Nat
  BY <1>1, NodeSeqs, Zenon
<1>6. \A j \in i + 2 .. Len(n.kids) : j \in 1 .. Len(n.kids)
  BY <1>1, <1>5
<1> QED BY <1>1, <1>2, <1>3, <1>4, <1>6 DEF KidsMoved

(* Two kids of p with one item too few each, and the tree u in which the   *)
(* kids that move have been loaded.                                        *)
Merging(M, t, u, f, w, p, k, n, i, c, d, a, b) ==
  /\ Kept(u, f, w) /\ u.root = t.root /\ u.num = t.num /\ Shape(M, t.root, w) /\ Sized(M, t.root, w)
  /\ SameBelow(M, View(t, f), w, p) /\ SameKids(M, View(u, f), w)
  /\ \A q \in w.pages : View(u, f)[q] = View(t, f)[q]
  /\ a = LessNode(n, i) /\ b = JoinedNode(M[c], n.items[i], M[d])
  /\ p = t.root \/ Count(M, p) >= MinDegree
  /\ Count(M, c) < MinDegree /\ Count(M, d) < MinDegree

LEMMA MergingIs ==
  ASSUME NEW M, NEW t, NEW f, NEW w, NEW p, NEW k, NEW n, NEW i, NEW c, NEW d, DigPair(M, t, f, w, p, k, n, i, c, d),
         ~Enough(t.mem[c]), ~Enough(t.mem[d]),
         NEW ps, ps = KidsMoved(n, i, t.mem[d]), NEW u, u = Load(t, f, ps),
         NEW a, a = LessOf(n, i), NEW b, b = MergedOf(t.mem[c], n.items[i], t.mem[d])
  PROVE  Merging(M, t, u, f, w, p, k, n, i, c, d, a, b)
<1>1. /\ Dig(M, t, f, w, p, k, n) /\ n.leaf = FALSE
      /\ Pair(M, t.root, w, p, i, c, d) /\ p \in w.pages /\ M[p] = n /\ M[c] = t.mem[c] /\ M[d] = t.mem[d]
  BY Zenon DEF DigPair
<1>2. /\ Shape(M, t.root, w) /\ Sized(M, t.root, w) /\ SameBelow(M, View(t, f), w, p) /\ Deep(M, t, p)
  BY <1>1, Zenon DEF Dig
<1>3. /\ Siblings(M, p, i, c, d) /\ c \in w.pages /\ d \in w.pages /\ c /= t.root /\ d /= t.root
  BY <1>1, Zenon DEF Pair
<1>4. ps \subseteq w.pages
  BY KidsMovedIn
<1>5. Dig(M, u, f, w, p, k, n) /\ Loads(t, u, f, w, ps)
  BY <1>1, <1>4, DigLoad
<1>6. /\ Kept(u, f, w) /\ u.root = t.root /\ u.num = t.num
      /\ \A q \in w.pages : View(u, f)[q] = View(t, f)[q]
  BY <1>5, Zenon DEF Loads
<1>7. SameKids(M, View(u, f), w)
  BY <1>5, Zenon DEF Dig
<1>8. /\ Count(M, c) \in Nat /\ Count(M, d) \in Nat /\ Count(M, c) = Len(t.mem[c].items) /\ Count(M, d) = Len(t.mem[d].items)
  BY <1>1, <1>3, SiblingSeqs DEF Count
<1>9. Count(M, c) < MinDegree /\ Count(M, d) < MinDegree
  BY <1>8, Numbers DEF Enough
<1>10. Count(M, c) = MinDegree - 1 /\ Count(M, d) = MinDegree - 1
  <2>1. Count(M, c) >= MinDegree - 1 /\ Count(M, d) >= MinDegree - 1
    BY <1>2, <1>3 DEF Sized
  <2>2. MinDegree \in Nat
    BY Numbers
  <2> QED BY <1>8, <1>9, <2>1, <2>2
<1>11. MergedOf(M[c], M[p].items[i], M[d]) = JoinedNode(M[c], M[p].items[i], M[d]) /\ LessOf(M[p], i) = LessNode(M[p], i)
  BY <1>3, <1>10, Numbers, MergedIs
<1>12. a = LessNode(n, i) /\ b = JoinedNode(M[c], n.items[i], M[d])
  BY <1>1, <1>11
<1>13. p = t.root \/ Count(M, p) >= MinDegree
  BY <1>2, Zenon DEF Deep
<1> QED BY <1>2, <1>6, <1>7, <1>9, <1>12, <1>13, Zenon DEF Merging

(* The new tree M with the two joined. *)
Joining(M, N, t, w, v, p, k, c, d, a, b) ==
  /\ BelowLess(M, N, t.root, w, v, p, c, k, d)
  /\ \A q \in w.pages : N[q] = IF q = p THEN a ELSE IF q = c THEN b ELSE M[q]

LEMMA JoiningIs ==
  ASSUME NEW M, NEW t, NEW u, NEW f, NEW w, NEW p, NEW k, NEW n, NEW i, NEW c, NEW d, NEW a, NEW b,
         DigPair(M, t, f, w, p, k, n, i, c, d), Merging(M, t, u, f, w, p, k, n, i, c, d, a, b),
         w.lo[c] < k, k < w.hi[d], NEW N, N = (Put(p, a) ++ Put(c, b)) ++ M
  PROVE  \E v : Joining(M, N, t, w, v, p, k, c, d, a, b)
<1> DEFINE ns == Put(p, a) ++ Put(c, b)
<1>1. /\ Dig(M, t, f, w, p, k, n) /\ Pair(M, t.root, w, p, i, c, d) /\ p \in w.pages /\ M[p] = n
  BY Zenon DEF DigPair
<1>2. /\ Shape(M, t.root, w) /\ Sized(M, t.root, w) /\ k \in Int
  BY <1>1, Zenon DEF Dig
<1>3. /\ Siblings(M, p, i, c, d) /\ p /= d /\ p /= c /\ c /= d /\ c \in w.pages /\ d \in w.pages
  BY <1>1, Zenon DEF Pair
<1>4. /\ a = LessNode(n, i) /\ b = JoinedNode(M[c], n.items[i], M[d]) /\ (p = t.root \/ Count(M, p) >= MinDegree)
      /\ Count(M, c) < MinDegree /\ Count(M, d) < MinDegree
  BY Zenon DEF Merging
<1>5. PutsTwo(ns, p, a, c, b)
  BY <1>3, PutTwo
<1>u. N = ns ++ M
  OBVIOUS
<1> HIDE DEF ns
<1>6. \A q \in w.pages : q \in DOMAIN M
  BY <1>2 DEF Shape, NodesOK
<1>7. AtTwo(M, N, w.pages, p, a, c, b)
  BY <1>u, <1>5, <1>6, LaidTwo
<1>8. /\ p \in DOMAIN N /\ N[p] = a /\ c \in DOMAIN N /\ N[c] = b
      /\ \A q \in w.pages \ {p, c} : q \in DOMAIN N /\ N[q] = M[q]
  BY <1>7, Zenon DEF AtTwo
<1>9. Joins(N, M, p, i, c, d)
  <2>1. N[p] = LessNode(M[p], i) /\ N[c] = JoinedNode(M[c], M[p].items[i], M[d])
    BY <1>1, <1>4, <1>8, Zenon
  <2> QED BY <1>8, <2>1, Zenon DEF Joins
<1>10. \A q \in w.pages \ {p, c, d} : q \in DOMAIN N /\ N[q] = M[q]
  BY <1>8
<1>11. \E v : BelowLess(M, N, t.root, w, v, p, c, k, d)
  BY <1>1, <1>2, <1>4, <1>9, <1>10, MergeKeeps
<1>12. \A q \in w.pages : N[q] = IF q = p THEN a ELSE IF q = c THEN b ELSE M[q]
  BY <1>8
<1> QED BY <1>11, <1>12, Zenon DEF Joining

(* When p loses its last item it is the root, and c is its only kid; the   *)
(* kid of a hollow root is not d.                                          *)
LEMMA MergeHollow ==
  ASSUME NEW M, NEW t, NEW u, NEW f, NEW w, NEW p, NEW k, NEW n, NEW i, NEW c, NEW d, NEW a, NEW b,
         DigPair(M, t, f, w, p, k, n, i, c, d), Merging(M, t, u, f, w, p, k, n, i, c, d, a, b),
         c = n.kids[i], d = n.kids[i + 1]
  PROVE  MergeRoom(u, p, c, d, a)
<1>1. /\ Dig(M, t, f, w, p, k, n) /\ Pair(M, t.root, w, p, i, c, d) /\ p \in w.pages /\ M[p] = n
      /\ DigNode(M, View(t, f), t, w, p, n) /\ n.leaf = FALSE
  BY Zenon DEF DigPair
<1>2. /\ Kept(u, f, w) /\ u.root = t.root /\ Shape(M, t.root, w) /\ SameKids(M, View(u, f), w)
      /\ a = LessNode(n, i) /\ (p = t.root \/ Count(M, p) >= MinDegree)
  BY Zenon DEF Merging
<1>3. /\ Siblings(M, p, i, c, d) /\ p /= d /\ p /= c /\ c /= d /\ c \in w.pages /\ d \in w.pages
      /\ w.height[p] = w.height[c] + 1 /\ w.height[c] \in Nat
  BY <1>1, Zenon DEF Pair
<1>4. /\ n \in Nodes /\ Len(n.kids) = Len(n.items) + 1 /\ Len(n.items) \in Nat /\ Count(M, p) = Len(n.items)
  BY <1>1 DEF DigNode
<1>5. i \in 1 .. Len(n.items)
  BY <1>1, <1>3, <1>4 DEF Siblings
<1>6. /\ a.leaf = FALSE /\ a \in Nodes /\ Len(a.items) = Len(n.items) - 1
      /\ \A j \in 1 .. Len(n.kids) - 1 : a.kids[j] = n.kids[IF j <= i THEN j ELSE j + 1]
  BY <1>2, <1>4, <1>5, LessNodeIs
<1>7. ASSUME a.items = <<>> PROVE p = u.root /\ a.leaf = FALSE /\ a.kids[1] = c
  <2>1. Len(a.items) = 0
    BY <1>7
  <2>2. Len(n.items) = 1 /\ i = 1
    <3>1. Len(a.items) = Len(n.items) - 1
      BY <1>6
    <3>2. Len(n.items) \in Nat
      BY <1>4
    <3> DEFINE l == Len(n.items)
               m == Len(a.items)
    <3>3. l \in Nat /\ i \in 1 .. l /\ m = l - 1 /\ m = 0
      BY <2>1, <1>5, <3>1, <3>2
    <3> HIDE DEF l, m
    <3>4. l = 1 /\ i = 1
      BY <3>3
    <3> QED BY <3>4, Zenon DEF l
  <2>3. MinDegree \in Nat /\ MinDegree >= 2
    BY Numbers
  <2>4. p = t.root
    BY <1>2, <1>4, <2>2, <2>3
  <2>5. a.kids[1] = n.kids[1]
    BY <1>4, <1>6, <2>2
  <2> QED BY <1>2, <1>6, <2>2, <2>4, <2>5
<1>8. ASSUME Hollow(u), u.root /= p PROVE u.mem[u.root].kids[1] /= d
  <2>1. u.root \in DOMAIN u.mem /\ u.root \in w.pages
    BY <1>2 DEF Kept
  <2>2. View(u, f)[u.root] = u.mem[u.root]
    BY <2>1, LoadedAt
  <2>3. u.mem[u.root].kids = M[u.root].kids
    BY <1>2, <2>1, <2>2 DEF SameKids
  <2>4. w.height[p] <= w.height[u.root] /\ w.height[u.root] \in Nat /\ w.height[p] \in Nat
    BY <1>1, <1>2, <2>1, PlacesAre DEF Shape, Topped
  <2>5. w.height[u.root] /= 0
    BY <1>3, <2>4
  <2>6. KidCount(M, u.root) = Count(M, u.root) + 1 /\ Count(M, u.root) \in Nat
    BY <1>2, <2>1, <2>5, NodeFacts DEF Shape, Branching
  <2>7. 1 \in 1 .. KidCount(M, u.root)
    BY <2>6
  <2>8. i + 1 \in 1 .. KidCount(M, p) /\ KidAt(M, p, i + 1) = d
    BY <1>3, <1>4, <1>5 DEF Siblings
  <2>9. ASSUME KidAt(M, u.root, 1) = d PROVE FALSE
    <3>1. KidAt(M, u.root, 1) = KidAt(M, p, i + 1)
      BY <2>8, <2>9
    <3> QED BY <1>1, <1>2, <1>8, <2>1, <2>7, <2>8, <3>1, OneParent
  <2> QED BY <2>3, <2>9 DEF KidAt
<1> QED BY <1>7, <1>8, Zenon DEF MergeRoom

LEMMA MergeDug ==
  ASSUME NEW M, NEW t, NEW f, NEW w, NEW p, NEW k, NEW n, NEW i, NEW c, NEW d, DigPair(M, t, f, w, p, k, n, i, c, d),
         c = n.kids[i], d = n.kids[i + 1], ~Enough(t.mem[c]), ~Enough(t.mem[d]), w.lo[c] < k, k < w.hi[d],
         NEW o, o = On(Merge(t, f, p, i), c)
  PROVE  DigOn(M, t, f, w, p, k, o)
<1> DEFINE ps == KidsMoved(n, i, t.mem[d])
           u == Load(t, f, ps)
           a == LessOf(n, i)
           b == MergedOf(t.mem[c], n.items[i], t.mem[d])
           r == MergedInto(u, p, c, d, a, b)
           N == (Put(p, a) ++ Put(c, b)) ++ M
<1>1. /\ Dig(M, t, f, w, p, k, n) /\ Pair(M, t.root, w, p, i, c, d) /\ p \in w.pages /\ n = t.mem[p]
  BY Zenon DEF DigPair
<1>2. Merge(t, f, p, i) = r
  BY <1>1, MergeIsInto
<1>3. Merging(M, t, u, f, w, p, k, n, i, c, d, a, b)
  BY MergingIs
<1>u. N = (Put(p, a) ++ Put(c, b)) ++ M /\ r = MergedInto(u, p, c, d, a, b)
  OBVIOUS
<1> HIDE DEF ps, u, a, b, r, N
<1>4. PICK v : Joining(M, N, t, w, v, p, k, c, d, a, b)
  BY <1>3, <1>u, JoiningIs
<1>5. /\ BelowLess(M, N, t.root, w, v, p, c, k, d)
      /\ \A q \in w.pages : N[q] = IF q = p THEN a ELSE IF q = c THEN b ELSE M[q]
  BY <1>4, Zenon DEF Joining
<1>6. /\ BelowKept(M, N, t.root, w, v, p, c, k) /\ v.pages = w.pages \ {d}
  BY <1>5, Zenon DEF BelowLess
<1>7. /\ p /= d /\ p /= c /\ c /= d /\ c \in w.pages /\ d \in w.pages /\ c /= t.root /\ d /= t.root
      /\ w.height[p] = w.height[c] + 1 /\ w.height[d] = w.height[c] /\ w.height[c] \in Nat
  BY <1>1, Zenon DEF Pair
<1>8. /\ Kept(u, f, w) /\ u.root = t.root /\ u.num = t.num /\ Shape(M, t.root, w)
      /\ SameBelow(M, View(t, f), w, p) /\ \A q \in w.pages : View(u, f)[q] = View(t, f)[q]
  BY <1>3, Zenon DEF Merging
<1>9. IsTree(u)
  BY <1>8, Zenon DEF Kept
<1>10. MergedTree(u, r, p, c, d, a, b)
  BY <1>u, <1>7, <1>9, MergedIntoIs
<1>11. MergeRoom(u, p, c, d, a)
  BY <1>3, MergeHollow
<1>12. Kept(r, f, v) /\ MergeView(r, u, f, v, p, c, a, b)
  <2>1. u.root /= d /\ u.root /= c /\ v.pages = w.pages \ {d}
    BY <1>6, <1>7, <1>8
  <2> QED BY <1>1, <1>7, <1>8, <1>10, <1>11, <2>1, MergeKept
<1>13. /\ r.root = t.root /\ r.num = t.num /\ c \in DOMAIN r.mem
  BY <1>8, <1>10 DEF MergedTree
<1>14. Above(M, N, View(t, f), View(r, f), w, v, p)
  <2>1. ASSUME NEW q \in v.pages PROVE View(r, f)[q] = IF w.height[q] <= w.height[p] THEN N[q] ELSE View(t, f)[q]
    <3>1. View(r, f)[q] = IF q = p THEN a ELSE IF q = c THEN b ELSE View(u, f)[q]
      BY <1>12 DEF MergeView
    <3>2. q \in w.pages
      BY <1>6
    <3>3. N[q] = IF q = p THEN a ELSE IF q = c THEN b ELSE M[q]
      BY <1>5, <3>2
    <3>4. w.height[q] <= w.height[p] => View(t, f)[q] = M[q]
      BY <1>8, <3>2 DEF SameBelow
    <3>5. View(u, f)[q] = View(t, f)[q]
      BY <1>8, <3>2
    <3>6. w.height[p] <= w.height[p] /\ w.height[c] <= w.height[p]
      BY <1>7
    <3> QED BY <3>1, <3>3, <3>4, <3>5, <3>6, Zenon
  <2>2. ASSUME NEW q \in v.pages, w.height[q] > w.height[p] PROVE N[q] = M[q]
    <3>1. q \in w.pages /\ q /= p /\ q /= c
      BY <1>6, <1>7, <2>2
    <3> QED BY <1>5, <3>1
  <2>3. ASSUME NEW q \in w.pages, w.height[q] >= w.height[p] PROVE q \in v.pages
    BY <1>6, <1>7, <2>3
  <2> QED BY <2>1, <2>2, <2>3, Zenon DEF Above
<1>15. Dug(M, t, f, w, p, k, r, N, v, c)
  BY <1>6, <1>12, <1>13, <1>14, Zenon DEF Dug
<1>16. o.res = "on" /\ o.at = c /\ o.tree = r
  BY <1>2, OnIs
<1> QED BY <1>15, <1>16, Zenon DEF DigOn

(* What a round does to a tree in which kids have been loaded, it does to  *)
(* the tree as it was.                                                     *)
LEMMA DigFrom ==
  ASSUME NEW M, NEW t, NEW u, NEW f, NEW w, NEW p, NEW k, NEW ps, Loads(t, u, f, w, ps),
         NEW o, DigOn(M, u, f, w, p, k, o)
  PROVE  DigOn(M, t, f, w, p, k, o)
<1>1. PICK v, N : Dug(M, u, f, w, p, k, o.tree, N, v, o.at)
  BY Zenon DEF DigOn
<1> DEFINE r == o.tree
           x == o.at
<1>2. o.res = "on"
  BY Zenon DEF DigOn
<1>3. /\ u.root = t.root /\ u.num = t.num /\ \A q \in w.pages : View(u, f)[q] = View(t, f)[q]
  BY Zenon DEF Loads
<1>4. /\ Kept(r, f, v) /\ BelowKept(M, N, u.root, w, v, p, x, k) /\ r.root = u.root /\ r.num = u.num
      /\ x \in DOMAIN r.mem /\ Above(M, N, View(u, f), View(r, f), w, v, p)
  BY <1>1, Zenon DEF Dug
<1>5. v.pages \subseteq w.pages
  BY <1>4, Zenon DEF BelowKept
<1> DEFINE V == View(t, f)
           U == View(u, f)
           B == View(r, f)
<1>6. Above(M, N, V, B, w, v, p)
  <2>1. Above(M, N, U, B, w, v, p)
    BY <1>4
  <2>2. \A q \in w.pages : U[q] = V[q]
    BY <1>3
  <2> HIDE DEF U, V, B
  <2> QED BY <1>5, <2>1, <2>2 DEF Above
<1>7. Dug(M, t, f, w, p, k, r, N, v, x)
  BY <1>3, <1>4, <1>6, Zenon DEF Dug
<1> QED BY <1>2, <1>7, Zenon DEF DigOn

(* The kid x can spare an item: the round only goes on there. *)
LEMMA LoadDug ==
  ASSUME NEW M, NEW t, NEW f, NEW w, NEW p, NEW k, NEW n, Dig(M, t, f, w, p, k, n),
         NEW i, NEW x \in DOMAIN t.mem, DigKid(M, t, w, p, n, i, x), Enough(t.mem[x]), w.lo[x] < k, k < w.hi[x],
         NEW o, o = On(t, x)
  PROVE  DigOn(M, t, f, w, p, k, o)
<1> DEFINE V == View(t, f)
<1>1. /\ Kept(t, f, w) /\ Shape(M, t.root, w) /\ Sized(M, t.root, w) /\ SameBelow(M, V, w, p)
  BY Zenon DEF Dig
<1>2. /\ x \in w.pages /\ w.height[p] = w.height[x] + 1 /\ x /= p /\ x /= t.root /\ M[x] = t.mem[x]
  BY Zenon DEF DigKid
<1>3. DigNode(M, V, t, w, p, n)
  BY DigNodeIs
<1>4. p \in w.pages /\ w.height[p] \in Nat
  BY <1>3, Zenon DEF DigNode
<1> HIDE DEF V
<1>5. SameHeld(M, w, M, w)
  BY DEF SameHeld
<1>6. Moved(M, M, t.root, w, w, p)
  BY <1>1, <1>4, <1>5 DEF Moved
<1>7. Count(M, x) >= MinDegree
  BY <1>2 DEF Enough, Count
<1>8. BelowKept(M, M, t.root, w, w, p, x, k)
  BY <1>2, <1>6, <1>7 DEF BelowKept
<1>9. Above(M, M, V, V, w, w, p)
  BY <1>1 DEF Above, SameBelow
<1>10. Dug(M, t, f, w, p, k, t, M, w, x)
  BY <1>1, <1>8, <1>9, Zenon DEF Dug, V
<1>11. o.res = "on" /\ o.at = x /\ o.tree = t
  BY OnIs
<1> QED BY <1>10, <1>11, Zenon DEF DigOn

(* What del looks for is below p, in the kid c. *)
Seek(M, t, f, w, p, k, n, i, c) ==
  /\ Dig(M, t, f, w, p, k, n) /\ n.leaf = FALSE /\ i \in 1 .. Len(n.kids) /\ c = n.kids[i]
  /\ w.lo[c] < k /\ k < w.hi[c] /\ Len(n.kids) = Len(n.items) + 1 /\ Len(n.items) >= 1 /\ Len(n.items) \in Nat
  /\ DOMAIN n.kids = 1 .. Len(n.kids) /\ n = t.mem[p]
  /\ \A j \in 1 .. Len(n.kids) : n.kids[j] \in w.pages

LEMMA SeekIs ==
  ASSUME NEW M, NEW t, NEW f, NEW w, NEW p, NEW k, NEW n, Dig(M, t, f, w, p, k, n), n.leaf = FALSE, ~Holds(n.items, k),
         NEW i, i = Smaller(n.items, k) + 1, NEW c, c = n.kids[i]
  PROVE  Seek(M, t, f, w, p, k, n, i, c)
<1> DEFINE V == View(t, f)
<1>1. /\ Kept(t, f, w) /\ Shape(M, t.root, w) /\ k \in Int /\ n = t.mem[p] /\ w.lo[p] < k /\ k < w.hi[p]
  BY Zenon DEF Dig, Here
<1>2. DigNode(M, V, t, w, p, n)
  BY DigNodeIs
<1> HIDE DEF V
<1>3. /\ p \in w.pages /\ M[p] = n /\ Len(n.kids) = (IF n.leaf THEN 0 ELSE Len(n.items) + 1) /\ Len(n.items) \in Nat
      /\ KidCount(M, p) = Len(n.kids) /\ n \in Nodes /\ (n.leaf = FALSE => Len(n.items) >= 1)
  BY <1>2, Zenon DEF DigNode
<1>4. KidOn(M, t.root, w, p, i, c, k)
  BY <1>1, <1>3, KidFor
<1>5. i \in 1 .. KidCount(M, p) /\ w.lo[c] < k /\ k < w.hi[c]
  BY <1>4, Zenon DEF KidOn
<1>6. DOMAIN n.kids = 1 .. Len(n.kids)
  BY <1>3, NodeSeqs, SeqFacts, Zenon
<1>7. \A j \in 1 .. Len(n.kids) : n.kids[j] \in w.pages
  BY <1>1, <1>3 DEF Shape, Hanging, KidAt
<1> QED BY <1>1, <1>3, <1>5, <1>6, <1>7 DEF Seek

LEMMA SeekLoad ==
  ASSUME NEW M, NEW t, NEW f, NEW w, NEW p, NEW k, NEW n, NEW i, NEW c, Seek(M, t, f, w, p, k, n, i, c),
         NEW ps, ps \subseteq w.pages, NEW u, u = Load(t, f, ps)
  PROVE  Seek(M, u, f, w, p, k, n, i, c) /\ Loads(t, u, f, w, ps)
<1>1. Dig(M, t, f, w, p, k, n)
  BY Zenon DEF Seek
<1>2. Dig(M, u, f, w, p, k, n) /\ Loads(t, u, f, w, ps)
  BY <1>1, DigLoad
<1>3. n = u.mem[p]
  BY <1>2, Zenon DEF Dig
<1> QED BY <1>2, <1>3, Zenon DEF Seek

LEMMA SeekHere ==
  ASSUME NEW M, NEW t, NEW f, NEW w, NEW p, NEW k, NEW n, NEW i, NEW c, Seek(M, t, f, w, p, k, n, i, c),
         c \in DOMAIN t.mem, Enough(t.mem[c]), NEW o, o = On(t, c)
  PROVE  DigOn(M, t, f, w, p, k, o)
<1>1. Dig(M, t, f, w, p, k, n) /\ i \in 1 .. Len(n.kids) /\ c = n.kids[i] /\ w.lo[c] < k /\ k < w.hi[c]
  BY Zenon DEF Seek
<1>2. DigKid(M, t, w, p, n, i, c)
  BY <1>1, DigKidIs
<1> QED BY <1>1, <1>2, LoadDug

LEMMA SeekLeft ==
  ASSUME NEW M, NEW t, NEW f, NEW w, NEW p, NEW k, NEW n, NEW i, NEW c, Seek(M, t, f, w, p, k, n, i, c),
         c \in DOMAIN t.mem, ~Enough(t.mem[c]), NEW j, j = i - 1, j \in DOMAIN n.kids,
         NEW d, d = n.kids[j], d \in DOMAIN t.mem, Enough(t.mem[d]), NEW o, o = On(FromLeft(t, p, i), c)
  PROVE  DigOn(M, t, f, w, p, k, o)
<1>1. /\ Dig(M, t, f, w, p, k, n) /\ i \in 1 .. Len(n.kids) /\ c = n.kids[i] /\ w.lo[c] < k /\ k < w.hi[c]
      /\ n.leaf = FALSE /\ Len(n.kids) = Len(n.items) + 1 /\ Len(n.items) \in Nat /\ DOMAIN n.kids = 1 .. Len(n.kids)
  BY Zenon DEF Seek
<1>2. j \in 1 .. Len(n.items) /\ j + 1 = i
  BY <1>1
<1>3. DigPair(M, t, f, w, p, k, n, j, d, c)
  BY <1>1, <1>2, DigPairIs
<1> QED BY <1>1, <1>3, FromLeftIs

LEMMA SeekRight ==
  ASSUME NEW M, NEW t, NEW f, NEW w, NEW p, NEW k, NEW n, NEW i, NEW c, Seek(M, t, f, w, p, k, n, i, c),
         c \in DOMAIN t.mem, ~Enough(t.mem[c]), i + 1 \in DOMAIN n.kids,
         NEW d, d = n.kids[i + 1], d \in DOMAIN t.mem, Enough(t.mem[d]), NEW o, o = On(FromRight(t, p, i), c)
  PROVE  DigOn(M, t, f, w, p, k, o)
<1>1. /\ Dig(M, t, f, w, p, k, n) /\ i \in 1 .. Len(n.kids) /\ c = n.kids[i] /\ w.lo[c] < k /\ k < w.hi[c]
      /\ n.leaf = FALSE /\ Len(n.kids) = Len(n.items) + 1 /\ Len(n.items) \in Nat /\ DOMAIN n.kids = 1 .. Len(n.kids)
  BY Zenon DEF Seek
<1>2. i \in 1 .. Len(n.items)
  BY <1>1
<1>3. DigPair(M, t, f, w, p, k, n, i, c, d)
  BY <1>1, <1>2, DigPairIs
<1> QED BY <1>1, <1>3, FromRightIs

LEMMA SeekMerge ==
  ASSUME NEW M, NEW t, NEW f, NEW w, NEW p, NEW k, NEW n, NEW i, NEW c, Seek(M, t, f, w, p, k, n, i, c),
         NEW j \in 1 .. Len(n.items), i = j \/ i = j + 1,
         NEW l, l = n.kids[j], NEW r, r = n.kids[j + 1], l \in DOMAIN t.mem, r \in DOMAIN t.mem,
         ~Enough(t.mem[l]), ~Enough(t.mem[r]), NEW o, o = On(Merge(t, f, p, j), l)
  PROVE  DigOn(M, t, f, w, p, k, o)
<1>1. /\ Dig(M, t, f, w, p, k, n) /\ c = n.kids[i] /\ w.lo[c] < k /\ k < w.hi[c] /\ n.leaf = FALSE
  BY Zenon DEF Seek
<1>2. DigPair(M, t, f, w, p, k, n, j, l, r)
  BY <1>1, DigPairIs
<1>3. c \in {l, r}
  BY <1>1
<1>4. k \in Int /\ Pair(M, t.root, w, p, j, l, r)
  BY <1>1, <1>2, Zenon DEF DigPair, Dig
<1>5. BetweenKids(w, l, r, c, k)
  BY <1>1, <1>3, <1>4, PairBetween
<1>6. w.lo[l] < k /\ k < w.hi[r]
  BY <1>5, Zenon DEF BetweenKids
<1> QED BY <1>2, <1>6, MergeDug

(* The trees and the cases that DeleteBelow speaks of. *)
BelowPlace(n, i) == IF i <= Len(n.items) THEN i ELSE i - 1
BelowTwo(n, j) == {n.kids[j], n.kids[j + 1]}
NextTo(n, i) == {n.kids[s] : s \in {i - 1, i + 1} \cap DOMAIN n.kids}
LendsAt(x, n, s) == s \in DOMAIN n.kids /\ Enough(x.mem[n.kids[s]])
BelowIs(o, u, x, f, p, i, n, c, j) ==
  o = IF Enough(u.mem[c]) THEN On(u, c)
      ELSE IF LendsAt(x, n, i - 1) THEN On(FromLeft(x, p, i), c)
      ELSE IF LendsAt(x, n, i + 1) THEN On(FromRight(x, p, i), c)
      ELSE On(Merge(x, f, p, j), n.kids[j])

LEMMA BelowWritten ==
  ASSUME NEW t, NEW f, NEW p, NEW i
  PROVE  LET n == t.mem[p]
             j == BelowPlace(n, i)
             u == Load(t, f, BelowTwo(n, j))
             x == Load(u, f, NextTo(n, i))
         IN BelowIs(DeleteBelow(t, f, p, i), u, x, f, p, i, n, n.kids[i], j)
BY Zenon DEF DeleteBelow, BelowIs, BelowPlace, BelowTwo, NextTo, LendsAt

LEMMA BelowBy ==
  ASSUME NEW t, NEW f, NEW p, NEW i, NEW n, n = t.mem[p], NEW j, j = BelowPlace(n, i), NEW c, c = n.kids[i],
         NEW ps, ps = BelowTwo(n, j), NEW qs, qs = NextTo(n, i),
         NEW u, u = Load(t, f, ps), NEW x, x = Load(u, f, qs), NEW o, o = DeleteBelow(t, f, p, i)
  PROVE  BelowIs(o, u, x, f, p, i, n, c, j)
BY BelowWritten, Zenon

LEMMA DeleteBelowIs ==
  ASSUME NEW M, NEW t, NEW f, NEW w, NEW p, NEW k, NEW n, Dig(M, t, f, w, p, k, n), n.leaf = FALSE, ~Holds(n.items, k),
         NEW i, i = Smaller(n.items, k) + 1, NEW o, o = DeleteBelow(t, f, p, i)
  PROVE  DigOn(M, t, f, w, p, k, o)
<1> DEFINE c == n.kids[i]
           j == BelowPlace(n, i)
           ps == BelowTwo(n, j)
           qs == NextTo(n, i)
           u == Load(t, f, ps)
           x == Load(u, f, qs)
<1>1. n = t.mem[p]
  BY Zenon DEF Dig
<1>2. BelowIs(o, u, x, f, p, i, n, c, j)
  <2> HIDE DEF c, j, ps, qs, x, u
  <2> QED BY <1>1, BelowBy DEF c, j, ps, qs, x, u
<1>3. Seek(M, t, f, w, p, k, n, i, c)
  BY SeekIs
<1>d. j = BelowPlace(n, i) /\ ps = BelowTwo(n, j) /\ qs = NextTo(n, i) /\ u = Load(t, f, ps) /\ x = Load(u, f, qs)
      /\ c = n.kids[i]
  OBVIOUS
<1> HIDE DEF c, j, ps, qs, u, x
<1>4. /\ i \in 1 .. Len(n.kids) /\ Len(n.kids) = Len(n.items) + 1 /\ Len(n.items) >= 1 /\ Len(n.items) \in Nat
      /\ DOMAIN n.kids = 1 .. Len(n.kids) /\ \A s \in 1 .. Len(n.kids) : n.kids[s] \in w.pages
  BY <1>3, Zenon DEF Seek
<1>5. j \in 1 .. Len(n.items) /\ (i = j \/ i = j + 1)
  BY <1>d, <1>4 DEF BelowPlace
<1>6. j \in 1 .. Len(n.kids) /\ j + 1 \in 1 .. Len(n.kids)
  BY <1>4, <1>5
<1>7. ps \subseteq w.pages /\ c \in ps /\ n.kids[j] \in ps /\ n.kids[j + 1] \in ps
  BY <1>d, <1>4, <1>5, <1>6 DEF BelowTwo
<1>8. qs \subseteq w.pages /\ (\A s \in {i - 1, i + 1} : s \in DOMAIN n.kids => n.kids[s] \in qs)
  BY <1>d, <1>4 DEF NextTo
<1>9. Seek(M, u, f, w, p, k, n, i, c) /\ Loads(t, u, f, w, ps)
  BY <1>d, <1>3, <1>7, SeekLoad
<1>10. Seek(M, x, f, w, p, k, n, i, c) /\ Loads(u, x, f, w, qs)
  BY <1>d, <1>8, <1>9, SeekLoad
<1>11. DOMAIN u.mem = DOMAIN t.mem \cup ps
  BY <1>9, Zenon DEF Loads
<1>12. DOMAIN x.mem = DOMAIN u.mem \cup qs /\ \A q \in DOMAIN u.mem : x.mem[q] = u.mem[q]
  BY <1>10, Zenon DEF Loads
<1>13. c \in DOMAIN u.mem /\ c \in DOMAIN x.mem /\ x.mem[c] = u.mem[c]
  BY <1>7, <1>11, <1>12
<1>14. CASE Enough(u.mem[c])
  <2>1. o = On(u, c)
    BY <1>2, <1>14, Zenon DEF BelowIs
  <2>2. DigOn(M, u, f, w, p, k, o)
    BY <1>9, <1>13, <1>14, <2>1, SeekHere
  <2> QED BY <1>9, <2>2, DigFrom
<1>15. ASSUME DigOn(M, x, f, w, p, k, o) PROVE DigOn(M, t, f, w, p, k, o)
  <2>1. DigOn(M, u, f, w, p, k, o)
    BY <1>10, <1>15, DigFrom
  <2> QED BY <1>9, <2>1, DigFrom
<1>16. CASE ~Enough(u.mem[c]) /\ LendsAt(x, n, i - 1)
  <2>1. o = On(FromLeft(x, p, i), c)
    BY <1>2, <1>16, Zenon DEF BelowIs
  <2>2. i - 1 \in DOMAIN n.kids /\ Enough(x.mem[n.kids[i - 1]])
    BY <1>16, Zenon DEF LendsAt
  <2>3. n.kids[i - 1] \in DOMAIN x.mem
    BY <1>8, <1>12, <2>2
  <2>4. ~Enough(x.mem[c])
    BY <1>13, <1>16
  <2>5. DigOn(M, x, f, w, p, k, o)
    BY <1>10, <1>13, <2>1, <2>2, <2>3, <2>4, SeekLeft
  <2> QED BY <1>15, <2>5
<1>17. CASE ~Enough(u.mem[c]) /\ ~LendsAt(x, n, i - 1) /\ LendsAt(x, n, i + 1)
  <2>1. o = On(FromRight(x, p, i), c)
    BY <1>2, <1>17, Zenon DEF BelowIs
  <2>2. i + 1 \in DOMAIN n.kids /\ Enough(x.mem[n.kids[i + 1]])
    BY <1>17, Zenon DEF LendsAt
  <2>3. n.kids[i + 1] \in DOMAIN x.mem
    BY <1>8, <1>12, <2>2
  <2>4. ~Enough(x.mem[c])
    BY <1>13, <1>17
  <2>5. DigOn(M, x, f, w, p, k, o)
    BY <1>10, <1>13, <2>1, <2>2, <2>3, <2>4, SeekRight
  <2> QED BY <1>15, <2>5
<1>18. CASE ~Enough(u.mem[c]) /\ ~LendsAt(x, n, i - 1) /\ ~LendsAt(x, n, i + 1)
  <2> DEFINE l == n.kids[j]
             r == n.kids[j + 1]
  <2>1. o = On(Merge(x, f, p, j), l)
    BY <1>2, <1>18, Zenon DEF BelowIs
  <2>2. l \in DOMAIN x.mem /\ r \in DOMAIN x.mem
    BY <1>7, <1>11, <1>12
  <2>3. ~Enough(x.mem[c])
    BY <1>13, <1>18
  <2>4. ~Enough(x.mem[l]) /\ ~Enough(x.mem[r])
    <3>1. CASE i = j
      <4>1. l = c
        BY <1>d, <3>1
      <4>2. ~LendsAt(x, n, j + 1)
        BY <1>18, <3>1
      <4>3. j + 1 \in DOMAIN n.kids
        BY <1>4, <1>6
      <4> QED BY <2>3, <4>1, <4>2, <4>3, Zenon DEF LendsAt
    <3>2. CASE i = j + 1
      <4>1. r = c
        BY <1>d, <3>2
      <4>2. ~LendsAt(x, n, j)
        <5>1. j = i - 1
          BY <1>5, <3>2
        <5> QED BY <1>18, <5>1
      <4>3. j \in DOMAIN n.kids
        BY <1>4, <1>6
      <4> QED BY <2>3, <4>1, <4>2, <4>3, Zenon DEF LendsAt
    <3> QED BY <1>5, <3>1, <3>2
  <2>u. l = n.kids[j] /\ r = n.kids[j + 1]
    OBVIOUS
  <2> HIDE DEF l, r
  <2>5. DigOn(M, x, f, w, p, k, o)
    BY <1>5, <1>10, <2>u, <2>1, <2>2, <2>4, SeekMerge
  <2> QED BY <1>15, <2>5
<1> QED BY <1>14, <1>16, <1>17, <1>18

(* The key is item i of p, which is above the leaves, and the neighbour    *)
(* that is to take its place is below the kid x.                           *)
DigEdge(M, t, f, w, p, k, n, i, o) ==
  /\ o.res \in {"pred", "succ"} /\ (\E ps : Loads(t, o.tree, f, w, ps))
  /\ n.leaf = FALSE /\ i \in 1 .. Count(M, p) /\ KeyAt(M, p, i) = k
  /\ o.at \in DOMAIN o.tree.mem /\ o.at \in w.pages /\ o.at /= t.root /\ Count(M, o.at) >= MinDegree
  /\ w.height[p] = w.height[o.at] + 1
  /\ o.res = "pred" => w.hi[o.at] = k
  /\ o.res = "succ" => w.lo[o.at] = k

DigLeaf(M, t, p, k, n, i, o) ==
  /\ o.res = "yes" /\ n.leaf = TRUE /\ i \in 1 .. Count(M, p) /\ KeyAt(M, p, i) = k
  /\ o.tree = Change(t, Put(p, Node(TRUE, RemoveAt(n.items, i), <<>>)))

DigNo(t, k, n, o) == o.res = "no" /\ o.tree = t /\ n.leaf = TRUE /\ ~Holds(n.items, k)

DigDone(M, t, f, w, p, k, n, i, o) ==
  DigOn(M, t, f, w, p, k, o) \/ DigEdge(M, t, f, w, p, k, n, i, o) \/ DigLeaf(M, t, p, k, n, i, o) \/ DigNo(t, k, n, o)

LEMMA DigHeld ==
  ASSUME NEW M, NEW t, NEW f, NEW w, NEW p, NEW k, NEW n, Dig(M, t, f, w, p, k, n), Holds(n.items, k),
         NEW i, i = Smaller(n.items, k) + 1
  PROVE  i \in 1 .. Count(M, p) /\ KeyAt(M, p, i) = k
<1> DEFINE V == View(t, f)
           m == Smaller(n.items, k)
<1>1. Shape(M, t.root, w) /\ k \in Int
  BY Zenon DEF Dig
<1>2. DigNode(M, V, t, w, p, n)
  BY DigNodeIs
<1> HIDE DEF V
<1>3. p \in w.pages /\ M[p] = n
  BY <1>2, Zenon DEF DigNode
<1>4. Located(M, p, k, m)
  BY <1>1, <1>3, Locate
<1> HIDE DEF m
<1>5. Holds(M[p].items, k) <=> m + 1 \in 1 .. Count(M, p) /\ KeyAt(M, p, m + 1) = k
  BY <1>4, Zenon DEF Located
<1> QED BY <1>3, <1>5 DEF m

InternalIs(o, u, f, p, i, l, r) ==
  o = IF Enough(u.mem[l]) THEN [tree |-> u, res |-> "pred", at |-> l]
      ELSE IF Enough(u.mem[r]) THEN [tree |-> u, res |-> "succ", at |-> r]
      ELSE On(Merge(u, f, p, i), l)

LEMMA InternalBy ==
  ASSUME NEW t, NEW f, NEW p, NEW i, NEW n, n = t.mem[p], NEW l, l = n.kids[i], NEW r, r = n.kids[i + 1],
         NEW ps, ps = BelowTwo(n, i), NEW u, u = Load(t, f, ps), NEW o, o = DeleteInternal(t, f, p, i)
  PROVE  InternalIs(o, u, f, p, i, l, r)
BY Zenon DEF DeleteInternal, InternalIs, BelowTwo

LEMMA EdgeIs ==
  ASSUME NEW u, NEW res, NEW x, NEW o, o = [tree |-> u, res |-> res, at |-> x]
  PROVE  o.tree = u /\ o.res = res /\ o.at = x
OBVIOUS

LEMMA DeleteInternalIs ==
  ASSUME NEW M, NEW t, NEW f, NEW w, NEW p, NEW k, NEW n, Dig(M, t, f, w, p, k, n), n.leaf = FALSE, Holds(n.items, k),
         NEW i, i = Smaller(n.items, k) + 1, NEW o, o = DeleteInternal(t, f, p, i)
  PROVE  DigOn(M, t, f, w, p, k, o) \/ DigEdge(M, t, f, w, p, k, n, i, o)
<1> DEFINE l == n.kids[i]
           r == n.kids[i + 1]
           ps == BelowTwo(n, i)
           u == Load(t, f, ps)
           V == View(t, f)
<1>1. n = t.mem[p] /\ Shape(M, t.root, w) /\ k \in Int
  BY Zenon DEF Dig
<1>2. DigNode(M, V, t, w, p, n)
  BY DigNodeIs
<1>d. l = n.kids[i] /\ r = n.kids[i + 1] /\ ps = BelowTwo(n, i) /\ u = Load(t, f, ps)
  OBVIOUS
<1> HIDE DEF l, r, ps, u, V
<1>3. /\ M[p] = n /\ p \in w.pages /\ Count(M, p) = Len(n.items) /\ Len(n.items) \in Nat
      /\ Len(n.kids) = (IF n.leaf THEN 0 ELSE Len(n.items) + 1)
  BY <1>2, Zenon DEF DigNode
<1>4. i \in 1 .. Count(M, p) /\ KeyAt(M, p, i) = k
  BY DigHeld
<1>5. i \in 1 .. Len(n.items) /\ i \in 1 .. Len(n.kids) /\ i + 1 \in 1 .. Len(n.kids)
  BY <1>3, <1>4
<1>6. InternalIs(o, u, f, p, i, l, r)
  BY <1>d, <1>1, InternalBy
<1>7. DigKid(M, t, w, p, n, i, l)
  BY <1>d, <1>5, DigKidIs
<1>8. DigKid(M, t, w, p, n, i + 1, r)
  BY <1>d, <1>5, DigKidIs
<1>9. ps \subseteq w.pages /\ l \in ps /\ r \in ps
  BY <1>d, <1>7, <1>8 DEF DigKid, BelowTwo
<1>10. Dig(M, u, f, w, p, k, n) /\ Loads(t, u, f, w, ps)
  BY <1>d, <1>9, DigLoad
<1>11. DOMAIN u.mem = DOMAIN t.mem \cup ps /\ u.root = t.root
  BY <1>10, Zenon DEF Loads
<1>12. l \in DOMAIN u.mem /\ r \in DOMAIN u.mem
  BY <1>9, <1>11
<1>13. DigPair(M, u, f, w, p, k, n, i, l, r)
  BY <1>d, <1>5, <1>10, <1>12, DigPairIs
<1>14. Pair(M, u.root, w, p, i, l, r) /\ M[l] = u.mem[l] /\ M[r] = u.mem[r]
  BY <1>13, Zenon DEF DigPair
<1>15. /\ w.hi[l] = k /\ w.lo[r] = k /\ w.lo[l] < k /\ k < w.hi[r] /\ l /= t.root /\ r /= t.root /\ l \in w.pages /\ r \in w.pages
       /\ w.height[p] = w.height[l] + 1 /\ w.height[p] = w.height[r] + 1
  BY <1>4, <1>11, <1>14 DEF Pair
<1>16. CASE Enough(u.mem[l])
  <2>1. o = [tree |-> u, res |-> "pred", at |-> l]
    BY <1>6, <1>16, Zenon DEF InternalIs
  <2>2. o.tree = u /\ o.res = "pred" /\ o.at = l
    BY <2>1, EdgeIs
  <2>3. Count(M, l) >= MinDegree
    BY <1>14, <1>16 DEF Enough, Count
  <2>4. DigEdge(M, t, f, w, p, k, n, i, o)
    BY <1>4, <1>10, <1>12, <1>15, <2>2, <2>3 DEF DigEdge
  <2> QED BY <2>4
<1>17. CASE ~Enough(u.mem[l]) /\ Enough(u.mem[r])
  <2>1. o = [tree |-> u, res |-> "succ", at |-> r]
    BY <1>6, <1>17, Zenon DEF InternalIs
  <2>2. o.tree = u /\ o.res = "succ" /\ o.at = r
    BY <2>1, EdgeIs
  <2>3. Count(M, r) >= MinDegree
    BY <1>14, <1>17 DEF Enough, Count
  <2>4. DigEdge(M, t, f, w, p, k, n, i, o)
    BY <1>4, <1>10, <1>12, <1>15, <2>2, <2>3 DEF DigEdge
  <2> QED BY <2>4
<1>18. CASE ~Enough(u.mem[l]) /\ ~Enough(u.mem[r])
  <2>1. o = On(Merge(u, f, p, i), l)
    BY <1>6, <1>18, Zenon DEF InternalIs
  <2>2. DigOn(M, u, f, w, p, k, o)
    BY <1>d, <1>13, <1>15, <1>18, <2>1, MergeDug
  <2>3. DigOn(M, t, f, w, p, k, o)
    BY <1>10, <2>2, DigFrom
  <2> QED BY <2>3
<1> QED BY <1>16, <1>17, <1>18

LEMMA DeleteStepIs ==
  ASSUME NEW M, NEW t, NEW f, NEW w, NEW p, NEW k, NEW n, Dig(M, t, f, w, p, k, n),
         NEW i, i = Smaller(n.items, k) + 1, NEW o, o = DeleteStep(t, f, p, k)
  PROVE  DigDone(M, t, f, w, p, k, n, i, o)
<1> DEFINE V == View(t, f)
<1>1. n = t.mem[p]
  BY Zenon DEF Dig
<1>2. DigNode(M, V, t, w, p, n)
  BY DigNodeIs
<1> HIDE DEF V
<1>3. /\ M[p] = n /\ n \in Nodes /\ (n.leaf = FALSE => Len(n.items) >= 1)
      /\ Len(n.kids) = (IF n.leaf THEN 0 ELSE Len(n.items) + 1)
  BY <1>2, Zenon DEF DigNode
<1>4. n.leaf \in BOOLEAN
  BY <1>3, NodeSeqs, Zenon
<1>5. CASE Holds(n.items, k) /\ n.leaf
  <2> DEFINE s == RemoveAt(n.items, i)
  <2>1. o = Ended(Change(t, Put(p, [n EXCEPT !.items = s])), "yes")
    BY <1>1, <1>5, Zenon DEF DeleteStep
  <2> HIDE DEF s
  <2>2. [n EXCEPT !.items = s] = Node(n.leaf, s, n.kids)
    BY <1>3, ItemsChanged
  <2>3. n.kids = <<>>
    <3>1. n.kids \in Seq(Nat) /\ Len(n.kids) = 0
      BY <1>3, <1>5, NodeSeqs
    <3> QED BY <3>1, EmptySeq
  <2>4. n.leaf = TRUE
    BY <1>4, <1>5
  <2>5. [n EXCEPT !.items = s] = Node(TRUE, s, <<>>)
    BY <2>2, <2>3, <2>4, Zenon
  <2>6. o.res = "yes" /\ o.tree = Change(t, Put(p, Node(TRUE, s, <<>>)))
    <3> DEFINE a == [n EXCEPT !.items = s]
               b == Node(TRUE, s, <<>>)
               u == Change(t, Put(p, a))
    <3>1. a = b
      BY <2>5
    <3>2. o = Ended(u, "yes")
      BY <2>1
    <3> HIDE DEF a, b
    <3>3. u = Change(t, Put(p, b))
      BY <3>1
    <3> HIDE DEF u
    <3>4. o.res = "yes" /\ o.tree = u
      BY <3>2, EndedIs
    <3> QED BY <3>3, <3>4, Zenon DEF b
  <2>7. i \in 1 .. Count(M, p) /\ KeyAt(M, p, i) = k
    BY <1>5, DigHeld
  <2>8. DigLeaf(M, t, p, k, n, i, o)
    BY <2>4, <2>6, <2>7, Zenon DEF DigLeaf, s
  <2> QED BY <2>8, Zenon DEF DigDone
<1>6. CASE Holds(n.items, k) /\ ~n.leaf
  <2>1. o = DeleteInternal(t, f, p, i)
    BY <1>1, <1>6, Zenon DEF DeleteStep
  <2>2. n.leaf = FALSE
    BY <1>4, <1>6
  <2>3. DigOn(M, t, f, w, p, k, o) \/ DigEdge(M, t, f, w, p, k, n, i, o)
    BY <1>6, <2>1, <2>2, DeleteInternalIs
  <2> QED BY <2>3, Zenon DEF DigDone
<1>7. CASE ~Holds(n.items, k) /\ n.leaf
  <2>1. o = Ended(t, "no")
    BY <1>1, <1>7, Zenon DEF DeleteStep
  <2>2. n.leaf = TRUE
    BY <1>4, <1>7
  <2>3. o.res = "no" /\ o.tree = t
    BY <2>1, EndedIs
  <2>4. DigNo(t, k, n, o)
    BY <1>7, <2>2, <2>3, Zenon DEF DigNo
  <2> QED BY <2>4, Zenon DEF DigDone
<1>8. CASE ~Holds(n.items, k) /\ ~n.leaf
  <2>1. n.leaf = FALSE
    BY <1>4, <1>8
  <2>2. n.items /= <<>>
    <3>1. Len(n.items) >= 1
      BY <1>3, <2>1
    <3> QED BY <3>1
  <2>3. o = DeleteBelow(t, f, p, i)
    BY <1>1, <1>8, <2>2, Zenon DEF DeleteStep
  <2>4. DigOn(M, t, f, w, p, k, o)
    BY <1>8, <2>1, <2>3, DeleteBelowIs
  <2> QED BY <2>4, Zenon DEF DigDone
<1> QED BY <1>5, <1>6, <1>7, <1>8

(* The pages of the tree after a round: what is at p or below it, and what *)
(* is above.                                                               *)
DugPages(M, N, V, B, w, v, p, x) ==
  /\ v.pages \subseteq w.pages
  /\ \A q \in v.pages : v.height[q] = w.height[q] /\ w.height[q] \in Nat
  /\ \A q \in v.pages : w.height[q] <= w.height[p] => B[q] = N[q]
  /\ \A q \in v.pages : w.height[q] > w.height[p] => B[q] = V[q] /\ N[q] = M[q]
  /\ \A q \in w.pages : w.height[q] >= w.height[p] => q \in v.pages
  /\ p \in v.pages /\ x \in v.pages /\ w.height[p] \in Nat /\ w.height[p] = w.height[x] + 1 /\ v.height[p] = v.height[x] + 1

LEMMA DugIs ==
  ASSUME NEW M, NEW t, NEW f, NEW w, NEW p, NEW k, NEW n, Dig(M, t, f, w, p, k, n),
         NEW u, NEW N, NEW v, NEW x, Dug(M, t, f, w, p, k, u, N, v, x)
  PROVE  DugPages(M, N, View(t, f), View(u, f), w, v, p, x)
<1> DEFINE V == View(t, f)
           B == View(u, f)
<1>1. Shape(M, t.root, w) /\ DigNode(M, V, t, w, p, n)
  BY DigNodeIs, Zenon DEF Dig
<1>2. p \in w.pages /\ w.height[p] \in Nat
  BY <1>1, Zenon DEF DigNode
<1>3. /\ BelowKept(M, N, t.root, w, v, p, x, k) /\ Above(M, N, V, B, w, v, p)
  BY Zenon DEF Dug
<1>4. /\ Moved(M, N, t.root, w, v, p) /\ v.pages \subseteq w.pages /\ x \in v.pages /\ w.height[p] = w.height[x] + 1
  BY <1>3, Zenon DEF BelowKept
<1>5. p \in v.pages /\ \A q \in v.pages \cap w.pages : v.height[q] = w.height[q]
  BY <1>4, Zenon DEF Moved
<1> HIDE DEF V, B
<1>6. /\ \A q \in v.pages : B[q] = IF w.height[q] <= w.height[p] THEN N[q] ELSE V[q]
      /\ \A q \in v.pages : w.height[q] > w.height[p] => N[q] = M[q]
      /\ \A q \in w.pages : w.height[q] >= w.height[p] => q \in v.pages
  BY <1>3, Zenon DEF Above
<1>7. \A q \in w.pages : w.height[q] \in Nat
  BY <1>1, PlacesAre DEF Shape
<1>8. \A q \in v.pages : v.height[q] = w.height[q] /\ w.height[q] \in Nat
  BY <1>4, <1>5, <1>7
<1>9. \A q \in v.pages : w.height[q] <= w.height[p] => B[q] = N[q]
  BY <1>6
<1>10. ASSUME NEW q \in v.pages, w.height[q] > w.height[p] PROVE B[q] = V[q] /\ N[q] = M[q]
  <2>1. ~(w.height[q] <= w.height[p])
    BY <1>2, <1>8, <1>10
  <2> QED BY <1>6, <1>10, <2>1
<1>11. v.height[p] = v.height[x] + 1
  BY <1>4, <1>5, <1>8
<1> QED BY <1>2, <1>4, <1>5, <1>6, <1>8, <1>9, <1>10, <1>11, Zenon DEF DugPages, V, B

(* del of a key, before it has been found or after its neighbour has taken *)
(* the place of another.                                                   *)
Plain(t, f, w, its, p, k) == Good(t, f, w, its) /\ Dig(View(t, f), t, f, w, p, k, t.mem[p])

(* What Dig asks of the tree after the round. *)
LEMMA DigNext ==
  ASSUME NEW M, NEW t, NEW f, NEW w, NEW p, NEW k, NEW n, Dig(M, t, f, w, p, k, n),
         NEW u, NEW N, NEW v, NEW x, Dug(M, t, f, w, p, k, u, N, v, x),
         NEW H, Shape(H, u.root, v), Sized(H, u.root, v), SameBelow(H, View(u, f), v, x), SameKids(H, View(u, f), v),
         H[x] = N[x]
  PROVE  Dig(H, u, f, v, x, k, u.mem[x])
<1>1. k \in Int
  BY Zenon DEF Dig
<1>2. Kept(u, f, v) /\ BelowKept(M, N, t.root, w, v, p, x, k) /\ x \in DOMAIN u.mem /\ u.root = t.root
  BY Zenon DEF Dug
<1>3. x /= t.root /\ v.lo[x] < k /\ k < v.hi[x] /\ Count(N, x) >= MinDegree
  BY <1>2, Zenon DEF BelowKept
<1>4. Here(u, v, x, k)
  BY <1>2, <1>3, Zenon DEF Here
<1>5. Deep(H, u, x)
  <2>1. Count(H, x) = Count(N, x)
    BY DEF Count
  <2> QED BY <1>2, <1>3, <2>1 DEF Deep
<1> QED BY <1>1, <1>2, <1>4, <1>5, Zenon DEF Dig

LEMMA PlainOn ==
  ASSUME NEW t, NEW f, NEW w, NEW its, NEW p, NEW k, Plain(t, f, w, its, p, k),
         NEW o, DigOn(View(t, f), t, f, w, p, k, o)
  PROVE  o.res = "on" /\ \E v : Plain(o.tree, f, v, its, o.at, k)
<1> DEFINE M == View(t, f)
           n == t.mem[p]
<1>1. Good(t, f, w, its) /\ Dig(M, t, f, w, p, k, n)
  BY Zenon DEF Plain
<1>2. PICK v, N : Dug(M, t, f, w, p, k, o.tree, N, v, o.at)
  BY Zenon DEF DigOn
<1> DEFINE u == o.tree
           x == o.at
           B == View(u, f)
<1>m. View(t, f) = M /\ View(u, f) = B
  OBVIOUS
<1>3. o.res = "on"
  BY Zenon DEF DigOn
<1>4. DugPages(M, N, M, B, w, v, p, x)
  BY <1>1, <1>2, DugIs
<1>5. Kept(u, f, v) /\ BelowKept(M, N, t.root, w, v, p, x, k) /\ x \in DOMAIN u.mem /\ u.root = t.root /\ u.num = t.num
  BY <1>2, Zenon DEF Dug
<1>6. Moved(M, N, t.root, w, v, p)
  BY <1>5, Zenon DEF BelowKept
<1>7. Shape(N, t.root, v) /\ Sized(N, t.root, v) /\ SameHeld(M, w, N, v)
  BY <1>6, Zenon DEF Moved
<1>8. Holding(M, t.root, w, its) /\ Counted(t, its)
  BY <1>1, Zenon DEF Good
<1>d. v.pages \subseteq DOMAIN B
  BY <1>5, Zenon DEF Kept
<1> HIDE DEF M, B, n
<1>9. Holding(N, t.root, v, its)
  BY <1>7, <1>8, HeldHolding
<1>10. \A q \in v.pages : B[q] = N[q]
  BY <1>4 DEF DugPages
<1>11. Holding(B, t.root, v, its)
  BY <1>9, <1>10, <1>d, SameHolding
<1>12. Counted(u, its)
  BY <1>5, <1>8 DEF Counted
<1>13. Good(u, f, v, its)
  BY <1>m, <1>5, <1>11, <1>12, Zenon DEF Good
<1>14. x \in v.pages
  BY <1>4, Zenon DEF DugPages
<1>15. SameBelow(B, B, v, x) /\ SameKids(B, B, v)
  BY DEF SameBelow, SameKids
<1>16. Shape(B, u.root, v) /\ Sized(B, u.root, v)
  BY <1>5, <1>11, Zenon DEF Holding
<1>17. Dig(B, u, f, v, x, k, u.mem[x])
  BY <1>m, <1>1, <1>2, <1>10, <1>14, <1>15, <1>16, DigNext
<1>18. Plain(u, f, v, its, x, k)
  BY <1>m, <1>13, <1>17, Zenon DEF Plain
<1> QED BY <1>3, <1>18

Lowered(g) == [g EXCEPT !.num = @ - 1]

(* An item is gone, and the count has been lowered. *)
LEMMA DroppedIs ==
  ASSUME NEW t, IsTree(t), NEW ns, NEW g, g = Change(t, ns), NEW u, u = Lowered(g)
  PROVE  ChangedTo(t, u, ns) /\ u.num = t.num - 1 /\ u.pages = t.pages
<1>1. ChangedTo(t, g, ns) /\ g.num = t.num /\ g.pages = t.pages
  BY ChangeIs
<1>2. /\ IsTree(u) /\ u.mem = g.mem /\ u.dirty = g.dirty /\ u.root = g.root /\ u.num = g.num - 1 /\ u.pages = g.pages
  <2>1. IsTree(g)
    BY <1>1 DEF ChangedTo
  <2> QED BY <2>1 DEF IsTree, Lowered
<1> QED BY <1>1, <1>2 DEF ChangedTo

LEMMA CountLess ==
  ASSUME NEW t, NEW its, Counted(t, its), NEW it \in its, NEW u, u.num = t.num - 1
  PROVE  Counted(u, its \ {it})
BY FS_RemoveElement DEF Counted

Of(its, k) == {x \in its : x[1] = k}
Dropped(r, f, its, k) == Of(its, k) /= {} /\ \E v : Good(r, f, v, its \ Of(its, k))

GoneFrom(B, root, v, its, old) ==
  Shape(B, root, v) /\ Sized(B, root, v) /\ \A x : Held(B, v, x) <=> x \in its /\ x /= old

LEMMA DropGood ==
  ASSUME NEW t, NEW f, NEW w, NEW its, Kept(t, f, w), Counted(t, its), NEW ns, DOMAIN ns \subseteq w.pages,
         t.root \in DOMAIN ns => ~IsHollow(ns[t.root]),
         NEW g, g = Change(t, ns), NEW u, u = Lowered(g),
         NEW old \in its, NEW k, old[1] = k, \A x \in its : x[1] = k => x = old,
         NEW v, v.pages = w.pages, GoneFrom(View(u, f), t.root, v, its, old)
  PROVE  Dropped(u, f, its, k)
<1>1. IsTree(t) /\ t.pages \in Nat /\ w.pages \subseteq 0 .. t.pages - 1
  BY Zenon DEF Kept
<1>2. ChangedTo(t, u, ns) /\ u.num = t.num - 1 /\ u.pages = t.pages
  BY <1>1, DroppedIs
<1> DEFINE B == View(u, f)
           less == its \ {old}
<1>b. B = View(u, f)
  OBVIOUS
<1>3. GoneFrom(B, t.root, v, its, old)
  OBVIOUS
<1> HIDE DEF B
<1>4. Shape(B, t.root, v) /\ Sized(B, t.root, v) /\ \A x : Held(B, v, x) <=> x \in its /\ x /= old
  BY <1>3, Zenon DEF GoneFrom
<1>5. Stock(B, v, less)
  BY <1>4 DEF Stock
<1>6. Holding(B, t.root, v, less)
  BY <1>4, <1>5, Zenon DEF Holding
<1>7. Counted(u, less)
  BY <1>2, CountLess
<1>8. Widens(u, v, w, ns)
  BY <1>1, <1>2 DEF Widens
<1> HIDE DEF less
<1>9. Good(u, f, v, less) /\ (~Hollow(t) => ~Hollow(u))
  BY <1>b, <1>2, <1>6, <1>7, <1>8, ChangeGood
<1>10. Of(its, k) = {old} /\ less = its \ Of(its, k)
  BY DEF Of, less
<1> QED BY <1>9, <1>10 DEF Dropped

LEMMA PlainLeaf ==
  ASSUME NEW t, NEW f, NEW w, NEW its, NEW p, NEW k, Plain(t, f, w, its, p, k), NEW n, n = t.mem[p], NEW i,
         NEW o, DigLeaf(View(t, f), t, p, k, n, i, o), NEW u, u = Lowered(o.tree)
  PROVE  Dropped(u, f, its, k)
<1> DEFINE M == View(t, f)
           a == Node(TRUE, RemoveAt(n.items, i), <<>>)
           ns == Put(p, a)
           g == o.tree
           B == View(u, f)
<1>1. Good(t, f, w, its) /\ Dig(M, t, f, w, p, k, n)
  BY Zenon DEF Plain
<1>2. /\ n.leaf = TRUE /\ i \in 1 .. Count(M, p) /\ KeyAt(M, p, i) = k /\ g = Change(t, ns)
  BY Zenon DEF DigLeaf
<1>m. M = View(t, f) /\ B = View(u, f)
  OBVIOUS
<1>n. a = Node(TRUE, RemoveAt(n.items, i), <<>>) /\ ns = Put(p, a) /\ u = Lowered(g)
  OBVIOUS
<1> HIDE DEF M, B, a, ns, g
<1>3. Kept(t, f, w) /\ Holding(M, t.root, w, its) /\ Counted(t, its)
  BY <1>1, <1>m, Zenon DEF Good
<1>4. Shape(M, t.root, w) /\ Sized(M, t.root, w) /\ Stock(M, w, its)
  BY <1>3, Zenon DEF Holding
<1>5. DigNode(M, M, t, w, p, n)
  BY <1>1, <1>m, DigNodeIs
<1>6. p \in w.pages /\ M[p] = n /\ n.leaf = (w.height[p] = 0) /\ Count(M, p) = Len(n.items)
  BY <1>5, Zenon DEF DigNode
<1>7. w.height[p] = 0
  BY <1>2, <1>6
<1>8. PutsOne(ns, p, a)
  BY <1>n, PutIs
<1>9. IsTree(t)
  BY <1>3, Zenon DEF Kept
<1>10. ChangedTo(t, u, ns)
  BY <1>2, <1>n, <1>9, DroppedIs
<1>11. Follow(M, B, w.pages \cup DOMAIN ns, ns)
  BY <1>m, <1>3, <1>10, ChangeFollows
<1>12. DOMAIN ns = {p} /\ ns[p] = a
  BY <1>8, Zenon DEF PutsOne
<1>13. w.pages \cup DOMAIN ns = w.pages
  BY <1>6, <1>12
<1>14. p \in DOMAIN B /\ B[p] = a /\ ButAt(M, B, w.pages, {p})
  BY <1>6, <1>8, <1>11, <1>13, FollowOne
<1>15. \A q \in w.pages \ {p} : q \in DOMAIN B /\ B[q] = M[q]
  BY <1>14, Zenon DEF ButAt
<1> DEFINE old == ItemAt(M, p, i)
<1>o. old = ItemAt(M, p, i)
  OBVIOUS
<1> HIDE DEF old
<1>16. p = t.root \/ Count(M, p) >= MinDegree
  BY <1>1 DEF Dig, Deep
<1>17. B[p] = Node(TRUE, RemoveAt(M[p].items, i), <<>>)
  BY <1>n, <1>6, <1>14
<1>18. Without(M, B, t.root, w, old) /\ Sized(B, t.root, w)
  <2>1. Shape(M, t.root, w) /\ Sized(M, t.root, w) /\ p \in w.pages /\ i \in 1 .. Count(M, p) /\ p \in DOMAIN B
    BY <1>2, <1>4, <1>6, <1>14
  <2> QED BY <1>o, <1>7, <1>15, <1>16, <1>17, <2>1, LeafGone
<1>19. Held(M, w, old)
  BY <1>o, <1>2, <1>6 DEF Held
<1>20. old[1] = k
  BY <1>o, <1>2 DEF KeyAt
<1>21. \A x : Held(M, w, x) <=> x \in its
  BY <1>4, Zenon DEF Stock
<1>22. old \in its
  BY <1>19, <1>21
<1>23. ASSUME NEW x \in its, x[1] = k PROVE x = old
  BY <1>4, <1>19, <1>20, <1>21, <1>23, OneItem
<1>24. GoneFrom(B, t.root, w, its, old)
  BY <1>18, <1>21 DEF Without, GoneFrom
<1>25. ~IsHollow(a)
  <2>1. a.leaf = TRUE
    BY <1>n DEF Node
  <2> QED BY <2>1 DEF IsHollow
<1>26. DOMAIN ns \subseteq w.pages /\ (t.root \in DOMAIN ns => ~IsHollow(ns[t.root]))
  BY <1>6, <1>12, <1>25
<1> QED BY <1>m, <1>n, <1>2, <1>3, <1>20, <1>22, <1>23, <1>24, <1>26, DropGood

LEMMA PlainNo ==
  ASSUME NEW t, NEW f, NEW w, NEW its, NEW p, NEW k, Plain(t, f, w, its, p, k), NEW n, n = t.mem[p],
         NEW o, DigNo(t, k, n, o)
  PROVE  o.res = "no" /\ o.tree = t /\ Of(its, k) = {}
<1> DEFINE M == View(t, f)
<1>1. Good(t, f, w, its) /\ Dig(M, t, f, w, p, k, n)
  BY Zenon DEF Plain
<1>2. o.res = "no" /\ o.tree = t /\ n.leaf = TRUE /\ ~Holds(n.items, k)
  BY Zenon DEF DigNo
<1>3. Holding(M, t.root, w, its)
  BY <1>1, Zenon DEF Good
<1>4. DigNode(M, M, t, w, p, n)
  BY <1>1, DigNodeIs
<1> HIDE DEF M
<1>5. p \in w.pages /\ M[p] = n
  BY <1>4, Zenon DEF DigNode
<1>6. k \in Int /\ w.lo[p] < k /\ k < w.hi[p]
  BY <1>1, Zenon DEF Dig, Here
<1>7. \A x \in its : x[1] /= k
  <2>1. M[p].leaf = TRUE /\ ~Holds(M[p].items, k)
    BY <1>2, <1>5
  <2> QED BY <1>3, <1>5, <1>6, <2>1, NotIn
<1> QED BY <1>2, <1>7 DEF Of

(* _findPred, _findSucc: on the way from kid, below item place of top, to  *)
(* the leaf that has the neighbour of its key k; the way has come to x.    *)
EdgeAt(t, f, w, its, last, k, top, place, kid, x) ==
  /\ Good(t, f, w, its) /\ k \in Int /\ last \in BOOLEAN
  /\ top \in DOMAIN t.mem /\ kid \in DOMAIN t.mem /\ x \in DOMAIN t.mem
  /\ place \in 1 .. Count(View(t, f), top) /\ KeyAt(View(t, f), top, place) = k /\ View(t, f)[top].leaf = FALSE
  /\ kid /= t.root /\ Count(View(t, f), kid) >= MinDegree
  /\ w.height[top] = w.height[kid] + 1 /\ w.height[x] <= w.height[kid]
  /\ w.lo[kid] <= w.lo[x] /\ w.hi[x] <= w.hi[kid]
  /\ last => w.hi[x] = k /\ w.hi[kid] = k
  /\ ~last => w.lo[x] = k /\ w.lo[kid] = k

LEMMA EdgeBegins ==
  ASSUME NEW t, NEW f, NEW w, NEW its, NEW p, NEW k, Plain(t, f, w, its, p, k), NEW n, n = t.mem[p], NEW i,
         NEW o, DigEdge(View(t, f), t, f, w, p, k, n, i, o)
  PROVE  o.res \in {"pred", "succ"} /\ EdgeAt(o.tree, f, w, its, o.res = "pred", k, p, i, o.at, o.at)
<1> DEFINE M == View(t, f)
           u == o.tree
           B == View(u, f)
           x == o.at
           last == o.res = "pred"
<1>1. Good(t, f, w, its) /\ Dig(M, t, f, w, p, k, n)
  BY Zenon DEF Plain
<1>2. /\ o.res \in {"pred", "succ"}
      /\ n.leaf = FALSE /\ i \in 1 .. Count(M, p) /\ KeyAt(M, p, i) = k
      /\ x \in DOMAIN u.mem /\ x \in w.pages /\ x /= t.root /\ Count(M, x) >= MinDegree
      /\ w.height[p] = w.height[x] + 1 /\ (last => w.hi[x] = k) /\ (o.res = "succ" => w.lo[x] = k)
  BY Zenon DEF DigEdge
<1>3. PICK ps : Loads(t, u, f, w, ps)
  BY Zenon DEF DigEdge
<1>4. /\ Kept(u, f, w) /\ u.root = t.root /\ u.num = t.num /\ DOMAIN u.mem = DOMAIN t.mem \cup ps
      /\ \A q \in w.pages : B[q] = M[q]
  BY <1>3, Zenon DEF Loads
<1>5. Kept(t, f, w) /\ Holding(M, t.root, w, its) /\ Counted(t, its)
  BY <1>1, Zenon DEF Good
<1>d. w.pages \subseteq DOMAIN B
  BY <1>4, Zenon DEF Kept
<1>6. DigNode(M, M, t, w, p, n)
  BY <1>1, DigNodeIs
<1>7. k \in Int /\ p \in DOMAIN t.mem /\ n = t.mem[p]
  BY <1>1, Zenon DEF Dig, Here
<1>m. B = View(u, f) /\ (last <=> o.res = "pred") /\ last \in BOOLEAN
  BY <1>2
<1> HIDE DEF M, B, u, x
<1>8. p \in w.pages /\ M[p] = n
  BY <1>6, Zenon DEF DigNode
<1>9. Holding(B, t.root, w, its)
  BY <1>4, <1>5, <1>d, SameHolding
<1>10. Good(u, f, w, its)
  <2>1. Counted(u, its)
    BY <1>4, <1>5 DEF Counted
  <2> QED BY <1>m, <1>4, <1>9, <2>1, Zenon DEF Good
<1>11. B[p] = M[p] /\ B[x] = M[x]
  BY <1>2, <1>4, <1>8
<1>12. Count(B, p) = Count(M, p) /\ KeyAt(B, p, i) = KeyAt(M, p, i) /\ Count(B, x) = Count(M, x) /\ B[p].leaf = FALSE
  BY <1>2, <1>8, <1>11, Others
<1>13. p \in DOMAIN u.mem
  BY <1>4, <1>7
<1>14. w.height[x] \in Nat /\ w.lo[x] \in Int /\ w.hi[x] \in Int
  BY <1>2, <1>5, PlacesAre DEF Holding, Shape
<1>15. /\ i \in 1 .. Count(B, p) /\ KeyAt(B, p, i) = k /\ Count(B, x) >= MinDegree
       /\ w.height[x] <= w.height[x] /\ w.lo[x] <= w.lo[x] /\ w.hi[x] <= w.hi[x] /\ x /= u.root
  BY <1>2, <1>4, <1>12, <1>14
<1>16. (last => w.hi[x] = k /\ w.hi[x] = k) /\ (~last => w.lo[x] = k /\ w.lo[x] = k)
  BY <1>2
<1> HIDE DEF last
<1>17. EdgeAt(u, f, w, its, last, k, p, i, x, x)
  BY <1>m, <1>2, <1>7, <1>10, <1>12, <1>13, <1>15, <1>16, Zenon DEF EdgeAt
<1> QED BY <1>2, <1>17 DEF u, x, last

EdgeNode(A, w, x, n) ==
  /\ x \in w.pages /\ A[x] = n /\ n \in Nodes /\ n.leaf = (w.height[x] = 0) /\ Len(n.items) = Count(A, x) /\ Count(A, x) >= 1
  /\ Len(n.kids) = KidCount(A, x) /\ KidCount(A, x) = (IF n.leaf THEN 0 ELSE Count(A, x) + 1) /\ Count(A, x) \in Nat
  /\ w.height[x] \in Nat /\ n.leaf \in BOOLEAN

LEMMA EdgeNodeIs ==
  ASSUME NEW t, NEW f, NEW w, NEW its, NEW last, NEW k, NEW top, NEW place, NEW kid, NEW x,
         EdgeAt(t, f, w, its, last, k, top, place, kid, x), NEW A, A = View(t, f), NEW n, n = t.mem[x]
  PROVE  EdgeNode(A, w, x, n)
<1>1. /\ Good(t, f, w, its) /\ x \in DOMAIN t.mem /\ top \in DOMAIN t.mem /\ kid \in DOMAIN t.mem
      /\ w.height[top] = w.height[kid] + 1 /\ w.height[x] <= w.height[kid]
  BY Zenon DEF EdgeAt
<1>2. NodeSeen(A, w, x, n)
  BY <1>1, Seen
<1>3. /\ x \in w.pages /\ A[x] = n /\ n \in Nodes /\ n.leaf = (w.height[x] = 0) /\ Count(A, x) = Len(n.items)
      /\ KidCount(A, x) = Len(n.kids) /\ Len(n.kids) = (IF n.leaf THEN 0 ELSE Len(n.items) + 1) /\ Len(n.items) \in Nat
  BY <1>2, Zenon DEF NodeSeen
<1>4. Kept(t, f, w) /\ Holding(A, t.root, w, its)
  BY <1>1, Zenon DEF Good
<1>5. Shape(A, t.root, w) /\ Sized(A, t.root, w)
  BY <1>4, Zenon DEF Holding
<1>6. top \in w.pages /\ kid \in w.pages
  BY <1>1, <1>4, LoadedIn
<1>7. /\ w.height[x] \in Nat /\ w.height[kid] \in Nat /\ w.height[top] \in Nat
  BY <1>3, <1>5, <1>6, PlacesAre DEF Shape
<1>8. w.height[top] <= w.height[t.root] /\ w.height[t.root] \in Nat
  BY <1>5, <1>6, PlacesAre DEF Shape, Topped
<1>9. x /= t.root
  BY <1>1, <1>7, <1>8
<1>10. Count(A, x) >= MinDegree - 1
  BY <1>3, <1>5, <1>9 DEF Sized
<1>11. MinDegree \in Nat /\ MinDegree >= 2
  BY Numbers
<1>12. Count(A, x) >= 1
  BY <1>3, <1>10, <1>11
<1>13. n.leaf \in BOOLEAN
  BY <1>3, NodeSeqs, Zenon
<1> QED BY <1>3, <1>7, <1>12, <1>13 DEF EdgeNode

LEMMA EdgeDown ==
  ASSUME NEW t, NEW f, NEW w, NEW its, NEW last, NEW k, NEW top, NEW place, NEW kid, NEW x,
         EdgeAt(t, f, w, its, last, k, top, place, kid, x), NEW n, n = t.mem[x], ~n.leaf,
         NEW c, c = EdgeKid(n, last), NEW u, u = Load(t, f, {c})
  PROVE  EdgeAt(u, f, w, its, last, k, top, place, kid, c)
<1> DEFINE A == View(t, f)
           B == View(u, f)
           i == IF last THEN Len(n.kids) ELSE 1
           ps == {c}
<1>1. /\ Good(t, f, w, its) /\ k \in Int /\ last \in BOOLEAN
      /\ top \in DOMAIN t.mem /\ kid \in DOMAIN t.mem /\ x \in DOMAIN t.mem
      /\ place \in 1 .. Count(A, top) /\ KeyAt(A, top, place) = k /\ A[top].leaf = FALSE
      /\ kid /= t.root /\ Count(A, kid) >= MinDegree
      /\ w.height[top] = w.height[kid] + 1 /\ w.height[x] <= w.height[kid]
      /\ w.lo[kid] <= w.lo[x] /\ w.hi[x] <= w.hi[kid]
      /\ (last => w.hi[x] = k /\ w.hi[kid] = k)
      /\ (~last => w.lo[x] = k /\ w.lo[kid] = k)
  BY Zenon DEF EdgeAt
<1>2. EdgeNode(A, w, x, n)
  BY EdgeNodeIs
<1>m. A = View(t, f) /\ B = View(u, f) /\ u = Load(t, f, ps)
  OBVIOUS
<1> HIDE DEF A, B, ps
<1>3. /\ x \in w.pages /\ A[x] = n /\ n \in Nodes /\ Len(n.kids) = KidCount(A, x) /\ Count(A, x) \in Nat
      /\ KidCount(A, x) = Count(A, x) + 1 /\ Count(A, x) >= 1
  BY <1>2 DEF EdgeNode
<1>4. i \in 1 .. KidCount(A, x) /\ (last => i = KidCount(A, x)) /\ (~last => i = 1)
  BY <1>3
<1>5. c = KidAt(A, x, i)
  <2>1. n.kids \in Seq(Nat) /\ Len(n.kids) >= 1
    BY <1>3, NodeSeqs
  <2>2. Last(n.kids) = n.kids[Len(n.kids)] /\ Head(n.kids) = n.kids[1]
    BY <2>1, FrontLast, HeadTail
  <2> QED BY <1>3, <2>2 DEF EdgeKid, KidAt
<1>6. Kept(t, f, w) /\ Holding(A, t.root, w, its)
  BY <1>1, <1>m, Zenon DEF Good
<1>7. Shape(A, t.root, w)
  BY <1>6, Zenon DEF Holding
<1> HIDE DEF i
<1>8. KidIn(A, w, x, i, c)
  BY <1>3, <1>4, <1>5, <1>7, KidPlace
<1>9. /\ c \in w.pages /\ w.height[x] = w.height[c] + 1 /\ w.height[c] \in Nat
      /\ w.lo[c] = (IF i = 1 THEN w.lo[x] ELSE KeyAt(A, x, i - 1))
      /\ w.hi[c] = (IF i = KidCount(A, x) THEN w.hi[x] ELSE KeyAt(A, x, i))
      /\ w.lo[x] \in Int /\ w.hi[x] \in Int /\ w.lo[c] \in Int /\ w.hi[c] \in Int
      /\ w.lo[x] <= w.lo[c] /\ w.hi[c] <= w.hi[x]
  BY <1>8, Zenon DEF KidIn
<1>10. ps \subseteq w.pages
  BY <1>9 DEF ps
<1>11. Good(u, f, w, its) /\ Loads(t, u, f, w, ps)
  BY <1>1, <1>m, <1>10, LoadGood
<1>12. /\ u.root = t.root /\ DOMAIN u.mem = DOMAIN t.mem \cup ps /\ \A q \in w.pages : B[q] = A[q]
  BY <1>m, <1>11, Zenon DEF Loads
<1>13. top \in w.pages /\ kid \in w.pages
  BY <1>1, <1>6, LoadedIn
<1>14. B[top] = A[top] /\ B[kid] = A[kid]
  BY <1>12, <1>13
<1>15. Count(B, top) = Count(A, top) /\ KeyAt(B, top, place) = KeyAt(A, top, place) /\ Count(B, kid) = Count(A, kid)
  BY <1>14, Others
<1>16. top \in DOMAIN u.mem /\ kid \in DOMAIN u.mem /\ c \in DOMAIN u.mem
  BY <1>1, <1>12 DEF ps
<1>17. w.height[kid] \in Nat /\ w.lo[kid] \in Int /\ w.hi[kid] \in Int
  BY <1>7, <1>13, PlacesAre DEF Shape
<1>18. w.height[c] <= w.height[kid] /\ w.lo[kid] <= w.lo[c] /\ w.hi[c] <= w.hi[kid]
  BY <1>1, <1>9, <1>17
<1>19. (last => w.hi[c] = k /\ w.hi[kid] = k) /\ (~last => w.lo[c] = k /\ w.lo[kid] = k)
  BY <1>1, <1>4, <1>9
<1>20. place \in 1 .. Count(B, top) /\ KeyAt(B, top, place) = k /\ B[top].leaf = FALSE /\ kid /= u.root /\ Count(B, kid) >= MinDegree
  BY <1>1, <1>12, <1>14, <1>15
<1> QED BY <1>1, <1>m, <1>11, <1>16, <1>18, <1>19, <1>20, Zenon DEF EdgeAt

(* The neighbour e of the key k has been found and put in the place of it. *)
(* M is the tree as if it had not.                                         *)
LoanKeys(M, w, its, k, s) == ~Inner(M, w, s) /\ \A y \in its : ~Between(y[1], s, k)
LoanSide(w, p, k) == w.lo[p] = k \/ w.hi[p] = k
Lend(t, f, w, its, M, top, place, k, e, p) ==
  /\ Dig(M, t, f, w, p, e[1], t.mem[p]) /\ Holding(M, t.root, w, its) /\ Counted(t, its)
  /\ LentTo(M, View(t, f), w, top, place, k, e) /\ e \in its /\ k \in Int
  /\ LoanKeys(M, w, its, k, e[1]) /\ LoanSide(w, p, k)
  /\ w.height[p] < w.height[top]

EdgeItem(A, w, its, x, last, k, e, j) ==
  /\ e = ItemAt(A, x, j) /\ j \in 1 .. Count(A, x) /\ e \in its /\ e \in Item /\ e[1] \in Int /\ KeyAt(A, x, j) = e[1]
  /\ w.lo[x] < e[1] /\ e[1] < w.hi[x]
  /\ last => \A i \in 1 .. Count(A, x) : KeyAt(A, x, i) <= e[1]
  /\ ~last => \A i \in 1 .. Count(A, x) : e[1] <= KeyAt(A, x, i)

LEMMA EdgeItemIs ==
  ASSUME NEW A, NEW root, NEW w, NEW its, Holding(A, root, w, its), NEW x, NEW n, EdgeNode(A, w, x, n),
         NEW last \in BOOLEAN, NEW e, e = EdgeOf(n, last), NEW k
  PROVE  \E j : EdgeItem(A, w, its, x, last, k, e, j)
<1> DEFINE j == IF last THEN Count(A, x) ELSE 1
<1>1. /\ x \in w.pages /\ A[x] = n /\ n \in Nodes /\ Len(n.items) = Count(A, x) /\ Count(A, x) >= 1 /\ Count(A, x) \in Nat
  BY Zenon DEF EdgeNode
<1>2. j \in 1 .. Count(A, x) /\ (last => j = Count(A, x)) /\ (~last => j = 1)
  BY <1>1
<1>3. Last(n.items) = ItemAt(A, x, Count(A, x)) /\ Head(n.items) = ItemAt(A, x, 1)
  BY <1>1, LastKey
<1> HIDE DEF j
<1>4. e = ItemAt(A, x, j)
  BY <1>2, <1>3 DEF EdgeOf
<1>5. Shape(A, root, w) /\ Stock(A, w, its)
  BY Zenon DEF Holding
<1>6. Held(A, w, e)
  BY <1>1, <1>2, <1>4 DEF Held
<1>7. e \in its
  BY <1>5, <1>6 DEF Stock
<1>8. NodesOK(A, w) /\ Ordered(A, w)
  BY <1>5, Zenon DEF Shape
<1>9. e \in Item
  BY <1>6, <1>8, HeldIsItem
<1>10. e[1] \in Int
  BY <1>9, KeyIsInt
<1>11. KeyAt(A, x, j) = e[1]
  BY <1>4 DEF KeyAt
<1>12. /\ \A i \in 1 .. Count(A, x) : w.lo[x] < KeyAt(A, x, i) /\ KeyAt(A, x, i) < w.hi[x]
       /\ \A a, b \in 1 .. Count(A, x) : a < b => KeyAt(A, x, a) < KeyAt(A, x, b)
  BY <1>1, <1>8 DEF Ordered
<1>13. \A i \in 1 .. Count(A, x) : KeyAt(A, x, i) \in Int
  BY <1>1, NodeKeys
<1> DEFINE s == e[1]
           K(i) == KeyAt(A, x, i)
<1>s. s \in Int /\ K(j) = s /\ (\A i \in 1 .. Count(A, x) : K(i) \in Int) /\ (\A a, b \in 1 .. Count(A, x) : a < b => K(a) < K(b))
  BY <1>10, <1>11, <1>12, <1>13
<1> HIDE DEF s, K
<1>14. last => \A i \in 1 .. Count(A, x) : K(i) <= s
  <2> SUFFICES ASSUME last, NEW i \in 1 .. Count(A, x) PROVE K(i) <= s
    OBVIOUS
  <2>1. i = j \/ i < j
    BY <1>1, <1>2
  <2>2. CASE i = j
    BY <2>2, <1>s
  <2>3. CASE i < j
    <3>1. K(i) < K(j)
      BY <2>3, <1>2, <1>s
    <3> QED BY <3>1, <1>s
  <2> QED BY <2>1, <2>2, <2>3
<1>15. ~last => \A i \in 1 .. Count(A, x) : s <= K(i)
  <2> SUFFICES ASSUME ~last, NEW i \in 1 .. Count(A, x) PROVE s <= K(i)
    OBVIOUS
  <2>1. i = j \/ j < i
    BY <1>1, <1>2
  <2>2. CASE i = j
    BY <2>2, <1>s
  <2>3. CASE j < i
    <3>1. K(j) < K(i)
      BY <2>3, <1>2, <1>s
    <3> QED BY <3>1, <1>s
  <2> QED BY <2>1, <2>2, <2>3
<1>16. w.lo[x] < e[1] /\ e[1] < w.hi[x]
  BY <1>2, <1>11, <1>12
<1>17. EdgeItem(A, w, its, x, last, k, e, j)
  BY <1>2, <1>4, <1>7, <1>9, <1>10, <1>11, <1>14, <1>15, <1>16, Zenon DEF EdgeItem, s, K
<1> QED BY <1>17

(* It is in no node above the leaves, and no key lies between it and k. *)
LEMMA EdgeAlone ==
  ASSUME NEW A, NEW root, NEW w, NEW its, Holding(A, root, w, its), NEW x \in w.pages, w.height[x] = 0,
         NEW last \in BOOLEAN, NEW k \in Int, NEW e, NEW j, EdgeItem(A, w, its, x, last, k, e, j),
         last => w.hi[x] = k, ~last => w.lo[x] = k
  PROVE  LoanKeys(A, w, its, k, e[1])
<1> DEFINE s == e[1]
<1>1. /\ j \in 1 .. Count(A, x) /\ s \in Int /\ KeyAt(A, x, j) = s
      /\ w.lo[x] < s /\ s < w.hi[x]
      /\ (last => \A i \in 1 .. Count(A, x) : KeyAt(A, x, i) <= s)
      /\ (~last => \A i \in 1 .. Count(A, x) : s <= KeyAt(A, x, i))
  BY Zenon DEF EdgeItem
<1>2. Shape(A, root, w) /\ Stock(A, w, its)
  BY Zenon DEF Holding
<1>s. s = e[1]
  OBVIOUS
<1> HIDE DEF s
<1>3. ~Inner(A, w, s)
  <2> SUFFICES ASSUME Inner(A, w, s) PROVE FALSE
    OBVIOUS
  <2>1. PICK q \in w.pages : \E i \in 1 .. Count(A, q) : w.height[q] /= 0 /\ KeyAt(A, q, i) = s
    BY DEF Inner
  <2>2. PICK i \in 1 .. Count(A, q) : w.height[q] /= 0 /\ KeyAt(A, q, i) = s
    BY <2>1
  <2>3. KeyAt(A, x, j) = KeyAt(A, q, i)
    BY <1>1, <2>2
  <2>4. x = q
    BY <1>1, <1>2, <2>3, OneHolder
  <2> QED BY <2>2, <2>4
<1>4. ASSUME NEW y \in its PROVE ~Between(y[1], s, k)
  <2> DEFINE z == y[1]
  <2>1. Held(A, w, y)
    BY <1>2 DEF Stock
  <2>2. NodesOK(A, w) /\ PlacesOK(w)
    BY <1>2, Zenon DEF Shape
  <2>3. y \in Item
    BY <2>1, <2>2, HeldIsItem
  <2>4. z \in Int
    BY <2>3, KeyIsInt
  <2>5. PICK q \in w.pages : \E i \in 1 .. Count(A, q) : ItemAt(A, q, i) = y
    BY <2>1 DEF Held
  <2>6. PICK i \in 1 .. Count(A, q) : ItemAt(A, q, i) = y
    BY <2>5
  <2>7. KeyAt(A, q, i) = z
    BY <2>6 DEF KeyAt
  <2>8. w.lo[x] \in Int /\ w.hi[x] \in Int
    BY <2>2, PlacesAre
  <2> SUFFICES ASSUME Between(z, s, k) PROVE FALSE
    OBVIOUS
  <2> HIDE DEF z
  <2>9. (s < z /\ z < k) \/ (k < z /\ z < s)
    BY DEF Between
  <2>10. w.lo[x] < z /\ z < w.hi[x]
    BY <1>1, <2>4, <2>8, <2>9
  <2>11. q = x
    BY <1>2, <2>7, <2>10, LeafHolder
  <2>12. (last => z <= s) /\ (~last => s <= z)
    BY <1>1, <2>7, <2>11
  <2> QED BY <1>1, <2>4, <2>8, <2>9, <2>10, <2>12
<1> QED BY <1>s, <1>3, <1>4 DEF LoanKeys

(* The neighbour takes the place of the key: del goes on from the kid.     *)
LEMMA ReplaceBy ==
  ASSUME NEW t, NEW p, NEW i, NEW it, NEW n, n = t.mem[p]
  PROVE  Replace(t, p, i, it) = Change(t, Put(p, [n EXCEPT !.items[i] = it]))
  BY Zenon DEF Replace

LEMMA EdgeLends ==
  ASSUME NEW t, NEW f, NEW w, NEW its, NEW last, NEW k, NEW top, NEW place, NEW kid, NEW x,
         EdgeAt(t, f, w, its, last, k, top, place, kid, x), NEW n, n = t.mem[x], n.leaf = TRUE,
         NEW e, e = EdgeOf(n, last), NEW u, u = Replace(t, top, place, e)
  PROVE  Lend(u, f, w, its, View(t, f), top, place, k, e, kid)
<1> DEFINE M == View(t, f)
           V == View(u, f)
           a == Node(FALSE, [M[top].items EXCEPT ![place] = e], M[top].kids)
           ns == Put(top, a)
<1>1. /\ Good(t, f, w, its) /\ k \in Int /\ last \in BOOLEAN
      /\ top \in DOMAIN t.mem /\ kid \in DOMAIN t.mem /\ x \in DOMAIN t.mem
      /\ place \in 1 .. Count(M, top) /\ KeyAt(M, top, place) = k /\ M[top].leaf = FALSE
      /\ kid /= t.root /\ Count(M, kid) >= MinDegree
      /\ w.height[top] = w.height[kid] + 1 /\ w.height[x] <= w.height[kid]
      /\ w.lo[kid] <= w.lo[x] /\ w.hi[x] <= w.hi[kid]
      /\ (last => w.hi[x] = k /\ w.hi[kid] = k)
      /\ (~last => w.lo[x] = k /\ w.lo[kid] = k)
  BY Zenon DEF EdgeAt
<1>2. EdgeNode(M, w, x, n)
  BY EdgeNodeIs
<1>m. M = View(t, f) /\ V = View(u, f)
  OBVIOUS
<1>n. a = Node(FALSE, [M[top].items EXCEPT ![place] = e], M[top].kids) /\ ns = Put(top, a)
  OBVIOUS
<1> HIDE DEF M, V, a, ns
<1>3. Kept(t, f, w) /\ Holding(M, t.root, w, its) /\ Counted(t, its)
  BY <1>1, <1>m, Zenon DEF Good
<1>4. Shape(M, t.root, w) /\ Sized(M, t.root, w)
  BY <1>3, Zenon DEF Holding
<1>5. /\ top \in w.pages /\ kid \in w.pages /\ M[top] = t.mem[top]
  BY <1>1, <1>m, <1>3, LoadedIn
<1>6. NodeSeen(M, w, top, t.mem[top])
  BY <1>1, <1>m, Seen
<1>7. t.mem[top] \in Nodes /\ top \in DOMAIN M
  BY <1>6, Zenon DEF NodeSeen
<1>8. x \in w.pages /\ w.height[x] = 0
  BY <1>2 DEF EdgeNode
<1>9. PICK j : EdgeItem(M, w, its, x, last, k, e, j)
  BY <1>1, <1>2, <1>3, EdgeItemIs
<1>10. e \in its /\ e \in Item /\ e[1] \in Int /\ w.lo[x] < e[1] /\ e[1] < w.hi[x]
  BY <1>9, Zenon DEF EdgeItem
<1>11. LoanKeys(M, w, its, k, e[1])
  BY <1>1, <1>3, <1>8, <1>9, EdgeAlone
<1> DEFINE m == t.mem[top]
<1>t. m = t.mem[top]
  OBVIOUS
<1> HIDE DEF m
<1>12. [m EXCEPT !.items[place] = e] = a
  <2>1. m \in Nodes /\ m.leaf = FALSE
    BY <1>1, <1>5, <1>7, <1>t
  <2>2. [m EXCEPT !.items[place] = e] = Node(FALSE, [m.items EXCEPT ![place] = e], m.kids)
    BY <2>1, ItemSet
  <2> QED BY <1>5, <1>n, <1>t, <2>2, Zenon
<1>13. u = Change(t, ns)
  <2>1. Replace(t, top, place, e) = Change(t, Put(top, [m EXCEPT !.items[place] = e]))
    BY <1>t, ReplaceBy
  <2> QED BY <1>n, <1>12, <2>1
<1>14. IsTree(t)
  BY <1>3, Zenon DEF Kept
<1>15. ChangedTo(t, u, ns) /\ u.num = t.num /\ u.pages = t.pages
  BY <1>13, <1>14, ChangeIs
<1>16. PutsOne(ns, top, a)
  BY <1>n, PutIs
<1>17. DOMAIN ns = {top} /\ ns[top] = a
  BY <1>16, Zenon DEF PutsOne
<1>18. a.items = [M[top].items EXCEPT ![place] = e] /\ a.leaf = FALSE /\ a.kids = M[top].kids
  BY <1>n, Zenon DEF Node
<1>19. ~IsHollow(a)
  <2> SUFFICES ASSUME a.items = <<>> PROVE FALSE
    BY DEF IsHollow
  <2>1. M[top].items \in Seq(Item)
    BY <1>5, <1>7, NodeSeqs
  <2>2. DOMAIN a.items = DOMAIN M[top].items
    BY <1>18
  <2>3. DOMAIN M[top].items = 1 .. Count(M, top)
    BY <1>5, <1>7, NodeDomain
  <2>4. place \in DOMAIN a.items
    BY <1>1, <2>2, <2>3
  <2> QED BY <2>4
<1>20. /\ w.pages \subseteq w.pages \cup DOMAIN ns /\ DOMAIN ns \subseteq w.pages /\ DOMAIN t.mem \subseteq w.pages
       /\ u.pages \in Nat /\ w.pages \subseteq 0 .. u.pages - 1
       /\ (t.root \in DOMAIN ns => ~IsHollow(ns[t.root]))
  <2>1. t.pages \in Nat /\ w.pages \subseteq 0 .. t.pages - 1 /\ DOMAIN t.mem \subseteq w.pages
    BY <1>3, Zenon DEF Kept
  <2> QED BY <1>5, <1>15, <1>17, <1>19, <2>1
<1>21. Changes(t, u, f, w, ns)
  BY <1>3, <1>15, <1>20, ChangeKept
<1>22. Kept(u, f, w) /\ \A q \in w.pages : V[q] = IF q \in DOMAIN ns THEN ns[q] ELSE M[q]
  BY <1>m, <1>21, Zenon DEF Changes
<1>23. V[top] = a /\ \A q \in w.pages \ {top} : V[q] = M[q]
  BY <1>5, <1>17, <1>22
<1>24. w.pages \subseteq DOMAIN V
  BY <1>22, <1>m, Zenon DEF Kept
<1>25. LentTo(M, V, w, top, place, k, e)
  <2>1. V[top] = Node(M[top].leaf, [M[top].items EXCEPT ![place] = e], M[top].kids)
    BY <1>1, <1>n, <1>23
  <2>2. top \in DOMAIN V /\ \A q \in w.pages \ {top} : q \in DOMAIN V /\ V[q] = M[q]
    BY <1>5, <1>23, <1>24
  <2> QED BY <1>1, <1>5, <2>1, <2>2, Zenon DEF LentTo
<1>26. /\ w.height[top] \in Nat /\ w.height[kid] \in Nat /\ w.lo[kid] \in Int /\ w.hi[kid] \in Int
       /\ w.lo[x] \in Int /\ w.hi[x] \in Int
  BY <1>4, <1>5, <1>8, PlacesAre DEF Shape
<1>27. w.height[kid] < w.height[top]
  BY <1>1, <1>26
<1>28. SameBelow(M, V, w, kid)
  BY <1>23, <1>27, <1>26 DEF SameBelow
<1>29. SameKids(M, V, w)
  <2>1. V[top].kids = M[top].kids
    BY <1>18, <1>23
  <2> QED BY <1>23, <2>1 DEF SameKids
<1>30. u.root = t.root /\ DOMAIN u.mem = DOMAIN ns \cup DOMAIN t.mem
  BY <1>15, Zenon DEF ChangedTo
<1>31. Deep(M, u, kid)
  BY <1>1, <1>30 DEF Deep
<1>32. Here(u, w, kid, e[1])
  <2> DEFINE s == e[1]
  <2>1. s \in Int /\ w.lo[x] < s /\ s < w.hi[x]
    BY <1>10
  <2> HIDE DEF s
  <2>2. w.lo[kid] < s /\ s < w.hi[kid]
    BY <1>1, <1>26, <2>1
  <2> QED BY <1>1, <1>30, <2>2 DEF Here, s
<1>33. Dig(M, u, f, w, kid, e[1], u.mem[kid])
  BY <1>m, <1>4, <1>10, <1>22, <1>28, <1>29, <1>30, <1>31, <1>32, Zenon DEF Dig
<1>34. Holding(M, u.root, w, its) /\ Counted(u, its)
  BY <1>3, <1>15, <1>30 DEF Counted
<1>35. LoanSide(w, kid, k)
  BY <1>1 DEF LoanSide
<1> QED BY <1>m, <1>1, <1>10, <1>11, <1>25, <1>27, <1>33, <1>34, <1>35, Zenon DEF Lend

(* A round at a node above the leaves goes on at the kid that lies next to *)
(* k: between the key that has been lent and k there is no other.          *)
LEMMA SideKept ==
  ASSUME NEW N, NEW root, NEW v, NEW its, Holding(N, root, v, its), NEW p \in v.pages, NEW x \in v.pages,
         v.height[p] = v.height[x] + 1, NEW s \in Int, v.lo[p] < s, s < v.hi[p], v.lo[x] < s, s < v.hi[x],
         NEW k \in Int, LoanKeys(N, v, its, k, s), LoanSide(v, p, k)
  PROVE  LoanSide(v, x, k)
<1>1. Shape(N, root, v) /\ Stock(N, v, its)
  BY Zenon DEF Holding
<1>2. PlacesOK(v) /\ NodesOK(N, v) /\ Ordered(N, v)
  BY <1>1, Zenon DEF Shape
<1>3. /\ v.height[p] \in Nat /\ v.height[x] \in Nat /\ v.lo[p] \in Int /\ v.hi[p] \in Int /\ v.lo[x] \in Int /\ v.hi[x] \in Int
  BY <1>2, PlacesAre
<1>4. v.height[p] /= 0
  BY <1>3
<1>5. ~Holds(N[p].items, s)
  <2> SUFFICES ASSUME Holds(N[p].items, s) PROVE FALSE
    OBVIOUS
  <2>1. PICK j \in DOMAIN N[p].items : N[p].items[j][1] = s
    BY DEF Holds
  <2>2. N[p] \in Nodes
    BY <1>2, NodeFacts
  <2>3. j \in 1 .. Count(N, p)
    BY <2>2, NodeDomain
  <2>4. KeyAt(N, p, j) = s
    BY <2>1 DEF KeyAt, ItemAt
  <2>5. Inner(N, v, s)
    BY <1>4, <2>3, <2>4 DEF Inner
  <2> QED BY <2>5 DEF LoanKeys
<1> DEFINE y == Next_(N, p, s)
           i == Smaller(N[p].items, s) + 1
<1>6. y = Next_(N, p, s) /\ i = Smaller(N[p].items, s) + 1
  OBVIOUS
<1> HIDE DEF y, i
<1>7. /\ y \in v.pages /\ v.lo[y] < s /\ s < v.hi[y] /\ v.height[p] = v.height[y] + 1 /\ i \in 1 .. KidCount(N, p)
  BY <1>1, <1>4, <1>5, <1>6, GoesOnTo
<1>8. v.height[y] \in Nat
  BY <1>2, <1>7, PlacesAre
<1>9. v.height[x] = v.height[y]
  BY <1>3, <1>7, <1>8
<1>10. x = y
  BY <1>1, <1>7, <1>9, OnePlace
<1>11. x = KidAt(N, p, i)
  BY <1>6, <1>10 DEF Next_, KidAt
<1>12. KidIn(N, v, p, i, x)
  BY <1>1, <1>7, <1>11, KidPlace
<1>13. /\ v.lo[x] = (IF i = 1 THEN v.lo[p] ELSE KeyAt(N, p, i - 1))
       /\ v.hi[x] = (IF i = KidCount(N, p) THEN v.hi[p] ELSE KeyAt(N, p, i))
       /\ KidCount(N, p) = Count(N, p) + 1 /\ Count(N, p) \in Nat
  BY <1>12, Zenon DEF KidIn
<1>14. \A j \in 1 .. Count(N, p) : v.lo[p] < KeyAt(N, p, j) /\ KeyAt(N, p, j) < v.hi[p] /\ KeyAt(N, p, j) \in Int
  BY <1>2, NodeFacts DEF Ordered
<1>15. ASSUME NEW j \in 1 .. Count(N, p) PROVE ~Between(KeyAt(N, p, j), s, k)
  <2>1. Held(N, v, ItemAt(N, p, j))
    BY DEF Held
  <2>2. ItemAt(N, p, j) \in its
    BY <1>1, <2>1 DEF Stock
  <2> QED BY <2>2 DEF LoanKeys, KeyAt
<1>16. CASE v.hi[p] = k
  <2> SUFFICES ASSUME i /= KidCount(N, p) PROVE FALSE
    BY <1>13, <1>16 DEF LoanSide
  <2>1. i \in 1 .. Count(N, p)
    BY <1>7, <1>13
  <2> DEFINE z == KeyAt(N, p, i)
  <2>2. v.hi[x] = z /\ z < v.hi[p]
    BY <1>13, <1>14, <2>1
  <2>3. ~Between(z, s, k)
    BY <1>15, <2>1
  <2> QED BY <1>16, <2>2, <2>3 DEF Between
<1>17. CASE v.lo[p] = k
  <2> SUFFICES ASSUME i /= 1 PROVE FALSE
    BY <1>13, <1>17 DEF LoanSide
  <2>1. i - 1 \in 1 .. Count(N, p)
    BY <1>7, <1>13
  <2> DEFINE z == KeyAt(N, p, i - 1)
  <2>2. v.lo[x] = z /\ v.lo[p] < z
    BY <1>13, <1>14, <2>1
  <2>3. ~Between(z, s, k)
    BY <1>15, <2>1
  <2> QED BY <1>17, <2>2, <2>3 DEF Between
<1> QED BY <1>16, <1>17 DEF LoanSide

LEMMA LendOn ==
  ASSUME NEW t, NEW f, NEW w, NEW its, NEW M, NEW top, NEW place, NEW k, NEW e, NEW p,
         Lend(t, f, w, its, M, top, place, k, e, p), NEW s, s = e[1], NEW o, DigOn(M, t, f, w, p, s, o)
  PROVE  o.res = "on" /\ \E v, N : Lend(o.tree, f, v, its, N, top, place, k, e, o.at)
<1> DEFINE n == t.mem[p]
           V == View(t, f)
<1>1. /\ Dig(M, t, f, w, p, s, n) /\ Holding(M, t.root, w, its) /\ Counted(t, its)
      /\ LentTo(M, V, w, top, place, k, e) /\ e \in its /\ k \in Int
      /\ LoanKeys(M, w, its, k, s) /\ LoanSide(w, p, k)
      /\ w.height[p] < w.height[top]
  BY Zenon DEF Lend
<1>2. PICK v, N : Dug(M, t, f, w, p, s, o.tree, N, v, o.at)
  BY Zenon DEF DigOn
<1> DEFINE u == o.tree
           x == o.at
           B == View(u, f)
<1>m. View(t, f) = V /\ View(u, f) = B /\ n = t.mem[p]
  OBVIOUS
<1>3. o.res = "on"
  BY Zenon DEF DigOn
<1> HIDE DEF n, V, B, u, x
<1>d. Dug(M, t, f, w, p, s, u, N, v, x)
  BY <1>2 DEF u, x
<1>4. DugPages(M, N, V, B, w, v, p, x)
  BY <1>1, <1>m, <1>d, DugIs
<1>5. Kept(u, f, v) /\ BelowKept(M, N, t.root, w, v, p, x, s) /\ x \in DOMAIN u.mem /\ u.root = t.root /\ u.num = t.num
  BY <1>d, Zenon DEF Dug
<1>6. /\ Moved(M, N, t.root, w, v, p) /\ v.lo[x] < s /\ s < v.hi[x]
      /\ (Inner(N, v, s) => Inner(M, w, s))
  BY <1>5, Zenon DEF BelowKept
<1>7. Shape(N, t.root, v) /\ Sized(N, t.root, v) /\ SameHeld(M, w, N, v) /\ v.lo[p] = w.lo[p] /\ v.hi[p] = w.hi[p]
  BY <1>6, Zenon DEF Moved
<1>8. Holding(N, t.root, v, its)
  BY <1>1, <1>7, HeldHolding
<1>9. /\ v.pages \subseteq w.pages
      /\ \A q \in v.pages : v.height[q] = w.height[q] /\ w.height[q] \in Nat
      /\ \A q \in v.pages : w.height[q] <= w.height[p] => B[q] = N[q]
      /\ \A q \in v.pages : w.height[q] > w.height[p] => B[q] = V[q] /\ N[q] = M[q]
      /\ \A q \in w.pages : w.height[q] >= w.height[p] => q \in v.pages
      /\ p \in v.pages /\ x \in v.pages /\ w.height[p] \in Nat /\ w.height[p] = w.height[x] + 1 /\ v.height[p] = v.height[x] + 1
  BY <1>4, Zenon DEF DugPages
<1>10. /\ top \in w.pages /\ place \in 1 .. Count(M, top) /\ KeyAt(M, top, place) = k
       /\ top \in DOMAIN V /\ V[top] = Node(M[top].leaf, [M[top].items EXCEPT ![place] = e], M[top].kids)
       /\ \A q \in w.pages \ {top} : q \in DOMAIN V /\ V[q] = M[q]
  BY <1>1, Zenon DEF LentTo
<1>11. PlacesOK(w) /\ PlacesOK(v)
  <2>1. Shape(M, t.root, w)
    BY <1>1, Zenon DEF Dig
  <2> QED BY <1>7, <2>1, Zenon DEF Shape
<1>12. w.height[top] \in Nat
  BY <1>10, <1>11, PlacesAre
<1>13. top \in v.pages /\ B[top] = V[top] /\ N[top] = M[top] /\ w.height[top] > w.height[p] /\ w.height[top] >= w.height[p]
  <2>1. w.height[top] > w.height[p] /\ w.height[top] >= w.height[p]
    BY <1>1, <1>9, <1>12
  <2>2. top \in v.pages
    BY <1>9, <1>10, <2>1
  <2> QED BY <1>9, <2>1, <2>2
<1>14. \A q \in v.pages : w.height[q] <= w.height[p] \/ w.height[q] > w.height[p]
  BY <1>9
<1>15. \A q \in v.pages \ {top} : B[q] = N[q]
  BY <1>9, <1>10, <1>14
<1>16. v.pages \subseteq DOMAIN B
  BY <1>5, <1>m, Zenon DEF Kept
<1>17. LentTo(N, B, v, top, place, k, e)
  <2>1. Count(N, top) = Count(M, top) /\ KeyAt(N, top, place) = KeyAt(M, top, place)
    BY <1>13, Others
  <2>2. B[top] = Node(N[top].leaf, [N[top].items EXCEPT ![place] = e], N[top].kids)
    BY <1>10, <1>13
  <2> QED BY <1>10, <1>13, <1>15, <1>16, <2>1, <2>2 DEF LentTo
<1>18. SameBelow(N, B, v, x)
  <2> SUFFICES ASSUME NEW q \in v.pages, v.height[q] <= v.height[x] PROVE B[q] = N[q]
    BY DEF SameBelow
  <2>1. w.height[q] <= w.height[p]
    BY <1>9
  <2> QED BY <1>9, <2>1
<1>19. SameKids(N, B, v)
  <2> SUFFICES ASSUME NEW q \in v.pages PROVE B[q].kids = N[q].kids
    BY DEF SameKids
  <2>1. CASE q = top
    <3>1. B[q].kids = N[q].kids
      BY <2>1, <1>10, <1>13 DEF Node
    <3> QED BY <3>1
  <2> QED BY <1>15, <2>1
<1>20. Dig(N, u, f, v, x, s, u.mem[x])
  <2>1. Shape(N, u.root, v) /\ Sized(N, u.root, v)
    BY <1>5, <1>7
  <2> QED BY <1>m, <1>1, <1>d, <1>18, <1>19, <2>1, DigNext
<1>21. Holding(N, u.root, v, its) /\ Counted(u, its)
  BY <1>1, <1>5, <1>8 DEF Counted
<1>22. LoanKeys(N, v, its, k, s)
  BY <1>1, <1>6 DEF LoanKeys
<1>23. LoanSide(v, p, k)
  BY <1>1, <1>7 DEF LoanSide
<1>24. s \in Int /\ v.lo[p] < s /\ s < v.hi[p]
  BY <1>1, <1>7 DEF Dig, Here
<1>25. LoanSide(v, x, k)
  BY <1>1, <1>6, <1>8, <1>9, <1>22, <1>23, <1>24, SideKept
<1>26. v.height[x] < v.height[top]
  BY <1>1, <1>9, <1>12, <1>13
<1>27. Lend(u, f, v, its, N, top, place, k, e, x)
  BY <1>m, <1>1, <1>17, <1>20, <1>21, <1>22, <1>25, <1>26, Zenon DEF Lend
<1> QED BY <1>3, <1>27 DEF u, x

(* The leaf is reached, and the neighbour leaves it. *)
LentItem(M, w, p, n, e, i) ==
  p \in w.pages /\ w.height[p] = 0 /\ M[p] = n /\ i \in 1 .. Count(M, p) /\ e = ItemAt(M, p, i)

(* Where the key of e is, there e is. *)
LEMMA ItemFor ==
  ASSUME NEW M, NEW root, NEW w, NEW its, Holding(M, root, w, its), NEW e \in its,
         NEW p \in w.pages, NEW i \in 1 .. Count(M, p), KeyAt(M, p, i) = e[1]
  PROVE  e = ItemAt(M, p, i)
<1>1. Shape(M, root, w) /\ Stock(M, w, its)
  BY Zenon DEF Holding
<1> DEFINE y == ItemAt(M, p, i)
<1>2. Held(M, w, y)
  BY DEF Held
<1>3. Held(M, w, e)
  BY <1>1 DEF Stock
<1>4. y[1] = e[1]
  BY DEF KeyAt
<1> QED BY <1>1, <1>2, <1>3, <1>4, OneItem

LEMMA LendLeaf ==
  ASSUME NEW t, NEW f, NEW w, NEW its, NEW M, NEW top, NEW place, NEW k, NEW e, NEW p,
         Lend(t, f, w, its, M, top, place, k, e, p), NEW s, s = e[1], NEW n, n = t.mem[p], NEW i,
         NEW o, DigLeaf(M, t, p, s, n, i, o), NEW u, u = Lowered(o.tree)
  PROVE  Dropped(u, f, its, k)
<1> DEFINE V == View(t, f)
           a == Node(TRUE, RemoveAt(n.items, i), <<>>)
           ns == Put(p, a)
           g == o.tree
           B == View(u, f)
<1>1. /\ Dig(M, t, f, w, p, s, n) /\ Holding(M, t.root, w, its) /\ Counted(t, its)
      /\ LentTo(M, V, w, top, place, k, e) /\ e \in its /\ k \in Int
      /\ LoanKeys(M, w, its, k, s) /\ LoanSide(w, p, k)
      /\ w.height[p] < w.height[top]
  BY Zenon DEF Lend
<1>2. /\ n.leaf = TRUE /\ i \in 1 .. Count(M, p) /\ KeyAt(M, p, i) = s /\ g = Change(t, ns)
  BY Zenon DEF DigLeaf
<1>m. V = View(t, f) /\ B = View(u, f)
  OBVIOUS
<1>n. a = Node(TRUE, RemoveAt(n.items, i), <<>>) /\ ns = Put(p, a) /\ u = Lowered(g)
  OBVIOUS
<1> HIDE DEF V, B, a, ns, g
<1>3. Kept(t, f, w)
  BY <1>1, Zenon DEF Dig
<1>4. Shape(M, t.root, w) /\ Sized(M, t.root, w) /\ Stock(M, w, its)
  BY <1>1, Zenon DEF Holding
<1>5. DigNode(M, V, t, w, p, n)
  BY <1>1, <1>m, DigNodeIs
<1>6. p \in w.pages /\ M[p] = n /\ V[p] = n /\ n.leaf = (w.height[p] = 0)
  BY <1>5, Zenon DEF DigNode
<1>7. w.height[p] = 0
  BY <1>2, <1>6
<1>8. PutsOne(ns, p, a)
  BY <1>n, PutIs
<1>9. IsTree(t)
  BY <1>3, Zenon DEF Kept
<1>10. ChangedTo(t, u, ns)
  BY <1>2, <1>n, <1>9, DroppedIs
<1>11. Follow(V, B, w.pages \cup DOMAIN ns, ns)
  BY <1>m, <1>3, <1>10, ChangeFollows
<1>12. DOMAIN ns = {p} /\ ns[p] = a
  BY <1>8, Zenon DEF PutsOne
<1>13. w.pages \cup DOMAIN ns = w.pages
  BY <1>6, <1>12
<1>14. p \in DOMAIN B /\ B[p] = a /\ ButAt(V, B, w.pages, {p})
  BY <1>6, <1>8, <1>11, <1>13, FollowOne
<1>15. \A q \in w.pages \ {p} : q \in DOMAIN B /\ B[q] = V[q]
  BY <1>14, Zenon DEF ButAt
<1>16. p = t.root \/ Count(M, p) >= MinDegree
  BY <1>1 DEF Dig, Deep
<1>17. B[p] = Node(TRUE, RemoveAt(V[p].items, i), <<>>)
  BY <1>n, <1>6, <1>14
<1>18. e = ItemAt(M, p, i)
  BY <1>1, <1>2, <1>6, ItemFor
<1>19. top \in w.pages /\ place \in 1 .. Count(M, top) /\ KeyAt(M, top, place) = k
  BY <1>1, Zenon DEF LentTo
<1>20. w.height[top] \in Nat
  BY <1>4, <1>19, PlacesAre DEF Shape
<1>21. p /= top
  BY <1>1, <1>7
<1> DEFINE old == ItemAt(M, top, place)
<1>o. old = ItemAt(M, top, place)
  OBVIOUS
<1> HIDE DEF old
<1>22. \A x : Held(M, w, x) <=> x \in its
  BY <1>4, Zenon DEF Stock
<1>23. \A x : Held(M, w, x) => ~Between(x[1], s, k)
  BY <1>1, <1>22 DEF LoanKeys
<1>24. w.lo[p] = k \/ w.hi[p] = k
  BY <1>1 DEF LoanSide
<1>25. \E v : LoanOver(M, B, t.root, w, v, old)
  <2>1. /\ Shape(M, t.root, w) /\ Sized(M, t.root, w) /\ p \in w.pages /\ i \in 1 .. Count(M, p) /\ p \in DOMAIN B
        /\ LentTo(M, V, w, top, place, k, e)
    BY <1>1, <1>2, <1>4, <1>6, <1>14
  <2> QED BY <1>o, <1>7, <1>15, <1>16, <1>17, <1>18, <1>21, <1>23, <1>24, <2>1, LoanEnds
<1>26. PICK v : LoanOver(M, B, t.root, w, v, old)
  BY <1>25
<1>27. Held(M, w, old)
  BY <1>o, <1>19 DEF Held
<1>28. old[1] = k
  BY <1>o, <1>19 DEF KeyAt
<1>29. old \in its
  BY <1>22, <1>27
<1>30. ASSUME NEW x \in its, x[1] = k PROVE x = old
  BY <1>4, <1>22, <1>27, <1>28, <1>30, OneItem
<1>31. v.pages = w.pages /\ GoneFrom(B, t.root, v, its, old)
  BY <1>22, <1>26 DEF LoanOver, GoneFrom
<1>32. ~IsHollow(a)
  <2>1. a.leaf = TRUE
    BY <1>n DEF Node
  <2> QED BY <2>1 DEF IsHollow
<1>33. DOMAIN ns \subseteq w.pages /\ (t.root \in DOMAIN ns => ~IsHollow(ns[t.root]))
  BY <1>6, <1>12, <1>32
<1> QED BY <1>m, <1>n, <1>1, <1>2, <1>3, <1>28, <1>29, <1>30, <1>31, <1>33, DropGood

(* The neighbour is where it was found, and nowhere else. *)
LEMMA LendHeld ==
  ASSUME NEW t, NEW f, NEW w, NEW its, NEW M, NEW top, NEW place, NEW k, NEW e, NEW p,
         Lend(t, f, w, its, M, top, place, k, e, p), NEW s, s = e[1], NEW n, n = t.mem[p], n.leaf = TRUE
  PROVE  Holds(n.items, s)
<1>1. /\ Dig(M, t, f, w, p, s, n) /\ Holding(M, t.root, w, its) /\ e \in its
  BY Zenon DEF Lend
<1>2. DigNode(M, View(t, f), t, w, p, n)
  BY <1>1, DigNodeIs
<1>3. p \in w.pages /\ M[p] = n
  BY <1>2, Zenon DEF DigNode
<1>4. s \in Int /\ w.lo[p] < s /\ s < w.hi[p]
  BY <1>1 DEF Dig, Here
<1> SUFFICES ASSUME ~Holds(n.items, s) PROVE FALSE
  OBVIOUS
<1>5. M[p].leaf = TRUE /\ ~Holds(M[p].items, s)
  BY <1>3
<1>6. \A x \in its : x[1] /= s
  <2>1. /\ Holding(M, t.root, w, its) /\ p \in w.pages /\ M[p].leaf = TRUE /\ s \in Int
        /\ ~Holds(M[p].items, s) /\ w.lo[p] < s /\ s < w.hi[p]
    BY <1>1, <1>3, <1>4, <1>5
  <2> QED BY <2>1, NotIn
<1> QED BY <1>1, <1>6

LendDone(f, its, top, place, k, e, o) ==
  \/ o.res = "on" /\ \E v, N : Lend(o.tree, f, v, its, N, top, place, k, e, o.at)
  \/ o.res = "yes" /\ Dropped(Lowered(o.tree), f, its, k)

LEMMA LendRound ==
  ASSUME NEW t, NEW f, NEW w, NEW its, NEW M, NEW top, NEW place, NEW k, NEW e, NEW p,
         Lend(t, f, w, its, M, top, place, k, e, p), NEW s, s = e[1],
         NEW o, o = DeleteStep(t, f, p, s)
  PROVE  LendDone(f, its, top, place, k, e, o)
<1> DEFINE n == t.mem[p]
           i == Smaller(n.items, s) + 1
<1>m. n = t.mem[p] /\ i = Smaller(n.items, s) + 1
  OBVIOUS
<1> HIDE DEF n, i
<1>1. Dig(M, t, f, w, p, s, n) /\ LoanKeys(M, w, its, k, s)
  BY <1>m, Zenon DEF Lend
<1>2. DigDone(M, t, f, w, p, s, n, i, o)
  BY <1>m, <1>1, DeleteStepIs
<1>3. \/ DigOn(M, t, f, w, p, s, o) \/ DigEdge(M, t, f, w, p, s, n, i, o)
      \/ DigLeaf(M, t, p, s, n, i, o) \/ DigNo(t, s, n, o)
  BY <1>2, Zenon DEF DigDone
<1>4. CASE DigOn(M, t, f, w, p, s, o)
  <2>1. o.res = "on" /\ \E v, N : Lend(o.tree, f, v, its, N, top, place, k, e, o.at)
    BY <1>4, LendOn
  <2> QED BY <2>1 DEF LendDone
<1>5. CASE DigEdge(M, t, f, w, p, s, n, i, o)
  <2>1. n.leaf = FALSE /\ i \in 1 .. Count(M, p) /\ KeyAt(M, p, i) = s
    BY <1>5, Zenon DEF DigEdge
  <2>2. DigNode(M, View(t, f), t, w, p, n)
    BY <1>1, DigNodeIs
  <2>3. p \in w.pages /\ n.leaf = (w.height[p] = 0)
    BY <2>2, Zenon DEF DigNode
  <2>4. Inner(M, w, s)
    BY <2>1, <2>3 DEF Inner
  <2> QED BY <1>1, <2>4 DEF LoanKeys
<1>6. CASE DigLeaf(M, t, p, s, n, i, o)
  <2>1. o.res = "yes"
    BY <1>6, Zenon DEF DigLeaf
  <2>2. Dropped(Lowered(o.tree), f, its, k)
    BY <1>m, <1>6, LendLeaf
  <2> QED BY <2>1, <2>2 DEF LendDone
<1>7. CASE DigNo(t, s, n, o)
  <2>1. n.leaf = TRUE /\ ~Holds(n.items, s)
    BY <1>7, Zenon DEF DigNo
  <2>2. Holds(n.items, s)
    BY <1>m, <2>1, LendHeld
  <2> QED BY <2>1, <2>2
<1> QED BY <1>3, <1>4, <1>5, <1>6, <1>7

(* The rounds before that. *)
PlainDone(f, w, its, p, k, i, o) ==
  \/ o.res = "on" /\ \E v : Plain(o.tree, f, v, its, o.at, k)
  \/ o.res \in {"pred", "succ"} /\ EdgeAt(o.tree, f, w, its, o.res = "pred", k, p, i, o.at, o.at)
  \/ o.res = "yes" /\ Dropped(Lowered(o.tree), f, its, k)
  \/ o.res = "no" /\ Good(o.tree, f, w, its) /\ Of(its, k) = {}

LEMMA PlainRound ==
  ASSUME NEW t, NEW f, NEW w, NEW its, NEW p, NEW k, Plain(t, f, w, its, p, k),
         NEW n, n = t.mem[p], NEW i, i = Smaller(n.items, k) + 1, NEW o, o = DeleteStep(t, f, p, k)
  PROVE  PlainDone(f, w, its, p, k, i, o)
<1> DEFINE M == View(t, f)
<1>m. M = View(t, f)
  OBVIOUS
<1>1. Good(t, f, w, its) /\ Dig(M, t, f, w, p, k, n)
  BY Zenon DEF Plain
<1> HIDE DEF M
<1>2. DigDone(M, t, f, w, p, k, n, i, o)
  BY <1>1, DeleteStepIs
<1>3. \/ DigOn(M, t, f, w, p, k, o) \/ DigEdge(M, t, f, w, p, k, n, i, o)
      \/ DigLeaf(M, t, p, k, n, i, o) \/ DigNo(t, k, n, o)
  BY <1>2, Zenon DEF DigDone
<1>4. CASE DigOn(M, t, f, w, p, k, o)
  <2>1. o.res = "on" /\ \E v : Plain(o.tree, f, v, its, o.at, k)
    BY <1>m, <1>4, PlainOn
  <2> QED BY <2>1 DEF PlainDone
<1>5. CASE DigEdge(M, t, f, w, p, k, n, i, o)
  <2>1. o.res \in {"pred", "succ"} /\ EdgeAt(o.tree, f, w, its, o.res = "pred", k, p, i, o.at, o.at)
    BY <1>m, <1>5, EdgeBegins
  <2> QED BY <2>1, Zenon DEF PlainDone
<1>6. CASE DigLeaf(M, t, p, k, n, i, o)
  <2>1. o.res = "yes"
    BY <1>6, Zenon DEF DigLeaf
  <2>2. Dropped(Lowered(o.tree), f, its, k)
    BY <1>m, <1>6, PlainLeaf
  <2> QED BY <2>1, <2>2 DEF PlainDone
<1>7. CASE DigNo(t, k, n, o)
  <2>1. o.res = "no" /\ o.tree = t /\ Of(its, k) = {}
    BY <1>m, <1>7, PlainNo
  <2> QED BY <1>1, <2>1 DEF PlainDone
<1> QED BY <1>3, <1>4, <1>5, <1>6, <1>7

(* find, and the rounds of update before its insert. *)
Seeks(t, f, w, its, p, k) == Good(t, f, w, its) /\ Here(t, w, p, k) /\ k \in Int

SeeksAt(A, t, w, its, p, k, n) ==
  /\ Holding(A, t.root, w, its) /\ Shape(A, t.root, w) /\ Sized(A, t.root, w) /\ p \in w.pages /\ A[p] = n /\ n \in Nodes
  /\ Len(n.kids) = (IF n.leaf THEN 0 ELSE Len(n.items) + 1) /\ Len(n.items) \in Nat /\ n.leaf \in BOOLEAN
  /\ w.lo[p] < k /\ k < w.hi[p] /\ Count(A, p) = Len(n.items) /\ p \in DOMAIN t.mem

LEMMA SeeksIs ==
  ASSUME NEW t, NEW f, NEW w, NEW its, NEW p, NEW k, Seeks(t, f, w, its, p, k), NEW n, n = t.mem[p]
  PROVE  SeeksAt(View(t, f), t, w, its, p, k, n)
<1> DEFINE A == View(t, f)
<1>1. Good(t, f, w, its) /\ p \in DOMAIN t.mem /\ w.lo[p] < k /\ k < w.hi[p]
  BY Zenon DEF Seeks, Here
<1>2. NodeSeen(A, w, p, n)
  BY <1>1, Seen
<1>3. Holding(A, t.root, w, its)
  BY <1>1, Zenon DEF Good
<1>m. A = View(t, f)
  OBVIOUS
<1> HIDE DEF A
<1>4. Shape(A, t.root, w) /\ Sized(A, t.root, w)
  BY <1>3, Zenon DEF Holding
<1>5. /\ p \in w.pages /\ A[p] = n /\ n \in Nodes
      /\ Len(n.kids) = (IF n.leaf THEN 0 ELSE Len(n.items) + 1) /\ Len(n.items) \in Nat /\ Count(A, p) = Len(n.items)
  BY <1>2, Zenon DEF NodeSeen
<1>6. n.leaf \in BOOLEAN
  BY <1>5, NodeSeqs
<1> QED BY <1>m, <1>1, <1>3, <1>4, <1>5, <1>6, Zenon DEF SeeksAt

LEMMA SeekFound ==
  ASSUME NEW t, NEW f, NEW w, NEW its, NEW p, NEW k, Seeks(t, f, w, its, p, k), NEW n, n = t.mem[p],
         Holds(n.items, k), NEW i, i = Smaller(n.items, k) + 1
  PROVE  <<k, n.items[i][2]>> \in its /\ Of(its, k) /= {}
<1> DEFINE A == View(t, f)
           y == ItemAt(A, p, i)
<1>1. SeeksAt(A, t, w, its, p, k, n) /\ k \in Int
  BY SeeksIs DEF Seeks
<1>y. y = ItemAt(A, p, i)
  OBVIOUS
<1> HIDE DEF A, y
<1>2. Holding(A, t.root, w, its) /\ Shape(A, t.root, w) /\ p \in w.pages /\ A[p] = n
  BY <1>1, Zenon DEF SeeksAt
<1>3. i \in 1 .. Count(A, p) /\ KeyAt(A, p, i) = k /\ ItemAt(A, p, i) \in its
  <2>1. Holds(A[p].items, k) /\ i = Smaller(A[p].items, k) + 1
    BY <1>2
  <2> QED BY <1>1, <1>2, <2>1, FoundIn
<1>4. y[1] = k /\ y \in its /\ y = n.items[i]
  BY <1>2, <1>3, <1>y DEF KeyAt, ItemAt
<1>5. Held(A, w, y)
  BY <1>2, <1>3, <1>y DEF Held
<1>6. NodesOK(A, w)
  BY <1>2, Zenon DEF Shape
<1>7. y \in Item
  BY <1>5, <1>6, HeldIsItem
<1>8. y = <<y[1], y[2]>>
  BY <1>7, KeyIsInt
<1>9. y = <<k, n.items[i][2]>>
  BY <1>4, <1>8
<1> QED BY <1>4, <1>9 DEF Of

LEMMA SeekNone ==
  ASSUME NEW t, NEW f, NEW w, NEW its, NEW p, NEW k, Seeks(t, f, w, its, p, k), NEW n, n = t.mem[p],
         ~Holds(n.items, k), n.kids = <<>>
  PROVE  Of(its, k) = {}
<1> DEFINE A == View(t, f)
<1>1. SeeksAt(A, t, w, its, p, k, n) /\ k \in Int
  BY SeeksIs DEF Seeks
<1> HIDE DEF A
<1>2. /\ Holding(A, t.root, w, its) /\ p \in w.pages /\ A[p] = n /\ w.lo[p] < k /\ k < w.hi[p]
      /\ Len(n.kids) = (IF n.leaf THEN 0 ELSE Len(n.items) + 1) /\ Len(n.items) \in Nat /\ n.leaf \in BOOLEAN
  BY <1>1, Zenon DEF SeeksAt
<1>3. n.leaf = TRUE
  <2>1. Len(n.kids) = 0
    OBVIOUS
  <2> QED BY <1>2, <2>1
<1>4. A[p].leaf = TRUE /\ ~Holds(A[p].items, k)
  BY <1>2, <1>3
<1>5. \A x \in its : x[1] /= k
  <2>1. /\ Holding(A, t.root, w, its) /\ p \in w.pages /\ A[p].leaf = TRUE /\ k \in Int
        /\ ~Holds(A[p].items, k) /\ w.lo[p] < k /\ k < w.hi[p]
    BY <1>1, <1>2, <1>4
  <2> QED BY <2>1, NotIn
<1> QED BY <1>5 DEF Of

LEMMA SeekDown ==
  ASSUME NEW t, NEW f, NEW w, NEW its, NEW p, NEW k, Seeks(t, f, w, its, p, k), NEW n, n = t.mem[p],
         ~Holds(n.items, k), n.kids /= <<>>, NEW c, c = n.kids[Smaller(n.items, k) + 1],
         NEW u, u = Load(t, f, {c})
  PROVE  Seeks(u, f, w, its, c, k) /\ Hollow(u) = Hollow(t)
<1> DEFINE A == View(t, f)
           i == Smaller(n.items, k) + 1
           ps == {c}
<1>1. SeeksAt(A, t, w, its, p, k, n) /\ k \in Int /\ Good(t, f, w, its)
  BY SeeksIs DEF Seeks
<1>m. ps = {c} /\ u = Load(t, f, ps) /\ i = Smaller(n.items, k) + 1 /\ c = n.kids[i]
  OBVIOUS
<1> HIDE DEF A, ps, i
<1>2. /\ Shape(A, t.root, w) /\ p \in w.pages /\ A[p] = n /\ n \in Nodes /\ w.lo[p] < k /\ k < w.hi[p]
      /\ Len(n.kids) = (IF n.leaf THEN 0 ELSE Len(n.items) + 1) /\ Len(n.items) \in Nat /\ n.leaf \in BOOLEAN
  BY <1>1, Zenon DEF SeeksAt
<1>3. n.leaf = FALSE
  <2>1. n.kids \in Seq(Nat)
    BY <1>2, NodeSeqs
  <2>2. Len(n.kids) /= 0
    BY <2>1
  <2> QED BY <1>2, <2>2
<1>4. KidOn(A, t.root, w, p, i, c, k)
  <2>1. A[p].leaf = FALSE /\ ~Holds(A[p].items, k) /\ i = Smaller(A[p].items, k) + 1 /\ c = A[p].kids[i]
    BY <1>2, <1>3, <1>m
  <2> QED BY <1>1, <1>2, <2>1, KidFor
<1>5. KidBelow(A, t.root, w, p, i, c) /\ w.lo[c] < k /\ k < w.hi[c]
  BY <1>4, Zenon DEF KidOn
<1>6. c \in w.pages
  BY <1>5, Zenon DEF KidBelow
<1>7. ps \subseteq w.pages
  BY <1>m, <1>6
<1>8. Good(u, f, w, its) /\ Loads(t, u, f, w, ps)
  BY <1>1, <1>m, <1>7, LoadGood
<1>9. DOMAIN u.mem = DOMAIN t.mem \cup ps /\ Hollow(u) = Hollow(t)
  BY <1>8, Zenon DEF Loads
<1>10. c \in DOMAIN u.mem
  BY <1>m, <1>9
<1>11. Here(u, w, c, k)
  BY <1>5, <1>10 DEF Here
<1> QED BY <1>1, <1>8, <1>9, <1>11 DEF Seeks

(* update finds the item and gives it another value.                       *)
LEMMA ItemPut ==
  ASSUME NEW n \in Nodes, NEW i, NEW it
  PROVE  [n EXCEPT !.items[i] = it] = Node(n.leaf, [n.items EXCEPT ![i] = it], n.kids)
<1> DEFINE s == [n.items EXCEPT ![i] = it]
<1> HIDE DEF s
<1>1. [n EXCEPT !.items = s] = Node(n.leaf, s, n.kids)
  BY ItemsChanged
<1> QED BY <1>1 DEF s

LEMMA CountSame ==
  ASSUME NEW t, NEW its, Counted(t, its), NEW old \in its, NEW it, it \notin its \ {old}, NEW u, u.num = t.num
  PROVE  Counted(u, (its \ {old}) \cup {it})
<1> DEFINE less == its \ {old}
<1>1. IsFiniteSet(its) /\ t.num = Cardinality(its)
  BY DEF Counted
<1>2. IsFiniteSet(less) /\ Cardinality(less) = Cardinality(its) - 1
  BY <1>1, FS_RemoveElement
<1>3. Cardinality(its) \in Nat
  BY <1>1, FS_CardinalityType
<1> HIDE DEF less
<1>4. it \notin less
  BY DEF less
<1>5. IsFiniteSet(less \cup {it}) /\ Cardinality(less \cup {it}) = Cardinality(less) + 1
  BY <1>2, <1>4, FS_AddElement
<1>6. Cardinality(less \cup {it}) = Cardinality(its)
  BY <1>2, <1>3, <1>5
<1>7. Counted(u, less \cup {it})
  BY <1>1, <1>5, <1>6 DEF Counted
<1> QED BY <1>7 DEF less

Renewed(u, f, its, k, it) == \E v : Good(u, f, v, (its \ Of(its, k)) \cup {it})

(* The same keys at the same places: the same shape. *)
LEMMA SameKeys ==
  ASSUME NEW A, NEW B, NEW root, NEW w, Shape(A, root, w), Sized(A, root, w), NEW p \in w.pages, NEW i \in 1 .. Count(A, p),
         NEW k, KeyAt(A, p, i) = k, NEW it \in Item, it[1] = k,
         B[p] = Node(A[p].leaf, [A[p].items EXCEPT ![i] = it], A[p].kids), p \in DOMAIN B,
         \A q \in w.pages \ {p} : q \in DOMAIN B /\ B[q] = A[q], NEW old, old = ItemAt(A, p, i)
  PROVE  Shape(B, root, w) /\ Sized(B, root, w) /\ ForOld(A, w, B, w, old, it)
<1>1. NodesOK(A, w)
  BY Zenon DEF Shape
<1>2. A[p] \in Nodes
  BY <1>1, NodeFacts
<1>3. TopIs(A, B, p, i, k, it, k)
  BY <1>2, TopChanged
<1>4. /\ B[p] \in Nodes /\ B[p].leaf = A[p].leaf /\ Count(B, p) = Count(A, p) /\ KidCount(B, p) = KidCount(A, p)
      /\ ItemAt(B, p, i) = it
      /\ \A j \in 1 .. Count(A, p) : j /= i => ItemAt(B, p, j) = ItemAt(A, p, j)
      /\ \A j \in 1 .. KidCount(A, p) : KidAt(B, p, j) = KidAt(A, p, j)
  BY <1>3, Zenon DEF TopIs
<1>5. ASSUME NEW j \in 1 .. Count(A, p) PROVE KeyAt(B, p, j) = KeyAt(A, p, j)
  <2>1. CASE j = i
    BY <2>1, <1>4 DEF KeyAt
  <2>2. CASE j /= i
    BY <2>2, <1>4 DEF KeyAt
  <2> QED BY <2>1, <2>2
<1>6. Alike(A, B, p)
  BY <1>4, <1>5 DEF Alike
<1>7. ASSUME NEW q \in w.pages PROVE Alike(A, B, q)
  <2>1. CASE q = p
    BY <1>6, <2>1
  <2>2. CASE q /= p
    <3>1. q \in DOMAIN B /\ B[q] = A[q] /\ A[q] \in Nodes
      BY <1>1, <2>2, NodeFacts
    <3> QED BY <3>1, Others DEF Alike
  <2> QED BY <2>1, <2>2
<1>8. Shape(B, root, w)
  BY <1>7, AlikeShape
<1>9. Sized(B, root, w)
  <2> SUFFICES ASSUME NEW q \in w.pages PROVE Count(B, q) <= MaxKeys /\ (q /= root => Count(B, q) >= MinDegree - 1)
    BY DEF Sized
  <2>1. Count(B, q) = Count(A, q)
    BY <1>7, Zenon DEF Alike
  <2> QED BY <2>1 DEF Sized
<1>10. old[1] = k
  BY DEF KeyAt
<1>11. \A q \in w.pages \ {p} : B[q] = A[q]
  OBVIOUS
<1>12. ForOld(A, w, B, w, old, it)
  <2>1. TopIs(A, B, p, i, old[1], it, k)
    BY <1>3, <1>10
  <2> QED BY <2>1, <1>11, Reheld
<1> QED BY <1>8, <1>9, <1>12

LEMMA UpdateFound ==
  ASSUME NEW t, NEW f, NEW w, NEW its, NEW p, NEW k, Seeks(t, f, w, its, p, k), NEW n, n = t.mem[p],
         Holds(n.items, k), NEW i, i = Smaller(n.items, k) + 1,
         NEW it \in Item, it[1] = k, NEW u, u = Replace(t, p, i, it)
  PROVE  Renewed(u, f, its, k, it)
<1> DEFINE A == View(t, f)
           B == View(u, f)
           old == ItemAt(A, p, i)
           a == Node(n.leaf, [n.items EXCEPT ![i] = it], n.kids)
           ns == Put(p, a)
<1>1. SeeksAt(A, t, w, its, p, k, n) /\ k \in Int /\ Good(t, f, w, its)
  BY SeeksIs DEF Seeks
<1>m. A = View(t, f) /\ B = View(u, f)
  OBVIOUS
<1>n. a = Node(n.leaf, [n.items EXCEPT ![i] = it], n.kids) /\ ns = Put(p, a) /\ old = ItemAt(A, p, i)
  OBVIOUS
<1> HIDE DEF A, B, old, a, ns
<1>2. Holding(A, t.root, w, its) /\ Shape(A, t.root, w) /\ Sized(A, t.root, w) /\ p \in w.pages /\ A[p] = n /\ n \in Nodes
  BY <1>1, Zenon DEF SeeksAt
<1>3. Kept(t, f, w) /\ Counted(t, its)
  BY <1>1, Zenon DEF Good
<1>4. i \in 1 .. Count(A, p) /\ KeyAt(A, p, i) = k /\ ItemAt(A, p, i) \in its
  <2>1. Holds(A[p].items, k) /\ i = Smaller(A[p].items, k) + 1
    BY <1>2
  <2> QED BY <1>1, <1>2, <2>1, FoundIn
<1>5. u = Change(t, ns)
  <2>1. [n EXCEPT !.items[i] = it] = a
    BY <1>2, <1>n, ItemPut
  <2>2. Replace(t, p, i, it) = Change(t, Put(p, [n EXCEPT !.items[i] = it]))
    BY ReplaceBy
  <2> QED BY <1>n, <2>1, <2>2
<1>6. IsTree(t) /\ t.pages \in Nat /\ w.pages \subseteq 0 .. t.pages - 1
  BY <1>3, Zenon DEF Kept
<1>7. ChangedTo(t, u, ns) /\ u.num = t.num /\ u.pages = t.pages
  BY <1>5, <1>6, ChangeIs
<1>8. PutsOne(ns, p, a)
  BY <1>n, PutIs
<1>9. DOMAIN ns = {p} /\ ns[p] = a
  BY <1>8, Zenon DEF PutsOne
<1>10. Follow(A, B, w.pages \cup DOMAIN ns, ns)
  BY <1>m, <1>3, <1>7, ChangeFollows
<1>11. w.pages \cup DOMAIN ns = w.pages
  BY <1>2, <1>9
<1>12. p \in DOMAIN B /\ B[p] = a /\ ButAt(A, B, w.pages, {p})
  BY <1>2, <1>8, <1>10, <1>11, FollowOne
<1>13. \A q \in w.pages \ {p} : q \in DOMAIN B /\ B[q] = A[q]
  BY <1>12, Zenon DEF ButAt
<1>14. Shape(B, t.root, w) /\ Sized(B, t.root, w) /\ ForOld(A, w, B, w, old, it)
  <2>1. B[p] = Node(A[p].leaf, [A[p].items EXCEPT ![i] = it], A[p].kids)
    BY <1>2, <1>n, <1>12
  <2>2. p \in w.pages /\ i \in 1 .. Count(A, p) /\ KeyAt(A, p, i) = k /\ p \in DOMAIN B /\ Shape(A, t.root, w) /\ Sized(A, t.root, w)
    BY <1>2, <1>4, <1>12
  <2> QED BY <1>n, <1>13, <2>1, <2>2, SameKeys
<1>15. \A x : Held(A, w, x) <=> x \in its
  BY <1>2, Zenon DEF Holding, Stock
<1>16. old \in its /\ old[1] = k
  BY <1>4, <1>n DEF KeyAt
<1>17. ASSUME NEW x \in its, x[1] = k PROVE x = old
  BY <1>2, <1>15, <1>16, <1>17, OneItem
<1>18. Of(its, k) = {old}
  BY <1>16, <1>17 DEF Of
<1>19. it \notin its \ {old}
  BY <1>17
<1> DEFINE js == (its \ {old}) \cup {it}
<1>20. Counted(u, js)
  BY <1>3, <1>7, <1>16, <1>19, CountSame
<1>21. Holding(B, t.root, w, js)
  <2>1. \A x : Held(B, w, x) <=> x \in js
    BY <1>14, <1>15 DEF ForOld
  <2> HIDE DEF js
  <2> QED BY <1>14, <2>1 DEF Holding, Stock
<1>22. Widens(u, w, w, ns)
  BY <1>6, <1>7, <1>11 DEF Widens
<1>23. t.root \in DOMAIN ns => ~IsHollow(ns[t.root])
  <2>1. a.items = [n.items EXCEPT ![i] = it]
    BY <1>n, Zenon DEF Node
  <2>2. DOMAIN n.items = 1 .. Count(A, p)
    BY <1>2, NodeDomain
  <2>3. DOMAIN a.items = 1 .. Count(A, p)
    BY <2>1, <2>2
  <2>4. i \in DOMAIN a.items
    BY <1>4, <2>3
  <2>5. a.items /= <<>>
    BY <2>4
  <2> QED BY <1>9, <2>5 DEF IsHollow
<1> HIDE DEF js
<1>24. Good(u, f, w, js)
  BY <1>m, <1>3, <1>7, <1>20, <1>21, <1>22, <1>23, ChangeGood
<1>25. js = (its \ Of(its, k)) \cup {it}
  BY <1>18 DEF js
<1> QED BY <1>24, <1>25 DEF Renewed

(* insert begins: a full root gets one above it, and is split.             *)
OneKid(root) == Node(FALSE, <<>>, <<root>>)
GrownTree(t) == [Change(t, Put(t.pages, OneKid(t.root))) EXCEPT !.root = t.pages, !.pages = @ + 1]

GrownTo(t, g, d) ==
  /\ IsTree(g) /\ DOMAIN g.mem = {d} \cup DOMAIN t.mem /\ g.mem[d] = OneKid(t.root)
  /\ \A q \in DOMAIN t.mem : q /= d => g.mem[q] = t.mem[q]
  /\ g.dirty = t.dirty \cup {d} /\ g.root = d /\ g.num = t.num /\ g.pages = d + 1

LEMMA GrownTreeIs ==
  ASSUME NEW t, IsTree(t), NEW d, d = t.pages, NEW g, g = GrownTree(t)
  PROVE  GrownTo(t, g, d)
<1> DEFINE ns == Put(d, OneKid(t.root))
           c == Change(t, ns)
<1>1. PutsOne(ns, d, OneKid(t.root))
  BY PutIs
<1> HIDE DEF ns
<1>2. ChangedTo(t, c, ns) /\ c.num = t.num /\ c.pages = t.pages
  BY ChangeIs
<1>3. g = [c EXCEPT !.root = d, !.pages = @ + 1]
  BY DEF GrownTree, ns
<1> HIDE DEF c
<1>4. c = [mem |-> c.mem, dirty |-> c.dirty, root |-> c.root, num |-> c.num, pages |-> c.pages]
  BY <1>2 DEF ChangedTo, IsTree
<1>5. g = [mem |-> c.mem, dirty |-> c.dirty, root |-> d, num |-> c.num, pages |-> c.pages + 1]
  BY <1>3, <1>4
<1>6. IsTree(g) /\ g.mem = c.mem /\ g.dirty = c.dirty /\ g.root = d /\ g.num = c.num /\ g.pages = c.pages + 1
  BY <1>5 DEF IsTree
<1>7. /\ DOMAIN c.mem = DOMAIN ns \cup DOMAIN t.mem /\ c.dirty = t.dirty \cup DOMAIN ns
      /\ \A q \in DOMAIN c.mem : c.mem[q] = IF q \in DOMAIN ns THEN ns[q] ELSE t.mem[q]
  BY <1>2, Zenon DEF ChangedTo
<1>8. DOMAIN ns = {d} /\ ns[d] = OneKid(t.root)
  BY <1>1, Zenon DEF PutsOne
<1> QED BY <1>2, <1>6, <1>7, <1>8 DEF GrownTo

LEMMA OneKidIs ==
  ASSUME NEW r \in Nat
  PROVE  /\ OneKid(r) \in Nodes /\ OneKid(r).leaf = FALSE /\ OneKid(r).items = <<>> /\ OneKid(r).kids = <<r>>
         /\ Len(OneKid(r).items) = 0 /\ Len(OneKid(r).kids) = 1 /\ OneKid(r).kids[1] = r
<1>1. <<>> \in Seq(Item) /\ <<r>> \in Seq(Nat)
  OBVIOUS
<1>2. IsNode(OneKid(r), FALSE, <<>>, <<r>>)
  BY <1>1, InnerOf DEF OneKid
<1> QED BY <1>2 DEF IsNode

GrownKept(t, g, f, w, v, d) ==
  /\ Kept(g, f, v) /\ v.pages = w.pages \cup {d}
  /\ \A q \in w.pages : q \in DOMAIN View(g, f) /\ View(g, f)[q] = View(t, f)[q]
  /\ d \in DOMAIN View(g, f) /\ View(g, f)[d] = OneKid(t.root)
  /\ d \in Nat /\ d \notin w.pages /\ d /= t.root

LEMMA GrowKept ==
  ASSUME NEW t, NEW f, NEW w, Kept(t, f, w), NEW d, d = t.pages, NEW g, GrownTo(t, g, d), t.root \in Nat, ~Hollow(t),
         NEW v, v.pages = w.pages \cup {d}
  PROVE  GrownKept(t, g, f, w, v, d)
<1>1. /\ t.pages \in Nat /\ w.pages \subseteq 0 .. t.pages - 1
      /\ DOMAIN t.mem \subseteq w.pages /\ t.dirty \subseteq DOMAIN t.mem
      /\ w.pages \subseteq DOMAIN View(t, f)
      /\ t.root \in DOMAIN t.mem
      /\ \A q \in DOMAIN t.mem \ t.dirty : (q = t.root /\ Hollow(t)) \/ (q \in DOMAIN f /\ t.mem[q] = f[q])
  BY Zenon DEF Kept
<1>2. /\ IsTree(g) /\ DOMAIN g.mem = {d} \cup DOMAIN t.mem /\ g.mem[d] = OneKid(t.root)
      /\ \A q \in DOMAIN t.mem : q /= d => g.mem[q] = t.mem[q]
      /\ g.dirty = t.dirty \cup {d} /\ g.root = d /\ g.num = t.num /\ g.pages = d + 1
  BY Zenon DEF GrownTo
<1>3. d \in Nat /\ d \notin w.pages /\ d \notin DOMAIN t.mem /\ d /= t.root
  BY <1>1
<1>4. OneKid(t.root).kids[1] = t.root
  BY OneKidIs
<1>5. g.pages \in Nat /\ v.pages \subseteq 0 .. g.pages - 1
  BY <1>1, <1>2, <1>3
<1>6. DOMAIN View(g, f) = DOMAIN g.mem \cup DOMAIN f /\ DOMAIN View(t, f) = DOMAIN t.mem \cup DOMAIN f
  BY ViewDomain
<1>7. v.pages \subseteq DOMAIN View(g, f)
  BY <1>1, <1>2, <1>6
<1>8. d \in DOMAIN View(g, f) /\ View(g, f)[d] = OneKid(t.root)
  BY <1>2, LoadedAt
<1>9. ASSUME NEW q \in w.pages PROVE q \in DOMAIN View(g, f) /\ View(g, f)[q] = View(t, f)[q]
  <2>1. q /= d /\ q \in DOMAIN t.mem \cup DOMAIN f /\ q \in DOMAIN g.mem \cup DOMAIN f
    BY <1>1, <1>2, <1>3, <1>6
  <2>2. View(t, f)[q] = IF q \in DOMAIN t.mem THEN t.mem[q] ELSE f[q]
    BY <2>1, ViewAt
  <2>3. View(g, f)[q] = IF q \in DOMAIN g.mem THEN g.mem[q] ELSE f[q]
    BY <2>1, ViewAt
  <2> QED BY <1>2, <1>6, <2>1, <2>2, <2>3
<1>10. \A q \in DOMAIN g.mem \ g.dirty : (q = g.root /\ Hollow(g)) \/ (q \in DOMAIN f /\ g.mem[q] = f[q])
  BY <1>1, <1>2, <1>3
<1>11. /\ DOMAIN g.mem \subseteq v.pages /\ g.dirty \subseteq DOMAIN g.mem /\ g.root \in DOMAIN g.mem
       /\ (Hollow(g) => g.mem[g.root].kids[1] \in DOMAIN g.mem)
  BY <1>1, <1>2, <1>4
<1>12. Kept(g, f, v)
  BY <1>2, <1>5, <1>7, <1>10, <1>11, Zenon DEF Kept
<1> QED BY <1>3, <1>8, <1>9, <1>12, Zenon DEF GrownKept

GrowsAt(A, B, w, r, root) ==
  /\ r \in Nat /\ r \notin w.pages
  /\ \A q \in w.pages : q \in DOMAIN B /\ B[q] = A[q]
  /\ r \in DOMAIN B /\ B[r] \in Nodes /\ B[r].leaf = FALSE /\ Count(B, r) = 0 /\ KidCount(B, r) = 1 /\ KidAt(B, r, 1) = root

LEMMA GrowBy ==
  ASSUME NEW A, NEW B, NEW root, NEW w, Shape(A, root, w), NEW r, GrowsAt(A, B, w, r, root),
         NEW v, v = GrownPlaces(w, root, r)
  PROVE  Shape(B, r, v) /\ SameHeld(A, w, B, v)
<1>1. r \in Nat /\ r \notin w.pages
  BY DEF GrowsAt
<1>2. \A q \in w.pages : q \in DOMAIN B /\ B[q] = A[q]
  BY DEF GrowsAt
<1>3. r \in DOMAIN B /\ B[r] \in Nodes /\ B[r].leaf = FALSE /\ Count(B, r) = 0 /\ KidCount(B, r) = 1 /\ KidAt(B, r, 1) = root
  BY DEF GrowsAt
<1>4. Shape(B, r, v) /\ (\A it : Held(B, v, it) <=> Held(A, w, it))
  BY <1>1, <1>2, <1>3, Grow
<1> QED BY <1>4, Zenon DEF SameHeld

LEMMA GrowGood ==
  ASSUME NEW t, NEW f, NEW w, NEW its, Good(t, f, w, its), ~Hollow(t), Full(t.mem[t.root]),
         NEW d, d = t.pages, NEW g, GrownTo(t, g, d), NEW v, v = GrownPlaces(w, t.root, d)
  PROVE  Good(g, f, v, its) /\ GrownKept(t, g, f, w, v, d)
<1> DEFINE A == View(t, f)
           B == View(g, f)
           r == t.root
<1>1. Kept(t, f, w) /\ Holding(A, r, w, its) /\ Counted(t, its)
  BY Zenon DEF Good
<1>2. Shape(A, r, w) /\ Sized(A, r, w) /\ Stock(A, w, its)
  BY <1>1, Zenon DEF Holding
<1>3. r \in DOMAIN t.mem
  BY <1>1, Zenon DEF Kept
<1>4. NodeSeen(A, w, r, t.mem[r])
  BY <1>3, Seen
<1>5. r \in w.pages /\ r \in Nat /\ A[r] = t.mem[r] /\ Count(A, r) = Len(t.mem[r].items)
  BY <1>4, Zenon DEF NodeSeen
<1>6. v.pages = w.pages \cup {d}
  BY DEF GrownPlaces
<1>7. GrownKept(t, g, f, w, v, d)
  BY <1>1, <1>5, <1>6, GrowKept
<1>8. /\ Kept(g, f, v) /\ d \in DOMAIN B /\ B[d] = OneKid(r) /\ d \in Nat /\ d \notin w.pages
      /\ \A q \in w.pages : q \in DOMAIN B /\ B[q] = A[q]
  BY <1>7, Zenon DEF GrownKept
<1>9. g.root = d /\ g.num = t.num
  BY DEF GrownTo
<1>m. A = View(t, f) /\ B = View(g, f) /\ r = t.root
  OBVIOUS
<1> HIDE DEF A, B, r
<1>10. B[d] \in Nodes /\ B[d].leaf = FALSE /\ Count(B, d) = 0 /\ KidCount(B, d) = 1 /\ KidAt(B, d, 1) = r
  BY <1>5, <1>8, OneKidIs DEF Count, KidCount, KidAt
<1>11. Shape(B, d, v) /\ SameHeld(A, w, B, v)
  <2>1. v = GrownPlaces(w, r, d)
    BY <1>m
  <2>2. GrowsAt(A, B, w, d, r)
    BY <1>8, <1>10 DEF GrowsAt
  <2> QED BY <1>2, <2>1, <2>2, GrowBy
<1>12. Sized(B, d, v)
  <2> SUFFICES ASSUME NEW q \in v.pages PROVE Count(B, q) <= MaxKeys /\ (q /= d => Count(B, q) >= MinDegree - 1)
    BY DEF Sized
  <2>0. MaxKeys \in Nat /\ MinDegree \in Nat /\ 3 * MinDegree <= MaxKeys
    BY Numbers
  <2>1. CASE q = d
    BY <1>10, <2>0, <2>1
  <2>2. CASE q = r
    <3>1. Count(B, q) = Count(A, r) /\ Count(A, r) <= MaxKeys
      BY <1>2, <1>5, <1>8, <2>2 DEF Sized, Count
    <3>2. Count(A, r) >= MaxKeys
      BY <1>m, <1>5 DEF Full
    <3>3. Count(A, r) \in Nat
      BY <1>4, <1>5 DEF NodeSeen, r
    <3> QED BY <2>0, <3>1, <3>2, <3>3
  <2>3. CASE q /= d /\ q /= r
    <3>1. q \in w.pages
      BY <1>6, <2>3
    <3>2. Count(B, q) = Count(A, q)
      BY <1>8, <3>1 DEF Count
    <3> QED BY <1>2, <2>3, <3>1, <3>2 DEF Sized
  <2> QED BY <2>1, <2>2, <2>3
<1>13. Holding(B, d, v, its)
  BY <1>2, <1>11, <1>12, Zenon DEF Holding, Stock, SameHeld
<1>14. Counted(g, its)
  BY <1>1, <1>9 DEF Counted
<1>15. Good(g, f, v, its)
  BY <1>m, <1>8, <1>9, <1>13, <1>14, Zenon DEF Good
<1> QED BY <1>7, <1>15

LEMMA RootFor ==
  ASSUME NEW A, NEW root, NEW w, Shape(A, root, w), NEW k \in Int, 1 <= k, k <= KeyCount
  PROVE  w.lo[root] < k /\ k < w.hi[root]
<1>1. w.lo[root] = 0 /\ w.hi[root] = KeyCount + 1
  BY DEF Shape, Topped
<1> QED BY <1>1, BTreeCallsAssumption

LEMMA GrownSplits ==
  ASSUME NEW t, NEW f, NEW w, NEW its, Good(t, f, w, its), ~Hollow(t), NEW r, r = t.root, Full(t.mem[r]),
         NEW d, d = t.pages, NEW g, GrownTo(t, g, d), NEW v, v = GrownPlaces(w, r, d),
         NEW k \in Int, 1 <= k, k <= KeyCount, NEW n, n = g.mem[d]
  PROVE  SplitAt(View(g, f), g, f, v, its, d, k, n, 1, r) /\ Count(View(g, f), d) = 0
<1> DEFINE A == View(t, f)
           B == View(g, f)
<1>m. A = View(t, f) /\ B = View(g, f)
  OBVIOUS
<1>1. Good(g, f, v, its) /\ GrownKept(t, g, f, w, v, d)
  BY GrowGood
<1>2. Kept(t, f, w) /\ Holding(A, r, w, its)
  BY Zenon DEF Good
<1> HIDE DEF A, B
<1>3. r \in DOMAIN t.mem
  BY <1>2, Zenon DEF Kept
<1>4. /\ Kept(g, f, v) /\ B[d] = OneKid(r) /\ d \in Nat /\ d \notin w.pages /\ d /= r
      /\ \A q \in w.pages : B[q] = A[q]
  BY <1>1, <1>m, Zenon DEF GrownKept
<1>5. DOMAIN g.mem = {d} \cup DOMAIN t.mem /\ g.mem[r] = t.mem[r] /\ g.mem[d] = OneKid(r) /\ g.root = d
  BY <1>3, <1>4 DEF GrownTo
<1>6. Holding(B, d, v, its)
  BY <1>1, <1>5, <1>m, Zenon DEF Good
<1>7. Shape(B, d, v) /\ Sized(B, d, v)
  BY <1>6, Zenon DEF Holding
<1>8. d \in DOMAIN g.mem /\ r \in DOMAIN g.mem
  BY <1>3, <1>5
<1>9. NodeSeen(B, v, d, n) /\ NodeSeen(B, v, r, g.mem[r])
  BY <1>m, <1>1, <1>8, Seen
<1>10. r \in Nat /\ n = OneKid(r)
  BY <1>5, <1>9 DEF NodeSeen
<1>11. n.leaf = FALSE /\ n.kids[1] = r /\ Len(n.items) = 0 /\ Len(n.kids) = 1
  <2>0. r \in Nat
    BY <1>10
  <2>1. OneKid(r).leaf = FALSE /\ OneKid(r).kids[1] = r /\ Len(OneKid(r).items) = 0 /\ Len(OneKid(r).kids) = 1
    BY <2>0, OneKidIs
  <2>2. n = OneKid(r)
    BY <1>10
  <2> QED BY <2>1, <2>2
<1>12. Count(B, d) = 0 /\ KidCount(B, d) = 1 /\ KidAt(B, d, 1) = r
  BY <1>4, <1>10, <1>11 DEF Count, KidCount, KidAt
<1>13. ~Full(n)
  BY <1>11, BTreeAssumption DEF Full
<1>14. Full(g.mem[r])
  BY <1>5
<1>15. v.lo[d] < k /\ k < v.hi[d]
  BY <1>7, RootFor
<1>16. v.lo[r] < k /\ k < v.hi[r]
  <2>1. r \in v.pages /\ r /= d /\ v.lo[r] = w.lo[r] /\ v.hi[r] = w.hi[r]
    <3>1. r \in w.pages
      BY <1>3, <1>2, LoadedIn
    <3> QED BY <1>4, <3>1 DEF GrownPlaces
  <2>2. Shape(A, r, w)
    BY <1>2, Zenon DEF Holding
  <2>3. w.lo[r] < k /\ k < w.hi[r]
    BY <2>2, RootFor
  <2> QED BY <2>1, <2>3
<1>17. IsTree(g) /\ g.pages \in Nat /\ v.pages \subseteq 0 .. g.pages - 1
  BY <1>4, Zenon DEF Kept
<1>18. r = KidAt(B, d, 1) /\ 1 \in 1 .. KidCount(B, d) /\ r = n.kids[1]
  BY <1>11, <1>12
<1>19. SplitAt(B, g, f, v, its, d, k, n, 1, r)
  <2>1. Shape(B, g.root, v) /\ Sized(B, g.root, v)
    BY <1>5, <1>7
  <2>2. r /= g.root
    BY <1>4, <1>5
  <2> QED BY <1>1, <1>4, <1>8, <1>9, <1>11, <1>13, <1>14, <1>15, <1>16, <1>17, <1>18, <2>1, <2>2, Zenon DEF SplitAt
<1> QED BY <1>m, <1>12, <1>19

LEMMA RoomyWritten ==
  ASSUME NEW t
  PROVE  Roomy(t) = IF Full(t.mem[t.root]) THEN Split(GrownTree(t), t.pages, 1) ELSE t
BY Zenon DEF Roomy, GrownTree, OneKid

LEMMA RootHere ==
  ASSUME NEW t, NEW f, NEW w, NEW its, Good(t, f, w, its), NEW k \in Int, 1 <= k, k <= KeyCount
  PROVE  Here(t, w, t.root, k)
<1>1. Kept(t, f, w) /\ Holding(View(t, f), t.root, w, its)
  BY Zenon DEF Good
<1>2. t.root \in DOMAIN t.mem
  BY <1>1, Zenon DEF Kept
<1>3. Shape(View(t, f), t.root, w)
  BY <1>1, Zenon DEF Holding
<1> DEFINE A == View(t, f)
<1> HIDE DEF A
<1>4. Shape(A, t.root, w)
  BY <1>3 DEF A
<1>5. w.lo[t.root] < k /\ k < w.hi[t.root]
  BY <1>4, RootFor
<1> QED BY <1>2, <1>5 DEF Here

(* A root with one item and room, when splitting it has made it so. *)
RootSplit(u, f, v, its, d) ==
  Good(u, f, v, its) /\ u.root = d /\ ~Hollow(u) /\ d \in DOMAIN u.mem /\ ~Full(u.mem[d])

LEMMA RoomySplit ==
  ASSUME NEW t, NEW f, NEW w, NEW its, Good(t, f, w, its), ~Hollow(t), Full(t.mem[t.root]),
         NEW k \in Int, 1 <= k, k <= KeyCount, NEW d, d = t.pages, NEW u, u = Split(GrownTree(t), d, 1)
  PROVE  \E v : RootSplit(u, f, v, its, d)
<1> DEFINE g == GrownTree(t)
           r == t.root
           v == GrownPlaces(w, r, d)
           n == g.mem[d]
           B == View(g, f)
           C == View(u, f)
           e == g.pages
<1>m. /\ g = GrownTree(t) /\ r = t.root /\ v = GrownPlaces(w, r, d) /\ n = g.mem[d] /\ B = View(g, f)
      /\ C = View(u, f) /\ e = g.pages
  OBVIOUS
<1> HIDE DEF g, r, v, n, B, C, e
<1>1. IsTree(t)
  BY Zenon DEF Good, Kept
<1>2. GrownTo(t, g, d)
  BY <1>m, <1>1, GrownTreeIs
<1>3. g.root = d
  BY <1>2 DEF GrownTo
<1>4. Full(t.mem[r])
  BY <1>m
<1>5. SplitAt(View(g, f), g, f, v, its, d, k, n, 1, r) /\ Count(View(g, f), d) = 0
  BY <1>m, <1>2, <1>4, GrownSplits
<1>6. u = Split(g, d, 1)
  BY <1>m
<1>7. PICK x : SplitTo(g, u, f, v, its, x, d, r, e, k)
  BY <1>m, <1>5, <1>6, SplitGood
<1>8. /\ Good(u, f, x, its) /\ SplitKept(B, C, d, v, x, d, r, e, k) /\ DOMAIN u.mem = {d, r, e} \cup DOMAIN g.mem
      /\ u.root = d /\ ~IsHollow(u.mem[d])
  BY <1>m, <1>3, <1>7 DEF SplitTo
<1>9. Count(C, d) = Count(B, d) + 1
  BY <1>8, Zenon DEF SplitKept
<1>10. Count(C, d) = 1
  BY <1>5, <1>9, <1>m
<1>11. d \in DOMAIN u.mem
  BY <1>8
<1>12. NodeSeen(C, x, d, u.mem[d])
  BY <1>m, <1>8, <1>11, Seen
<1>13. Len(u.mem[d].items) = 1 /\ u.mem[d] \in Nodes
  BY <1>10, <1>12 DEF NodeSeen
<1>14. ~Full(u.mem[d])
  <2>1. MaxKeys \in Nat /\ MaxKeys >= 6
    BY BTreeAssumption
  <2> DEFINE z == Len(u.mem[d].items)
  <2>2. z = 1
    BY <1>13
  <2> HIDE DEF z
  <2>3. ~(z >= MaxKeys)
    BY <2>1, <2>2
  <2> QED BY <2>3 DEF Full, z
<1>15. u.mem[d].leaf \in BOOLEAN
  BY <1>13, NodeSeqs
<1>16. ~Hollow(u)
  BY <1>8, <1>15 DEF Hollow, IsHollow
<1>17. RootSplit(u, f, x, its, d)
  BY <1>8, <1>11, <1>14, <1>16, Zenon DEF RootSplit
<1> QED BY <1>17

(* The first round of insert. *)
InsFrom(t, f, its, it) == \E w : Ins(t, f, w, its, t.root, it, it[1], t.mem[t.root])

LEMMA InsFirst ==
  ASSUME NEW u, NEW f, NEW v, NEW its, Good(u, f, v, its), ~Hollow(u), ~Full(u.mem[u.root]), NEW it \in Item
  PROVE  InsFrom(u, f, its, it)
<1> DEFINE k == it[1]
           n == u.mem[u.root]
<1>1. k \in Int /\ 1 <= k /\ k <= KeyCount
  BY KeyIsInt
<1>2. k = it[1] /\ n = u.mem[u.root]
  OBVIOUS
<1> HIDE DEF k, n
<1>3. Here(u, v, u.root, k)
  BY <1>1, RootHere
<1>4. Ins(u, f, v, its, u.root, it, k, n)
  BY <1>1, <1>2, <1>3, Zenon DEF Ins
<1> QED BY <1>2, <1>4, Zenon DEF InsFrom

LEMMA RoomyIs ==
  ASSUME NEW t, NEW f, NEW w, NEW its, Good(t, f, w, its), ~Hollow(t), NEW it \in Item, NEW u, u = Roomy(t)
  PROVE  InsFrom(u, f, its, it)
<1>1. u = IF Full(t.mem[t.root]) THEN Split(GrownTree(t), t.pages, 1) ELSE t
  BY RoomyWritten
<1>2. CASE ~Full(t.mem[t.root])
  <2>1. u = t
    BY <1>1, <1>2
  <2> QED BY <1>2, <2>1, InsFirst
<1>3. CASE Full(t.mem[t.root])
  <2>1. u = Split(GrownTree(t), t.pages, 1)
    BY <1>1, <1>3
  <2> DEFINE k == it[1]
             d == t.pages
  <2>2. k \in Int /\ 1 <= k /\ k <= KeyCount
    BY KeyIsInt
  <2>3. d = t.pages
    OBVIOUS
  <2> HIDE DEF k, d
  <2>4. PICK v : RootSplit(u, f, v, its, d)
    BY <1>3, <2>1, <2>2, <2>3, RoomySplit
  <2>5. Good(u, f, v, its) /\ ~Hollow(u) /\ ~Full(u.mem[u.root])
    BY <2>4 DEF RootSplit
  <2> QED BY <2>5, InsFirst
<1> QED BY <1>2, <1>3

(* del begins at a root that is not hollow. *)
PlainFrom(t, f, its, k) == \E w : Plain(t, f, w, its, t.root, k)

LEMMA PlainFirst ==
  ASSUME NEW t, NEW f, NEW w, NEW its, Good(t, f, w, its), ~Hollow(t), NEW k \in Int, 1 <= k, k <= KeyCount
  PROVE  PlainFrom(t, f, its, k)
<1> DEFINE A == View(t, f)
           n == t.mem[t.root]
<1>m. A = View(t, f) /\ n = t.mem[t.root]
  OBVIOUS
<1> HIDE DEF A, n
<1>1. Kept(t, f, w) /\ Holding(A, t.root, w, its)
  BY <1>m, Zenon DEF Good
<1>2. Shape(A, t.root, w) /\ Sized(A, t.root, w)
  BY <1>1, Zenon DEF Holding
<1>3. Here(t, w, t.root, k)
  BY RootHere
<1>4. SameBelow(A, A, w, t.root) /\ SameKids(A, A, w) /\ Deep(A, t, t.root)
  BY DEF SameBelow, SameKids, Deep
<1>5. Dig(A, t, f, w, t.root, k, n)
  BY <1>m, <1>1, <1>2, <1>3, <1>4, Zenon DEF Dig
<1>6. Plain(t, f, w, its, t.root, k)
  BY <1>m, <1>5, Zenon DEF Plain
<1> QED BY <1>6, Zenon DEF PlainFrom

(* The hollow root r is gone, and c, its only kid, is the root. *)
ShrunkTo(t, u, r, c) ==
  /\ IsTree(u) /\ DOMAIN u.mem = DOMAIN t.mem \ {r} /\ (\A q \in DOMAIN u.mem : u.mem[q] = t.mem[q])
  /\ u.dirty = t.dirty \ {r} /\ u.root = c /\ u.num = t.num /\ u.pages = t.pages

LEMMA ShrunkWritten ==
  ASSUME NEW t, IsTree(t), Hollow(t), NEW u, u = Shrunk(t), NEW r, r = t.root, NEW c, c = t.mem[r].kids[1]
  PROVE  ShrunkTo(t, u, r, c)
<1> DEFINE m == Restrict(t.mem, DOMAIN t.mem \ {r})
           d == t.dirty \ {r}
<1>1. u = [t EXCEPT !.root = c, !.mem = m, !.dirty = d]
  BY DEF Shrunk
<1>2. DOMAIN m = DOMAIN t.mem \ {r} /\ \A q \in DOMAIN m : m[q] = t.mem[q]
  BY DEF Restrict
<1>3. d = t.dirty \ {r}
  OBVIOUS
<1> HIDE DEF m, d
<1>4. u = [mem |-> m, dirty |-> d, root |-> c, num |-> t.num, pages |-> t.pages]
  BY <1>1 DEF IsTree
<1>5. IsTree(u) /\ u.mem = m /\ u.dirty = d /\ u.root = c /\ u.num = t.num /\ u.pages = t.pages
  BY <1>4 DEF IsTree
<1> QED BY <1>2, <1>3, <1>5 DEF ShrunkTo

LEMMA ShrunkView ==
  ASSUME NEW t, NEW f, NEW w, Kept(t, f, w), NEW u, NEW r, NEW c, ShrunkTo(t, u, r, c)
  PROVE  \A q \in w.pages \ {r} : q \in DOMAIN View(u, f) /\ View(u, f)[q] = View(t, f)[q]
<1> SUFFICES ASSUME NEW q \in w.pages \ {r} PROVE q \in DOMAIN View(u, f) /\ View(u, f)[q] = View(t, f)[q]
  OBVIOUS
<1>1. w.pages \subseteq DOMAIN View(t, f)
  BY DEF Kept
<1>2. q \in DOMAIN t.mem \cup DOMAIN f
  BY <1>1, ViewDomain
<1>3. DOMAIN u.mem = DOMAIN t.mem \ {r} /\ (q \in DOMAIN u.mem => u.mem[q] = t.mem[q])
  BY DEF ShrunkTo
<1>4. q \in DOMAIN u.mem \cup DOMAIN f /\ (q \in DOMAIN u.mem <=> q \in DOMAIN t.mem)
  BY <1>2, <1>3
<1>5. View(u, f)[q] = IF q \in DOMAIN u.mem THEN u.mem[q] ELSE f[q]
  BY <1>4, ViewAt
<1>6. View(t, f)[q] = IF q \in DOMAIN t.mem THEN t.mem[q] ELSE f[q]
  BY <1>2, ViewAt
<1>7. q \in DOMAIN View(u, f)
  BY <1>4, ViewDomain
<1> QED BY <1>3, <1>4, <1>5, <1>6, <1>7

LEMMA ShrunkKept ==
  ASSUME NEW t, NEW f, NEW w, Kept(t, f, w), Hollow(t), NEW r, r = t.root, NEW c, c = t.mem[r].kids[1], c /= r,
         NEW u, ShrunkTo(t, u, r, c), NEW v, v.pages = w.pages \ {r}, ~Hollow(u)
  PROVE  Kept(u, f, v)
<1>1. \A q \in w.pages \ {r} : q \in DOMAIN View(u, f)
  BY ShrunkView
<1>2. /\ t.pages \in Nat /\ w.pages \subseteq 0 .. t.pages - 1 /\ DOMAIN t.mem \subseteq w.pages
      /\ t.dirty \subseteq DOMAIN t.mem /\ c \in DOMAIN t.mem
      /\ \A q \in DOMAIN t.mem \ t.dirty : (q = r /\ Hollow(t)) \/ (q \in DOMAIN f /\ t.mem[q] = f[q])
  BY DEF Kept
<1>3. /\ IsTree(u) /\ DOMAIN u.mem = DOMAIN t.mem \ {r} /\ (\A q \in DOMAIN u.mem : u.mem[q] = t.mem[q])
      /\ u.dirty = t.dirty \ {r} /\ u.root = c /\ u.pages = t.pages
  BY DEF ShrunkTo
<1>4. \A q \in DOMAIN u.mem \ u.dirty : q \in DOMAIN f /\ u.mem[q] = f[q]
  BY <1>2, <1>3
<1>5. DOMAIN u.mem \subseteq v.pages /\ u.dirty \subseteq DOMAIN u.mem /\ v.pages \subseteq DOMAIN View(u, f)
  BY <1>1, <1>2, <1>3
<1>6. u.root \in DOMAIN u.mem /\ u.pages \in Nat /\ v.pages \subseteq 0 .. u.pages - 1
  BY <1>2, <1>3
<1> QED BY <1>3, <1>4, <1>5, <1>6 DEF Kept

LEMMA ShrinkBy ==
  ASSUME NEW A, NEW B, NEW r, NEW w, NEW its, Holding(A, r, w, its), A[r].leaf = FALSE, Count(A, r) = 0,
         NEW v, v = ShrunkPlaces(w, r), \A q \in w.pages \ {r} : q \in DOMAIN B /\ B[q] = A[q],
         NEW c, c = KidAt(A, r, 1)
  PROVE  Holding(B, c, v, its)
<1>1. Shape(A, r, w) /\ Sized(A, r, w) /\ Stock(A, w, its)
  BY Zenon DEF Holding
<1>2. v.pages = w.pages \ {r}
  BY DEF ShrunkPlaces
<1>3. \A q \in v.pages : q \in DOMAIN B /\ B[q] = A[q]
  BY <1>2
<1>4. Shrunken(A, B, w, v, c)
  <2>1. ShrinksAt(A, B, v, r)
    BY <1>3 DEF ShrinksAt
  <2> QED BY <1>1, <2>1, Shrink
<1>5. Sized(B, c, v)
  BY <1>1, <1>2, <1>3 DEF Sized, Count
<1>6. Stock(B, v, its)
  BY <1>1, <1>4, Zenon DEF Stock, Shrunken
<1> QED BY <1>4, <1>5, <1>6, Zenon DEF Holding, Shrunken

LEMMA ShrunkGood ==
  ASSUME NEW t, NEW f, NEW w, NEW its, Good(t, f, w, its), Hollow(t), NEW u, u = Shrunk(t)
  PROVE  ~Hollow(u) /\ \E v : Good(u, f, v, its)
<1> DEFINE A == View(t, f)
           B == View(u, f)
           r == t.root
           n == t.mem[r]
           c == n.kids[1]
           v == ShrunkPlaces(w, r)
<1>m. /\ A = View(t, f) /\ B = View(u, f) /\ r = t.root /\ n = t.mem[r] /\ c = n.kids[1] /\ v = ShrunkPlaces(w, r)
  OBVIOUS
<1> HIDE DEF A, B, r, n, c, v
<1>1. Kept(t, f, w) /\ Holding(A, r, w, its) /\ Counted(t, its)
  BY <1>m, Zenon DEF Good
<1>2. IsTree(t) /\ r \in DOMAIN t.mem /\ c \in DOMAIN t.mem
  BY <1>1, <1>m DEF Kept
<1>3. NodeSeen(A, w, r, n) /\ NodeSeen(A, w, c, t.mem[c])
  BY <1>m, <1>2, Seen
<1>4. n.leaf = FALSE /\ n.items = <<>>
  <2>1. ~n.leaf /\ n.items = <<>>
    BY <1>m, Zenon DEF Hollow
  <2>2. n.leaf \in BOOLEAN
    BY <1>3, NodeSeqs DEF NodeSeen
  <2> QED BY <2>1, <2>2
<1>5. A[r] = n /\ A[c] = t.mem[c] /\ A[r].leaf = FALSE /\ Count(A, r) = 0 /\ c = KidAt(A, r, 1) /\ KidCount(A, r) = 1
  <2>1. A[r] = n /\ A[c] = t.mem[c] /\ Count(A, r) = Len(n.items) /\ KidCount(A, r) = Len(n.kids)
        /\ Len(n.kids) = IF n.leaf THEN 0 ELSE Len(n.items) + 1
    BY <1>3 DEF NodeSeen
  <2>2. Len(n.items) = 0
    BY <1>4
  <2> QED BY <1>m, <1>4, <2>1, <2>2 DEF KidAt
<1>6. Shape(A, r, w) /\ Sized(A, r, w)
  BY <1>1, Zenon DEF Holding
<1>7. r \in w.pages /\ c \in w.pages
  BY <1>3 DEF NodeSeen
<1>8. KidBelow(A, r, w, r, 1, c)
  <2>1. 1 \in 1 .. KidCount(A, r)
    BY <1>5
  <2> QED BY <1>5, <1>6, <1>7, <2>1, KidIsBelow
<1>9. c /= r
  BY <1>8 DEF KidBelow
<1>10. ShrunkTo(t, u, r, c)
  BY <1>m, <1>2, ShrunkWritten
<1>11. \A q \in w.pages \ {r} : q \in DOMAIN B /\ B[q] = A[q]
  BY <1>m, <1>1, <1>10, ShrunkView
<1>12. Holding(B, c, v, its)
  BY <1>m, <1>1, <1>5, <1>11, ShrinkBy
<1>13. u.mem[c] = t.mem[c] /\ u.root = c /\ u.num = t.num
  BY <1>2, <1>9, <1>10 DEF ShrunkTo
<1>14. Count(A, c) >= MinDegree - 1
  BY <1>6, <1>7, <1>9 DEF Sized
<1>15. Len(t.mem[c].items) = Count(A, c) /\ Count(A, c) \in Nat
  BY <1>3 DEF NodeSeen
<1>16. Len(t.mem[c].items) /= 0
  <2>1. MinDegree \in Nat /\ MinDegree >= 2
    BY Numbers
  <2> QED BY <1>14, <1>15, <2>1
<1>17. t.mem[c].items /= <<>>
  BY <1>16
<1>18. ~Hollow(u)
  BY <1>13, <1>17, Zenon DEF Hollow
<1>19. v.pages = w.pages \ {r}
  BY <1>m DEF ShrunkPlaces
<1>20. Kept(u, f, v)
  BY <1>m, <1>1, <1>9, <1>10, <1>18, <1>19, ShrunkKept
<1>21. Counted(u, its)
  BY <1>1, <1>13 DEF Counted
<1>22. Good(u, f, v, its)
  BY <1>m, <1>12, <1>13, <1>20, <1>21, Zenon DEF Good
<1> QED BY <1>18, <1>22

LEMMA ShrunkIs ==
  ASSUME NEW t, NEW f, NEW w, NEW its, Good(t, f, w, its), NEW u, u = Shrunk(t), NEW k \in Int, 1 <= k, k <= KeyCount
  PROVE  PlainFrom(u, f, its, k)
<1>1. CASE Hollow(t)
  <2>1. ~Hollow(u) /\ \E v : Good(u, f, v, its)
    BY <1>1, ShrunkGood
  <2>2. PICK v : Good(u, f, v, its)
    BY <2>1
  <2> QED BY <2>1, <2>2, PlainFirst
<1>2. CASE ~Hollow(t)
  <2>1. u = t
    BY <1>2 DEF Shrunk
  <2> QED BY <1>2, <2>1, PlainFirst
<1> QED BY <1>1, <1>2

(* The file g holds a tree of the items its. *)
Filed(g, w, its) ==
  /\ Holding(g.pages, g.root, w, its) /\ IsFiniteSet(its) /\ g.num = Cardinality(its)
  /\ g.count \in Nat /\ w.pages \subseteq 0 .. g.count - 1
  /\ ~IsHollow(g.pages[g.root])
FileOK(g, its) == \E w : Filed(g, w, its)

LEMMA FiledIs ==
  ASSUME NEW g, NEW w, NEW its, Filed(g, w, its)
  PROVE  /\ NodeSeen(g.pages, w, g.root, g.pages[g.root]) /\ g.root \in Nat
         /\ \A q \in w.pages : q \in DOMAIN g.pages
<1> DEFINE A == g.pages
           r == g.root
<1>m. A = g.pages /\ r = g.root
  OBVIOUS
<1> HIDE DEF A, r
<1>1. Shape(A, r, w) /\ Sized(A, r, w)
  BY <1>m, Zenon DEF Filed, Holding
<1>2. r \in w.pages
  BY <1>1, Zenon DEF Shape, Topped
<1>3. NodeSeen(A, w, r, A[r])
  BY <1>1, <1>2, SeenIn
<1>4. \A q \in w.pages : q \in DOMAIN A
  BY <1>1, Zenon DEF Shape, NodesOK
<1>5. r \in Nat
  BY <1>3, Zenon DEF NodeSeen
<1> QED BY <1>m, <1>3, <1>4, <1>5

(* What commit writes of a node is the node: only a root may have no       *)
(* items, and then it is a leaf.                                           *)
LEMMA WrittenSame ==
  ASSUME NEW t, NEW f, NEW w, NEW its, Good(t, f, w, its), ~Hollow(t), NEW q \in DOMAIN t.mem
  PROVE  Written(t.mem[q]) = t.mem[q]
<1> DEFINE A == View(t, f)
           n == t.mem[q]
<1>m. A = View(t, f) /\ n = t.mem[q]
  OBVIOUS
<1> HIDE DEF A, n
<1>1. NodeSeen(A, w, q, n)
  BY <1>m, Seen
<1>2. Sized(A, t.root, w)
  BY <1>m, Zenon DEF Good, Holding
<1>3. q \in w.pages /\ Count(A, q) = Len(n.items) /\ n \in Nodes /\ Len(n.kids) = IF n.leaf THEN 0 ELSE Len(n.items) + 1
  BY <1>1 DEF NodeSeen
<1>4. n.items \in Seq(Item) /\ n.kids \in Seq(Nat) /\ n.leaf \in BOOLEAN /\ n = Node(n.leaf, n.items, n.kids)
  BY <1>3, NodeSeqs
<1>5. CASE n.items /= <<>>
  BY <1>m, <1>5 DEF Written
<1>6. CASE n.items = <<>>
  <2>1. Len(n.items) = 0
    BY <1>6
  <2>2. q = t.root
    <3>1. q /= t.root => Count(A, q) >= MinDegree - 1
      BY <1>2, <1>3 DEF Sized
    <3>2. MinDegree \in Nat /\ MinDegree >= 2
      BY Numbers
    <3> QED BY <1>3, <2>1, <3>1, <3>2
  <2>3. n.leaf
    BY <1>m, <1>6, <2>2 DEF Hollow
  <2>4. Len(n.kids) = 0
    BY <1>3, <2>3
  <2>5. n.kids = <<>>
    BY <1>4, <2>4
  <2> DEFINE l == n.leaf
             s == n.items
             c == n.kids
  <2>6. n = Node(l, s, c) /\ c = <<>>
    BY <1>4, <2>5
  <2> HIDE DEF l, s, c
  <2>7. [n EXCEPT !.kids = <<>>] = n
    BY <2>6 DEF Node
  <2> QED BY <1>m, <1>6, <2>7 DEF Written
<1> QED BY <1>5, <1>6

CommitTo(t, f, g) ==
  /\ IsOver(g.pages, [p \in t.dirty |-> Written(t.mem[p])], f.pages)
  /\ g.root = (IF t.root = NoPage THEN f.root ELSE t.root) /\ g.num = t.num /\ g.count = t.pages

LEMMA CommitIs ==
  ASSUME NEW t, NEW f, NEW g, g = Commit(t, f)
  PROVE  CommitTo(t, f, g)
<1> DEFINE h == [p \in t.dirty |-> Written(t.mem[p])]
           m == h ++ f.pages
           r == IF t.root = NoPage THEN f.root ELSE t.root
<1>1. g = [pages |-> m, root |-> r, num |-> t.num, count |-> t.pages]
  BY DEF Commit
<1>2. IsOver(m, h, f.pages)
  BY OverIs
<1> HIDE DEF m, r
<1>3. g.pages = m /\ g.root = r /\ g.num = t.num /\ g.count = t.pages
  BY <1>1
<1> QED BY <1>2, <1>3 DEF CommitTo, r

(* The pages of the file are then those of the tree. *)
PagesOf(g, A, root, w) ==
  /\ g.root = root /\ root /= NoPage
  /\ \A q \in w.pages : q \in DOMAIN g.pages /\ g.pages[q] = A[q]

LEMMA CommitPages ==
  ASSUME NEW t, NEW f, NEW w, NEW its, Good(t, f.pages, w, its), ~Hollow(t), NEW g, CommitTo(t, f, g)
  PROVE  PagesOf(g, View(t, f.pages), t.root, w)
<1> DEFINE h == [p \in t.dirty |-> Written(t.mem[p])]
           A == View(t, f.pages)
<1>m. A = View(t, f.pages)
  OBVIOUS
<1>1. Kept(t, f.pages, w)
  BY Zenon DEF Good
<1>2. t.root \in w.pages /\ t.root \in DOMAIN t.mem
  BY <1>1, LoadedIn DEF Kept
<1>3. t.root /= NoPage
  <2>1. NodeSeen(View(t, f.pages), w, t.root, t.mem[t.root])
    BY <1>2, Seen
  <2>2. t.root \in Nat
    BY <2>1, Zenon DEF NodeSeen
  <2> QED BY <2>2 DEF NoPage
<1>4. g.root = t.root
  BY <1>3 DEF CommitTo
<1>5. ASSUME NEW q \in w.pages PROVE q \in DOMAIN g.pages /\ g.pages[q] = A[q]
  <2>1. q \in DOMAIN t.mem \cup DOMAIN f.pages
    BY <1>1, ViewDomain DEF Kept
  <2>2. A[q] = IF q \in DOMAIN t.mem THEN t.mem[q] ELSE f.pages[q]
    BY <2>1, ViewAt
  <2>3. DOMAIN h = t.dirty
    OBVIOUS
  <2>4. t.dirty \subseteq DOMAIN t.mem /\ (q \in DOMAIN t.mem \ t.dirty => q \in DOMAIN f.pages /\ t.mem[q] = f.pages[q])
    BY <1>1 DEF Kept
  <2>5. q \in DOMAIN g.pages /\ g.pages[q] = IF q \in t.dirty THEN h[q] ELSE f.pages[q]
    <3>1. IsOver(g.pages, h, f.pages)
      BY DEF CommitTo
    <3> HIDE DEF h
    <3> QED BY <2>1, <2>3, <2>4, <3>1 DEF IsOver
  <2>6. CASE q \in t.dirty
    <3>1. h[q] = Written(t.mem[q])
      BY <2>6
    <3>2. q \in DOMAIN t.mem
      BY <2>4, <2>6
    <3>3. Written(t.mem[q]) = t.mem[q]
      BY <3>2, WrittenSame
    <3> QED BY <2>2, <2>5, <2>6, <3>1, <3>2, <3>3
  <2>7. CASE q \notin t.dirty
    <3>1. g.pages[q] = f.pages[q]
      BY <2>5, <2>7
    <3> QED BY <2>2, <2>4, <2>5, <2>7, <3>1
  <2> QED BY <2>6, <2>7
<1> QED BY <1>m, <1>3, <1>4, <1>5 DEF PagesOf

LEMMA CommitFiled ==
  ASSUME NEW t, NEW f, NEW w, NEW its, Good(t, f.pages, w, its), ~Hollow(t), NEW g, CommitTo(t, f, g)
  PROVE  Filed(g, w, its)
<1> DEFINE A == View(t, f.pages)
           B == g.pages
           r == t.root
<1>m. A = View(t, f.pages) /\ B = g.pages /\ r = t.root
  OBVIOUS
<1>1. g.root = r /\ \A q \in w.pages : q \in DOMAIN B /\ B[q] = A[q]
  <2>1. PagesOf(g, View(t, f.pages), t.root, w)
    BY CommitPages
  <2> QED BY <1>m, <2>1 DEF PagesOf
<1>2. Kept(t, f.pages, w) /\ Holding(A, r, w, its) /\ Counted(t, its)
  BY Zenon DEF Good
<1>a. r \in DOMAIN t.mem /\ t.pages \in Nat /\ w.pages \subseteq 0 .. t.pages - 1
  BY <1>2 DEF Kept
<1>b. r \in w.pages /\ A[r] = t.mem[r]
  BY <1>2, <1>a, LoadedIn
<1> HIDE DEF A, B, r
<1>3. Holding(B, r, w, its)
  BY <1>1, <1>2, SameHolding
<1>4. g.num = t.num /\ g.count = t.pages
  BY DEF CommitTo
<1>5. IsFiniteSet(its) /\ g.num = Cardinality(its)
  BY <1>2, <1>4 DEF Counted
<1>6. B[r] = t.mem[r]
  BY <1>1, <1>b
<1>7. ~IsHollow(B[r])
  BY <1>m, <1>6, <1>a DEF Hollow, IsHollow
<1> QED BY <1>m, <1>1, <1>3, <1>4, <1>5, <1>7, <1>a, Zenon DEF Filed

(* u is what is left of t after a commit: some of its nodes, unmarked. *)
Left(t, u) ==
  /\ IsTree(u) /\ u.root = t.root /\ u.num = t.num /\ u.pages = t.pages /\ u.dirty = {}
  /\ DOMAIN u.mem \subseteq DOMAIN t.mem /\ t.root \in DOMAIN u.mem
  /\ \A q \in DOMAIN u.mem : u.mem[q] = t.mem[q]

LEMMA LeftGood ==
  ASSUME NEW t, NEW f, NEW w, NEW its, Good(t, f.pages, w, its), ~Hollow(t), NEW g, CommitTo(t, f, g), NEW u, Left(t, u)
  PROVE  Good(u, g.pages, w, its) /\ ~Hollow(u)
<1> DEFINE A == View(t, f.pages)
           B == View(u, g.pages)
           r == t.root
           h == g.pages
<1>m. A = View(t, f.pages) /\ B = View(u, g.pages) /\ r = t.root /\ h = g.pages
  OBVIOUS
<1>1. PagesOf(g, View(t, f.pages), t.root, w)
  BY CommitPages
<1> HIDE DEF A, B, r, h
<1>2. \A q \in w.pages : q \in DOMAIN h /\ h[q] = A[q]
  BY <1>m, <1>1 DEF PagesOf
<1>3. Kept(t, f.pages, w) /\ Holding(A, r, w, its) /\ Counted(t, its)
  BY <1>m, Zenon DEF Good
<1>4. t.pages \in Nat /\ w.pages \subseteq 0 .. t.pages - 1 /\ DOMAIN t.mem \subseteq w.pages /\ r \in DOMAIN t.mem
  BY <1>3, <1>m DEF Kept
<1>5. /\ IsTree(u) /\ u.root = r /\ u.num = t.num /\ u.pages = t.pages /\ u.dirty = {}
      /\ DOMAIN u.mem \subseteq DOMAIN t.mem /\ r \in DOMAIN u.mem
      /\ \A q \in DOMAIN u.mem : u.mem[q] = t.mem[q]
  BY <1>m DEF Left
<1>6. ASSUME NEW q \in DOMAIN t.mem PROVE q \in w.pages /\ A[q] = t.mem[q]
  BY <1>3, <1>m, LoadedIn
<1>7. ASSUME NEW q \in w.pages PROVE q \in DOMAIN B /\ B[q] = A[q]
  <2>1. q \in DOMAIN u.mem \cup DOMAIN h
    BY <1>2
  <2>2. B[q] = IF q \in DOMAIN u.mem THEN u.mem[q] ELSE h[q]
    BY <1>m, <2>1, ViewAt
  <2>3. q \in DOMAIN B
    BY <1>m, <2>1, ViewDomain
  <2>4. q \in DOMAIN u.mem => u.mem[q] = A[q]
    BY <1>5, <1>6
  <2> QED BY <1>2, <2>2, <2>3, <2>4
<1>8. ~Hollow(u)
  BY <1>m, <1>5 DEF Hollow
<1>9. \A q \in DOMAIN u.mem \ u.dirty : (q = u.root /\ Hollow(u)) \/ (q \in DOMAIN h /\ u.mem[q] = h[q])
  <2> SUFFICES ASSUME NEW q \in DOMAIN u.mem PROVE q \in DOMAIN h /\ u.mem[q] = h[q]
    OBVIOUS
  <2>1. q \in DOMAIN t.mem /\ u.mem[q] = t.mem[q]
    BY <1>5
  <2>2. q \in w.pages /\ A[q] = t.mem[q]
    BY <1>6, <2>1
  <2> QED BY <1>2, <2>1, <2>2
<1>10. DOMAIN u.mem \subseteq w.pages /\ w.pages \subseteq DOMAIN B
  BY <1>4, <1>5, <1>7
<1>11. Kept(u, h, w)
  <2>1. u.root \in DOMAIN u.mem /\ u.dirty \subseteq DOMAIN u.mem /\ u.pages \in Nat /\ w.pages \subseteq 0 .. u.pages - 1
    BY <1>4, <1>5
  <2>2. w.pages \subseteq DOMAIN View(u, h)
    BY <1>m, <1>10
  <2> QED BY <1>5, <1>8, <1>9, <1>10, <2>1, <2>2 DEF Kept
<1>12. Holding(B, r, w, its)
  BY <1>3, <1>7, SameHolding
<1>13. Counted(u, its)
  BY <1>3, <1>5 DEF Counted
<1>14. View(u, h) = B
  BY <1>m
<1>15. Good(u, h, w, its)
  BY <1>5, <1>11, <1>12, <1>13, <1>14, Zenon DEF Good
<1> QED BY <1>m, <1>8, <1>15

Unmarked(t) == [t EXCEPT !.dirty = {}]

LEMMA UnmarkedLeft ==
  ASSUME NEW t, NEW f, NEW w, Kept(t, f, w), NEW u, u = Unmarked(t)
  PROVE  Left(t, u)
<1>1. IsTree(t) /\ t.root \in DOMAIN t.mem
  BY DEF Kept
<1> DEFINE m == t.mem
           r == t.root
           n == t.num
           p == t.pages
           e == {}
<1>2. t = [mem |-> m, dirty |-> t.dirty, root |-> r, num |-> n, pages |-> p]
  BY <1>1 DEF IsTree
<1>a. u = [t EXCEPT !.dirty = e]
  BY DEF Unmarked
<1> HIDE DEF m, r, n, p, e
<1>3. u = [mem |-> m, dirty |-> e, root |-> r, num |-> n, pages |-> p]
  BY <1>2, <1>a
<1>4. IsTree(u) /\ u.mem = m /\ u.dirty = e /\ u.root = r /\ u.num = n /\ u.pages = p
  BY <1>3 DEF IsTree
<1> QED BY <1>1, <1>4 DEF Left, m, r, n, p, e

LEMMA UnloadLeft ==
  ASSUME NEW t, NEW f, NEW w, Kept(t, f, w), NEW u, u = Unload(t)
  PROVE  Left(t, u)
<1>1. IsTree(t) /\ t.root \in DOMAIN t.mem
  BY DEF Kept
<1> DEFINE m == t.mem
           r == t.root
           n == t.num
           p == t.pages
           x == Restrict(t.mem, {t.root})
           e == {}
<1>2. t = [mem |-> m, dirty |-> t.dirty, root |-> r, num |-> n, pages |-> p]
  BY <1>1 DEF IsTree
<1>3. u = [t EXCEPT !.mem = x, !.dirty = e]
  BY DEF Unload
<1>4. DOMAIN x = {r} /\ x[r] = t.mem[r]
  BY DEF Restrict
<1> HIDE DEF m, r, n, p, x, e
<1>5. u = [mem |-> x, dirty |-> e, root |-> r, num |-> n, pages |-> p]
  BY <1>1, <1>3, BothSet DEF m, r, n, p
<1>6. IsTree(u) /\ u.mem = x /\ u.dirty = e /\ u.root = r /\ u.num = n /\ u.pages = p
  BY <1>5 DEF IsTree
<1> QED BY <1>1, <1>4, <1>6 DEF Left, m, r, n, p, e

-----------------------------------------------------------------------------
(* Between calls the tree may also be unloaded. *)
Rest(t, g, its) ==
  \/ t = Unloaded(g.num, g.count) /\ FileOK(g, its)
  \/ \E w : Good(t, g.pages, w, its)

LEMMA UnloadedIs ==
  ASSUME NEW n, NEW c
  PROVE  /\ IsTree(Unloaded(n, c)) /\ DOMAIN Unloaded(n, c).mem = {} /\ Unloaded(n, c).dirty = {}
         /\ Unloaded(n, c).root = NoPage /\ Unloaded(n, c).num = n /\ Unloaded(n, c).pages = c
<1>1. DOMAIN <<>> = {}
  OBVIOUS
<1> QED BY <1>1 DEF Unloaded, IsTree

LEMMA UnloadedNotHollow ==
  ASSUME NEW n, NEW c
  PROVE  ~Hollow(Unloaded(n, c))
BY UnloadedIs DEF Hollow

LEMMA GoodRoot ==
  ASSUME NEW t, NEW f, NEW w, NEW its, Good(t, f, w, its)
  PROVE  t.root /= NoPage /\ t.root \in w.pages
<1>1. t.root \in DOMAIN t.mem
  BY Zenon DEF Good, Kept
<1>2. NodeSeen(View(t, f), w, t.root, t.mem[t.root])
  BY <1>1, Seen
<1>3. t.root \in Nat /\ t.root \in w.pages
  BY <1>2, Zenon DEF NodeSeen
<1> QED BY <1>3 DEF NoPage

RootSet(t, r) == [t EXCEPT !.root = r]

LEMMA RootSetIs ==
  ASSUME NEW t, IsTree(t), NEW r, NEW x, x = RootSet(t, r)
  PROVE  IsTree(x) /\ x.mem = t.mem /\ x.dirty = t.dirty /\ x.root = r /\ x.num = t.num /\ x.pages = t.pages
<1> DEFINE m == t.mem
           d == t.dirty
           s == t.root
           n == t.num
           p == t.pages
<1>1. t = [mem |-> m, dirty |-> d, root |-> s, num |-> n, pages |-> p]
  BY DEF IsTree
<1>2. x = [t EXCEPT !.root = r]
  BY DEF RootSet
<1> HIDE DEF m, d, s, n, p
<1>3. x = [mem |-> m, dirty |-> d, root |-> r, num |-> n, pages |-> p]
  BY <1>1, <1>2
<1>4. IsTree(x) /\ x.mem = m /\ x.dirty = d /\ x.root = r /\ x.num = n /\ x.pages = p
  BY <1>3 DEF IsTree
<1> QED BY <1>4 DEF m, d, n, p

(* The root of the file g is loaded. *)
JustRooted(u, g) ==
  /\ IsTree(u) /\ u.dirty = {} /\ u.root = g.root /\ u.num = g.num /\ u.pages = g.count
  /\ DOMAIN u.mem = {g.root} /\ u.mem[g.root] = g.pages[g.root]

LEMMA RootedWritten ==
  ASSUME NEW t, NEW g
  PROVE  Rooted(t, g) = IF t.root /= NoPage THEN t ELSE Load(RootSet(t, g.root), g.pages, {g.root})
BY Zenon DEF Rooted, RootSet

LEMMA RootedUnloaded ==
  ASSUME NEW g, NEW t, t = Unloaded(g.num, g.count), NEW u, u = Rooted(t, g)
  PROVE  JustRooted(u, g)
<1> DEFINE r == g.root
           h == g.pages
           x == RootSet(t, r)
           ps == {r}
<1>1. IsTree(t) /\ DOMAIN t.mem = {} /\ t.dirty = {} /\ t.root = NoPage /\ t.num = g.num /\ t.pages = g.count
  BY UnloadedIs
<1>2. u = Load(x, h, ps)
  BY <1>1, RootedWritten
<1>m. x = RootSet(t, r)
  OBVIOUS
<1> HIDE DEF x, h, ps
<1>3. IsTree(x) /\ x.mem = t.mem /\ x.dirty = t.dirty /\ x.root = r /\ x.num = t.num /\ x.pages = t.pages
  BY <1>1, <1>m, RootSetIs
<1>4. /\ IsTree(u) /\ u.dirty = x.dirty /\ u.root = x.root /\ u.num = x.num /\ u.pages = x.pages
      /\ DOMAIN u.mem = DOMAIN x.mem \cup ps
      /\ \A q \in DOMAIN u.mem : u.mem[q] = IF q \in DOMAIN x.mem THEN x.mem[q] ELSE h[q]
  BY <1>2, <1>3, LoadIs
<1>5. DOMAIN u.mem = {r} /\ u.mem[r] = h[r]
  BY <1>1, <1>3, <1>4 DEF ps
<1> QED BY <1>1, <1>3, <1>4, <1>5 DEF JustRooted, h

LEMMA JustRootedGood ==
  ASSUME NEW g, NEW w, NEW its, Filed(g, w, its), NEW u, JustRooted(u, g)
  PROVE  Good(u, g.pages, w, its) /\ ~Hollow(u)
<1> DEFINE A == g.pages
           B == View(u, A)
           r == g.root
<1>m. A = g.pages /\ B = View(u, A) /\ r = g.root
  OBVIOUS
<1>1. NodeSeen(A, w, r, A[r]) /\ \A q \in w.pages : q \in DOMAIN A
  BY FiledIs
<1> HIDE DEF A, B, r
<1>2. /\ Holding(A, r, w, its) /\ IsFiniteSet(its) /\ g.num = Cardinality(its)
      /\ g.count \in Nat /\ w.pages \subseteq 0 .. g.count - 1 /\ ~IsHollow(A[r])
  BY <1>m DEF Filed
<1>3. /\ IsTree(u) /\ u.dirty = {} /\ u.root = r /\ u.num = g.num /\ u.pages = g.count
      /\ DOMAIN u.mem = {r} /\ u.mem[r] = A[r]
  BY <1>m DEF JustRooted
<1>4. r \in w.pages /\ A[r] \in Nodes
  BY <1>1 DEF NodeSeen
<1>5. A[r].leaf \in BOOLEAN
  BY <1>4, NodeSeqs
<1>6. ~Hollow(u)
  BY <1>2, <1>3, <1>5 DEF Hollow, IsHollow
<1>7. ASSUME NEW q \in w.pages PROVE q \in DOMAIN B /\ B[q] = A[q]
  <2>1. q \in DOMAIN u.mem \cup DOMAIN A
    BY <1>1
  <2>2. B[q] = IF q \in DOMAIN u.mem THEN u.mem[q] ELSE A[q]
    BY <1>m, <2>1, ViewAt
  <2>3. q \in DOMAIN B
    BY <1>m, <2>1, ViewDomain
  <2> QED BY <1>3, <2>2, <2>3
<1>8. Holding(B, r, w, its)
  BY <1>2, <1>7, SameHolding
<1>9. Counted(u, its)
  BY <1>2, <1>3 DEF Counted
<1>10. \A q \in DOMAIN u.mem \ u.dirty : (q = u.root /\ Hollow(u)) \/ (q \in DOMAIN A /\ u.mem[q] = A[q])
  BY <1>1, <1>3, <1>4
<1>11. w.pages \subseteq DOMAIN View(u, A) /\ DOMAIN u.mem \subseteq w.pages /\ u.dirty \subseteq DOMAIN u.mem
       /\ u.root \in DOMAIN u.mem /\ u.pages \in Nat /\ w.pages \subseteq 0 .. u.pages - 1
  BY <1>2, <1>3, <1>4, <1>7, <1>m
<1>12. Kept(u, A, w)
  BY <1>3, <1>6, <1>10, <1>11 DEF Kept
<1>13. Good(u, A, w, its)
  BY <1>3, <1>8, <1>9, <1>12, <1>m, Zenon DEF Good
<1> QED BY <1>m, <1>6, <1>13

RestGood(t, g, its) == \E w : Good(t, g.pages, w, its)

LEMMA RootedRest ==
  ASSUME NEW t, NEW g, NEW its, Rest(t, g, its), NEW u, u = Rooted(t, g)
  PROVE  RestGood(u, g, its) /\ (~Hollow(t) => ~Hollow(u))
<1>1. CASE t = Unloaded(g.num, g.count) /\ FileOK(g, its)
  <2>1. PICK w : Filed(g, w, its)
    BY <1>1 DEF FileOK
  <2>2. JustRooted(u, g)
    BY <1>1, RootedUnloaded
  <2>3. Good(u, g.pages, w, its) /\ ~Hollow(u)
    BY <2>1, <2>2, JustRootedGood
  <2> QED BY <2>3, Zenon DEF RestGood
<1>2. CASE \E w : Good(t, g.pages, w, its)
  <2>1. PICK w : Good(t, g.pages, w, its)
    BY <1>2
  <2>2. t.root /= NoPage
    BY <2>1, GoodRoot
  <2>3. u = t
    BY <2>2 DEF Rooted
  <2> QED BY <2>1, <2>3, Zenon DEF RestGood
<1> QED BY <1>1, <1>2, Zenon DEF Rest

(* A commit of what rests. *)
LEMMA CommitRest ==
  ASSUME NEW t, NEW f, NEW its, Rest(t, f, its), ~Hollow(t), NEW g, g = Commit(t, f), NEW u, u = Unmarked(t)
  PROVE  FileOK(g, its) /\ Rest(u, g, its) /\ ~Hollow(u)
<1>1. CommitTo(t, f, g)
  BY CommitIs
<1>2. CASE t = Unloaded(f.num, f.count) /\ FileOK(f, its)
  <2>1. IsTree(t) /\ DOMAIN t.mem = {} /\ t.dirty = {} /\ t.root = NoPage /\ t.num = f.num /\ t.pages = f.count
    BY <1>2, UnloadedIs
  <2>2. PICK w : Filed(f, w, its)
    BY <1>2 DEF FileOK
  <2>3. g.root = f.root /\ g.num = f.num /\ g.count = f.count
    BY <1>1, <2>1 DEF CommitTo
  <2>4. ASSUME NEW q \in w.pages PROVE q \in DOMAIN g.pages /\ g.pages[q] = f.pages[q]
    <3> DEFINE h == [p \in t.dirty |-> Written(t.mem[p])]
    <3>1. IsOver(g.pages, h, f.pages)
      BY <1>1 DEF CommitTo
    <3>2. DOMAIN h = {}
      BY <2>1
    <3>3. q \in DOMAIN f.pages
      BY <2>2, FiledIs
    <3> HIDE DEF h
    <3> QED BY <3>1, <3>2, <3>3 DEF IsOver
  <2>5. /\ Holding(f.pages, f.root, w, its) /\ IsFiniteSet(its) /\ f.num = Cardinality(its)
        /\ f.count \in Nat /\ w.pages \subseteq 0 .. f.count - 1 /\ ~IsHollow(f.pages[f.root])
    BY <2>2 DEF Filed
  <2> DEFINE A == f.pages
             B == g.pages
             r == f.root
  <2>m. A = f.pages /\ B = g.pages /\ r = f.root
    OBVIOUS
  <2> HIDE DEF A, B, r
  <2>6. Holding(B, r, w, its)
    <3>1. Holding(A, r, w, its)
      BY <2>5, <2>m
    <3>2. \A q \in w.pages : q \in DOMAIN B /\ B[q] = A[q]
      BY <2>4, <2>m
    <3> QED BY <3>1, <3>2, SameHolding
  <2>7. B[r] = A[r]
    <3>1. NodeSeen(f.pages, w, f.root, f.pages[f.root])
      BY <2>2, FiledIs
    <3>2. f.root \in w.pages
      BY <3>1 DEF NodeSeen
    <3> QED BY <2>4, <2>m, <3>2
  <2>8. Filed(g, w, its)
    BY <2>3, <2>5, <2>6, <2>7, <2>m DEF Filed
  <2>9. FileOK(g, its)
    BY <2>8, Zenon DEF FileOK
  <2>10. u = t
    <3> DEFINE e == {}
    <3>1. t = [mem |-> t.mem, dirty |-> e, root |-> t.root, num |-> t.num, pages |-> t.pages]
      BY <2>1 DEF IsTree
    <3>2. u = [t EXCEPT !.dirty = e]
      BY DEF Unmarked
    <3> HIDE DEF e
    <3>3. t.dirty = e
      BY <3>1
    <3> QED BY <3>1, <3>2, <3>3
  <2>11. u = Unloaded(g.num, g.count)
    BY <1>2, <2>3, <2>10
  <2>12. Rest(u, g, its)
    BY <2>9, <2>11, Zenon DEF Rest
  <2> QED BY <2>9, <2>10, <2>12
<1>3. CASE \E w : Good(t, f.pages, w, its)
  <2>1. PICK w : Good(t, f.pages, w, its)
    BY <1>3
  <2>2. Filed(g, w, its)
    BY <1>1, <2>1, CommitFiled
  <2>3. Left(t, u)
    <3>1. Kept(t, f.pages, w)
      BY <2>1, Zenon DEF Good
    <3> QED BY <3>1, UnmarkedLeft
  <2>4. Good(u, g.pages, w, its) /\ ~Hollow(u)
    BY <1>1, <2>1, <2>3, LeftGood
  <2> QED BY <2>2, <2>4, Zenon DEF FileOK, Rest
<1> QED BY <1>2, <1>3, Zenon DEF Rest

(* s.tree and s.file are what a call may begin with. *)
ReadyIs(t, s, its, now) ==
  RestGood(s.tree, s.file, its) /\ FileOK(s.file, now) /\ (~Hollow(t) => ~Hollow(s.tree))

LEMMA ReadyForWritten ==
  ASSUME NEW t, NEW g, NEW over, NEW s, s = ReadyFor(t, g, over), NEW r, r = Rooted(t, g)
  PROVE  /\ s.tree = (IF over THEN Unload(r) ELSE r)
         /\ s.file = (IF over THEN Commit(r, g) ELSE g)
<1>1. CASE over
  <2> DEFINE x == Unload(r)
             y == Commit(r, g)
  <2>1. s = [tree |-> x, file |-> y]
    BY <1>1 DEF ReadyFor
  <2> HIDE DEF x, y
  <2>2. s.tree = x /\ s.file = y
    BY <2>1
  <2> QED BY <1>1, <2>2 DEF x, y
<1>2. CASE ~over
  <2>1. s = [tree |-> r, file |-> g]
    BY <1>2 DEF ReadyFor
  <2>2. s.tree = r /\ s.file = g
    BY <2>1
  <2> QED BY <1>2, <2>2
<1> QED BY <1>1, <1>2

LEMMA ReadyForIs ==
  ASSUME NEW t, NEW g, NEW its, Rest(t, g, its), NEW sv, FileOK(g, sv), NEW over, over => ~Hollow(t),
         NEW s, s = ReadyFor(t, g, over), NEW now, now = IF over THEN its ELSE sv
  PROVE  ReadyIs(t, s, its, now)
<1> DEFINE r == Rooted(t, g)
<1>m. r = Rooted(t, g)
  OBVIOUS
<1> HIDE DEF r
<1>1. RestGood(r, g, its) /\ (~Hollow(t) => ~Hollow(r))
  BY <1>m, RootedRest
<1>2. /\ s.tree = (IF over THEN Unload(r) ELSE r)
      /\ s.file = (IF over THEN Commit(r, g) ELSE g)
  BY <1>m, ReadyForWritten
<1>3. CASE ~over
  <2>1. s.tree = r /\ s.file = g /\ now = sv
    BY <1>2, <1>3
  <2> QED BY <1>1, <2>1 DEF ReadyIs
<1>4. CASE over
  <2> DEFINE u == Unload(r)
             c == Commit(r, g)
  <2>m. u = Unload(r) /\ c = Commit(r, g)
    OBVIOUS
  <2> HIDE DEF u, c
  <2>1. s.tree = u /\ s.file = c /\ now = its /\ ~Hollow(t) /\ ~Hollow(r)
    BY <1>1, <1>2, <1>4, <2>m
  <2>2. PICK w : Good(r, g.pages, w, its)
    BY <1>1, Zenon DEF RestGood
  <2>3. CommitTo(r, g, c)
    BY <2>m, CommitIs
  <2>4. Filed(c, w, its)
    BY <2>1, <2>2, <2>3, CommitFiled
  <2>5. Left(r, u)
    <3>1. Kept(r, g.pages, w)
      BY <2>2, Zenon DEF Good
    <3> QED BY <2>m, <3>1, UnloadLeft
  <2>6. Good(u, c.pages, w, its) /\ ~Hollow(u)
    BY <2>1, <2>2, <2>3, <2>5, LeftGood
  <2>7. RestGood(u, c, its) /\ FileOK(c, its)
    BY <2>4, <2>6, Zenon DEF RestGood, FileOK
  <2> QED BY <2>1, <2>6, <2>7 DEF ReadyIs
<1> QED BY <1>3, <1>4

LEMMA InsertReadyForIs ==
  ASSUME NEW t, NEW g, NEW its, Rest(t, g, its), NEW sv, FileOK(g, sv), NEW over, NEW num, ~Hollow(t),
         NEW s, s = InsertReadyFor(t, g, num, over), NEW now, now = IF over \/ t.num = num THEN its ELSE sv
  PROVE  ReadyIs(t, s, its, now)
<1>1. CASE t.num = num
  <2> DEFINE u == Unmarked(t)
             c == Commit(t, g)
  <2>m. u = Unmarked(t) /\ c = Commit(t, g)
    OBVIOUS
  <2>1. s = ReadyFor(u, c, over) /\ now = its
    BY <1>1, Zenon DEF InsertReadyFor, Unmarked
  <2> HIDE DEF u, c
  <2>2. FileOK(c, its) /\ Rest(u, c, its) /\ ~Hollow(u)
    BY <2>m, CommitRest
  <2>3. now = IF over THEN its ELSE its
    BY <2>1
  <2>4. ReadyIs(u, s, its, now)
    BY <2>1, <2>2, <2>3, ReadyForIs
  <2> QED BY <2>2, <2>4 DEF ReadyIs
<1>2. CASE t.num /= num
  <2>1. s = ReadyFor(t, g, over)
    BY <1>2, Zenon DEF InsertReadyFor
  <2>2. now = IF over THEN its ELSE sv
    BY <1>2
  <2> QED BY <2>1, <2>2, ReadyForIs
<1> QED BY <1>1, <1>2

-----------------------------------------------------------------------------
(* A file that is not there, and the tree that is opened of it. *)
EmptyNode == Node(TRUE, <<>>, <<>>)
EmptyPlaces ==
  [pages |-> {0}, height |-> [q \in {0} |-> 0], lo |-> [q \in {0} |-> 0], hi |-> [q \in {0} |-> KeyCount + 1]]

LEMMA EmptyIs ==
  /\ EmptyFile.root = 0 /\ EmptyFile.num = 0 /\ EmptyFile.count = 1
  /\ DOMAIN EmptyFile.pages = {0} /\ EmptyFile.pages[0] = EmptyNode
<1> DEFINE m == Put(0, EmptyNode)
<1>1. EmptyFile = [pages |-> m, root |-> 0, num |-> 0, count |-> 1]
  BY Zenon DEF EmptyFile, EmptyNode
<1>2. PutsOne(m, 0, EmptyNode)
  BY PutIs
<1> HIDE DEF m
<1>3. DOMAIN m = {0} /\ m[0] = EmptyNode
  BY <1>2 DEF PutsOne
<1>4. EmptyFile.pages = m /\ EmptyFile.root = 0 /\ EmptyFile.num = 0 /\ EmptyFile.count = 1
  BY <1>1
<1> QED BY <1>3, <1>4

LEMMA EmptyShape ==
  ASSUME NEW A, DOMAIN A = {0}, A[0] = EmptyNode, NEW w, w = EmptyPlaces
  PROVE  Shape(A, 0, w) /\ Sized(A, 0, w) /\ Stock(A, w, {})
<1>1. IsNode(EmptyNode, TRUE, <<>>, <<>>)
  <2>1. <<>> \in Seq(Item) /\ <<>> \in Seq(Nat) /\ TRUE \in BOOLEAN
    OBVIOUS
  <2> QED BY <2>1, NodeOf DEF EmptyNode
<1>2. A[0] \in Nodes /\ A[0].leaf = TRUE /\ Count(A, 0) = 0 /\ KidCount(A, 0) = 0
  BY <1>1 DEF IsNode, Count, KidCount
<1>3. KeyCount \in Nat
  BY BTreeCallsAssumption
<1>4. /\ w.pages = {0} /\ w.height = [q \in {0} |-> 0] /\ w.lo = [q \in {0} |-> 0] /\ w.hi = [q \in {0} |-> KeyCount + 1]
  BY DEF EmptyPlaces
<1>5. w.height[0] = 0 /\ w.lo[0] = 0 /\ w.hi[0] = KeyCount + 1
  BY <1>4
<1>6. PlacesOK(w)
  BY <1>3, <1>4 DEF PlacesOK
<1>7. NodesOK(A, w)
  BY <1>2, <1>4 DEF NodesOK
<1>8. Topped(0, w)
  BY <1>3, <1>4, <1>5 DEF Topped
<1>9. Branching(A, w)
  BY <1>2, <1>4, <1>5 DEF Branching
<1>10. 1 .. Count(A, 0) = {} /\ 1 .. KidCount(A, 0) = {}
  BY <1>2
<1>11. Ordered(A, w)
  BY <1>3, <1>4, <1>5, <1>10 DEF Ordered
<1>12. Hanging(A, w)
  BY <1>4, <1>10 DEF Hanging
<1>13. Apart(A, w)
  BY <1>4, <1>5 DEF Apart
<1>14. Reached(A, 0, w)
  BY <1>4 DEF Reached
<1>15. Sized(A, 0, w)
  <2>1. MaxKeys \in Nat
    BY Numbers
  <2> QED BY <1>2, <1>4, <2>1 DEF Sized
<1>16. Stock(A, w, {})
  BY <1>4, <1>10 DEF Stock, Held
<1> QED BY <1>6, <1>7, <1>8, <1>9, <1>11, <1>12, <1>13, <1>14, <1>15, <1>16 DEF Shape

LEMMA EmptyFileOK == FileOK(EmptyFile, {})
<1> DEFINE g == EmptyFile
           A == g.pages
           w == EmptyPlaces
<1>1. g.root = 0 /\ g.num = 0 /\ g.count = 1 /\ DOMAIN A = {0} /\ A[0] = EmptyNode
  BY EmptyIs
<1>2. Shape(A, 0, w) /\ Sized(A, 0, w) /\ Stock(A, w, {})
  BY <1>1, EmptyShape
<1>3. w.pages = {0}
  BY DEF EmptyPlaces
<1>4. EmptyNode.leaf = TRUE
  BY DEF EmptyNode, Node
<1> HIDE DEF g, A, w
<1>5. Holding(A, 0, w, {})
  BY <1>2, Zenon DEF Holding
<1>6. IsFiniteSet({}) /\ Cardinality({}) = 0
  BY FS_EmptySet
<1>7. w.pages \subseteq 0 .. g.count - 1 /\ g.count \in Nat
  BY <1>1, <1>3
<1>8. ~IsHollow(A[0])
  BY <1>1, <1>4 DEF IsHollow
<1>9. Filed(g, w, {})
  BY <1>1, <1>5, <1>6, <1>7, <1>8 DEF Filed, A
<1> QED BY <1>9, Zenon DEF FileOK, g

(* What each call that is under way, c, knows of the tree t and the file g. *)
Inserting(t, g, c, its) ==
  /\ c = [op |-> "insert", asked |-> c.asked, item |-> c.item, at |-> c.at]
  /\ \E w : Ins(t, g.pages, w, its, c.at, c.item, c.item[1], t.mem[c.at])

Deleting(t, g, c, its) ==
  /\ c = [op |-> "del", key |-> c.key, seek |-> c.seek, at |-> c.at] /\ c.seek = c.key
  /\ \E w : Plain(t, g.pages, w, its, c.at, c.key)

LentOut(t, g, c, its) ==
  /\ c = [op |-> "del", key |-> c.key, seek |-> c.seek, at |-> c.at] /\ c.seek /= c.key
  /\ \E w, M, top, place, e : Lend(t, g.pages, w, its, M, top, place, c.key, e, c.at) /\ c.seek = e[1]

Edging(t, g, c, its) ==
  /\ c.op \in {"pred", "succ"}
  /\ c = [op |-> c.op, key |-> c.key, at |-> c.at, top |-> c.top, place |-> c.place, kid |-> c.kid]
  /\ \E w : EdgeAt(t, g.pages, w, its, c.op = "pred", c.key, c.top, c.place, c.kid, c.at)

Finding(t, g, c, its) ==
  /\ c = [op |-> "find", key |-> c.key, at |-> c.at]
  /\ \E w : Seeks(t, g.pages, w, its, c.at, c.key)

Updating(t, g, c, its) ==
  /\ c = [op |-> "update", key |-> c.key, value |-> c.value, at |-> c.at]
  /\ <<c.key, c.value>> \in Item /\ ~Hollow(t)
  /\ \E w : Seeks(t, g.pages, w, its, c.at, c.key)

CallOK(t, g, c, its) ==
  \/ c = Closed /\ t = Unloaded(g.num, g.count)
  \/ c = Idle /\ Rest(t, g, its)
  \/ Inserting(t, g, c, its) \/ Deleting(t, g, c, its) \/ LentOut(t, g, c, its) \/ Edging(t, g, c, its)
  \/ Finding(t, g, c, its) \/ Updating(t, g, c, its)

(* The invariant. *)
CallsOK == FileOK(file, saved) /\ CallOK(tree, file, call, items) /\ (call = Closed => items = saved)

(* The call that is under way says which of these it is. *)
LEMMA OpOf ==
  ASSUME NEW t, NEW g, NEW c, NEW its
  PROVE  /\ c = Closed => c.op = "closed"
         /\ c = Idle => c.op = "none"
         /\ Inserting(t, g, c, its) => c.op = "insert"
         /\ Deleting(t, g, c, its) => c.op = "del"
         /\ LentOut(t, g, c, its) => c.op = "del"
         /\ Edging(t, g, c, its) => c.op \in {"pred", "succ"}
         /\ Finding(t, g, c, its) => c.op = "find"
         /\ Updating(t, g, c, its) => c.op = "update"
<1>1. c = Closed => c.op = "closed"
  BY DEF Closed
<1>2. c = Idle => c.op = "none"
  BY DEF Idle
<1>3. Inserting(t, g, c, its) => c.op = "insert"
  <2>1. SUFFICES ASSUME Inserting(t, g, c, its) PROVE c.op = "insert"
    OBVIOUS
  <2>2. c = [op |-> "insert", asked |-> c.asked, item |-> c.item, at |-> c.at]
    BY <2>1, Zenon DEF Inserting
  <2> DEFINE x == c.asked
             y == c.item
             z == c.at
  <2> HIDE DEF x, y, z
  <2>3. c = [op |-> "insert", asked |-> x, item |-> y, at |-> z]
    BY <2>2 DEF x, y, z
  <2> QED BY <2>3
<1>4. Deleting(t, g, c, its) => c.op = "del"
  BY DEF Deleting
<1>5. LentOut(t, g, c, its) => c.op = "del"
  BY DEF LentOut
<1>6. Edging(t, g, c, its) => c.op \in {"pred", "succ"}
  BY DEF Edging
<1>7. Finding(t, g, c, its) => c.op = "find"
  BY DEF Finding
<1>8. Updating(t, g, c, its) => c.op = "update"
  BY DEF Updating
<1> QED BY <1>1, <1>2, <1>3, <1>4, <1>5, <1>6, <1>7, <1>8

LEMMA CallOf ==
  ASSUME NEW t, NEW g, NEW c, NEW its, CallOK(t, g, c, its)
  PROVE  /\ c.op = "none" => c = Idle /\ Rest(t, g, its)
         /\ c.op = "insert" => Inserting(t, g, c, its)
         /\ c.op = "del" => Deleting(t, g, c, its) \/ LentOut(t, g, c, its)
         /\ c.op \in {"pred", "succ"} => Edging(t, g, c, its)
         /\ c.op = "find" => Finding(t, g, c, its)
         /\ c.op = "update" => Updating(t, g, c, its)
         /\ c.op = "closed" => c = Closed /\ t = Unloaded(g.num, g.count)
<1> DEFINE C == c = Closed /\ t = Unloaded(g.num, g.count)
           I == c = Idle /\ Rest(t, g, its)
           A == Inserting(t, g, c, its)
           D == Deleting(t, g, c, its)
           L == LentOut(t, g, c, its)
           E == Edging(t, g, c, its)
           F == Finding(t, g, c, its)
           U == Updating(t, g, c, its)
           o == c.op
<1>1. C \/ I \/ A \/ D \/ L \/ E \/ F \/ U
  BY Zenon DEF CallOK
<1>2. /\ C => o = "closed"
      /\ I => o = "none"
      /\ A => o = "insert"
      /\ D => o = "del"
      /\ L => o = "del"
      /\ E => o \in {"pred", "succ"}
      /\ F => o = "find"
      /\ U => o = "update"
  BY OpOf
<1>3. /\ o = "none" => I
      /\ o = "insert" => A
      /\ o = "del" => D \/ L
      /\ o \in {"pred", "succ"} => E
      /\ o = "find" => F
      /\ o = "update" => U
      /\ o = "closed" => C
  <2> HIDE DEF C, I, A, D, L, E, F, U, o
  <2> QED BY <1>1, <1>2
<1> QED BY <1>3, Zenon

MovedTo(c, x) == [c EXCEPT !.at = x]

LEMMA InsertingIs ==
  ASSUME NEW t, NEW g, NEW c, NEW its, Inserting(t, g, c, its), NEW x, NEW d, d = MovedTo(c, x)
  PROVE  /\ d = [op |-> "insert", asked |-> d.asked, item |-> d.item, at |-> d.at]
         /\ d.item = c.item /\ d.at = x /\ d.op = "insert"
<1> DEFINE a == c.asked
           b == c.item
           y == c.at
<1>1. c = [op |-> "insert", asked |-> a, item |-> b, at |-> y]
  BY Zenon DEF Inserting
<1>2. d = [c EXCEPT !.at = x]
  BY DEF MovedTo
<1> HIDE DEF a, b, y
<1>3. d = [op |-> "insert", asked |-> a, item |-> b, at |-> x]
  BY <1>1, <1>2
<1> QED BY <1>1, <1>3

(* A round of insert. *)
InsertTo(t, g, c, its, o) ==
  \/ o.res = "on" /\ Inserting(o.tree, g, MovedTo(c, o.at), its)
  \/ o.res = "no" /\ Of(its, c.item[1]) /= {} /\ Rest(o.tree, g, its)
  \/ o.res = "yes" /\ Of(its, c.item[1]) = {} /\ Rest(o.tree, g, its \cup {c.item})

LEMMA InsertOut ==
  ASSUME NEW t, NEW g, NEW c, NEW its, Inserting(t, g, c, its), NEW o, o = InsertStep(t, g.pages, c.at, c.item)
  PROVE  InsertTo(t, g, c, its, o)
<1> DEFINE f == g.pages
           it == c.item
           k == it[1]
           p == c.at
           n == t.mem[p]
<1>1. PICK w : Ins(t, f, w, its, p, it, k, n)
  BY Zenon DEF Inserting
<1>m. f = g.pages /\ it = c.item /\ k = it[1] /\ p = c.at /\ n = t.mem[p]
  OBVIOUS
<1>2. o = InsertStep(t, f, p, it)
  OBVIOUS
<1> HIDE DEF f, it, k, p, n
<1>3. InsDone(o, f, its, it, k)
  BY <1>1, <1>2, InsertStepIs
<1>4. it \in Item /\ k \in Int
  BY <1>1, Zenon DEF Ins
<1>5. CASE InsOn(o, f, its, k)
  <2>1. o.res = "on" /\ ~Hollow(o.tree)
    BY <1>5, Zenon DEF InsOn
  <2>2. PICK v : Good(o.tree, f, v, its) /\ Here(o.tree, v, o.at, k) /\ ~Full(o.tree.mem[o.at])
    BY <1>5, Zenon DEF InsOn
  <2> DEFINE d == MovedTo(c, o.at)
             u == o.tree
             x == o.at
  <2>m. d = MovedTo(c, o.at) /\ u = o.tree /\ x = o.at
    OBVIOUS
  <2> HIDE DEF d, u, x
  <2>3. d = [op |-> "insert", asked |-> d.asked, item |-> d.item, at |-> d.at] /\ d.item = it /\ d.at = x
    BY <2>m, <1>m, InsertingIs
  <2>4. Ins(u, f, v, its, x, it, k, u.mem[x])
    BY <1>m, <1>4, <2>1, <2>2, <2>m DEF Ins
  <2>5. Ins(u, g.pages, v, its, d.at, d.item, d.item[1], u.mem[d.at])
    BY <2>3, <2>4, <1>m
  <2>6. Inserting(u, g, d, its)
    BY <2>3, <2>5, Zenon DEF Inserting
  <2> QED BY <2>1, <2>6, <2>m DEF InsertTo
<1>6. CASE InsNo(o, f, its, k)
  <2>1. o.res = "no" /\ (\E v : Good(o.tree, f, v, its)) /\ \E x \in its : x[1] = k
    BY <1>6, Zenon DEF InsNo
  <2>2. Of(its, k) /= {}
    BY <2>1 DEF Of
  <2>3. Rest(o.tree, g, its)
    BY <2>1, <1>m, Zenon DEF Rest
  <2> QED BY <2>1, <2>2, <2>3, <1>m DEF InsertTo
<1>7. CASE InsYes(o, f, its, it, k)
  <2>1. o.res = "yes" /\ (\E v : Good(o.tree, f, v, its \cup {it})) /\ \A x \in its : x[1] /= k
    BY <1>7, Zenon DEF InsYes
  <2>2. Of(its, k) = {}
    BY <2>1 DEF Of
  <2>3. Rest(o.tree, g, its \cup {it})
    BY <2>1, <1>m, Zenon DEF Rest
  <2> QED BY <2>1, <2>2, <2>3, <1>m DEF InsertTo
<1> QED BY <1>3, <1>5, <1>6, <1>7 DEF InsDone

-----------------------------------------------------------------------------
DelCall(k, s, x) == [op |-> "del", key |-> k, seek |-> s, at |-> x]
EdgeCall(op, k, x, top, place, kid) == [op |-> op, key |-> k, at |-> x, top |-> top, place |-> place, kid |-> kid]

LEMMA DelCallIs ==
  ASSUME NEW k, NEW s, NEW x, NEW d, d = DelCall(k, s, x)
  PROVE  /\ d = [op |-> "del", key |-> d.key, seek |-> d.seek, at |-> d.at]
         /\ d.key = k /\ d.seek = s /\ d.at = x /\ d.op = "del"
BY DEF DelCall

LEMMA DelMoved ==
  ASSUME NEW c, c = [op |-> "del", key |-> c.key, seek |-> c.seek, at |-> c.at], NEW x
  PROVE  MovedTo(c, x) = DelCall(c.key, c.seek, x)
<1> DEFINE a == c.key
           b == c.seek
           y == c.at
<1>1. c = [op |-> "del", key |-> a, seek |-> b, at |-> y]
  OBVIOUS
<1> HIDE DEF a, b, y
<1>2. [c EXCEPT !.at = x] = [op |-> "del", key |-> a, seek |-> b, at |-> x]
  BY <1>1
<1> QED BY <1>2 DEF MovedTo, DelCall, a, b

LEMMA EdgeCallIs ==
  ASSUME NEW op, NEW k, NEW x, NEW top, NEW place, NEW kid, NEW d, d = EdgeCall(op, k, x, top, place, kid)
  PROVE  /\ d = [op |-> d.op, key |-> d.key, at |-> d.at, top |-> d.top, place |-> d.place, kid |-> d.kid]
         /\ d.op = op /\ d.key = k /\ d.at = x /\ d.top = top /\ d.place = place /\ d.kid = kid
BY DEF EdgeCall

LEMMA EdgeMoved ==
  ASSUME NEW c, c = [op |-> c.op, key |-> c.key, at |-> c.at, top |-> c.top, place |-> c.place, kid |-> c.kid], NEW x
  PROVE  MovedTo(c, x) = EdgeCall(c.op, c.key, x, c.top, c.place, c.kid)
<1> DEFINE o == c.op
           k == c.key
           y == c.at
           t == c.top
           p == c.place
           d == c.kid
<1>1. c = [op |-> o, key |-> k, at |-> y, top |-> t, place |-> p, kid |-> d]
  OBVIOUS
<1> HIDE DEF o, k, y, t, p, d
<1>2. [c EXCEPT !.at = x] = [op |-> o, key |-> k, at |-> x, top |-> t, place |-> p, kid |-> d]
  BY <1>1
<1> QED BY <1>2 DEF MovedTo, EdgeCall, o, k, t, p, d

(* A round of del. *)
PlaceOf(t, c) == Smaller(t.mem[c.at].items, c.seek) + 1
DeleteTo(t, g, c, its, o) ==
  \/ o.res = "on" /\ (Deleting(o.tree, g, MovedTo(c, o.at), its) \/ LentOut(o.tree, g, MovedTo(c, o.at), its))
  \/ o.res \in {"pred", "succ"} /\ Edging(o.tree, g, EdgeCall(o.res, c.key, o.at, c.at, PlaceOf(t, c), o.at), its)
  \/ o.res = "yes" /\ Of(its, c.key) /= {} /\ Rest(Lowered(o.tree), g, its \ Of(its, c.key))
  \/ o.res = "no" /\ Of(its, c.key) = {} /\ Rest(o.tree, g, its)

LEMMA DeletingOut ==
  ASSUME NEW t, NEW g, NEW c, NEW its, Deleting(t, g, c, its), NEW o, o = DeleteStep(t, g.pages, c.at, c.seek)
  PROVE  DeleteTo(t, g, c, its, o)
<1> DEFINE f == g.pages
           k == c.key
           p == c.at
           n == t.mem[p]
           i == Smaller(n.items, k) + 1
<1>1. PICK w : Plain(t, f, w, its, p, k)
  BY Zenon DEF Deleting
<1>2. c = [op |-> "del", key |-> c.key, seek |-> c.seek, at |-> c.at] /\ c.seek = k
  BY Zenon DEF Deleting
<1>m. f = g.pages /\ k = c.key /\ p = c.at /\ n = t.mem[p] /\ i = Smaller(n.items, k) + 1
  OBVIOUS
<1>3. o = DeleteStep(t, f, p, k)
  BY <1>2
<1>i. i = PlaceOf(t, c)
  BY <1>2 DEF PlaceOf
<1> HIDE DEF f, k, p, n, i
<1>4. PlainDone(f, w, its, p, k, i, o)
  BY <1>1, <1>3, <1>m, PlainRound
<1>5. CASE o.res = "on" /\ \E v : Plain(o.tree, f, v, its, o.at, k)
  <2>1. PICK v : Plain(o.tree, f, v, its, o.at, k)
    BY <1>5
  <2> DEFINE x == o.at
             d == MovedTo(c, x)
             u == o.tree
  <2>m. x = o.at /\ d = MovedTo(c, x) /\ u = o.tree
    OBVIOUS
  <2> HIDE DEF x, d, u
  <2>2. d = DelCall(k, k, x)
    BY <1>2, <1>m, <2>m, DelMoved
  <2>3. /\ d = [op |-> "del", key |-> d.key, seek |-> d.seek, at |-> d.at]
        /\ d.key = k /\ d.seek = k /\ d.at = x
    BY <2>2, DelCallIs
  <2>4. Plain(u, g.pages, v, its, d.at, d.key)
    BY <1>m, <2>1, <2>3, <2>m
  <2>5. d.seek = d.key
    BY <2>3
  <2>6. Deleting(u, g, d, its)
    BY <2>3, <2>4, <2>5, Zenon DEF Deleting
  <2> QED BY <1>5, <2>6, <2>m DEF DeleteTo
<1>6. CASE o.res \in {"pred", "succ"} /\ EdgeAt(o.tree, f, w, its, o.res = "pred", k, p, i, o.at, o.at)
  <2> DEFINE op == o.res
             x == o.at
             u == o.tree
             d == EdgeCall(op, k, x, p, i, x)
  <2>m. op = o.res /\ x = o.at /\ u = o.tree /\ d = EdgeCall(op, k, x, p, i, x)
    OBVIOUS
  <2>1. op \in {"pred", "succ"} /\ EdgeAt(u, f, w, its, op = "pred", k, p, i, x, x)
    BY <1>6
  <2> HIDE DEF op, x, u, d
  <2>3. /\ d = [op |-> d.op, key |-> d.key, at |-> d.at, top |-> d.top, place |-> d.place, kid |-> d.kid]
        /\ d.op = op /\ d.key = k /\ d.at = x /\ d.top = p /\ d.place = i /\ d.kid = x
    BY <2>m, EdgeCallIs
  <2>4. EdgeAt(u, g.pages, w, its, d.op = "pred", d.key, d.top, d.place, d.kid, d.at)
    BY <1>m, <2>1, <2>3
  <2>5. d.op \in {"pred", "succ"}
    BY <2>1, <2>3
  <2>6. Edging(u, g, d, its)
    BY <2>3, <2>4, <2>5, Zenon DEF Edging
  <2>7. d = EdgeCall(o.res, c.key, o.at, c.at, PlaceOf(t, c), o.at)
    BY <1>m, <1>i, <2>m
  <2>8. Edging(o.tree, g, EdgeCall(o.res, c.key, o.at, c.at, PlaceOf(t, c), o.at), its)
    BY <2>6, <2>7, <2>m
  <2> QED BY <1>6, <2>8, Zenon DEF DeleteTo
<1>7. CASE o.res = "yes" /\ Dropped(Lowered(o.tree), f, its, k)
  <2>1. Of(its, k) /= {} /\ \E v : Good(Lowered(o.tree), f, v, its \ Of(its, k))
    BY <1>7, Zenon DEF Dropped
  <2>2. Rest(Lowered(o.tree), g, its \ Of(its, k))
    BY <1>m, <2>1, Zenon DEF Rest
  <2> QED BY <1>7, <1>m, <2>1, <2>2, Zenon DEF DeleteTo
<1>8. CASE o.res = "no" /\ Good(o.tree, f, w, its) /\ Of(its, k) = {}
  <2>1. Rest(o.tree, g, its)
    BY <1>8, <1>m, Zenon DEF Rest
  <2> QED BY <1>8, <1>m, <2>1, Zenon DEF DeleteTo
<1> QED BY <1>4, <1>5, <1>6, <1>7, <1>8, Zenon DEF PlainDone

LEMMA LentApart ==
  ASSUME NEW t, NEW f, NEW w, NEW its, NEW M, NEW top, NEW place, NEW k, NEW e, NEW p,
         Lend(t, f, w, its, M, top, place, k, e, p), NEW s, s = e[1]
  PROVE  s /= k
<1>1. Dig(M, t, f, w, p, s, t.mem[p]) /\ LoanSide(w, p, k) /\ k \in Int
  BY Zenon DEF Lend
<1>2. Here(t, w, p, s) /\ s \in Int
  BY <1>1, Zenon DEF Dig
<1> QED BY <1>1, <1>2 DEF Here, LoanSide

LEMMA LentOutIs ==
  ASSUME NEW u, NEW g, NEW v, NEW its, NEW N, NEW top, NEW place, NEW k, NEW e, NEW x,
         Lend(u, g.pages, v, its, N, top, place, k, e, x), NEW s, s = e[1], NEW d, d = DelCall(k, s, x)
  PROVE  LentOut(u, g, d, its)
<1>1. /\ d = [op |-> "del", key |-> d.key, seek |-> d.seek, at |-> d.at]
      /\ d.key = k /\ d.seek = s /\ d.at = x
  BY DelCallIs
<1>2. s /= k
  BY LentApart
<1>3. Lend(u, g.pages, v, its, N, top, place, d.key, e, d.at) /\ d.seek = e[1] /\ d.seek /= d.key
  BY <1>1, <1>2
<1> QED BY <1>1, <1>3, Zenon DEF LentOut

LEMMA LentOutOut ==
  ASSUME NEW t, NEW g, NEW c, NEW its, LentOut(t, g, c, its), NEW o, o = DeleteStep(t, g.pages, c.at, c.seek)
  PROVE  DeleteTo(t, g, c, its, o)
<1> DEFINE f == g.pages
           k == c.key
           s == c.seek
           p == c.at
<1>1. PICK w, M, top, place, e : Lend(t, f, w, its, M, top, place, k, e, p) /\ s = e[1]
  BY Zenon DEF LentOut
<1>2. c = [op |-> "del", key |-> c.key, seek |-> c.seek, at |-> c.at]
  BY Zenon DEF LentOut
<1>m. f = g.pages /\ k = c.key /\ p = c.at /\ s = c.seek
  OBVIOUS
<1>3. o = DeleteStep(t, f, p, s)
  OBVIOUS
<1> HIDE DEF f, k, p, s
<1>4. LendDone(f, its, top, place, k, e, o)
  BY <1>1, <1>3, LendRound
<1>5. CASE o.res = "on" /\ \E v, N : Lend(o.tree, f, v, its, N, top, place, k, e, o.at)
  <2>1. PICK v, N : Lend(o.tree, f, v, its, N, top, place, k, e, o.at)
    BY <1>5
  <2> DEFINE x == o.at
             d == MovedTo(c, x)
             u == o.tree
  <2>m. x = o.at /\ d = MovedTo(c, x) /\ u = o.tree
    OBVIOUS
  <2> HIDE DEF x, d, u
  <2>2. d = DelCall(k, s, x)
    BY <1>2, <1>m, <2>m, DelMoved
  <2>3. Lend(u, g.pages, v, its, N, top, place, k, e, x)
    BY <2>1, <2>m, <1>m
  <2>4. LentOut(u, g, d, its)
    BY <1>1, <2>2, <2>3, LentOutIs
  <2> QED BY <1>5, <2>4, <2>m DEF DeleteTo
<1>7. CASE o.res = "yes" /\ Dropped(Lowered(o.tree), f, its, k)
  <2>1. Of(its, k) /= {} /\ \E v : Good(Lowered(o.tree), f, v, its \ Of(its, k))
    BY <1>7, Zenon DEF Dropped
  <2>2. Rest(Lowered(o.tree), g, its \ Of(its, k))
    BY <1>m, <2>1, Zenon DEF Rest
  <2> QED BY <1>7, <1>m, <2>1, <2>2, Zenon DEF DeleteTo
<1> QED BY <1>4, <1>5, <1>7, Zenon DEF LendDone

-----------------------------------------------------------------------------
(* A round of _findPred or _findSucc. *)
LEMMA EdgingDown ==
  ASSUME NEW t, NEW g, NEW c, NEW its, Edging(t, g, c, its), NEW n, n = t.mem[c.at], ~n.leaf,
         NEW x, x = EdgeKid(n, c.op = "pred"), NEW u, u = Load(t, g.pages, {x}), NEW d, d = MovedTo(c, x)
  PROVE  Edging(u, g, d, its)
<1>1. PICK w : EdgeAt(t, g.pages, w, its, c.op = "pred", c.key, c.top, c.place, c.kid, c.at)
  BY Zenon DEF Edging
<1>2. c = [op |-> c.op, key |-> c.key, at |-> c.at, top |-> c.top, place |-> c.place, kid |-> c.kid]
      /\ c.op \in {"pred", "succ"}
  BY Zenon DEF Edging
<1> DEFINE f == g.pages
           l == c.op = "pred"
           k == c.key
           y == c.at
           top == c.top
           place == c.place
           kid == c.kid
           op == c.op
<1>m. f = g.pages /\ l = (op = "pred") /\ k = c.key /\ y = c.at /\ top = c.top /\ place = c.place /\ kid = c.kid /\ op = c.op
  OBVIOUS
<1>3. EdgeAt(t, f, w, its, l, k, top, place, kid, y) /\ n = t.mem[y] /\ x = EdgeKid(n, l) /\ u = Load(t, f, {x})
  BY <1>1
<1> HIDE DEF f, l, k, y, top, place, kid, op
<1>4. EdgeAt(u, f, w, its, l, k, top, place, kid, x)
  BY <1>3, EdgeDown
<1>5. d = EdgeCall(op, k, x, top, place, kid)
  BY <1>2, <1>m, EdgeMoved
<1>6. /\ d = [op |-> d.op, key |-> d.key, at |-> d.at, top |-> d.top, place |-> d.place, kid |-> d.kid]
      /\ d.op = op /\ d.key = k /\ d.at = x /\ d.top = top /\ d.place = place /\ d.kid = kid
  BY <1>5, EdgeCallIs
<1>7. EdgeAt(u, g.pages, w, its, d.op = "pred", d.key, d.top, d.place, d.kid, d.at)
  BY <1>m, <1>4, <1>6
<1>8. d.op \in {"pred", "succ"}
  BY <1>2, <1>6, <1>m
<1> QED BY <1>6, <1>7, <1>8, Zenon DEF Edging

LEMMA EdgingLends ==
  ASSUME NEW t, NEW g, NEW c, NEW its, Edging(t, g, c, its), NEW n, n = t.mem[c.at], n.leaf,
         NEW e, e = EdgeOf(n, c.op = "pred"), NEW u, u = Replace(t, c.top, c.place, e), NEW d, d = DelCall(c.key, e[1], c.kid)
  PROVE  LentOut(u, g, d, its)
<1>1. PICK w : EdgeAt(t, g.pages, w, its, c.op = "pred", c.key, c.top, c.place, c.kid, c.at)
  BY Zenon DEF Edging
<1> DEFINE f == g.pages
           l == c.op = "pred"
           k == c.key
           y == c.at
           top == c.top
           place == c.place
           kid == c.kid
           s == e[1]
<1>m. f = g.pages /\ k = c.key /\ kid = c.kid /\ s = e[1]
  OBVIOUS
<1>2. EdgeAt(t, f, w, its, l, k, top, place, kid, y) /\ n = t.mem[y] /\ e = EdgeOf(n, l) /\ u = Replace(t, top, place, e)
  BY <1>1
<1> HIDE DEF f, l, k, y, top, place, kid, s
<1>3. EdgeNode(View(t, f), w, y, n)
  BY <1>2, EdgeNodeIs
<1>4. n.leaf = TRUE
  BY <1>3 DEF EdgeNode
<1>5. Lend(u, f, w, its, View(t, f), top, place, k, e, kid)
  BY <1>2, <1>4, EdgeLends
<1> DEFINE M == View(t, f)
<1> HIDE DEF M
<1>6. Lend(u, g.pages, w, its, M, top, place, k, e, kid)
  BY <1>5, <1>m DEF M
<1> QED BY <1>m, <1>6, LentOutIs

FindCall(k, x) == [op |-> "find", key |-> k, at |-> x]
UpdateCall(k, v, x) == [op |-> "update", key |-> k, value |-> v, at |-> x]

LEMMA FindCallIs ==
  ASSUME NEW k, NEW x, NEW d, d = FindCall(k, x)
  PROVE  d = [op |-> "find", key |-> d.key, at |-> d.at] /\ d.key = k /\ d.at = x
BY DEF FindCall

LEMMA UpdateCallIs ==
  ASSUME NEW k, NEW v, NEW x, NEW d, d = UpdateCall(k, v, x)
  PROVE  /\ d = [op |-> "update", key |-> d.key, value |-> d.value, at |-> d.at]
         /\ d.key = k /\ d.value = v /\ d.at = x
BY DEF UpdateCall

LEMMA FindMoved ==
  ASSUME NEW c, c = [op |-> "find", key |-> c.key, at |-> c.at], NEW x
  PROVE  MovedTo(c, x) = FindCall(c.key, x)
<1> DEFINE a == c.key
           y == c.at
<1>1. c = [op |-> "find", key |-> a, at |-> y]
  OBVIOUS
<1> HIDE DEF a, y
<1>2. [c EXCEPT !.at = x] = [op |-> "find", key |-> a, at |-> x]
  BY <1>1
<1> QED BY <1>2 DEF MovedTo, FindCall, a

LEMMA UpdateMoved ==
  ASSUME NEW c, c = [op |-> "update", key |-> c.key, value |-> c.value, at |-> c.at], NEW x
  PROVE  MovedTo(c, x) = UpdateCall(c.key, c.value, x)
<1> DEFINE a == c.key
           b == c.value
           y == c.at
<1>1. c = [op |-> "update", key |-> a, value |-> b, at |-> y]
  OBVIOUS
<1> HIDE DEF a, b, y
<1>2. [c EXCEPT !.at = x] = [op |-> "update", key |-> a, value |-> b, at |-> x]
  BY <1>1
<1> QED BY <1>2 DEF MovedTo, UpdateCall, a, b

FindAt(d, k, x) == d = [op |-> "find", key |-> d.key, at |-> d.at] /\ d.key = k /\ d.at = x
UpdateAt(d, k, v, x) ==
  d = [op |-> "update", key |-> d.key, value |-> d.value, at |-> d.at] /\ d.key = k /\ d.value = v /\ d.at = x

LEMMA FindMovedAt ==
  ASSUME NEW t, NEW g, NEW c, NEW its, Finding(t, g, c, its), NEW x, NEW d, d = MovedTo(c, x)
  PROVE  FindAt(d, c.key, x)
<1>1. c = [op |-> "find", key |-> c.key, at |-> c.at]
  BY Zenon DEF Finding
<1>2. d = FindCall(c.key, x)
  BY <1>1, FindMoved
<1> QED BY <1>2, FindCallIs DEF FindAt

LEMMA UpdateMovedAt ==
  ASSUME NEW t, NEW g, NEW c, NEW its, Updating(t, g, c, its), NEW x, NEW d, d = MovedTo(c, x)
  PROVE  UpdateAt(d, c.key, c.value, x)
<1>1. c = [op |-> "update", key |-> c.key, value |-> c.value, at |-> c.at]
  BY Zenon DEF Updating
<1>2. d = UpdateCall(c.key, c.value, x)
  BY <1>1, UpdateMoved
<1> QED BY <1>2, UpdateCallIs DEF UpdateAt

LEMMA FindFound ==
  ASSUME NEW t, NEW g, NEW c, NEW its, Finding(t, g, c, its), NEW n, n = t.mem[c.at], Holds(n.items, c.key),
         NEW i, i = Smaller(n.items, c.key) + 1
  PROVE  Rest(t, g, its) /\ Of(its, c.key) /= {} /\ <<c.key, n.items[i][2]>> \in its
<1> DEFINE f == g.pages
           k == c.key
           p == c.at
<1>1. PICK w : Seeks(t, f, w, its, p, k)
  BY Zenon DEF Finding
<1>2. n = t.mem[p] /\ Holds(n.items, k) /\ i = Smaller(n.items, k) + 1
  OBVIOUS
<1>m. f = g.pages /\ k = c.key /\ p = c.at
  OBVIOUS
<1> HIDE DEF f, k, p
<1>3. <<k, n.items[i][2]>> \in its /\ Of(its, k) /= {}
  BY <1>1, <1>2, SeekFound
<1>4. Rest(t, g, its)
  BY <1>1, <1>m, Zenon DEF Seeks, Rest
<1> QED BY <1>3, <1>4, <1>m

LEMMA FindNone ==
  ASSUME NEW t, NEW g, NEW c, NEW its, Finding(t, g, c, its), NEW n, n = t.mem[c.at], ~Holds(n.items, c.key), n.kids = <<>>
  PROVE  Rest(t, g, its) /\ Of(its, c.key) = {}
<1> DEFINE f == g.pages
           k == c.key
           p == c.at
<1>1. PICK w : Seeks(t, f, w, its, p, k)
  BY Zenon DEF Finding
<1>2. n = t.mem[p] /\ ~Holds(n.items, k)
  OBVIOUS
<1>m. f = g.pages /\ k = c.key
  OBVIOUS
<1> HIDE DEF f, k, p
<1>3. Of(its, k) = {}
  BY <1>1, <1>2, SeekNone
<1>4. Rest(t, g, its)
  BY <1>1, <1>m, Zenon DEF Seeks, Rest
<1> QED BY <1>3, <1>4, <1>m

LEMMA FindDown ==
  ASSUME NEW t, NEW g, NEW c, NEW its, Finding(t, g, c, its), NEW n, n = t.mem[c.at], ~Holds(n.items, c.key), n.kids /= <<>>,
         NEW x, x = n.kids[Smaller(n.items, c.key) + 1], NEW u, u = Load(t, g.pages, {x}), NEW d, d = MovedTo(c, x)
  PROVE  Finding(u, g, d, its)
<1> DEFINE f == g.pages
           k == c.key
           p == c.at
<1>1. PICK w : Seeks(t, f, w, its, p, k)
  BY Zenon DEF Finding
<1>2. n = t.mem[p] /\ ~Holds(n.items, k) /\ x = n.kids[Smaller(n.items, k) + 1] /\ u = Load(t, f, {x})
  OBVIOUS
<1>m. f = g.pages /\ k = c.key
  OBVIOUS
<1> HIDE DEF f, k, p
<1>3. Seeks(u, f, w, its, x, k)
  BY <1>1, <1>2, SeekDown
<1>4. FindAt(d, c.key, x)
  BY FindMovedAt
<1>5. d = [op |-> "find", key |-> d.key, at |-> d.at] /\ d.key = k /\ d.at = x
  BY <1>4, <1>m, Zenon DEF FindAt
<1>6. Seeks(u, g.pages, w, its, d.at, d.key)
  BY <1>3, <1>5, <1>m
<1> QED BY <1>5, <1>6, Zenon DEF Finding

-----------------------------------------------------------------------------
LEMMA UpdateHit ==
  ASSUME NEW t, NEW g, NEW c, NEW its, Updating(t, g, c, its), NEW n, n = t.mem[c.at], Holds(n.items, c.key),
         NEW i, i = Smaller(n.items, c.key) + 1, NEW it, it = <<c.key, c.value>>, NEW u, u = Replace(t, c.at, i, it)
  PROVE  Rest(u, g, (its \ Of(its, c.key)) \cup {it}) /\ Of(its, c.key) /= {}
<1> DEFINE f == g.pages
           k == c.key
           p == c.at
<1>1. PICK w : Seeks(t, f, w, its, p, k)
  BY Zenon DEF Updating
<1>2. n = t.mem[p] /\ Holds(n.items, k) /\ i = Smaller(n.items, k) + 1 /\ u = Replace(t, p, i, it)
  OBVIOUS
<1>3. it \in Item
  BY DEF Updating
<1>4. it[1] = k
  OBVIOUS
<1>m. f = g.pages /\ k = c.key
  OBVIOUS
<1> HIDE DEF f, k, p
<1>5. Renewed(u, f, its, k, it)
  BY <1>1, <1>2, <1>3, <1>4, UpdateFound
<1>6. <<k, n.items[i][2]>> \in its /\ Of(its, k) /= {}
  BY <1>1, <1>2, SeekFound
<1>7. Rest(u, g, (its \ Of(its, k)) \cup {it})
  BY <1>5, <1>m, Zenon DEF Renewed, Rest
<1> QED BY <1>6, <1>7, <1>m

LEMMA UpdateNone ==
  ASSUME NEW t, NEW g, NEW c, NEW its, Updating(t, g, c, its)
  PROVE  Rest(t, g, its) /\ ~Hollow(t) /\ <<c.key, c.value>> \in Item
<1>1. PICK w : Seeks(t, g.pages, w, its, c.at, c.key)
  BY Zenon DEF Updating
<1>2. Rest(t, g, its)
  BY <1>1, Zenon DEF Seeks, Rest
<1> QED BY <1>2, Zenon DEF Updating

LEMMA UpdateDown ==
  ASSUME NEW t, NEW g, NEW c, NEW its, Updating(t, g, c, its), NEW n, n = t.mem[c.at], ~Holds(n.items, c.key), n.kids /= <<>>,
         NEW x, x = n.kids[Smaller(n.items, c.key) + 1], NEW u, u = Load(t, g.pages, {x}), NEW d, d = MovedTo(c, x)
  PROVE  Updating(u, g, d, its)
<1> DEFINE f == g.pages
           k == c.key
           v == c.value
           p == c.at
<1>1. PICK w : Seeks(t, f, w, its, p, k)
  BY Zenon DEF Updating
<1>2. n = t.mem[p] /\ ~Holds(n.items, k) /\ x = n.kids[Smaller(n.items, k) + 1] /\ u = Load(t, f, {x})
  OBVIOUS
<1>a. <<k, v>> \in Item /\ ~Hollow(t)
  BY Zenon DEF Updating
<1>m. f = g.pages /\ k = c.key /\ v = c.value
  OBVIOUS
<1> HIDE DEF f, k, p, v
<1>3. Seeks(u, f, w, its, x, k) /\ Hollow(u) = Hollow(t)
  BY <1>1, <1>2, SeekDown
<1>4. UpdateAt(d, c.key, c.value, x)
  BY UpdateMovedAt
<1>5. /\ d = [op |-> "update", key |-> d.key, value |-> d.value, at |-> d.at] /\ d.key = k /\ d.value = v /\ d.at = x
  BY <1>4, <1>m, Zenon DEF UpdateAt
<1>6. Seeks(u, g.pages, w, its, d.at, d.key)
  BY <1>3, <1>5, <1>m
<1>7. <<d.key, d.value>> \in Item
  BY <1>a, <1>5, Zenon
<1>8. ~Hollow(u)
  BY <1>3, <1>a
<1> QED BY <1>5, <1>6, <1>7, <1>8, Zenon DEF Updating

(* A call begins.                                                          *)
InsertCall(asked, it, x) == [op |-> "insert", asked |-> asked, item |-> it, at |-> x]

LEMMA InsertCallIs ==
  ASSUME NEW asked, NEW it, NEW x, NEW d, d = InsertCall(asked, it, x)
  PROVE  d = [op |-> "insert", asked |-> d.asked, item |-> d.item, at |-> d.at] /\ d.item = it /\ d.at = x
BY DEF InsertCall

LEMMA InsertBegins ==
  ASSUME NEW t, NEW g, NEW its, Rest(t, g, its), NEW sv, FileOK(g, sv), NEW over, NEW num, ~Hollow(t),
         NEW s, s = InsertReadyFor(t, g, num, over), NEW now, now = IF over \/ t.num = num THEN its ELSE sv,
         NEW u, u = Roomy(s.tree), NEW it \in Item, NEW asked, NEW d, d = InsertCall(asked, it, u.root)
  PROVE  FileOK(s.file, now) /\ Inserting(u, s.file, d, its)
<1> DEFINE r == s.tree
           h == s.file
           f == h.pages
           x == u.root
<1>m. r = s.tree /\ h = s.file /\ f = h.pages /\ x = u.root
  OBVIOUS
<1>1. ReadyIs(t, s, its, now)
  BY InsertReadyForIs
<1> HIDE DEF r, h, f, x
<1>2. RestGood(r, h, its) /\ FileOK(h, now) /\ ~Hollow(r)
  BY <1>1, <1>m DEF ReadyIs
<1>3. PICK w : Good(r, f, w, its)
  BY <1>2, <1>m, Zenon DEF RestGood
<1>4. InsFrom(u, f, its, it)
  BY <1>2, <1>3, <1>m, RoomyIs
<1>5. PICK v : Ins(u, f, v, its, x, it, it[1], u.mem[x])
  BY <1>4, <1>m, Zenon DEF InsFrom
<1>6. d = InsertCall(asked, it, x)
  BY <1>m
<1>7. d = [op |-> "insert", asked |-> d.asked, item |-> d.item, at |-> d.at] /\ d.item = it /\ d.at = x
  BY <1>6, InsertCallIs
<1>8. Ins(u, h.pages, v, its, d.at, d.item, d.item[1], u.mem[d.at])
  BY <1>5, <1>7, <1>m
<1>9. Inserting(u, h, d, its)
  BY <1>7, <1>8, Zenon DEF Inserting
<1> QED BY <1>2, <1>9, <1>m

LEMMA KeyRange ==
  ASSUME NEW k \in Keys
  PROVE  k \in Int /\ 1 <= k /\ k <= KeyCount
BY BTreeCallsAssumption DEF Keys

LEMMA DeleteBegins ==
  ASSUME NEW t, NEW g, NEW its, Rest(t, g, its), NEW sv, FileOK(g, sv), NEW over, over => ~Hollow(t),
         NEW s, s = ReadyFor(t, g, over), NEW now, now = IF over THEN its ELSE sv,
         NEW u, u = Shrunk(s.tree), NEW k \in Keys, NEW d, d = DelCall(k, k, u.root)
  PROVE  FileOK(s.file, now) /\ Deleting(u, s.file, d, its)
<1> DEFINE r == s.tree
           h == s.file
           f == h.pages
           x == u.root
<1>m. r = s.tree /\ h = s.file /\ f = h.pages /\ x = u.root
  OBVIOUS
<1>1. ReadyIs(t, s, its, now)
  BY ReadyForIs
<1> HIDE DEF r, h, f, x
<1>2. RestGood(r, h, its) /\ FileOK(h, now)
  BY <1>1, <1>m DEF ReadyIs
<1>3. PICK w : Good(r, f, w, its)
  BY <1>2, <1>m, Zenon DEF RestGood
<1>4. PlainFrom(u, f, its, k)
  <2>1. k \in Int /\ 1 <= k /\ k <= KeyCount
    BY KeyRange
  <2> QED BY <1>3, <1>m, <2>1, ShrunkIs
<1>5. PICK v : Plain(u, f, v, its, x, k)
  BY <1>4, <1>m, Zenon DEF PlainFrom
<1>6. d = DelCall(k, k, x)
  BY <1>m
<1>7. d = [op |-> "del", key |-> d.key, seek |-> d.seek, at |-> d.at] /\ d.key = k /\ d.seek = k /\ d.at = x
  BY <1>6, DelCallIs
<1>8. Plain(u, h.pages, v, its, d.at, d.key) /\ d.seek = d.key
  BY <1>5, <1>7, <1>m
<1>9. Deleting(u, h, d, its)
  BY <1>7, <1>8, Zenon DEF Deleting
<1> QED BY <1>2, <1>9, <1>m

SeekFrom(u, h, k, its) == \E v : Seeks(u, h.pages, v, its, u.root, k)

LEMMA SeekBegins ==
  ASSUME NEW t, NEW g, NEW its, Rest(t, g, its), NEW sv, FileOK(g, sv), NEW over, over => ~Hollow(t),
         NEW s, s = ReadyFor(t, g, over), NEW now, now = IF over THEN its ELSE sv, NEW k \in Keys
  PROVE  FileOK(s.file, now) /\ SeekFrom(s.tree, s.file, k, its) /\ (~Hollow(t) => ~Hollow(s.tree))
<1> DEFINE r == s.tree
           h == s.file
           f == h.pages
<1>m. r = s.tree /\ h = s.file /\ f = h.pages
  OBVIOUS
<1>1. ReadyIs(t, s, its, now)
  BY ReadyForIs
<1> HIDE DEF r, h, f
<1>2. RestGood(r, h, its) /\ FileOK(h, now) /\ (~Hollow(t) => ~Hollow(r))
  BY <1>1, <1>m DEF ReadyIs
<1>3. PICK w : Good(r, f, w, its)
  BY <1>2, <1>m, Zenon DEF RestGood
<1>4. k \in Int /\ 1 <= k /\ k <= KeyCount
  BY KeyRange
<1>5. Here(r, w, r.root, k)
  BY <1>3, <1>4, RootHere
<1>6. Seeks(r, f, w, its, r.root, k)
  BY <1>3, <1>4, <1>5, Zenon DEF Seeks
<1>7. SeekFrom(r, h, k, its)
  BY <1>6, <1>m, Zenon DEF SeekFrom
<1> QED BY <1>2, <1>7, <1>m

LEMMA FindBegins ==
  ASSUME NEW u, NEW h, NEW k, NEW its, SeekFrom(u, h, k, its), NEW d, d = FindCall(k, u.root)
  PROVE  Finding(u, h, d, its)
<1> DEFINE x == u.root
<1>m. x = u.root /\ d = FindCall(k, x)
  OBVIOUS
<1> HIDE DEF x
<1>1. PICK v : Seeks(u, h.pages, v, its, x, k)
  BY <1>m, Zenon DEF SeekFrom
<1>2. d = [op |-> "find", key |-> d.key, at |-> d.at] /\ d.key = k /\ d.at = x
  BY <1>m, FindCallIs
<1>3. Seeks(u, h.pages, v, its, d.at, d.key)
  BY <1>1, <1>2
<1> QED BY <1>2, <1>3, Zenon DEF Finding

LEMMA UpdateBegins ==
  ASSUME NEW u, NEW h, NEW k, NEW its, SeekFrom(u, h, k, its), NEW v, <<k, v>> \in Item, ~Hollow(u),
         NEW d, d = UpdateCall(k, v, u.root)
  PROVE  Updating(u, h, d, its)
<1> DEFINE x == u.root
<1>m. x = u.root /\ d = UpdateCall(k, v, x)
  OBVIOUS
<1> HIDE DEF x
<1>1. PICK w : Seeks(u, h.pages, w, its, x, k)
  BY <1>m, Zenon DEF SeekFrom
<1>2. /\ d = [op |-> "update", key |-> d.key, value |-> d.value, at |-> d.at]
      /\ d.key = k /\ d.value = v /\ d.at = x
  BY <1>m, UpdateCallIs
<1>3. Seeks(u, h.pages, w, its, d.at, d.key) /\ <<d.key, d.value>> \in Item
  BY <1>1, <1>2
<1> QED BY <1>2, <1>3, Zenon DEF Updating

Present(k) == At(k) /= {}
YesNo(b) == IF b THEN "yes" ELSE "no"

(* A call that ends answers what the dictionary as it was before says. *)
RightAnswer ==
  call' = Idle =>
    /\ call.op = "insert" => answer'.res = YesNo(~Present(call.item[1]))
    /\ call.op = "del" => answer'.res = YesNo(Present(call.key))
    /\ call.op = "find" => IF Present(call.key) THEN <<call.key, answer'.res>> \in items ELSE answer'.res = "no"
    /\ call.op = "update" => answer'.res = "yes" /\ Present(call.key)

(* What a step leaves behind. *)
StepOK == CallsOK' /\ RightAnswer

LEMMA NowOK ==
  ASSUME FileOK(file', saved'), CallOK(tree', file', call', items'), call' = Closed => items' = saved'
  PROVE  CallsOK'
BY Zenon DEF CallsOK

LEMMA NowBusy ==
  ASSUME FileOK(file', saved'),
         Inserting(tree', file', call', items') \/ Deleting(tree', file', call', items')
         \/ LentOut(tree', file', call', items') \/ Edging(tree', file', call', items')
         \/ Finding(tree', file', call', items') \/ Updating(tree', file', call', items')
  PROVE  StepOK
<1>1. CallOK(tree', file', call', items')
  BY Zenon DEF CallOK
<1>2. /\ call' = Closed => call'.op = "closed"
      /\ call' = Idle => call'.op = "none"
      /\ Inserting(tree', file', call', items') => call'.op = "insert"
      /\ Deleting(tree', file', call', items') => call'.op = "del"
      /\ LentOut(tree', file', call', items') => call'.op = "del"
      /\ Edging(tree', file', call', items') => call'.op \in {"pred", "succ"}
      /\ Finding(tree', file', call', items') => call'.op = "find"
      /\ Updating(tree', file', call', items') => call'.op = "update"
  BY OpOf, Zenon
<1>3. call' /= Closed /\ call' /= Idle
  <2> DEFINE o == call'.op
  <2>1. o \in {"insert", "del", "pred", "succ", "find", "update"}
    BY <1>2, Zenon
  <2>2. (call' = Closed => o = "closed") /\ (call' = Idle => o = "none")
    BY <1>2, Zenon
  <2> HIDE DEF o
  <2> QED BY <2>1, <2>2
<1>4. CallsOK'
  BY <1>1, <1>3, NowOK, Zenon
<1>5. RightAnswer
  BY <1>3, Zenon DEF RightAnswer
<1> QED BY <1>4, <1>5, Zenon DEF StepOK

LEMMA NowIdle ==
  ASSUME FileOK(file', saved'), Rest(tree', file', items'), call' = Idle, RightAnswer
  PROVE  StepOK
<1>1. CallOK(tree', file', call', items')
  BY Zenon DEF CallOK
<1>2. call' /= Closed
  <2>1. Idle.op /= Closed.op
    BY DEF Idle, Closed
  <2> QED BY <2>1
<1>3. CallsOK'
  BY <1>1, <1>2, NowOK, Zenon
<1> QED BY <1>3, Zenon DEF StepOK

(* Between calls. *)
LEMMA IdleIs ==
  ASSUME CallsOK, call.op = "none"
  PROVE  FileOK(file, saved) /\ Rest(tree, file, items) /\ call = Idle
<1>1. FileOK(file, saved) /\ CallOK(tree, file, call, items)
  BY Zenon DEF CallsOK
<1>2. call.op = "none" => call = Idle /\ Rest(tree, file, items)
  BY <1>1, CallOf, Zenon
<1> QED BY <1>1, <1>2, Zenon

LEMMA OfAt ==
  ASSUME NEW k
  PROVE  At(k) = Of(items, k)
BY Zenon DEF At, Of

LEMMA InsertKeeps ==
  ASSUME CallsOK, NEW k \in Keys, NEW v \in Values, Insert(k, v)
  PROVE  StepOK
<1> DEFINE s == InsertReady
           over == Over
           u == tree'
           it == <<k, v>>
           d == call'
<1>1. call.op = "none" /\ ~Hollow(tree) /\ file' = s.file /\ saved' = (IF Writes THEN items ELSE saved) /\ items' = items
  BY Zenon DEF Insert, Begin
<1>2. u = Roomy(s.tree) /\ d = InsertCall("insert", it, u.root)
  BY Zenon DEF Insert, StartInsert, InsertCall
<1>3. s = InsertReadyFor(tree, file, OptimizeNum, over) /\ (Writes <=> (over \/ tree.num = OptimizeNum))
  BY Zenon DEF InsertReady, Writes
<1>4. it \in Item
  BY DEF Item
<1>5. FileOK(file, saved) /\ Rest(tree, file, items)
  BY <1>1, IdleIs, Zenon
<1>6. saved' = IF over \/ tree.num = OptimizeNum THEN items ELSE saved
  BY <1>1, <1>3, Zenon
<1> HIDE DEF s, over, u, it, d
<1>7. FileOK(s.file, saved') /\ Inserting(u, s.file, d, items)
  BY <1>1, <1>2, <1>3, <1>4, <1>5, <1>6, InsertBegins
<1>8. FileOK(file', saved') /\ Inserting(tree', file', call', items')
  BY <1>7, <1>1, Zenon DEF u, d
<1> QED BY <1>8, NowBusy, Zenon

LEMMA DeleteKeeps ==
  ASSUME CallsOK, NEW k \in Keys, Delete(k)
  PROVE  StepOK
<1> DEFINE s == Ready
           over == Over
           u == tree'
           d == call'
<1>1. /\ call.op = "none" /\ (over => ~Hollow(tree)) /\ file' = s.file /\ saved' = (IF over THEN items ELSE saved)
      /\ items' = items
  BY Zenon DEF Delete, Begin
<1>2. u = Shrunk(s.tree) /\ d = DelCall(k, k, u.root)
  BY Zenon DEF Delete, DelCall
<1>3. s = ReadyFor(tree, file, over)
  BY Zenon DEF Ready
<1>5. FileOK(file, saved) /\ Rest(tree, file, items)
  BY <1>1, IdleIs, Zenon
<1> HIDE DEF s, over, u, d
<1>7. FileOK(s.file, saved') /\ Deleting(u, s.file, d, items)
  BY <1>1, <1>2, <1>3, <1>5, DeleteBegins
<1>8. FileOK(file', saved') /\ Deleting(tree', file', call', items')
  BY <1>7, <1>1, Zenon DEF u, d
<1> QED BY <1>8, NowBusy, Zenon

LEMMA FindKeeps ==
  ASSUME CallsOK, NEW k \in Keys, Find(k)
  PROVE  StepOK
<1> DEFINE s == Ready
           over == Over
           u == tree'
           d == call'
<1>1. /\ call.op = "none" /\ (over => ~Hollow(tree)) /\ file' = s.file /\ saved' = (IF over THEN items ELSE saved)
      /\ items' = items
  BY Zenon DEF Find, Begin
<1>2. u = s.tree /\ d = FindCall(k, u.root)
  BY Zenon DEF Find, FindCall
<1>3. s = ReadyFor(tree, file, over)
  BY Zenon DEF Ready
<1>5. FileOK(file, saved) /\ Rest(tree, file, items)
  BY <1>1, IdleIs, Zenon
<1> HIDE DEF s, over, u, d
<1>6. FileOK(s.file, saved') /\ SeekFrom(s.tree, s.file, k, items)
  BY <1>1, <1>3, <1>5, SeekBegins
<1>7. Finding(u, s.file, d, items)
  BY <1>6, <1>2, FindBegins
<1>8. FileOK(file', saved') /\ Finding(tree', file', call', items')
  BY <1>6, <1>7, <1>1, Zenon DEF u, d
<1> QED BY <1>8, NowBusy, Zenon

LEMMA UpdateKeeps ==
  ASSUME CallsOK, NEW k \in Keys, NEW v \in Values, Update(k, v)
  PROVE  StepOK
<1> DEFINE s == Ready
           over == Over
           u == tree'
           d == call'
<1>1. /\ call.op = "none" /\ ~Hollow(tree) /\ file' = s.file /\ saved' = (IF over THEN items ELSE saved)
      /\ items' = items
  BY Zenon DEF Update, Begin
<1>2. u = s.tree /\ d = UpdateCall(k, v, u.root)
  BY Zenon DEF Update, UpdateCall
<1>3. s = ReadyFor(tree, file, over)
  BY Zenon DEF Ready
<1>4. <<k, v>> \in Item
  BY DEF Item
<1>5. FileOK(file, saved) /\ Rest(tree, file, items)
  BY <1>1, IdleIs, Zenon
<1> HIDE DEF s, over, u, d
<1>6. FileOK(s.file, saved') /\ SeekFrom(s.tree, s.file, k, items) /\ ~Hollow(s.tree)
  BY <1>1, <1>3, <1>5, SeekBegins
<1>7. Updating(u, s.file, d, items)
  BY <1>6, <1>2, <1>4, UpdateBegins
<1>8. FileOK(file', saved') /\ Updating(tree', file', call', items')
  BY <1>6, <1>7, <1>1, Zenon DEF u, d
<1> QED BY <1>8, NowBusy, Zenon

LEMMA BusyIs ==
  ASSUME CallsOK
  PROVE  /\ FileOK(file, saved)
         /\ call.op = "insert" => Inserting(tree, file, call, items)
         /\ call.op = "del" => Deleting(tree, file, call, items) \/ LentOut(tree, file, call, items)
         /\ call.op \in {"pred", "succ"} => Edging(tree, file, call, items)
         /\ call.op = "find" => Finding(tree, file, call, items)
         /\ call.op = "update" => Updating(tree, file, call, items)
<1>1. FileOK(file, saved) /\ CallOK(tree, file, call, items)
  BY Zenon DEF CallsOK
<1>2. /\ call.op = "insert" => Inserting(tree, file, call, items)
      /\ call.op = "del" => Deleting(tree, file, call, items) \/ LentOut(tree, file, call, items)
      /\ call.op \in {"pred", "succ"} => Edging(tree, file, call, items)
      /\ call.op = "find" => Finding(tree, file, call, items)
      /\ call.op = "update" => Updating(tree, file, call, items)
  BY <1>1, CallOf, Zenon
<1> QED BY <1>1, <1>2, Zenon

AnswerIs(op, k, res) == call' = Idle /\ answer' = [op |-> op, key |-> k, res |-> res]

LEMMA AnswerRes ==
  ASSUME NEW op, NEW k, NEW res, Answer(op, k, res)
  PROVE  call' = Idle /\ answer'.res = res
<1>1. call' = Idle /\ answer' = [op |-> op, key |-> k, res |-> res]
  BY Zenon DEF Answer
<1>2. answer'.res = res
  BY <1>1
<1> QED BY <1>1, <1>2, Zenon

(* The answers of each call. *)
LEMMA InsertRight ==
  ASSUME call.op = "insert", answer'.res = YesNo(~Present(call.item[1]))
  PROVE  RightAnswer
BY DEF RightAnswer

LEMMA DelRight ==
  ASSUME call.op = "del", answer'.res = YesNo(Present(call.key))
  PROVE  RightAnswer
BY DEF RightAnswer

LEMMA FindRight ==
  ASSUME call.op = "find",
         IF Present(call.key) THEN <<call.key, answer'.res>> \in items ELSE answer'.res = "no"
  PROVE  RightAnswer
BY DEF RightAnswer

LEMMA UpdateRight ==
  ASSUME call.op = "update", answer'.res = "yes" /\ Present(call.key)
  PROVE  RightAnswer
BY DEF RightAnswer

LEMMA InsertRoundKeeps ==
  ASSUME CallsOK, InsertRound
  PROVE  StepOK
<1> DEFINE o == InsertStep(tree, file.pages, call.at, call.item)
           it == call.item
           k == call.item[1]
<1>1. call.op = "insert" /\ file' = file /\ saved' = saved /\ tree' = o.tree
  BY Zenon DEF InsertRound
<1>2. \/ o.res = "on" /\ call' = MovedTo(call, o.at) /\ items' = items
      \/ o.res /= "on" /\ Answer(call.asked, k, o.res) /\ items' = IF At(k) = {} THEN items \cup {it} ELSE items
  BY Zenon DEF InsertRound, MovedTo
<1>3. FileOK(file, saved) /\ Inserting(tree, file, call, items)
  BY <1>1, BusyIs, Zenon
<1>m. o = InsertStep(tree, file.pages, call.at, call.item) /\ it = call.item /\ k = call.item[1]
  OBVIOUS
<1> HIDE DEF o, it, k
<1>4. InsertTo(tree, file, call, items, o)
  BY <1>3, <1>m, InsertOut
<1>5. At(k) = Of(items, k)
  BY OfAt
<1>6. CASE o.res = "on"
  <2>1. Inserting(o.tree, file, MovedTo(call, o.at), items)
    BY <1>4, <1>6 DEF InsertTo
  <2>2. call' = MovedTo(call, o.at) /\ items' = items
    BY <1>2, <1>6
  <2>3. Inserting(tree', file', call', items') /\ FileOK(file', saved')
    BY <2>1, <2>2, <1>1, <1>3, Zenon
  <2> QED BY <2>3, NowBusy, Zenon
<1>7. CASE o.res = "no"
  <2>1. Of(items, k) /= {} /\ Rest(o.tree, file, items)
    BY <1>4, <1>7, <1>m DEF InsertTo
  <2>2. Answer(call.asked, k, o.res) /\ items' = items
    BY <1>2, <1>5, <1>7, <2>1
  <2>3. call' = Idle /\ answer'.res = "no"
    BY <2>2, <1>7, AnswerRes
  <2>4. Present(k) /\ YesNo(~Present(k)) = "no"
    BY <2>1, <1>5 DEF Present, YesNo
  <2>5. RightAnswer
    BY <1>1, <2>3, <2>4, <1>m, InsertRight
  <2>6. Rest(tree', file', items') /\ FileOK(file', saved')
    BY <2>1, <2>2, <1>1, <1>3, Zenon
  <2> QED BY <2>3, <2>5, <2>6, NowIdle, Zenon
<1>8. CASE o.res = "yes"
  <2>1. Of(items, k) = {} /\ Rest(o.tree, file, items \cup {it})
    BY <1>4, <1>8, <1>m DEF InsertTo
  <2>2. Answer(call.asked, k, o.res) /\ items' = items \cup {it}
    BY <1>2, <1>5, <1>8, <2>1
  <2>3. call' = Idle /\ answer'.res = "yes"
    BY <2>2, <1>8, AnswerRes
  <2>4. ~Present(k) /\ YesNo(~Present(k)) = "yes"
    BY <2>1, <1>5 DEF Present, YesNo
  <2>5. RightAnswer
    BY <1>1, <2>3, <2>4, <1>m, InsertRight
  <2>6. Rest(tree', file', items') /\ FileOK(file', saved')
    BY <2>1, <2>2, <1>1, <1>3, Zenon
  <2> QED BY <2>3, <2>5, <2>6, NowIdle, Zenon
<1> QED BY <1>4, <1>6, <1>7, <1>8 DEF InsertTo

LEMMA DeleteRoundKeeps ==
  ASSUME CallsOK, DeleteRound
  PROVE  StepOK
<1> DEFINE o == DeleteStep(tree, file.pages, call.at, call.seek)
           k == call.key
           x == call.at
           place == Smaller(tree.mem[call.at].items, call.seek) + 1
<1>1. /\ call.op = "del" /\ file' = file /\ saved' = saved
      /\ tree' = IF o.res = "yes" THEN [o.tree EXCEPT !.num = @ - 1] ELSE o.tree
  BY Zenon DEF DeleteRound
<1>2. \/ o.res = "on" /\ call' = MovedTo(call, o.at) /\ items' = items
      \/ o.res \in {"pred", "succ"} /\ call' = EdgeCall(o.res, k, o.at, x, place, o.at) /\ items' = items
      \/ o.res \in {"yes", "no"} /\ Answer("del", k, o.res) /\ items' = items \ At(k)
  BY Zenon DEF DeleteRound, MovedTo, EdgeCall
<1>3. FileOK(file, saved) /\ (Deleting(tree, file, call, items) \/ LentOut(tree, file, call, items))
  BY <1>1, BusyIs, Zenon
<1>m. o = DeleteStep(tree, file.pages, call.at, call.seek) /\ k = call.key /\ x = call.at /\ place = PlaceOf(tree, call)
  BY Zenon DEF PlaceOf
<1>t. (o.res = "yes" => tree' = Lowered(o.tree)) /\ (o.res /= "yes" => tree' = o.tree)
  BY <1>1, Zenon DEF Lowered
<1> HIDE DEF o, k, x, place
<1>4. DeleteTo(tree, file, call, items, o)
  BY <1>3, <1>m, DeletingOut, LentOutOut
<1>5. At(k) = Of(items, k)
  BY OfAt
<1>6. CASE o.res = "on"
  <2>1. Deleting(o.tree, file, MovedTo(call, o.at), items) \/ LentOut(o.tree, file, MovedTo(call, o.at), items)
    BY <1>4, <1>6 DEF DeleteTo
  <2>2. call' = MovedTo(call, o.at) /\ items' = items /\ tree' = o.tree
    BY <1>2, <1>6, <1>t
  <2>3. (Deleting(tree', file', call', items') \/ LentOut(tree', file', call', items')) /\ FileOK(file', saved')
    BY <2>1, <2>2, <1>1, <1>3, Zenon
  <2> QED BY <2>3, NowBusy, Zenon
<1>7. CASE o.res \in {"pred", "succ"}
  <2>1. Edging(o.tree, file, EdgeCall(o.res, k, o.at, x, place, o.at), items)
    BY <1>4, <1>7, <1>m DEF DeleteTo
  <2>2. call' = EdgeCall(o.res, k, o.at, x, place, o.at) /\ items' = items /\ tree' = o.tree
    BY <1>2, <1>7, <1>t
  <2>3. Edging(tree', file', call', items') /\ FileOK(file', saved')
    BY <2>1, <2>2, <1>1, <1>3, Zenon
  <2> QED BY <2>3, NowBusy, Zenon
<1>8. CASE o.res = "yes"
  <2>1. Of(items, k) /= {} /\ Rest(Lowered(o.tree), file, items \ Of(items, k))
    BY <1>4, <1>8, <1>m DEF DeleteTo
  <2>2. Answer("del", k, o.res) /\ items' = items \ Of(items, k) /\ tree' = Lowered(o.tree)
    BY <1>2, <1>5, <1>8, <1>t
  <2>3. call' = Idle /\ answer'.res = "yes"
    BY <2>2, <1>8, AnswerRes
  <2>4. YesNo(Present(k)) = "yes"
    BY <2>1, <1>5 DEF Present, YesNo
  <2>5. RightAnswer
    BY <1>1, <2>3, <2>4, <1>m, DelRight
  <2>6. Rest(tree', file', items') /\ FileOK(file', saved')
    BY <2>1, <2>2, <1>1, <1>3, Zenon
  <2> QED BY <2>3, <2>5, <2>6, NowIdle, Zenon
<1>9. CASE o.res = "no"
  <2>1. Of(items, k) = {} /\ Rest(o.tree, file, items)
    BY <1>4, <1>9, <1>m DEF DeleteTo
  <2>2. Answer("del", k, o.res) /\ items' = items /\ tree' = o.tree
    BY <1>2, <1>5, <1>9, <1>t, <2>1
  <2>3. call' = Idle /\ answer'.res = "no"
    BY <2>2, <1>9, AnswerRes
  <2>4. YesNo(Present(k)) = "no"
    BY <2>1, <1>5 DEF Present, YesNo
  <2>5. RightAnswer
    BY <1>1, <2>3, <2>4, <1>m, DelRight
  <2>6. Rest(tree', file', items') /\ FileOK(file', saved')
    BY <2>1, <2>2, <1>1, <1>3, Zenon
  <2> QED BY <2>3, <2>5, <2>6, NowIdle, Zenon
<1> QED BY <1>4, <1>6, <1>7, <1>8, <1>9 DEF DeleteTo

LEMMA EdgeRoundKeeps ==
  ASSUME CallsOK, EdgeRound
  PROVE  StepOK
<1> DEFINE n == tree.mem[call.at]
           last == call.op = "pred"
           x == EdgeKid(n, last)
           e == EdgeOf(n, last)
<1>1. call.op \in {"pred", "succ"} /\ file' = file /\ saved' = saved /\ items' = items
  BY Zenon DEF EdgeRound
<1>2. \/ ~n.leaf /\ tree' = Load(tree, file.pages, {x}) /\ call' = MovedTo(call, x)
      \/ n.leaf /\ tree' = Replace(tree, call.top, call.place, e) /\ call' = DelCall(call.key, e[1], call.kid)
  BY Zenon DEF EdgeRound, MovedTo, DelCall
<1>3. FileOK(file, saved) /\ Edging(tree, file, call, items)
  BY <1>1, BusyIs, Zenon
<1>m. n = tree.mem[call.at] /\ x = EdgeKid(n, call.op = "pred") /\ e = EdgeOf(n, call.op = "pred")
  OBVIOUS
<1> HIDE DEF n, last, x, e
<1>4. CASE ~n.leaf
  <2>1. tree' = Load(tree, file.pages, {x}) /\ call' = MovedTo(call, x)
    BY <1>2, <1>4
  <2>2. Edging(tree', file, call', items)
    BY <2>1, <1>3, <1>4, <1>m, EdgingDown
  <2>3. Edging(tree', file', call', items') /\ FileOK(file', saved')
    BY <2>2, <1>1, <1>3, Zenon
  <2> QED BY <2>3, NowBusy, Zenon
<1>5. CASE n.leaf
  <2>1. tree' = Replace(tree, call.top, call.place, e) /\ call' = DelCall(call.key, e[1], call.kid)
    BY <1>2, <1>5
  <2>2. LentOut(tree', file, call', items)
    BY <2>1, <1>3, <1>5, <1>m, EdgingLends
  <2>3. LentOut(tree', file', call', items') /\ FileOK(file', saved')
    BY <2>2, <1>1, <1>3, Zenon
  <2> QED BY <2>3, NowBusy, Zenon
<1> QED BY <1>4, <1>5

LEMMA FindRoundKeeps ==
  ASSUME CallsOK, FindRound
  PROVE  StepOK
<1> DEFINE n == tree.mem[call.at]
           k == call.key
           i == Smaller(n.items, call.key) + 1
           x == n.kids[i]
<1>1. call.op = "find" /\ file' = file /\ saved' = saved /\ items' = items
  BY Zenon DEF FindRound
<1>2. \/ Holds(n.items, k) /\ Answer("find", k, n.items[i][2]) /\ tree' = tree
      \/ ~Holds(n.items, k) /\ n.kids = <<>> /\ Answer("find", k, "no") /\ tree' = tree
      \/ ~Holds(n.items, k) /\ n.kids /= <<>> /\ tree' = Load(tree, file.pages, {x}) /\ call' = MovedTo(call, x)
  BY Zenon DEF FindRound, MovedTo
<1>3. FileOK(file, saved) /\ Finding(tree, file, call, items)
  BY <1>1, BusyIs, Zenon
<1>m. /\ n = tree.mem[call.at] /\ k = call.key /\ i = Smaller(n.items, call.key) + 1
      /\ x = n.kids[Smaller(n.items, call.key) + 1]
  OBVIOUS
<1> HIDE DEF n, k, i, x
<1>4. At(k) = Of(items, k)
  BY OfAt
<1>5. CASE Holds(n.items, k) /\ Answer("find", k, n.items[i][2]) /\ tree' = tree
  <2>1. Rest(tree, file, items) /\ Of(items, k) /= {} /\ <<k, n.items[i][2]>> \in items
    BY <1>3, <1>5, <1>m, FindFound
  <2>2. call' = Idle /\ answer'.res = n.items[i][2]
    BY <1>5, AnswerRes
  <2>3. Present(k) /\ <<k, answer'.res>> \in items
    BY <2>1, <2>2, <1>4 DEF Present
  <2>4. RightAnswer
    BY <2>3, <1>1, <1>m, FindRight
  <2>5. Rest(tree', file', items') /\ FileOK(file', saved')
    BY <2>1, <1>1, <1>3, <1>5, Zenon
  <2> QED BY <2>2, <2>4, <2>5, NowIdle, Zenon
<1>6. CASE ~Holds(n.items, k) /\ n.kids = <<>> /\ Answer("find", k, "no") /\ tree' = tree
  <2>1. Rest(tree, file, items) /\ Of(items, k) = {}
    BY <1>3, <1>6, <1>m, FindNone
  <2>2. call' = Idle /\ answer'.res = "no"
    BY <1>6, AnswerRes
  <2>3. ~Present(k)
    BY <2>1, <1>4 DEF Present
  <2>4. RightAnswer
    BY <2>2, <2>3, <1>1, <1>m, FindRight
  <2>5. Rest(tree', file', items') /\ FileOK(file', saved')
    BY <2>1, <1>1, <1>3, <1>6, Zenon
  <2> QED BY <2>2, <2>4, <2>5, NowIdle, Zenon
<1>7. CASE ~Holds(n.items, k) /\ n.kids /= <<>> /\ tree' = Load(tree, file.pages, {x}) /\ call' = MovedTo(call, x)
  <2>1. Finding(tree', file, call', items)
    BY <1>3, <1>7, <1>m, FindDown
  <2>2. Finding(tree', file', call', items') /\ FileOK(file', saved')
    BY <2>1, <1>1, <1>3, Zenon
  <2> QED BY <2>2, NowBusy, Zenon
<1> QED BY <1>2, <1>5, <1>6, <1>7

LEMMA UpdateRoundKeeps ==
  ASSUME CallsOK, UpdateRound
  PROVE  StepOK
<1> DEFINE n == tree.mem[call.at]
           k == call.key
           i == Smaller(n.items, call.key) + 1
           x == n.kids[i]
           it == <<call.key, call.value>>
           s == InsertReady
           over == Over
           u == tree'
           d == call'
<1>1. call.op = "update"
  BY Zenon DEF UpdateRound
<1>2. \/ /\ Holds(n.items, k) /\ tree' = Replace(tree, call.at, i, it) /\ Answer("update", k, "yes")
         /\ items' = (items \ At(k)) \cup {it} /\ file' = file /\ saved' = saved
      \/ /\ ~Holds(n.items, k) /\ n.kids = <<>> /\ u = Roomy(s.tree) /\ d = InsertCall("update", it, u.root)
         /\ file' = s.file /\ saved' = (IF Writes THEN items ELSE saved) /\ items' = items
      \/ /\ ~Holds(n.items, k) /\ n.kids /= <<>> /\ tree' = Load(tree, file.pages, {x}) /\ call' = MovedTo(call, x)
         /\ file' = file /\ saved' = saved /\ items' = items
  BY Zenon DEF UpdateRound, MovedTo, StartInsert, InsertCall
<1>3. FileOK(file, saved) /\ Updating(tree, file, call, items)
  BY <1>1, BusyIs, Zenon
<1>s. s = InsertReadyFor(tree, file, OptimizeNum, over) /\ (Writes <=> (over \/ tree.num = OptimizeNum))
  BY Zenon DEF InsertReady, Writes
<1>m. /\ n = tree.mem[call.at] /\ k = call.key /\ i = Smaller(n.items, call.key) + 1
      /\ x = n.kids[Smaller(n.items, call.key) + 1] /\ it = <<call.key, call.value>> /\ u = tree' /\ d = call'
  OBVIOUS
<1> HIDE DEF n, k, i, x, it, s, over, u, d
<1>4. At(k) = Of(items, k)
  BY OfAt
<1>n. Rest(tree, file, items) /\ ~Hollow(tree) /\ it \in Item
  BY <1>3, <1>m, UpdateNone
<1>5. CASE /\ Holds(n.items, k) /\ tree' = Replace(tree, call.at, i, it) /\ Answer("update", k, "yes")
           /\ items' = (items \ At(k)) \cup {it} /\ file' = file /\ saved' = saved
  <2>1. Rest(tree', file, (items \ Of(items, k)) \cup {it}) /\ Of(items, k) /= {}
    BY <1>3, <1>5, <1>m, UpdateHit
  <2>2. call' = Idle /\ answer'.res = "yes"
    BY <1>5, AnswerRes
  <2>3. Present(k)
    BY <2>1, <1>4 DEF Present
  <2>4. RightAnswer
    BY <2>2, <2>3, <1>1, <1>m, UpdateRight
  <2>5. Rest(tree', file', items') /\ FileOK(file', saved')
    BY <2>1, <1>3, <1>4, <1>5, Zenon
  <2> QED BY <2>2, <2>4, <2>5, NowIdle, Zenon
<1>6. CASE /\ ~Holds(n.items, k) /\ n.kids = <<>> /\ u = Roomy(s.tree) /\ d = InsertCall("update", it, u.root)
           /\ file' = s.file /\ saved' = (IF Writes THEN items ELSE saved) /\ items' = items
  <2>1. saved' = IF over \/ tree.num = OptimizeNum THEN items ELSE saved
    BY <1>6, <1>s, Zenon
  <2> DEFINE asked == "update"
  <2>a. u = Roomy(s.tree) /\ d = InsertCall(asked, it, u.root)
    BY <1>6, Zenon
  <2>b. s = InsertReadyFor(tree, file, OptimizeNum, over)
    BY <1>s, Zenon
  <2>c. Rest(tree, file, items) /\ FileOK(file, saved) /\ ~Hollow(tree) /\ it \in Item
    BY <1>n, <1>3, Zenon
  <2> HIDE DEF asked
  <2>2. FileOK(s.file, saved') /\ Inserting(u, s.file, d, items)
    BY <2>1, <2>a, <2>b, <2>c, InsertBegins
  <2>3. FileOK(file', saved') /\ Inserting(tree', file', call', items')
    BY <2>2, <1>6, <1>m, Zenon
  <2> QED BY <2>3, NowBusy, Zenon
<1>7. CASE /\ ~Holds(n.items, k) /\ n.kids /= <<>> /\ tree' = Load(tree, file.pages, {x}) /\ call' = MovedTo(call, x)
           /\ file' = file /\ saved' = saved /\ items' = items
  <2>1. Updating(tree', file, call', items)
    BY <1>3, <1>7, <1>m, UpdateDown
  <2>2. Updating(tree', file', call', items') /\ FileOK(file', saved')
    BY <2>1, <1>7, <1>3, Zenon
  <2> QED BY <2>2, NowBusy, Zenon
<1> QED BY <1>2, <1>5, <1>6, <1>7, Zenon

-----------------------------------------------------------------------------
(* commit, flush, close, open, clear, and the end of the process.          *)
LEMMA QuietRight ==
  ASSUME call.op \in {"none", "closed"}
  PROVE  RightAnswer
BY DEF RightAnswer

LEMMA NowClosed ==
  ASSUME FileOK(file', saved'), tree' = Unloaded(file'.num, file'.count), call' = Closed, items' = saved'
  PROVE  StepOK
<1>1. CallOK(tree', file', call', items')
  BY Zenon DEF CallOK
<1>2. CallsOK'
  BY <1>1, NowOK, Zenon
<1>3. RightAnswer
  <2>1. Closed /= Idle
    <3>1. Idle.op /= Closed.op
      BY DEF Idle, Closed
    <3> QED BY <3>1
  <2> QED BY <2>1, Zenon DEF RightAnswer
<1> QED BY <1>2, <1>3, Zenon DEF StepOK

LEMMA IdleOp == Idle.op = "none" /\ Closed.op = "closed"
BY DEF Idle, Closed

LEMMA CommitNumbers ==
  ASSUME NEW t, NEW f, NEW g, g = Commit(t, f)
  PROVE  g.num = t.num /\ g.count = t.pages
BY CommitIs, Zenon DEF CommitTo

LEMMA WrittenOK ==
  ASSUME CallsOK, NEW op, NEW t, NEW c, Written_(op, t, c)
  PROVE  /\ RightAnswer /\ FileOK(file', saved') /\ Rest(Unmarked(tree), file', items') /\ items' = saved'
         /\ Unloaded(tree.num, tree.pages) = Unloaded(file'.num, file'.count) /\ tree' = t /\ call' = c
<1>1. /\ call = Idle /\ ~Hollow(tree) /\ file' = Commit(tree, file) /\ saved' = items /\ items' = items
      /\ tree' = t /\ call' = c
  BY Zenon DEF Written_
<1>2. call.op = "none"
  BY <1>1, IdleOp
<1>3. FileOK(file, saved) /\ Rest(tree, file, items)
  BY <1>2, IdleIs, Zenon
<1> DEFINE g == file'
           u == Unmarked(tree)
<1>m. g = file' /\ u = Unmarked(tree)
  OBVIOUS
<1> HIDE DEF g, u
<1>4. FileOK(g, items) /\ Rest(u, g, items)
  BY <1>1, <1>3, <1>m, CommitRest
<1>5. g.num = tree.num /\ g.count = tree.pages
  BY <1>1, <1>m, CommitNumbers
<1>6. RightAnswer
  BY <1>2, QuietRight
<1> QED BY <1>1, <1>4, <1>5, <1>6, <1>m, Zenon

LEMMA SaveKeeps ==
  ASSUME CallsOK, Save
  PROVE  StepOK
<1>1. Written_("flush", Unmarked(tree), Idle)
  BY Zenon DEF Save, Unmarked
<1>2. /\ RightAnswer /\ FileOK(file', saved') /\ Rest(Unmarked(tree), file', items')
      /\ tree' = Unmarked(tree) /\ call' = Idle
  BY <1>1, WrittenOK, Zenon
<1> QED BY <1>2, NowIdle, Zenon

LEMMA FlushKeeps ==
  ASSUME CallsOK, Flush
  PROVE  StepOK
<1>1. Written_("flush", Unloaded(tree.num, tree.pages), Idle)
  BY Zenon DEF Flush
<1>2. /\ RightAnswer /\ FileOK(file', saved') /\ items' = saved'
      /\ tree' = Unloaded(file'.num, file'.count) /\ call' = Idle
  BY <1>1, WrittenOK, Zenon
<1>3. Rest(tree', file', items')
  BY <1>2, Zenon DEF Rest
<1> QED BY <1>2, <1>3, NowIdle, Zenon

LEMMA CloseKeeps ==
  ASSUME CallsOK, Close
  PROVE  StepOK
<1>1. Written_("close", Unloaded(tree.num, tree.pages), Closed)
  BY Zenon DEF Close
<1>2. /\ FileOK(file', saved') /\ items' = saved'
      /\ tree' = Unloaded(file'.num, file'.count) /\ call' = Closed
  BY <1>1, WrittenOK, Zenon
<1> QED BY <1>2, NowClosed, Zenon

LEMMA OpenedRest ==
  ASSUME NEW g, NEW its, FileOK(g, its), NEW u, u = Opened(g)
  PROVE  Rest(u, g, its)
<1> DEFINE t == Unloaded(g.num, g.count)
<1>1. u = Rooted(t, g)
  BY DEF Opened
<1>2. Rest(t, g, its)
  BY Zenon DEF Rest
<1> HIDE DEF t
<1>3. RestGood(u, g, its)
  BY <1>1, <1>2, RootedRest
<1> QED BY <1>3, Zenon DEF RestGood, Rest

LEMMA OpenKeeps ==
  ASSUME CallsOK, Open
  PROVE  StepOK
<1>1. call = Closed /\ tree' = Opened(file) /\ call' = Idle /\ file' = file /\ items' = items /\ saved' = saved
  BY Zenon DEF Open
<1>2. FileOK(file, saved) /\ items = saved
  BY <1>1, Zenon DEF CallsOK
<1>3. Rest(tree', file, items)
  BY <1>1, <1>2, OpenedRest
<1>4. RightAnswer
  BY <1>1, IdleOp, QuietRight
<1>5. FileOK(file', saved') /\ Rest(tree', file', items')
  BY <1>1, <1>2, <1>3, Zenon
<1> QED BY <1>1, <1>4, <1>5, NowIdle, Zenon

LEMMA KillKeeps ==
  ASSUME CallsOK, Kill
  PROVE  StepOK
<1>1. tree' = Unloaded(file.num, file.count) /\ call' = Closed /\ items' = saved /\ file' = file /\ saved' = saved
  BY Zenon DEF Kill
<1>2. FileOK(file, saved)
  BY Zenon DEF CallsOK
<1>3. FileOK(file', saved') /\ tree' = Unloaded(file'.num, file'.count) /\ items' = saved'
  BY <1>1, <1>2, Zenon
<1> QED BY <1>1, <1>3, NowClosed, Zenon

LEMMA ClearKeeps ==
  ASSUME CallsOK, Clear
  PROVE  StepOK
<1>1. call = Idle /\ file' = EmptyFile /\ tree' = Opened(EmptyFile) /\ items' = {} /\ saved' = {} /\ call' = call
  BY Zenon DEF Clear
<1>2. FileOK(file', saved')
  BY <1>1, EmptyFileOK, Zenon
<1>3. FileOK(EmptyFile, {})
  BY EmptyFileOK
<1> DEFINE g == EmptyFile
           its == {}
           u == tree'
<1>m. g = EmptyFile /\ its = {} /\ u = tree' /\ u = Opened(g) /\ FileOK(g, its)
  BY <1>1, <1>3, Zenon
<1> HIDE DEF g, its, u
<1>4. Rest(u, g, its)
  BY <1>m, OpenedRest
<1>5. Rest(tree', file', items')
  BY <1>4, <1>m, <1>1, Zenon
<1>6. RightAnswer
  BY <1>1, IdleOp, QuietRight
<1> QED BY <1>1, <1>2, <1>5, <1>6, NowIdle, Zenon

LEMMA InitOK == Init => CallsOK
<1> SUFFICES ASSUME Init PROVE CallsOK
  OBVIOUS
<1>1. file = EmptyFile /\ tree = Unloaded(file.num, file.count) /\ call = Closed /\ items = {} /\ saved = {}
  BY Zenon DEF Init
<1>2. FileOK(file, saved)
  BY <1>1, EmptyFileOK, Zenon
<1>3. CallOK(tree, file, call, items)
  BY <1>1, Zenon DEF CallOK
<1> QED BY <1>1, <1>2, <1>3, Zenon DEF CallsOK

LEMMA StillOK ==
  ASSUME CallsOK, UNCHANGED vars
  PROVE  CallsOK'
<1>1. tree' = tree /\ file' = file /\ call' = call /\ items' = items /\ saved' = saved
  BY DEF vars
<1>2. FileOK(file, saved) /\ CallOK(tree, file, call, items) /\ (call = Closed => items = saved)
  BY Zenon DEF CallsOK
<1> QED BY <1>1, <1>2, NowOK, Zenon

LEMMA NextKeeps ==
  ASSUME CallsOK, Next
  PROVE  StepOK
<1>1. CASE \E k \in Keys, v \in Values : Insert(k, v) \/ Update(k, v)
  BY <1>1, InsertKeeps, UpdateKeeps, Zenon
<1>2. CASE \E k \in Keys : Delete(k) \/ Find(k)
  BY <1>2, DeleteKeeps, FindKeeps, Zenon
<1>3. CASE Round
  BY <1>3, InsertRoundKeeps, DeleteRoundKeeps, EdgeRoundKeeps, FindRoundKeeps, UpdateRoundKeeps, Zenon DEF Round
<1>4. CASE Save \/ Flush \/ Close \/ Open \/ Kill \/ Clear
  BY <1>4, SaveKeeps, FlushKeeps, CloseKeeps, OpenKeeps, KillKeeps, ClearKeeps, Zenon
<1> QED BY <1>1, <1>2, <1>3, <1>4, Zenon DEF Next

(* In every state, between calls and between the rounds of one, after any  *)
(* commit and any end of the process: the tree and the file are B-trees of *)
(* their items, save for a hollow root and a lent neighbour, and the call  *)
(* under way is where it can be answered rightly.  The loops are those of  *)
(* insert (btreedb.cpp:837), _delete (1119) and search_ (544).             *)
THEOREM AlwaysOK == Spec => []CallsOK
<1>1. CallsOK /\ [Next]_vars => CallsOK'
  BY NextKeeps, StillOK, Zenon DEF StepOK
<1> QED BY <1>1, InitOK, PTL DEF Spec

(* What the invariant says of the tree. *)
TreeGood == \E w : Good(tree, file.pages, w, items)
TreeAway == tree = Unloaded(file.num, file.count) /\ FileOK(file, items)
TreeLent == /\ call.op = "del" /\ call.seek /= call.key
            /\ \E w, M, top, place, e : Lend(tree, file.pages, w, items, M, top, place, call.key, e, call.at)

LEMMA TreeIs ==
  ASSUME CallsOK
  PROVE  TreeGood \/ TreeAway \/ TreeLent
<1>1. FileOK(file, saved) /\ CallOK(tree, file, call, items) /\ (call = Closed => items = saved)
  BY Zenon DEF CallsOK
<1>2. CASE call = Closed /\ tree = Unloaded(file.num, file.count)
  BY <1>1, <1>2, Zenon DEF TreeAway
<1>3. CASE call = Idle /\ Rest(tree, file, items)
  BY <1>3, Zenon DEF Rest, TreeAway, TreeGood
<1>4. CASE Inserting(tree, file, call, items)
  <2>1. PICK w : Ins(tree, file.pages, w, items, call.at, call.item, call.item[1], tree.mem[call.at])
    BY <1>4, Zenon DEF Inserting
  <2> QED BY <2>1, Zenon DEF Ins, TreeGood
<1>5. CASE Deleting(tree, file, call, items)
  <2>1. PICK w : Plain(tree, file.pages, w, items, call.at, call.key)
    BY <1>5, Zenon DEF Deleting
  <2> QED BY <2>1, Zenon DEF Plain, TreeGood
<1>6. CASE LentOut(tree, file, call, items)
  <2>1. call.seek /= call.key
    BY <1>6, Zenon DEF LentOut
  <2>2. \E w, M, top, place, e : Lend(tree, file.pages, w, items, M, top, place, call.key, e, call.at)
    BY <1>6, Zenon DEF LentOut
  <2>3. call.op = "del"
    BY <1>6, OpOf, Zenon
  <2> QED BY <2>1, <2>2, <2>3, Zenon DEF TreeLent
<1>7. CASE Edging(tree, file, call, items)
  <2>1. PICK w : EdgeAt(tree, file.pages, w, items, call.op = "pred", call.key, call.top, call.place, call.kid, call.at)
    BY <1>7, Zenon DEF Edging
  <2> QED BY <2>1, Zenon DEF EdgeAt, TreeGood
<1>8. CASE Finding(tree, file, call, items)
  <2>1. PICK w : Seeks(tree, file.pages, w, items, call.at, call.key)
    BY <1>8, Zenon DEF Finding
  <2> QED BY <2>1, Zenon DEF Seeks, TreeGood
<1>9. CASE Updating(tree, file, call, items)
  <2>1. PICK w : Seeks(tree, file.pages, w, items, call.at, call.key)
    BY <1>9, Zenon DEF Updating
  <2> QED BY <2>1, Zenon DEF Seeks, TreeGood
<1> QED BY <1>1, <1>2, <1>3, <1>4, <1>5, <1>6, <1>7, <1>8, <1>9, Zenon DEF CallOK

LEMMA HoldingBTree ==
  ASSUME NEW A, NEW root, NEW w, NEW its, Holding(A, root, w, its)
  PROVE  BTreeOf(A, root, w, its)
<1>1. Shape(A, root, w) /\ Sized(A, root, w) /\ Stock(A, w, its)
  BY Zenon DEF Holding
<1>2. NodesOK(A, w)
  BY <1>1, Zenon DEF Shape
<1>3. \A x : x \in Contents(A, w) <=> x \in its
  <2> TAKE x
  <2>1. x \in Contents(A, w) => Held(A, w, x)
    BY DEF Contents, Held
  <2>2. Held(A, w, x) => x \in Contents(A, w)
    BY <1>2, HeldIsItem
  <2>3. Held(A, w, x) <=> x \in its
    BY <1>1, Zenon DEF Stock
  <2> QED BY <2>1, <2>2, <2>3, Zenon
<1>4. Contents(A, w) = its
  BY <1>3
<1> QED BY <1>1, <1>4, Zenon DEF BTreeOf

LEMMA FileIs ==
  ASSUME CallsOK
  PROVE  FileIntact
<1>1. PICK w : Filed(file, w, saved)
  BY Zenon DEF CallsOK, FileOK
<1>2. Holding(file.pages, file.root, w, saved) /\ file.num = Cardinality(saved)
  BY <1>1, Zenon DEF Filed
<1>3. BTreeOf(file.pages, file.root, w, saved)
  BY <1>2, HoldingBTree, Zenon
<1> QED BY <1>2, <1>3, Zenon DEF FileIntact

LEMMA TreeHolds ==
  ASSUME CallsOK, call.op \in {"none", "closed"}
  PROVE  \E w : BTreeOf(View(tree, file.pages), Root, w, items)
<1>0. TreeGood \/ TreeAway \/ TreeLent
  BY TreeIs, Zenon
<1>1. CASE TreeGood
  <2>1. PICK w : Good(tree, file.pages, w, items)
    BY <1>1, Zenon DEF TreeGood
  <2>2. Holding(View(tree, file.pages), tree.root, w, items)
    BY <2>1, Zenon DEF Good
  <2>3. tree.root /= NoPage
    BY <2>1, GoodRoot, Zenon
  <2>4. Root = tree.root
    BY <2>3, Zenon DEF Root
  <2> QED BY <2>2, <2>4, HoldingBTree, Zenon
<1>2. CASE TreeAway
  <2>1. PICK w : Filed(file, w, items)
    BY <1>2, Zenon DEF TreeAway, FileOK
  <2> DEFINE f == file.pages
             t == tree
             V == View(t, f)
  <2>2. Holding(f, file.root, w, items) /\ \A q \in w.pages : q \in DOMAIN f
    BY <2>1, FiledIs, Zenon DEF Filed
  <2>3. tree = Unloaded(file.num, file.count)
    BY <1>2, Zenon DEF TreeAway
  <2>4. DOMAIN t.mem = {} /\ t.root = NoPage
    <3>1. DOMAIN Unloaded(file.num, file.count).mem = {} /\ Unloaded(file.num, file.count).root = NoPage
      BY UnloadedIs
    <3> QED BY <2>3, <3>1, Zenon
  <2>5. Root = file.root
    BY <2>4, Zenon DEF Root
  <2>m. V = View(t, f)
    OBVIOUS
  <2>6. \A q \in w.pages : q \in DOMAIN V /\ V[q] = f[q]
    <3> HIDE DEF f, t, V
    <3>1. DOMAIN V = DOMAIN t.mem \cup DOMAIN f
      BY <2>m, ViewDomain
    <3> TAKE q \in w.pages
    <3>2. q \in DOMAIN f /\ q \notin DOMAIN t.mem
      BY <2>2, <2>4
    <3>3. V[q] = IF q \in DOMAIN t.mem THEN t.mem[q] ELSE f[q]
      BY <3>2, <2>m, ViewAt
    <3> QED BY <3>1, <3>2, <3>3
  <2> HIDE DEF f, t, V
  <2>7. Holding(V, file.root, w, items)
    BY <2>2, <2>6, SameHolding
  <2>8. BTreeOf(V, Root, w, items)
    BY <2>5, <2>7, HoldingBTree, Zenon
  <2> QED BY <2>8, Zenon DEF f, t, V
<1>3. CASE TreeLent
  BY <1>3 DEF TreeLent
<1> QED BY <1>0, <1>1, <1>2, <1>3, Zenon

LEMMA CountIs ==
  ASSUME CallsOK
  PROVE  CountKept
<1> SUFFICES ASSUME call.op \in {"none", "closed"} PROVE tree.num = Cardinality(items)
  BY Zenon DEF CountKept
<1>0. TreeGood \/ TreeAway \/ TreeLent
  BY TreeIs, Zenon
<1>1. CASE TreeGood
  BY <1>1, Zenon DEF TreeGood, Good, Counted
<1>2. CASE TreeAway
  <2>1. PICK w : Filed(file, w, items)
    BY <1>2, Zenon DEF TreeAway, FileOK
  <2>2. file.num = Cardinality(items)
    BY <2>1, Zenon DEF Filed
  <2>3. tree.num = file.num
    <3>1. Unloaded(file.num, file.count).num = file.num
      BY UnloadedIs
    <3> QED BY <1>2, <3>1, Zenon DEF TreeAway
  <2> QED BY <2>2, <2>3
<1>3. CASE TreeLent
  BY <1>3 DEF TreeLent
<1> QED BY <1>0, <1>1, <1>2, <1>3, Zenon

LEMMA MarksAre ==
  ASSUME CallsOK
  PROVE  MarkedWhenChanged
<1>0. TreeGood \/ TreeAway \/ TreeLent
  BY TreeIs, Zenon
<1>1. CASE \E w : Kept(tree, file.pages, w)
  BY <1>1, Zenon DEF Kept, MarkedWhenChanged
<1>2. CASE TreeGood
  BY <1>1, <1>2, Zenon DEF TreeGood, Good
<1>3. CASE TreeLent
  BY <1>1, <1>3, Zenon DEF TreeLent, Lend, Dig
<1>4. CASE TreeAway
  <2>1. DOMAIN tree.mem = {}
    <3>1. DOMAIN Unloaded(file.num, file.count).mem = {}
      BY UnloadedIs
    <3> QED BY <1>4, <3>1, Zenon DEF TreeAway
  <2> QED BY <2>1 DEF MarkedWhenChanged
<1> QED BY <1>0, <1>2, <1>3, <1>4, Zenon

(* What NodesInPlace says of node n of page p, among those loaded, mem. *)
OwnOrder(mem, root, p, n) ==
  /\ Len(n.kids) = IF n.leaf THEN 0 ELSE Len(n.items) + 1
  /\ Len(n.items) <= MaxKeys
  /\ p /= root => Len(n.items) >= MinDegree - 1
  /\ \A i \in 2 .. Len(n.items) : mem[p].items[i - 1][1] < mem[p].items[i][1]
NotShared(mem, p, n, q) ==
  /\ Range(n.kids) \cap Range(mem[q].kids) = {}
  /\ \A i \in DOMAIN n.items : ~Holds(mem[q].items, mem[p].items[i][1])
KidBetween(mem, root, p, n, i) ==
  /\ n.kids[i] /= root
  /\ n.kids[i] \in DOMAIN mem =>
       \A j \in DOMAIN mem[n.kids[i]].items :
         /\ i > 1 => mem[p].items[i - 1][1] < mem[n.kids[i]].items[j][1]
         /\ i <= Len(n.items) => mem[n.kids[i]].items[j][1] < mem[p].items[i][1]

SeenAs(A, q, n) == (\A j : KeyAt(A, q, j) = n.items[j][1]) /\ (\A j : KidAt(A, q, j) = n.kids[j])

LEMMA LoadedKey ==
  ASSUME NEW t, NEW f, NEW q \in DOMAIN t.mem, NEW A, A = View(t, f)
  PROVE  SeenAs(A, q, t.mem[q])
<1>1. A[q] = t.mem[q]
  BY LoadedAt
<1> QED BY <1>1 DEF SeenAs, KeyAt, ItemAt, KidAt

LEMMA NodeDomains ==
  ASSUME NEW n, n \in Nodes
  PROVE  /\ DOMAIN n.items = 1 .. Len(n.items) /\ DOMAIN n.kids = 1 .. Len(n.kids)
         /\ Len(n.items) \in Nat /\ Len(n.kids) \in Nat
<1>1. n.items \in Seq(Item) /\ n.kids \in Seq(Nat)
  BY DEF Nodes
<1> DEFINE a == n.items
           b == n.kids
<1> HIDE DEF a, b
<1>2. a \in Seq(Item) /\ b \in Seq(Nat)
  BY <1>1 DEF a, b
<1>3. DOMAIN a = 1 .. Len(a) /\ DOMAIN b = 1 .. Len(b) /\ Len(a) \in Nat /\ Len(b) \in Nat
  BY <1>2
<1> QED BY <1>3 DEF a, b

LEMMA OwnOrderIs ==
  ASSUME NEW t, NEW f, NEW w, NEW its, Good(t, f, w, its), NEW p \in DOMAIN t.mem, NEW n, n = t.mem[p]
  PROVE  OwnOrder(t.mem, t.root, p, n)
<1> DEFINE A == View(t, f)
<1>1. NodeSeen(A, w, p, n)
  BY Seen
<1>2. Shape(A, t.root, w) /\ Sized(A, t.root, w)
  BY Zenon DEF Good, Holding
<1>3. Ordered(A, w)
  BY <1>2, Zenon DEF Shape
<1>m. A = View(t, f)
  OBVIOUS
<1> HIDE DEF A
<1>4. /\ p \in w.pages /\ Count(A, p) = Len(n.items) /\ Len(n.kids) = (IF n.leaf THEN 0 ELSE Len(n.items) + 1)
      /\ Len(n.items) \in Nat /\ Len(n.items) <= MaxKeys
  BY <1>1, Zenon DEF NodeSeen
<1>5. p /= t.root => Len(n.items) >= MinDegree - 1
  BY <1>2, <1>4, Zenon DEF Sized
<1>6. \A j : KeyAt(A, p, j) = t.mem[p].items[j][1]
  <2>1. SeenAs(A, p, t.mem[p])
    BY <1>m, LoadedKey
  <2> QED BY <2>1, Zenon DEF SeenAs
<1>7. \A i, j \in 1 .. Count(A, p) : i < j => KeyAt(A, p, i) < KeyAt(A, p, j)
  BY <1>3, <1>4, Zenon DEF Ordered
<1>8. \A i \in 2 .. Len(n.items) : t.mem[p].items[i - 1][1] < t.mem[p].items[i][1]
  <2> TAKE i \in 2 .. Len(n.items)
  <2> DEFINE h == i - 1
             c == Len(n.items)
  <2>0. c = Len(n.items) /\ h = i - 1
    OBVIOUS
  <2> HIDE DEF h, c
  <2>1. i \in 1 .. c /\ h \in 1 .. c /\ h < i
    BY <1>4, <2>0
  <2>2. KeyAt(A, p, h) < KeyAt(A, p, i)
    BY <1>7, <1>4, <2>0, <2>1
  <2>3. t.mem[p].items[h][1] < t.mem[p].items[i][1]
    BY <2>2, <1>6
  <2> QED BY <2>3 DEF h
<1> QED BY <1>4, <1>5, <1>8, Zenon DEF OwnOrder

LEMMA NotSharedIs ==
  ASSUME NEW t, NEW f, NEW w, NEW its, Good(t, f, w, its), NEW p \in DOMAIN t.mem, NEW n, n = t.mem[p],
         NEW q \in DOMAIN t.mem, q /= p
  PROVE  NotShared(t.mem, p, n, q)
<1> DEFINE A == View(t, f)
           m == t.mem[q]
<1>1. NodeSeen(A, w, p, n) /\ NodeSeen(A, w, q, m)
  BY Seen
<1>2. Shape(A, t.root, w)
  BY Zenon DEF Good, Holding
<1>m. A = View(t, f) /\ m = t.mem[q]
  OBVIOUS
<1> HIDE DEF A, m
<1>4. /\ p \in w.pages /\ Count(A, p) = Len(n.items) /\ KidCount(A, p) = Len(n.kids) /\ n \in Nodes
      /\ q \in w.pages /\ Count(A, q) = Len(m.items) /\ KidCount(A, q) = Len(m.kids) /\ m \in Nodes
  BY <1>1, Zenon DEF NodeSeen
<1>5. /\ DOMAIN n.items = 1 .. Len(n.items) /\ DOMAIN n.kids = 1 .. Len(n.kids)
      /\ DOMAIN m.items = 1 .. Len(m.items) /\ DOMAIN m.kids = 1 .. Len(m.kids)
  BY <1>4, NodeDomains
<1>s. SeenAs(A, p, t.mem[p]) /\ SeenAs(A, q, t.mem[q])
  BY <1>m, LoadedKey
<1>6. /\ \A j : KeyAt(A, p, j) = n.items[j][1]
      /\ \A j : KidAt(A, p, j) = n.kids[j]
  BY <1>s, Zenon DEF SeenAs
<1>7. /\ \A j : KeyAt(A, q, j) = m.items[j][1]
      /\ \A j : KidAt(A, q, j) = m.kids[j]
  BY <1>s, <1>m, Zenon DEF SeenAs
<1>8. Range(n.kids) \cap Range(m.kids) = {}
  <2>1. SUFFICES ASSUME NEW x, x \in Range(n.kids), x \in Range(m.kids) PROVE FALSE
    OBVIOUS
  <2>2. PICK i \in DOMAIN n.kids : n.kids[i] = x
    BY <2>1 DEF Range
  <2>3. PICK j \in DOMAIN m.kids : m.kids[j] = x
    BY <2>1 DEF Range
  <2>4. i \in 1 .. KidCount(A, p) /\ j \in 1 .. KidCount(A, q) /\ KidAt(A, p, i) = KidAt(A, q, j)
    BY <2>2, <2>3, <1>4, <1>5, <1>6, <1>7, Zenon
  <2>5. p = q
    BY <2>4, <1>2, <1>4, OneParent
  <2> QED BY <2>5
<1>9. \A i \in DOMAIN n.items : ~Holds(m.items, n.items[i][1])
  <2>1. SUFFICES ASSUME NEW i \in DOMAIN n.items, Holds(m.items, n.items[i][1]) PROVE FALSE
    BY Zenon
  <2>2. PICK j \in DOMAIN m.items : m.items[j][1] = n.items[i][1]
    BY <2>1, Zenon DEF Holds
  <2>4. i \in 1 .. Count(A, p) /\ j \in 1 .. Count(A, q) /\ KeyAt(A, p, i) = KeyAt(A, q, j)
    BY <2>1, <2>2, <1>4, <1>5, <1>6, <1>7, Zenon
  <2>5. p = q
    BY <2>4, <1>2, <1>4, OneHolder
  <2> QED BY <2>5
<1> QED BY <1>8, <1>9, <1>m, Zenon DEF NotShared

LEMMA KidBetweenIs ==
  ASSUME NEW t, NEW f, NEW w, NEW its, Good(t, f, w, its), NEW p \in DOMAIN t.mem, NEW n, n = t.mem[p],
         NEW i \in DOMAIN n.kids
  PROVE  KidBetween(t.mem, t.root, p, n, i)
<1> DEFINE A == View(t, f)
           c == n.kids[i]
<1>1. NodeSeen(A, w, p, n)
  BY Seen
<1>2. Shape(A, t.root, w)
  BY Zenon DEF Good, Holding
<1>3. Ordered(A, w)
  BY <1>2, Zenon DEF Shape
<1>m. A = View(t, f) /\ c = n.kids[i]
  OBVIOUS
<1> HIDE DEF A, c
<1>4. p \in w.pages /\ Count(A, p) = Len(n.items) /\ KidCount(A, p) = Len(n.kids) /\ n \in Nodes
  BY <1>1, Zenon DEF NodeSeen
<1>5. DOMAIN n.kids = 1 .. Len(n.kids) /\ Len(n.kids) \in Nat /\ Len(n.items) \in Nat
  BY <1>4, NodeDomains
<1>s. SeenAs(A, p, t.mem[p])
  BY <1>m, LoadedKey
<1>6. /\ \A j : KeyAt(A, p, j) = t.mem[p].items[j][1]
      /\ \A j : KidAt(A, p, j) = n.kids[j]
  BY <1>s, Zenon DEF SeenAs
<1>7. i \in 1 .. KidCount(A, p) /\ c = KidAt(A, p, i)
  BY <1>4, <1>5, <1>6, <1>m, Zenon
<1>8. KidBelow(A, t.root, w, p, i, c)
  BY <1>2, <1>4, <1>7, KidIsBelow
<1>9. KidIn(A, w, p, i, c)
  BY <1>2, <1>4, <1>7, KidPlace
<1>10. c /= t.root /\ c \in w.pages /\ KidCount(A, p) = Count(A, p) + 1
  BY <1>8, Zenon DEF KidBelow
<1>11. /\ w.lo[c] = (IF i = 1 THEN w.lo[p] ELSE KeyAt(A, p, i - 1))
       /\ w.hi[c] = IF i = KidCount(A, p) THEN w.hi[p] ELSE KeyAt(A, p, i)
  BY <1>9, Zenon DEF KidIn
<1>12. (i > 1 => w.lo[c] = KeyAt(A, p, i - 1)) /\ (i <= Len(n.items) => w.hi[c] = KeyAt(A, p, i))
  <2> DEFINE a == KeyAt(A, p, i - 1)
             b == KeyAt(A, p, i)
             m == KidCount(A, p)
             l == Len(n.items)
             lo == w.lo[c]
             hi == w.hi[c]
             lp == w.lo[p]
             hp == w.hi[p]
  <2>1. /\ lo = (IF i = 1 THEN lp ELSE a) /\ hi = (IF i = m THEN hp ELSE b)
        /\ m = l + 1 /\ l \in Nat /\ i \in 1 .. m
    BY <1>4, <1>5, <1>7, <1>10, <1>11, Zenon
  <2> HIDE DEF a, b, m, l, lo, hi, lp, hp
  <2>2. (i > 1 => lo = a) /\ (i <= l => hi = b)
    BY <2>1
  <2> QED BY <2>2 DEF a, b, l, lo, hi
<1>13. ASSUME c \in DOMAIN t.mem, NEW j \in DOMAIN t.mem[c].items
       PROVE  /\ i > 1 => t.mem[p].items[i - 1][1] < t.mem[c].items[j][1]
              /\ i <= Len(n.items) => t.mem[c].items[j][1] < t.mem[p].items[i][1]
  <2> DEFINE m == t.mem[c]
  <2>m. m = t.mem[c]
    OBVIOUS
  <2> HIDE DEF m
  <2>1. NodeSeen(A, w, c, m)
    BY <1>13, <1>m, <2>m, Seen
  <2>2. Count(A, c) = Len(m.items) /\ m \in Nodes
    BY <2>1, Zenon DEF NodeSeen
  <2>3. DOMAIN m.items = 1 .. Len(m.items)
    BY <2>2, NodeDomains
  <2>4. j \in 1 .. Count(A, c)
    BY <2>2, <2>3, <2>m, <1>13, Zenon
  <2>5. KeyAt(A, c, j) = t.mem[c].items[j][1]
    <3>1. SeenAs(A, c, t.mem[c])
      BY <1>13, <1>m, LoadedKey
    <3> QED BY <3>1, Zenon DEF SeenAs
  <2>6. w.lo[c] < KeyAt(A, c, j) /\ KeyAt(A, c, j) < w.hi[c]
    BY <1>3, <1>10, <2>4, Zenon DEF Ordered
  <2>7. /\ i > 1 => KeyAt(A, p, i - 1) < KeyAt(A, c, j)
        /\ i <= Len(n.items) => KeyAt(A, c, j) < KeyAt(A, p, i)
    BY <2>6, <1>12, Zenon
  <2> QED BY <2>5, <2>7, <1>6, Zenon
<1> QED BY <1>10, <1>13, <1>m, Zenon DEF KidBetween

LEMMA PlacesKept ==
  ASSUME CallsOK
  PROVE  NodesInPlace
<1> SUFFICES ASSUME ~Lending, NEW p \in DOMAIN tree.mem
             PROVE  LET n == tree.mem[p]
                        KeyOf(q, j) == tree.mem[q].items[j][1]
                    IN /\ Len(n.kids) = IF n.leaf THEN 0 ELSE Len(n.items) + 1
                       /\ Len(n.items) <= MaxKeys
                       /\ p /= tree.root => Len(n.items) >= MinDegree - 1
                       /\ \A i \in 2 .. Len(n.items) : KeyOf(p, i - 1) < KeyOf(p, i)
                       /\ \A q \in DOMAIN tree.mem \ {p} :
                            /\ Range(n.kids) \cap Range(tree.mem[q].kids) = {}
                            /\ \A i \in DOMAIN n.items : ~Holds(tree.mem[q].items, KeyOf(p, i))
                       /\ \A i \in DOMAIN n.kids :
                            /\ n.kids[i] /= tree.root
                            /\ n.kids[i] \in DOMAIN tree.mem =>
                                 \A j \in DOMAIN tree.mem[n.kids[i]].items :
                                   /\ i > 1 => KeyOf(p, i - 1) < KeyOf(n.kids[i], j)
                                   /\ i <= Len(n.items) => KeyOf(n.kids[i], j) < KeyOf(p, i)
  BY Zenon DEF NodesInPlace
<1>1. TreeGood \/ TreeAway \/ TreeLent
  BY TreeIs, Zenon
<1>2. ~TreeLent
  BY Zenon DEF TreeLent, Lending
<1>3. ~TreeAway
  <2>1. DOMAIN Unloaded(file.num, file.count).mem = {}
    BY UnloadedIs
  <2>2. TreeAway => DOMAIN tree.mem = {}
    BY <2>1, Zenon DEF TreeAway
  <2> QED BY <2>2
<1>4. PICK w : Good(tree, file.pages, w, items)
  BY <1>1, <1>2, <1>3, Zenon DEF TreeGood
<1> DEFINE n == tree.mem[p]
           f == file.pages
<1>m. n = tree.mem[p] /\ f = file.pages
  OBVIOUS
<1> HIDE DEF n, f
<1>g. Good(tree, f, w, items)
  BY <1>4, <1>m
<1>5. OwnOrder(tree.mem, tree.root, p, n)
  BY <1>g, <1>m, OwnOrderIs
<1>6. \A q \in DOMAIN tree.mem \ {p} : NotShared(tree.mem, p, n, q)
  <2> TAKE q \in DOMAIN tree.mem \ {p}
  <2>1. q \in DOMAIN tree.mem /\ q /= p
    OBVIOUS
  <2> QED BY <2>1, <1>g, <1>m, NotSharedIs
<1>7. \A i \in DOMAIN n.kids : KidBetween(tree.mem, tree.root, p, n, i)
  <2> TAKE i \in DOMAIN n.kids
  <2> QED BY <1>g, <1>m, KidBetweenIs
<1> QED BY <1>5, <1>6, <1>7, <1>m, Zenon DEF OwnOrder, NotShared, KidBetween

-----------------------------------------------------------------------------
(* Between calls the nodes of the root and below, in memory or still in    *)
(* the file, are a B-tree of exactly the items that insert added and del   *)
(* did not remove, whatever was split (btreedb.cpp:590, 651), merged (738) *)
(* and lent (1264, 1319) on the way.                                       *)
THEOREM TreeStaysIntact == Spec => []TreeIntact
<1>1. CallsOK => TreeIntact
  BY TreeHolds, Zenon DEF TreeIntact
<1> QED BY <1>1, AlwaysOK, PTL

(* What commit (btreedb.cpp:1062) leaves in the file is a B-tree of the    *)
(* items at that time, counted in the header, until the next commit.       *)
THEOREM FileStaysIntact == Spec => []FileIntact
<1>1. CallsOK => FileIntact
  BY FileIs
<1> QED BY <1>1, AlwaysOK, PTL

(* After every round the loaded nodes fit each other, and none but the     *)
(* root is below the least size that _merge (btreedb.cpp:738) relies on or *)
(* above what a page has room for.                                         *)
THEOREM NodesStayInPlace == Spec => []NodesInPlace
<1>1. CallsOK => NodesInPlace
  BY PlacesKept
<1> QED BY <1>1, AlwaysOK, PTL

(* _sfh.numItems, which insert adds to and del (btreedb.cpp:1490) takes    *)
(* from, is the number of items.                                           *)
THEOREM CountStaysKept == Spec => []CountKept
<1>1. CallsOK => CountKept
  BY CountIs
<1> QED BY <1>1, AlwaysOK, PTL

(* Whatever _setDirty (btreedb.cpp:330) has not marked is in the file as   *)
(* it is in memory, so commit, and the unloading of a full cache (392),    *)
(* lose nothing; only a hollow root is not (781).                          *)
THEOREM ChangesStayMarked == Spec => []MarkedWhenChanged
<1>1. CallsOK => MarkedWhenChanged
  BY MarksAre
<1> QED BY <1>1, AlwaysOK, PTL

(* The three of them: what the rounds of a call may rely on.               *)
THEOREM CallsStayIntact == Spec => []CallsIntact
<1>1. NodesInPlace /\ CountKept /\ MarkedWhenChanged <=> CallsIntact
  BY DEF CallsIntact
<1> QED BY <1>1, NodesStayInPlace, CountStaysKept, ChangesStayMarked, PTL

(* Items with one value for each key, as a dictionary. *)
Keyed(its) == its \subseteq Item /\ \A x, y \in its : x[1] = y[1] => x = y
KeysOf(its) == {it[1] : it \in its}

LEMMA ItemPair ==
  ASSUME NEW x \in Item
  PROVE  x = <<x[1], x[2]>> /\ x[1] \in Keys /\ x[2] \in Values
BY DEF Item

LEMMA DictShape ==
  ASSUME NEW its
  PROVE  DOMAIN Dict(its) = KeysOf(its) /\ Dict(its) = [j \in KeysOf(its) |-> Dict(its)[j]]
<1> DEFINE K == KeysOf(its)
           C(j) == CHOOSE v \in Values : <<j, v>> \in its
           D == Dict(its)
<1>1. D = [j \in K |-> C(j)]
  BY Zenon DEF Dict, KeysOf
<1> HIDE DEF K, C, D
<1>2. DOMAIN D = K /\ D = [j \in K |-> D[j]]
  BY <1>1
<1> QED BY <1>2, Zenon DEF K, D

LEMMA DictAt ==
  ASSUME NEW its, Keyed(its), NEW x \in its
  PROVE  x[1] \in KeysOf(its) /\ Dict(its)[x[1]] = x[2]
<1>1. x \in Item /\ \A y \in its : y \in Item /\ (y[1] = x[1] => y = x)
  BY DEF Keyed
<1>2. x = <<x[1], x[2]>> /\ x[1] \in Keys /\ x[2] \in Values
  BY <1>1, ItemPair
<1> DEFINE k == x[1]
           v == CHOOSE u \in Values : <<k, u>> \in its
<1>3. k \in KeysOf(its)
  BY DEF KeysOf
<1>4. Dict(its)[k] = v
  BY <1>3 DEF Dict, KeysOf
<1>5. v \in Values /\ <<k, v>> \in its
  BY <1>2
<1>6. <<k, v>>[1] = k /\ <<k, v>>[2] = v
  OBVIOUS
<1> HIDE DEF v, k
<1>m. k = x[1]
  BY DEF k
<1>7. <<k, v>> = x
  BY <1>5, <1>1, <1>6, <1>m
<1>8. v = x[2]
  BY <1>7, <1>6
<1> QED BY <1>3, <1>4, <1>8, <1>m

LEMMA KeysIn ==
  ASSUME NEW its, NEW j \in KeysOf(its)
  PROVE  \E x \in its : x[1] = j
BY DEF KeysOf

(* A function with the keys and values of the items is their dictionary. *)
LEMMA DictIs ==
  ASSUME NEW its, Keyed(its), NEW g, g = [j \in DOMAIN g |-> g[j]], DOMAIN g = KeysOf(its),
         \A x \in its : g[x[1]] = x[2]
  PROVE  g = Dict(its)
<1>1. DOMAIN Dict(its) = KeysOf(its) /\ Dict(its) = [j \in KeysOf(its) |-> Dict(its)[j]]
  BY DictShape
<1>2. ASSUME NEW j \in KeysOf(its) PROVE g[j] = Dict(its)[j]
  <2>1. PICK x \in its : x[1] = j
    BY KeysIn
  <2>2. Dict(its)[x[1]] = x[2]
    BY DictAt
  <2> QED BY <2>1, <2>2
<1> DEFINE h == Dict(its)
           K == KeysOf(its)
<1> HIDE DEF h, K
<1>3. h = [j \in K |-> h[j]] /\ g = [j \in K |-> g[j]]
  BY <1>1 DEF h, K
<1>4. \A j \in K : g[j] = h[j]
  BY <1>2, Zenon DEF h, K
<1>5. g = h
  BY <1>3, <1>4
<1> QED BY <1>5 DEF h

LEMMA KeyOfDict ==
  ASSUME NEW its, NEW k
  PROVE  k \in DOMAIN Dict(its) <=> Of(its, k) /= {}
<1>1. DOMAIN Dict(its) = KeysOf(its)
  BY DictShape
<1>2. k \in KeysOf(its) <=> \E x \in its : x[1] = k
  BY DEF KeysOf
<1>3. Of(its, k) /= {} <=> \E x \in its : x[1] = k
  BY DEF Of
<1> QED BY <1>1, <1>2, <1>3

PutAt(D, k, v) == [j \in DOMAIN D \cup {k} |-> IF j = k THEN v ELSE D[j]]

LEMMA KeyedWithout ==
  ASSUME NEW its, Keyed(its), NEW k
  PROVE  Keyed(its \ Of(its, k))
BY DEF Keyed

LEMMA KeyedWith ==
  ASSUME NEW its, Keyed(its), NEW it \in Item, NEW k, k = it[1]
  PROVE  Keyed((its \ Of(its, k)) \cup {it})
<1> DEFINE old == its \ Of(its, k)
<1>1. \A x \in old : x \in its /\ x[1] /= k
  BY DEF Of
<1>2. its \subseteq Item /\ \A x, y \in its : x[1] = y[1] => x = y
  BY DEF Keyed
<1> HIDE DEF old
<1>3. old \cup {it} \subseteq Item
  BY <1>1, <1>2
<1>4. \A x, y \in old \cup {it} : x[1] = y[1] => x = y
  BY <1>1, <1>2
<1> QED BY <1>3, <1>4 DEF Keyed, old

LEMMA DictWith ==
  ASSUME NEW its, Keyed(its), NEW it \in Item, NEW k, k = it[1]
  PROVE  Dict((its \ Of(its, k)) \cup {it}) = PutAt(Dict(its), k, it[2])
<1> DEFINE new == (its \ Of(its, k)) \cup {it}
           D == Dict(its)
           g == PutAt(D, k, it[2])
<1>1. Keyed(new)
  BY KeyedWith
<1>2. DOMAIN D = KeysOf(its)
  BY DictShape
<1>3. \A x \in its : D[x[1]] = x[2] /\ x[1] \in KeysOf(its)
  BY DictAt
<1>4. \A x : x \in new <=> x = it \/ (x \in its /\ x[1] /= k)
  BY DEF Of
<1> HIDE DEF D, new
<1>5. DOMAIN g = DOMAIN D \cup {k} /\ g = [j \in DOMAIN g |-> g[j]]
  BY DEF PutAt
<1>6. \A j \in DOMAIN D \cup {k} : g[j] = IF j = k THEN it[2] ELSE D[j]
  BY DEF PutAt
<1> HIDE DEF g
<1>7. \A x \in new : g[x[1]] = x[2]
  BY <1>2, <1>3, <1>4, <1>6
<1>8. DOMAIN g = KeysOf(new)
  <2>1. \A j : j \in KeysOf(new) <=> \E x \in new : x[1] = j
    BY DEF KeysOf
  <2>2. \A j : j \in KeysOf(its) <=> \E x \in its : x[1] = j
    BY DEF KeysOf
  <2> QED BY <2>1, <2>2, <1>2, <1>4, <1>5
<1>9. g = Dict(new)
  BY <1>1, <1>5, <1>7, <1>8, DictIs
<1> QED BY <1>9 DEF g, new, D

LEMMA DictWithout ==
  ASSUME NEW its, Keyed(its), NEW k
  PROVE  Dict(its \ Of(its, k)) = Restrict(Dict(its), DOMAIN Dict(its) \ {k})
<1> DEFINE new == its \ Of(its, k)
           D == Dict(its)
           g == Restrict(D, DOMAIN D \ {k})
<1>1. Keyed(new)
  BY KeyedWithout
<1>2. DOMAIN D = KeysOf(its)
  BY DictShape
<1>3. \A x \in its : D[x[1]] = x[2] /\ x[1] \in KeysOf(its)
  BY DictAt
<1>4. \A x : x \in new <=> x \in its /\ x[1] /= k
  BY DEF Of
<1> HIDE DEF D, new
<1>5. DOMAIN g = DOMAIN D \ {k} /\ g = [j \in DOMAIN g |-> g[j]]
  BY DEF Restrict
<1>6. \A j \in DOMAIN D \ {k} : g[j] = D[j]
  BY DEF Restrict
<1> HIDE DEF g
<1>7. \A x \in new : g[x[1]] = x[2]
  BY <1>2, <1>3, <1>4, <1>6
<1>8. DOMAIN g = KeysOf(new)
  <2>1. \A j : j \in KeysOf(new) <=> \E x \in new : x[1] = j
    BY DEF KeysOf
  <2>2. \A j : j \in KeysOf(its) <=> \E x \in its : x[1] = j
    BY DEF KeysOf
  <2> QED BY <2>1, <2>2, <1>2, <1>4, <1>5
<1>9. g = Dict(new)
  BY <1>1, <1>5, <1>7, <1>8, DictIs
<1> QED BY <1>9 DEF g, new, D

LEMMA DictEmpty == Dict({}) = <<>>
<1>1. Dict({}) = [j \in {} |-> CHOOSE v \in Values : <<j, v>> \in {}]
  BY DEF Dict
<1> QED BY <1>1

LEMMA DictMap ==
  ASSUME NEW its, Keyed(its)
  PROVE  Dict(its) \in [DOMAIN Dict(its) -> Values] /\ DOMAIN Dict(its) \subseteq Keys
<1> DEFINE D == Dict(its)
<1>1. DOMAIN D = KeysOf(its) /\ D = [j \in KeysOf(its) |-> D[j]]
  BY DictShape
<1>2. \A x \in its : D[x[1]] = x[2] /\ x[1] \in Keys /\ x[2] \in Values
  BY DictAt, ItemPair DEF Keyed
<1>3. \A j \in KeysOf(its) : \E x \in its : x[1] = j
  BY KeysIn
<1> HIDE DEF D
<1>4. \A j \in DOMAIN D : D[j] \in Values /\ j \in Keys
  BY <1>1, <1>2, <1>3
<1>5. D \in [DOMAIN D -> Values] /\ DOMAIN D \subseteq Keys
  BY <1>1, <1>4
<1> QED BY <1>5 DEF D

(* What a call was asked for, and the dictionary beside it. *)
KeyOps == {"del", "pred", "succ", "find", "update"}
Asked(c, its) ==
  /\ c.op = "insert" => /\ c.item \in Item
                        /\ c.asked = "insert" \/ (c.asked = "update" /\ Of(its, c.item[1]) = {})
  /\ c.op \in KeyOps => c.key \in Keys
  /\ c.op = "update" => c.value \in Values
DictOK == Keyed(items) /\ Keyed(saved) /\ Asked(call, items)

SameAsked(c, d) ==
  /\ d.op = c.op
  /\ c.op = "insert" => d.item = c.item /\ d.asked = c.asked
  /\ c.op \in KeyOps => d.key = c.key
  /\ c.op = "update" => d.value = c.value

LEMMA AskedSame ==
  ASSUME NEW c, NEW d, NEW its, Asked(c, its), SameAsked(c, d)
  PROVE  Asked(d, its)
BY Zenon DEF Asked, SameAsked

LEMMA MovedIs ==
  ASSUME NEW t, NEW g, NEW c, NEW its, NEW x, NEW d, d = MovedTo(c, x),
         \/ Inserting(t, g, c, its) \/ Deleting(t, g, c, its) \/ LentOut(t, g, c, its)
         \/ Edging(t, g, c, its) \/ Finding(t, g, c, its) \/ Updating(t, g, c, its)
  PROVE  SameAsked(c, d)
<1> DEFINE o == c.op
           k == c.key
           s == c.seek
           y == c.at
           a == c.asked
           b == c.item
           tp == c.top
           pl == c.place
           kd == c.kid
           v == c.value
<1>d. d = [c EXCEPT !.at = x]
  BY Zenon DEF MovedTo
<1>1. CASE Inserting(t, g, c, its)
  <2>1. c = [op |-> "insert", asked |-> a, item |-> b, at |-> y]
    BY <1>1, Zenon DEF Inserting
  <2> HIDE DEF a, b, y
  <2>2. d = [op |-> "insert", asked |-> a, item |-> b, at |-> x]
    BY <2>1, <1>d
  <2> QED BY <2>1, <2>2 DEF SameAsked, KeyOps
<1>2. CASE Deleting(t, g, c, its) \/ LentOut(t, g, c, its)
  <2>1. c = [op |-> "del", key |-> k, seek |-> s, at |-> y]
    BY <1>2, Zenon DEF Deleting, LentOut
  <2> HIDE DEF k, s, y
  <2>2. d = [op |-> "del", key |-> k, seek |-> s, at |-> x]
    BY <2>1, <1>d
  <2> QED BY <2>1, <2>2 DEF SameAsked, KeyOps
<1>3. CASE Edging(t, g, c, its)
  <2>1. o \in {"pred", "succ"} /\ c = [op |-> o, key |-> k, at |-> y, top |-> tp, place |-> pl, kid |-> kd]
    BY <1>3, Zenon DEF Edging
  <2> HIDE DEF o, k, y, tp, pl, kd
  <2>2. d = [op |-> o, key |-> k, at |-> x, top |-> tp, place |-> pl, kid |-> kd]
    BY <2>1, <1>d
  <2> QED BY <2>1, <2>2 DEF SameAsked, KeyOps
<1>4. CASE Finding(t, g, c, its)
  <2>1. c = [op |-> "find", key |-> k, at |-> y]
    BY <1>4, Zenon DEF Finding
  <2> HIDE DEF k, y
  <2>2. d = [op |-> "find", key |-> k, at |-> x]
    BY <2>1, <1>d
  <2> QED BY <2>1, <2>2 DEF SameAsked, KeyOps
<1>5. CASE Updating(t, g, c, its)
  <2>1. c = [op |-> "update", key |-> k, value |-> v, at |-> y]
    BY <1>5, Zenon DEF Updating
  <2> HIDE DEF k, v, y
  <2>2. d = [op |-> "update", key |-> k, value |-> v, at |-> x]
    BY <2>1, <1>d
  <2> QED BY <2>1, <2>2 DEF SameAsked, KeyOps
<1> QED BY <1>1, <1>2, <1>3, <1>4, <1>5

LEMMA MovesOn ==
  ASSUME CallsOK, call.op \notin {"none", "closed"}, NEW x, NEW d, d = MovedTo(call, x)
  PROVE  SameAsked(call, d)
<1>1. CallOK(tree, file, call, items)
  BY Zenon DEF CallsOK
<1>2. call /= Closed /\ call /= Idle
  BY IdleOp
<1>3. \/ Inserting(tree, file, call, items) \/ Deleting(tree, file, call, items) \/ LentOut(tree, file, call, items)
      \/ Edging(tree, file, call, items) \/ Finding(tree, file, call, items) \/ Updating(tree, file, call, items)
  BY <1>1, <1>2, Zenon DEF CallOK
<1> QED BY <1>3, MovedIs, Zenon

-----------------------------------------------------------------------------
(* What the client sees of a step. *)
StoreStep == Store!Next \/ UNCHANGED Store!vars
Told == DictOK' /\ StoreStep

LEMMA BusyIsOpen ==
  ASSUME Busy
  PROVE  call /= Closed /\ call /= Idle
BY IdleOp DEF Busy

LEMMA SeenIdle ==
  ASSUME call' = Idle
  PROVE  ~Busy' /\ call' /= Closed
BY IdleOp DEF Busy

LEMMA TellNothing ==
  ASSUME call /= Closed, call' /= Closed, Busy, Busy', items' = items, saved' = saved
  PROVE  StoreStep
<1>1. UNCHANGED Store!vars
  BY DEF Store!vars
<1> QED BY <1>1, Zenon DEF StoreStep

LEMMA TellLook ==
  ASSUME call /= Closed, call' /= Closed, Busy', items' = items, saved' = items \/ saved' = saved
  PROVE  StoreStep
<1>1. Store!Look
  BY DEF Store!Look, Store!MaySave
<1> QED BY <1>1, Zenon DEF StoreStep, Store!Next

(* An answer, with what it says of the dictionary. *)
LEMMA TellInsert ==
  ASSUME NEW k \in Keys, NEW v \in Values, call /= Closed, call' = Idle, saved' = saved,
         answer'.op = "insert", answer'.key = k, answer'.res = Store!YesNo(k \notin DOMAIN Dict(items)),
         Dict(items') = IF k \in DOMAIN Dict(items) THEN Dict(items) ELSE PutAt(Dict(items), k, v)
  PROVE  StoreStep
<1>1. ~Busy' /\ call' /= Closed
  BY SeenIdle
<1>2. Store!Insert(k, v)
  BY <1>1 DEF Store!Insert, Store!Answers, Store!MaySave, Store!With, PutAt
<1> QED BY <1>2, Zenon DEF StoreStep, Store!Next

LEMMA TellUpdate ==
  ASSUME NEW k \in Keys, NEW v \in Values, call /= Closed, call' = Idle, saved' = saved,
         answer'.op = "update", answer'.key = k, answer'.res = "yes",
         Dict(items') = PutAt(Dict(items), k, v)
  PROVE  StoreStep
<1>1. ~Busy' /\ call' /= Closed
  BY SeenIdle
<1>2. Store!Update(k, v)
  BY <1>1 DEF Store!Update, Store!Answers, Store!MaySave, Store!With, PutAt
<1> QED BY <1>2, Zenon DEF StoreStep, Store!Next

LEMMA TellDelete ==
  ASSUME NEW k \in Keys, call /= Closed, call' = Idle, saved' = saved,
         answer'.op = "del", answer'.key = k, answer'.res = Store!YesNo(k \in DOMAIN Dict(items)),
         Dict(items') = Restrict(Dict(items), DOMAIN Dict(items) \ {k})
  PROVE  StoreStep
<1>1. ~Busy' /\ call' /= Closed
  BY SeenIdle
<1>2. Store!Delete(k)
  BY <1>1 DEF Store!Delete, Store!Answers, Store!MaySave, Store!Without, Store!Restrict, Restrict
<1> QED BY <1>2, Zenon DEF StoreStep, Store!Next

LEMMA TellFind ==
  ASSUME NEW k \in Keys, call /= Closed, call' = Idle, saved' = saved, items' = items,
         answer'.op = "find", answer'.key = k, answer'.res = IF k \in DOMAIN Dict(items) THEN Dict(items)[k] ELSE "no"
  PROVE  StoreStep
<1>1. ~Busy' /\ call' /= Closed
  BY SeenIdle
<1>2. Store!Find(k)
  BY <1>1 DEF Store!Find, Store!Answers, Store!MaySave
<1> QED BY <1>2, Zenon DEF StoreStep, Store!Next

LEMMA AskedNone ==
  ASSUME NEW its
  PROVE  Asked(Idle, its) /\ Asked(Closed, its)
BY IdleOp DEF Asked, KeyOps

LEMMA ToldWith ==
  ASSUME Keyed(items'), Keyed(saved'), Asked(call', items'), StoreStep
  PROVE  Told
BY Zenon DEF Told, DictOK

LEMMA AnswerFields ==
  ASSUME NEW op, NEW k, NEW res, Answer(op, k, res)
  PROVE  call' = Idle /\ answer'.op = op /\ answer'.key = k /\ answer'.res = res
<1>1. call' = Idle /\ answer' = [op |-> op, key |-> k, res |-> res]
  BY Zenon DEF Answer
<1>2. answer'.op = op /\ answer'.key = k /\ answer'.res = res
  BY <1>1
<1> QED BY <1>1, <1>2, Zenon

LEMMA BegunTells ==
  ASSUME CallsOK, DictOK, call.op = "none", items' = items, saved' = items \/ saved' = saved,
         Asked(call', items), call'.op \notin {"none", "closed"}
  PROVE  Told
<1>1. call /= Closed /\ call' /= Closed /\ Busy'
  BY IdleOp DEF Busy
<1>2. StoreStep
  BY <1>1, TellLook, Zenon
<1>3. Keyed(items') /\ Keyed(saved') /\ Asked(call', items')
  BY Zenon DEF DictOK
<1> QED BY <1>2, <1>3, ToldWith, Zenon

LEMMA OldOrNew ==
  ASSUME NEW over, NEW s, NEW i, NEW n, n = IF over THEN i ELSE s
  PROVE  n = i \/ n = s
OBVIOUS

LEMMA InsertTells ==
  ASSUME CallsOK, DictOK, NEW k \in Keys, NEW v \in Values, Insert(k, v)
  PROVE  Told
<1> DEFINE r == tree'.root
<1>1. call.op = "none" /\ saved' = (IF Writes THEN items ELSE saved) /\ items' = items
  BY Zenon DEF Insert, Begin
<1>2. call' = [op |-> "insert", asked |-> "insert", item |-> <<k, v>>, at |-> r]
  BY Zenon DEF Insert, StartInsert
<1> HIDE DEF r
<1>3. Asked(call', items) /\ call'.op \notin {"none", "closed"}
  BY <1>2 DEF Asked, KeyOps, Item
<1> QED BY <1>1, <1>3, OldOrNew, BegunTells, Zenon

LEMMA DeleteTells ==
  ASSUME CallsOK, DictOK, NEW k \in Keys, Delete(k)
  PROVE  Told
<1> DEFINE r == tree'.root
<1>1. call.op = "none" /\ saved' = (IF Over THEN items ELSE saved) /\ items' = items
  BY Zenon DEF Delete, Begin
<1>2. call' = [op |-> "del", key |-> k, seek |-> k, at |-> r]
  BY Zenon DEF Delete
<1> HIDE DEF r
<1>3. Asked(call', items) /\ call'.op \notin {"none", "closed"}
  BY <1>2 DEF Asked, KeyOps
<1> QED BY <1>1, <1>3, OldOrNew, BegunTells, Zenon

LEMMA FindTells ==
  ASSUME CallsOK, DictOK, NEW k \in Keys, Find(k)
  PROVE  Told
<1> DEFINE r == tree'.root
<1>1. call.op = "none" /\ saved' = (IF Over THEN items ELSE saved) /\ items' = items
  BY Zenon DEF Find, Begin
<1>2. call' = [op |-> "find", key |-> k, at |-> r]
  BY Zenon DEF Find
<1> HIDE DEF r
<1>3. Asked(call', items) /\ call'.op \notin {"none", "closed"}
  BY <1>2 DEF Asked, KeyOps
<1> QED BY <1>1, <1>3, OldOrNew, BegunTells, Zenon

LEMMA UpdateTells ==
  ASSUME CallsOK, DictOK, NEW k \in Keys, NEW v \in Values, Update(k, v)
  PROVE  Told
<1> DEFINE r == tree'.root
<1>1. call.op = "none" /\ saved' = (IF Over THEN items ELSE saved) /\ items' = items
  BY Zenon DEF Update, Begin
<1>2. call' = [op |-> "update", key |-> k, value |-> v, at |-> r]
  BY Zenon DEF Update
<1> HIDE DEF r
<1>3. Asked(call', items) /\ call'.op \notin {"none", "closed"}
  BY <1>2 DEF Asked, KeyOps
<1> QED BY <1>1, <1>3, OldOrNew, BegunTells, Zenon

-----------------------------------------------------------------------------
(* A round that goes on is not seen. *)
LEMMA RoundOnTells ==
  ASSUME CallsOK, DictOK, call.op \notin {"none", "closed"}, call'.op \notin {"none", "closed"},
         items' = items, saved' = saved, Asked(call', items)
  PROVE  Told
<1>1. call /= Closed /\ call' /= Closed /\ Busy /\ Busy'
  BY IdleOp DEF Busy
<1>2. StoreStep
  BY <1>1, TellNothing, Zenon
<1>3. Keyed(items') /\ Keyed(saved') /\ Asked(call', items')
  BY Zenon DEF DictOK
<1> QED BY <1>2, <1>3, ToldWith, Zenon

LEMMA MoveTells ==
  ASSUME CallsOK, DictOK, call.op \notin {"none", "closed"}, NEW x, call' = MovedTo(call, x),
         items' = items, saved' = saved
  PROVE  Told
<1>1. SameAsked(call, call')
  BY MovesOn, Zenon
<1>2. Asked(call', items)
  BY <1>1, AskedSame, Zenon DEF DictOK
<1>3. call'.op \notin {"none", "closed"}
  BY <1>1, Zenon DEF SameAsked
<1> QED BY <1>2, <1>3, RoundOnTells, Zenon

LEMMA PresentIs ==
  ASSUME NEW k
  PROVE  /\ Present(k) <=> k \in DOMAIN Dict(items)
         /\ Present(k) <=> Of(items, k) /= {}
         /\ At(k) = Of(items, k)
<1>1. At(k) = Of(items, k)
  BY OfAt
<1>2. k \in DOMAIN Dict(items) <=> Of(items, k) /= {}
  BY KeyOfDict
<1> QED BY <1>1, <1>2, Zenon DEF Present

LEMMA YesNoIs ==
  ASSUME NEW b \in BOOLEAN
  PROVE  YesNo(b) = Store!YesNo(b)
BY Zenon DEF YesNo, Store!YesNo

LEMMA InsertRoundTells ==
  ASSUME CallsOK, DictOK, InsertRound, RightAnswer
  PROVE  Told
<1> DEFINE o == InsertStep(tree, file.pages, call.at, call.item)
           it == call.item
           k == call.item[1]
<1>1. call.op = "insert" /\ saved' = saved
  BY Zenon DEF InsertRound
<1>2. \/ o.res = "on" /\ call' = MovedTo(call, o.at) /\ items' = items
      \/ o.res /= "on" /\ Answer(call.asked, k, o.res) /\ items' = IF At(k) = {} THEN items \cup {it} ELSE items
  BY Zenon DEF InsertRound, MovedTo
<1>3. /\ Keyed(items) /\ Keyed(saved) /\ it \in Item
      /\ call.asked = "insert" \/ (call.asked = "update" /\ Of(items, k) = {})
  BY <1>1, Zenon DEF DictOK, Asked
<1>4. k \in Keys /\ it[2] \in Values
  BY <1>3, ItemPair
<1>5. call.op \notin {"none", "closed"}
  BY <1>1
<1>6. CASE call' = MovedTo(call, o.at) /\ items' = items
  BY <1>1, <1>5, <1>6, MoveTells, Zenon
<1>7. CASE Answer(call.asked, k, o.res) /\ items' = IF At(k) = {} THEN items \cup {it} ELSE items
  <2>1. call' = Idle /\ answer'.op = call.asked /\ answer'.key = k
    BY <1>7, AnswerFields, Zenon
  <2>2. answer'.res = YesNo(~Present(k))
    BY <1>1, <2>1, Zenon DEF RightAnswer
  <2>3. (Present(k) <=> k \in DOMAIN Dict(items)) /\ (Present(k) <=> Of(items, k) /= {}) /\ At(k) = Of(items, k)
    BY PresentIs, Zenon
  <2> DEFINE D == Dict(items)
             E == Dict(items')
             put == (items \ Of(items, k)) \cup {it}
  <2>4. Keyed(put) /\ Dict(put) = PutAt(D, k, it[2])
    BY <1>3, KeyedWith, DictWith
  <2>m. k = call.item[1] /\ D = Dict(items) /\ E = Dict(items')
    OBVIOUS
  <2>5. Of(items, k) = {} => items' = put
    BY <1>7, <2>3
  <2>6. Of(items, k) /= {} => items' = items
    BY <1>7, <2>3
  <2> HIDE DEF D, E, put, k, it
  <2>7. Keyed(items')
    BY <1>3, <2>4, <2>5, <2>6
  <2>8. (Of(items, k) = {} => E = PutAt(D, k, it[2])) /\ (Of(items, k) /= {} => E = D)
    BY <2>4, <2>5, <2>6, <2>m, Zenon
  <2>9. Asked(call', items')
    BY <2>1, AskedNone, Zenon
  <2>10. call /= Closed
    BY <1>5, IdleOp
  <2>11. CASE call.asked = "insert"
    <3>1. E = IF k \in DOMAIN D THEN D ELSE PutAt(D, k, it[2])
      BY <2>3, <2>8, <2>m, Zenon
    <3>2. answer'.res = Store!YesNo(k \notin DOMAIN D)
      BY <2>2, <2>3, <2>m, Zenon DEF YesNo, Store!YesNo
    <3>3. StoreStep
      BY <1>1, <1>4, <2>1, <2>10, <2>11, <3>1, <3>2, <2>m, TellInsert, Zenon
    <3> QED BY <1>1, <1>3, <2>7, <2>9, <3>3, ToldWith, Zenon
  <2>12. CASE call.asked = "update" /\ Of(items, k) = {}
    <3>1. E = PutAt(D, k, it[2])
      BY <2>8, <2>12
    <3>2. answer'.res = "yes"
      BY <2>2, <2>3, <2>12, Zenon DEF YesNo
    <3>3. StoreStep
      BY <1>1, <1>4, <2>1, <2>10, <2>12, <3>1, <3>2, <2>m, TellUpdate, Zenon
    <3> QED BY <1>1, <1>3, <2>7, <2>9, <3>3, ToldWith, Zenon
  <2> QED BY <1>3, <2>11, <2>12, Zenon
<1> QED BY <1>2, <1>6, <1>7, Zenon

LEMMA DeleteRoundTells ==
  ASSUME CallsOK, DictOK, DeleteRound, RightAnswer
  PROVE  Told
<1> DEFINE o == DeleteStep(tree, file.pages, call.at, call.seek)
           k == call.key
           x == call.at
           place == Smaller(tree.mem[call.at].items, call.seek) + 1
<1>1. call.op = "del" /\ saved' = saved
  BY Zenon DEF DeleteRound
<1>2. \/ o.res = "on" /\ call' = MovedTo(call, o.at) /\ items' = items
      \/ o.res \in {"pred", "succ"} /\ call' = EdgeCall(o.res, k, o.at, x, place, o.at) /\ items' = items
      \/ o.res \in {"yes", "no"} /\ Answer("del", k, o.res) /\ items' = items \ At(k)
  BY Zenon DEF DeleteRound, MovedTo, EdgeCall
<1>3. Keyed(items) /\ Keyed(saved) /\ k \in Keys
  BY <1>1 DEF DictOK, Asked, KeyOps
<1>4. call.op \notin {"none", "closed"}
  BY <1>1
<1>5. CASE call' = MovedTo(call, o.at) /\ items' = items
  BY <1>1, <1>4, <1>5, MoveTells, Zenon
<1>6. CASE o.res \in {"pred", "succ"} /\ call' = EdgeCall(o.res, k, o.at, x, place, o.at) /\ items' = items
  <2> DEFINE r == o.res
             y == o.at
  <2>1. call' = [op |-> r, key |-> k, at |-> y, top |-> x, place |-> place, kid |-> y] /\ r \in {"pred", "succ"}
    BY <1>6, Zenon DEF EdgeCall
  <2> HIDE DEF r, k, x, y, place, o
  <2>2. Asked(call', items) /\ call'.op \notin {"none", "closed"}
    BY <2>1, <1>3 DEF Asked, KeyOps
  <2> QED BY <1>1, <1>4, <1>6, <2>2, RoundOnTells, Zenon
<1>7. CASE Answer("del", k, o.res) /\ items' = items \ At(k)
  <2>1. call' = Idle /\ answer'.op = "del" /\ answer'.key = k
    BY <1>7, AnswerFields, Zenon
  <2>2. answer'.res = YesNo(Present(k))
    BY <1>1, <2>1, Zenon DEF RightAnswer
  <2>3. (Present(k) <=> k \in DOMAIN Dict(items)) /\ At(k) = Of(items, k)
    BY PresentIs, Zenon
  <2>4. items' = items \ Of(items, k)
    BY <1>7, <2>3, Zenon
  <2> DEFINE rest == items \ Of(items, k)
  <2>5. Keyed(rest) /\ Dict(rest) = Restrict(Dict(items), DOMAIN Dict(items) \ {k})
    BY <1>3, KeyedWithout, DictWithout
  <2>6. Keyed(items') /\ Dict(items') = Restrict(Dict(items), DOMAIN Dict(items) \ {k})
    BY <2>4, <2>5, Zenon
  <2>7. answer'.res = Store!YesNo(k \in DOMAIN Dict(items))
    BY <2>2, <2>3, Zenon DEF YesNo, Store!YesNo
  <2>8. call /= Closed
    BY <1>4, IdleOp
  <2> HIDE DEF k, rest
  <2>9. StoreStep
    BY <1>1, <1>3, <2>1, <2>6, <2>7, <2>8, TellDelete, Zenon
  <2>10. Asked(call', items')
    BY <2>1, AskedNone, Zenon
  <2> QED BY <1>1, <1>3, <2>6, <2>9, <2>10, ToldWith, Zenon
<1> QED BY <1>2, <1>5, <1>6, <1>7, Zenon

LEMMA EdgeRoundTells ==
  ASSUME CallsOK, DictOK, EdgeRound
  PROVE  Told
<1> DEFINE n == tree.mem[call.at]
           x == EdgeKid(n, call.op = "pred")
           s == EdgeOf(n, call.op = "pred")[1]
           k == call.key
           y == call.kid
<1>1. call.op \in {"pred", "succ"} /\ items' = items /\ saved' = saved
  BY Zenon DEF EdgeRound
<1>2. call' = MovedTo(call, x) \/ call' = [op |-> "del", key |-> k, seek |-> s, at |-> y]
  BY Zenon DEF EdgeRound, MovedTo
<1>3. k \in Keys
  BY <1>1 DEF DictOK, Asked, KeyOps
<1>4. call.op \notin {"none", "closed"}
  BY <1>1
<1> HIDE DEF n, x, s, k, y
<1>5. CASE call' = MovedTo(call, x)
  BY <1>1, <1>4, <1>5, MoveTells, Zenon
<1>6. CASE call' = [op |-> "del", key |-> k, seek |-> s, at |-> y]
  <2>1. Asked(call', items) /\ call'.op \notin {"none", "closed"}
    BY <1>3, <1>6 DEF Asked, KeyOps
  <2> QED BY <1>1, <1>4, <2>1, RoundOnTells, Zenon
<1> QED BY <1>2, <1>5, <1>6

LEMMA FindRoundTells ==
  ASSUME CallsOK, DictOK, FindRound, RightAnswer
  PROVE  Told
<1> DEFINE n == tree.mem[call.at]
           k == call.key
           i == Smaller(n.items, call.key) + 1
           x == n.kids[i]
           D == Dict(items)
<1>1. call.op = "find" /\ items' = items /\ saved' = saved
  BY Zenon DEF FindRound
<1>2. \/ Answer("find", k, n.items[i][2])
      \/ Answer("find", k, "no")
      \/ call' = MovedTo(call, x)
  BY Zenon DEF FindRound, MovedTo
<1>3. Keyed(items) /\ Keyed(saved) /\ k \in Keys
  BY <1>1 DEF DictOK, Asked, KeyOps
<1>4. call.op \notin {"none", "closed"}
  BY <1>1
<1>5. CASE call' = MovedTo(call, x)
  BY <1>1, <1>4, <1>5, MoveTells, Zenon
<1>6. CASE Answer("find", k, n.items[i][2]) \/ Answer("find", k, "no")
  <2>1. call' = Idle /\ answer'.op = "find" /\ answer'.key = k
    BY <1>6, AnswerFields, Zenon
  <2>2. IF Present(k) THEN <<k, answer'.res>> \in items ELSE answer'.res = "no"
    BY <1>1, <2>1, Zenon DEF RightAnswer
  <2>3. Present(k) <=> k \in DOMAIN D
    BY PresentIs, Zenon
  <2> DEFINE r == answer'.res
             it == <<k, r>>
  <2>4. it \in items => D[k] = r
    <3>1. it[1] = k /\ it[2] = r
      OBVIOUS
    <3>2. it \in items => D[it[1]] = it[2]
      BY <1>3, DictAt
    <3> QED BY <3>1, <3>2, Zenon
  <2>5. r = IF k \in DOMAIN D THEN D[k] ELSE "no"
    BY <2>2, <2>3, <2>4, Zenon
  <2>6. call /= Closed
    BY <1>4, IdleOp
  <2>m. r = answer'.res /\ D = Dict(items)
    OBVIOUS
  <2> HIDE DEF r, D, k, it
  <2>7. StoreStep
    BY <1>1, <1>3, <2>1, <2>5, <2>6, <2>m, TellFind, Zenon
  <2>8. Asked(call', items')
    BY <2>1, AskedNone, Zenon
  <2>9. Keyed(items')
    BY <1>1, <1>3, Zenon
  <2> QED BY <1>1, <1>3, <2>7, <2>8, <2>9, ToldWith, Zenon
<1> QED BY <1>2, <1>5, <1>6, Zenon

LEMMA NoneOf ==
  ASSUME Updating(tree, file, call, items), ~Holds(tree.mem[call.at].items, call.key), tree.mem[call.at].kids = <<>>
  PROVE  Of(items, call.key) = {}
<1> DEFINE n == tree.mem[call.at]
           k == call.key
           f == file.pages
           p == call.at
<1>1. PICK w : Seeks(tree, f, w, items, p, k)
  BY Zenon DEF Updating
<1>m. n = tree.mem[p] /\ ~Holds(n.items, k) /\ n.kids = <<>> /\ k = call.key
  OBVIOUS
<1> HIDE DEF n, k, f, p
<1>2. Of(items, k) = {}
  BY <1>1, <1>m, SeekNone
<1> QED BY <1>2, <1>m

LEMMA UpdateRoundTells ==
  ASSUME CallsOK, DictOK, UpdateRound
  PROVE  Told
<1> DEFINE n == tree.mem[call.at]
           k == call.key
           v == call.value
           i == Smaller(n.items, call.key) + 1
           x == n.kids[i]
           it == <<k, v>>
           r == tree'.root
<1>1. call.op = "update"
  BY Zenon DEF UpdateRound
<1>2. \/ Answer("update", k, "yes") /\ items' = (items \ At(k)) \cup {it} /\ saved' = saved
      \/ /\ ~Holds(n.items, k) /\ n.kids = <<>> /\ call' = [op |-> "insert", asked |-> "update", item |-> it, at |-> r]
         /\ saved' = (IF Writes THEN items ELSE saved) /\ items' = items
      \/ call' = MovedTo(call, x) /\ saved' = saved /\ items' = items
  BY Zenon DEF UpdateRound, MovedTo, StartInsert
<1>3. Keyed(items) /\ Keyed(saved) /\ k \in Keys /\ v \in Values
  BY <1>1 DEF DictOK, Asked, KeyOps
<1>4. it \in Item /\ it[1] = k /\ it[2] = v
  BY <1>3 DEF Item
<1>5. call.op \notin {"none", "closed"}
  BY <1>1
<1>6. CASE Answer("update", k, "yes") /\ items' = (items \ At(k)) \cup {it} /\ saved' = saved
  <2>1. call' = Idle /\ answer'.op = "update" /\ answer'.key = k /\ answer'.res = "yes"
    BY <1>6, AnswerFields, Zenon
  <2>2. items' = (items \ Of(items, k)) \cup {it}
    BY <1>6, OfAt, Zenon
  <2> HIDE DEF k, v, it
  <2> DEFINE put == (items \ Of(items, k)) \cup {it}
  <2>3. Keyed(put) /\ Dict(put) = PutAt(Dict(items), k, it[2])
    BY <1>3, <1>4, KeyedWith, DictWith
  <2> HIDE DEF put
  <2>4. items' = put
    BY <2>2 DEF put
  <2>5. Keyed(items') /\ Dict(items') = PutAt(Dict(items), k, v)
    BY <2>3, <2>4, <1>4, Zenon
  <2>6. call /= Closed
    BY <1>5, IdleOp
  <2>7. StoreStep
    BY <1>3, <1>6, <2>1, <2>5, <2>6, TellUpdate, Zenon
  <2>8. Asked(call', items')
    BY <2>1, AskedNone, Zenon
  <2> QED BY <1>3, <1>6, <2>5, <2>7, <2>8, ToldWith, Zenon
<1>7. CASE /\ ~Holds(n.items, k) /\ n.kids = <<>> /\ call' = [op |-> "insert", asked |-> "update", item |-> it, at |-> r]
           /\ saved' = (IF Writes THEN items ELSE saved) /\ items' = items
  <2>1. Updating(tree, file, call, items)
    BY <1>1, BusyIs, Zenon
  <2>2. Of(items, k) = {}
    BY <1>7, <2>1, NoneOf, Zenon
  <2>3. call' = [op |-> "insert", asked |-> "update", item |-> it, at |-> r] /\ items' = items
    BY <1>7, Zenon
  <2>4. saved' = items \/ saved' = saved
    BY <1>7, OldOrNew, Zenon
  <2> HIDE DEF k, v, it, r
  <2>5. Asked(call', items) /\ call'.op \notin {"none", "closed"}
    BY <2>2, <2>3, <1>4 DEF Asked, KeyOps
  <2>6. call /= Closed /\ call' /= Closed /\ Busy'
    BY <1>5, <2>5, IdleOp DEF Busy
  <2>7. StoreStep
    BY <2>3, <2>4, <2>6, TellLook, Zenon
  <2>8. Keyed(items') /\ Keyed(saved') /\ Asked(call', items')
    BY <1>3, <2>3, <2>4, <2>5, Zenon
  <2> QED BY <2>7, <2>8, ToldWith, Zenon
<1>8. CASE call' = MovedTo(call, x) /\ saved' = saved /\ items' = items
  BY <1>5, <1>8, MoveTells, Zenon
<1> QED BY <1>2, <1>6, <1>7, <1>8, Zenon

-----------------------------------------------------------------------------
LEMMA DoneFields ==
  ASSUME NEW op, Done(op)
  PROVE  answer'.op = op
BY DEF Done

LEMMA WrittenTells ==
  ASSUME DictOK, NEW op, NEW t, NEW c, Written_(op, t, c), c = Idle \/ c = Closed,
         (c = Idle /\ op = "flush") \/ (c = Closed /\ op = "close")
  PROVE  Told
<1>1. call = Idle /\ saved' = items /\ items' = items /\ call' = c /\ answer'.op = op
  BY DoneFields, Zenon DEF Written_
<1>2. Keyed(items') /\ Keyed(saved') /\ Asked(call', items')
  BY <1>1, AskedNone, Zenon DEF DictOK
<1>3. ~Busy' /\ call /= Closed /\ Idle /= Closed
  BY <1>1, IdleOp DEF Busy
<1>4. CASE c = Idle /\ op = "flush"
  <2>1. Store!Flush
    BY <1>1, <1>3, <1>4 DEF Store!Flush
  <2> QED BY <1>2, <2>1, ToldWith, Zenon DEF StoreStep, Store!Next
<1>5. CASE c = Closed /\ op = "close"
  <2>1. Store!Close
    BY <1>1, <1>3, <1>5 DEF Store!Close
  <2> QED BY <1>2, <2>1, ToldWith, Zenon DEF StoreStep, Store!Next
<1> QED BY <1>4, <1>5

LEMMA SaveTells ==
  ASSUME DictOK, Save \/ Flush
  PROVE  Told
<1>1. CASE Save
  <2> DEFINE t == [tree EXCEPT !.dirty = {}]
  <2>1. Written_("flush", t, Idle)
    BY <1>1, Zenon DEF Save
  <2> QED BY <2>1, WrittenTells, Zenon
<1>2. CASE Flush
  <2>1. Written_("flush", Unloaded(tree.num, tree.pages), Idle)
    BY <1>2, Zenon DEF Flush
  <2> QED BY <2>1, WrittenTells, Zenon
<1> QED BY <1>1, <1>2

LEMMA CloseTells ==
  ASSUME DictOK, Close
  PROVE  Told
<1>1. Written_("close", Unloaded(tree.num, tree.pages), Closed)
  BY Zenon DEF Close
<1> QED BY <1>1, WrittenTells, Zenon

LEMMA OpenTells ==
  ASSUME DictOK, Open
  PROVE  Told
<1>1. call = Closed /\ call' = Idle /\ items' = items /\ saved' = saved /\ answer'.op = "open"
  BY DoneFields, Zenon DEF Open
<1>2. Keyed(items') /\ Keyed(saved') /\ Asked(call', items')
  BY <1>1, AskedNone, Zenon DEF DictOK
<1>3. ~Busy' /\ call' /= Closed
  BY <1>1, SeenIdle
<1>4. Store!Open
  BY <1>1, <1>3 DEF Store!Open
<1> QED BY <1>2, <1>4, ToldWith, Zenon DEF StoreStep, Store!Next

LEMMA KillTells ==
  ASSUME DictOK, Kill
  PROVE  Told
<1>1. call /= Closed /\ call' = Closed /\ items' = saved /\ saved' = saved /\ answer'.op = "kill"
  BY DoneFields, Zenon DEF Kill
<1>2. Keyed(items') /\ Keyed(saved') /\ Asked(call', items')
  BY <1>1, AskedNone, Zenon DEF DictOK
<1>3. ~Busy'
  BY <1>1, IdleOp DEF Busy
<1>4. Store!Kill
  BY <1>1, <1>3 DEF Store!Kill
<1> QED BY <1>2, <1>4, ToldWith, Zenon DEF StoreStep, Store!Next

LEMMA ClearTells ==
  ASSUME DictOK, Clear
  PROVE  Told
<1>1. call = Idle /\ call' = Idle /\ items' = {} /\ saved' = {} /\ answer'.op = "clear"
  BY DoneFields, Zenon DEF Clear
<1>2. Keyed({})
  BY DEF Keyed
<1>3. Keyed(items') /\ Keyed(saved') /\ Asked(call', items')
  BY <1>1, <1>2, AskedNone, Zenon
<1>4. ~Busy' /\ call /= Closed /\ call' /= Closed
  BY <1>1, IdleOp DEF Busy
<1>5. Dict(items') = <<>> /\ Dict(saved') = <<>>
  BY <1>1, DictEmpty, Zenon
<1>6. Store!Clear
  BY <1>1, <1>4, <1>5 DEF Store!Clear
<1> QED BY <1>3, <1>6, ToldWith, Zenon DEF StoreStep, Store!Next

LEMMA NextTells ==
  ASSUME CallsOK, DictOK, Next
  PROVE  Told
<1>0. RightAnswer
  BY NextKeeps, Zenon DEF StepOK
<1>1. CASE \E k \in Keys, v \in Values : Insert(k, v) \/ Update(k, v)
  BY <1>1, InsertTells, UpdateTells, Zenon
<1>2. CASE \E k \in Keys : Delete(k) \/ Find(k)
  BY <1>2, DeleteTells, FindTells, Zenon
<1>3. CASE Round
  BY <1>0, <1>3, InsertRoundTells, DeleteRoundTells, EdgeRoundTells, FindRoundTells, UpdateRoundTells, Zenon DEF Round
<1>4. CASE Save \/ Flush \/ Close \/ Open \/ Kill \/ Clear
  BY <1>4, SaveTells, CloseTells, OpenTells, KillTells, ClearTells, Zenon
<1> QED BY <1>1, <1>2, <1>3, <1>4, Zenon DEF Next

LEMMA StillTells ==
  ASSUME DictOK, UNCHANGED vars
  PROVE  Told
<1>1. call' = call /\ answer' = answer /\ items' = items /\ saved' = saved
  BY DEF vars
<1>2. UNCHANGED Store!vars
  BY <1>1 DEF Store!vars, Busy
<1>3. Keyed(items') /\ Keyed(saved') /\ Asked(call', items')
  BY <1>1, Zenon DEF DictOK
<1> QED BY <1>2, <1>3, ToldWith, Zenon DEF StoreStep

LEMMA InitTells == Init => DictOK /\ Store!Init
<1> SUFFICES ASSUME Init PROVE DictOK /\ Store!Init
  OBVIOUS
<1>1. /\ call = Closed /\ items = {} /\ saved = {}
      /\ answer = [op |-> "start", key |-> 0, res |-> "yes"]
  BY Zenon DEF Init
<1>2. Keyed({})
  BY DEF Keyed
<1>3. DictOK
  BY <1>1, <1>2, AskedNone, Zenon DEF DictOK
<1>4. ~Busy
  BY <1>1, IdleOp DEF Busy
<1>5. Dict(items) \in [DOMAIN Dict(items) -> Values] /\ DOMAIN Dict(items) \subseteq Keys
  BY <1>1, <1>2, DictMap, Zenon
<1>6. Store!Init
  BY <1>1, <1>4, <1>5, Zenon DEF Store!Init
<1> QED BY <1>3, <1>6

(* A client that calls insert, del, update, find, find2, flush, commit,    *)
(* close, open and clear (btreedb.h), and nothing else, sees the           *)
(* dictionary of ItemStore: each answer is that of the dictionary, and an  *)
(* open after the process ended finds the items of the last commit.  Its   *)
(* get by key is not among them: it answers nothing and spoils the item.   *)
THEOREM StoreImplemented == Spec => IsItemStore
<1>1. Init => CallsOK /\ DictOK /\ Store!Init
  BY InitOK, InitTells, Zenon
<1>2. CallsOK /\ DictOK /\ [Next]_vars => CallsOK' /\ DictOK' /\ [Store!Next]_(Store!vars)
  <2>1. ASSUME CallsOK, DictOK, Next PROVE CallsOK' /\ Told
    BY <2>1, NextKeeps, NextTells, Zenon DEF StepOK
  <2>2. ASSUME CallsOK, DictOK, UNCHANGED vars PROVE CallsOK' /\ Told
    BY <2>2, StillOK, StillTells, Zenon
  <2> QED BY <2>1, <2>2, Zenon DEF Told, StoreStep
<1> QED BY <1>1, <1>2, PTL DEF Spec, IsItemStore, Store!Spec
=============================================================================
