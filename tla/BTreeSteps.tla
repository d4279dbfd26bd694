------------------------------ MODULE BTreeSteps ------------------------------
(***************************************************************************)
(* The tree of btreedb (sax/db/btreedb.cpp, btree_node.cpp), and one round *)
(* of each of the loops that insert, delete and search in it, as functions *)
(* from a tree to a tree.                                                  *)
(*                                                                         *)
(* A tree t has the nodes that are loaded (mem, by their page: fpos), the  *)
(* ones among them that are to be written (dirty), the page of the root,   *)
(* the number of items it counts (num) and of pages allocated (pages).  A  *)
(* node that is not in mem is a btree_node with isLoaded = false: it is    *)
(* read from the pages of the file, f, when a step first looks at it.  The *)
(* fields parent and childNo are those that loadChild sets on the way down *)
(* to a node, so a node's place in the tree says the same.                 *)
(***************************************************************************)
EXTENDS Integers, Sequences, SequencesExt, FiniteSets, Functions

CONSTANTS MaxKeys,    \* _sfh.maxKeys
          DelaySplit  \* _isDelaySplit

ASSUME BTreeAssumption == MaxKeys \in Nat /\ MaxKeys >= 6 /\ DelaySplit \in BOOLEAN

MinDegree == MaxKeys \div 3

(* An item is <<key, value>>; a leaf has no kids. *)
Node(leaf, its, kids) == [leaf |-> leaf, items |-> its, kids |-> kids]

Smaller(its, k) == Cardinality({i \in DOMAIN its : its[i][1] < k})
Holds(its, k) == \E i \in DOMAIN its : its[i][1] = k
Full(n) == Len(n.items) >= MaxKeys
Enough(n) == Len(n.items) >= MinDegree
Part(s, from, to) == IF s = <<>> THEN s ELSE SubSeq(s, from, to)

Put(p, n) == [q \in {p} |-> n]
g ++ h == [q \in DOMAIN g \cup DOMAIN h |-> IF q \in DOMAIN g THEN g[q] ELSE h[q]]

(* loadChild, read *)
Load(t, f, ps) == [t EXCEPT !.mem = @ ++ [p \in ps \ DOMAIN @ |-> f[p]]]

(* The nodes of ns replace those of t and are marked by _setDirty. *)
Change(t, ns) == [t EXCEPT !.mem = ns ++ @, !.dirty = @ \cup DOMAIN ns]

NoPage == -1

(* A round of a loop ends the call, with its result, or goes on at page p. *)
Ended(t, res) == [tree |-> t, res |-> res, at |-> NoPage]
On(t, p) == [tree |-> t, res |-> "on", at |-> p]

-----------------------------------------------------------------------------
(* insert                                                                  *)

(* The median of the full child kids[i] of p moves up, what follows it     *)
(* into a new node on the next page.                                       *)
Split(t, p, i) ==
  LET n == t.mem[p]
      c == n.kids[i]
      child == t.mem[c]
      left == Len(child.items) \div 2
      new == t.pages
  IN Change([t EXCEPT !.pages = @ + 1],
       Put(p, [n EXCEPT !.items = InsertAt(@, i, child.items[left + 1]),
                        !.kids = InsertAt(@, i + 1, new)])
    ++ Put(c, [child EXCEPT !.items = SubSeq(@, 1, left), !.kids = Part(@, 1, left + 1)])
    ++ Put(new, [child EXCEPT !.items = SubSeq(@, left + 2, Len(@)),
                              !.kids = Part(@, left + 2, Len(@))]))

(* The full leaves kids[i] and kids[i + 1] of p become three; the third,   *)
(* not the one in between, is on the new page.                             *)
Split3Leaf(t, p, i) ==
  LET n == t.mem[p]
      c1 == n.kids[i]
      c2 == n.kids[i + 1]
      all == t.mem[c1].items \o <<n.items[i]>> \o t.mem[c2].items
      count1 == (2 * MaxKeys) \div 3
      count3 == 2 * MaxKeys - 1 - count1 - (MaxKeys - MaxKeys \div 3 - 1)
      new == t.pages
      second == count1 + count3 + 2   \* the place in all of the second item that moves up
  IN Change([t EXCEPT !.pages = @ + 1],
       Put(p, [n EXCEPT !.items = InsertAt([@ EXCEPT ![i] = all[count1 + 1]], i + 1, all[second]),
                        !.kids = InsertAt(@, i + 2, new)])
    ++ Put(c1, Node(TRUE, SubSeq(all, 1, count1), <<>>))
    ++ Put(c2, Node(TRUE, SubSeq(all, count1 + 2, second - 1), <<>>))
    ++ Put(new, Node(TRUE, SubSeq(all, second + 1, Len(all)), <<>>)))

Added(t, ns) == Ended([Change(t, ns) EXCEPT !.num = @ + 1], "yes")

(* The full leaf c = kids[i] of p gives its last item to p and gets p's    *)
(* item given to its right sibling, which has room.                        *)
ShareRight(t, p, i, it) ==
  LET n == t.mem[p]
      c == n.kids[i]
      r == n.kids[i + 1]
      last == Last(t.mem[c].items)
      right == [t.mem[r] EXCEPT !.items = <<n.items[i]>> \o @]
  IN CASE last[1] = it[1] -> Ended(t, "no")
       [] last[1] < it[1] -> Added(t, Put(p, [n EXCEPT !.items[i] = it]) ++ Put(r, right))
       [] OTHER -> On(Change(t, Put(p, [n EXCEPT !.items[i] = last]) ++ Put(r, right)
                             ++ Put(c, [t.mem[c] EXCEPT !.items = Front(@)])), c)

(* The same to the left sibling. *)
ShareLeft(t, p, i, it) ==
  LET n == t.mem[p]
      c == n.kids[i]
      l == n.kids[i - 1]
      first == Head(t.mem[c].items)
      left == [t.mem[l] EXCEPT !.items = Append(@, n.items[i - 1])]
  IN CASE first[1] = it[1] -> Ended(t, "no")
       [] first[1] > it[1] -> Added(t, Put(p, [n EXCEPT !.items[i - 1] = it]) ++ Put(l, left))
       [] OTHER -> On(Change(t, Put(p, [n EXCEPT !.items[i - 1] = first]) ++ Put(l, left)
                             ++ Put(c, [t.mem[c] EXCEPT !.items = Tail(@)])), c)

(* After a split below p the item goes into the child it now belongs to,   *)
(* unless it is one of those that moved up.                                *)
InsertBelow(t, p, it) ==
  LET n == t.mem[p]
  IN IF Holds(n.items, it[1]) THEN Ended(t, "no")
     ELSE On(t, n.kids[Smaller(n.items, it[1]) + 1])

(* The child kids[i] of p is a full leaf and splits are delayed.  A leaf   *)
(* without a sibling, under a root that has lost its last item, makes the  *)
(* code use a child that is not there.                                     *)
InsertDelayed(t, f, p, i, it) ==
  LET n == t.mem[p]
      r == i + 1
      l == i - 1
      right == IF r <= Len(n.kids) THEN Load(t, f, {n.kids[r]}) ELSE t
      both == IF l >= 1 THEN Load(right, f, {n.kids[l]}) ELSE right
  IN CASE r <= Len(n.kids) /\ ~Full(right.mem[n.kids[r]]) -> ShareRight(right, p, i, it)
       [] ~(r <= Len(n.kids) /\ ~Full(right.mem[n.kids[r]]))
          /\ l >= 1 /\ ~Full(both.mem[n.kids[l]]) -> ShareLeft(both, p, i, it)
       [] Len(n.kids) < 2 -> Ended(t, "crash")
       [] OTHER -> InsertBelow(Split3Leaf(both, p, IF l >= 1 THEN l ELSE i), p, it)

(* A round of the loop at L1: p is loaded and has room. *)
InsertStep(t, f, p, it) ==
  LET n == t.mem[p]
      i == Smaller(n.items, it[1]) + 1
      c == n.kids[i]
      u == Load(t, f, {c})
  IN CASE Holds(n.items, it[1]) -> Ended(t, "no")
       [] ~Holds(n.items, it[1]) /\ n.leaf ->
            Added(t, Put(p, [n EXCEPT !.items = InsertAt(@, i, it)]))
       [] ~Holds(n.items, it[1]) /\ ~n.leaf ->
            IF n.kids = <<>> THEN Ended(t, "crash")
            ELSE IF ~Full(u.mem[c]) THEN On(u, c)
            ELSE IF u.mem[c].leaf /\ DelaySplit THEN InsertDelayed(u, f, p, i, it)
            ELSE InsertBelow(Split(u, p, i), p, it)

(* insert begins at a root with room: a full one becomes the only child of *)
(* a new one and is split.                                                 *)
Roomy(t) ==
  LET new == t.pages
      grown == [Change(t, Put(new, Node(FALSE, <<>>, <<t.root>>)))
                  EXCEPT !.root = new, !.pages = @ + 1]
  IN IF Full(t.mem[t.root]) THEN Split(grown, new, 1) ELSE t

-----------------------------------------------------------------------------
(* del                                                                     *)

(* _merge: kids[i], the item between, and kids[i + 1] become one node.     *)
(* When p has no item left it is the merged child, not p, that is marked.  *)
Merge(t, f, p, i) ==
  LET n == t.mem[p]
      c1 == n.kids[i]
      c2 == n.kids[i + 1]
      u == Load(t, f, {n.kids[j] : j \in i + 2 .. Len(n.kids)}
                       \cup {t.mem[c2].kids[j] : j \in DOMAIN t.mem[c2].kids})
      a == t.mem[c1]
      b == t.mem[c2]
      merged == Node(a.leaf,
                     SubSeq(a.items, 1, MinDegree - 1) \o <<n.items[i]>>
                       \o SubSeq(b.items, 1, MinDegree - 1),
                     Part(a.kids, 1, MinDegree) \o Part(b.kids, 1, MinDegree))
      less == [n EXCEPT !.items = RemoveAt(@, i), !.kids = RemoveAt(@, i + 1)]
      w == [u EXCEPT !.mem = Restrict(@, DOMAIN @ \ {c2}), !.dirty = @ \ {c2}]
      parent == IF less.items = <<>> THEN c1 ELSE p
  IN [w EXCEPT !.mem = Put(p, less) ++ Put(c1, merged) ++ @, !.dirty = @ \cup {c1, parent}]

(* Case 2: the item is items[i] of the internal node p.  When a kid next   *)
(* to it can spare an item, its neighbour in the subtree at that kid is to *)
(* take its place (pred, succ).                                            *)
DeleteInternal(t, f, p, i) ==
  LET n == t.mem[p]
      l == n.kids[i]
      r == n.kids[i + 1]
      u == Load(t, f, {l, r})
  IN IF Enough(u.mem[l]) THEN [tree |-> u, res |-> "pred", at |-> l]
     ELSE IF Enough(u.mem[r]) THEN [tree |-> u, res |-> "succ", at |-> r]
     ELSE On(Merge(u, f, p, i), l)

ReplaceUnmarked(t, p, i, it) == [t EXCEPT !.mem[p].items[i] = it]   \* a slip

(* Item i of node p is replaced: by that neighbour, or in update. *)
Replace(t, p, i, it) == Change(t, Put(p, [t.mem[p] EXCEPT !.items[i] = it]))

EdgeKidOther(n, last) == IF last THEN Head(n.kids) ELSE Last(n.kids)   \* a slip

(* A round of _findPred or _findSucc: the kid of p, or the item of leaf p, *)
(* that is the last or the first.                                          *)
EdgeKid(n, last) == IF last THEN Last(n.kids) ELSE Head(n.kids)
EdgeOf(n, last) == IF last THEN Last(n.items) ELSE Head(n.items)

(* Case 3a: kids[i] takes an item, and a subtree, from its sibling. *)
FromLeft(t, p, i) ==
  LET n == t.mem[p]
      c == n.kids[i]
      l == n.kids[i - 1]
      lender == t.mem[l]
  IN Change(t, Put(p, [n EXCEPT !.items[i - 1] = Last(lender.items)])
            ++ Put(c, Node(t.mem[c].leaf, <<n.items[i - 1]>> \o t.mem[c].items,
                           IF lender.leaf THEN <<>> ELSE <<Last(lender.kids)>> \o t.mem[c].kids))
            ++ Put(l, Node(lender.leaf, Front(lender.items),
                           IF lender.leaf THEN <<>> ELSE Front(lender.kids))))

FromRight(t, p, i) ==
  LET n == t.mem[p]
      c == n.kids[i]
      r == n.kids[i + 1]
      lender == t.mem[r]
  IN Change(t, Put(p, [n EXCEPT !.items[i] = Head(lender.items)])
            ++ Put(c, Node(t.mem[c].leaf, Append(t.mem[c].items, n.items[i]),
                           IF lender.leaf THEN <<>> ELSE Append(t.mem[c].kids, Head(lender.kids))))
            ++ Put(r, Node(lender.leaf, Tail(lender.items),
                           IF lender.leaf THEN <<>> ELSE Tail(lender.kids))))

(* Case 3: the item, if it is there, is below kids[i]; findPos names it as *)
(* left of items[i] or right of the last item, items[j].                   *)
DeleteBelow(t, f, p, i) ==
  LET n == t.mem[p]
      c == n.kids[i]
      j == IF i <= Len(n.items) THEN i ELSE i - 1
      u == Load(t, f, {n.kids[j], n.kids[j + 1]})
      w == Load(u, f, {n.kids[s] : s \in {i - 1, i + 1} \cap DOMAIN n.kids})
      Lends(s) == s \in DOMAIN n.kids /\ Enough(w.mem[n.kids[s]])
  IN IF Enough(u.mem[c]) THEN On(u, c)
     ELSE IF Lends(i - 1) THEN On(FromLeft(w, p, i), c)
     ELSE IF Lends(i + 1) THEN On(FromRight(w, p, i), c)
     ELSE On(Merge(w, f, p, j), n.kids[j])

(* A round of the loop at L0 of _delete, with p loaded. *)
DeleteStep(t, f, p, k) ==
  LET n == t.mem[p]
      i == Smaller(n.items, k) + 1
  IN CASE Holds(n.items, k) /\ n.leaf ->
            Ended(Change(t, Put(p, [n EXCEPT !.items = RemoveAt(@, i)])), "yes")
       [] Holds(n.items, k) /\ ~n.leaf -> DeleteInternal(t, f, p, i)
       [] ~Holds(n.items, k) /\ (n.leaf \/ n.items = <<>>) -> Ended(t, "no")
       [] ~Holds(n.items, k) /\ ~n.leaf /\ n.items /= <<>> -> DeleteBelow(t, f, p, i)

(* A root that has lost its last item hands over to its only child: this   *)
(* is done by the next del, not by the one that emptied it.                *)
Hollow(t) == t.root \in DOMAIN t.mem /\ ~t.mem[t.root].leaf /\ t.mem[t.root].items = <<>>

(* A slip: the old root is not deleted. *)
ShrunkKeepingRoot(t) == IF ~Hollow(t) THEN t ELSE [t EXCEPT !.root = t.mem[t.root].kids[1]]

Shrunk(t) ==
  IF ~Hollow(t) THEN t
  ELSE [t EXCEPT !.root = t.mem[t.root].kids[1],
                 !.mem = Restrict(@, DOMAIN @ \ {t.root}), !.dirty = @ \ {t.root}]

-----------------------------------------------------------------------------
(* the file f: its pages, and in its header the root, the number of items  *)
(* and that of pages                                                       *)

View(t, f) == t.mem ++ f

Unloaded(num, pages) == [mem |-> <<>>, dirty |-> {}, root |-> NoPage, num |-> num, pages |-> pages]

(* open, of a file that is not there *)
EmptyFile == [pages |-> Put(0, Node(TRUE, <<>>, <<>>)), root |-> 0, num |-> 0, count |-> 1]

(* commit: write for each node that is dirty, toFile for the header.  A    *)
(* node without items is written without its kids.                         *)
Written(n) == IF n.items = <<>> THEN [n EXCEPT !.kids = <<>>] ELSE n
Commit(t, f) == [pages |-> [p \in t.dirty |-> Written(t.mem[p])] ++ f.pages,
                 root |-> IF t.root = NoPage THEN f.root ELSE t.root,
                 num |-> t.num, count |-> t.pages]

(* getRoot *)
Rooted(t, f) == IF t.root /= NoPage THEN t ELSE Load([t EXCEPT !.root = f.root], f.pages, {f.root})
Opened(f) == Rooted(Unloaded(f.num, f.count), f)

(* _flushCache, _safeFlushCache, _flushCacheImpl: when more than cache     *)
(* nodes are loaded, everything is written and all but the root unloaded.  *)
Unload(t) == [t EXCEPT !.mem = Restrict(@, {t.root}), !.dirty = {}]
Crowded(t, cache) == Cardinality(DOMAIN t.mem) > cache
ReadyFor(t, f, over) == IF over THEN [tree |-> Unload(Rooted(t, f)), file |-> Commit(Rooted(t, f), f)]
                        ELSE [tree |-> Rooted(t, f), file |-> f]

(* insert: at num items optimize_ commits first. *)
InsertReadyFor(t, f, num, over) ==
  IF t.num = num THEN ReadyFor([t EXCEPT !.dirty = {}], Commit(t, f), over) ELSE ReadyFor(t, f, over)
=============================================================================
