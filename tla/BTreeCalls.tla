----------------------------- MODULE BTreeCalls -----------------------------
(***************************************************************************)
(* btreedb (sax/db/btreedb.cpp) one round of a loop at a time: a call that *)
(* inserts, deletes, updates or finds goes down the tree from the root,    *)
(* and splits, lends and merges nodes on the way.  BTreeDb takes each of   *)
(* these calls as one step, on small trees; here the rounds are steps, so  *)
(* that what a call does follows from what each round keeps, for a tree of *)
(* any height.                                                             *)
(*                                                                         *)
(* items and saved are not in the code: they are the dictionary that the   *)
(* calls so far amount to, and what it was when it was last written.       *)
(***************************************************************************)
EXTENDS BTreeSteps

CONSTANTS KeyCount,    \* keys, numbered in their order: 1 .. KeyCount
          Values,      \* the values the client stores
          CacheSize,   \* _sfh.cacheSize
          OptimizeNum  \* _optimizeNum

ASSUME BTreeCallsAssumption == KeyCount \in Nat /\ CacheSize \in Nat /\ OptimizeNum \in Nat

VARIABLES
  tree,    \* _root and the nodes below it, and the counts of _sfh
  file,    \* the file: its pages and its header
  call,    \* the call that is under way, and where it is in the tree
  answer,  \* what the last call returned
  items,   \* the items the client has inserted and not deleted
  saved    \* what items was when it was last written

vars == <<tree, file, call, answer, items, saved>>

Keys == 1 .. KeyCount
Item == Keys \X Values

Idle == [op |-> "none"]
Closed == [op |-> "closed"]

Init ==
  /\ file = EmptyFile
  /\ tree = Unloaded(file.num, file.count)
  /\ call = Closed
  /\ answer = [op |-> "start", key |-> 0, res |-> "yes"]
  /\ items = {} /\ saved = {}

-----------------------------------------------------------------------------
Answer(op, k, res) == call' = Idle /\ answer' = [op |-> op, key |-> k, res |-> res]
Done(op) == answer' = [op |-> op, key |-> 0, res |-> "yes"]

At(k) == {x \in items : x[1] = k}

Over == Crowded(tree, CacheSize)

(* A call begins, as asked; it may have to write the tree first.  The      *)
(* client steers clear of a hollow root: it only reads or deletes then,    *)
(* with room in the cache for that.                                        *)
Begin(s, written) ==
  /\ call.op = "none"
  /\ ~(Hollow(tree) /\ written)
  /\ file' = s.file
  /\ saved' = IF written THEN items ELSE saved
  /\ UNCHANGED <<answer, items>>

Ready == ReadyFor(tree, file, Over)
InsertReady == InsertReadyFor(tree, file, OptimizeNum, Over)
Writes == Over \/ tree.num = OptimizeNum

StartInsert(asked, it) ==
  /\ tree' = Roomy(InsertReady.tree)
  /\ call' = [op |-> "insert", asked |-> asked, item |-> it, at |-> tree'.root]

Insert(k, v) == ~Hollow(tree) /\ Begin(InsertReady, Writes) /\ StartInsert("insert", <<k, v>>)

Delete(k) ==
  /\ Begin(Ready, Over)
  /\ tree' = Shrunk(Ready.tree)
  /\ call' = [op |-> "del", key |-> k, seek |-> k, at |-> tree'.root]

(* find and find2, not get (line 184), which no client here calls. *)
Find(k) ==
  /\ Begin(Ready, Over)
  /\ tree' = Ready.tree
  /\ call' = [op |-> "find", key |-> k, at |-> tree'.root]

Update(k, v) ==
  /\ ~Hollow(tree)
  /\ Begin(Ready, Over)
  /\ tree' = Ready.tree
  /\ call' = [op |-> "update", key |-> k, value |-> v, at |-> tree'.root]

-----------------------------------------------------------------------------
InsertRound ==
  /\ call.op = "insert"
  /\ LET o == InsertStep(tree, file.pages, call.at, call.item)
     IN /\ tree' = o.tree
        /\ \/ /\ o.res = "on"
              /\ call' = [call EXCEPT !.at = o.at]
              /\ UNCHANGED <<answer, items>>
           \/ /\ o.res /= "on"
              /\ Answer(call.asked, call.item[1], o.res)
              /\ items' = IF At(call.item[1]) = {} THEN items \cup {call.item} ELSE items
  /\ UNCHANGED <<file, saved>>

(* seek is the key that the loop looks for: the one asked, or that of the  *)
(* neighbour that has taken its place.                                     *)
DeleteRound ==
  /\ call.op = "del"
  /\ LET o == DeleteStep(tree, file.pages, call.at, call.seek)
     IN /\ tree' = IF o.res = "yes" THEN [o.tree EXCEPT !.num = @ - 1] ELSE o.tree
        /\ \/ /\ o.res = "on"
              /\ call' = [call EXCEPT !.at = o.at]
              /\ UNCHANGED <<answer, items>>
           \/ /\ o.res \in {"pred", "succ"}
              /\ call' = [op |-> o.res, key |-> call.key, at |-> o.at, top |-> call.at,
                          place |-> Smaller(tree.mem[call.at].items, call.seek) + 1, kid |-> o.at]
              /\ UNCHANGED <<answer, items>>
           \/ /\ o.res \in {"yes", "no"}
              /\ Answer("del", call.key, o.res)
              /\ items' = items \ At(call.key)
  /\ UNCHANGED <<file, saved>>

(* _findPred, _findSucc, and the loan that follows *)
EdgeRound ==
  /\ call.op \in {"pred", "succ"}
  /\ LET n == tree.mem[call.at]
         last == call.op = "pred"
         c == EdgeKid(n, last)
         e == EdgeOf(n, last)
     IN \/ /\ ~n.leaf
           /\ tree' = Load(tree, file.pages, {c})
           /\ call' = [call EXCEPT !.at = c]
        \/ /\ n.leaf
           /\ tree' = Replace(tree, call.top, call.place, e)
           /\ call' = [op |-> "del", key |-> call.key, seek |-> e[1], at |-> call.kid]
  /\ UNCHANGED <<file, answer, items, saved>>

(* search_: the item is in node n, or the search goes on at page c. *)
FindRound ==
  /\ call.op = "find"
  /\ LET n == tree.mem[call.at]
         i == Smaller(n.items, call.key) + 1
         c == n.kids[i]
     IN \/ /\ Holds(n.items, call.key)
           /\ Answer("find", call.key, n.items[i][2])
           /\ UNCHANGED tree
        \/ /\ ~Holds(n.items, call.key) /\ n.kids = <<>>
           /\ Answer("find", call.key, "no")
           /\ UNCHANGED tree
        \/ /\ ~Holds(n.items, call.key) /\ n.kids /= <<>>
           /\ tree' = Load(tree, file.pages, {c})
           /\ call' = [call EXCEPT !.at = c]
           /\ UNCHANGED answer
  /\ UNCHANGED <<file, items, saved>>

(* An item that is found is changed in place, one that is not is inserted. *)
UpdateRound ==
  /\ call.op = "update"
  /\ LET n == tree.mem[call.at]
         i == Smaller(n.items, call.key) + 1
         c == n.kids[i]
         it == <<call.key, call.value>>
     IN \/ /\ Holds(n.items, call.key)
           /\ tree' = Replace(tree, call.at, i, it)
           /\ Answer("update", call.key, "yes")
           /\ items' = (items \ At(call.key)) \cup {it}
           /\ UNCHANGED <<file, saved>>
        \/ /\ ~Holds(n.items, call.key) /\ n.kids = <<>>
           /\ StartInsert("update", it)
           /\ file' = InsertReady.file
           /\ saved' = IF Writes THEN items ELSE saved
           /\ UNCHANGED <<answer, items>>
        \/ /\ ~Holds(n.items, call.key) /\ n.kids /= <<>>
           /\ tree' = Load(tree, file.pages, {c})
           /\ call' = [call EXCEPT !.at = c]
           /\ UNCHANGED <<file, answer, items, saved>>

-----------------------------------------------------------------------------
(* commit, flush and close, of a tree whose root is not hollow *)
Written_(op, t, c) ==
  /\ call = Idle /\ ~Hollow(tree)
  /\ file' = Commit(tree, file) /\ saved' = items
  /\ tree' = t /\ call' = c
  /\ UNCHANGED items
  /\ Done(op)

Save == Written_("flush", [tree EXCEPT !.dirty = {}], Idle)
Flush == Written_("flush", Unloaded(tree.num, tree.pages), Idle)
Close == Written_("close", Unloaded(tree.num, tree.pages), Closed)

Open ==
  /\ call = Closed
  /\ tree' = Opened(file) /\ call' = Idle
  /\ UNCHANGED <<file, items, saved>>
  /\ Done("open")

(* The process ends, also in the middle of a call, and what it has not     *)
(* written goes.                                                           *)
Kill ==
  /\ call /= Closed
  /\ tree' = Unloaded(file.num, file.count) /\ call' = Closed
  /\ items' = saved
  /\ UNCHANGED <<file, saved>>
  /\ Done("kill")

Clear ==
  /\ call = Idle
  /\ file' = EmptyFile /\ tree' = Opened(EmptyFile)
  /\ items' = {} /\ saved' = {}
  /\ UNCHANGED call
  /\ Done("clear")

Round == InsertRound \/ DeleteRound \/ EdgeRound \/ FindRound \/ UpdateRound
Next ==
  \/ \E k \in Keys, v \in Values : Insert(k, v) \/ Update(k, v)
  \/ \E k \in Keys : Delete(k) \/ Find(k)
  \/ Round
  \/ Save \/ Flush \/ Close \/ Open \/ Kill \/ Clear

Spec == Init /\ [][Next]_vars

-----------------------------------------------------------------------------
(* The whole tree.  Its places w say which pages are in it, how high above *)
(* the leaves each is, and the keys between which all that is at or below  *)
(* it lies; nodes has the node of each page.                               *)
Count(nodes, p) == Len(nodes[p].items)
KidCount(nodes, p) == Len(nodes[p].kids)
ItemAt(nodes, p, i) == nodes[p].items[i]
KeyAt(nodes, p, i) == ItemAt(nodes, p, i)[1]
KidAt(nodes, p, i) == nodes[p].kids[i]

Nodes == [leaf : BOOLEAN, items : Seq(Item), kids : Seq(Nat)]

PlacesOK(w) ==
  /\ w.pages \subseteq Nat
  /\ w.height \in [w.pages -> Nat]
  /\ w.lo \in [w.pages -> Int] /\ w.hi \in [w.pages -> Int]

NodesOK(nodes, w) == \A p \in w.pages : p \in DOMAIN nodes /\ nodes[p] \in Nodes

Topped(root, w) ==
  /\ root \in w.pages /\ w.lo[root] = 0 /\ w.hi[root] = KeyCount + 1
  /\ \A p \in w.pages : w.height[p] <= w.height[root] /\ w.lo[root] <= w.lo[p] /\ w.hi[p] <= w.hi[root]

(* The leaves are equally deep; another node has a kid before, between and *)
(* after its items.                                                        *)
Branching(nodes, w) ==
  \A p \in w.pages : /\ nodes[p].leaf = (w.height[p] = 0)
                     /\ KidCount(nodes, p) = IF w.height[p] = 0 THEN 0 ELSE Count(nodes, p) + 1

Ordered(nodes, w) ==
  \A p \in w.pages :
    /\ w.lo[p] < w.hi[p]
    /\ \A i \in 1 .. Count(nodes, p) : w.lo[p] < KeyAt(nodes, p, i) /\ KeyAt(nodes, p, i) < w.hi[p]
    /\ \A i, j \in 1 .. Count(nodes, p) : i < j => KeyAt(nodes, p, i) < KeyAt(nodes, p, j)

Hanging(nodes, w) ==
  \A p \in w.pages : \A i \in 1 .. KidCount(nodes, p) :
    /\ KidAt(nodes, p, i) \in w.pages
    /\ w.height[p] = w.height[KidAt(nodes, p, i)] + 1
    /\ w.lo[KidAt(nodes, p, i)] = IF i = 1 THEN w.lo[p] ELSE KeyAt(nodes, p, i - 1)
    /\ w.hi[KidAt(nodes, p, i)] = IF i = KidCount(nodes, p) THEN w.hi[p] ELSE KeyAt(nodes, p, i)

(* Two nodes lie apart from each other, or the lower within the upper.     *)
Apart(nodes, w) ==
  /\ \A p, q \in w.pages : w.height[q] <= w.height[p] /\ p /= q =>
       \/ w.hi[p] <= w.lo[q] \/ w.hi[q] <= w.lo[p]
       \/ w.height[q] < w.height[p] /\ w.lo[p] <= w.lo[q] /\ w.hi[q] <= w.hi[p]
  /\ \A p, q \in w.pages : w.height[q] < w.height[p] =>
       \A i \in 1 .. Count(nodes, p) : KeyAt(nodes, p, i) <= w.lo[q] \/ w.hi[q] <= KeyAt(nodes, p, i)

Reached(nodes, root, w) ==
  \A p \in w.pages \ {root} : \E q \in w.pages : \E i \in 1 .. KidCount(nodes, q) : KidAt(nodes, q, i) = p

Shape(nodes, root, w) ==
  /\ PlacesOK(w) /\ NodesOK(nodes, w) /\ Topped(root, w) /\ Branching(nodes, w) /\ Ordered(nodes, w)
  /\ Hanging(nodes, w) /\ Apart(nodes, w) /\ Reached(nodes, root, w)

Sized(nodes, root, w) ==
  \A p \in w.pages : Count(nodes, p) <= MaxKeys /\ (p /= root => Count(nodes, p) >= MinDegree - 1)

Contents(nodes, w) ==
  {it \in Item : \E p \in w.pages : \E i \in 1 .. Count(nodes, p) : ItemAt(nodes, p, i) = it}

BTreeOf(nodes, root, w, its) ==
  Shape(nodes, root, w) /\ Sized(nodes, root, w) /\ Contents(nodes, w) = its

Root == IF tree.root = NoPage THEN file.root ELSE tree.root

(* The tree is a B-tree of the items of the dictionary, and what the file  *)
(* holds one of those that were saved.                                     *)
TreeIntact == call.op \in {"none", "closed"} => \E w : BTreeOf(View(tree, file.pages), Root, w, items)
FileIntact == \E w : BTreeOf(file.pages, file.root, w, saved) /\ file.num = Cardinality(saved)

-----------------------------------------------------------------------------
(* While a neighbour has taken the place of the item to be deleted it is   *)
(* in the tree twice.                                                      *)
Lending == call.op = "del" /\ call.seek /= call.key

(* Every round leaves the loaded nodes a piece of a B-tree: their items    *)
(* are in order, no two of them hold the same key or have the same kid, a  *)
(* loaded kid has its items between those of its parent that it hangs      *)
(* between, and no node but the root is too small or any too large.        *)
NodesInPlace ==
  ~Lending =>
    \A p \in DOMAIN tree.mem :
      LET n == tree.mem[p]
          KeyOf(q, j) == tree.mem[q].items[j][1]
      IN /\ Len(n.kids) = IF n.leaf THEN 0 ELSE Len(n.items) + 1
         /\ Len(n.items) <= MaxKeys
         /\ p /= tree.root => Len(n.items) >= MinDegree - 1
         /\ \A i \in 2 .. Len(n.items) : KeyOf(p, i - 1) < KeyOf(p, i)
         /\ \A q \in DOMAIN tree.mem \ {p} :
              /\ Range(n.kids) \cap Range(tree.mem[q].kids) = {}
              /\ \A i \in DOMAIN n.items : ~Holds(tree.mem[q].items, KeyOf(p, i))
         /\ \A i \in DOMAIN n.kids :
              /\ n.kids[i] /= tree.root
              /\ n.kids[i] \in DOMAIN tree.mem =>
                   \A j \in DOMAIN tree.mem[n.kids[i]].items :
                     /\ i > 1 => KeyOf(p, i - 1) < KeyOf(n.kids[i], j)
                     /\ i <= Len(n.items) => KeyOf(n.kids[i], j) < KeyOf(p, i)

(* numItems counts the items of the dictionary between calls. *)
CountKept == call.op \in {"none", "closed"} => tree.num = Cardinality(items)

(* A loaded node that is not marked is as it is in the file, but for a     *)
(* hollow root: so a commit writes every node that it must.                *)
MarkedWhenChanged ==
  \A p \in DOMAIN tree.mem \ tree.dirty :
    \/ p = tree.root /\ Hollow(tree)
    \/ p \in DOMAIN file.pages /\ tree.mem[p] = file.pages[p]

(* What holds in the middle of a call, whatever its rounds do to the tree.  *)
CallsIntact == NodesInPlace /\ CountKept /\ MarkedWhenChanged

(* To its client the database is the dictionary of ItemStore: a call has   *)
(* its effect there when it answers, whatever the rounds before have done  *)
(* to the tree; what it wrote when it began is a save of the dictionary.   *)
Dict(its) == [k \in {it[1] : it \in its} |-> CHOOSE v \in Values : <<k, v>> \in its]
Busy == call.op \notin {"none", "closed"}
Store == INSTANCE ItemStore WITH
  items <- Dict(items), saved <- Dict(saved), opened <- call /= Closed,
  answer <- IF Busy THEN [op |-> "look", key |-> 0, res |-> "yes"] ELSE answer
IsItemStore == Store!Spec
=============================================================================
