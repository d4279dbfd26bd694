------------------------------- MODULE BTreeDb -------------------------------
(***************************************************************************)
(* btreedb (sax/db/btreedb.h, btreedb.cpp): a file of items, the nodes of  *)
(* its tree that are loaded, and a client that calls one operation after   *)
(* the other.  Nodes are written by commit only, which an operation calls  *)
(* itself when more than _sfh.cacheSize nodes are loaded; they are then    *)
(* unloaded and read again when they are needed.                           *)
(*                                                                         *)
(* A run starts with the file that an earlier one left: the operations of  *)
(* one of Starts applied to an empty tree, and close.                      *)
(***************************************************************************)
EXTENDS BTree

CONSTANTS Keys,        \* the keys the client uses, numbers
          Values,      \* the values the client stores
          Starts,      \* what the file may have been through, with the keys and
                       \* values the client goes on to use, and its sizes of cache
          OptimizeNum, \* _optimizeNum
          Careful,     \* whether the client steers clear of a hollow root
          Slices,      \* what the client asks range for: start and count
          MaxSteps     \* bound: operations of the client

BTreeDbAssumption ==
  /\ Keys \subseteq Int
  /\ \A s \in Starts : s.keys \subseteq Keys /\ s.values \subseteq Values /\ s.caches \subseteq Nat \ {0}
  /\ OptimizeNum \in Nat /\ Careful \in BOOLEAN /\ MaxSteps \in Nat

VARIABLES
  open,      \* _isOpen
  tree,      \* _root and the nodes below it, and the counts of _sfh
  file,      \* the file: its pages and its header
  cursor,    \* the Cursor the client holds: <<>>, or a node and a place in it
  answer,    \* what the last operation returned
  scope,     \* the keys the client uses and the size of its cache
  steps      \* the operations so far

vars == <<open, tree, file, cursor, answer, scope, steps>>

(* How a file comes about: inserts of fresh items, deletes of keys. *)
Step(t, op) == IF op[1] = "+" THEN InsertItem(t, <<>>, op[2]).tree ELSE DeleteItem(t, <<>>, op[2]).tree
RECURSIVE Replay(_, _)
Replay(t, ops) ==
  LET half == Len(ops) \div 2
      u == Replay(t, SubSeq(ops, 1, half))
  IN CASE ops = <<>> -> t
       [] Len(ops) = 1 -> Step(t, ops[1])
       [] OTHER -> IF u.num >= 0 THEN Replay(u, SubSeq(ops, half + 1, Len(ops))) ELSE u
Built(ops) == Commit(Replay(Opened(EmptyFile), ops), EmptyFile)

TypeOK ==
  LET Item == Keys \X Values
      NodeOK(n) == /\ n.leaf \in BOOLEAN
                   /\ n.items \in Seq(Item) /\ Len(n.items) <= MaxKeys
                   /\ n.kids \in Seq(Nat)
  IN /\ open \in BOOLEAN
     /\ \A p \in DOMAIN tree.mem : NodeOK(tree.mem[p])
     /\ tree.dirty \subseteq DOMAIN tree.mem
     /\ tree.root \in {NoPage} \cup DOMAIN tree.mem
     /\ tree.num \in Nat
     /\ DOMAIN tree.mem \subseteq 0 .. tree.pages - 1
     /\ DOMAIN file.pages \subseteq 0 .. file.count - 1
     /\ file.root \in DOMAIN file.pages /\ file.count <= tree.pages

InitFrom(s, c) ==
  /\ open = FALSE
  /\ file = Built(s.ops)
  /\ tree = Unloaded(file.num, file.count)
  /\ cursor = <<>>
  /\ answer = [op |-> "start", key |-> 0, res |-> "yes"]
  /\ scope = [keys |-> s.keys, values |-> s.values, cache |-> c]
  /\ steps = 0
Init == \E s \in Starts : \E c \in s.caches : InitFrom(s, c)

-----------------------------------------------------------------------------
Answer(op, k, res) == answer' = [op |-> op, key |-> k, res |-> res]
Done(op) == Answer(op, 0, "yes")

Over == Crowded(tree, scope.cache)

(* An operation begins.  With a hollow root the client of a careful run    *)
(* only reads or deletes, and has room in the cache for that.              *)
Call == /\ open /\ steps < MaxSteps /\ steps' = steps + 1
        /\ ~(Hollow(tree) /\ Over)
        /\ UNCHANGED <<open, scope>>
Mends == ~(Careful /\ Hollow(tree))

Ready == ReadyFor(tree, file, Over)
Held == IF Over THEN <<>> ELSE cursor   \* a cursor does not outlive its node

InsertReady(t, f) == InsertReadyFor(t, f, OptimizeNum, Crowded(t, scope.cache))

Inserted(s, op, it) ==
  /\ LET o == InsertItem(s.tree, s.file.pages, it)
     IN tree' = o.tree /\ Answer(op, it[1], o.res)
  /\ file' = s.file
  /\ cursor' = <<>>

Insert(k, v) == Call /\ Mends /\ Inserted(InsertReady(tree, file), "insert", <<k, v>>)

Delete(k) ==
  /\ Call
  /\ LET o == DeleteItem(Ready.tree, Ready.file.pages, k)
     IN tree' = o.tree /\ Answer("del", k, o.res)
  /\ file' = Ready.file
  /\ cursor' = <<>>

(* search_ from the root of s: the tree with what it loads, and the place. *)
Search(s, k) ==
  LET path == SearchPath(View(s.tree, s.file.pages), s.tree.root, k)
      t == Load(s.tree, s.file.pages, Range(path))
      its == t.mem[Last(path)].items
  IN [tree |-> t, page |-> Last(path), at |-> Smaller(its, k) + 1, found |-> Holds(its, k)]

(* find and find2.  The client does not call get by key (line 184), which  *)
(* hands out no value and spoils the item that it has found, unmarked.     *)
Find(k) ==
  /\ Call
  /\ LET s == Search(Ready, k)
     IN /\ tree' = s.tree
        /\ Answer("find", k, IF s.found THEN s.tree.mem[s.page].items[s.at][2] ELSE "no")
  /\ file' = Ready.file
  /\ cursor' = Held

(* A slip: the node is not marked. *)
ReplacedUnmarked(s, v) == [s.tree EXCEPT !.mem[s.page].items[s.at][2] = v]

Replaced(s, v) == Change(s.tree, Put(s.page, [s.tree.mem[s.page] EXCEPT !.items[s.at][2] = v]))

(* update: in place, or insert, which looks at the cache again. *)
Update(k, v) ==
  /\ Call /\ Mends
  /\ LET s == Search(Ready, k)
     IN IF s.found
        THEN /\ tree' = Replaced(s, v)
             /\ file' = Ready.file
             /\ cursor' = Held
             /\ Answer("update", k, "yes")
        ELSE Inserted(InsertReady(s.tree, Ready.file), "update", <<k, v>>)

-----------------------------------------------------------------------------
(* Cursors: <<node, place>>, where place 0 is before the first item of the *)
(* node and one more than its length is after the last.                    *)
CursorValid == cursor /= <<>> /\ cursor[2] \in DOMAIN tree.mem[cursor[1]].items
CursorKey == tree.mem[cursor[1]].items[cursor[2]][1]

Up(t, p) == CHOOSE q \in DOMAIN t.mem : p \in Range(t.mem[q].kids)
ChildNo(t, p) == CHOOSE i \in DOMAIN t.mem[Up(t, p)].kids : t.mem[Up(t, p)].kids[i] = p

(* Down the first or the last kids from p to a leaf. *)
RECURSIVE Descend(_, _, _)
Descend(nodes, p, last) ==
  IF nodes[p].kids = <<>> THEN <<p>>
  ELSE <<p>> \o Descend(nodes, IF last THEN Last(nodes[p].kids) ELSE Head(nodes[p].kids), last)

Moved(t, c) == [tree |-> t, cursor |-> c]

(* Up from node p, all of whose items on one side are behind the cursor. *)
RECURSIVE Climb(_, _, _)
(* A slip: the last item of q is passed over. *)
ClimbShort(t, p, next) ==
  IF p = t.root THEN <<>>
  ELSE LET q == Up(t, p)
           i == ChildNo(t, p)
       IN IF next /\ i < Len(t.mem[q].items) THEN <<q, i>>
          ELSE IF ~next /\ i > 1 THEN <<q, i - 1>>
          ELSE Climb(t, q, next)

Climb(t, p, next) ==
  IF p = t.root THEN <<>>
  ELSE LET q == Up(t, p)
           i == ChildNo(t, p)
       IN IF next /\ i <= Len(t.mem[q].items) THEN <<q, i>>
          ELSE IF ~next /\ i > 1 THEN <<q, i - 1>>
          ELSE Climb(t, q, next)

(* _seqNext; after a way down from an internal node it loads the siblings  *)
(* of the leaf it arrives at, but for the first.                           *)
SeqNext(t, f, c) ==
  LET n == t.mem[c[1]]
      way == Descend(View(t, f), n.kids[c[2] + 1], FALSE)
      leaf == Last(way)
      u == Load(t, f, Range(way))
      up == Climb(t, c[1], TRUE)
  IN IF ~n.leaf THEN Moved(Load(u, f, Range(Tail(u.mem[Up(u, leaf)].kids))), <<leaf, 1>>)
     ELSE IF c[2] < Len(n.items) THEN Moved(t, <<c[1], c[2] + 1>>)
     ELSE Moved(t, IF up = <<>> THEN <<c[1], c[2] + 1>> ELSE up)

SeqPrev(t, f, c) ==
  LET n == t.mem[c[1]]
      way == Descend(View(t, f), n.kids[c[2]], TRUE)
      u == Load(t, f, Range(way))
      up == Climb(t, c[1], FALSE)
  IN IF ~n.leaf THEN Moved(u, <<Last(way), Len(u.mem[Last(way)].items)>>)
     ELSE IF c[2] > 1 THEN Moved(t, <<c[1], c[2] - 1>>)
     ELSE Moved(t, IF up = <<>> THEN <<c[1], 0>> ELSE up)

(* get_first_locn, get_last_locn *)
Edge(last) ==
  /\ Call
  /\ LET t == Rooted(tree, file)
         way == Descend(View(t, file.pages), t.root, last)
         u == Load(t, file.pages, Range(way))
     IN /\ tree' = u
        /\ cursor' = <<Last(way), IF last THEN Len(u.mem[Last(way)].items) ELSE 1>>
  /\ UNCHANGED file
  /\ Done("look")

(* search, by a client that keeps the cursor: after a miss it is at the    *)
(* next item.                                                              *)
Seek(k) ==
  /\ Call
  /\ LET s == Search(Ready, k)
         up == Climb(s.tree, s.page, TRUE)
         past == s.at > Len(s.tree.mem[s.page].items)
     IN /\ tree' = s.tree
        /\ cursor' = IF ~past \/ up = <<>> \/ tree.num = 0 THEN <<s.page, s.at>> ELSE up
  /\ file' = Ready.file
  /\ Done("look")

(* seq, from a cursor at an item.  When the cache is full the item's key   *)
(* is kept, the nodes are unloaded and the key is searched.                *)
Seq_(next) ==
  /\ Call /\ CursorValid
  /\ LET s == IF Over THEN Search(Ready, CursorKey) ELSE [tree |-> tree]
         c == IF Over THEN <<s.page, s.at>> ELSE cursor
         m == IF next THEN SeqNext(s.tree, Ready.file.pages, c)
              ELSE SeqPrev(s.tree, Ready.file.pages, c)
     IN tree' = m.tree /\ cursor' = m.cursor
  /\ file' = Ready.file
  /\ Done("look")

(* range: the items from the start-th on, counted from 0, count of them or *)
(* as many as there are.  In an internal node it has come up from kids[i], *)
(* with iter items behind it.                                              *)
RECURSIVE RangeUp(_, _)
RangeUp(t, p) ==
  IF p = t.root THEN <<>>
  ELSE LET q == Up(t, p)
           i == ChildNo(t, p)
       IN IF q /= t.root /\ i = Len(t.mem[q].kids) THEN RangeUp(t, q) ELSE <<q, i>>

RECURSIVE RangeFrom(_, _, _, _, _, _)
RangeFrom(t, f, at, iter, out, want) ==
  LET n == t.mem[at[1]]
      first == IF iter > want.start THEN 1 ELSE want.start - iter + 1
      last == first + want.count - Len(out) - 1
      taken == out \o SubSeq(n.items, first, IF last < Len(n.items) THEN last ELSE Len(n.items))
      up == RangeUp(t, at[1])
      more == IF iter + 1 > want.start THEN Append(out, n.items[at[2]]) ELSE out
      way == Descend(View(t, f), n.kids[at[2] + 1], FALSE)
  IN CASE n.leaf -> IF Len(taken) = want.count \/ up = <<>> THEN [tree |-> t, items |-> taken]
                    ELSE RangeFrom(t, f, up, iter + Len(n.items), taken, want)
       [] ~n.leaf /\ at[2] > Len(n.items) -> [tree |-> t, items |-> out]
       [] ~n.leaf /\ at[2] <= Len(n.items) ->
            IF Len(more) = want.count THEN [tree |-> t, items |-> more]
            ELSE RangeFrom(Load(t, f, Range(way)), f, <<Last(way), 0>>, iter + 1, more, want)

Ranged(want) ==
  LET t == Rooted(tree, file)
      way == Descend(View(t, file.pages), t.root, FALSE)
  IN RangeFrom(Load(t, file.pages, Range(way)), file.pages, <<Last(way), 0>>, 0, <<>>, want)

ReadRange(want) ==
  /\ Call
  /\ tree' = Ranged(want).tree
  /\ UNCHANGED <<file, cursor>>
  /\ Done("look")

-----------------------------------------------------------------------------
(* commit, by the client *)
Save ==
  /\ Call /\ Mends
  /\ file' = Commit(tree, file)
  /\ tree' = [tree EXCEPT !.dirty = {}]
  /\ UNCHANGED cursor
  /\ Done("flush")

Flush ==
  /\ Call /\ Mends
  /\ file' = Commit(tree, file)
  /\ tree' = Unloaded(tree.num, tree.pages)
  /\ cursor' = <<>>
  /\ Done("flush")

Close ==
  /\ open /\ Mends
  /\ open' = FALSE
  /\ file' = Commit(tree, file)
  /\ tree' = Unloaded(tree.num, tree.pages)
  /\ cursor' = <<>>
  /\ UNCHANGED <<scope, steps>>
  /\ Done("close")

(* open, of a file that is there *)
Open ==
  /\ ~open /\ steps < MaxSteps
  /\ open' = TRUE
  /\ tree' = Opened(file)
  /\ UNCHANGED <<file, cursor, scope, steps>>
  /\ Done("open")

(* The process ends between two calls, and what it has not written goes. *)
Kill ==
  /\ open
  /\ open' = FALSE
  /\ tree' = Unloaded(file.num, file.count)
  /\ cursor' = <<>>
  /\ UNCHANGED <<file, scope, steps>>
  /\ Done("kill")

Clear ==
  /\ Call
  /\ file' = EmptyFile
  /\ tree' = Opened(EmptyFile)
  /\ cursor' = <<>>
  /\ Done("clear")

(* fillCache: breadth first, until more than cacheSize nodes are loaded. *)
RECURSIVE Fill(_, _, _)
Fill(t, f, queue) ==
  IF queue = <<>> THEN t
  ELSE LET kids == t.mem[Head(queue)].kids
           Absent(i) == Cardinality({j \in 1 .. i - 1 : kids[j] \notin DOMAIN t.mem})
           taken == SelectSeq([i \in DOMAIN kids |-> i],
                              LAMBDA i : Cardinality(DOMAIN t.mem) + Absent(i) <= scope.cache)
           u == Load(t, f, {kids[taken[i]] : i \in DOMAIN taken})
       IN IF Len(taken) < Len(kids) THEN u
          ELSE Fill(u, f, Tail(queue) \o kids)

FillCache ==
  /\ Call
  /\ LET t == Rooted(tree, file)
     IN tree' = Fill(t, file.pages, <<t.root>>)
  /\ UNCHANGED <<file, cursor>>
  /\ Done("look")

(* optimize: the items, in order, are inserted into a new file, by a       *)
(* btreedb that delays splits; it takes the place of the old one.          *)
Copy == INSTANCE BTree WITH DelaySplit <- TRUE

RECURSIVE Dumped(_, _)
Dumped(t, its) ==
  IF its = <<>> THEN t
  ELSE LET u == Copy!InsertItem(t, <<>>, Head(its)).tree
       IN IF u.num > t.num THEN Dumped(u, Tail(its)) ELSE u

Optimize ==
  /\ Call /\ Mends
  /\ LET t == Rooted(tree, file)
         its == InOrder(View(t, file.pages), t.root)
     IN /\ file' = Commit(Dumped(Opened(EmptyFile), its), EmptyFile)
        /\ tree' = Opened(file')
  /\ cursor' = <<>>
  /\ Done("flush")

Next ==
  \/ \E k \in scope.keys, v \in scope.values : Insert(k, v) \/ Update(k, v)
  \/ \E k \in scope.keys : Delete(k) \/ Find(k) \/ Seek(k)
  \/ \E want \in Slices : ReadRange(want)
  \/ \E b \in BOOLEAN : Edge(b) \/ Seq_(b)
  \/ Save \/ Flush \/ Close \/ Open \/ Kill \/ Clear \/ FillCache \/ Optimize

Spec == Init /\ [][Next]_vars

-----------------------------------------------------------------------------
Root == IF tree.root = NoPage THEN file.root ELSE tree.root
Items == InOrder(View(tree, file.pages), Root)
SavedItems == InOrder(file.pages, file.root)

(* What a search from page p finds: the items above hide those below. *)
RECURSIVE Dictionary(_, _)
Dictionary(nodes, p) ==
  LET its == nodes[p].items
      here == [k \in {its[i][1] : i \in DOMAIN its} |-> its[CHOOSE i \in DOMAIN its : its[i][1] = k][2]]
  IN FoldLeft(LAMBDA d, c : d @@ Dictionary(nodes, c), here, nodes[p].kids)

Store == INSTANCE ItemStore WITH items <- Dictionary(View(tree, file.pages), Root),
                                 saved <- Dictionary(file.pages, file.root), opened <- open

(* What a client that does not call get by key sees is a dictionary, and   *)
(* the file is the one that was saved last: no split, loan, merge,         *)
(* unloading or order of writes shows.                                     *)
IsItemStore == Store!Spec

(* The pages below page p, p first, each as often as it is reached. *)
RECURSIVE Pages(_, _)
Pages(nodes, p) == <<p>> \o FlattenSeq([i \in DOMAIN nodes[p].kids |-> Pages(nodes, nodes[p].kids[i])])

RECURSIVE Depths(_, _)
Depths(nodes, p) ==
  IF nodes[p].leaf THEN {0}
  ELSE {d + 1 : d \in UNION {Depths(nodes, c) : c \in Range(nodes[p].kids)}}

WellFormed(nodes, root, num) ==
  LET ps == Pages(nodes, root)
      its == InOrder(nodes, root)
  IN /\ IsInjective(ps)
     /\ \A p \in Range(ps) : ~nodes[p].leaf => Len(nodes[p].kids) = Len(nodes[p].items) + 1
     /\ Cardinality(Depths(nodes, root)) = 1
     /\ \A p \in Range(Tail(ps)) : Len(nodes[p].items) \in MinDegree - 1 .. MaxKeys
     /\ \A i \in 1 .. Len(its) - 1 : its[i][1] < its[i + 1][1]
     /\ num = Len(its)

(* Insert and del, with their loans, splits and merges, keep the tree a    *)
(* B-tree: no node has two parents, all leaves are equally deep, no node   *)
(* but the root has fewer than MinDegree - 1 items or more than MaxKeys,   *)
(* the items are in order and numItems counts them.                        *)
TreeWellFormed == WellFormed(View(tree, file.pages), Root, tree.num)

(* What commit leaves in the file is such a tree too, header included: a   *)
(* page that a merge gave up, or that a split moved elsewhere, is not      *)
(* reached from rootPos.                                                   *)
FileWellFormed == WellFormed(file.pages, file.root, file.num)

(* Only loaded nodes that hang below the root are to be written, so that   *)
(* commit, which looks for them from the root, finds them all.             *)
DirtyIsReached == tree.dirty \subseteq (IF tree.root = NoPage THEN {} ELSE Range(Pages(View(tree, file.pages), Root)))

(* TreesIntact: the invariants of the nodes in memory and in the file.     *)
TreesIntact == TypeOK /\ TreeWellFormed /\ FileWellFormed /\ DirtyIsReached

KeysInOrder(its) == [i \in DOMAIN its |-> its[i][1]]

(* seq moves to the neighbouring item, and after the last one, or before   *)
(* the first, to no item, also when it unloads the node it stands on.      *)
SeqMovesByOne ==
  [][\A next \in BOOLEAN : Seq_(next) =>
       LET keys == KeysInOrder(Items)
           i == CHOOSE j \in DOMAIN keys : keys[j] = CursorKey
           j == IF next THEN i + 1 ELSE i - 1
       IN IF j \in DOMAIN keys THEN CursorValid' /\ CursorKey' = keys[j]
          ELSE ~CursorValid']_vars

(* range gives the items from start on, count of them unless there are     *)
(* fewer, in order.                                                        *)
RangeIsSlice ==
  open => \A want \in Slices :
    LET end == want.start + want.count
    IN Ranged(want).items = SubSeq(Items, want.start + 1, IF end < Len(Items) THEN end ELSE Len(Items))

(* search leaves the cursor at the first item that is not before the key.  *)
SeekFindsNext ==
  [][\A k \in scope.keys : Seek(k) =>
       LET keys == KeysInOrder(Items)
           j == Cardinality({i \in DOMAIN keys : keys[i] < k}) + 1
       IN IF j > Len(keys) THEN ~CursorValid' ELSE CursorValid' /\ CursorKey' = keys[j]]_vars

(* Whatever it reads, a client follows the order of the keys.              *)
ScansFollowOrder == []RangeIsSlice /\ SeqMovesByOne /\ SeekFindsNext

(* flush: "write all the items in memory to file." *)
FlushWritesAll == [][Flush => SavedItems' = Items]_vars
=============================================================================
