----------------------------- MODULE MCDatabase -----------------------------
(***************************************************************************)
(* btreedb as TLC checks it, round by round (BTreeCalls) and call by call  *)
(* (BTreeDb).  A behaviour is one of these two parts; the other stays as   *)
(* it is initially.  Either begins with one of Starts, which the client of *)
(* BTreeCalls goes through call by call, and BTreeDb has in its file.      *)
(***************************************************************************)
EXTENDS BTreeCalls, FiniteSetsExt

CONSTANTS Parts,                            \* which parts are checked
          Starts, Careful, Slices, MaxSteps, \* BTreeDb
          Free                              \* bound: calls of the client of BTreeCalls after the start

VARIABLES part,
          script, keys, left,               \* the calls it begins with, the keys it uses then, the calls it has left
          dbOpen, dbTree, dbFile, dbCursor, dbAnswer, dbScope, dbSteps

callVars == <<vars, script, keys, left>>
dbVars == <<dbOpen, dbTree, dbFile, dbCursor, dbAnswer, dbScope, dbSteps>>

(* The keys that occur in BTreeDb. *)
DbKeys == UNION {s.keys \cup {op[2][1] : op \in {o \in Range(s.ops) : o[1] = "+"}} : s \in Starts}

Db == INSTANCE BTreeDb WITH
  Keys <- DbKeys,
  open <- dbOpen, tree <- dbTree, file <- dbFile, cursor <- dbCursor,
  answer <- dbAnswer, scope <- dbScope, steps <- dbSteps

ASSUME DatabaseAssumption == Parts \subseteq {"calls", "db"} /\ Free \in Nat /\ Db!BTreeDbAssumption

-----------------------------------------------------------------------------
(* The keys 2, 4 .. 2 * n are inserted in this order, then a number of     *)
(* them deleted, stride apart.                                             *)
Grown(n) == [i \in 1 .. n |-> <<"+", <<2 * i, "a">>>>]
Thinned(n, stride, count) == Grown(n) \o [i \in 1 .. count |-> <<"-", 2 * (((i * stride) % n) + 1)>>]

Start(ops, ks, values, caches) == [ops |-> ops, keys |-> ks, values |-> values, caches |-> caches]
Small(ops, ks) == Start(ops, ks, {"a", "b"}, {1, 100})
Tall(ops, ks) == Start(ops, ks, {"a"}, {1, 7, 100})

(* An empty leaf, a full one, two full leaves.  Then three levels: with as *)
(* few items as possible in the nodes that lend and merge; a full root     *)
(* above leaves; a full internal node below the root.                      *)
MCStarts == {
  Small(<<>>, {2, 4}),
  Small(Grown(6), {1, 8, 13}),
  Small(Grown(13), {2, 14, 15}),
  Tall(Thinned(43, 3, 34), {46, 64, 82}),
  Tall(Thinned(43, 3, 33), {2, 46, 52}),
  Tall(Thinned(43, 3, 35), {46, 64, 70}),
  Tall(Grown(34), {1, 35}),
  Tall(Thinned(74, 5, 51), {89, 138})}

(* A root above two leaves that a deletion merges into one. *)
JustTwoLeaves == {Start(Thinned(13, 1, 10), {2, 4}, {"a"}, {100})}

AllAndMiddle == {[start |-> 0, count |-> 100], [start |-> 3, count |-> 3]}

-----------------------------------------------------------------------------
MCInit ==
  /\ Init /\ left = Free
  /\ part \in Parts
  /\ part = "calls" => Db!InitFrom(Small(<<>>, {}), 1) /\ \E s \in Starts : script = s.ops /\ keys = s.keys
  /\ part = "db" => Db!Init /\ script = <<>> /\ keys = {}

Scripted ==
  /\ script /= <<>>
  /\ \/ Open \/ Round
     \/ LET c == Head(script)
        IN IF c[1] = "+" THEN Insert(c[2][1], c[2][2]) ELSE Delete(c[2])
  /\ script' = IF call = Idle THEN Tail(script) ELSE script
  /\ UNCHANGED <<keys, left>>

Calls ==
  /\ script = <<>>
  /\ \/ /\ \/ \E k \in keys, v \in Values : Insert(k, v) \/ Update(k, v)
           \/ \E k \in keys : Delete(k) \/ Find(k)
           \/ Save \/ Flush \/ Close \/ Kill \/ Clear
        /\ left > 0 /\ left' = left - 1
     \/ (Round \/ Open) /\ UNCHANGED left
  /\ UNCHANGED <<script, keys>>

MCNext ==
  /\ UNCHANGED part
  /\ IF part = "calls" THEN Scripted \/ Calls ELSE UNCHANGED callVars
  /\ IF part = "db" THEN Db!Next ELSE UNCHANGED dbVars

MCSpec == MCInit /\ [][MCNext]_<<part, callVars, dbVars>>

-----------------------------------------------------------------------------
(* The places of the pages at and below p, which is h above the leaves.    *)
RECURSIVE Height(_, _)
Height(nodes, p) == IF nodes[p].kids = <<>> THEN 0 ELSE Height(nodes, nodes[p].kids[1]) + 1

RECURSIVE PlacesBelow(_, _, _, _, _)
PlacesBelow(nodes, p, h, lo, hi) ==
  LET n == nodes[p]
      Sub(i) == PlacesBelow(nodes, n.kids[i], h - 1,
                            IF i = 1 THEN lo ELSE n.items[i - 1][1],
                            IF i = Len(n.kids) THEN hi ELSE n.items[i][1])
  IN FoldLeft(LAMBDA a, b : a @@ b, p :> [height |-> h, lo |-> lo, hi |-> hi], [i \in DOMAIN n.kids |-> Sub(i)])

Places(nodes, root) ==
  LET below == PlacesBelow(nodes, root, Height(nodes, root), 0, KeyCount + 1)
  IN [pages |-> DOMAIN below,
      height |-> [p \in DOMAIN below |-> below[p].height],
      lo |-> [p \in DOMAIN below |-> below[p].lo],
      hi |-> [p \in DOMAIN below |-> below[p].hi]]

(* Every round leaves a B-tree: of the items of the dictionary between     *)
(* calls; and the file holds one of the items that were saved.             *)
WholeTree ==
  LET nodes == View(tree, file.pages)
      w == Places(nodes, Root)
      wf == Places(file.pages, file.root)
  IN /\ ~Lending => Shape(nodes, Root, w) /\ Sized(nodes, Root, w)
     /\ call.op \in {"none", "closed"} => Contents(nodes, w) = items
     /\ Shape(file.pages, file.root, wf) /\ Sized(file.pages, file.root, wf)
     /\ Contents(file.pages, wf) = saved

(* In memory and in the file there are B-trees, round by round and call by *)
(* call, and commit finds all the nodes that it is to write.               *)
TreesIntact == WholeTree /\ Db!TreesIntact

(* Call by call, with cursors, scans and optimize, a client that does not  *)
(* call get by key sees its dictionary, too.                               *)
DbIsItemStore == Db!IsItemStore

(* range, seq and search follow the order of the keys.                     *)
ScansFollowOrder == Db!ScansFollowOrder

(* flush: "write all the items in memory to file." *)
FlushWritesAll == Db!FlushWritesAll
=============================================================================
