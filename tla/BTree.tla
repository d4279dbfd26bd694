-------------------------------- MODULE BTree --------------------------------
(***************************************************************************)
(* insert, del and search of btreedb, each from its first round to its     *)
(* last, and the order of the items.                                       *)
(***************************************************************************)
EXTENDS BTreeSteps

RECURSIVE InsertInto(_, _, _, _)
InsertInto(t, f, p, it) ==
  LET o == InsertStep(t, f, p, it)
  IN IF o.res = "on" THEN InsertInto(o.tree, f, o.at, it) ELSE o

(* insert, with the root loaded *)
InsertItem(t, f, it) == LET u == Roomy(t) IN InsertInto(u, f, u.root, it)

(* _findPred, _findSucc: the last or the first item below p. *)
RECURSIVE EdgeItem(_, _, _, _)
EdgeItem(t, f, p, last) ==
  LET n == t.mem[p]
      c == EdgeKid(n, last)
  IN IF n.leaf THEN [tree |-> t, item |-> EdgeOf(n, last)]
     ELSE EdgeItem(Load(t, f, {c}), f, c, last)

(* _delete *)
RECURSIVE DeleteFrom(_, _, _, _)
DeleteFrom(t, f, p, k) ==
  LET o == DeleteStep(t, f, p, k)
      e == EdgeItem(o.tree, f, o.at, o.res = "pred")
  IN CASE o.res = "on" -> DeleteFrom(o.tree, f, o.at, k)
       [] o.res \in {"pred", "succ"} ->
            DeleteFrom(Replace(e.tree, p, Smaller(t.mem[p].items, k) + 1, e.item), f, o.at, e.item[1])
       [] OTHER -> o

DeleteItem(t, f, k) ==
  IF Hollow(t) /\ t.mem[t.root].kids = <<>> THEN Ended(t, "crash")
  ELSE LET u == Shrunk(t)
           d == DeleteFrom(u, f, u.root, k)
       IN IF d.res = "yes" THEN [d EXCEPT !.tree.num = @ - 1] ELSE d

-----------------------------------------------------------------------------
(* search and the order of the items; nodes are those in mem, then in f    *)

(* The path of a search, as the pages that it loads. *)
RECURSIVE SearchPath(_, _, _)
SearchPath(nodes, p, k) ==
  LET n == nodes[p]
  IN IF n.kids = <<>> \/ Holds(n.items, k) THEN <<p>>
     ELSE <<p>> \o SearchPath(nodes, n.kids[Smaller(n.items, k) + 1], k)

RECURSIVE InOrder(_, _)
InOrder(nodes, p) ==
  LET n == nodes[p]
  IN IF n.kids = <<>> THEN n.items
     ELSE InOrder(nodes, n.kids[1])
          \o FlattenSeq([i \in DOMAIN n.items |->
                           <<n.items[i]>> \o InOrder(nodes, n.kids[i + 1])])
=============================================================================
