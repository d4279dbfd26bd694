------------------------------ MODULE SlabPool ------------------------------
(***************************************************************************)
(* The slab allocator of sax/mempool.c (slab_pool_t): pages are handed out *)
(* in runs, or cut into chunks of a power of two.  Which chunks of a page  *)
(* are taken stands in a bitmap: in the page itself for small chunks, in   *)
(* the slab field of its entry for exact and big ones.  Pages with chunks  *)
(* to give are linked to the slot of their size, free runs to pool->free;  *)
(* full pages and runs handed out are linked to nothing.                   *)
(*                                                                         *)
(* The users of a pool serialise their calls.  Addresses count from        *)
(* pool->start, and the numbers that depend on the machine are constants.  *)
(***************************************************************************)
EXTENDS Integers, FiniteSets, FiniteSetsExt

CONSTANTS N,          \* the pages of the pool
          page_shift, \* sys_pagesize_shift
          min_shift,  \* pool->min_shift
          word_bits,  \* sizeof(uintptr_t) * 8
          Sizes,      \* the sizes asked for
          MaxLive     \* bound: allocations outstanding

(* The machine's numbers are powers of two: a chunk of each size fits more *)
(* than once into a page, and the bits of a word are the exact chunks.     *)
SlabAssumption ==
  /\ N \in Nat \ {0} /\ page_shift \in Nat /\ min_shift \in Nat
  /\ Sizes \subseteq Nat
  /\ word_bits \in Nat \ {0}
  /\ \E s \in min_shift .. page_shift - 1 : 2 ^ page_shift \div word_bits = 2 ^ s

VARIABLES entry,   \* pool->pages, pool->free and the slots: slab, next and prev
          bitmap,  \* the bitmap in each page of small chunks
          live     \* the allocations outstanding, for the properties

vars == <<entry, bitmap, live>>

Pages == 0 .. N - 1
page_size == 2 ^ page_shift
max_size == page_size \div 2
exact_shift == CHOOSE s \in 0 .. page_shift : 2 ^ s = page_size \div word_bits

(* The list heads are nodes as well, after the pages; NULL is none.        *)
Free == N
Slot(shift) == N + 1 + shift - min_shift
Slots == {Slot(s) : s \in min_shift .. page_shift - 1}
Nodes == Pages \cup {Free} \cup Slots
NULL == -1

(* SLAB_PAGE ..., the type in the low bits of prev. *)
Types == {"page", "big", "exact", "small"}

(* slab: a number of pages or a shift, a mark on pages handed out in runs, *)
(* and a bitmap.                                                           *)
Slab(n, mark, map) == [n |-> n, mark |-> mark, map |-> map]
Prev(to, type) == [to |-> to, type |-> type]
Chunks(shift) == 0 .. 2 ^ (page_shift - shift) - 1

TypeOK ==
  /\ entry.slab \in [Pages -> [n : 0 .. N + page_shift, mark : {"", "start", "busy"},
                              map : SUBSET Chunks(exact_shift)]]
  /\ entry.next \in [Nodes -> Nodes \cup {NULL}]
  /\ entry.prev \in [Nodes -> [to : Nodes \cup {NULL}, type : Types]]
  /\ bitmap \in [Pages -> SUBSET Chunks(min_shift)]

(* g_slab_init *)
Init ==
  /\ entry = [slab |-> [p \in Pages |-> Slab(IF p = 0 THEN N ELSE 0, "", {})],
              next |-> [x \in Nodes |-> CASE x \in Slots -> x [] x = 0 -> Free
                                          [] x = Free -> 0 [] OTHER -> NULL],
              prev |-> [x \in Nodes |-> Prev(IF x = 0 THEN Free ELSE NULL, "page")]]
  /\ bitmap = [p \in Pages |-> {}]
  /\ live = {}

Unlinked(e, p) ==
  [e EXCEPT !.next[e.prev[p].to] = e.next[p], !.prev[e.next[p]] = e.prev[p]]

-----------------------------------------------------------------------------
(* Runs of pages *)

(* The nodes of a list in their order, and its head when it is through.    *)
InList(e, head) ==
  LET node[i \in 0 .. N] == IF i = 0 THEN e.next[head]
                            ELSE IF node[i - 1] = head THEN head ELSE e.next[node[i - 1]]
  IN node

(* The first free run that is long enough, NULL if there is none. *)
FirstFit(e, k) ==
  LET node == InList(e, Free)
      fits == {i \in 0 .. N : node[i] # Free /\ e.slab[node[i]].n >= k}
  IN IF fits = {} THEN NULL ELSE node[Min(fits)]

(* slab_alloc_pages, once the run is found: what is over stays in its place*)
(* of the list.                                                            *)
slab_alloc_pages(e, page, k) ==
  LET n == e.slab[page].n
      rest == page + k
      U == IF n > k
           THEN [e EXCEPT !.slab[rest] = Slab(n - k, "", {}),
                          !.next[rest] = e.next[page], !.prev[rest] = e.prev[page],
                          !.next[e.prev[page].to] = rest,
                          !.prev[e.next[page]] = Prev(rest, "page")]
           ELSE Unlinked(e, page)
  IN [slab |-> [p \in Pages |-> IF p = page THEN Slab(k, "start", {})
                                ELSE IF p \in page + 1 .. page + k - 1 THEN Slab(0, "busy", {})
                                ELSE U.slab[p]],
      next |-> [x \in Nodes |-> IF x \in page .. page + k - 1 THEN NULL ELSE U.next[x]],
      prev |-> [x \in Nodes |-> IF x \in page .. page + k - 1 THEN Prev(NULL, "page")
                                ELSE U.prev[x]]]

(* slab_free_pages: the run comes first in the list; runs side by side are *)
(* not joined.                                                             *)
slab_free_pages(e, page, k) ==
  LET U == IF e.next[page] # NULL THEN Unlinked(e, page) ELSE e
      V == [slab |-> [p \in Pages |-> IF p = page THEN Slab(k, "", {})
                                      ELSE IF p \in page + 1 .. page + k - 1 THEN Slab(0, "", {})
                                      ELSE U.slab[p]],
            next |-> [x \in Nodes |-> IF x \in page + 1 .. page + k - 1 THEN NULL ELSE U.next[x]],
            prev |-> [x \in Nodes |-> IF x \in page + 1 .. page + k - 1 THEN Prev(NULL, "page")
                                      ELSE U.prev[x]]]
  IN [V EXCEPT !.prev[page] = Prev(Free, "page"), !.next[page] = V.next[Free],
               !.prev[V.next[Free]] = Prev(page, "page"), !.next[Free] = page]

-----------------------------------------------------------------------------
(* Chunks *)

ShiftFor(size) ==
  IF size > 2 ^ min_shift THEN CHOOSE s \in 1 .. page_shift : 2 ^ (s - 1) < size /\ size <= 2 ^ s
                          ELSE min_shift

TypeFor(shift) == IF shift < exact_shift THEN "small"
                  ELSE IF shift = exact_shift THEN "exact" ELSE "big"

(* The chunks that the bitmap of a page of small chunks takes up. *)
BitmapChunks(shift) == Max({1, (2 ^ (page_shift - shift) \div 8) \div 2 ^ shift})

ShiftOf(e, p) == IF e.prev[p].type = "exact" THEN exact_shift ELSE e.slab[p].n

Taken(e, p) == IF e.prev[p].type = "small" THEN bitmap[p] ELSE e.slab[p].map

Address(p, shift, c) == p * page_size + c * 2 ^ shift

Granted(p, shift, c, size) ==
  live' = live \cup {[at |-> Address(p, shift, c), room |-> 2 ^ shift, size |-> size]}

(* g_slab_alloc for a run of pages: from half a page on. *)
AllocRun(size) ==
  /\ size >= max_size
  /\ LET k == (size + page_size - 1) \div page_size
         page == FirstFit(entry, k) IN
       /\ page # NULL
       /\ entry' = slab_alloc_pages(entry, page, k)
       /\ live' = live \cup {[at |-> page * page_size, room |-> k * page_size, size |-> size]}
  /\ UNCHANGED bitmap

(* g_slab_alloc from a page of the slot: its lowest free chunk; a page     *)
(* that is full then leaves the slot and keeps its type.                   *)
AllocChunk(size) ==
  LET shift == ShiftFor(size)
      page == entry.next[Slot(shift)]
      type == TypeFor(shift) IN
  /\ size < max_size
  /\ page # Slot(shift)
  /\ LET c == Min(Chunks(shift) \ Taken(entry, page))
         full == Taken(entry, page) \cup {c} = Chunks(shift)
         U == IF full THEN LET V == Unlinked(entry, page) IN
                             [V EXCEPT !.next[page] = NULL, !.prev[page] = Prev(NULL, type)]
                      ELSE entry IN
       /\ entry' = IF type = "small" THEN U ELSE [U EXCEPT !.slab[page].map = @ \cup {c}]
       /\ bitmap' = IF type = "small" THEN [bitmap EXCEPT ![page] = @ \cup {c}] ELSE bitmap
       /\ Granted(page, shift, c, size)

(* A slip: the chunks of the bitmap are not marked as taken. *)
AllocPageUnmarked(size) ==
  LET shift == ShiftFor(size)
      type == TypeFor(shift)
      page == FirstFit(entry, 1) IN
  /\ size < max_size
  /\ entry.next[Slot(shift)] = Slot(shift) /\ page # NULL
  /\ LET U == slab_alloc_pages(entry, page, 1)
         c == IF type = "small" THEN BitmapChunks(shift) ELSE 0 IN
       /\ entry' = [U EXCEPT
            !.slab[page] = Slab(IF type = "exact" THEN 0 ELSE shift, "",
                                IF type = "small" THEN {} ELSE {c}),
            !.next[page] = Slot(shift), !.prev[page] = Prev(Slot(shift), type),
            !.next[Slot(shift)] = page]
       /\ bitmap' = IF type = "small" THEN [bitmap EXCEPT ![page] = {c}] ELSE bitmap
       /\ Granted(page, shift, c, size)

(* g_slab_alloc with a new page for the slot, which was empty. *)
AllocPage(size) ==
  LET shift == ShiftFor(size)
      type == TypeFor(shift)
      page == FirstFit(entry, 1) IN
  /\ size < max_size
  /\ entry.next[Slot(shift)] = Slot(shift) /\ page # NULL
  /\ LET U == slab_alloc_pages(entry, page, 1)
         c == IF type = "small" THEN BitmapChunks(shift) ELSE 0 IN
       /\ entry' = [U EXCEPT
            !.slab[page] = Slab(IF type = "exact" THEN 0 ELSE shift, "",
                                IF type = "small" THEN {} ELSE {c}),
            !.next[page] = Slot(shift), !.prev[page] = Prev(Slot(shift), type),
            !.next[Slot(shift)] = page]
       /\ bitmap' = IF type = "small" THEN [bitmap EXCEPT ![page] = 0 .. c] ELSE bitmap
       /\ Granted(page, shift, c, size)

g_slab_alloc(size) ==
  /\ Cardinality(live) < MaxLive
  /\ AllocRun(size) \/ AllocChunk(size) \/ AllocPage(size)

-----------------------------------------------------------------------------
(* g_slab_free *)

(* A page that was full comes to its slot again. *)
Relinked(e, page, shift, type) ==
  LET first == e.next[Slot(shift)] IN
  [e EXCEPT !.next[page] = first, !.next[Slot(shift)] = page,
            !.prev[page] = Prev(Slot(shift), type),
            !.prev[first] = Prev(page, type)]

(* A chunk: its page is freed when only the bitmap is left in it.          *)
(* What is left of the bitmap in a page that is freed does not matter.     *)
FreeChunk(a) ==
  LET page == a.at \div page_size
      type == entry.prev[page].type
      shift == ShiftOf(entry, page)
      c == (a.at % page_size) \div 2 ^ shift
      rest == Taken(entry, page) \ {c} IN
  /\ type # "page"
  /\ c \in Taken(entry, page)
  /\ LET U == IF entry.next[page] = NULL THEN Relinked(entry, page, shift, type) ELSE entry
         V == IF type = "small" THEN U ELSE [U EXCEPT !.slab[page].map = rest]
         empty == rest = IF type = "small" THEN 0 .. BitmapChunks(shift) - 1 ELSE {} IN
       /\ entry' = IF empty THEN slab_free_pages(V, page, 1) ELSE V
       /\ bitmap' = IF type = "small" THEN [bitmap EXCEPT ![page] = IF empty THEN {} ELSE rest]
                                      ELSE bitmap

FreeRun(a) ==
  LET page == a.at \div page_size IN
  /\ entry.prev[page].type = "page"
  /\ entry.slab[page].n # 0 /\ entry.slab[page].mark # "busy"
  /\ entry' = slab_free_pages(entry, page, entry.slab[page].n)
  /\ UNCHANGED bitmap

g_slab_free(a) ==
  /\ FreeChunk(a) \/ FreeRun(a)
  /\ live' = live \ {a}

Next == (\E size \in Sizes : g_slab_alloc(size)) \/ (\E a \in live : g_slab_free(a))

Spec == Init /\ [][Next]_vars

-----------------------------------------------------------------------------
(* Properties *)

Bytes(a) == a.at .. a.at + a.room - 1
BitmapBytes(p) ==
  IF entry.prev[p].type # "small" THEN {}
  ELSE LET shift == entry.slab[p].n
       IN p * page_size .. p * page_size + Max({1, 2 ^ (page_shift - shift) \div 8}) - 1

(* What is handed out has the size asked for and overlaps neither what     *)
(* others have nor the bitmap in its page.                                 *)
AllocationsDisjoint ==
  /\ \A a \in live : a.size <= a.room /\ Bytes(a) \subseteq 0 .. N * page_size - 1
  /\ \A a, b \in live : a # b => Bytes(a) \cap Bytes(b) = {}
  /\ \A a \in live, p \in Pages : Bytes(a) \cap BitmapBytes(p) = {}

FreePages == {InList(entry, Free)[i] : i \in 0 .. N} \ {Free}

(* When all has been given back, all pages are free again: no page is lost *)
(* on its way between the slots, the full pages and the free runs.         *)
NothingLost ==
  live = {} => MapThenSumSet(LAMBDA p : entry.slab[p].n, FreePages) = N

(* g_slab_free recognises what it is given: the type and the shift of the  *)
(* page are still those of the allocation, and its bit is set.  Otherwise  *)
(* it would return without a word, or free as many pages as another owns.  *)
KnownToFree ==
  \A a \in live :
    LET page == a.at \div page_size IN
    IF entry.prev[page].type = "page"
    THEN entry.slab[page] = Slab(a.room \div page_size, "start", {})
    ELSE LET shift == ShiftOf(entry, page) IN
         /\ a.room = 2 ^ shift
         /\ (a.at % page_size) \div 2 ^ shift \in Taken(entry, page)

(* The entries are of their types, and a page is linked to its slot        *)
(* exactly if it has a chunk to give: the first page g_slab_alloc looks at *)
(* always has one, and none is forgotten.                                  *)
SlotsHaveRoom ==
  /\ TypeOK
  /\ \A p \in Pages : entry.prev[p].type # "page" =>
       LET shift == ShiftOf(entry, p)
           node == InList(entry, Slot(shift)) IN
       Taken(entry, p) # Chunks(shift) <=> \E i \in 0 .. N : node[i] = p
=============================================================================
