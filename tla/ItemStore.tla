------------------------------ MODULE ItemStore ------------------------------
(***************************************************************************)
(* What a database of sax/db promises its client: a dictionary that        *)
(* insert, del, update and find read and change, one call at a time, and   *)
(* that a later open of the file finds again as it was last saved.  When   *)
(* the store saves, other than in flush and close, is its own business: it *)
(* may do so before any operation.                                         *)
(***************************************************************************)
EXTENDS Functions

CONSTANTS Keys, Values

VARIABLES
  items,   \* the dictionary: a function whose domain is the keys present
  saved,   \* the dictionary in the file
  opened,  \* whether the store is open
  answer   \* the operation answered last, its key and its result

vars == <<items, saved, opened, answer>>

Init == /\ items \in [DOMAIN items -> Values] /\ DOMAIN items \subseteq Keys
        /\ saved = items
        /\ opened = FALSE
        /\ answer = [op |-> "start", key |-> 0, res |-> "yes"]

With(k, v) == [j \in DOMAIN items \cup {k} |-> IF j = k THEN v ELSE items[j]]
Without(k) == Restrict(items, DOMAIN items \ {k})

Answers(op, k, res) == answer'.op = op /\ answer'.key = k /\ answer'.res = res
YesNo(b) == IF b THEN "yes" ELSE "no"
MaySave == saved' \in {saved, items}

(* An item is added unless its key is there already. *)
Insert(k, v) ==
  /\ opened
  /\ Answers("insert", k, YesNo(k \notin DOMAIN items))
  /\ items' = IF k \in DOMAIN items THEN items ELSE With(k, v)
  /\ MaySave
  /\ UNCHANGED opened

Delete(k) ==
  /\ opened
  /\ Answers("del", k, YesNo(k \in DOMAIN items))
  /\ items' = Without(k)
  /\ MaySave
  /\ UNCHANGED opened

(* The item is changed, or added if its key is not there. *)
Update(k, v) ==
  /\ opened
  /\ Answers("update", k, "yes")
  /\ items' = With(k, v)
  /\ MaySave
  /\ UNCHANGED opened

Find(k) ==
  /\ opened
  /\ Answers("find", k, IF k \in DOMAIN items THEN items[k] ELSE "no")
  /\ UNCHANGED <<items, opened>>
  /\ MaySave

(* A scan, a change of the cache, a save: the items stay what they are. *)
Look == /\ opened
        /\ answer'.op = "look"
        /\ UNCHANGED <<items, opened>>
        /\ MaySave

Flush == /\ opened /\ answer'.op = "flush"
         /\ saved' = items /\ UNCHANGED <<items, opened>>
Close == /\ opened /\ answer'.op = "close"
         /\ saved' = items /\ opened' = FALSE /\ UNCHANGED items
Open == /\ ~opened /\ answer'.op = "open"
        /\ opened' = TRUE /\ UNCHANGED <<items, saved>>

(* The process ends without close: what was saved is there, no more. *)
Kill == /\ opened /\ answer'.op = "kill"
        /\ items' = saved /\ opened' = FALSE /\ UNCHANGED saved

(* clear: the file is removed and made again. *)
Clear == /\ opened /\ answer'.op = "clear"
         /\ items' = <<>> /\ saved' = <<>> /\ UNCHANGED opened

Next ==
  \/ \E k \in Keys, v \in Values : Insert(k, v) \/ Update(k, v)
  \/ \E k \in Keys : Delete(k) \/ Find(k)
  \/ Look \/ Clear \/ Flush \/ Close \/ Open \/ Kill

Spec == Init /\ [][Next]_vars
=============================================================================
