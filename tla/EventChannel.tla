---------------------------- MODULE EventChannel ----------------------------
(***************************************************************************)
(* What sax::event_queue promises to the threads around it: a channel of   *)
(* events in which a place is reserved first and committed later, served   *)
(* strictly in the order of the reservations.  No buffer, no lock and no   *)
(* position appears here; EventQueue implements this module.               *)
(***************************************************************************)
EXTENDS Naturals, Sequences

CONSTANTS Producers,  \* the threads that allocate and commit events
          Lens        \* the block sizes they ask for

VARIABLES slots,      \* the reserved places, oldest first
          handling    \* TRUE while the consumer works on the first of them

chanVars == <<slots, handling>>

Slot == [owner : Producers, len : Lens, committed : BOOLEAN]

ChanTypeOK ==
  /\ slots \in Seq(Slot)
  /\ handling \in BOOLEAN

ChanInit ==
  /\ slots = <<>>
  /\ handling = FALSE

(* allocate_event returned a place, behind every earlier one. *)
Reserve(p, n) ==
  /\ slots' = Append(slots, [owner |-> p, len |-> n, committed |-> FALSE])
  /\ UNCHANGED handling

(* commit_event: the owner may commit its places in any order, each once. *)
Commit(i) ==
  /\ ~slots[i].committed
  /\ slots' = [slots EXCEPT ![i].committed = TRUE]
  /\ UNCHANGED handling

(* pop_event returned an event: the oldest place, and only once committed. *)
Take ==
  /\ ~handling
  /\ slots # <<>>
  /\ Head(slots).committed
  /\ handling' = TRUE
  /\ UNCHANGED slots

(* destroy_event gave back the place of the event just handled. *)
Release ==
  /\ handling
  /\ handling' = FALSE
  /\ slots' = Tail(slots)

ChanNext ==
  \/ \E p \in Producers, n \in Lens : Reserve(p, n)
  \/ \E i \in DOMAIN slots : Commit(i)
  \/ Take
  \/ Release

ChanSpec == ChanInit /\ [][ChanNext]_chanVars
=============================================================================
