-------------------------------- MODULE Ring --------------------------------
(***************************************************************************)
(* The circular history buffer of one check (checkRing and its methods,    *)
(* internal/status/store.go) as operators on a record.  head is counted    *)
(* from 0 as in the code, the sequence of entries from 1.                  *)
(***************************************************************************)
EXTENDS Integers, Sequences

CONSTANTS
    MaxHistory,   \* entries kept per check (maxHistory, 90 in the code)
    Entries       \* the results a ring may hold

ASSUME MaxHistoryPositive == MaxHistory \in Nat \ {0}

EmptyRing == [entries |-> <<>>, head |-> 0, full |-> FALSE]

RingPush_HeadStays(r, e) ==
    IF Len(r.entries) < MaxHistory
      THEN [r EXCEPT !.entries = Append(@, e)]
      ELSE [entries |-> [r.entries EXCEPT ![r.head + 1] = e],
            head    |-> IF r.head + 1 < MaxHistory THEN r.head + 1 ELSE r.head,
            full    |-> TRUE]

RingPush_NoWrap(r, e) ==
    IF Len(r.entries) < MaxHistory
      THEN [r EXCEPT !.entries = Append(@, e)]
      ELSE [entries |-> [r.entries EXCEPT ![r.head + 1] = e],
            head    |-> r.head + 1,
            full    |-> TRUE]

(* push: append until the buffer is full, then overwrite the oldest entry. *)
RingPush(r, e) ==
    IF Len(r.entries) < MaxHistory
      THEN [r EXCEPT !.entries = Append(@, e)]
      ELSE [entries |-> [r.entries EXCEPT ![r.head + 1] = e],
            head    |-> (r.head + 1) % MaxHistory,
            full    |-> TRUE]

(* ordered: the entries from the oldest to the newest. *)
Ordered(r) ==
    IF ~r.full \/ r.head = 0
      THEN r.entries
      ELSE SubSeq(r.entries, r.head + 1, Len(r.entries))
              \o SubSeq(r.entries, 1, r.head)

(* ordered returns the buffer itself, not a copy, in these cases. *)
Aliased(r) == ~r.full \/ r.head = 0

(* load: entries that were saved in order, in a ring that starts over. *)
Reloaded(entries) == [entries |-> entries, head |-> 0, full |-> FALSE]

Rings == [entries : Seq(Entries), head : Int, full : BOOLEAN]

(* The shape every ring has: head points into the buffer, and has moved    *)
(* only if the buffer is full.                                             *)
RingShape(r) ==
    /\ r \in Rings
    /\ Len(r.entries) <= MaxHistory
    /\ r.head >= 0 /\ r.head < MaxHistory
    /\ r.full => Len(r.entries) = MaxHistory
    /\ ~r.full => r.head = 0
=============================================================================
