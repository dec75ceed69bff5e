---------------------------- MODULE ResultStream ----------------------------
(***************************************************************************)
(* What the scheduler promises to whoever ranges over Results(): a bounded *)
(* queue that busy workers fill, that is closed once, when no worker is    *)
(* left, and that its reader leaves only when it is closed and empty.  A   *)
(* result that finds the queue full is dropped; nothing queued is lost,    *)
(* reordered or replaced.                                                  *)
(***************************************************************************)
EXTENDS Integers, Sequences

CONSTANTS Workers, Cap

VARIABLES
    busy,    \* the workers that may still offer a result
    queue,   \* the workers whose results wait, oldest first
    open,    \* the queue has not been closed
    reader   \* "off", "on", "done"

vars == <<busy, queue, open, reader>>

Init == busy = {} /\ queue = <<>> /\ open = TRUE /\ reader = "off"

(* No worker begins once the queue is closed. *)
Begin ==
    /\ open
    /\ \E w \in Workers \ busy : busy' = busy \cup {w}
    /\ UNCHANGED <<queue, open, reader>>

(* A worker offers a result and goes on, or ends. *)
Offer ==
    /\ open
    /\ \E w \in busy :
          /\ queue' = IF Len(queue) < Cap THEN Append(queue, w) ELSE queue
          /\ busy' \in {busy, busy \ {w}}
    /\ UNCHANGED <<open, reader>>

End ==
    /\ \E w \in busy : busy' = busy \ {w}
    /\ UNCHANGED <<queue, open, reader>>

Close ==
    /\ open /\ busy = {}
    /\ open' = FALSE
    /\ UNCHANGED <<busy, queue, reader>>

Attach ==
    /\ reader = "off"
    /\ reader' = "on"
    /\ UNCHANGED <<busy, queue, open>>

Take ==
    /\ reader = "on" /\ queue # <<>>
    /\ queue' = Tail(queue)
    /\ UNCHANGED <<busy, open, reader>>

Leave ==
    /\ reader = "on" /\ ~open /\ queue = <<>>
    /\ reader' = "done"
    /\ UNCHANGED <<busy, queue, open>>

Next == Begin \/ Offer \/ End \/ Close \/ Attach \/ Take \/ Leave
Spec == Init /\ [][Next]_vars
=============================================================================
