--------------------------- MODULE SlidingWindow ---------------------------
(***************************************************************************)
(* What the status store promises to the readers of its histories: for     *)
(* every check the last MaxHistory entries pushed since the process        *)
(* started, oldest first, after those it started with.                     *)
(***************************************************************************)
EXTENDS Integers, Sequences

CONSTANTS Keys, Entries, MaxHistory

VARIABLES
    window,       \* the history of each check
    incarnation   \* the number of restarts

(* The newest entry comes last; the oldest goes once the window is full. *)
Slide(w, e) == Append(IF Len(w) < MaxHistory THEN w ELSE Tail(w), e)

Init == window = [k \in Keys |-> <<>>] /\ incarnation = 0

Push ==
    /\ \E k \in Keys, e \in Entries :
          window' = [window EXCEPT ![k] = Slide(window[k], e)]
    /\ UNCHANGED incarnation

(* A restart: the histories are whatever was saved. *)
Restart ==
    /\ incarnation' = incarnation + 1
    /\ DOMAIN window' = Keys
    /\ \A k \in Keys : Len(window'[k]) <= MaxHistory

Next == Push \/ Restart
Spec == Init /\ [][Next]_<<window, incarnation>>
=============================================================================
