----------------------------- MODULE TurnQueue -----------------------------
(***************************************************************************)
(* What a virtual machine promises about the order of turns, without the   *)
(* machinery that keeps the promise: users join at the back of one queue,  *)
(* leave it from wherever they are, and never overtake one another.        *)
(* TurnController implements this specification.                           *)
(***************************************************************************)
EXTENDS Naturals, Sequences

CONSTANT Users

VARIABLE queue

Init == queue = << >>

(* A user who is not in the queue yet goes to its end. *)
Join ==
    \E u \in Users :
        /\ \A i \in 1..Len(queue) : queue[i] # u
        /\ queue' = Append(queue, u)

(* One user leaves, those behind move up by one. *)
Leave ==
    \E i \in 1..Len(queue) :
        queue' = [k \in 1..(Len(queue) - 1) |-> queue[IF k < i THEN k ELSE k + 1]]

(* Everybody leaves. *)
Clear == queue' = << >>

Next == Join \/ Leave \/ Clear

Spec == Init /\ [][Next]_queue
=============================================================================
