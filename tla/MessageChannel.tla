--------------------------- MODULE MessageChannel ---------------------------
(***************************************************************************)
(* What a client connection promises to the code that queues messages for  *)
(* it: messages arrive once, in the order they were queued, with no gap,   *)
(* until the connection ends.  SendQueue implements this specification.    *)
(***************************************************************************)
EXTENDS SequencesExt

VARIABLES sent, received

Init == sent = << >> /\ received = << >>

Send == IsPrefix(sent, sent') /\ UNCHANGED received

Deliver ==
    /\ IsPrefix(received, received')
    /\ IsPrefix(received', sent)
    /\ UNCHANGED sent

Next == Send \/ Deliver

Spec == Init /\ [][Next]_<<sent, received>>
=============================================================================
