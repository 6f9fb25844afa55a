----------------------------- MODULE SendQueue -----------------------------
(***************************************************************************)
(* The send queue of one client connection: CollabVmSocket::QueueMessage,  *)
(* QueueMessageBatch and the write loop behind them (src/CollabVmServer    *)
(* .hpp), and WebSocketServer's WriteMessage and Close.                    *)
(*                                                                         *)
(* Two strands take part.  send_queue_ guards the queue and sending_; a    *)
(* write is dispatched to socket_, where async_write starts; its completion*)
(* handler comes back to send_queue_.  dispatch runs its argument at once  *)
(* when the caller is in that strand already, so a write can overtake a    *)
(* Close that was posted before it: between two strands no order is        *)
(* assumed.                                                                *)
(***************************************************************************)
EXTENDS Integers, SequencesExt

CONSTANTS
    Messages,   \* framed messages
    Batches,    \* what the callback of one QueueMessageBatch call pushes
    MaxQueued,  \* bound: messages queued in a behaviour
    MaxCloses   \* bound: Close calls by others than the write loop

ASSUME SendConstants ==
    /\ Batches \subseteq Seq(Messages)
    /\ MaxQueued \in Nat
    /\ MaxCloses \in Nat

VARIABLES
    send_queue_,     \* messages waiting for the write in progress
    sending_,
    dispatched,      \* writes dispatched to the strand of the socket
    writing,         \* writes for which async_write was called
    completed,       \* results of writes whose handler is queued: TRUE is success
    closes,          \* Close handlers posted to the strand of the socket
    other_closes,    \* Close calls made by others so far
    is_open,         \* the TCP socket is open at this end
    close_callback_, \* close_callback_ is set: OnDisconnect has not run
    queued,          \* history: every message queued, in order
    wire,            \* history: messages written
    dropped          \* history: messages of the write that failed

vars == <<send_queue_, sending_, dispatched, writing, completed, closes,
          other_closes, is_open, close_callback_, queued, wire, dropped>>

loopVars == <<send_queue_, sending_, dispatched>>
socketVars == <<closes, other_closes, is_open, close_callback_>>

Init ==
    /\ send_queue_ = << >>
    /\ sending_ = FALSE
    /\ dispatched = << >>
    /\ writing = << >>
    /\ completed = << >>
    /\ closes = 0
    /\ other_closes = 0
    /\ is_open = TRUE
    /\ close_callback_ = TRUE
    /\ queued = << >>
    /\ wire = << >>
    /\ dropped = << >>

(* SendMessage and SendMessageBatch: one WriteMessage for all of batch. *)
WriteMessage(batch) == dispatched' = Append(dispatched, batch)

(* Mutant of QueueMessage: sending_ is not looked at. *)
QueueMessageUnguarded(m) ==
    /\ Len(queued) < MaxQueued
    /\ queued' = Append(queued, m)
    /\ sending_' = TRUE
    /\ WriteMessage(<<m>>)
    /\ UNCHANGED <<send_queue_, writing, completed, socketVars, wire, dropped>>

QueueMessage(m) ==
    /\ Len(queued) < MaxQueued
    /\ queued' = Append(queued, m)
    /\ IF sending_
       THEN /\ send_queue_' = Append(send_queue_, m)
            /\ UNCHANGED <<sending_, dispatched>>
       ELSE /\ sending_' = TRUE
            /\ WriteMessage(<<m>>)
            /\ UNCHANGED send_queue_
    /\ UNCHANGED <<writing, completed, socketVars, wire, dropped>>

QueueMessageBatch(batch) ==
    LET q == send_queue_ \o batch IN
    /\ Len(queued) + Len(batch) <= MaxQueued
    /\ queued' = queued \o batch
    /\ IF q # << >> /\ ~sending_
       THEN /\ sending_' = TRUE
            /\ WriteMessage(q)
            /\ send_queue_' = << >>
       ELSE /\ send_queue_' = q
            /\ UNCHANGED <<sending_, dispatched>>
    /\ UNCHANGED <<writing, completed, socketVars, wire, dropped>>

(* WriteMessage's handler on the strand of the socket. *)
AsyncWrite ==
    /\ dispatched # << >>
    /\ dispatched' = Tail(dispatched)
    /\ writing' = Append(writing, Head(dispatched))
    /\ UNCHANGED <<send_queue_, sending_, completed, socketVars, queued, wire, dropped>>

WriteSucceeds ==
    /\ writing # << >>
    /\ is_open
    /\ writing' = Tail(writing)
    /\ wire' = wire \o Head(writing)
    /\ completed' = Append(completed, TRUE)
    /\ UNCHANGED <<loopVars, socketVars, queued, dropped>>

(* A lost peer, a closed socket or any other error of the stream. *)
WriteFails ==
    /\ writing # << >>
    /\ writing' = Tail(writing)
    /\ dropped' = dropped \o Head(writing)
    /\ completed' = Append(completed, FALSE)
    /\ UNCHANGED <<loopVars, socketVars, queued, wire>>

(* Mutants of SendMessageCallback: an error is taken for a success; an     *)
(* error does not close; the newest message goes first; sending_ is never  *)
(* reset.                                                                  *)
SendMessageCallbackGoesOn ==
    /\ completed # << >>
    /\ completed' = Tail(completed)
    /\ IF send_queue_ = << >>
       THEN sending_' = FALSE /\ UNCHANGED <<send_queue_, dispatched>>
       ELSE WriteMessage(send_queue_) /\ send_queue_' = << >> /\ UNCHANGED sending_
    /\ UNCHANGED <<writing, socketVars, queued, wire, dropped>>

SendMessageCallbackNoClose ==
    /\ completed # << >>
    /\ completed' = Tail(completed)
    /\ IF ~Head(completed) THEN UNCHANGED loopVars
       ELSE IF send_queue_ = << >>
       THEN sending_' = FALSE /\ UNCHANGED <<send_queue_, dispatched>>
       ELSE WriteMessage(send_queue_) /\ send_queue_' = << >> /\ UNCHANGED sending_
    /\ UNCHANGED <<writing, socketVars, queued, wire, dropped>>

SendMessageCallbackOne ==
    /\ completed # << >>
    /\ completed' = Tail(completed)
    /\ IF send_queue_ = << >> \/ ~Head(completed)
       THEN sending_' = FALSE /\ UNCHANGED <<send_queue_, dispatched>>
       ELSE /\ WriteMessage(<<Last(send_queue_)>>)
            /\ send_queue_' = Front(send_queue_)
            /\ UNCHANGED sending_
    /\ UNCHANGED <<writing, socketVars, queued, wire, dropped>>

SendMessageCallbackStaysBusy ==
    /\ completed # << >>
    /\ completed' = Tail(completed)
    /\ IF ~Head(completed) THEN closes' = closes + 1 /\ UNCHANGED loopVars
       ELSE IF send_queue_ = << >> THEN UNCHANGED <<loopVars, closes>>
       ELSE /\ WriteMessage(send_queue_)
            /\ send_queue_' = << >>
            /\ UNCHANGED <<sending_, closes>>
    /\ UNCHANGED <<writing, other_closes, is_open, close_callback_, queued, wire,
                   dropped>>

(* The completion handler.  After an error sending_ stays set, so that     *)
(* nothing is written any more.                                            *)
SendMessageCallback ==
    /\ completed # << >>
    /\ completed' = Tail(completed)
    /\ \/ /\ ~Head(completed)
          /\ closes' = closes + 1
          /\ UNCHANGED <<send_queue_, sending_, dispatched>>
       \/ /\ Head(completed)
          /\ send_queue_ = << >>
          /\ sending_' = FALSE
          /\ UNCHANGED <<send_queue_, dispatched, closes>>
       \/ /\ Head(completed)
          /\ send_queue_ # << >>
          /\ WriteMessage(send_queue_)
          /\ send_queue_' = << >>
          /\ UNCHANGED <<sending_, closes>>
    /\ UNCHANGED <<writing, other_closes, is_open, close_callback_,
                   queued, wire, dropped>>

(* Close, called by a failed read, a kick, new settings: only posts. *)
Close ==
    /\ other_closes < MaxCloses
    /\ other_closes' = other_closes + 1
    /\ closes' = closes + 1
    /\ UNCHANGED <<loopVars, writing, completed, is_open,
                   close_callback_, queued, wire, dropped>>

(* Mutant of CloseHandler: runs without having been posted. *)
CloseHandlerUnposted ==
    /\ closes' = closes - 1
    /\ is_open' = FALSE
    /\ close_callback_' = FALSE
    /\ UNCHANGED <<loopVars, writing, completed, other_closes, queued, wire, dropped>>

(* The handler Close posts.  Only the first one calls OnDisconnect. *)
CloseHandler ==
    /\ closes > 0
    /\ closes' = closes - 1
    /\ is_open' = FALSE
    /\ close_callback_' = FALSE
    /\ UNCHANGED <<loopVars, writing, completed, other_closes, queued, wire, dropped>>

Next ==
    \/ \E m \in Messages : QueueMessage(m)
    \/ \E batch \in Batches : QueueMessageBatch(batch)
    \/ AsyncWrite
    \/ WriteSucceeds
    \/ WriteFails
    \/ SendMessageCallback
    \/ Close
    \/ CloseHandler

(* The io_context runs every handler given to it, and a write ends one way *)
(* or the other.  Nobody has to queue, to close or to leave.               *)
Fairness ==
    /\ WF_vars(AsyncWrite)
    /\ WF_vars(WriteSucceeds \/ WriteFails)
    /\ WF_vars(SendMessageCallback)
    /\ WF_vars(CloseHandler)

Spec == Init /\ [][Next]_vars

FairSpec == Spec /\ Fairness
-----------------------------------------------------------------------------
TypeOK ==
    /\ send_queue_ \in Seq(Messages)
    /\ sending_ \in BOOLEAN
    /\ dispatched \in Seq(Seq(Messages))
    /\ writing \in Seq(Seq(Messages))
    /\ completed \in Seq(BOOLEAN)
    /\ closes \in Nat
    /\ other_closes \in Nat
    /\ is_open \in BOOLEAN
    /\ close_callback_ \in BOOLEAN
    /\ queued \in Seq(Messages)
    /\ wire \in Seq(Messages)
    /\ dropped \in Seq(Messages)

(* Writes between WriteMessage and their completion handler. *)
Outstanding == Len(dispatched) + Len(writing) + Len(completed)

(* A websocket stream allows one async_write at a time; sending_ keeps the *)
(* two strands to that, and its reset waits for the handler.               *)
OneWriteAtATime ==
    /\ Outstanding <= 1
    /\ ~sending_ => Outstanding = 0

(* No wake-up is lost: a message left in the queue means that a write is   *)
(* on its way whose handler will pick it up, or that a write failed.       *)
QueueIsServed ==
    send_queue_ # << >> => sending_ /\ (Outstanding = 1 \/ dropped # << >>)

(* The invariant of the write loop: it neither doubles nor forgets a write. *)
SendQueueInv == TypeOK /\ OneWriteAtATime /\ QueueIsServed

(* The messages of the write in progress. *)
InFlight ==
    IF dispatched # << >> THEN Head(dispatched)
    ELSE IF writing # << >> THEN Head(writing)
    ELSE << >>

(* Every queued message is written, dropped by the one write that failed,  *)
(* being written or waiting, in the order in which they were queued: none  *)
(* is lost, doubled or overtaken by the switch between queue and batch.    *)
NothingLost ==
    queued = (wire \o dropped) \o (InFlight \o send_queue_)

(* The write loop is an ordered channel; in particular nothing is written  *)
(* after a failed write, so the peer never sees a gap.                     *)
Channel == INSTANCE MessageChannel WITH sent <- queued, received <- wire
ImplementsChannel == Channel!Spec

(* While the connection lasts, every queued message is written. *)
MessagesArrive ==
    \/ <>(~is_open \/ dropped # << >>)
    \/ \A n \in 1..MaxQueued : Len(queued) >= n ~> Len(wire) >= n

(* A write that fails ends in OnDisconnect, which gives back the name, *)
(* the channel and the connection count of the client.                     *)
FailureDisconnects ==
    dropped # << >> ~> ~close_callback_
=============================================================================
