------------------------ MODULE SendAndCaptchaProofs ------------------------
(***************************************************************************)
(* Proofs about the queues of operations on a stream, for any values of    *)
(* the constants.  SendQueue: the write loop is always in one of five      *)
(* phases, and from these follow that writes do not overlap, that no       *)
(* message and no wake-up is lost, and that the loop implements an         *)
(* ordered channel.  CaptchaVerifier: there is one operation at a time,    *)
(* callbacks run once and in order, and requests carry the settings they   *)
(* should.                                                                 *)
(***************************************************************************)
EXTENDS SendQueue, CaptchaVerifier, SequenceTheorems, FiniteSetTheorems, TLAPS

-----------------------------------------------------------------------------
(***************************************************************************)
(* SendQueue                                                               *)
(***************************************************************************)

(* Sequences of one element. *)
LEMMA SingletonSeq ==
    ASSUME NEW S, NEW x \in S
    PROVE  /\ <<x>> \in Seq(S)
           /\ <<x>> # << >>
           /\ Len(<<x>>) = 1
           /\ Head(<<x>>) = x
           /\ Tail(<<x>>) = << >>
           /\ Append(<< >>, x) = <<x>>
  OBVIOUS

-----------------------------------------------------------------------------
(* The phases of the write loop. *)
NothingOutstanding == dispatched = << >> /\ writing = << >> /\ completed = << >>

Idle ==
    /\ ~sending_
    /\ NothingOutstanding
    /\ send_queue_ = << >>
    /\ dropped = << >>
    /\ queued = wire

Carries(batch) ==
    /\ batch \in Seq(Messages)
    /\ batch # << >>
    /\ queued = wire \o (batch \o send_queue_)

Dispatched ==
    /\ sending_
    /\ writing = << >> /\ completed = << >>
    /\ dropped = << >>
    /\ \E batch \in Seq(Messages) : dispatched = <<batch>> /\ Carries(batch)

Writing ==
    /\ sending_
    /\ dispatched = << >> /\ completed = << >>
    /\ dropped = << >>
    /\ \E batch \in Seq(Messages) : writing = <<batch>> /\ Carries(batch)

Written ==
    /\ sending_
    /\ dispatched = << >> /\ writing = << >> /\ completed = <<TRUE>>
    /\ dropped = << >>
    /\ queued = wire \o send_queue_

Failed ==
    /\ sending_
    /\ dispatched = << >> /\ writing = << >>
    /\ completed = << >> \/ completed = <<FALSE>>
    /\ dropped # << >>
    /\ queued = (wire \o dropped) \o send_queue_

SendInv == TypeOK /\ (Idle \/ Dispatched \/ Writing \/ Written \/ Failed)
-----------------------------------------------------------------------------
(* The loop starts idle. *)
LEMMA InitInv == Init => SendInv
  <1> SUFFICES ASSUME Init PROVE SendInv
    OBVIOUS
  <1>1. TypeOK
    BY EmptySeq DEF Init, TypeOK
  <1>2. Idle
    BY DEF Init, Idle, NothingOutstanding
  <1> QED BY <1>1, <1>2 DEF SendInv

(* Concatenation of messages is associative. *)
LEMMA Regroup ==
    \A a, b, c \in Seq(Messages) : (a \o b) \o c = a \o (b \o c)
  BY ConcatAssociative

(* While a write is on its way, or failed, messages t are left waiting. *)
LEMMA WaitingKeepsInv ==
    ASSUME SendInv, sending_, NEW t \in Seq(Messages),
           queued' = queued \o t,
           send_queue_' = send_queue_ \o t,
           UNCHANGED <<sending_, dispatched, writing, completed, socketVars,
                       wire, dropped>>
    PROVE  SendInv'
  <1>1. TypeOK
    BY DEF SendInv
  <1>2. UNCHANGED <<sending_, dispatched, writing, completed, closes, other_closes,
                    is_open, close_callback_, wire, dropped>>
    BY DEF socketVars
  <1>3. TypeOK'
    <2>1. queued' \in Seq(Messages) /\ send_queue_' \in Seq(Messages)
      BY <1>1, ConcatProperties DEF TypeOK
    <2> QED BY <1>1, <1>2, <2>1 DEF TypeOK
  <1>4. ASSUME NEW b \in Seq(Messages), Carries(b)
        PROVE  Carries(b)'
    <2>1. wire \in Seq(Messages) /\ send_queue_ \in Seq(Messages)
      BY <1>1 DEF TypeOK
    <2>2. PICK c \in Seq(Messages) : c = b \o send_queue_
      BY <2>1, ConcatProperties
    <2>3. (wire \o c) \o t = wire \o (c \o t)
      BY <2>1, SMTT(30)
    <2>4. (b \o send_queue_) \o t = b \o (send_queue_ \o t)
      BY <2>1, Regroup, ZenonT(30)
    <2> QED BY <1>2, <1>4, <2>2, <2>3, <2>4 DEF Carries
  <1>5. Dispatched => Dispatched'
    BY <1>2, <1>4 DEF Dispatched
  <1>6. Writing => Writing'
    BY <1>2, <1>4 DEF Writing
  <1>7. Written => Written'
    <2>1. wire \in Seq(Messages) /\ send_queue_ \in Seq(Messages)
      BY <1>1 DEF TypeOK
    <2>2. (wire \o send_queue_) \o t = wire \o (send_queue_ \o t)
      BY <2>1, Regroup, ZenonT(30)
    <2> QED BY <1>2, <2>2 DEF Written
  <1>8. Failed => Failed'
    <2>1. wire \o dropped \in Seq(Messages)
      BY <1>1, ConcatProperties DEF TypeOK
    <2>2. send_queue_ \in Seq(Messages)
      BY <1>1 DEF TypeOK
    <2>3. ((wire \o dropped) \o send_queue_) \o t = (wire \o dropped) \o (send_queue_ \o t)
      BY <2>1, <2>2, Regroup, ZenonT(30)
    <2>4. Failed => queued' = (wire' \o dropped') \o send_queue_'
      BY <1>2, <2>3 DEF Failed
    <2>5. Failed => /\ sending_'
                    /\ dispatched' = << >> /\ writing' = << >>
                    /\ dropped' # << >>
      BY <1>2 DEF Failed
    <2>6. Failed => completed' = << >> \/ completed' = <<FALSE>>
      BY <1>2 DEF Failed
    <2> QED BY <2>4, <2>5, <2>6, Zenon DEF Failed
  <1> QED BY <1>3, <1>5, <1>6, <1>7, <1>8 DEF SendInv, Idle

(* An idle loop starts to write the messages b. *)
LEMMA StartingKeepsInv ==
    ASSUME SendInv, ~sending_, NEW b \in Seq(Messages), b # << >>,
           queued' = queued \o b,
           send_queue_' = << >>,
           sending_' = TRUE,
           WriteMessage(b),
           UNCHANGED <<writing, completed, socketVars, wire, dropped>>
    PROVE  SendInv'
  <1>1. TypeOK /\ Idle
    BY DEF SendInv, Dispatched, Writing, Written, Failed
  <1>2. UNCHANGED <<writing, completed, closes, other_closes, is_open,
                    close_callback_, wire, dropped>>
    BY DEF socketVars
  <1>3. dispatched' = <<b>> /\ dispatched' \in Seq(Seq(Messages))
    <2>1. dispatched' = Append(<< >>, b)
      BY <1>1 DEF WriteMessage, Idle, NothingOutstanding
    <2> QED BY <2>1, SingletonSeq, Zenon
  <1>4. TypeOK'
    <2>1. queued' \in Seq(Messages) /\ send_queue_' \in Seq(Messages)
      BY <1>1, ConcatProperties, EmptySeq DEF TypeOK
    <2> QED BY <1>1, <1>2, <1>3, <2>1 DEF TypeOK
  <1>5. Carries(b)'
    <2>1. b \o << >> = b
      BY ConcatEmptySeq, Zenon
    <2> QED BY <1>1, <1>2, <2>1 DEF Carries, Idle
  <1> QED BY <1>1, <1>2, <1>3, <1>4, <1>5
          DEF SendInv, Dispatched, Idle, NothingOutstanding

(* A single message: it starts a write when the loop is idle and waits     *)
(* otherwise.                                                              *)
LEMMA QueueMessageKeepsInv ==
    ASSUME SendInv, NEW m \in Messages, QueueMessage(m)
    PROVE  SendInv'
  <1>1. TypeOK
    BY DEF SendInv
  <1>2. <<m>> \in Seq(Messages) /\ <<m>> # << >>
    BY SingletonSeq, Zenon
  <1>3. queued' = queued \o <<m>>
    BY <1>1, AppendIsConcat DEF QueueMessage, TypeOK
  <1>4. CASE sending_
    <2>1. send_queue_' = send_queue_ \o <<m>>
      BY <1>1, <1>4, AppendIsConcat DEF QueueMessage, TypeOK
    <2> QED BY <1>2, <1>3, <1>4, <2>1, WaitingKeepsInv DEF QueueMessage
  <1>5. CASE ~sending_
    <2>1. send_queue_' = << >>
      BY <1>5 DEF QueueMessage, SendInv, Idle, Dispatched, Writing, Written, Failed
    <2> QED BY <1>2, <1>3, <1>5, <2>1, StartingKeepsInv DEF QueueMessage
  <1> QED BY <1>4, <1>5

(* A batch, which may be empty. *)
LEMMA QueueMessageBatchKeepsInv ==
    ASSUME SendInv, NEW batch \in Batches, QueueMessageBatch(batch)
    PROVE  SendInv'
  <1>1. TypeOK /\ batch \in Seq(Messages)
    BY SendConstants DEF SendInv
  <1>2. queued' = queued \o batch
    BY DEF QueueMessageBatch
  <1>3. CASE sending_
    BY <1>1, <1>2, <1>3, WaitingKeepsInv DEF QueueMessageBatch
  <1>4. CASE ~sending_
    <2>1. Idle
      BY <1>4 DEF SendInv, Dispatched, Writing, Written, Failed
    <2>2. send_queue_ \o batch = batch
      BY <1>1, <2>1, ConcatEmptySeq DEF Idle
    <2>3. CASE batch = << >>
      <3>1. queued \o << >> = queued
        BY <1>1, ConcatEmptySeq, Zenon DEF TypeOK
      <3> QED BY <1>1, <1>4, <2>1, <2>2, <2>3, <3>1
              DEF QueueMessageBatch, SendInv, TypeOK, Idle, NothingOutstanding, socketVars
    <2>4. CASE batch # << >>
      BY <1>1, <1>2, <1>4, <2>2, <2>4, StartingKeepsInv DEF QueueMessageBatch
    <2> QED BY <2>3, <2>4
  <1> QED BY <1>3, <1>4

(* The write begins on the strand of the socket. *)
LEMMA AsyncWriteKeepsInv ==
    ASSUME SendInv, AsyncWrite
    PROVE  SendInv'
  <1>1. TypeOK /\ Dispatched
    BY DEF SendInv, AsyncWrite, Idle, NothingOutstanding, Writing, Written, Failed
  <1>2. UNCHANGED <<send_queue_, sending_, completed, closes, other_closes, is_open,
                    close_callback_, queued, wire, dropped>>
    BY DEF AsyncWrite, socketVars
  <1>3. PICK b \in Seq(Messages) : dispatched = <<b>> /\ Carries(b)
    BY <1>1 DEF Dispatched
  <1>4. dispatched' = << >> /\ writing' = <<b>>
    <2>1. /\ dispatched' = Tail(<<b>>)
          /\ writing' = Append(<< >>, Head(<<b>>))
      BY <1>1, <1>3 DEF AsyncWrite, Dispatched
    <2> QED BY <2>1, SingletonSeq, Zenon
  <1>5. TypeOK'
    <2>1. dispatched' \in Seq(Seq(Messages)) /\ writing' \in Seq(Seq(Messages))
      BY <1>4, SingletonSeq, EmptySeq
    <2> QED BY <1>1, <1>2, <2>1 DEF TypeOK
  <1>6. Carries(b)'
    BY <1>2, <1>3 DEF Carries
  <1> QED BY <1>1, <1>2, <1>4, <1>5, <1>6 DEF SendInv, Dispatched, Writing

(* In both outcomes of a write, b is what was being written. *)
LEMMA WriteInProgress ==
    ASSUME SendInv, writing # << >>
    PROVE  /\ TypeOK /\ Writing
           /\ \E b \in Seq(Messages) :
                 /\ Carries(b)
                 /\ Head(writing) = b /\ Tail(writing) = << >>
                 /\ Append(completed, TRUE) = <<TRUE>>
                 /\ Append(completed, FALSE) = <<FALSE>>
  <1>1. TypeOK /\ Writing
    BY DEF SendInv, Idle, NothingOutstanding, Dispatched, Written, Failed
  <1>2. PICK b \in Seq(Messages) : writing = <<b>> /\ Carries(b)
    BY <1>1 DEF Writing
  <1>3. Head(<<b>>) = b /\ Tail(<<b>>) = << >>
    BY SingletonSeq, Zenon
  <1>4. /\ Append(<< >>, TRUE) = <<TRUE>>
        /\ Append(<< >>, FALSE) = <<FALSE>>
    <2>1. TRUE \in BOOLEAN /\ FALSE \in BOOLEAN
      OBVIOUS
    <2> QED BY <2>1, SingletonSeq, Zenon
  <1> QED BY <1>1, <1>2, <1>3, <1>4 DEF Writing

(* The batch has been written. *)
LEMMA WriteSucceedsKeepsInv ==
    ASSUME SendInv, WriteSucceeds
    PROVE  SendInv'
  <1>1. writing # << >>
    BY DEF WriteSucceeds
  <1>2. TypeOK /\ Writing
    BY <1>1, WriteInProgress
  <1>3. PICK b \in Seq(Messages) :
           /\ Carries(b)
           /\ Head(writing) = b /\ Tail(writing) = << >>
           /\ Append(completed, TRUE) = <<TRUE>>
    BY <1>1, WriteInProgress
  <1>4. UNCHANGED <<send_queue_, sending_, dispatched, closes, other_closes, is_open,
                    close_callback_, queued, dropped>>
    BY DEF WriteSucceeds, loopVars, socketVars
  <1>5. writing' = << >> /\ completed' = <<TRUE>> /\ wire' = wire \o b
    BY <1>3 DEF WriteSucceeds
  <1>6. TypeOK'
    <2>1. wire' \in Seq(Messages)
      BY <1>2, <1>5, ConcatProperties DEF TypeOK
    <2>2. writing' \in Seq(Seq(Messages)) /\ completed' \in Seq(BOOLEAN)
      BY <1>5, EmptySeq, SingletonSeq
    <2> QED BY <1>2, <1>4, <2>1, <2>2 DEF TypeOK
  <1>7. queued' = wire' \o send_queue_'
    <2>1. wire \in Seq(Messages) /\ send_queue_ \in Seq(Messages)
      BY <1>2 DEF TypeOK
    <2>2. (wire \o b) \o send_queue_ = wire \o (b \o send_queue_)
      BY <2>1, Regroup, ZenonT(30)
    <2> QED BY <1>3, <1>4, <1>5, <2>2 DEF Carries
  <1> QED BY <1>2, <1>4, <1>5, <1>6, <1>7 DEF SendInv, Writing, Written

(* The batch is dropped and nothing will be written any more. *)
LEMMA WriteFailsKeepsInv ==
    ASSUME SendInv, WriteFails
    PROVE  SendInv'
  <1>1. writing # << >>
    BY DEF WriteFails
  <1>2. TypeOK /\ Writing
    BY <1>1, WriteInProgress
  <1>3. PICK b \in Seq(Messages) :
           /\ Carries(b)
           /\ Head(writing) = b /\ Tail(writing) = << >>
           /\ Append(completed, FALSE) = <<FALSE>>
    BY <1>1, WriteInProgress
  <1>4. UNCHANGED <<send_queue_, sending_, dispatched, closes, other_closes, is_open,
                    close_callback_, queued, wire>>
    BY DEF WriteFails, loopVars, socketVars
  <1>5. writing' = << >> /\ completed' = <<FALSE>> /\ dropped' = b
    <2>1. << >> \o b = b
      BY ConcatEmptySeq, Zenon
    <2> QED BY <1>2, <1>3, <2>1 DEF WriteFails, Writing
  <1>6. TypeOK'
    <2>1. writing' \in Seq(Seq(Messages)) /\ completed' \in Seq(BOOLEAN)
      BY <1>5, EmptySeq, SingletonSeq
    <2> QED BY <1>2, <1>4, <1>5, <2>1 DEF TypeOK
  <1>7. queued' = (wire' \o dropped') \o send_queue_'
    <2>1. wire \in Seq(Messages) /\ send_queue_ \in Seq(Messages)
      BY <1>2 DEF TypeOK
    <2>2. (wire \o b) \o send_queue_ = wire \o (b \o send_queue_)
      BY <2>1, Regroup, ZenonT(30)
    <2> QED BY <1>3, <1>4, <1>5, <2>2 DEF Carries
  <1> QED BY <1>2, <1>3, <1>4, <1>5, <1>6, <1>7 DEF SendInv, Writing, Failed, Carries

(* The handler of a write: the loop stops, goes on or becomes idle. *)
LEMMA SendMessageCallbackKeepsInv ==
    ASSUME SendInv, SendMessageCallback
    PROVE  SendInv'
  <1>1. TypeOK /\ (Written \/ Failed)
    BY DEF SendInv, SendMessageCallback, Idle, NothingOutstanding, Dispatched, Writing
  <1>2. UNCHANGED <<writing, other_closes, is_open, close_callback_, queued, wire, dropped>>
    BY DEF SendMessageCallback
  <1>3. CASE Failed
    <2>1. completed = <<FALSE>>
      BY <1>3 DEF Failed, SendMessageCallback
    <2>2. ~Head(completed) /\ completed' = << >>
      BY <2>1, SingletonSeq DEF SendMessageCallback
    <2>3. UNCHANGED <<send_queue_, sending_, dispatched>> /\ closes' \in Nat
      <3>1. UNCHANGED <<send_queue_, sending_, dispatched>> /\ closes' = closes + 1
        BY <2>2, Zenon DEF SendMessageCallback
      <3> QED BY <1>1, <3>1 DEF TypeOK
    <2>4. TypeOK'
      BY <1>1, <1>2, <2>2, <2>3, EmptySeq DEF TypeOK
    <2> QED BY <1>2, <1>3, <2>2, <2>3, <2>4 DEF SendInv, Failed
  <1>4. CASE Written
    <2>1. Head(completed) /\ completed' = << >>
      BY <1>4, SingletonSeq DEF Written, SendMessageCallback
    <2>2. CASE send_queue_ = << >>
      <3>1. UNCHANGED <<send_queue_, dispatched, closes>> /\ sending_' = FALSE
        BY <2>1, <2>2 DEF SendMessageCallback
      <3>2. TypeOK'
        BY <1>1, <1>2, <2>1, <3>1, EmptySeq DEF TypeOK
      <3>3. queued' = wire'
        BY <1>1, <1>2, <1>4, <2>2, ConcatEmptySeq DEF Written, TypeOK
      <3> QED BY <1>2, <1>4, <2>1, <2>2, <3>1, <3>2, <3>3
              DEF SendInv, Written, Idle, NothingOutstanding
    <2>3. CASE send_queue_ # << >>
      <3>1. /\ UNCHANGED <<sending_, closes>> /\ send_queue_' = << >>
            /\ WriteMessage(send_queue_)
        BY <2>1, <2>3 DEF SendMessageCallback
      <3>2. dispatched' = <<send_queue_>> /\ dispatched' \in Seq(Seq(Messages))
        <4>1. dispatched' = Append(<< >>, send_queue_) /\ send_queue_ \in Seq(Messages)
          BY <1>1, <1>4, <3>1 DEF WriteMessage, Written, TypeOK
        <4> QED BY <4>1, SingletonSeq, Zenon
      <3>3. TypeOK'
        BY <1>1, <1>2, <2>1, <3>1, <3>2, EmptySeq DEF TypeOK
      <3>4. send_queue_ \in Seq(Messages) /\ send_queue_ \o << >> = send_queue_
        BY <1>1, ConcatEmptySeq, Zenon DEF TypeOK
      <3>5. /\ send_queue_ # << >>
            /\ queued' = wire' \o (send_queue_ \o send_queue_')
        BY <1>2, <1>4, <2>3, <3>1, <3>4 DEF Written
      <3>6. /\ sending_' /\ writing' = << >> /\ completed' = << >> /\ dropped' = << >>
        BY <1>2, <1>4, <2>1, <3>1 DEF Written
      <3>7. Dispatched'
        BY <3>2, <3>4, <3>5, <3>6 DEF Dispatched, Carries
      <3> QED BY <3>3, <3>7 DEF SendInv
    <2> QED BY <2>2, <2>3
  <1> QED BY <1>1, <1>3, <1>4

(* Closing the socket leaves the loop alone. *)
LEMMA CloseKeepsInv ==
    ASSUME SendInv,
           \/ Close
           \/ CloseHandler
           \/ UNCHANGED vars
    PROVE  SendInv'
  <1>1. UNCHANGED <<send_queue_, sending_, dispatched, writing, completed, queued, wire,
                    dropped>>
    BY DEF Close, CloseHandler, vars, loopVars
  <1>2. TypeOK'
    <2>1. TypeOK
      BY DEF SendInv
    <2>2. closes' \in Nat /\ other_closes' \in Nat
      BY <2>1 DEF TypeOK, Close, CloseHandler, vars
    <2>3. is_open' \in BOOLEAN /\ close_callback_' \in BOOLEAN
      BY <2>1, Zenon DEF TypeOK, Close, CloseHandler, vars
    <2> QED BY <1>1, <2>1, <2>2, <2>3 DEF TypeOK
  <1>3. UNCHANGED <<Idle, Dispatched, Writing, Written, Failed>>
    BY <1>1 DEF Idle, NothingOutstanding, Dispatched, Writing, Written, Failed, Carries
  <1> QED BY <1>2, <1>3 DEF SendInv

(* The write loop is always in one of its phases. *)
THEOREM SendInvariant == Spec => []SendInv
  <1>1. SendInv /\ [Next]_vars => SendInv'
    BY QueueMessageKeepsInv, QueueMessageBatchKeepsInv, AsyncWriteKeepsInv,
       WriteSucceedsKeepsInv, WriteFailsKeepsInv, SendMessageCallbackKeepsInv,
       CloseKeepsInv DEF Next
  <1> QED BY InitInv, <1>1, PTL DEF Spec
-----------------------------------------------------------------------------
(* No step of the loop or of a close leaves the types. *)
THEOREM SendTypeCorrect == Spec => []TypeOK
  BY SendInvariant, PTL DEF SendInv

(* Writes never overlap, whatever the messages, and the loop is idle only  *)
(* when no handler is left that would start another one.                   *)
THEOREM SendOneWrite == Spec => []OneWriteAtATime
  <1>1. SendInv => OneWriteAtATime
    <2> SUFFICES ASSUME SendInv PROVE OneWriteAtATime
      OBVIOUS
    <2>1. CASE Idle
      BY <2>1 DEF Idle, NothingOutstanding, OneWriteAtATime, Outstanding
    <2>2. CASE Dispatched
      BY <2>2 DEF Dispatched, OneWriteAtATime, Outstanding
    <2>3. CASE Writing
      BY <2>3 DEF Writing, OneWriteAtATime, Outstanding
    <2>4. CASE Written
      BY <2>4 DEF Written, OneWriteAtATime, Outstanding
    <2>5. CASE Failed
      <3>1. completed = << >> \/ completed = <<FALSE>>
        BY <2>5 DEF Failed
      <3>2. Len(completed) <= 1
        <4>1. FALSE \in BOOLEAN
          OBVIOUS
        <4>2. Len(<<FALSE>>) = 1
          BY <4>1, SingletonSeq, Zenon
        <4>3. Len(completed) = 0 \/ Len(completed) = 1
          BY <3>1, <4>2, EmptySeq, Zenon
        <4> QED BY <4>3
      <3> QED BY <2>5, <3>2, EmptySeq DEF Failed, OneWriteAtATime, Outstanding
    <2> QED BY <2>1, <2>2, <2>3, <2>4, <2>5 DEF SendInv
  <1> QED BY SendInvariant, <1>1, PTL

(* A message that waits has a write, hence a handler, to wait for. *)
THEOREM SendServed == Spec => []QueueIsServed
  <1>1. SendInv => QueueIsServed
    <2> SUFFICES ASSUME SendInv PROVE QueueIsServed
      OBVIOUS
    <2>1. CASE Idle
      BY <2>1 DEF Idle, QueueIsServed
    <2>2. CASE Dispatched
      BY <2>2 DEF Dispatched, QueueIsServed, Outstanding
    <2>3. CASE Writing
      BY <2>3 DEF Writing, QueueIsServed, Outstanding
    <2>4. CASE Written
      BY <2>4 DEF Written, QueueIsServed, Outstanding
    <2>5. CASE Failed
      BY <2>5 DEF Failed, QueueIsServed
    <2> QED BY <2>1, <2>2, <2>3, <2>4, <2>5 DEF SendInv
  <1> QED BY SendInvariant, <1>1, PTL

(* The write loop neither doubles a write nor forgets one, for any set of  *)
(* messages and whatever order handlers, failures and closes come in.      *)
THEOREM SendQueueInvariant == Spec => []SendQueueInv
  BY SendTypeCorrect, SendOneWrite, SendServed, PTL DEF SendQueueInv

(* Every queued message is written, dropped, in flight or waiting, in the  *)
(* order of the queue.                                                     *)
THEOREM SendNothingLost == Spec => []NothingLost
  <1>1. SendInv => NothingLost
    <2> SUFFICES ASSUME SendInv PROVE NothingLost
      OBVIOUS
    <2>1. /\ wire \in Seq(Messages) /\ send_queue_ \in Seq(Messages)
          /\ dropped \in Seq(Messages)
      BY DEF SendInv, TypeOK
    <2>2. \A s \in Seq(Messages) : s \o << >> = s /\ << >> \o s = s
      BY ConcatEmptySeq
    <2>3. CASE Idle
      <3>1. InFlight = << >>
        BY <2>3 DEF InFlight, Idle, NothingOutstanding
      <3> QED BY <2>1, <2>2, <2>3, <3>1, EmptySeq DEF Idle, NothingLost
    <2>4. CASE Dispatched \/ Writing
      <3>1. PICK b \in Seq(Messages) : InFlight = b /\ Carries(b)
        BY <2>4, SingletonSeq DEF Dispatched, Writing, InFlight
      <3>2. wire \o dropped = wire
        BY <2>1, <2>2, <2>4 DEF Dispatched, Writing
      <3> QED BY <3>1, <3>2 DEF Carries, NothingLost
    <2>5. CASE Written
      <3>1. InFlight = << >>
        BY <2>5 DEF InFlight, Written
      <3> QED BY <2>1, <2>2, <2>5, <3>1 DEF Written, NothingLost
    <2>6. CASE Failed
      <3>1. InFlight = << >>
        BY <2>6 DEF InFlight, Failed
      <3>2. InFlight \o send_queue_ = send_queue_
        BY <2>1, <2>2, <3>1
      <3> QED BY <2>6, <3>2 DEF Failed, NothingLost
    <2> QED BY <2>3, <2>4, <2>5, <2>6 DEF SendInv
  <1> QED BY SendInvariant, <1>1, PTL

(* A sequence is a prefix of what it is extended to. *)
LEMMA PrefixOfConcat ==
    ASSUME NEW S, NEW s \in Seq(S), NEW t \in Seq(S)
    PROVE  Channel!IsPrefix(s, s \o t)
  <1>1. s \o t \in Seq(S) /\ Len(s \o t) = Len(s) + Len(t)
    BY ConcatProperties
  <1>2. Len(s) \in Nat /\ Len(t) \in Nat
    OBVIOUS
  <1>3. SubSeq(s, 1, Len(s)) = SubSeq(s \o t, 1, Len(s))
    BY <1>1, <1>2
  <1> QED BY <1>1, <1>2, <1>3 DEF Channel!IsPrefix

(* The write loop implements an ordered channel: queueing is Send, the end *)
(* of a successful write is Deliver, and everything else is invisible.     *)
THEOREM SendRefinement == Spec => ImplementsChannel
  <1>1. Init => Channel!Init
    BY DEF Init, Channel!Init
  <1>2. ASSUME SendInv, [Next]_vars
        PROVE  [Channel!Next]_<<queued, wire>>
    <2>1. TypeOK
      BY <1>2 DEF SendInv
    <2>2. ASSUME NEW m \in Messages, QueueMessage(m)
          PROVE  Channel!Send
      <3>1. queued' = queued \o <<m>> /\ <<m>> \in Seq(Messages) /\ wire' = wire
        BY <2>1, <2>2, AppendIsConcat, SingletonSeq DEF QueueMessage, TypeOK
      <3> QED BY <2>1, <3>1, PrefixOfConcat DEF Channel!Send, TypeOK
    <2>3. ASSUME NEW batch \in Batches, QueueMessageBatch(batch)
          PROVE  Channel!Send
      <3>1. queued' = queued \o batch /\ batch \in Seq(Messages) /\ wire' = wire
        BY <2>3, SendConstants DEF QueueMessageBatch
      <3> QED BY <2>1, <3>1, PrefixOfConcat DEF Channel!Send, TypeOK
    <2>4. ASSUME WriteSucceeds
          PROVE  Channel!Deliver
      <3>1. PICK b \in Seq(Messages) : Carries(b) /\ Head(writing) = b
        BY <1>2, <2>4, WriteInProgress DEF WriteSucceeds
      <3>2. wire' = wire \o b /\ queued' = queued
        BY <2>4, <3>1 DEF WriteSucceeds
      <3>3. wire \in Seq(Messages) /\ send_queue_ \in Seq(Messages)
        BY <2>1 DEF TypeOK
      <3>4. wire \o b \in Seq(Messages)
        BY <3>3, ConcatProperties
      <3>5. queued = (wire \o b) \o send_queue_
        <4>1. (wire \o b) \o send_queue_ = wire \o (b \o send_queue_)
          BY <3>3, Regroup, ZenonT(30)
        <4> QED BY <3>1, <4>1 DEF Carries
      <3>6. Channel!IsPrefix(wire, wire')
        BY <3>2, <3>3, PrefixOfConcat
      <3>7. Channel!IsPrefix(wire', queued)
        BY <3>2, <3>3, <3>4, <3>5, PrefixOfConcat
      <3> QED BY <3>2, <3>6, <3>7 DEF Channel!Deliver
    <2>5. ASSUME \/ AsyncWrite \/ WriteFails \/ SendMessageCallback
                 \/ Close \/ CloseHandler \/ UNCHANGED vars
          PROVE  UNCHANGED <<queued, wire>>
      BY <2>5 DEF AsyncWrite, WriteFails, SendMessageCallback, Close, CloseHandler, vars
    <2> QED BY <1>2, <2>2, <2>3, <2>4, <2>5 DEF Next, Channel!Next
  <1> QED BY <1>1, <1>2, SendInvariant, PTL DEF Spec, ImplementsChannel, Channel!Spec
-----------------------------------------------------------------------------
(***************************************************************************)
(* CaptchaVerifier                                                         *)
(***************************************************************************)

(* The last settings are the pending ones, or else those in use; there are *)
(* settings wherever they are dereferenced.                                *)
SettingsSound ==
    /\ stream_ # "closed" \/ ops # << >> => IsSet(settings_)
    /\ last = IF IsSet(pending_settings_) THEN pending_settings_.version ELSE settings_.version
    /\ \A i \in 1..Len(accepted) : accepted[i].version <= last

(* A stream that is open, or about to be, is to the host of the settings.  *)
StreamSound ==
    ~overtaken =>
        /\ stream_ # "closed" => host = settings_.version /\ ~IsSet(pending_settings_)
        /\ \A i \in DOMAIN ops : ops[i].kind = "resolve" =>
              ops[i].settings = settings_ /\ ~IsSet(pending_settings_)

(* Requests are accepted at most once, and answered only after their call. *)
RequestsSound ==
    /\ \A i \in 1..Len(accepted) : accepted[i].request <= calls
    /\ \A i, j \in 1..Len(accepted) : accepted[i].request = accepted[j].request => i = j
    /\ \A r \in Requests : r > calls => answers[r] = << >>
    /\ request_ = << >> => queue_ = << >>

VerifierInv ==
    /\ CaptchaInv
    /\ SettingsSound
    /\ StreamSound
    /\ SentWithCurrentSettingsUnlessOvertaken
    /\ RequestsSound
    /\ AnsweredOnceInOrder
-----------------------------------------------------------------------------
(* While an operation is in progress it is the only one, for the only      *)
(* request.                                                                *)
LEMMA TheOperation ==
    ASSUME CaptchaInv, NEW i \in DOMAIN ops
    PROVE  /\ i = 1 /\ Len(ops) = 1 /\ ops[1] \in Operations
           /\ Len(request_) = 1 /\ request_[1] \in AcceptedRequests /\ request_ # << >>
           /\ Head(request_) = request_[1]
           /\ Completed(i) = << >>
           /\ \A x : Append(Completed(i), x) = <<x>>
           /\ \A kind, alive : Continued(i, kind, alive) =
                                  <<Operation(kind, ops[1].settings, alive)>>
           /\ IsSet(settings_)
<1>1. /\ ops \in Seq(Operations) /\ request_ \in Seq(AcceptedRequests) /\ Len(request_) <= 1
      /\ Len(ops) = Len(request_) /\ (ops # << >> => IsSet(settings_))
  BY DEF CaptchaInv, CaptchaTypeOK, OneOperation
<1>2. Len(ops) \in Nat /\ Len(request_) \in Nat /\ DOMAIN ops = 1..Len(ops)
  BY <1>1, LenProperties
<1>3. i = 1 /\ Len(ops) = 1 /\ Len(request_) = 1 /\ ops # << >> /\ request_ # << >>
  BY <1>1, <1>2
<1>4. ops[1] \in Operations /\ request_[1] \in AcceptedRequests /\ Head(request_) = request_[1]
  BY <1>1, <1>3
<1>5. Completed(i) = << >>
  BY <1>1, <1>3 DEF Completed, RemoveAt
<1>6. \A x : Append(Completed(i), x) = <<x>>
  BY <1>5
<1>7. ASSUME NEW kind, NEW alive
      PROVE  Continued(i, kind, alive) = <<Operation(kind, ops[1].settings, alive)>>
  BY <1>1, <1>2, <1>3 DEF Continued
<1> QED
  BY <1>1, <1>3, <1>4, <1>5, <1>6, <1>7
-----------------------------------------------------------------------------
(* The request in progress comes first, then the queue.                    *)
LEMMA WaitingIsInOrder ==
    ASSUME CaptchaInv
    PROVE  /\ Waiting \in Seq(AcceptedRequests)
           /\ Len(Waiting) = Len(request_) + Len(queue_)
           /\ request_ = << >> => Waiting = queue_
           /\ request_ # << >> => Len(Waiting) >= 1 /\ Waiting[1] = request_[1]
           /\ request_ # << >> => \A k \in 1..Len(queue_) : Waiting[k + 1] = queue_[k]
<1>1. /\ request_ \in Seq(AcceptedRequests) /\ Len(request_) <= 1
      /\ queue_ \in Seq(AcceptedRequests)
  BY DEF CaptchaInv, CaptchaTypeOK
<1>2. Len(queue_) \in Nat /\ Len(request_) \in Nat
  BY <1>1, LenProperties
<1>3. /\ Waiting \in Seq(AcceptedRequests) /\ Len(Waiting) = Len(request_) + Len(queue_)
      /\ \A k \in 1..Len(request_) + Len(queue_) :
            Waiting[k] = IF k <= Len(request_) THEN request_[k] ELSE queue_[k - Len(request_)]
  BY <1>1, ConcatProperties DEF Waiting
<1>4. request_ = << >> => Waiting = queue_
  BY <1>1 DEF Waiting
<1>5. request_ # << >> => Len(request_) = 1
  <2>1. Len(request_) = 0 => request_ = << >>
    BY <1>1
  <2>2. Len(request_) <= 1 /\ Len(request_) \in Nat
    BY <1>1, <1>2
  <2>3. \A n \in Nat : n <= 1 => n = 0 \/ n = 1
    OBVIOUS
  <2> QED
    BY <2>1, <2>2, <2>3
<1> QED
  BY <1>2, <1>3, <1>4, <1>5

(* No request that waits came after the last settings.                     *)
LEMMA WaitingIsNotNewer ==
    ASSUME CaptchaInv, SettingsSound, AnsweredOnceInOrder
    PROVE  \A k \in 1..Len(Waiting) : Waiting[k].version <= last
<1>1. accepted \in Seq(AcceptedRequests)
  BY DEF CaptchaInv, CaptchaTypeOK
<1>2. Len(accepted) \in Nat /\ Len(Waiting) \in Nat
  BY <1>1, LenProperties, WaitingIsInOrder
<1> DEFINE n == Len(accepted) - Len(Waiting)
<1>3. n >= 0 /\ \A k \in 1..Len(Waiting) : Waiting[k] = accepted[n + k]
  BY DEF AnsweredOnceInOrder, OthersAreAnswered
<1>4. \A k \in 1..Len(Waiting) : n + k \in 1..Len(accepted)
  BY <1>2, <1>3
<1> QED
  BY <1>3, <1>4 DEF SettingsSound
-----------------------------------------------------------------------------
(* What happens to the requests, one lemma per way.  A request that is     *)
(* answered by Verify itself:                                              *)
LEMMA RefusedAtOnce ==
    ASSUME CaptchaInv, RequestsSound, AnsweredOnceInOrder,
           NEW r \in Requests, NEW x \in BOOLEAN, r = calls + 1, calls' = r,
           answers' = Answer(r, x), UNCHANGED <<request_, queue_, accepted>>
    PROVE  /\ answers' \in [Requests -> Seq(BOOLEAN)]
           /\ RequestsSound' /\ AnsweredOnceInOrder'
<1>1. /\ accepted \in Seq(AcceptedRequests) /\ answers \in [Requests -> Seq(BOOLEAN)]
      /\ calls \in Nat
  BY DEF CaptchaInv, CaptchaTypeOK
<1>2. Len(accepted) \in Nat /\ Waiting' = Waiting /\ Requests \subseteq Int
  BY <1>1, LenProperties DEF Waiting, Requests
<1>3. answers[r] = << >>
  BY <1>1, <1>2 DEF RequestsSound
<1>4. answers' = [answers EXCEPT ![r] = <<x>>]
  BY <1>1, <1>3 DEF Answer
<1>5. ASSUME NEW i \in 1..Len(accepted)
      PROVE  accepted[i].request \in Requests /\ accepted[i].request # r
  <2>1. accepted[i].request \in Requests
    <3> accepted[i] \in AcceptedRequests
      BY <1>1
    <3> QED
      BY DEF AcceptedRequests
  <2>2. accepted[i].request <= calls
    BY DEF RequestsSound
  <2> QED
    BY <1>1, <1>2, <2>1, <2>2
<1>6. \A i \in 1..Len(accepted) : answers'[accepted[i].request] = answers[accepted[i].request]
  BY <1>1, <1>4, <1>5
<1>7. answers' \in [Requests -> Seq(BOOLEAN)]
  <2> <<x>> \in Seq(BOOLEAN)
    OBVIOUS
  <2> QED
    BY <1>1, <1>4
<1>8. ASSUME NEW q \in Requests PROVE Len(answers'[q]) <= 1
  <2>1. Len(answers[q]) <= 1 /\ Len(<<x>>) <= 1
    BY DEF AnsweredOnceInOrder
  <2>2. answers'[q] = IF q = r THEN <<x>> ELSE answers[q]
    BY <1>1, <1>4
  <2>3. CASE q = r
    BY <2>1, <2>2, <2>3
  <2>4. CASE q # r
    BY <2>1, <2>2, <2>4
  <2> QED
    BY <2>3, <2>4
<1>9. \A q \in Requests : q > calls' => answers'[q] = << >>
  BY <1>1, <1>2, <1>4 DEF RequestsSound
<1>10. \A i \in 1..Len(accepted) : accepted[i].request <= calls'
  <2> SUFFICES ASSUME NEW i \in 1..Len(accepted) PROVE accepted[i].request <= calls'
    OBVIOUS
  <2> accepted[i].request \in Int
    BY <1>2, <1>5
  <2> QED
    BY <1>1 DEF RequestsSound
<1>11. RequestsSound'
  BY <1>9, <1>10 DEF RequestsSound
<1>12. OthersAreAnswered'
  BY <1>2, <1>6 DEF OthersAreAnswered, AnsweredOnceInOrder
<1> QED
  BY <1>7, <1>8, <1>11, <1>12 DEF AnsweredOnceInOrder

(* A request that is accepted waits behind the others:                     *)
LEMMA AcceptedLast ==
    ASSUME CaptchaInv, RequestsSound, AnsweredOnceInOrder,
           NEW q \in AcceptedRequests, q.request = calls + 1, calls' = calls + 1,
           accepted' = Append(accepted, q), Waiting' = Append(Waiting, q),
           request_' # << >>, answers' = answers
    PROVE  RequestsSound' /\ AnsweredOnceInOrder'
<1>1. /\ accepted \in Seq(AcceptedRequests) /\ answers \in [Requests -> Seq(BOOLEAN)]
      /\ calls \in Nat
  BY DEF CaptchaInv, CaptchaTypeOK
<1>2. /\ Len(accepted) \in Nat /\ Waiting \in Seq(AcceptedRequests) /\ Len(Waiting) \in Nat
      /\ Requests \subseteq Int /\ q.request \in Requests
  BY <1>1, LenProperties, WaitingIsInOrder DEF Requests, AcceptedRequests
<1>3. /\ accepted' \in Seq(AcceptedRequests) /\ Len(accepted') = Len(accepted) + 1
      /\ \A i \in 1..Len(accepted) : accepted'[i] = accepted[i]
      /\ accepted'[Len(accepted) + 1] = q
  BY <1>1, AppendProperties
<1>4. /\ Len(Waiting') = Len(Waiting) + 1
      /\ \A i \in 1..Len(Waiting) : Waiting'[i] = Waiting[i]
      /\ Waiting'[Len(Waiting) + 1] = q
  BY <1>2, AppendProperties
<1>5. ASSUME NEW i \in 1..Len(accepted)
      PROVE  accepted[i].request \in Int /\ accepted[i].request <= calls
  <2>1. accepted[i].request \in Requests
    <3> accepted[i] \in AcceptedRequests
      BY <1>1
    <3> QED
      BY DEF AcceptedRequests
  <2> QED
    BY <1>2, <2>1 DEF RequestsSound
<1>6. \A i \in 1..Len(accepted') : i \in 1..Len(accepted) \/ i = Len(accepted) + 1
  BY <1>2, <1>3
<1>7. \A i \in 1..Len(accepted') : accepted'[i].request <= calls'
  BY <1>1, <1>3, <1>5, <1>6
<1>8. \A i, j \in 1..Len(accepted') : accepted'[i].request = accepted'[j].request => i = j
  <2> SUFFICES ASSUME NEW i \in 1..Len(accepted'), NEW j \in 1..Len(accepted'),
                      accepted'[i].request = accepted'[j].request
               PROVE  i = j
    OBVIOUS
  <2>1. CASE i \in 1..Len(accepted) /\ j \in 1..Len(accepted)
    BY <2>1, <1>3 DEF RequestsSound
  <2>2. CASE i = Len(accepted) + 1 /\ j \in 1..Len(accepted)
    BY <2>2, <1>1, <1>3, <1>5
  <2>3. CASE j = Len(accepted) + 1 /\ i \in 1..Len(accepted)
    BY <2>3, <1>1, <1>3, <1>5
  <2> QED
    BY <2>1, <2>2, <2>3, <1>6
<1>9. \A r \in Requests : r > calls' => answers'[r] = << >>
  <2> SUFFICES ASSUME NEW r \in Requests, r > calls' PROVE answers'[r] = << >>
    OBVIOUS
  <2>1. r \in Int /\ r > calls + 1
    BY <1>2
  <2>2. r > calls
    BY <1>1, <2>1
  <2> QED
    BY <2>2 DEF RequestsSound
<1>10. RequestsSound'
  BY <1>7, <1>8, <1>9 DEF RequestsSound
<1>11. answers[q.request] = << >>
  BY <1>1, <1>2 DEF RequestsSound
<1> DEFINE n == Len(accepted) - Len(Waiting)
<1>12. /\ n >= 0 /\ n \in Int /\ Len(accepted') - Len(Waiting') = n
  BY <1>2, <1>3, <1>4 DEF AnsweredOnceInOrder, OthersAreAnswered
<1>13. ASSUME NEW k \in 1..Len(Waiting')
       PROVE  Waiting'[k] = accepted'[n + k]
  <2>1. CASE k \in 1..Len(Waiting)
    <3>1. n + k \in 1..Len(accepted)
      BY <2>1, <1>2, <1>12
    <3>2. Waiting[k] = accepted[n + k]
      BY <2>1 DEF AnsweredOnceInOrder, OthersAreAnswered
    <3> QED
      BY <2>1, <3>1, <3>2, <1>3, <1>4
  <2>2. CASE k = Len(Waiting) + 1
    <3>1. n + k = Len(accepted) + 1
      BY <2>2, <1>2
    <3> QED
      BY <2>2, <3>1, <1>3, <1>4
  <2> QED
    <3> k \in 1..Len(Waiting) \/ k = Len(Waiting) + 1
      BY <1>2, <1>4
    <3> HIDE DEF n
    <3> QED
      BY <2>1, <2>2
<1>14. ASSUME NEW i \in 1..Len(accepted')
       PROVE  answers'[accepted'[i].request] # << >> <=> i <= n
  <2>1. CASE i \in 1..Len(accepted)
    BY <2>1, <1>3 DEF AnsweredOnceInOrder, OthersAreAnswered
  <2>2. CASE i = Len(accepted) + 1
    BY <2>2, <1>2, <1>3, <1>11
  <2> QED
    BY <2>1, <2>2, <1>6
<1> HIDE DEF n
<1>15. OthersAreAnswered'
  BY <1>12, <1>13, <1>14 DEF OthersAreAnswered
<1> QED
  BY <1>10, <1>15 DEF AnsweredOnceInOrder

(* The first of the requests that wait is answered:                        *)
LEMMA FirstAnswered ==
    ASSUME CaptchaInv, RequestsSound, AnsweredOnceInOrder,
           Len(Waiting) >= 1, NEW x \in BOOLEAN,
           answers' = Answer(Waiting[1].request, x), Waiting' = Tail(Waiting),
           UNCHANGED <<accepted, calls>>, request_' = << >> => queue_' = << >>
    PROVE  /\ answers' \in [Requests -> Seq(BOOLEAN)]
           /\ RequestsSound' /\ AnsweredOnceInOrder'
<1> DEFINE n == Len(accepted) - Len(Waiting)
           q == Waiting[1].request
<1>1. /\ accepted \in Seq(AcceptedRequests) /\ answers \in [Requests -> Seq(BOOLEAN)]
      /\ calls \in Nat
  BY DEF CaptchaInv, CaptchaTypeOK
<1>2. /\ Len(accepted) \in Nat /\ Waiting \in Seq(AcceptedRequests) /\ Len(Waiting) \in Nat
      /\ Requests \subseteq Int
  BY <1>1, LenProperties, WaitingIsInOrder DEF Requests
<1>3. /\ n >= 0 /\ n \in Int /\ n + 1 \in 1..Len(accepted)
      /\ \A k \in 1..Len(Waiting) : Waiting[k] = accepted[n + k]
      /\ \A i \in 1..Len(accepted) : answers[accepted[i].request] # << >> <=> i <= n
  BY <1>2 DEF AnsweredOnceInOrder, OthersAreAnswered
<1>4. Waiting' = Tail(Waiting) /\ Len(Waiting') = Len(Waiting) - 1
      /\ \A k \in 1..Len(Waiting') : Waiting'[k] = Waiting[k + 1] /\ k + 1 \in 1..Len(Waiting)
  <2> Waiting # << >>
    BY <1>2
  <2>1. /\ Len(Waiting') = Len(Waiting) - 1
        /\ \A k \in 1..Len(Waiting) - 1 : Waiting'[k] = Waiting[k + 1]
    BY <1>2, HeadTailProperties
  <2> QED
    BY <1>2, <2>1
<1>5. /\ Waiting[1] = accepted[n + 1] /\ q \in Requests /\ q <= calls
      /\ \A i \in 1..Len(accepted) : accepted[i].request \in Requests
  <2>1. \A i \in 1..Len(accepted) : accepted[i] \in AcceptedRequests
    BY <1>1
  <2>2. Waiting[1] = accepted[n + 1]
    BY <1>2, <1>3
  <2> QED
    BY <1>3, <2>1, <2>2 DEF AcceptedRequests, RequestsSound
<1>6. answers[q] = << >>
  <2>1. ~(n + 1 <= n)
    BY <1>3
  <2>2. answers[accepted[n + 1].request] # << >> <=> n + 1 <= n
    BY <1>3
  <2> QED
    BY <1>5, <2>1, <2>2
<1>7. answers' = [answers EXCEPT ![q] = <<x>>]
  BY <1>1, <1>6 DEF Answer
<1> HIDE DEF q
<1>8. answers' \in [Requests -> Seq(BOOLEAN)]
  <2> <<x>> \in Seq(BOOLEAN)
    OBVIOUS
  <2> QED
    BY <1>1, <1>7
<1>9. ASSUME NEW r \in Requests PROVE Len(answers'[r]) <= 1
  <2>1. Len(answers[r]) <= 1 /\ Len(<<x>>) <= 1
    BY DEF AnsweredOnceInOrder
  <2>2. answers'[r] = IF r = q THEN <<x>> ELSE answers[r]
    BY <1>1, <1>7
  <2>3. CASE r = q
    BY <2>1, <2>2, <2>3
  <2>4. CASE r # q
    BY <2>1, <2>2, <2>4
  <2> QED
    BY <2>3, <2>4
<1>10. ASSUME NEW r \in Requests, r > calls PROVE answers'[r] = << >>
  <2>1. r # q /\ answers[r] = << >>
    BY <1>1, <1>2, <1>5, <1>10 DEF RequestsSound
  <2> QED
    BY <1>1, <1>7, <2>1
<1>11. RequestsSound'
  BY <1>10 DEF RequestsSound
<1>12. Len(accepted') - Len(Waiting') = n + 1
  <2>1. Len(accepted') = Len(accepted) /\ Len(Waiting') = Len(Waiting) - 1
    BY <1>4
  <2>2. Len(accepted) - (Len(Waiting) - 1) = n + 1
    BY <1>2
  <2> QED
    BY <2>1, <2>2
<1>13. ASSUME NEW k \in 1..Len(Waiting') PROVE Waiting'[k] = accepted'[(n + 1) + k]
  <2>1. (n + 1) + k = n + (k + 1)
    BY <1>3
  <2> QED
    BY <1>3, <1>4, <2>1
<1>14. ASSUME NEW i \in 1..Len(accepted)
       PROVE  answers'[accepted[i].request] # << >> <=> i <= n + 1
  <2>1. CASE i = n + 1
    <3>1. answers'[accepted[i].request] = <<x>>
      BY <1>1, <1>5, <1>7, <2>1 DEF q
    <3> QED
      BY <3>1, <2>1, <1>3
  <2>2. CASE i # n + 1
    <3>1. accepted[i].request # q
      <4>1. accepted[n + 1].request = q /\ n + 1 \in 1..Len(accepted)
        BY <1>3, <1>5 DEF q
      <4> HIDE DEF n
      <4> QED
        BY <2>2, <4>1 DEF RequestsSound
    <3>2. answers'[accepted[i].request] = answers[accepted[i].request]
      BY <1>1, <1>5, <1>7, <3>1
    <3>3. i <= n <=> i <= n + 1
      <4>1. i \in Int /\ n \in Int
        BY <1>3
      <4> HIDE DEF n
      <4> QED
        BY <2>2, <4>1
    <3> QED
      BY <1>3, <3>2, <3>3
  <2> QED
    BY <2>1, <2>2
<1>15. n + 1 >= 0
  BY <1>3
<1> HIDE DEF n
<1>16. OthersAreAnswered'
  BY <1>12, <1>13, <1>14, <1>15 DEF OthersAreAnswered
<1> QED
  BY <1>8, <1>9, <1>11, <1>16 DEF AnsweredOnceInOrder

LEMMA OneElement ==
    \A x : [n \in 1..1 |-> x] = <<x>>
<1> SUFFICES ASSUME NEW x PROVE [n \in 1..1 |-> x] = <<x>>
  OBVIOUS
<1>1. DOMAIN [n \in 1..1 |-> x] = 1..1 /\ DOMAIN <<x>> = 1..1
  OBVIOUS
<1>2. \A n \in 1..1 : <<x>>[n] = x
  OBVIOUS
<1> QED
  BY <1>1, <1>2

(* Rejecting a sequence of different requests that have no answer yet      *)
(* gives each of them one answer.                                          *)
LEMMA RejectAllOnce ==
    ASSUME answers \in [Requests -> Seq(BOOLEAN)],
           NEW rejected \in Seq(AcceptedRequests),
           \A k \in 1..Len(rejected) : answers[rejected[k].request] = << >>,
           \A j, k \in 1..Len(rejected) : rejected[j].request = rejected[k].request => j = k
    PROVE  RejectAll(rejected) =
              [r \in Requests |->
                  IF \E k \in 1..Len(rejected) : rejected[k].request = r
                  THEN <<FALSE>> ELSE answers[r]]
<1> DEFINE S(r) == {i \in DOMAIN rejected : rejected[i].request = r}
           F(m) == [n \in 1..m |-> FALSE]
<1>1. DOMAIN rejected = 1..Len(rejected)
  BY LenProperties
<1>2. ASSUME NEW r \in Requests, NEW k \in 1..Len(rejected), rejected[k].request = r
      PROVE  answers[r] \o F(Cardinality(S(r))) = <<FALSE>>
  <2>1. S(r) = {k}
    BY <1>1, <1>2
  <2>2. Cardinality(S(r)) = 1
    BY <2>1, FS_Singleton
  <2>3. F(1) = <<FALSE>>
    BY OneElement
  <2>4. answers[r] = << >>
    BY <1>2
  <2> HIDE DEF S, F
  <2>5. answers[r] \o F(Cardinality(S(r))) = << >> \o <<FALSE>>
    BY <2>2, <2>3, <2>4
  <2> QED
    BY <2>5
<1>3. ASSUME NEW r \in Requests, ~\E k \in 1..Len(rejected) : rejected[k].request = r
      PROVE  answers[r] \o F(Cardinality(S(r))) = answers[r]
  <2>1. S(r) = {}
    BY <1>1, <1>3
  <2>2. Cardinality(S(r)) = 0
    BY <2>1, FS_EmptySet
  <2>3. F(0) = << >>
    OBVIOUS
  <2>4. answers[r] \in Seq(BOOLEAN)
    OBVIOUS
  <2> HIDE DEF S, F
  <2>5. answers[r] \o F(Cardinality(S(r))) = answers[r] \o << >>
    BY <2>2, <2>3
  <2> QED
    BY <2>4, <2>5
<1>4. \A r \in Requests : answers[r] \o F(Cardinality(S(r))) =
          IF \E k \in 1..Len(rejected) : rejected[k].request = r THEN <<FALSE>> ELSE answers[r]
  BY <1>2, <1>3
<1>5. RejectAll(rejected) = [r \in Requests |-> answers[r] \o F(Cardinality(S(r)))]
  BY DEF RejectAll
<1> HIDE DEF S, F
<1> QED
  BY <1>4, <1>5

(* Everything that waits is rejected:                                      *)
LEMMA AllRejected ==
    ASSUME CaptchaInv, RequestsSound, AnsweredOnceInOrder,
           answers' = RejectAll(Waiting), request_' = << >>, queue_' = << >>,
           UNCHANGED <<accepted, calls>>
    PROVE  /\ answers' \in [Requests -> Seq(BOOLEAN)]
           /\ RequestsSound' /\ AnsweredOnceInOrder'
<1> DEFINE n == Len(accepted) - Len(Waiting)
           In(r) == \E k \in 1..Len(Waiting) : Waiting[k].request = r
<1>1. /\ accepted \in Seq(AcceptedRequests) /\ answers \in [Requests -> Seq(BOOLEAN)]
      /\ calls \in Nat
  BY DEF CaptchaInv, CaptchaTypeOK
<1>2. /\ Len(accepted) \in Nat /\ Waiting \in Seq(AcceptedRequests) /\ Len(Waiting) \in Nat
      /\ Requests \subseteq Int
  BY <1>1, LenProperties, WaitingIsInOrder DEF Requests
<1>3. /\ n >= 0 /\ n \in Int
      /\ \A k \in 1..Len(Waiting) : Waiting[k] = accepted[n + k]
      /\ \A i \in 1..Len(accepted) : answers[accepted[i].request] # << >> <=> i <= n
  <2> n \in Int
    BY <1>2
  <2> QED
    BY DEF AnsweredOnceInOrder, OthersAreAnswered
<1>4. \A k \in 1..Len(Waiting) : n + k \in 1..Len(accepted) /\ ~(n + k <= n)
  BY <1>2, <1>3
<1>5. \A k \in 1..Len(Waiting) : answers[Waiting[k].request] = << >>
  BY <1>3, <1>4
<1>6. ASSUME NEW j \in 1..Len(Waiting), NEW k \in 1..Len(Waiting),
             Waiting[j].request = Waiting[k].request
      PROVE  j = k
  <2>1. accepted[n + j].request = accepted[n + k].request
    BY <1>3, <1>6
  <2>2. n + j \in 1..Len(accepted) /\ n + k \in 1..Len(accepted)
    BY <1>4
  <2>3. n + j = n + k
    BY <2>1, <2>2 DEF RequestsSound
  <2> QED
    BY <2>3, <1>3
<1>7. answers' = [r \in Requests |-> IF In(r) THEN <<FALSE>> ELSE answers[r]]
  BY <1>1, <1>2, <1>5, <1>6, RejectAllOnce
<1>8. \A i \in 1..Len(accepted) : accepted[i].request \in Requests
  <2> \A i \in 1..Len(accepted) : accepted[i] \in AcceptedRequests
    BY <1>1
  <2> QED
    BY DEF AcceptedRequests
<1>9. ASSUME NEW r \in Requests, In(r) PROVE r <= calls
  BY <1>3, <1>4, <1>9 DEF RequestsSound
<1>10. ASSUME NEW i \in 1..Len(accepted), ~In(accepted[i].request) PROVE i <= n
  <2> SUFFICES ASSUME ~(i <= n) PROVE FALSE
    OBVIOUS
  <2>1. i - n \in 1..Len(Waiting) /\ n + (i - n) = i
    BY <1>2, <1>3
  <2> QED
    BY <2>1, <1>3, <1>10
<1> HIDE DEF n, In
<1>11. answers' \in [Requests -> Seq(BOOLEAN)]
  <2> <<FALSE>> \in Seq(BOOLEAN)
    OBVIOUS
  <2> QED
    BY <1>1, <1>7
<1>12. ASSUME NEW r \in Requests PROVE Len(answers'[r]) <= 1
  <2>1. Len(answers[r]) <= 1 /\ Len(<<FALSE>>) <= 1
    BY DEF AnsweredOnceInOrder
  <2>2. CASE In(r)
    <3> answers'[r] = <<FALSE>>
      BY <1>7, <2>2
    <3> QED
      BY <2>1
  <2>3. CASE ~In(r)
    <3> answers'[r] = answers[r]
      BY <1>7, <2>3
    <3> QED
      BY <2>1
  <2> QED
    BY <2>2, <2>3
<1>13. ASSUME NEW r \in Requests, r > calls PROVE answers'[r] = << >>
  <2>1. ~In(r) /\ answers[r] = << >>
    BY <1>1, <1>2, <1>9, <1>13 DEF RequestsSound
  <2> QED
    BY <1>7, <2>1
<1>14. RequestsSound'
  BY <1>13 DEF RequestsSound
<1>15. ASSUME NEW i \in 1..Len(accepted) PROVE answers'[accepted[i].request] # << >>
  <2>1. CASE In(accepted[i].request)
    <3> answers'[accepted[i].request] = <<FALSE>>
      BY <1>7, <1>8, <2>1
    <3> QED
      OBVIOUS
  <2>2. CASE ~In(accepted[i].request)
    BY <1>3, <1>7, <1>8, <1>10, <2>2
  <2> QED
    BY <2>1, <2>2
<1>16. Waiting' = << >> /\ Len(Waiting') = 0
  BY DEF Waiting
<1>17. OthersAreAnswered'
  BY <1>2, <1>15, <1>16 DEF OthersAreAnswered
<1> QED
  BY <1>11, <1>12, <1>14, <1>17 DEF AnsweredOnceInOrder
-----------------------------------------------------------------------------
(* The sequence that waits, before and after the request in progress is    *)
(* answered, and when one more is accepted.                                *)
LEMMA WaitingAfterFirst ==
    ASSUME CaptchaInv, Len(request_) = 1
    PROVE  /\ Tail(Waiting) = queue_
           /\ queue_ # << >> => /\ <<Head(queue_)>> \o Tail(queue_) = queue_
                                /\ Head(queue_) = Waiting[2] /\ Len(Waiting) >= 2
<1>1. /\ queue_ \in Seq(AcceptedRequests) /\ request_ \in Seq(AcceptedRequests)
      /\ Len(queue_) \in Nat /\ request_ # << >>
  <2> /\ queue_ \in Seq(AcceptedRequests) /\ request_ \in Seq(AcceptedRequests)
    BY DEF CaptchaInv, CaptchaTypeOK
  <2> QED
    BY LenProperties
<1>2. /\ Waiting \in Seq(AcceptedRequests) /\ Len(Waiting) = 1 + Len(queue_)
      /\ Waiting[1] = request_[1] /\ \A k \in 1..Len(queue_) : Waiting[k + 1] = queue_[k]
  BY <1>1, WaitingIsInOrder
<1>3. Waiting # << >>
  BY <1>1, <1>2
<1>4. /\ Tail(Waiting) \in Seq(AcceptedRequests) /\ Len(Tail(Waiting)) = Len(queue_)
      /\ \A i \in 1..Len(queue_) : Tail(Waiting)[i] = Waiting[i + 1]
  <2>1. /\ Tail(Waiting) \in Seq(AcceptedRequests) /\ Len(Tail(Waiting)) = Len(Waiting) - 1
        /\ \A i \in 1..Len(Tail(Waiting)) : Tail(Waiting)[i] = Waiting[i + 1]
    BY <1>2, <1>3, HeadTailProperties
  <2>2. Len(Waiting) - 1 = Len(queue_)
    BY <1>1, <1>2
  <2> QED
    BY <2>1, <2>2
<1>5. Tail(Waiting) = queue_
  BY <1>1, <1>2, <1>4, SeqEqual
<1>6. ASSUME queue_ # << >>
      PROVE  /\ <<Head(queue_)>> \o Tail(queue_) = queue_
             /\ Head(queue_) = Waiting[2] /\ Len(Waiting) >= 2
  <2>1. Len(queue_) >= 1 /\ Head(queue_) = queue_[1]
    BY <1>1, <1>6
  <2>2. /\ queue_[1] \in AcceptedRequests /\ Tail(queue_) \in Seq(AcceptedRequests)
        /\ Len(Tail(queue_)) = Len(queue_) - 1
        /\ \A i \in 1..Len(Tail(queue_)) : Tail(queue_)[i] = queue_[i + 1]
    BY <1>1, <1>6, <2>1, HeadTailProperties
  <2>3. <<Head(queue_)>> \o Tail(queue_) = queue_
    BY <1>1, <2>1, <2>2
  <2>4. 1 \in 1..Len(queue_) /\ 1 + 1 = 2
    BY <1>1, <2>1
  <2> QED
    BY <1>1, <1>2, <2>1, <2>3, <2>4
<1> QED
  BY <1>5, <1>6

LEMMA WaitingWithOneMore ==
    ASSUME CaptchaInv, RequestsSound, NEW q \in AcceptedRequests
    PROVE  /\ request_ \o Append(queue_, q) = Append(Waiting, q)
           /\ request_ = << >> => <<q>> \o queue_ = Append(Waiting, q)
<1>1. queue_ \in Seq(AcceptedRequests) /\ request_ \in Seq(AcceptedRequests)
  BY DEF CaptchaInv, CaptchaTypeOK
<1>2. Append(queue_, q) = queue_ \o <<q>> /\ <<q>> \in Seq(AcceptedRequests)
  BY <1>1
<1>3. Waiting \in Seq(AcceptedRequests)
  BY WaitingIsInOrder
<1>4. Append(Waiting, q) = Waiting \o <<q>>
  BY <1>3
<1>5. request_ \o Append(queue_, q) = Append(Waiting, q)
  BY <1>1, <1>2, <1>4, ConcatAssociative DEF Waiting
<1>6. request_ = << >> => <<q>> \o queue_ = Append(Waiting, q)
  BY <1>1 DEF Waiting, RequestsSound
<1> QED
  BY <1>5, <1>6
-----------------------------------------------------------------------------
(* Connect and SendRequest keep the settings, the stream and the operation *)
(* consistent.                                                             *)
LEMMA ConnectKeeps ==
    ASSUME VerifierInv, Connect(<< >>), IsSet(pending_settings_) \/ IsSet(settings_),
           UNCHANGED <<stream_, host, last, overtaken>>,
           \A i \in 1..Len(accepted') : accepted'[i].version <= last
    PROVE  /\ settings_' \in Settings /\ pending_settings_' \in Settings
           /\ failed_count_' \in Nat /\ ops' \in Seq(Operations) /\ Len(ops') = 1
           /\ IsSet(settings_')
           /\ SettingsSound' /\ StreamSound' /\ SentWithCurrentSettingsUnlessOvertaken'
<1> DEFINE settings == IF IsSet(pending_settings_) THEN pending_settings_ ELSE settings_
           op == Operation("resolve", settings, FALSE)
<1>1. /\ settings_ \in Settings /\ pending_settings_ \in Settings /\ failed_count_ \in Nat
  BY DEF VerifierInv, CaptchaInv, CaptchaTypeOK
<1>2. /\ settings_' = settings /\ pending_settings_' = NoSettings
      /\ failed_count_' = (IF IsSet(pending_settings_) THEN 0 ELSE failed_count_)
      /\ ops' = Append(<< >>, op)
  BY DEF Connect
<1>3. settings \in Settings /\ IsSet(settings)
  BY <1>1
<1>4. NoSettings \in Settings /\ ~IsSet(NoSettings)
  <2> MaxSettings \in Nat
    BY CaptchaConstants
  <2> QED
    BY DEF NoSettings, Settings, IsSet
<1>5. last = settings.version
  BY DEF VerifierInv, SettingsSound
<1>6. op \in Operations /\ op.kind = "resolve" /\ op.settings = settings
  BY <1>3 DEF Operations, Operation, Kinds
<1>7. stream_ # "closed" /\ ~overtaken => settings = settings_ /\ host = settings_.version
  BY DEF VerifierInv, StreamSound
<1> HIDE DEF settings, op
<1>8. ops' = <<op>>
  BY <1>2
<1>9. /\ ops' \in Seq(Operations) /\ Len(ops') = 1 /\ DOMAIN ops' = {1} /\ ops'[1] = op
  BY <1>6, <1>8
<1>10. failed_count_' \in Nat
  BY <1>1, <1>2
<1>11. SettingsSound'
  <2>1. IsSet(settings_') /\ ~IsSet(pending_settings_') /\ last' = settings_'.version
    BY <1>2, <1>3, <1>4, <1>5
  <2> QED
    BY <2>1 DEF SettingsSound, IsSet
<1>12. StreamSound'
  <2>1. ASSUME ~overtaken, stream_ # "closed"
        PROVE  host' = settings_'.version
    BY <1>2, <1>7, <2>1
  <2>2. ~IsSet(pending_settings_') /\ settings_' = settings
    BY <1>2, <1>4
  <2> QED
    BY <1>6, <1>9, <2>1, <2>2 DEF StreamSound, IsSet
<1>13. SentWithCurrentSettingsUnlessOvertaken'
  BY <1>6, <1>9 DEF SentWithCurrentSettingsUnlessOvertaken, SentWithCurrentSettings
<1> QED
  BY <1>2, <1>3, <1>4, <1>9, <1>10, <1>11, <1>12, <1>13

LEMMA WriteKeeps ==
    ASSUME VerifierInv, IsSet(settings_),
           failed_count_' = 0, UNCHANGED <<settings_, pending_settings_>>,
           ops' = <<Operation("write", settings_, stream_' = "connected")>>,
           UNCHANGED <<host, last, overtaken>>,
           stream_' # "closed" => stream_ # "closed",
           Head(request_').version <= last,
           \A i \in 1..Len(accepted') : accepted'[i].version <= last
    PROVE  /\ settings_' \in Settings /\ pending_settings_' \in Settings
           /\ failed_count_' \in Nat /\ ops' \in Seq(Operations) /\ Len(ops') = 1
           /\ IsSet(settings_')
           /\ SettingsSound' /\ StreamSound' /\ SentWithCurrentSettingsUnlessOvertaken'
<1> DEFINE op == Operation("write", settings_, stream_' = "connected")
<1>1. /\ settings_ \in Settings /\ pending_settings_ \in Settings
  BY DEF VerifierInv, CaptchaInv, CaptchaTypeOK
<1>2. op.kind = "write" /\ op.settings = settings_ /\ op.alive = (stream_' = "connected")
  BY DEF Operation
<1>3. op \in Operations
  <2> (stream_' = "connected") \in BOOLEAN
    OBVIOUS
  <2> QED
    BY <1>1 DEF Operations, Operation, Kinds
<1>4. op.alive => stream_ # "closed"
  BY <1>2
<1> HIDE DEF op
<1>5. ops' = <<op>>
  BY DEF op
<1>6. /\ ops' \in Seq(Operations) /\ Len(ops') = 1 /\ DOMAIN ops' = {1} /\ ops'[1] = op
  BY <1>3, <1>5
<1>7. SettingsSound'
  BY DEF VerifierInv, SettingsSound, IsSet
<1>8. StreamSound'
  <2>1. ASSUME ~overtaken, stream_' # "closed"
        PROVE  host = settings_.version /\ ~IsSet(pending_settings_)
    BY <2>1 DEF VerifierInv, StreamSound
  <2> QED
    BY <1>2, <1>6, <2>1 DEF StreamSound, IsSet
<1>9. SentWithCurrentSettingsUnlessOvertaken'
  <2>1. ASSUME ~overtaken, op.alive
        PROVE  host = settings_.version /\ last = settings_.version
    BY <1>4, <2>1 DEF VerifierInv, StreamSound, SettingsSound
  <2>2. ASSUME ~overtaken, op.alive
        PROVE  op.settings.version >= Head(request_').version /\ op.settings.version = host'
    BY <1>2, <2>1, <2>2
  <2> QED
    BY <1>6, <2>2 DEF SentWithCurrentSettingsUnlessOvertaken, SentWithCurrentSettings
<1>10. IsSet(settings_') /\ failed_count_' \in Nat
  BY DEF IsSet
<1> QED
  BY <1>1, <1>6, <1>7, <1>8, <1>9, <1>10
-----------------------------------------------------------------------------
(* One lemma per action.                                                   *)
LEMMA CaptchaInitKeeps == CaptchaInit => VerifierInv
<1> SUFFICES ASSUME CaptchaInit PROVE VerifierInv
  OBVIOUS
<1> USE DEF CaptchaInit
<1>1. MaxSettings \in Nat /\ MaxRequests \in Nat
  BY CaptchaConstants
<1>2. NoSettings \in Settings /\ ~IsSet(NoSettings) /\ NoSettings.version = 0
  BY <1>1 DEF NoSettings, Settings, IsSet
<1>3. /\ << >> \in Seq(AcceptedRequests) /\ << >> \in Seq(Operations) /\ << >> \in Seq(BOOLEAN)
      /\ Len(<< >>) = 0
  OBVIOUS
<1>4. CaptchaTypeOK /\ OneOperation
  <2>1. 0 \in 0..MaxSettings /\ 0 \in 0..MaxRequests /\ 0 <= 1
    BY <1>1
  <2>2. answers \in [Requests -> Seq(BOOLEAN)]
    BY <1>3
  <2> QED
    BY <1>2, <1>3, <2>1, <2>2 DEF CaptchaTypeOK, OneOperation
<1>5. SettingsSound /\ StreamSound /\ SentWithCurrentSettingsUnlessOvertaken
  BY <1>2, <1>3 DEF SettingsSound, StreamSound, SentWithCurrentSettingsUnlessOvertaken,
                    SentWithCurrentSettings
<1>6. RequestsSound
  BY <1>3 DEF RequestsSound
<1>7. Waiting = << >>
  BY DEF Waiting
<1>8. OthersAreAnswered
  BY <1>3, <1>7 DEF OthersAreAnswered
<1>9. AnsweredOnceInOrder
  BY <1>3, <1>8 DEF AnsweredOnceInOrder
<1> QED
  BY <1>4, <1>5, <1>6, <1>9 DEF VerifierInv, CaptchaInv

(* The requests and the answers are the same after most completions.       *)
LEMMA RequestsUnchanged ==
    ASSUME VerifierInv, UNCHANGED <<request_, queue_, accepted, answers, calls>>
    PROVE  RequestsSound' /\ AnsweredOnceInOrder'
<1>1. Waiting' = Waiting
  BY DEF Waiting
<1> QED
  BY <1>1 DEF VerifierInv, RequestsSound, AnsweredOnceInOrder, OthersAreAnswered

LEMMA SetSettingsKeeps ==
    ASSUME VerifierInv, NEW captcha \in Captchas, SetSettings(captcha)
    PROVE  VerifierInv'
<1> USE DEF SetSettings
<1>1. CaptchaTypeOK /\ OneOperation
  BY DEF VerifierInv, CaptchaInv
<1>2. last + 1 \in 1..MaxSettings /\ last' = last + 1 /\ last \in Nat
  <2>1. MaxSettings \in Nat /\ last \in 0..MaxSettings
    BY <1>1, CaptchaConstants DEF CaptchaTypeOK
  <2> QED
    BY <2>1
<1> DEFINE s == [version |-> last + 1, enabled |-> captcha.enabled, https |-> captcha.https]
<1>3. s \in Settings /\ s.version = last + 1 /\ IsSet(s)
  <2>1. captcha \in [enabled : BOOLEAN, https : BOOLEAN]
    BY CaptchaConstants
  <2>2. last + 1 \in 0..MaxSettings /\ last + 1 # 0
    BY <1>2
  <2> QED
    BY <2>1, <2>2 DEF Settings, IsSet
<1>4. pending_settings_' = s
  OBVIOUS
<1> HIDE DEF s
<1>5. overtaken' \in BOOLEAN /\ (~overtaken' => ~overtaken)
  BY <1>1 DEF CaptchaTypeOK
<1>6. CaptchaTypeOK'
  <2>1. last' \in 0..MaxSettings
    BY <1>2
  <2> QED
    BY <1>1, <1>3, <1>4, <1>5, <2>1 DEF CaptchaTypeOK, IsSet
<1>7. OneOperation'
  BY <1>1 DEF OneOperation
<1>8. SettingsSound'
  <2>1. \A i \in 1..Len(accepted) : accepted[i].version \in Int
    <3>1. \A i \in 1..Len(accepted) : accepted[i] \in AcceptedRequests
      BY <1>1 DEF CaptchaTypeOK
    <3>2. 0..MaxSettings \subseteq Int
      OBVIOUS
    <3> QED
      BY <3>1, <3>2 DEF AcceptedRequests
  <2>2. \A i \in 1..Len(accepted) : accepted[i].version <= last'
    BY <1>2, <2>1 DEF VerifierInv, SettingsSound
  <2>3. IsSet(pending_settings_') /\ last' = pending_settings_'.version
    BY <1>2, <1>3, <1>4
  <2>4. ops # << >> => IsSet(settings_)
    BY DEF VerifierInv, SettingsSound
  <2> QED
    BY <2>2, <2>3, <2>4 DEF SettingsSound, IsSet
<1>9. StreamSound'
  BY DEF StreamSound
<1>10. SentWithCurrentSettingsUnlessOvertaken'
  BY <1>5 DEF VerifierInv, SentWithCurrentSettingsUnlessOvertaken, SentWithCurrentSettings
<1>11. RequestsSound' /\ AnsweredOnceInOrder'
  BY RequestsUnchanged
<1> QED
  BY <1>6, <1>7, <1>8, <1>9, <1>10, <1>11 DEF VerifierInv, CaptchaInv

(* A version of a request that waits is compared with the settings'.       *)
LEMMA FirstIsNotNewer ==
    ASSUME VerifierInv, Len(request_) = 1
    PROVE  /\ Head(request_) = Waiting[1] /\ Head(request_).version <= last
           /\ queue_ # << >> => Head(queue_).version <= last
<1>1. CaptchaInv /\ SettingsSound /\ AnsweredOnceInOrder
  BY DEF VerifierInv
<1>2. request_ \in Seq(AcceptedRequests) /\ request_ # << >>
  <2> request_ \in Seq(AcceptedRequests)
    BY <1>1 DEF CaptchaInv, CaptchaTypeOK
  <2> QED
    OBVIOUS
<1>3. Len(Waiting) \in Nat /\ Len(Waiting) >= 1 /\ Waiting[1] = request_[1]
  BY <1>1, <1>2, WaitingIsInOrder, LenProperties
<1>4. Head(request_) = request_[1]
  BY <1>2
<1>5. 1 \in 1..Len(Waiting) /\ (Len(Waiting) >= 2 => 2 \in 1..Len(Waiting))
  BY <1>3
<1> QED
  BY <1>1, <1>3, <1>4, <1>5, WaitingIsNotNewer, WaitingAfterFirst

LEMMA VerifyKeeps ==
    ASSUME VerifierInv, NEW r \in Requests, NEW token_empty \in BOOLEAN,
           Verify(r, token_empty)
    PROVE  VerifierInv'
<1> DEFINE settings == IF IsSet(pending_settings_) THEN pending_settings_ ELSE settings_
           q == [request |-> r, version |-> settings.version]
           refused == ~IsSet(settings) \/ ~settings.enabled \/ token_empty
<1>1. /\ CaptchaTypeOK /\ OneOperation /\ CaptchaInv /\ RequestsSound /\ AnsweredOnceInOrder
      /\ SettingsSound
  BY DEF VerifierInv, CaptchaInv
<1>2. /\ r = calls + 1 /\ calls' = r /\ UNCHANGED <<stream_, host, last, overtaken>>
      /\ calls' \in 0..MaxRequests
  <2> r \in 0..MaxRequests
    BY DEF Requests
  <2> QED
    BY DEF Verify
<1>3. settings \in Settings /\ last = settings.version
  BY <1>1 DEF CaptchaTypeOK, SettingsSound
<1>4. q \in AcceptedRequests /\ q.request = r /\ q.version = last
  BY <1>3 DEF AcceptedRequests, Settings
<1>5. CASE refused
  <2> DEFINE x == ~IsSet(settings) \/ ~settings.enabled
  <2>1. /\ answers' = Answer(r, x)
        /\ UNCHANGED <<request_, queue_, settings_, pending_settings_, failed_count_, ops,
                       accepted>>
    BY <1>5 DEF Verify
  <2>2. x \in BOOLEAN
    OBVIOUS
  <2> HIDE DEF x
  <2>3. /\ answers' \in [Requests -> Seq(BOOLEAN)]
        /\ RequestsSound' /\ AnsweredOnceInOrder'
    BY <1>1, <1>2, <2>1, <2>2, RefusedAtOnce
  <2>4. CaptchaTypeOK' /\ OneOperation'
    BY <1>1, <1>2, <2>1, <2>3 DEF CaptchaTypeOK, OneOperation, IsSet
  <2>5. SettingsSound' /\ StreamSound' /\ SentWithCurrentSettingsUnlessOvertaken'
    BY <1>2, <2>1 DEF VerifierInv, SettingsSound, StreamSound, IsSet,
                      SentWithCurrentSettingsUnlessOvertaken, SentWithCurrentSettings
  <2> QED
    BY <2>3, <2>4, <2>5 DEF VerifierInv, CaptchaInv
<1>6. CASE ~refused
  <2>1. accepted' = Append(accepted, q) /\ answers' = answers
    BY <1>6 DEF Verify
  <2>2. request_ # << >> =>
           /\ queue_' = Append(queue_, q)
           /\ UNCHANGED <<request_, settings_, pending_settings_, failed_count_, ops>>
    BY <1>6 DEF Verify
  <2>3. request_ = << >> =>
           /\ request_' = <<q>> /\ queue_' = queue_
           /\ IF stream_ # "closed" THEN SendRequest(ops) ELSE Connect(ops)
    BY <1>6 DEF Verify
  <2>4. IsSet(settings)
    BY <1>6
  <2>5. IsSet(pending_settings_) \/ IsSet(settings_)
    BY <2>4
  <2> HIDE DEF settings, q, refused
  <2>6. /\ accepted' \in Seq(AcceptedRequests)
        /\ \A i \in 1..Len(accepted') : accepted'[i].version <= last
    <3>1. accepted \in Seq(AcceptedRequests) /\ last \in Nat
      BY <1>1 DEF CaptchaTypeOK
    <3>2. /\ accepted' \in Seq(AcceptedRequests) /\ Len(accepted') = Len(accepted) + 1
          /\ Len(accepted) \in Nat
          /\ \A i \in 1..Len(accepted) : accepted'[i] = accepted[i]
          /\ accepted'[Len(accepted) + 1] = q
      BY <1>4, <2>1, <3>1, AppendProperties
    <3>3. \A i \in 1..Len(accepted') : i \in 1..Len(accepted) \/ i = Len(accepted) + 1
      BY <3>2
    <3> QED
      BY <1>1, <1>4, <3>1, <3>2, <3>3 DEF SettingsSound
  <2>7. CASE request_ # << >>
    <3>1. Waiting' = Append(Waiting, q)
      BY <1>1, <1>4, <2>2, <2>7, WaitingWithOneMore DEF Waiting
    <3>2. RequestsSound' /\ AnsweredOnceInOrder'
      BY <1>1, <1>2, <1>4, <2>1, <2>2, <2>7, <3>1, AcceptedLast
    <3>3. queue_' \in Seq(AcceptedRequests)
      <4>1. queue_ \in Seq(AcceptedRequests) /\ q \in AcceptedRequests
        BY <1>1, <1>4 DEF CaptchaTypeOK
      <4>2. Append(queue_, q) \in Seq(AcceptedRequests)
        BY <4>1
      <4> QED
        BY <2>2, <2>7, <4>2
    <3>4. CaptchaTypeOK' /\ OneOperation'
      BY <1>1, <1>2, <2>1, <2>2, <2>6, <2>7, <3>3 DEF CaptchaTypeOK, OneOperation, IsSet
    <3>5. SettingsSound' /\ StreamSound' /\ SentWithCurrentSettingsUnlessOvertaken'
      BY <1>2, <2>2, <2>6, <2>7 DEF VerifierInv, SettingsSound, StreamSound, IsSet,
                      SentWithCurrentSettingsUnlessOvertaken, SentWithCurrentSettings
    <3> QED
      BY <3>2, <3>4, <3>5 DEF VerifierInv, CaptchaInv
  <2>8. CASE request_ = << >>
    <3>1. ops = << >>
      BY <1>1, <2>8 DEF CaptchaTypeOK, OneOperation
    <3>2. request_' = <<q>> /\ queue_' = queue_ /\ request_' # << >> /\ Head(request_') = q
          /\ Len(request_') = 1 /\ request_' \in Seq(AcceptedRequests)
      <4>1. request_' = <<q>> /\ queue_' = queue_
        BY <2>3, <2>8
      <4>2. <<q>> \in Seq(AcceptedRequests) /\ Head(<<q>>) = q /\ Len(<<q>>) = 1 /\ <<q>> # << >>
        BY <1>4
      <4> QED
        BY <4>1, <4>2
    <3>3. Waiting' = Append(Waiting, q)
      BY <1>1, <1>4, <2>8, <3>2, WaitingWithOneMore DEF Waiting
    <3>4. RequestsSound' /\ AnsweredOnceInOrder'
      BY <1>1, <1>2, <1>4, <2>1, <3>2, <3>3, AcceptedLast
    <3>5. /\ settings_' \in Settings /\ pending_settings_' \in Settings
          /\ failed_count_' \in Nat /\ ops' \in Seq(Operations) /\ Len(ops') = 1
          /\ IsSet(settings_')
          /\ SettingsSound' /\ StreamSound' /\ SentWithCurrentSettingsUnlessOvertaken'
      <4>1. CASE stream_ # "closed"
        <5>1. IsSet(settings_)
          BY <1>1, <4>1 DEF SettingsSound
        <5>2. /\ failed_count_' = 0 /\ UNCHANGED <<settings_, pending_settings_>>
              /\ ops' = <<Operation("write", settings_, stream_ = "connected")>>
          BY <2>3, <2>8, <3>1, <4>1 DEF SendRequest
        <5>3. /\ ops' = <<Operation("write", settings_, stream_' = "connected")>>
              /\ Head(request_').version <= last
          <6> last \in Nat
            BY <1>1 DEF CaptchaTypeOK
          <6> QED
            BY <1>2, <1>4, <3>2, <5>2
        <5> QED
          BY <1>2, <2>6, <5>1, <5>2, <5>3, WriteKeeps
      <4>2. CASE stream_ = "closed"
        BY <1>2, <2>3, <2>5, <2>6, <2>8, <3>1, <4>2, ConnectKeeps
      <4> QED
        BY <4>1, <4>2
    <3>6. CaptchaTypeOK' /\ OneOperation'
      BY <1>1, <1>2, <2>1, <2>6, <3>2, <3>5 DEF CaptchaTypeOK, OneOperation, IsSet
    <3> QED
      BY <3>4, <3>5, <3>6 DEF VerifierInv, CaptchaInv
  <2> QED
    BY <2>7, <2>8
<1> QED
  BY <1>5, <1>6

(* An operation that continues another, with the same settings, for the    *)
(* same request.                                                           *)
LEMMA ContinuedKeeps ==
    ASSUME VerifierInv, NEW i \in DOMAIN ops,
           NEW kind \in {"connect", "handshake", "read"}, NEW alive \in BOOLEAN,
           ops' = Continued(i, kind, alive),
           stream_' \in {"closed", "open", "connected"}, host' \in 0..MaxSettings,
           ~overtaken /\ stream_' # "closed" =>
              host' = settings_.version /\ ~IsSet(pending_settings_),
           UNCHANGED <<request_, queue_, settings_, pending_settings_, failed_count_,
                       history, answers>>
    PROVE  VerifierInv'
<1> DEFINE op == Operation(kind, ops[1].settings, alive)
<1>1. /\ CaptchaTypeOK /\ OneOperation /\ CaptchaInv /\ SettingsSound
      /\ UNCHANGED <<last, calls, overtaken, accepted>>
  BY DEF VerifierInv, CaptchaInv, history
<1>2. /\ Len(request_) = 1 /\ ops[1] \in Operations /\ IsSet(settings_)
      /\ ops' = <<op>>
  BY <1>1, TheOperation
<1>3. op \in Operations /\ op.kind \notin {"resolve", "write"}
  BY <1>2 DEF Operations, Operation, Kinds
<1> HIDE DEF op
<1>4. ops' \in Seq(Operations) /\ Len(ops') = 1 /\ DOMAIN ops' = {1} /\ ops'[1] = op
  BY <1>2, <1>3
<1>5. CaptchaTypeOK' /\ OneOperation'
  BY <1>1, <1>2, <1>4 DEF CaptchaTypeOK, OneOperation, IsSet
<1>6. SettingsSound'
  BY <1>1, <1>2 DEF SettingsSound, IsSet
<1>7. StreamSound' /\ SentWithCurrentSettingsUnlessOvertaken'
  BY <1>1, <1>3, <1>4 DEF StreamSound, IsSet,
        SentWithCurrentSettingsUnlessOvertaken, SentWithCurrentSettings
<1>8. RequestsSound' /\ AnsweredOnceInOrder'
  BY <1>1, RequestsUnchanged
<1> QED
  BY <1>5, <1>6, <1>7, <1>8 DEF VerifierInv, CaptchaInv

LEMMA ResolveKeeps ==
    ASSUME VerifierInv, NEW i \in DOMAIN ops, NEW found \in BOOLEAN, ResolveHandler(i, found)
    PROVE  VerifierInv'
<1>1. CaptchaTypeOK /\ CaptchaInv /\ StreamSound
  BY DEF VerifierInv, CaptchaInv
<1>2. i = 1 /\ ops[1] \in Operations
  BY <1>1, TheOperation
<1>3. /\ ops[1].kind = "resolve" /\ ops' = Continued(i, "connect", found)
      /\ found => stream_' = "open" /\ host' = ops[1].settings.version
      /\ ~found => UNCHANGED <<stream_, host>>
      /\ UNCHANGED <<request_, queue_, settings_, pending_settings_, failed_count_,
                     history, answers>>
  BY <1>2 DEF ResolveHandler
<1>4. stream_' \in {"closed", "open", "connected"}
  BY <1>1, <1>3 DEF CaptchaTypeOK
<1>5. host' \in 0..MaxSettings
  <2> host \in 0..MaxSettings /\ ops[1].settings.version \in 0..MaxSettings
    BY <1>1, <1>2 DEF CaptchaTypeOK, Operations, Settings
  <2> QED
    BY <1>3
<1>6. ~overtaken /\ stream_' # "closed" => host' = settings_.version /\ ~IsSet(pending_settings_)
  BY <1>1, <1>2, <1>3 DEF StreamSound
<1>7. "connect" \in {"connect", "handshake", "read"}
  OBVIOUS
<1> QED
  BY <1>3, <1>4, <1>5, <1>6, <1>7, ContinuedKeeps

LEMMA ConnectHandlerKeeps ==
    ASSUME VerifierInv, NEW i \in DOMAIN ops, ConnectHandler(i)
    PROVE  VerifierInv'
<1>1. CaptchaTypeOK /\ OneOperation /\ CaptchaInv /\ StreamSound /\ SettingsSound
  BY DEF VerifierInv, CaptchaInv
<1>2. /\ Len(request_) = 1 /\ IsSet(settings_) /\ \A x : Append(Completed(i), x) = <<x>>
  BY <1>1, TheOperation
<1>3. /\ stream_' = (IF stream_ = "open" THEN "connected" ELSE stream_)
      /\ UNCHANGED <<request_, queue_, host, history, answers>>
      /\ UNCHANGED <<last, calls, overtaken, accepted>>
  BY DEF ConnectHandler, history
<1>4. /\ stream_' \in {"closed", "open", "connected"} /\ host' \in 0..MaxSettings
      /\ stream_' # "closed" => stream_ # "closed"
  BY <1>1, <1>3 DEF CaptchaTypeOK
<1>5. CASE ops[i].settings.https
  <2>1. /\ ops' = Continued(i, "handshake", TRUE)
        /\ UNCHANGED <<settings_, pending_settings_, failed_count_>>
    BY <1>5 DEF ConnectHandler
  <2>2. ~overtaken /\ stream_' # "closed" =>
           host' = settings_.version /\ ~IsSet(pending_settings_)
    BY <1>1, <1>3, <1>4 DEF StreamSound
  <2>3. "handshake" \in {"connect", "handshake", "read"} /\ TRUE \in BOOLEAN
    OBVIOUS
  <2> QED
    BY <1>3, <1>4, <2>1, <2>2, <2>3, ContinuedKeeps
<1>6. CASE ~ops[i].settings.https
  <2>1. /\ failed_count_' = 0 /\ UNCHANGED <<settings_, pending_settings_>>
        /\ ops' = <<Operation("write", settings_, stream_' = "connected")>>
    BY <1>2, <1>6 DEF ConnectHandler
  <2>2. Head(request_').version <= last
    BY <1>2, <1>3, FirstIsNotNewer
  <2>3. \A k \in 1..Len(accepted') : accepted'[k].version <= last
    BY <1>1, <1>3 DEF SettingsSound
  <2>4. /\ settings_' \in Settings /\ pending_settings_' \in Settings
        /\ failed_count_' \in Nat /\ ops' \in Seq(Operations) /\ Len(ops') = 1
        /\ IsSet(settings_')
        /\ SettingsSound' /\ StreamSound' /\ SentWithCurrentSettingsUnlessOvertaken'
    BY <1>2, <1>3, <1>4, <2>1, <2>2, <2>3, WriteKeeps
  <2>5. CaptchaTypeOK' /\ OneOperation'
    BY <1>1, <1>2, <1>3, <1>4, <2>4 DEF CaptchaTypeOK, OneOperation, IsSet
  <2>6. RequestsSound' /\ AnsweredOnceInOrder'
    BY <1>3, RequestsUnchanged
  <2> QED
    BY <2>4, <2>5, <2>6 DEF VerifierInv, CaptchaInv
<1> QED
  BY <1>5, <1>6

LEMMA HandshakeKeeps ==
    ASSUME VerifierInv, NEW i \in DOMAIN ops, HandshakeHandler(i)
    PROVE  VerifierInv'
<1>1. CaptchaTypeOK /\ OneOperation /\ CaptchaInv /\ SettingsSound
  BY DEF VerifierInv, CaptchaInv
<1>2. /\ Len(request_) = 1 /\ IsSet(settings_) /\ \A x : Append(Completed(i), x) = <<x>>
  BY <1>1, TheOperation
<1>3. /\ UNCHANGED <<request_, queue_, stream_, host, answers>>
      /\ UNCHANGED <<last, calls, overtaken, accepted>>
      /\ failed_count_' = 0 /\ UNCHANGED <<settings_, pending_settings_>>
      /\ ops' = <<Operation("write", settings_, stream_ = "connected")>>
  BY <1>2 DEF HandshakeHandler, SendRequest, history
<1>4. ops' = <<Operation("write", settings_, stream_' = "connected")>>
  BY <1>3
<1>5. Head(request_').version <= last
  BY <1>2, <1>3, FirstIsNotNewer
<1>6. \A k \in 1..Len(accepted') : accepted'[k].version <= last
  BY <1>1, <1>3 DEF SettingsSound
<1>7. /\ settings_' \in Settings /\ pending_settings_' \in Settings
      /\ failed_count_' \in Nat /\ ops' \in Seq(Operations) /\ Len(ops') = 1
      /\ IsSet(settings_')
      /\ SettingsSound' /\ StreamSound' /\ SentWithCurrentSettingsUnlessOvertaken'
  BY <1>2, <1>3, <1>4, <1>5, <1>6, WriteKeeps
<1>8. CaptchaTypeOK' /\ OneOperation'
  BY <1>1, <1>2, <1>3, <1>7 DEF CaptchaTypeOK, OneOperation, IsSet
<1>9. RequestsSound' /\ AnsweredOnceInOrder'
  BY <1>3, RequestsUnchanged
<1> QED
  BY <1>7, <1>8, <1>9 DEF VerifierInv, CaptchaInv

LEMMA WriteHandlerKeeps ==
    ASSUME VerifierInv, NEW i \in DOMAIN ops, WriteHandler(i)
    PROVE  VerifierInv'
<1>1. CaptchaTypeOK /\ StreamSound
  BY DEF VerifierInv, CaptchaInv
<1>2. /\ ops' = Continued(i, "read", TRUE)
      /\ UNCHANGED <<request_, queue_, settings_, pending_settings_, failed_count_,
                     history, answers>>
      /\ UNCHANGED <<stream_, host>>
  BY DEF WriteHandler
<1>3. /\ stream_' \in {"closed", "open", "connected"} /\ host' \in 0..MaxSettings
      /\ ~overtaken /\ stream_' # "closed" =>
           host' = settings_.version /\ ~IsSet(pending_settings_)
  BY <1>1, <1>2 DEF CaptchaTypeOK, StreamSound
<1>4. "read" \in {"connect", "handshake", "read"} /\ TRUE \in BOOLEAN
  OBVIOUS
<1> QED
  BY <1>2, <1>3, <1>4, ContinuedKeeps

LEMMA ReadKeeps ==
    ASSUME VerifierInv, NEW i \in DOMAIN ops, NEW success \in BOOLEAN, ReadHandler(i, success)
    PROVE  VerifierInv'
<1>1. /\ CaptchaTypeOK /\ OneOperation /\ CaptchaInv /\ StreamSound /\ SettingsSound
      /\ RequestsSound /\ AnsweredOnceInOrder
  BY DEF VerifierInv, CaptchaInv
<1>2. /\ Len(request_) = 1 /\ IsSet(settings_) /\ Completed(i) = << >> /\ request_ # << >>
      /\ \A x : Append(Completed(i), x) = <<x>>
  BY <1>1, TheOperation
<1>3. /\ answers' = Answer(Waiting[1].request, success) /\ Len(Waiting) >= 1
      /\ UNCHANGED <<last, calls, overtaken, accepted>> /\ UNCHANGED <<stream_, host>>
  BY <1>1, <1>2, FirstIsNotNewer, WaitingIsInOrder DEF ReadHandler, history
<1>4. /\ queue_ = << >> => /\ request_' = << >> /\ ops' = << >>
                           /\ UNCHANGED <<queue_, settings_, pending_settings_, failed_count_>>
      /\ queue_ # << >> =>
            /\ request_' = <<Head(queue_)>> /\ queue_' = Tail(queue_)
            /\ failed_count_' = 0 /\ UNCHANGED <<settings_, pending_settings_>>
            /\ ops' = <<Operation("write", settings_, stream_ = "connected")>>
  BY <1>2 DEF ReadHandler, SendRequest
<1>5. \A k \in 1..Len(accepted') : accepted'[k].version <= last
  BY <1>1, <1>3 DEF SettingsSound
<1>6. queue_ \in Seq(AcceptedRequests)
  BY <1>1 DEF CaptchaTypeOK
<1>7. Tail(Waiting) = queue_
  BY <1>1, <1>2, WaitingAfterFirst
<1>8. CASE queue_ = << >>
  <2>1. Waiting' = Tail(Waiting)
    <3> request_' = << >> /\ queue_' = << >>
      BY <1>4, <1>8
    <3> Waiting' = << >>
      BY DEF Waiting
    <3> QED
      BY <1>7, <1>8
  <2>2. /\ answers' \in [Requests -> Seq(BOOLEAN)] /\ RequestsSound' /\ AnsweredOnceInOrder'
    BY <1>1, <1>3, <1>4, <1>8, <2>1, FirstAnswered
  <2>3. request_' \in Seq(AcceptedRequests) /\ ops' \in Seq(Operations)
        /\ Len(request_') = 0 /\ Len(ops') = 0 /\ DOMAIN ops' = {}
    BY <1>4, <1>8
  <2>4. CaptchaTypeOK' /\ OneOperation'
    <3> Len(request_') <= 1
      BY <2>3
    <3> QED
      BY <1>1, <1>2, <1>3, <1>4, <1>8, <2>2, <2>3 DEF CaptchaTypeOK, OneOperation, IsSet
  <2>5. SettingsSound' /\ StreamSound' /\ SentWithCurrentSettingsUnlessOvertaken'
    BY <1>1, <1>2, <1>3, <1>4, <1>8, <2>3 DEF SettingsSound, StreamSound, IsSet,
        SentWithCurrentSettingsUnlessOvertaken, SentWithCurrentSettings
  <2> QED
    BY <2>2, <2>4, <2>5 DEF VerifierInv, CaptchaInv
<1>9. CASE queue_ # << >>
  <2>1. /\ <<Head(queue_)>> \o Tail(queue_) = queue_
        /\ Head(queue_) \in AcceptedRequests /\ Tail(queue_) \in Seq(AcceptedRequests)
    BY <1>1, <1>2, <1>6, <1>9, WaitingAfterFirst, HeadTailProperties
  <2>2. Waiting' = Tail(Waiting)
    BY <1>4, <1>7, <1>9, <2>1 DEF Waiting
  <2>3. /\ request_' \in Seq(AcceptedRequests) /\ Len(request_') = 1 /\ request_' # << >>
        /\ Head(request_') = Head(queue_)
    <3>1. \A q \in AcceptedRequests :
             <<q>> \in Seq(AcceptedRequests) /\ Len(<<q>>) = 1 /\ <<q>> # << >> /\ Head(<<q>>) = q
      OBVIOUS
    <3> QED
      BY <1>4, <1>9, <2>1, <3>1
  <2>4. /\ answers' \in [Requests -> Seq(BOOLEAN)] /\ RequestsSound' /\ AnsweredOnceInOrder'
    BY <1>1, <1>3, <2>2, <2>3, FirstAnswered
  <2>5. Head(request_').version <= last
    BY <1>2, <1>9, <2>3, FirstIsNotNewer
  <2>6. /\ ops' = <<Operation("write", settings_, stream_' = "connected")>>
        /\ failed_count_' = 0 /\ UNCHANGED <<settings_, pending_settings_>>
    BY <1>3, <1>4, <1>9
  <2>7. /\ settings_' \in Settings /\ pending_settings_' \in Settings
        /\ failed_count_' \in Nat /\ ops' \in Seq(Operations) /\ Len(ops') = 1
        /\ IsSet(settings_')
        /\ SettingsSound' /\ StreamSound' /\ SentWithCurrentSettingsUnlessOvertaken'
    BY <1>2, <1>3, <1>5, <2>5, <2>6, WriteKeeps
  <2>8. CaptchaTypeOK' /\ OneOperation'
    <3> Len(request_') <= 1
      BY <2>3
    <3> queue_' = Tail(queue_)
      BY <1>4, <1>9
    <3> queue_' \in Seq(AcceptedRequests)
      BY <2>1
    <3> QED
      BY <1>1, <1>3, <2>3, <2>4, <2>7 DEF CaptchaTypeOK, OneOperation, IsSet
  <2> QED
    BY <2>4, <2>7, <2>8 DEF VerifierInv, CaptchaInv
<1> QED
  BY <1>8, <1>9

LEMMA FailureKeeps ==
    ASSUME VerifierInv, NEW i \in DOMAIN ops, FailureHandler(i)
    PROVE  VerifierInv'
<1>1. /\ CaptchaTypeOK /\ OneOperation /\ CaptchaInv /\ StreamSound /\ SettingsSound
      /\ RequestsSound /\ AnsweredOnceInOrder
  BY DEF VerifierInv, CaptchaInv
<1>2. /\ Len(request_) = 1 /\ IsSet(settings_) /\ Completed(i) = << >>
      /\ \A x : Append(Completed(i), x) = <<x>>
  BY <1>1, TheOperation
<1>3. /\ UNCHANGED <<last, calls, overtaken, accepted>>
      /\ UNCHANGED <<settings_, pending_settings_, stream_, host>>
      /\ failed_count_' = failed_count_ + 1 /\ failed_count_' \in Nat
  <2> failed_count_ \in Nat
    BY <1>1 DEF CaptchaTypeOK
  <2> QED
    BY DEF FailureHandler, Retry, history
<1>4. CASE failed_count_ + 1 >= max_fail_count_
  <2>1. /\ answers' = RejectAll(Waiting) /\ request_' = << >> /\ queue_' = << >>
        /\ ops' = << >>
    BY <1>2, <1>4 DEF FailureHandler, Retry, Waiting
  <2>2. /\ answers' \in [Requests -> Seq(BOOLEAN)] /\ RequestsSound' /\ AnsweredOnceInOrder'
    BY <1>1, <1>3, <2>1, AllRejected
  <2>3. /\ request_' \in Seq(AcceptedRequests) /\ queue_' \in Seq(AcceptedRequests)
        /\ ops' \in Seq(Operations)
        /\ Len(request_') = 0 /\ Len(ops') = 0 /\ DOMAIN ops' = {}
    BY <2>1
  <2>4. CaptchaTypeOK' /\ OneOperation'
    <3> Len(request_') <= 1
      BY <2>3
    <3> QED
      BY <1>1, <1>2, <1>3, <2>1, <2>2, <2>3 DEF CaptchaTypeOK, OneOperation, IsSet
  <2>5. SettingsSound' /\ StreamSound' /\ SentWithCurrentSettingsUnlessOvertaken'
    BY <1>1, <1>2, <1>3, <2>1, <2>3 DEF SettingsSound, StreamSound, IsSet,
        SentWithCurrentSettingsUnlessOvertaken, SentWithCurrentSettings
  <2> QED
    BY <2>2, <2>4, <2>5 DEF VerifierInv, CaptchaInv
<1>5. CASE ~(failed_count_ + 1 >= max_fail_count_)
  <2> DEFINE op == Operation("wait", settings_, FALSE)
  <2>1. ops' = <<op>> /\ UNCHANGED <<request_, queue_, answers>>
    BY <1>2, <1>5 DEF FailureHandler, Retry
  <2>2. op \in Operations /\ op.kind = "wait"
    BY <1>1 DEF CaptchaTypeOK, Operations, Operation, Kinds
  <2> HIDE DEF op
  <2>3. ops' \in Seq(Operations) /\ Len(ops') = 1 /\ DOMAIN ops' = {1} /\ ops'[1] = op
    BY <2>1, <2>2
  <2>4. RequestsSound' /\ AnsweredOnceInOrder'
    BY <1>3, <2>1, RequestsUnchanged
  <2>5. CaptchaTypeOK' /\ OneOperation'
    BY <1>1, <1>2, <1>3, <2>1, <2>3 DEF CaptchaTypeOK, OneOperation, IsSet
  <2>6. SettingsSound' /\ StreamSound' /\ SentWithCurrentSettingsUnlessOvertaken'
    BY <1>1, <1>2, <1>3, <2>2, <2>3 DEF SettingsSound, StreamSound, IsSet,
        SentWithCurrentSettingsUnlessOvertaken, SentWithCurrentSettings
  <2> QED
    BY <2>4, <2>5, <2>6 DEF VerifierInv, CaptchaInv
<1> QED
  BY <1>4, <1>5

LEMMA RetryTimerKeeps ==
    ASSUME VerifierInv, NEW i \in DOMAIN ops, RetryTimerHandler(i)
    PROVE  VerifierInv'
<1>1. CaptchaTypeOK /\ OneOperation /\ CaptchaInv /\ SettingsSound
  BY DEF VerifierInv, CaptchaInv
<1>2. Len(request_) = 1 /\ IsSet(settings_) /\ Completed(i) = << >>
  BY <1>1, TheOperation
<1>3. /\ Connect(<< >>) /\ UNCHANGED <<request_, queue_, stream_, host, answers>>
      /\ UNCHANGED <<last, calls, overtaken, accepted>>
  BY <1>2 DEF RetryTimerHandler, history
<1>4. \A k \in 1..Len(accepted') : accepted'[k].version <= last
  BY <1>1, <1>3 DEF SettingsSound
<1>5. /\ settings_' \in Settings /\ pending_settings_' \in Settings
      /\ failed_count_' \in Nat /\ ops' \in Seq(Operations) /\ Len(ops') = 1
      /\ IsSet(settings_')
      /\ SettingsSound' /\ StreamSound' /\ SentWithCurrentSettingsUnlessOvertaken'
  BY <1>2, <1>3, <1>4, ConnectKeeps
<1>6. CaptchaTypeOK' /\ OneOperation'
  BY <1>1, <1>2, <1>3, <1>5 DEF CaptchaTypeOK, OneOperation, IsSet
<1>7. RequestsSound' /\ AnsweredOnceInOrder'
  BY <1>3, RequestsUnchanged
<1> QED
  BY <1>5, <1>6, <1>7 DEF VerifierInv, CaptchaInv

LEMMA CaptchaNextKeeps ==
    ASSUME VerifierInv, [CaptchaNext]_captchaVars
    PROVE  VerifierInv'
<1>1. CASE UNCHANGED captchaVars
  <2>1. RequestsSound' /\ AnsweredOnceInOrder'
    BY <1>1, RequestsUnchanged DEF captchaVars
  <2>2. CaptchaInv'
    BY <1>1 DEF captchaVars, VerifierInv, CaptchaInv, CaptchaTypeOK, OneOperation, IsSet
  <2>3. SettingsSound' /\ StreamSound' /\ SentWithCurrentSettingsUnlessOvertaken'
    BY <1>1 DEF captchaVars, VerifierInv, SettingsSound, StreamSound, IsSet,
        SentWithCurrentSettingsUnlessOvertaken, SentWithCurrentSettings
  <2> QED
    BY <2>1, <2>2, <2>3 DEF VerifierInv
<1>2. CASE \E captcha \in Captchas : SetSettings(captcha)
  BY <1>2, SetSettingsKeeps
<1>3. CASE \E r \in Requests, token_empty \in BOOLEAN : Verify(r, token_empty)
  BY <1>3, VerifyKeeps
<1>4. CASE Completion
  <2> SUFFICES ASSUME NEW i \in DOMAIN ops, Succeeds(i) \/ Fails(i) PROVE VerifierInv'
    BY <1>4 DEF Completion
  <2>1. CASE \E found \in BOOLEAN : ResolveHandler(i, found)
    BY <2>1, ResolveKeeps
  <2>2. CASE ConnectHandler(i)
    BY <2>2, ConnectHandlerKeeps
  <2>3. CASE HandshakeHandler(i)
    BY <2>3, HandshakeKeeps
  <2>4. CASE WriteHandler(i)
    BY <2>4, WriteHandlerKeeps
  <2>5. CASE \E success \in BOOLEAN : ReadHandler(i, success)
    BY <2>5, ReadKeeps
  <2>6. CASE RetryTimerHandler(i)
    BY <2>6, RetryTimerKeeps
  <2>7. CASE FailureHandler(i)
    BY <2>7, FailureKeeps
  <2> QED
    BY <2>1, <2>2, <2>3, <2>4, <2>5, <2>6, <2>7, Zenon DEF Succeeds, Fails
<1> QED
  BY <1>1, <1>2, <1>3, <1>4 DEF CaptchaNext
-----------------------------------------------------------------------------
LEMMA VerifierInvariant == CaptchaSpec => []VerifierInv
<1>1. CaptchaInit => VerifierInv
  BY CaptchaInitKeeps
<1>2. VerifierInv /\ [CaptchaNext]_captchaVars => VerifierInv'
  BY CaptchaNextKeeps
<1> QED
  BY <1>1, <1>2, PTL DEF CaptchaSpec

(* src/CaptchaVerifier.hpp shares req_, response_, buffer_ and stream_     *)
(* between all requests: whatever the interleaving of calls, completions,  *)
(* failures and changes of settings, one operation is in progress while    *)
(* there is a request, with settings to dereference, and none otherwise.   *)
THEOREM OneOperationAtATime == CaptchaSpec => []CaptchaInv
<1>1. VerifierInv => CaptchaInv
  BY DEF VerifierInv
<1> QED
  BY <1>1, VerifierInvariant, PTL

(* Every callback of Verify is called at most once, in the order of the    *)
(* accepted calls, and no accepted request is forgotten: it waits in       *)
(* request_ or queue_ or was answered.                                     *)
THEOREM CallbacksOnceInOrder == CaptchaSpec => []AnsweredOnceInOrder
<1>1. VerifierInv => AnsweredOnceInOrder
  BY DEF VerifierInv
<1> QED
  BY <1>1, VerifierInvariant, PTL

(* SetSettings closes the socket "in case the host changed": except when   *)
(* it is called during a resolution, no request that came after it goes to *)
(* the old host or with the old settings.                                  *)
THEOREM NewSettingsReachTheService ==
    CaptchaSpec => []SentWithCurrentSettingsUnlessOvertaken
<1>1. VerifierInv => SentWithCurrentSettingsUnlessOvertaken
  BY DEF VerifierInv
<1> QED
  BY <1>1, VerifierInvariant, PTL
=============================================================================
