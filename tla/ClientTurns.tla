---------------------------- MODULE ClientTurns ----------------------------
(***************************************************************************)
(* Clients that move between virtual machines and ask for turns on them:   *)
(* the composition of CollabVmSocket (src/CollabVmServer.hpp), the channel *)
(* of each machine (src/UserChannel.hpp) and its turn queue                *)
(* (src/TurnController.hpp) over the strands that join them.               *)
(*                                                                         *)
(* TurnController of this project is one queue.  Here there are several,   *)
(* and what they share: a client has ONE turn_queue_position_, because     *)
(* UserTurnData is a base class of the socket, and every queue erases by   *)
(* it.  A client comes to a machine on the strand of that machine, and     *)
(* leaves the other by a task that goes over the strand of                 *)
(* virtual_machines_ to the strand of the other.                           *)
(*                                                                         *)
(* tasks holds the queue of every strand; a step is one handler.  Left     *)
(* out: durations (a pending wait may end at any time), pauses and         *)
(* settings (turns are enabled), usernames, votes and deleted machines.    *)
(***************************************************************************)
EXTENDS Integers, SequencesExt

CONSTANTS
    Clients, NoClient,
    Vms, NoVm,
    MaxMessages  \* bound: messages of all clients

VmList == "virtual_machines_"   \* the strand of the list of machines

ASSUME ClientTurnsConstants ==
    /\ NoClient \notin Clients
    /\ NoVm \notin Vms
    /\ VmList \notin Vms
    /\ MaxMessages \in Nat

VARIABLES
    tasks,                 \* the queue of each strand
    open,                  \* the client is connected: OnDisconnect has not run
    sent,                  \* number of messages sent so far
    connected_vm_id_,
    turn_queue_position_,  \* UserTurnData of each client
    users_,                \* members of the channel of each machine
    turn_queue_,           \* of each machine
    turn_timer_,           \* user captured by the pending wait of each machine
    crashed,               \* erased past the end, or an empty optional was read
    hasty,                 \* history: queued where another machine may remove it
    rejoined               \* history: came where it still was, or left while coming

clientTurnsVars == <<tasks, open, sent, connected_vm_id_, turn_queue_position_, users_,
                     turn_queue_, turn_timer_, crashed, hasty, rejoined>>

turnVars == <<turn_queue_position_, turn_queue_, turn_timer_, crashed>>

nullopt == -1
Strands == Vms \cup {VmList}
Tasks == [do : {"join", "leave", "end", "turn", "expired"},
          client : Clients, vm : Vms \cup {NoVm}]

ClientTurnsInit ==
    /\ tasks = [s \in Strands |-> << >>]
    /\ open = [c \in Clients |-> TRUE]
    /\ sent = 0
    /\ connected_vm_id_ = [c \in Clients |-> NoVm]
    /\ turn_queue_position_ = [c \in Clients |-> nullopt]
    /\ users_ = [v \in Vms |-> {}]
    /\ turn_queue_ = [v \in Vms |-> << >>]
    /\ turn_timer_ = [v \in Vms |-> NoClient]
    /\ crashed = FALSE
    /\ hasty = FALSE
    /\ rejoined = [c \in Clients |-> FALSE]

Task(do, c, v) == [do |-> do, client |-> c, vm |-> v]
Push(q, s, task) == [q EXCEPT ![s] = Append(@, task)]
Popped(s) == [tasks EXCEPT ![s] = Tail(@)]
IsNext(s, task) == ~crashed /\ tasks[s] # << >> /\ Head(tasks[s]) = task
Pending(task) == \E s \in Strands : Contains(tasks[s], task)

(* The client is to leave machine v, if any, and is queued at another. *)
QueuedElsewhere(c, v) ==
    v # NoVm /\ turn_queue_position_[c] # nullopt /\ ~Contains(turn_queue_[v], c)

-----------------------------------------------------------------------------
(* Messages of a client, and OnDisconnect. *)
Message(c, task) ==
    /\ ~crashed
    /\ open[c]
    /\ sent < MaxMessages
    /\ sent' = sent + 1
    /\ tasks' = Push(tasks, VmList, task)
    /\ UNCHANGED <<open, connected_vm_id_, users_, turnVars, hasty, rejoined>>

ConnectToChannel(c, v) == Message(c, Task("join", c, v))

(* The machine is looked up later, by what connected_vm_id_ is then. *)
TurnRequest(c) ==
    /\ connected_vm_id_[c] # NoVm
    /\ Message(c, Task("turn", c, NoVm))

EndTurn(c) ==
    /\ connected_vm_id_[c] # NoVm
    /\ Message(c, Task("end", c, connected_vm_id_[c]))

Disconnect(c) ==
    LET v == connected_vm_id_[c] IN
    /\ ~crashed
    /\ open[c]
    /\ open' = [open EXCEPT ![c] = FALSE]
    /\ tasks' = IF v = NoVm THEN tasks ELSE Push(tasks, VmList, Task("leave", c, v))
    /\ rejoined' = [rejoined EXCEPT ![c] = @ \/ \E w \in Vms : Pending(Task("join", c, w))]
    /\ hasty' = (hasty \/ QueuedElsewhere(c, v))
    /\ UNCHANGED <<sent, connected_vm_id_, users_, turnVars>>

-----------------------------------------------------------------------------
(* Tasks of virtual_machines_: the machine is found and passed the task. *)
GetAdminVirtualMachine(c) ==
    \E do \in {"join", "leave", "end"}, v \in Vms :
        /\ IsNext(VmList, Task(do, c, v))
        /\ tasks' = Push(Popped(VmList), v, Task(do, c, v))
        /\ UNCHANGED <<open, sent, connected_vm_id_, users_, turnVars, hasty, rejoined>>

FindTurnRequest(c) ==
    /\ IsNext(VmList, Task("turn", c, NoVm))
    /\ tasks' = Push(Popped(VmList), connected_vm_id_[c],
                     Task("turn", c, connected_vm_id_[c]))
    /\ UNCHANGED <<open, sent, connected_vm_id_, users_, turnVars, hasty, rejoined>>

-----------------------------------------------------------------------------
(* TurnController of machine v. *)

(* UpdateCurrentTurn: the wait is for the first of q from now on, and left *)
(* as it is when there is nobody.                                          *)
Started(v, q) ==
    IF q = << >> THEN turn_timer_ ELSE [turn_timer_ EXCEPT ![v] = Head(q)]

(* Mutant of RemoveTurn: nobody behind moves up. *)
RemoveTurnOnly(v, c) ==
    LET p == turn_queue_position_[c]
        q == RemoveAt(turn_queue_[v], p + 1)
    IN
    IF p = nullopt \/ p >= Len(turn_queue_[v]) THEN UNCHANGED turnVars
    ELSE /\ turn_queue_' = [turn_queue_ EXCEPT ![v] = q]
         /\ turn_queue_position_' = [turn_queue_position_ EXCEPT ![c] = nullopt]
         /\ turn_timer_' = IF p = 0 THEN Started(v, q) ELSE turn_timer_
         /\ UNCHANGED crashed

(* RemoveUser: erase by the client's position, whatever is there. *)
RemoveTurn(v, c) ==
    LET p == turn_queue_position_[c]
        q == RemoveAt(turn_queue_[v], p + 1)
        behind == {q[i] : i \in (p + 1)..Len(q)}
    IN
    IF p = nullopt THEN UNCHANGED turnVars
    ELSE IF p >= Len(turn_queue_[v]) \/ \E d \in behind : turn_queue_position_[d] <= 0
    THEN /\ crashed' = TRUE
         /\ UNCHANGED <<turn_queue_position_, turn_queue_, turn_timer_>>
    ELSE /\ turn_queue_' = [turn_queue_ EXCEPT ![v] = q]
         /\ turn_queue_position_' =
                [d \in Clients |-> IF d = c THEN nullopt
                                   ELSE IF d \in behind THEN turn_queue_position_[d] - 1
                                   ELSE turn_queue_position_[d]]
         /\ turn_timer_' = IF p = 0 THEN Started(v, q) ELSE turn_timer_
         /\ UNCHANGED crashed

(* A machine other than v may still remove c from its queue: it is to be   *)
(* left, or its timer was set for c.                                       *)
Elsewhere(c, v) ==
    \E w \in Vms \ {v} : \/ c \in users_[w] \/ Pending(Task("leave", c, w))
                         \/ turn_timer_[w] = c \/ Pending(Task("expired", c, w))

RequestTurn(c, v) ==
    LET q == Append(turn_queue_[v], c) IN
    /\ IsNext(v, Task("turn", c, v))
    /\ tasks' = Popped(v)
    /\ IF turn_queue_position_[c] # nullopt
       THEN UNCHANGED <<turnVars, hasty>>
       ELSE /\ turn_queue_' = [turn_queue_ EXCEPT ![v] = q]
            /\ turn_queue_position_' = [turn_queue_position_ EXCEPT ![c] = Len(q) - 1]
            /\ turn_timer_' = IF Len(q) = 1 THEN Started(v, q) ELSE turn_timer_
            /\ hasty' = (hasty \/ Elsewhere(c, v))
            /\ UNCHANGED crashed
    /\ UNCHANGED <<open, sent, connected_vm_id_, users_, rejoined>>

(* The wait of turn_timer_ ends and its handler is queued ... *)
TurnExpires(v) ==
    LET c == turn_timer_[v] IN
    /\ ~crashed
    /\ c # NoClient
    /\ tasks' = Push(tasks, v, Task("expired", c, v))
    /\ turn_timer_' = [turn_timer_ EXCEPT ![v] = NoClient]
    /\ UNCHANGED <<open, sent, connected_vm_id_, users_, turn_queue_position_, turn_queue_,
                   crashed, hasty, rejoined>>

(* ... and runs. *)
TurnExpired(c, v) ==
    /\ IsNext(v, Task("expired", c, v))
    /\ tasks' = Popped(v)
    /\ RemoveTurn(v, c)
    /\ UNCHANGED <<open, sent, connected_vm_id_, users_, hasty, rejoined>>

(* EndCurrentTurn of a client that has it. *)
EndCurrentTurn(c, v) ==
    /\ IsNext(v, Task("end", c, v))
    /\ tasks' = Popped(v)
    /\ IF turn_queue_[v] # << >> /\ Head(turn_queue_[v]) = c
       THEN RemoveTurn(v, c)
       ELSE UNCHANGED turnVars
    /\ UNCHANGED <<open, sent, connected_vm_id_, users_, hasty, rejoined>>

-----------------------------------------------------------------------------
(* The channel of machine v.  Coming to it leaves the other one later. *)
Join(c, v) ==
    LET id == connected_vm_id_[c] IN
    /\ IsNext(v, Task("join", c, v))
    /\ tasks' = IF id = NoVm THEN Popped(v)
                ELSE Push(Popped(v), VmList, Task("leave", c, id))
    /\ connected_vm_id_' = [connected_vm_id_ EXCEPT ![c] = v]
    /\ users_' = [users_ EXCEPT ![v] = @ \cup {c}]
    /\ rejoined' = [rejoined EXCEPT ![c] = @ \/ id = v \/ c \in users_[v] \/ ~open[c]]
    /\ hasty' = (hasty \/ QueuedElsewhere(c, id))
    /\ UNCHANGED <<open, sent, turnVars>>

(* Coming to the machine it is in: dispatch runs at once if the strand of  *)
(* virtual_machines_ is free, and within the strand of v that is before    *)
(* the client is added.                                                    *)
Rejoin(c, v) ==
    /\ IsNext(v, Task("join", c, v))
    /\ connected_vm_id_[c] = v
    /\ tasks[VmList] = << >>
    /\ tasks' = Popped(v)
    /\ users_' = [users_ EXCEPT ![v] = @ \cup {c}]
    /\ IF c \in users_[v] THEN RemoveTurn(v, c) ELSE UNCHANGED turnVars
    /\ rejoined' = [rejoined EXCEPT ![c] = TRUE]
    /\ hasty' = (hasty \/ QueuedElsewhere(c, v))
    /\ UNCHANGED <<open, sent, connected_vm_id_>>

(* Mutant of Leave: the place in the queue is kept. *)
LeaveQueued(c, v) ==
    /\ IsNext(v, Task("leave", c, v))
    /\ tasks' = Popped(v)
    /\ users_' = [users_ EXCEPT ![v] = @ \ {c}]
    /\ UNCHANGED <<open, sent, connected_vm_id_, turnVars, hasty, rejoined>>

(* UserChannel::RemoveUser: OnRemoveUser takes a member out of the turn    *)
(* queue; somebody who is no member stays in it.                           *)
Leave(c, v) ==
    /\ IsNext(v, Task("leave", c, v))
    /\ tasks' = Popped(v)
    /\ users_' = [users_ EXCEPT ![v] = @ \ {c}]
    /\ IF c \in users_[v] THEN RemoveTurn(v, c) ELSE UNCHANGED turnVars
    /\ UNCHANGED <<open, sent, connected_vm_id_, hasty, rejoined>>

ClientNext(c) ==
    \/ \E v \in Vms : ConnectToChannel(c, v)
    \/ TurnRequest(c) \/ EndTurn(c) \/ Disconnect(c)

ListNext == \E c \in Clients : GetAdminVirtualMachine(c) \/ FindTurnRequest(c)

VmNext(v) ==
    \E c \in Clients : \/ RequestTurn(c, v) \/ TurnExpired(c, v) \/ EndCurrentTurn(c, v)
                       \/ Join(c, v) \/ Rejoin(c, v) \/ Leave(c, v)

ClientTurnsNext ==
    \/ \E c \in Clients : ClientNext(c)
    \/ ListNext
    \/ \E v \in Vms : VmNext(v) \/ TurnExpires(v)

ClientTurnsSpec == ClientTurnsInit /\ [][ClientTurnsNext]_clientTurnsVars
-----------------------------------------------------------------------------
ClientTurnsTypeOK ==
    /\ tasks \in [Strands -> Seq(Tasks)]
    /\ open \in [Clients -> BOOLEAN]
    /\ sent \in 0..MaxMessages
    /\ connected_vm_id_ \in [Clients -> Vms \cup {NoVm}]
    /\ turn_queue_position_ \in [Clients -> Nat \cup {nullopt}]
    /\ users_ \in [Vms -> SUBSET Clients]
    /\ turn_queue_ \in [Vms -> Seq(Clients)]
    /\ turn_timer_ \in [Vms -> Clients \cup {NoClient}]
    /\ {crashed, hasty} \subseteq BOOLEAN
    /\ rejoined \in [Clients -> BOOLEAN]

(* The places of c are machine v, index p + 1, and no other. *)
OnlyPlace(c, v, p) ==
    /\ p < Len(turn_queue_[v])
    /\ \A w \in Vms : \A i \in 1..Len(turn_queue_[w]) :
          turn_queue_[w][i] = c <=> w = v /\ i = p + 1

(* The one position of a client serves all machines as long as nobody is   *)
(* queued while another machine may still remove it: each client is queued *)
(* at most once over all machines, its position says where, and no erase   *)
(* goes past an end.                                                       *)
OnePlaceUnlessHasty ==
    ~hasty =>
        /\ ~crashed
        /\ \A c \in Clients :
              IF turn_queue_position_[c] = nullopt
              THEN \A v \in Vms : ~Contains(turn_queue_[v], c)
              ELSE \E v \in Vms : OnlyPlace(c, v, turn_queue_position_[c])

(* Whoever waits for a turn is in the channel of that machine, so that it  *)
(* sees the queue and leaves it when it goes; unless it came again to the  *)
(* machine it was in, or disconnected on its way to one.                   *)
QueuedAreMembersUnlessRejoined ==
    ~hasty => \A v \in Vms : \A i \in 1..Len(turn_queue_[v]) :
                 rejoined[turn_queue_[v][i]] \/ turn_queue_[v][i] \in users_[v]

(* Whoever has the turn is timed, also one that left without giving up its *)
(* place: no queue is blocked.                                             *)
CurrentTurnIsTimed ==
    ~hasty => \A v \in Vms : turn_queue_[v] # << >> =>
                 LET c == Head(turn_queue_[v]) IN
                 turn_timer_[v] = c \/ Pending(Task("expired", c, v))

(* The invariant of the turn queues of all machines. *)
ClientTurnsInv == ClientTurnsTypeOK /\ OnePlaceUnlessHasty /\ CurrentTurnIsTimed

(* TurnController::RemoveUser, "Remove the user and update the queue       *)
(* position for all users behind them": nobody else is removed.            *)
NobodyElseIsRemoved ==
    [][\A c \in Clients, v \in Vms :
         LET Others(q) == SelectSeq(q, LAMBDA d : d # c) IN
         Leave(c, v) \/ TurnExpired(c, v) =>
             Others(turn_queue_'[v]) = Others(turn_queue_[v])]_clientTurnsVars
=============================================================================
