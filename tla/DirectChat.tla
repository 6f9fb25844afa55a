----------------------------- MODULE DirectChat -----------------------------
(***************************************************************************)
(* Direct chats: CHAT_MESSAGE to a new direct destination in               *)
(* src/CollabVmServer.hpp.  Every client has a table chat_rooms_, on a     *)
(* strand of its own, from the id of a room to the client it leads to and  *)
(* the id of that client's room (0 while not known).                       *)
(*                                                                         *)
(* To open a chat the sender makes a room, visits the table of the         *)
(* recipient to make one there, and comes back with its id.  The strands   *)
(* are queues; other requests, of the sender, of the recipient or of a     *)
(* third client, come between any two of the three steps.                  *)
(*                                                                         *)
(* A DIRECT message reads a room and changes nothing; it is left out, like *)
(* the pause of a client between two messages.                             *)
(***************************************************************************)
EXTENDS Integers, Sequences, FiniteSets, Functions

CONSTANTS
    Clients,
    MaxRooms,    \* 10: rooms in one table
    MaxRequests  \* bound: requests of one client

ASSUME ChatConstants == {MaxRooms, MaxRequests} \subseteq Nat

VARIABLES
    guests_,         \* clients that can be found by their name
    chat_rooms_,     \* client -> (id -> [first : Clients, second : id or 0])
    chat_rooms_id_,  \* client -> the next id
    tasks,           \* the queue of each client's strand
    asked,           \* number of requests of each client
    unanswered,      \* requests that have not been answered
    opened           \* history: who made a room that leads to whom

vars == <<guests_, chat_rooms_, chat_rooms_id_, tasks, asked, unanswered, opened>>

Init ==
    /\ guests_ = Clients
    /\ chat_rooms_ = [c \in Clients |-> << >>]
    /\ chat_rooms_id_ = [c \in Clients |-> 1]
    /\ tasks = [c \in Clients |-> << >>]
    /\ asked = [c \in Clients |-> 0]
    /\ unanswered = {}
    /\ opened = {}

Room(first, second) == [first |-> first, second |-> second]

(* Mutant of RoomsTo: a room that waits for its other end is taken too,    *)
(* whoever it leads to.                                                    *)
RoomsToOrWaiting(c, d) ==
    {id \in DOMAIN chat_rooms_[c] : chat_rooms_[c][id].first = d \/ chat_rooms_[c][id].second = 0}

(* The rooms of client c that lead to d. *)
RoomsTo(c, d) == {id \in DOMAIN chat_rooms_[c] : chat_rooms_[c][id].first = d}

IsFull(c) == Cardinality(DOMAIN chat_rooms_[c]) >= MaxRooms

(* chat_rooms.emplace and the assignment of second. *)
WithRoom(c, id, room) ==
    [chat_rooms_ EXCEPT ![c] = [k \in DOMAIN @ \cup {id} |-> IF k = id THEN room ELSE @[k]]]

IsNext(c, do) == tasks[c] # << >> /\ Head(tasks[c]).do = do
Popped(c) == [tasks EXCEPT ![c] = Tail(@)]
Pushed(q, c, task) == [q EXCEPT ![c] = Append(@, task)]

(* SendChatMessageResponse and SendChatChannelId *)
Answer(request) == unanswered' = unanswered \ {request}

-----------------------------------------------------------------------------
(* A request to chat with d, looked up among the guests. *)
NewDirect(c, d) ==
    LET request == [from |-> c, to |-> d, n |-> asked[c] + 1] IN
    /\ asked[c] < MaxRequests
    /\ asked' = [asked EXCEPT ![c] = @ + 1]
    /\ IF d \in guests_
       THEN /\ unanswered' = unanswered \cup {request}
            /\ tasks' = Pushed(tasks, c, [do |-> "open", request |-> request])
       ELSE UNCHANGED <<unanswered, tasks>>
    /\ UNCHANGED <<guests_, chat_rooms_, chat_rooms_id_, opened>>

(* OnDisconnect takes the name from guests_; the rooms stay. *)
Disconnect(c) ==
    /\ c \in guests_
    /\ guests_' = guests_ \ {c}
    /\ UNCHANGED <<chat_rooms_, chat_rooms_id_, tasks, asked, unanswered, opened>>

(* On the sender's strand: too many rooms, or one that leads to d already. *)
OpenRefused(c) ==
    LET request == Head(tasks[c]).request IN
    /\ IsNext(c, "open")
    /\ IsFull(c) \/ RoomsTo(c, request.to) # {}
    /\ tasks' = Popped(c)
    /\ Answer(request)
    /\ UNCHANGED <<guests_, chat_rooms_, chat_rooms_id_, asked, opened>>

(* Mutant of MayOpen: the limit allows one room more. *)
MayOpenOneMore(c, d) ==
    Cardinality(DOMAIN chat_rooms_[c]) <= MaxRooms /\ RoomsTo(c, d) = {}

MayOpen(c, d) == ~IsFull(c) /\ RoomsTo(c, d) = {}

(* A room is made and the recipient's table visited. *)
OpenRoom(c) ==
    LET request == Head(tasks[c]).request
        id == chat_rooms_id_[c]
    IN
    /\ IsNext(c, "open")
    /\ request.to # c
    /\ MayOpen(c, request.to)
    /\ chat_rooms_id_' = [chat_rooms_id_ EXCEPT ![c] = id + 1]
    /\ chat_rooms_' = WithRoom(c, id, Room(request.to, 0))
    /\ tasks' = Pushed(Popped(c), request.to,
                       [do |-> "visit", request |-> request, sender_id |-> id])
    /\ opened' = opened \cup {<<c, request.to>>}
    /\ UNCHANGED <<guests_, asked, unanswered>>

(* A client that writes to itself is on the recipient's strand already and *)
(* finds the room it has just made.                                        *)
OpenRoomToSelf(c) ==
    LET id == chat_rooms_id_[c] IN
    /\ IsNext(c, "open")
    /\ Head(tasks[c]).request.to = c
    /\ MayOpen(c, c)
    /\ chat_rooms_id_' = [chat_rooms_id_ EXCEPT ![c] = id + 1]
    /\ chat_rooms_' = WithRoom(c, id, Room(c, id))
    /\ tasks' = Popped(c)
    /\ opened' = opened \cup {<<c, c>>}
    /\ UNCHANGED <<guests_, asked, unanswered>>

-----------------------------------------------------------------------------
(* On the strand of the recipient d.  A room that leads to the sender and  *)
(* does not know the other id yet learns it, and nobody is told.           *)
VisitMeets(d, id) ==
    LET task == Head(tasks[d]) IN
    /\ IsNext(d, "visit")
    /\ id \in RoomsTo(d, task.request.from)
    /\ chat_rooms_[d][id].second = 0
    /\ chat_rooms_' = [chat_rooms_ EXCEPT ![d][id].second = task.sender_id]
    /\ tasks' = Popped(d)
    /\ UNCHANGED <<guests_, chat_rooms_id_, asked, unanswered, opened>>

(* The room knows an id already: the sender is told its own id. *)
VisitFinds(d, id) ==
    LET task == Head(tasks[d]) IN
    /\ IsNext(d, "visit")
    /\ id \in RoomsTo(d, task.request.from)
    /\ chat_rooms_[d][id].second # 0
    /\ tasks' = Popped(d)
    /\ Answer(task.request)
    /\ UNCHANGED <<guests_, chat_rooms_, chat_rooms_id_, asked, opened>>

VisitFull(d) ==
    LET task == Head(tasks[d]) IN
    /\ IsNext(d, "visit")
    /\ RoomsTo(d, task.request.from) = {}
    /\ IsFull(d)
    /\ tasks' = Pushed(Popped(d), task.request.from, [task EXCEPT !.do = "erase"])
    /\ UNCHANGED <<guests_, chat_rooms_, chat_rooms_id_, asked, unanswered, opened>>

(* The recipient gets a room.  Its first is the recipient itself, not the  *)
(* sender: what the recipient writes there comes back to it, and no visit  *)
(* of the sender finds it.                                                 *)
VisitMakesRoom(d) ==
    LET task == Head(tasks[d])
        id == chat_rooms_id_[d]
    IN
    /\ IsNext(d, "visit")
    /\ RoomsTo(d, task.request.from) = {}
    /\ ~IsFull(d)
    /\ chat_rooms_id_' = [chat_rooms_id_ EXCEPT ![d] = id + 1]
    /\ chat_rooms_' = WithRoom(d, id, Room(d, task.sender_id))
    /\ tasks' = Pushed(Popped(d), task.request.from,
                       [do |-> "confirm", request |-> task.request,
                        sender_id |-> task.sender_id, recipient_id |-> id])
    /\ UNCHANGED <<guests_, asked, unanswered, opened>>

-----------------------------------------------------------------------------
(* Mutant of EraseRoom: the sender is not told. *)
EraseRoomSilently(c) ==
    LET task == Head(tasks[c]) IN
    /\ IsNext(c, "erase")
    /\ chat_rooms_' = [chat_rooms_ EXCEPT ![c] =
                          Restrict(@, DOMAIN @ \ {task.sender_id})]
    /\ tasks' = Popped(c)
    /\ UNCHANGED <<guests_, chat_rooms_id_, asked, unanswered, opened>>

(* Back on the sender's strand. *)
EraseRoom(c) ==
    LET task == Head(tasks[c]) IN
    /\ IsNext(c, "erase")
    /\ chat_rooms_' = [chat_rooms_ EXCEPT ![c] =
                          Restrict(@, DOMAIN @ \ {task.sender_id})]
    /\ tasks' = Popped(c)
    /\ Answer(task.request)
    /\ UNCHANGED <<guests_, chat_rooms_id_, asked, opened>>

MayConfirm(c, id) == id \in DOMAIN chat_rooms_[c] /\ chat_rooms_[c][id].second = 0

(* The sender learns the recipient's id and both are told of the chat,     *)
(* unless the room has met a visit of the recipient: then nobody is.       *)
Confirm(c) ==
    LET task == Head(tasks[c]) IN
    /\ IsNext(c, "confirm")
    /\ tasks' = Popped(c)
    /\ IF MayConfirm(c, task.sender_id)
       THEN /\ chat_rooms_' =
                   [chat_rooms_ EXCEPT ![c][task.sender_id].second = task.recipient_id]
            /\ Answer(task.request)
       ELSE UNCHANGED <<chat_rooms_, unanswered>>
    /\ UNCHANGED <<guests_, chat_rooms_id_, asked, opened>>

Task(c) ==
    \/ OpenRefused(c) \/ OpenRoom(c) \/ OpenRoomToSelf(c)
    \/ \E id \in DOMAIN chat_rooms_[c] : VisitMeets(c, id) \/ VisitFinds(c, id)
    \/ VisitFull(c) \/ VisitMakesRoom(c)
    \/ EraseRoom(c) \/ Confirm(c)

Next ==
    \E c \in Clients :
        \/ \E d \in Clients : NewDirect(c, d)
        \/ Disconnect(c)
        \/ Task(c)

Spec == Init /\ [][Next]_vars
-----------------------------------------------------------------------------
TypeOK ==
    /\ guests_ \subseteq Clients
    /\ chat_rooms_id_ \in [Clients -> Nat \ {0}]
    /\ \A c \in Clients : \A id \in DOMAIN chat_rooms_[c] :
           /\ id \in 1..(chat_rooms_id_[c] - 1)
           /\ chat_rooms_[c][id] \in [first : Clients, second : Nat]
    /\ asked \in [Clients -> 0..MaxRequests]
    /\ unanswered \subseteq [from : Clients, to : Clients, n : 1..MaxRequests]
    /\ opened \subseteq Clients \X Clients

(* No table outgrows its limit, though it is filled from two strands'      *)
(* requests, and no client has two rooms that lead to one other client.    *)
ChatInv ==
    /\ TypeOK
    /\ \A c \in Clients :
        /\ Cardinality(DOMAIN chat_rooms_[c]) <= MaxRooms
        /\ \A d \in Clients \ {c} : Cardinality(RoomsTo(c, d)) <= 1

(* A room that knows the room at the other end knows one that is there,    *)
(* and that one belongs to the same pair: it was made for this chat, or    *)
(* leads back.  No order of requests links the rooms of three clients.     *)
EndsBelongTogether ==
    \A c \in Clients : \A id \in DOMAIN chat_rooms_[c] :
        LET room == chat_rooms_[c][id]
            end == chat_rooms_[room.first]
        IN
        room.first # c /\ room.second # 0 =>
            /\ room.second \in DOMAIN end
            /\ end[room.second] = Room(room.first, id) \/ end[room.second].first = c

(* The request is on its way through the strands. *)
UnderWay(request) ==
    \E c \in Clients : \E i \in 1..Len(tasks[c]) : tasks[c][i].request = request

(* The only requests that are never answered are those to oneself and      *)
(* those that crossed one in the other direction.                          *)
LostOnlyIfCrossed ==
    \A request \in unanswered :
        \/ UnderWay(request)
        \/ request.from = request.to
        \/ <<request.to, request.from>> \in opened

(* Every request is answered. *)
AllAnswered == \A request \in unanswered : UnderWay(request)

(* What the recipient writes in its room goes to the sender. *)
RoomsLeadBack ==
    \A c \in Clients : \A id \in RoomsTo(c, c) : <<c, c>> \in opened
=============================================================================
