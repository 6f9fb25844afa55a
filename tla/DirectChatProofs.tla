-------------------------- MODULE DirectChatProofs --------------------------
(***************************************************************************)
(* Proofs about DirectChat for any clients, limits and interleaving of the *)
(* strands: the tables stay within their limits, the two ends of a chat    *)
(* belong together, and an answer is only lost to a request that crossed.  *)
(***************************************************************************)
EXTENDS DirectChat, SequenceTheorems, FiniteSetTheorems, TLAPS

Requests == [from : Clients, to : Clients, n : 1..MaxRequests]
Rooms == [first : Clients, second : Nat]

OpenTasks == [do : {"open"}, request : Requests]
VisitTasks == [do : {"visit", "erase"}, request : Requests, sender_id : Nat]
ConfirmTasks == [do : {"confirm"}, request : Requests, sender_id : Nat, recipient_id : Nat]
Tasks == OpenTasks \cup VisitTasks \cup ConfirmTasks

(* The table of every client. *)
TablesInv ==
    /\ DOMAIN chat_rooms_ = Clients
    /\ chat_rooms_id_ \in [Clients -> Nat \ {0}]
    /\ \A c \in Clients :
        /\ DOMAIN chat_rooms_[c] \subseteq 1..(chat_rooms_id_[c] - 1)
        /\ \A k \in DOMAIN chat_rooms_[c] : chat_rooms_[c][k] \in Rooms
        /\ Cardinality(DOMAIN chat_rooms_[c]) <= MaxRooms
        /\ \A k, l \in DOMAIN chat_rooms_[c] :
               chat_rooms_[c][k].first = chat_rooms_[c][l].first
               /\ chat_rooms_[c][k].first # c => k = l

(* A task runs on the strand of the recipient if it visits, otherwise on   *)
(* that of the sender.                                                     *)
Strand(t) == IF t.do = "visit" THEN t.request.to ELSE t.request.from

InPlace(q) ==
    /\ q \in [Clients -> Seq(Tasks)]
    /\ \A e \in Clients : \A i \in 1..Len(q[e]) : Strand(q[e][i]) = e

TasksOf(q) == {t \in Tasks : \E e \in Clients : \E i \in 1..Len(q[e]) : q[e][i] = t}

AllTasks == TasksOf(tasks)

(* A task that goes on with the chat of a room, and that the room is the   *)
(* same.                                                                   *)
IsToken(t) == t.do # "open"
SameRoom(s, t) == s.request.from = t.request.from /\ s.sender_id = t.sender_id

(* There is at most one such task for a room ... *)
TokensDiffer(q) ==
    \A e, f \in Clients : \A i \in 1..Len(q[e]), j \in 1..Len(q[f]) :
        /\ IsToken(q[e][i]) /\ IsToken(q[f][j])
        /\ SameRoom(q[e][i], q[f][j])
        => e = f /\ i = j

(* ... and the room is in the table of the sender and leads to the         *)
(* recipient.                                                              *)
TokensHaveRooms ==
    \A t \in AllTasks : IsToken(t) =>
        /\ t.request.to # t.request.from
        /\ t.sender_id \in DOMAIN chat_rooms_[t.request.from]
        /\ chat_rooms_[t.request.from][t.sender_id].first = t.request.to

(* The recipient's room is there when the sender is told of it. *)
ConfirmedRoomsExist ==
    \A t \in AllTasks : t.do = "confirm" =>
        /\ t.recipient_id \in DOMAIN chat_rooms_[t.request.to]
        /\ chat_rooms_[t.request.to][t.recipient_id] = Room(t.request.to, t.sender_id)

(* No task is left that goes on with room id of client c. *)
IsSettled(c, id) ==
    \A t \in AllTasks : ~(IsToken(t) /\ t.request.from = c /\ t.sender_id = id)

(* The room at the other end stays: it was made by a visit, or its own     *)
(* visit has been.                                                         *)
EndStays(c, id) ==
    LET room == chat_rooms_[c][id]
        end == chat_rooms_[room.first]
    IN
    room.first # c /\ room.second # 0 =>
        /\ room.second \in DOMAIN end
        /\ \/ end[room.second] = Room(room.first, id)
           \/ end[room.second].first = c /\ IsSettled(room.first, room.second)

EndsStay ==
    \A c \in Clients : \A id \in DOMAIN chat_rooms_[c] : EndStays(c, id)

(* Rooms that lead to others were opened ... *)
RoomsWereOpened ==
    \A c \in Clients : \A id \in DOMAIN chat_rooms_[c] :
        chat_rooms_[c][id].first # c => <<c, chat_rooms_[c][id].first>> \in opened

(* ... and one that met a visit before its own was done was crossed.       *)
MetRoomsWereCrossed ==
    \A t \in AllTasks :
        IsToken(t) /\ chat_rooms_[t.request.from][t.sender_id].second # 0 =>
            <<t.request.to, t.request.from>> \in opened

(* All of this relates the tables to the tasks. *)
ChatsInv ==
    /\ TokensHaveRooms
    /\ ConfirmedRoomsExist
    /\ EndsStay
    /\ RoomsWereOpened
    /\ MetRoomsWereCrossed

RequestsAreTyped ==
    /\ guests_ \subseteq Clients
    /\ asked \in [Clients -> 0..MaxRequests]
    /\ unanswered \subseteq Requests
    /\ opened \subseteq Clients \X Clients

RoomsInv ==
    /\ RequestsAreTyped
    /\ TablesInv
    /\ InPlace(tasks)
    /\ TokensDiffer(tasks)
    /\ ChatsInv
    /\ LostOnlyIfCrossed

-----------------------------------------------------------------------------
(* Tasks by their kind. *)
LEMMA TaskFields ==
    ASSUME NEW t \in Tasks
    PROVE  /\ t.do \in {"open", "visit", "erase", "confirm"}
           /\ t.request \in Requests
           /\ t.request.from \in Clients /\ t.request.to \in Clients
           /\ IsToken(t) => t.sender_id \in Nat
           /\ t.do = "confirm" => t.recipient_id \in Nat
           /\ t.do = "visit" => t \in VisitTasks
  BY DEF Tasks, OpenTasks, VisitTasks, ConfirmTasks, Requests, IsToken

(* The queues after the first task of c has been taken. *)
LEMMA PoppedQueues ==
    ASSUME InPlace(tasks), NEW c \in Clients, tasks[c] # << >>
    PROVE  /\ Popped(c) \in [Clients -> Seq(Tasks)]
           /\ \A e \in Clients \ {c} : Popped(c)[e] = tasks[e]
           /\ Len(tasks[c]) \in Nat /\ Len(tasks[c]) > 0
           /\ Len(Popped(c)[c]) = Len(tasks[c]) - 1
           /\ \A i \in 1..(Len(tasks[c]) - 1) : Popped(c)[c][i] = tasks[c][i + 1]
           /\ Head(tasks[c]) = tasks[c][1]
           /\ Head(tasks[c]) \in AllTasks
<1>1. tasks[c] \in Seq(Tasks)
  BY DEF InPlace
<1>2. /\ Tail(tasks[c]) \in Seq(Tasks) /\ Len(Tail(tasks[c])) = Len(tasks[c]) - 1
      /\ \A i \in 1..Len(Tail(tasks[c])) : Tail(tasks[c])[i] = tasks[c][i + 1]
      /\ Head(tasks[c]) \in Tasks
  BY <1>1, HeadTailProperties
<1>3. Len(tasks[c]) \in Nat /\ Len(tasks[c]) > 0
  BY <1>1, EmptySeq, LenProperties
<1>4. Popped(c)[c] = Tail(tasks[c]) /\ Popped(c) \in [Clients -> Seq(Tasks)]
      /\ \A e \in Clients \ {c} : Popped(c)[e] = tasks[e]
  BY <1>2 DEF Popped, InPlace
<1>5. Head(tasks[c]) = tasks[c][1]
  BY <1>1
<1>6. Head(tasks[c]) \in AllTasks
  BY <1>2, <1>3, <1>5 DEF AllTasks, TasksOf
<1> QED
  BY <1>2, <1>3, <1>4, <1>5, <1>6

(* The queues after a task has been added to that of d. *)
LEMMA PushedQueues ==
    ASSUME NEW q \in [Clients -> Seq(Tasks)], NEW d \in Clients, NEW t \in Tasks
    PROVE  /\ Pushed(q, d, t) \in [Clients -> Seq(Tasks)]
           /\ \A e \in Clients \ {d} : Pushed(q, d, t)[e] = q[e]
           /\ Len(q[d]) \in Nat
           /\ Len(Pushed(q, d, t)[d]) = Len(q[d]) + 1
           /\ \A i \in 1..Len(q[d]) : Pushed(q, d, t)[d][i] = q[d][i]
           /\ Pushed(q, d, t)[d][Len(q[d]) + 1] = t
<1>1. q[d] \in Seq(Tasks)
  OBVIOUS
<1>2. /\ Append(q[d], t) \in Seq(Tasks) /\ Len(Append(q[d], t)) = Len(q[d]) + 1
      /\ \A i \in 1..Len(q[d]) : Append(q[d], t)[i] = q[d][i]
      /\ Append(q[d], t)[Len(q[d]) + 1] = t
  BY <1>1, AppendProperties
<1>3. Len(q[d]) \in Nat
  BY <1>1, LenProperties
<1>4. Pushed(q, d, t)[d] = Append(q[d], t) /\ Pushed(q, d, t) \in [Clients -> Seq(Tasks)]
      /\ \A e \in Clients \ {d} : Pushed(q, d, t)[e] = q[e]
  BY <1>2 DEF Pushed
<1> QED
  BY <1>2, <1>3, <1>4

(* A step that takes the first task of c. *)
LEMMA Popping ==
    ASSUME InPlace(tasks), TokensDiffer(tasks), NEW c \in Clients, tasks[c] # << >>,
           NEW q, q = Popped(c)
    PROVE  /\ InPlace(q) /\ TokensDiffer(q)
           /\ TasksOf(q) \subseteq AllTasks
           /\ AllTasks \subseteq TasksOf(q) \cup {Head(tasks[c])}
           /\ IsToken(Head(tasks[c])) =>
                \A t \in TasksOf(q) : IsToken(t) => ~SameRoom(t, Head(tasks[c]))
<1> DEFINE Old(e, i) == IF e = c THEN i + 1 ELSE i
<1>1. ASSUME NEW e \in Clients, NEW i \in 1..Len(q[e])
      PROVE  /\ Old(e, i) \in 1..Len(tasks[e])
             /\ q[e][i] = tasks[e][Old(e, i)]
             /\ ~(e = c /\ Old(e, i) = 1)
  BY PoppedQueues
<1> HIDE DEF Old
<1>2. InPlace(q)
  <2>1. ASSUME NEW e \in Clients, NEW i \in 1..Len(q[e])
        PROVE  Strand(q[e][i]) = e
    <3>1. Old(e, i) \in 1..Len(tasks[e]) /\ q[e][i] = tasks[e][Old(e, i)]
      BY <1>1
    <3>2. PICK k \in 1..Len(tasks[e]) : q[e][i] = tasks[e][k]
      BY <3>1
    <3> QED
      BY <3>2 DEF InPlace
  <2>2. q \in [Clients -> Seq(Tasks)]
    BY PoppedQueues
  <2> QED
    BY <2>1, <2>2 DEF InPlace
<1>3. TokensDiffer(q)
  <2> SUFFICES ASSUME NEW e \in Clients, NEW f \in Clients,
                      NEW i \in 1..Len(q[e]), NEW j \in 1..Len(q[f]),
                      IsToken(q[e][i]), IsToken(q[f][j]),
                      SameRoom(q[e][i], q[f][j])
               PROVE  e = f /\ i = j
    BY DEF TokensDiffer
  <2>1. PICK k \in 1..Len(tasks[e]) : k = Old(e, i) /\ q[e][i] = tasks[e][k]
    BY <1>1
  <2>2. PICK l \in 1..Len(tasks[f]) : l = Old(f, j) /\ q[f][j] = tasks[f][l]
    BY <1>1
  <2>3. e = f /\ k = l
    BY <2>1, <2>2 DEF TokensDiffer
  <2> QED
    BY <2>1, <2>2, <2>3 DEF Old
<1>4. TasksOf(q) \subseteq AllTasks
  BY <1>1 DEF AllTasks, TasksOf
<1>5. AllTasks \subseteq TasksOf(q) \cup {Head(tasks[c])}
  <2> SUFFICES ASSUME NEW t \in Tasks, NEW e \in Clients, NEW i \in 1..Len(tasks[e]),
                      tasks[e][i] = t, t # Head(tasks[c])
               PROVE  t \in TasksOf(q)
    BY DEF AllTasks, TasksOf
  <2>1. CASE e # c
    BY <2>1, PoppedQueues DEF AllTasks, TasksOf
  <2>2. CASE e = c
    <3>1. i # 1 /\ i - 1 \in 1..(Len(tasks[c]) - 1)
      BY <2>2, PoppedQueues
    <3>2. q[c][i - 1] = t
      BY <2>2, <3>1, PoppedQueues
    <3> QED
      BY <3>1, <3>2, PoppedQueues DEF AllTasks, TasksOf
  <2> QED
    BY <2>1, <2>2
<1>6. ASSUME IsToken(Head(tasks[c])), NEW t \in TasksOf(q), IsToken(t),
             SameRoom(t, Head(tasks[c]))
      PROVE  FALSE
  <2>1. PICK e \in Clients : \E i \in 1..Len(q[e]) : q[e][i] = t
    BY DEF AllTasks, TasksOf
  <2>2. PICK i \in 1..Len(q[e]) : q[e][i] = t
    BY <2>1
  <2>3. 1 \in 1..Len(tasks[c]) /\ Head(tasks[c]) = tasks[c][1]
    BY PoppedQueues
  <2>4. e = c /\ Old(e, i) = 1
    <3>1. PICK k \in 1..Len(tasks[e]) : k = Old(e, i) /\ tasks[e][k] = t
      BY <1>1, <2>2
    <3>2. e = c /\ k = 1
      BY <1>6, <2>3, <3>1 DEF TokensDiffer
    <3> QED
      BY <3>1, <3>2
  <2> QED
    BY <1>1, <2>4
<1> QED
  BY <1>2, <1>3, <1>4, <1>5, <1>6

(* A step that adds a task to the queue of d, the only one for its room.   *)
LEMMA Pushing ==
    ASSUME NEW q, InPlace(q), TokensDiffer(q), NEW d \in Clients, NEW t \in Tasks, Strand(t) = d,
           IsToken(t) => \A s \in TasksOf(q) : IsToken(s) => ~SameRoom(s, t) /\ ~SameRoom(t, s),
           NEW p, p = Pushed(q, d, t)
    PROVE  InPlace(p) /\ TokensDiffer(p) /\ TasksOf(p) = TasksOf(q) \cup {t}
<1>0. q \in [Clients -> Seq(Tasks)]
  BY DEF InPlace
<1> DEFINE last == Len(q[d]) + 1
<1>1. /\ p \in [Clients -> Seq(Tasks)]
      /\ \A e \in Clients \ {d} : p[e] = q[e]
      /\ Len(q[d]) \in Nat /\ Len(p[d]) = last
      /\ \A i \in 1..Len(q[d]) : p[d][i] = q[d][i]
      /\ p[d][last] = t
  BY <1>0, PushedQueues
<1>2. ASSUME NEW e \in Clients, NEW i \in 1..Len(p[e]), ~(e = d /\ i = last)
      PROVE  i \in 1..Len(q[e]) /\ p[e][i] = q[e][i] /\ q[e][i] \in TasksOf(q)
  <2>1. i \in 1..Len(q[e]) /\ p[e][i] = q[e][i]
    BY <1>1, <1>2
  <2> QED
    BY <1>0, <2>1, ElementOfSeq DEF TasksOf
<1>3. InPlace(p)
  <2>1. ASSUME NEW e \in Clients, NEW i \in 1..Len(p[e])
        PROVE  Strand(p[e][i]) = e
    <3>1. CASE e = d /\ i = last
      BY <1>1, <3>1
    <3>2. CASE ~(e = d /\ i = last)
      <4>1. i \in 1..Len(q[e]) /\ p[e][i] = q[e][i]
        BY <1>2, <3>2
      <4> QED
        BY <4>1 DEF InPlace
    <3> QED
      BY <3>1, <3>2
  <2> QED
    BY <1>1, <2>1 DEF InPlace
<1>4. TokensDiffer(p)
  <2> SUFFICES ASSUME NEW e \in Clients, NEW f \in Clients,
                      NEW i \in 1..Len(p[e]), NEW j \in 1..Len(p[f]),
                      IsToken(p[e][i]), IsToken(p[f][j]),
                      SameRoom(p[e][i], p[f][j])
               PROVE  e = f /\ i = j
    BY DEF TokensDiffer
  <2>1. CASE ~(e = d /\ i = last) /\ ~(f = d /\ j = last)
    BY <1>2, <2>1 DEF TokensDiffer
  <2>2. CASE e = d /\ i = last /\ ~(f = d /\ j = last)
    BY <1>1, <1>2, <2>2
  <2>3. CASE f = d /\ j = last /\ ~(e = d /\ i = last)
    BY <1>1, <1>2, <2>3
  <2> QED
    BY <2>1, <2>2, <2>3
<1>5. TasksOf(p) \subseteq TasksOf(q) \cup {t}
  <2> SUFFICES ASSUME NEW s \in Tasks, NEW e \in Clients, NEW i \in 1..Len(p[e]),
                      p[e][i] = s, s # t
               PROVE  s \in TasksOf(q)
    BY DEF TasksOf
  <2> QED
    BY <1>1, <1>2
<1>6. TasksOf(q) \subseteq TasksOf(p)
  <2> SUFFICES ASSUME NEW s \in Tasks, NEW e \in Clients, NEW i \in 1..Len(q[e]),
                      q[e][i] = s
               PROVE  s \in TasksOf(p)
    BY DEF TasksOf
  <2> QED
    BY <1>1 DEF TasksOf
<1>7. t \in TasksOf(p)
  BY <1>1 DEF TasksOf
<1> QED
  BY <1>3, <1>4, <1>5, <1>6, <1>7

(* A step that takes the first task of c and adds another one. *)
LEMMA Forwarding ==
    ASSUME InPlace(tasks), TokensDiffer(tasks), NEW c \in Clients, tasks[c] # << >>,
           NEW d \in Clients, NEW t \in Tasks, Strand(t) = d,
           IsToken(t) =>
               \A s \in TasksOf(Popped(c)) : IsToken(s) => ~SameRoom(s, t) /\ ~SameRoom(t, s),
           tasks' = Pushed(Popped(c), d, t)
    PROVE  /\ InPlace(tasks)' /\ TokensDiffer(tasks)'
           /\ AllTasks' = TasksOf(Popped(c)) \cup {t}
<1>1. PICK q : q = Popped(c)
  OBVIOUS
<1>2. InPlace(q) /\ TokensDiffer(q)
  BY <1>1, Popping
<1>3. PICK p : p = Pushed(q, d, t)
  OBVIOUS
<1>4. InPlace(p) /\ TokensDiffer(p) /\ TasksOf(p) = TasksOf(q) \cup {t}
  BY <1>1, <1>2, <1>3, Pushing
<1> QED
  BY <1>1, <1>3, <1>4 DEF AllTasks

(* A step that only takes the first task of c. *)
LEMMA Taking ==
    ASSUME InPlace(tasks), TokensDiffer(tasks), NEW c \in Clients, tasks[c] # << >>,
           tasks' = Popped(c)
    PROVE  InPlace(tasks)' /\ TokensDiffer(tasks)' /\ AllTasks' = TasksOf(Popped(c))
<1>1. PICK q : q = Popped(c)
  OBVIOUS
<1>2. InPlace(q) /\ TokensDiffer(q)
  BY <1>1, Popping
<1> QED
  BY <1>1, <1>2 DEF AllTasks

(* What is left when the first task h of c has been taken. *)
LEMMA TheRest ==
    ASSUME InPlace(tasks), TokensDiffer(tasks), NEW c \in Clients, tasks[c] # << >>,
           NEW h, h = Head(tasks[c])
    PROVE  /\ h \in AllTasks /\ h \in Tasks /\ Strand(h) = c
           /\ TasksOf(Popped(c)) \subseteq AllTasks
           /\ AllTasks \subseteq TasksOf(Popped(c)) \cup {h}
           /\ IsToken(h) => \A t \in TasksOf(Popped(c)) : IsToken(t) => ~SameRoom(t, h)
<1>1. PICK q : q = Popped(c)
  OBVIOUS
<1>2. /\ TasksOf(q) \subseteq AllTasks
      /\ AllTasks \subseteq TasksOf(q) \cup {h}
      /\ IsToken(h) => \A t \in TasksOf(q) : IsToken(t) => ~SameRoom(t, h)
  BY <1>1, Popping
<1>3. h \in AllTasks /\ h = tasks[c][1] /\ 1 \in 1..Len(tasks[c])
  BY PoppedQueues
<1>4. h \in Tasks
  BY <1>3 DEF AllTasks, TasksOf
<1>5. Strand(h) = c
  BY <1>3 DEF InPlace
<1> QED
  BY <1>1, <1>2, <1>3, <1>4, <1>5

-----------------------------------------------------------------------------
(* A request is under way if some task is about it. *)
LEMMA UnderWayIsATask ==
    ASSUME NEW q, InPlace(q), NEW request
    PROVE  (\E e \in Clients : \E i \in 1..Len(q[e]) : q[e][i].request = request)
           <=> \E t \in TasksOf(q) : t.request = request
<1>1. ASSUME NEW e \in Clients, NEW i \in 1..Len(q[e])
      PROVE  q[e][i] \in TasksOf(q)
  <2>1. q[e] \in Seq(Tasks)
    BY DEF InPlace
  <2>2. q[e][i] \in Tasks
    BY <2>1, ElementOfSeq
  <2> QED
    BY <2>2 DEF TasksOf
<1>2. ASSUME NEW t \in TasksOf(q), t.request = request
      PROVE  \E e \in Clients : \E i \in 1..Len(q[e]) : q[e][i].request = request
  BY <1>2 DEF TasksOf
<1> QED
  BY <1>1, <1>2

(* A step that takes task h loses no answer if it gives it, passes the     *)
(* request on, or the request is excused.                                  *)
LEMMA NothingLost ==
    ASSUME InPlace(tasks), InPlace(tasks)', LostOnlyIfCrossed, NEW h,
           AllTasks \subseteq AllTasks' \cup {h},
           \A r \in unanswered' : r \in unanswered \/ \E t \in AllTasks' : t.request = r,
           opened \subseteq opened',
           \/ h.request \notin unanswered'
           \/ \E t \in AllTasks' : t.request = h.request
           \/ h.request.from = h.request.to
           \/ <<h.request.to, h.request.from>> \in opened
    PROVE  LostOnlyIfCrossed'
<1> SUFFICES ASSUME NEW request \in unanswered'
             PROVE  \/ UnderWay(request)'
                    \/ request.from = request.to
                    \/ <<request.to, request.from>> \in opened'
  BY DEF LostOnlyIfCrossed
<1>1. UnderWay(request)' <=> \E t \in AllTasks' : t.request = request
  BY UnderWayIsATask DEF UnderWay, AllTasks
<1>2. \/ UnderWay(request)
      \/ \E t \in AllTasks' : t.request = request
      \/ request.from = request.to
      \/ <<request.to, request.from>> \in opened
  BY DEF LostOnlyIfCrossed
<1>3. CASE UnderWay(request)
  <2>1. PICK t \in AllTasks : t.request = request
    BY <1>3, UnderWayIsATask DEF UnderWay, AllTasks
  <2> QED
    BY <1>1, <2>1
<1> QED
  BY <1>1, <1>2, <1>3

-----------------------------------------------------------------------------
(* A step makes no token t for a room but from one for the same room. *)
ContinuesAToken(t) ==
    \E s \in AllTasks : IsToken(s) /\ s.request = t.request /\ s.sender_id = t.sender_id

TokensContinue == \A t \in AllTasks' : IsToken(t) => ContinuesAToken(t)

(* A room that nobody goes on with stays settled. *)
LEMMA StaysSettled ==
    ASSUME TokensContinue, NEW c, NEW id, IsSettled(c, id)
    PROVE  IsSettled(c, id)'
<1> SUFFICES ASSUME NEW t \in AllTasks', IsToken(t), t.request.from = c, t.sender_id = id
             PROVE  FALSE
  BY DEF IsSettled, IsToken
<1>1. PICK s \in AllTasks : IsToken(s) /\ s.request = t.request /\ s.sender_id = t.sender_id
  BY DEF TokensContinue, ContinuesAToken
<1> QED
  BY <1>1 DEF IsSettled

(* Steps that leave the tables alone. *)
LEMMA SameTables ==
    ASSUME ChatsInv, UNCHANGED <<chat_rooms_, opened>>, TokensContinue,
           \A t \in AllTasks' : t.do = "confirm" => t \in AllTasks
    PROVE  ChatsInv'
<1>1. TokensHaveRooms'
  BY DEF ChatsInv, TokensHaveRooms, TokensContinue, ContinuesAToken, IsToken
<1>2. ConfirmedRoomsExist'
  BY DEF ChatsInv, ConfirmedRoomsExist
<1>3. EndsStay'
  <2> SUFFICES ASSUME NEW c \in Clients, NEW id \in DOMAIN chat_rooms_[c]
               PROVE  EndStays(c, id)'
    BY DEF EndsStay
  <2>1. EndStays(c, id)
    BY DEF ChatsInv, EndsStay
  <2> QED
    BY <2>1, StaysSettled DEF EndStays
<1>4. RoomsWereOpened'
  BY DEF ChatsInv, RoomsWereOpened
<1>5. MetRoomsWereCrossed'
  BY DEF ChatsInv, MetRoomsWereCrossed, TokensContinue, ContinuesAToken, IsToken
<1> QED
  BY <1>1, <1>2, <1>3, <1>4, <1>5 DEF ChatsInv

(* What a step does to the tables: room id of c is added, becomes another  *)
(* one or is removed.                                                      *)
RoomAdded(c, id, room) ==
    /\ id \notin DOMAIN chat_rooms_[c]
    /\ DOMAIN chat_rooms_'[c] = DOMAIN chat_rooms_[c] \cup {id}
    /\ chat_rooms_'[c][id] = room
    /\ \A k \in DOMAIN chat_rooms_[c] : chat_rooms_'[c][k] = chat_rooms_[c][k]
    /\ \A e \in Clients \ {c} : chat_rooms_'[e] = chat_rooms_[e]

RoomChanged(c, id, room) ==
    /\ DOMAIN chat_rooms_'[c] = DOMAIN chat_rooms_[c]
    /\ chat_rooms_'[c][id] = room
    /\ \A k \in DOMAIN chat_rooms_[c] \ {id} : chat_rooms_'[c][k] = chat_rooms_[c][k]
    /\ \A e \in Clients \ {c} : chat_rooms_'[e] = chat_rooms_[e]

RoomRemoved(c, id) ==
    /\ DOMAIN chat_rooms_'[c] = DOMAIN chat_rooms_[c] \ {id}
    /\ \A k \in DOMAIN chat_rooms_[c] \ {id} : chat_rooms_'[c][k] = chat_rooms_[c][k]
    /\ \A e \in Clients \ {c} : chat_rooms_'[e] = chat_rooms_[e]

(* A table gets a room under a new id. *)
LEMMA WithRoomTables ==
    ASSUME TablesInv, NEW c \in Clients, NEW room \in Rooms, NEW id, id = chat_rooms_id_[c],
           ~IsFull(c), room.first = c \/ RoomsTo(c, room.first) = {},
           chat_rooms_' = WithRoom(c, id, room),
           chat_rooms_id_' = [chat_rooms_id_ EXCEPT ![c] = id + 1]
    PROVE  /\ TablesInv'
           /\ id \in Nat \ {0}
           /\ RoomAdded(c, id, room)
<1>1. id \in Nat \ {0} /\ id \notin DOMAIN chat_rooms_[c]
  BY DEF TablesInv
<1>2. /\ DOMAIN chat_rooms_' = Clients
      /\ DOMAIN chat_rooms_'[c] = DOMAIN chat_rooms_[c] \cup {id}
      /\ chat_rooms_'[c][id] = room
      /\ \A k \in DOMAIN chat_rooms_[c] : chat_rooms_'[c][k] = chat_rooms_[c][k]
      /\ \A e \in Clients \ {c} : chat_rooms_'[e] = chat_rooms_[e]
  BY <1>1 DEF TablesInv, WithRoom
<1>3. Cardinality(DOMAIN chat_rooms_'[c]) <= MaxRooms
  <2>1. IsFiniteSet(1..(id - 1))
    BY <1>1, FS_Interval
  <2>2. IsFiniteSet(DOMAIN chat_rooms_[c])
    BY <2>1, FS_Subset DEF TablesInv
  <2>3. Cardinality(DOMAIN chat_rooms_[c]) \in Nat
    BY <2>2, FS_CardinalityType
  <2>4. Cardinality(DOMAIN chat_rooms_[c] \cup {id}) = Cardinality(DOMAIN chat_rooms_[c]) + 1
    BY <1>1, <2>2, FS_AddElement
  <2> QED
    BY <1>2, <2>3, <2>4, ChatConstants DEF IsFull
<1>4. chat_rooms_id_' \in [Clients -> Nat \ {0}] /\ chat_rooms_id_'[c] = id + 1
      /\ \A e \in Clients \ {c} : chat_rooms_id_'[e] = chat_rooms_id_[e]
  BY <1>1 DEF TablesInv
<1>5. ASSUME NEW k \in DOMAIN chat_rooms_'[c], NEW l \in DOMAIN chat_rooms_'[c],
             chat_rooms_'[c][k].first = chat_rooms_'[c][l].first,
             chat_rooms_'[c][k].first # c
      PROVE  k = l
  BY <1>2, <1>5 DEF TablesInv, RoomsTo
<1>6. \A k \in DOMAIN chat_rooms_'[c] : k \in 1..id /\ chat_rooms_'[c][k] \in Rooms
  BY <1>1, <1>2 DEF TablesInv
<1>7. ASSUME NEW e \in Clients
      PROVE  /\ DOMAIN chat_rooms_'[e] \subseteq 1..(chat_rooms_id_'[e] - 1)
             /\ \A k \in DOMAIN chat_rooms_'[e] : chat_rooms_'[e][k] \in Rooms
             /\ Cardinality(DOMAIN chat_rooms_'[e]) <= MaxRooms
             /\ \A k, l \in DOMAIN chat_rooms_'[e] :
                    chat_rooms_'[e][k].first = chat_rooms_'[e][l].first
                    /\ chat_rooms_'[e][k].first # e => k = l
  <2>1. CASE e = c
    BY <1>1, <1>3, <1>4, <1>5, <1>6, <2>1
  <2>2. CASE e # c
    BY <1>2, <1>4, <2>2 DEF TablesInv
  <2> QED
    BY <2>1, <2>2
<1>8. TablesInv'
  BY <1>2, <1>4, <1>7 DEF TablesInv
<1> QED
  BY <1>1, <1>2, <1>8 DEF RoomAdded

(* A task that is new is for room id of c. *)
TasksFit(c, id, room) ==
    /\ AllTasks' \subseteq Tasks
    /\ \A t \in AllTasks' : IsToken(t) =>
           \/ ContinuesAToken(t)
           \/ t.request.from = c /\ t.sender_id = id /\ t.request.to = room.first /\ room.first # c
    /\ \A t \in AllTasks' : t.do = "confirm" =>
           \/ t \in AllTasks
           \/ t.request.to = c /\ t.recipient_id = id /\ room = Room(c, t.sender_id)

(* The chats after a table has got a room: one that waits for its other    *)
(* end, or one of the client's own.                                        *)
LEMMA NewRoomChats ==
    ASSUME TablesInv, ChatsInv, NEW c \in Clients, NEW id, NEW room \in Rooms,
           RoomAdded(c, id, room), opened \subseteq opened',
           room.first = c \/ (room.second = 0 /\ <<c, room.first>> \in opened'),
           TasksFit(c, id, room)
    PROVE  ChatsInv'
<1>1. ASSUME NEW e \in Clients, NEW k \in DOMAIN chat_rooms_[e]
      PROVE  k \in DOMAIN chat_rooms_'[e] /\ chat_rooms_'[e][k] = chat_rooms_[e][k]
             /\ ~(e = c /\ k = id)
  BY <1>1 DEF RoomAdded
<1>2. ASSUME NEW e \in Clients, NEW k \in DOMAIN chat_rooms_'[e], ~(e = c /\ k = id)
      PROVE  k \in DOMAIN chat_rooms_[e] /\ chat_rooms_'[e][k] = chat_rooms_[e][k]
  BY <1>2 DEF RoomAdded
<1>3. ASSUME NEW t \in AllTasks', IsToken(t), ContinuesAToken(t)
      PROVE  /\ t.request.from \in Clients
             /\ t.request.to # t.request.from
             /\ t.sender_id \in DOMAIN chat_rooms_[t.request.from]
             /\ chat_rooms_[t.request.from][t.sender_id].first = t.request.to
             /\ chat_rooms_[t.request.from][t.sender_id].second # 0 =>
                    <<t.request.to, t.request.from>> \in opened
  <2>1. PICK s \in AllTasks : IsToken(s) /\ s.request = t.request /\ s.sender_id = t.sender_id
    BY <1>3 DEF ContinuesAToken
  <2>2. t.request.from \in Clients
    BY TaskFields DEF TasksFit
  <2> QED
    BY <2>1, <2>2 DEF ChatsInv, TokensHaveRooms, MetRoomsWereCrossed
<1>4. TokensHaveRooms'
  <2> SUFFICES ASSUME NEW t \in AllTasks', IsToken(t)
               PROVE  /\ t.request.to # t.request.from
                      /\ t.sender_id \in DOMAIN chat_rooms_'[t.request.from]
                      /\ chat_rooms_'[t.request.from][t.sender_id].first = t.request.to
    BY DEF TokensHaveRooms, IsToken
  <2>1. CASE ContinuesAToken(t)
    BY <1>1, <1>3, <2>1
  <2>2. CASE ~ContinuesAToken(t)
    BY <2>2 DEF RoomAdded, TasksFit
  <2> QED
    BY <2>1, <2>2
<1>5. ConfirmedRoomsExist'
  <2> SUFFICES ASSUME NEW t \in AllTasks', t.do = "confirm"
               PROVE  /\ t.recipient_id \in DOMAIN chat_rooms_'[t.request.to]
                      /\ chat_rooms_'[t.request.to][t.recipient_id]
                             = Room(t.request.to, t.sender_id)
    BY DEF ConfirmedRoomsExist, Room
  <2>1. CASE t \in AllTasks
    <3>1. t.request.to \in Clients
      BY TaskFields DEF TasksFit
    <3> QED
      BY <1>1, <2>1, <3>1 DEF ChatsInv, ConfirmedRoomsExist
  <2>2. CASE t \notin AllTasks
    BY <2>2 DEF RoomAdded, TasksFit
  <2> QED
    BY <2>1, <2>2
<1>6. EndsStay'
  <2> SUFFICES ASSUME NEW e \in Clients, NEW k \in DOMAIN chat_rooms_'[e]
               PROVE  EndStays(e, k)'
    BY DEF EndsStay
  <2>1. CASE e = c /\ k = id
    BY <2>1 DEF EndStays, RoomAdded
  <2>2. CASE ~(e = c /\ k = id)
    <3>1. k \in DOMAIN chat_rooms_[e] /\ chat_rooms_'[e][k] = chat_rooms_[e][k]
      BY <1>2, <2>2
    <3>2. PICK f, l : f = chat_rooms_[e][k].first /\ l = chat_rooms_[e][k].second
      OBVIOUS
    <3>3. SUFFICES ASSUME f # e, l # 0
                   PROVE  /\ l \in DOMAIN chat_rooms_'[f]
                          /\ \/ chat_rooms_'[f][l] = Room(f, k)
                             \/ chat_rooms_'[f][l].first = e /\ IsSettled(f, l)'
      BY <3>1, <3>2 DEF EndStays, Room
    <3>4. f \in Clients
      BY <3>1, <3>2 DEF TablesInv, Rooms
    <3>5. /\ l \in DOMAIN chat_rooms_[f]
          /\ \/ chat_rooms_[f][l] = Room(f, k)
             \/ chat_rooms_[f][l].first = e /\ IsSettled(f, l)
      BY <3>1, <3>2, <3>3 DEF ChatsInv, EndsStay, EndStays
    <3>6. l \in DOMAIN chat_rooms_'[f] /\ chat_rooms_'[f][l] = chat_rooms_[f][l]
          /\ ~(f = c /\ l = id)
      BY <1>1, <3>4, <3>5
    <3>7. ASSUME IsSettled(f, l)
          PROVE  IsSettled(f, l)'
      <4> SUFFICES ASSUME NEW t \in AllTasks', IsToken(t), t.request.from = f, t.sender_id = l
                   PROVE  FALSE
        BY DEF IsSettled, IsToken
      <4>1. PICK s \in AllTasks :
                IsToken(s) /\ s.request = t.request /\ s.sender_id = t.sender_id
        BY <3>6 DEF ContinuesAToken, TasksFit
      <4> QED
        BY <3>7, <4>1 DEF IsSettled
    <3> QED
      BY <3>5, <3>6, <3>7
  <2> QED
    BY <2>1, <2>2
<1>7. RoomsWereOpened'
  <2> SUFFICES ASSUME NEW e \in Clients, NEW k \in DOMAIN chat_rooms_'[e],
                      chat_rooms_'[e][k].first # e
               PROVE  <<e, chat_rooms_'[e][k].first>> \in opened'
    BY DEF RoomsWereOpened
  <2>1. CASE e = c /\ k = id
    BY <2>1 DEF RoomAdded
  <2>2. CASE ~(e = c /\ k = id)
    BY <1>2, <2>2 DEF ChatsInv, RoomsWereOpened
  <2> QED
    BY <2>1, <2>2
<1>8. MetRoomsWereCrossed'
  <2> SUFFICES ASSUME NEW t \in AllTasks', IsToken(t),
                      chat_rooms_'[t.request.from][t.sender_id].second # 0
               PROVE  <<t.request.to, t.request.from>> \in opened'
    BY DEF MetRoomsWereCrossed, IsToken
  <2>1. CASE ContinuesAToken(t)
    BY <1>1, <1>3, <2>1
  <2>2. CASE ~ContinuesAToken(t)
    BY <2>2 DEF RoomAdded, TasksFit
  <2> QED
    BY <2>1, <2>2
<1> QED
  BY <1>4, <1>5, <1>6, <1>7, <1>8 DEF ChatsInv

(* A room learns the id of its other end. *)
LEMMA LearningTables ==
    ASSUME TablesInv, NEW c \in Clients, NEW id \in DOMAIN chat_rooms_[c], NEW x \in Nat,
           chat_rooms_' = [chat_rooms_ EXCEPT ![c][id].second = x],
           UNCHANGED chat_rooms_id_
    PROVE  /\ TablesInv'
           /\ RoomChanged(c, id, Room(chat_rooms_[c][id].first, x))
<1>1. chat_rooms_[c][id] \in Rooms /\ DOMAIN chat_rooms_ = Clients
  BY DEF TablesInv
<1>2. /\ DOMAIN chat_rooms_' = Clients
      /\ DOMAIN chat_rooms_'[c] = DOMAIN chat_rooms_[c]
      /\ chat_rooms_'[c][id] = Room(chat_rooms_[c][id].first, x)
      /\ \A k \in DOMAIN chat_rooms_[c] \ {id} : chat_rooms_'[c][k] = chat_rooms_[c][k]
      /\ \A e \in Clients \ {c} : chat_rooms_'[e] = chat_rooms_[e]
  BY <1>1 DEF Rooms, Room
<1>3. chat_rooms_'[c][id].first = chat_rooms_[c][id].first /\ chat_rooms_'[c][id] \in Rooms
  BY <1>1, <1>2 DEF Rooms, Room
<1>4. ASSUME NEW e \in Clients
      PROVE  /\ DOMAIN chat_rooms_'[e] = DOMAIN chat_rooms_[e]
             /\ \A k \in DOMAIN chat_rooms_[e] :
                    chat_rooms_'[e][k].first = chat_rooms_[e][k].first
                    /\ chat_rooms_'[e][k] \in Rooms
  <2>1. CASE e = c
    BY <1>2, <1>3, <2>1 DEF TablesInv
  <2>2. CASE e # c
    BY <1>2, <2>2 DEF TablesInv
  <2> QED
    BY <2>1, <2>2
<1>5. TablesInv'
  BY <1>2, <1>4 DEF TablesInv
<1> QED
  BY <1>2, <1>5 DEF RoomChanged

LEMMA LearningChats ==
    ASSUME TablesInv, ChatsInv, NEW c \in Clients, NEW id \in DOMAIN chat_rooms_[c], NEW x,
           chat_rooms_[c][id].first # c,
           RoomChanged(c, id, Room(chat_rooms_[c][id].first, x)),
           opened' = opened, AllTasks \subseteq Tasks, AllTasks' \subseteq AllTasks,
           EndStays(c, id)',
           \A t \in AllTasks' :
               IsToken(t) /\ t.request.from = c /\ t.sender_id = id =>
                   <<t.request.to, t.request.from>> \in opened
    PROVE  ChatsInv'
<1>1. ASSUME NEW e \in Clients
      PROVE  DOMAIN chat_rooms_'[e] = DOMAIN chat_rooms_[e]
  <2>1. CASE e = c
    BY <2>1 DEF RoomChanged
  <2>2. CASE e # c
    BY <2>2 DEF RoomChanged
  <2> QED
    BY <2>1, <2>2
<1>2. ASSUME NEW e \in Clients, NEW k \in DOMAIN chat_rooms_[e], ~(e = c /\ k = id)
      PROVE  chat_rooms_'[e][k] = chat_rooms_[e][k]
  BY <1>2 DEF RoomChanged
<1>3. chat_rooms_'[c][id].first = chat_rooms_[c][id].first
  BY DEF Room, RoomChanged
<1>4. ASSUME NEW e \in Clients, NEW k \in DOMAIN chat_rooms_[e]
      PROVE  chat_rooms_'[e][k].first = chat_rooms_[e][k].first
  BY <1>2, <1>3
<1>5. TokensHaveRooms'
  <2> SUFFICES ASSUME NEW t \in AllTasks', IsToken(t)
               PROVE  /\ t.request.to # t.request.from
                      /\ t.sender_id \in DOMAIN chat_rooms_'[t.request.from]
                      /\ chat_rooms_'[t.request.from][t.sender_id].first = t.request.to
    BY DEF TokensHaveRooms, IsToken
  <2>1. t \in AllTasks /\ t.request.from \in Clients
    BY TaskFields
  <2> QED
    BY <1>1, <1>4, <2>1 DEF ChatsInv, TokensHaveRooms
<1>6. ConfirmedRoomsExist'
  <2> SUFFICES ASSUME NEW t \in AllTasks', t.do = "confirm"
               PROVE  /\ t.recipient_id \in DOMAIN chat_rooms_'[t.request.to]
                      /\ chat_rooms_'[t.request.to][t.recipient_id]
                             = Room(t.request.to, t.sender_id)
    BY DEF ConfirmedRoomsExist, Room
  <2>1. t \in AllTasks /\ t.request.to \in Clients
    BY TaskFields
  <2>2. /\ t.recipient_id \in DOMAIN chat_rooms_[t.request.to]
        /\ chat_rooms_[t.request.to][t.recipient_id] = Room(t.request.to, t.sender_id)
    BY <2>1 DEF ChatsInv, ConfirmedRoomsExist
  <2>3. ~(t.request.to = c /\ t.recipient_id = id)
    BY <2>2 DEF Room
  <2> QED
    BY <1>1, <1>2, <2>1, <2>2, <2>3
<1>7. EndsStay'
  <2> SUFFICES ASSUME NEW e \in Clients, NEW k \in DOMAIN chat_rooms_[e], ~(e = c /\ k = id)
               PROVE  EndStays(e, k)'
    BY <1>1 DEF EndsStay
  <2>1. chat_rooms_'[e][k] = chat_rooms_[e][k]
    BY <1>2
  <2>2. PICK f, l : f = chat_rooms_[e][k].first /\ l = chat_rooms_[e][k].second
    OBVIOUS
  <2>3. SUFFICES ASSUME f # e, l # 0
                 PROVE  /\ l \in DOMAIN chat_rooms_'[f]
                        /\ \/ chat_rooms_'[f][l] = Room(f, k)
                           \/ chat_rooms_'[f][l].first = e /\ IsSettled(f, l)'
    BY <2>1, <2>2 DEF EndStays, Room
  <2>4. f \in Clients
    BY <2>2 DEF TablesInv, Rooms
  <2>5. /\ l \in DOMAIN chat_rooms_[f]
        /\ \/ chat_rooms_[f][l] = Room(f, k)
           \/ chat_rooms_[f][l].first = e /\ IsSettled(f, l)
    BY <2>2, <2>3 DEF ChatsInv, EndsStay, EndStays
  <2>6. ASSUME chat_rooms_[f][l] = Room(f, k)
        PROVE  chat_rooms_'[f][l] = Room(f, k)
    <3>1. ~(f = c /\ l = id)
      BY <2>6 DEF Room
    <3> QED
      BY <1>2, <2>4, <2>5, <2>6, <3>1
  <2>7. ASSUME IsSettled(f, l)
        PROVE  IsSettled(f, l)'
    BY <2>7 DEF IsSettled, IsToken
  <2> QED
    BY <1>1, <1>4, <2>4, <2>5, <2>6, <2>7
<1>8. RoomsWereOpened'
  BY <1>1, <1>4 DEF ChatsInv, RoomsWereOpened
<1>9. MetRoomsWereCrossed'
  <2> SUFFICES ASSUME NEW t \in AllTasks', IsToken(t),
                      chat_rooms_'[t.request.from][t.sender_id].second # 0
               PROVE  <<t.request.to, t.request.from>> \in opened
    BY DEF MetRoomsWereCrossed, IsToken
  <2>1. t \in AllTasks /\ t.request.from \in Clients
    BY TaskFields
  <2>2. t.sender_id \in DOMAIN chat_rooms_[t.request.from]
    BY <2>1 DEF ChatsInv, TokensHaveRooms
  <2> QED
    BY <1>2, <2>1, <2>2 DEF ChatsInv, MetRoomsWereCrossed
<1> QED
  BY <1>5, <1>6, <1>7, <1>8, <1>9 DEF ChatsInv

(* A room is given up. *)
LEMMA ErasingTables ==
    ASSUME TablesInv, NEW c \in Clients, NEW id,
           chat_rooms_' = [chat_rooms_ EXCEPT ![c] = Restrict(@, DOMAIN @ \ {id})],
           UNCHANGED chat_rooms_id_
    PROVE  /\ TablesInv'
           /\ RoomRemoved(c, id)
<1>1. /\ DOMAIN chat_rooms_' = Clients
      /\ DOMAIN chat_rooms_'[c] = DOMAIN chat_rooms_[c] \ {id}
      /\ \A k \in DOMAIN chat_rooms_[c] \ {id} : chat_rooms_'[c][k] = chat_rooms_[c][k]
      /\ \A e \in Clients \ {c} : chat_rooms_'[e] = chat_rooms_[e]
  BY DEF TablesInv, Restrict
<1>2. Cardinality(DOMAIN chat_rooms_[c] \ {id}) <= MaxRooms
  <2>1. PICK n \in Int : DOMAIN chat_rooms_[c] \subseteq 1..n
    BY DEF TablesInv
  <2>2. IsFiniteSet(DOMAIN chat_rooms_[c])
    <3>1. IsFiniteSet(1..n)
      BY FS_Interval
    <3> QED
      BY <2>1, <3>1, FS_Subset
  <2>3. Cardinality(DOMAIN chat_rooms_[c]) \in Nat
    BY <2>2, FS_CardinalityType
  <2>4. /\ Cardinality(DOMAIN chat_rooms_[c] \ {id}) <= Cardinality(DOMAIN chat_rooms_[c])
        /\ Cardinality(DOMAIN chat_rooms_[c] \ {id}) \in Nat
    BY <2>2, FS_Subset, FS_CardinalityType
  <2>5. Cardinality(DOMAIN chat_rooms_[c]) <= MaxRooms
    BY DEF TablesInv
  <2> QED
    BY <2>3, <2>4, <2>5, ChatConstants
<1>3. ASSUME NEW e \in Clients
      PROVE  /\ DOMAIN chat_rooms_'[e] \subseteq DOMAIN chat_rooms_[e]
             /\ \A k \in DOMAIN chat_rooms_'[e] : chat_rooms_'[e][k] = chat_rooms_[e][k]
             /\ Cardinality(DOMAIN chat_rooms_'[e]) <= MaxRooms
  <2>1. CASE e = c
    BY <1>1, <1>2, <2>1
  <2>2. CASE e # c
    BY <1>1, <2>2 DEF TablesInv
  <2> QED
    BY <2>1, <2>2
<1>4. ASSUME NEW e \in Clients
      PROVE  /\ DOMAIN chat_rooms_'[e] \subseteq 1..(chat_rooms_id_'[e] - 1)
             /\ \A k \in DOMAIN chat_rooms_'[e] : chat_rooms_'[e][k] \in Rooms
             /\ \A k, l \in DOMAIN chat_rooms_'[e] :
                    chat_rooms_'[e][k].first = chat_rooms_'[e][l].first
                    /\ chat_rooms_'[e][k].first # e => k = l
  <2>1. /\ DOMAIN chat_rooms_[e] \subseteq 1..(chat_rooms_id_[e] - 1)
        /\ \A k \in DOMAIN chat_rooms_[e] : chat_rooms_[e][k] \in Rooms
        /\ \A k, l \in DOMAIN chat_rooms_[e] :
               chat_rooms_[e][k].first = chat_rooms_[e][l].first
               /\ chat_rooms_[e][k].first # e => k = l
    BY DEF TablesInv
  <2>2. /\ DOMAIN chat_rooms_'[e] \subseteq DOMAIN chat_rooms_[e]
        /\ \A k \in DOMAIN chat_rooms_'[e] : chat_rooms_'[e][k] = chat_rooms_[e][k]
    BY <1>3
  <2>3. DOMAIN chat_rooms_'[e] \subseteq 1..(chat_rooms_id_'[e] - 1)
    BY <2>1, <2>2
  <2>4. \A k \in DOMAIN chat_rooms_'[e] : chat_rooms_'[e][k] \in Rooms
    BY <2>1, <2>2
  <2>5. ASSUME NEW k \in DOMAIN chat_rooms_'[e], NEW l \in DOMAIN chat_rooms_'[e],
               chat_rooms_'[e][k].first = chat_rooms_'[e][l].first,
               chat_rooms_'[e][k].first # e
        PROVE  k = l
    <3>1. chat_rooms_'[e][k] = chat_rooms_[e][k] /\ chat_rooms_'[e][l] = chat_rooms_[e][l]
      BY <2>2
    <3> QED
      BY <2>1, <2>2, <2>5, <3>1
  <2> QED
    BY <2>3, <2>4, <2>5
<1>5. TablesInv'
  <2>1. DOMAIN chat_rooms_' = Clients /\ chat_rooms_id_' \in [Clients -> Nat \ {0}]
    BY <1>1 DEF TablesInv
  <2> QED
    BY <1>3, <1>4, <2>1 DEF TablesInv
<1> QED
  BY <1>1, <1>5 DEF RoomRemoved

LEMMA ErasingChats ==
    ASSUME TablesInv, ChatsInv, NEW c \in Clients, NEW id \in DOMAIN chat_rooms_[c],
           chat_rooms_[c][id].first # c, ~IsSettled(c, id), IsSettled(c, id)',
           RoomRemoved(c, id), opened' = opened, AllTasks \subseteq Tasks, AllTasks' \subseteq AllTasks
    PROVE  ChatsInv'
<1>1. ASSUME NEW e \in Clients, NEW k \in DOMAIN chat_rooms_[e], ~(e = c /\ k = id)
      PROVE  k \in DOMAIN chat_rooms_'[e] /\ chat_rooms_'[e][k] = chat_rooms_[e][k]
  BY <1>1 DEF RoomRemoved
<1>2. ASSUME NEW e \in Clients, NEW k \in DOMAIN chat_rooms_'[e]
      PROVE  k \in DOMAIN chat_rooms_[e] /\ chat_rooms_'[e][k] = chat_rooms_[e][k]
  BY <1>2 DEF RoomRemoved
<1>3. ASSUME NEW t \in AllTasks', IsToken(t)
      PROVE  /\ t \in AllTasks /\ t.request.from \in Clients
             /\ t.request.to # t.request.from
             /\ t.sender_id \in DOMAIN chat_rooms_[t.request.from]
             /\ chat_rooms_[t.request.from][t.sender_id].first = t.request.to
             /\ ~(t.request.from = c /\ t.sender_id = id)
  <2>1. t \in AllTasks /\ t.request.from \in Clients
    BY TaskFields
  <2>2. ~(t.request.from = c /\ t.sender_id = id)
    BY <1>3 DEF IsSettled, IsToken
  <2> QED
    BY <1>3, <2>1, <2>2 DEF ChatsInv, TokensHaveRooms
<1>4. TokensHaveRooms'
  <2> SUFFICES ASSUME NEW t \in AllTasks', IsToken(t)
               PROVE  /\ t.request.to # t.request.from
                      /\ t.sender_id \in DOMAIN chat_rooms_'[t.request.from]
                      /\ chat_rooms_'[t.request.from][t.sender_id].first = t.request.to
    BY DEF TokensHaveRooms, IsToken
  <2> QED
    BY <1>1, <1>3
<1>5. ConfirmedRoomsExist'
  <2> SUFFICES ASSUME NEW t \in AllTasks', t.do = "confirm"
               PROVE  /\ t.recipient_id \in DOMAIN chat_rooms_'[t.request.to]
                      /\ chat_rooms_'[t.request.to][t.recipient_id]
                             = Room(t.request.to, t.sender_id)
    BY DEF ConfirmedRoomsExist, Room
  <2>1. t \in AllTasks /\ t.request.to \in Clients
    BY TaskFields
  <2>2. /\ t.recipient_id \in DOMAIN chat_rooms_[t.request.to]
        /\ chat_rooms_[t.request.to][t.recipient_id] = Room(t.request.to, t.sender_id)
    BY <2>1 DEF ChatsInv, ConfirmedRoomsExist
  <2>3. ~(t.request.to = c /\ t.recipient_id = id)
    BY <2>2 DEF Room
  <2> QED
    BY <1>1, <2>1, <2>2, <2>3
<1>6. EndsStay'
  <2> SUFFICES ASSUME NEW e \in Clients, NEW k \in DOMAIN chat_rooms_'[e]
               PROVE  EndStays(e, k)'
    BY DEF EndsStay
  <2>1. k \in DOMAIN chat_rooms_[e] /\ chat_rooms_'[e][k] = chat_rooms_[e][k]
    BY <1>2
  <2>2. PICK f, l : f = chat_rooms_[e][k].first /\ l = chat_rooms_[e][k].second
    OBVIOUS
  <2>3. SUFFICES ASSUME f # e, l # 0
                 PROVE  /\ l \in DOMAIN chat_rooms_'[f]
                        /\ \/ chat_rooms_'[f][l] = Room(f, k)
                           \/ chat_rooms_'[f][l].first = e /\ IsSettled(f, l)'
    BY <2>1, <2>2 DEF EndStays, Room
  <2>4. f \in Clients
    BY <2>1, <2>2 DEF TablesInv, Rooms
  <2>5. /\ l \in DOMAIN chat_rooms_[f]
        /\ \/ chat_rooms_[f][l] = Room(f, k)
           \/ chat_rooms_[f][l].first = e /\ IsSettled(f, l)
    BY <2>1, <2>2, <2>3 DEF ChatsInv, EndsStay, EndStays
  <2>6. ~(f = c /\ l = id)
    BY <2>5 DEF Room
  <2>7. ASSUME IsSettled(f, l)
        PROVE  IsSettled(f, l)'
    BY <2>7 DEF IsSettled, IsToken
  <2> QED
    BY <1>1, <2>4, <2>5, <2>6, <2>7
<1>7. RoomsWereOpened'
  BY <1>2 DEF ChatsInv, RoomsWereOpened
<1>8. MetRoomsWereCrossed'
  <2> SUFFICES ASSUME NEW t \in AllTasks', IsToken(t),
                      chat_rooms_'[t.request.from][t.sender_id].second # 0
               PROVE  <<t.request.to, t.request.from>> \in opened
    BY DEF MetRoomsWereCrossed, IsToken
  <2> QED
    BY <1>1, <1>3 DEF ChatsInv, MetRoomsWereCrossed
<1> QED
  BY <1>4, <1>5, <1>6, <1>7, <1>8 DEF ChatsInv

-----------------------------------------------------------------------------
LEMMA RoomsInit == Init => RoomsInv
<1> SUFFICES ASSUME Init
             PROVE  RoomsInv
  OBVIOUS
<1>1. DOMAIN << >> = {}
  OBVIOUS
<1>2. \A c \in Clients : tasks[c] = << >> /\ Len(tasks[c]) = 0 /\ DOMAIN chat_rooms_[c] = {}
  BY <1>1 DEF Init
<1>3. RequestsAreTyped
  BY ChatConstants DEF Init, RequestsAreTyped
<1>4. TablesInv
  <2>1. Cardinality({}) = 0
    BY FS_EmptySet
  <2>2. chat_rooms_id_ \in [Clients -> Nat \ {0}] /\ DOMAIN chat_rooms_ = Clients
    BY DEF Init
  <2>3. ASSUME NEW c \in Clients
        PROVE  DOMAIN chat_rooms_[c] = {} /\ Cardinality(DOMAIN chat_rooms_[c]) <= MaxRooms
    <3>1. DOMAIN chat_rooms_[c] = {}
      BY <1>2
    <3>2. Cardinality(DOMAIN chat_rooms_[c]) = 0
      BY <2>1, <3>1, Zenon
    <3> QED
      BY <3>1, <3>2, ChatConstants
  <2> QED
    BY <2>2, <2>3 DEF TablesInv
<1>5. InPlace(tasks)
  <2>1. << >> \in Seq(Tasks)
    OBVIOUS
  <2>2. tasks \in [Clients -> Seq(Tasks)]
    BY <2>1 DEF Init
  <2> QED
    BY <1>2, <2>2 DEF InPlace
<1>6. TokensDiffer(tasks)
  BY <1>2 DEF TokensDiffer
<1>7. AllTasks = {}
  BY <1>2 DEF AllTasks, TasksOf
<1>8. ChatsInv
  BY <1>2, <1>7 DEF ChatsInv, TokensHaveRooms, ConfirmedRoomsExist, EndsStay, RoomsWereOpened,
        MetRoomsWereCrossed
<1>9. LostOnlyIfCrossed
  BY DEF Init, LostOnlyIfCrossed
<1> QED
  BY <1>3, <1>4, <1>5, <1>6, <1>8, <1>9 DEF RoomsInv

LEMMA NewDirectStep ==
    ASSUME RoomsInv, NEW c \in Clients, NEW d \in Clients, NewDirect(c, d)
    PROVE  RoomsInv'
<1> DEFINE request == [from |-> c, to |-> d, n |-> asked[c] + 1]
           t == [do |-> "open", request |-> request]
<1>1. /\ request \in Requests /\ asked' \in [Clients -> 0..MaxRequests]
      /\ UNCHANGED <<guests_, chat_rooms_, chat_rooms_id_, opened>>
  BY ChatConstants DEF NewDirect, RoomsInv, RequestsAreTyped, Requests
<1>2. t \in Tasks /\ ~IsToken(t) /\ Strand(t) = c /\ t.request = request /\ t.do = "open"
  BY <1>1 DEF Tasks, OpenTasks, IsToken, Strand
<1>3. \/ tasks' = Pushed(tasks, c, t) /\ unanswered' = unanswered \cup {request}
      \/ UNCHANGED <<tasks, unanswered>>
  BY DEF NewDirect
<1> HIDE DEF request, t
<1>4. TablesInv'
  BY <1>1 DEF RoomsInv, TablesInv
<1>5. CASE tasks' = Pushed(tasks, c, t) /\ unanswered' = unanswered \cup {request}
  <2>1. InPlace(tasks)' /\ TokensDiffer(tasks)' /\ AllTasks' = AllTasks \cup {t}
    BY <1>2, <1>5, Pushing DEF RoomsInv, AllTasks
  <2>2. TokensContinue
    BY <1>2, <2>1 DEF TokensContinue, ContinuesAToken
  <2>3. ChatsInv'
    BY <1>1, <1>2, <2>1, <2>2, SameTables DEF RoomsInv
  <2>4. LostOnlyIfCrossed'
    BY <1>1, <1>2, <1>5, <2>1, NothingLost DEF RoomsInv
  <2>5. RequestsAreTyped'
    BY <1>1, <1>5 DEF RoomsInv, RequestsAreTyped
  <2> QED
    BY <1>4, <2>1, <2>3, <2>4, <2>5 DEF RoomsInv
<1>6. CASE UNCHANGED <<tasks, unanswered>>
  <2>1. RequestsAreTyped'
    BY <1>1, <1>6 DEF RoomsInv, RequestsAreTyped
  <2>2. AllTasks' = AllTasks /\ InPlace(tasks)' /\ TokensDiffer(tasks)'
    BY <1>6 DEF RoomsInv, AllTasks
  <2>3. TokensContinue
    BY <2>2 DEF TokensContinue, ContinuesAToken
  <2>4. ChatsInv'
    BY <1>1, <2>2, <2>3, SameTables DEF RoomsInv
  <2>5. LostOnlyIfCrossed'
    BY <1>1, <1>6 DEF RoomsInv, LostOnlyIfCrossed, UnderWay
  <2> QED
    BY <1>4, <2>1, <2>2, <2>4, <2>5 DEF RoomsInv
<1> QED
  BY <1>3, <1>5, <1>6

(* A step that touches neither tables, tasks nor requests. *)
LEMMA IdleStep ==
    ASSUME RoomsInv, guests_' \subseteq Clients,
           UNCHANGED <<chat_rooms_, chat_rooms_id_, tasks, asked, unanswered, opened>>
    PROVE  RoomsInv'
<1>1. RequestsAreTyped' /\ TablesInv'
  BY DEF RoomsInv, RequestsAreTyped, TablesInv
<1>2. AllTasks' = AllTasks /\ InPlace(tasks)' /\ TokensDiffer(tasks)'
  BY DEF RoomsInv, AllTasks
<1>3. TokensContinue
  BY <1>2 DEF TokensContinue, ContinuesAToken
<1>4. ChatsInv'
  BY <1>2, <1>3, SameTables DEF RoomsInv
<1>5. LostOnlyIfCrossed'
  BY DEF RoomsInv, LostOnlyIfCrossed, UnderWay
<1> QED
  BY <1>1, <1>2, <1>4, <1>5 DEF RoomsInv

(* Steps that take a task h off the queue of c and add none. *)
LEMMA TakeStep ==
    ASSUME RoomsInv, NEW c \in Clients, tasks[c] # << >>, NEW h, h = Head(tasks[c]),
           tasks' = Popped(c)
    PROVE  /\ InPlace(tasks)' /\ TokensDiffer(tasks)'
           /\ h \in AllTasks /\ h \in Tasks /\ Strand(h) = c
           /\ AllTasks \subseteq Tasks
           /\ AllTasks' \subseteq AllTasks
           /\ AllTasks \subseteq AllTasks' \cup {h}
           /\ IsToken(h) => \A t \in AllTasks' : IsToken(t) => ~SameRoom(t, h)
           /\ TokensContinue
<1>1. InPlace(tasks) /\ TokensDiffer(tasks)
  BY DEF RoomsInv
<1>2. InPlace(tasks)' /\ TokensDiffer(tasks)' /\ AllTasks' = TasksOf(Popped(c))
  BY <1>1, Taking
<1>3. /\ h \in AllTasks /\ h \in Tasks /\ Strand(h) = c
      /\ AllTasks' \subseteq AllTasks
      /\ AllTasks \subseteq AllTasks' \cup {h}
      /\ IsToken(h) => \A t \in AllTasks' : IsToken(t) => ~SameRoom(t, h)
  BY <1>1, <1>2, TheRest
<1>4. AllTasks \subseteq Tasks
  BY DEF AllTasks, TasksOf
<1>5. TokensContinue
  BY <1>3 DEF TokensContinue, ContinuesAToken
<1> QED
  BY <1>2, <1>3, <1>4, <1>5

(* The request of h is answered and nothing else changes. *)
LEMMA RefuseStep ==
    ASSUME RoomsInv, NEW c \in Clients, tasks[c] # << >>, NEW h, h = Head(tasks[c]),
           tasks' = Popped(c), Answer(h.request),
           UNCHANGED <<guests_, chat_rooms_, chat_rooms_id_, asked, opened>>
    PROVE  RoomsInv'
<1>1. /\ InPlace(tasks)' /\ TokensDiffer(tasks)'
      /\ AllTasks' \subseteq AllTasks
      /\ AllTasks \subseteq AllTasks' \cup {h}
      /\ TokensContinue
  BY TakeStep
<1>2. unanswered' \subseteq unanswered /\ h.request \notin unanswered'
  BY DEF Answer
<1>3. ChatsInv'
  BY <1>1, SameTables DEF RoomsInv
<1>4. LostOnlyIfCrossed'
  BY <1>1, <1>2, NothingLost DEF RoomsInv
<1>5. RequestsAreTyped' /\ TablesInv'
  BY <1>2 DEF RoomsInv, RequestsAreTyped, TablesInv
<1> QED
  BY <1>1, <1>3, <1>4, <1>5 DEF RoomsInv

(* The sender is sent back to its room, which has not been seen. *)
LEMMA VisitFullStep ==
    ASSUME RoomsInv, NEW c \in Clients, VisitFull(c)
    PROVE  RoomsInv'
<1>1. PICK h : h = Head(tasks[c])
  OBVIOUS
<1>2. PICK t : t = [h EXCEPT !.do = "erase"]
  OBVIOUS
<1>3. /\ tasks[c] # << >> /\ h.do = "visit"
      /\ tasks' = Pushed(Popped(c), h.request.from, t)
      /\ UNCHANGED <<guests_, chat_rooms_, chat_rooms_id_, asked, unanswered, opened>>
  BY <1>1, <1>2 DEF VisitFull, IsNext
<1>4. /\ h \in AllTasks /\ h \in Tasks
      /\ TasksOf(Popped(c)) \subseteq AllTasks
      /\ AllTasks \subseteq TasksOf(Popped(c)) \cup {h}
      /\ IsToken(h) => \A s \in TasksOf(Popped(c)) : IsToken(s) => ~SameRoom(s, h)
  BY <1>1, <1>3, TheRest DEF RoomsInv
<1>5. h \in VisitTasks /\ IsToken(h) /\ h.request.from \in Clients
  BY <1>3, <1>4, TaskFields DEF IsToken
<1>6. /\ t \in VisitTasks /\ t.do = "erase"
      /\ t.request = h.request /\ t.sender_id = h.sender_id
  BY <1>2, <1>5, Zenon DEF VisitTasks
<1>7. t \in Tasks /\ IsToken(t) /\ Strand(t) = h.request.from
  BY <1>6 DEF Tasks, IsToken, Strand
<1>8. /\ InPlace(tasks)' /\ TokensDiffer(tasks)'
      /\ AllTasks' = TasksOf(Popped(c)) \cup {t}
  <2>1. \A s \in TasksOf(Popped(c)) : IsToken(s) => ~SameRoom(s, t) /\ ~SameRoom(t, s)
    BY <1>4, <1>5, <1>6 DEF SameRoom
  <2>2. InPlace(tasks) /\ TokensDiffer(tasks)
    BY DEF RoomsInv
  <2> QED
    BY <1>3, <1>5, <1>7, <2>1, <2>2, Forwarding
<1>9. TokensContinue
  BY <1>4, <1>5, <1>6, <1>8 DEF TokensContinue, ContinuesAToken
<1>10. ChatsInv'
  BY <1>3, <1>4, <1>6, <1>8, <1>9, SameTables DEF RoomsInv
<1>11. LostOnlyIfCrossed'
  BY <1>3, <1>4, <1>6, <1>8, NothingLost DEF RoomsInv
<1>12. RequestsAreTyped' /\ TablesInv'
  BY <1>3 DEF RoomsInv, RequestsAreTyped, TablesInv
<1> QED
  BY <1>8, <1>10, <1>11, <1>12 DEF RoomsInv

LEMMA OpenRoomStep ==
    ASSUME RoomsInv, NEW c \in Clients, OpenRoom(c)
    PROVE  RoomsInv'
<1>1. PICK h : h = Head(tasks[c])
  OBVIOUS
<1>2. PICK id : id = chat_rooms_id_[c]
  OBVIOUS
<1>3. PICK t : t = [do |-> "visit", request |-> h.request, sender_id |-> id]
  OBVIOUS
<1>4. PICK room : room = Room(h.request.to, 0)
  OBVIOUS
<1>5. /\ tasks[c] # << >> /\ h.do = "open" /\ h.request.to # c
      /\ ~IsFull(c) /\ RoomsTo(c, h.request.to) = {}
      /\ chat_rooms_id_' = [chat_rooms_id_ EXCEPT ![c] = id + 1]
      /\ chat_rooms_' = WithRoom(c, id, room)
      /\ tasks' = Pushed(Popped(c), h.request.to, t)
      /\ opened' = opened \cup {<<c, h.request.to>>}
      /\ UNCHANGED <<guests_, asked, unanswered>>
  BY <1>1, <1>2, <1>3, <1>4 DEF OpenRoom, IsNext, MayOpen
<1>6. /\ h \in AllTasks /\ h \in Tasks /\ Strand(h) = c
      /\ TasksOf(Popped(c)) \subseteq AllTasks
      /\ AllTasks \subseteq TasksOf(Popped(c)) \cup {h}
  BY <1>1, <1>5, TheRest DEF RoomsInv
<1>7. h.request \in Requests /\ h.request.to \in Clients /\ h.request.from = c
  BY <1>5, <1>6, TaskFields DEF Strand
<1>8. room \in Rooms /\ room.first = h.request.to /\ room.second = 0
  BY <1>4, <1>7 DEF Room, Rooms
<1>9. /\ TablesInv'
      /\ id \in Nat \ {0} /\ RoomAdded(c, id, room)
  <2>1. TablesInv
    BY DEF RoomsInv
  <2> QED
    BY <1>2, <1>5, <1>8, <2>1, WithRoomTables
<1>10. /\ t \in Tasks /\ t.do = "visit" /\ IsToken(t) /\ Strand(t) = h.request.to
       /\ t.request = h.request /\ t.sender_id = id
  BY <1>3, <1>7, <1>9 DEF Tasks, VisitTasks, IsToken, Strand
<1>11. \A s \in AllTasks : IsToken(s) => ~SameRoom(s, t) /\ ~SameRoom(t, s)
  BY <1>7, <1>9, <1>10 DEF RoomAdded, RoomsInv, ChatsInv, TokensHaveRooms, SameRoom
<1>12. /\ InPlace(tasks)' /\ TokensDiffer(tasks)'
       /\ AllTasks' = TasksOf(Popped(c)) \cup {t}
  <2>1. InPlace(tasks) /\ TokensDiffer(tasks)
    BY DEF RoomsInv
  <2> QED
    BY <1>5, <1>6, <1>7, <1>10, <1>11, <2>1, Forwarding
<1>13. ChatsInv'
  <2>1. AllTasks' \subseteq Tasks
    BY <1>10, <1>12 DEF TasksOf
  <2>2. \A s \in AllTasks' : IsToken(s) => \/ ContinuesAToken(s)
                                           \/ s.request.from = c /\ s.sender_id = id
                                              /\ room.first = s.request.to /\ room.first # c
    BY <1>5, <1>6, <1>7, <1>8, <1>10, <1>12 DEF ContinuesAToken
  <2>3. \A s \in AllTasks' : s.do = "confirm" => s \in AllTasks
    BY <1>6, <1>10, <1>12
  <2>4. TablesInv /\ ChatsInv
    BY DEF RoomsInv
  <2>5. opened \subseteq opened' /\ <<c, room.first>> \in opened'
    BY <1>5, <1>8
  <2>6. TasksFit(c, id, room)
    BY <2>1, <2>2, <2>3 DEF TasksFit
  <2> QED
    BY <1>8, <1>9, <2>4, <2>5, <2>6, NewRoomChats
<1>14. LostOnlyIfCrossed'
  <2>1. t \in AllTasks' /\ AllTasks \subseteq AllTasks' \cup {h}
    BY <1>6, <1>12
  <2> QED
    BY <1>5, <1>10, <1>12, <2>1, NothingLost DEF RoomsInv
<1>15. RequestsAreTyped'
  BY <1>5, <1>7 DEF RoomsInv, RequestsAreTyped
<1> QED
  BY <1>9, <1>12, <1>13, <1>14, <1>15 DEF RoomsInv

LEMMA OpenRoomToSelfStep ==
    ASSUME RoomsInv, NEW c \in Clients, OpenRoomToSelf(c)
    PROVE  RoomsInv'
<1>1. PICK h : h = Head(tasks[c])
  OBVIOUS
<1>2. PICK id : id = chat_rooms_id_[c]
  OBVIOUS
<1>3. PICK room : room = Room(c, id)
  OBVIOUS
<1>4. /\ tasks[c] # << >> /\ h.do = "open" /\ h.request.to = c
      /\ ~IsFull(c)
      /\ chat_rooms_id_' = [chat_rooms_id_ EXCEPT ![c] = id + 1]
      /\ chat_rooms_' = WithRoom(c, id, room)
      /\ tasks' = Popped(c)
      /\ opened' = opened \cup {<<c, c>>}
      /\ UNCHANGED <<guests_, asked, unanswered>>
  BY <1>1, <1>2, <1>3 DEF OpenRoomToSelf, IsNext, MayOpen
<1>5. /\ InPlace(tasks)' /\ TokensDiffer(tasks)'
      /\ h \in Tasks /\ Strand(h) = c
      /\ AllTasks \subseteq Tasks /\ AllTasks' \subseteq AllTasks
      /\ AllTasks \subseteq AllTasks' \cup {h}
      /\ TokensContinue
  BY <1>1, <1>4, TakeStep
<1>6. room \in Rooms /\ room.first = c
  BY <1>2, <1>3 DEF RoomsInv, TablesInv, Room, Rooms
<1>7. TablesInv /\ ChatsInv
  BY DEF RoomsInv
<1>8. /\ TablesInv'
      /\ RoomAdded(c, id, room)
  BY <1>2, <1>4, <1>6, <1>7, WithRoomTables
<1>9. ChatsInv'
  <2>1. opened \subseteq opened' /\ AllTasks' \subseteq Tasks
    BY <1>4, <1>5
  <2>2. \A s \in AllTasks' : IsToken(s) => \/ ContinuesAToken(s)
                                           \/ s.request.from = c /\ s.sender_id = id
                                              /\ room.first = s.request.to /\ room.first # c
    BY <1>5 DEF TokensContinue
  <2>3. \A s \in AllTasks' : s.do = "confirm" =>
            \/ s \in AllTasks
            \/ s.request.to = c /\ s.recipient_id = id /\ room = Room(c, s.sender_id)
    BY <1>5
  <2>4. room.first = c \/ (room.second = 0 /\ <<c, room.first>> \in opened')
    BY <1>6
  <2>5. TasksFit(c, id, room)
    BY <2>1, <2>2, <2>3 DEF TasksFit
  <2> QED
    BY <1>6, <1>7, <1>8, <2>1, <2>4, <2>5, NewRoomChats
<1>10. LostOnlyIfCrossed'
  <2>1. h.request.from = h.request.to
    BY <1>4, <1>5 DEF Strand
  <2> QED
    BY <1>4, <1>5, <2>1, NothingLost DEF RoomsInv
<1>11. RequestsAreTyped'
  BY <1>4 DEF RoomsInv, RequestsAreTyped
<1> QED
  BY <1>5, <1>8, <1>9, <1>10, <1>11 DEF RoomsInv

LEMMA VisitMakesRoomStep ==
    ASSUME RoomsInv, NEW c \in Clients, VisitMakesRoom(c)
    PROVE  RoomsInv'
<1>1. PICK h : h = Head(tasks[c])
  OBVIOUS
<1>2. PICK id : id = chat_rooms_id_[c]
  OBVIOUS
<1>3. PICK t : t = [do |-> "confirm", request |-> h.request,
                    sender_id |-> h.sender_id, recipient_id |-> id]
  OBVIOUS
<1>4. PICK room : room = Room(c, h.sender_id)
  OBVIOUS
<1>5. /\ tasks[c] # << >> /\ h.do = "visit" /\ ~IsFull(c)
      /\ chat_rooms_id_' = [chat_rooms_id_ EXCEPT ![c] = id + 1]
      /\ chat_rooms_' = WithRoom(c, id, room)
      /\ tasks' = Pushed(Popped(c), h.request.from, t)
      /\ UNCHANGED <<guests_, asked, unanswered, opened>>
  BY <1>1, <1>2, <1>3, <1>4 DEF VisitMakesRoom, IsNext
<1>6. /\ h \in AllTasks /\ h \in Tasks /\ Strand(h) = c
      /\ TasksOf(Popped(c)) \subseteq AllTasks
      /\ AllTasks \subseteq TasksOf(Popped(c)) \cup {h}
      /\ IsToken(h) => \A s \in TasksOf(Popped(c)) : IsToken(s) => ~SameRoom(s, h)
  BY <1>1, <1>5, TheRest DEF RoomsInv
<1>7. /\ IsToken(h) /\ h.request \in Requests /\ h.request.from \in Clients
      /\ h.request.to = c /\ h.sender_id \in Nat
  BY <1>5, <1>6, TaskFields DEF Strand, IsToken
<1>8. room \in Rooms /\ room.first = c
  BY <1>4, <1>7 DEF Room, Rooms
<1>9. TablesInv /\ ChatsInv /\ InPlace(tasks) /\ TokensDiffer(tasks)
  BY DEF RoomsInv
<1>10. /\ TablesInv'
       /\ id \in Nat \ {0} /\ RoomAdded(c, id, room)
  BY <1>2, <1>5, <1>8, <1>9, WithRoomTables
<1>11. /\ t \in Tasks /\ IsToken(t) /\ Strand(t) = h.request.from
       /\ t.request = h.request /\ t.sender_id = h.sender_id /\ t.recipient_id = id
  BY <1>3, <1>7, <1>10 DEF Tasks, ConfirmTasks, IsToken, Strand
<1>12. /\ InPlace(tasks)' /\ TokensDiffer(tasks)'
       /\ AllTasks' = TasksOf(Popped(c)) \cup {t}
  <2>1. \A s \in TasksOf(Popped(c)) : IsToken(s) => ~SameRoom(s, t) /\ ~SameRoom(t, s)
    BY <1>6, <1>7, <1>11 DEF SameRoom
  <2> QED
    BY <1>5, <1>7, <1>9, <1>11, <2>1, Forwarding
<1>13. ChatsInv'
  <2>1. AllTasks' \subseteq Tasks
    BY <1>11, <1>12 DEF TasksOf
  <2>2. \A s \in AllTasks' : IsToken(s) => \/ ContinuesAToken(s)
                                           \/ s.request.from = c /\ s.sender_id = id
                                              /\ room.first = s.request.to /\ room.first # c
    BY <1>6, <1>7, <1>11, <1>12 DEF ContinuesAToken
  <2>3. \A s \in AllTasks' : s.do = "confirm" =>
            \/ s \in AllTasks
            \/ s.request.to = c /\ s.recipient_id = id /\ room = Room(c, s.sender_id)
    BY <1>4, <1>6, <1>7, <1>11, <1>12
  <2>4. room.first = c \/ (room.second = 0 /\ <<c, room.first>> \in opened')
    BY <1>8
  <2>5. opened \subseteq opened'
    BY <1>5
  <2>6. TasksFit(c, id, room)
    BY <2>1, <2>2, <2>3 DEF TasksFit
  <2> QED
    BY <1>8, <1>9, <1>10, <2>4, <2>5, <2>6, NewRoomChats
<1>14. LostOnlyIfCrossed'
  <2>1. t \in AllTasks' /\ AllTasks \subseteq AllTasks' \cup {h}
    BY <1>6, <1>12
  <2> QED
    BY <1>5, <1>11, <1>12, <2>1, NothingLost DEF RoomsInv
<1>15. RequestsAreTyped'
  BY <1>5 DEF RoomsInv, RequestsAreTyped
<1> QED
  BY <1>10, <1>12, <1>13, <1>14, <1>15 DEF RoomsInv

(* The visit finds a room that waits: the requests have crossed.  Both     *)
(* rooms were opened, and the visitor's own visit is over.                 *)
LEMMA VisitMeetsStep ==
    ASSUME RoomsInv, NEW d \in Clients, NEW id \in DOMAIN chat_rooms_[d], VisitMeets(d, id)
    PROVE  RoomsInv'
<1>1. PICK h : h = Head(tasks[d])
  OBVIOUS
<1>2. /\ tasks[d] # << >> /\ h.do = "visit"
      /\ chat_rooms_[d][id].first = h.request.from /\ chat_rooms_[d][id].second = 0
      /\ chat_rooms_' = [chat_rooms_ EXCEPT ![d][id].second = h.sender_id]
      /\ tasks' = Popped(d)
      /\ UNCHANGED <<guests_, chat_rooms_id_, asked, unanswered, opened>>
  BY <1>1 DEF VisitMeets, IsNext, RoomsTo
<1>3. /\ InPlace(tasks)' /\ TokensDiffer(tasks)'
      /\ h \in AllTasks /\ h \in Tasks /\ Strand(h) = d
      /\ AllTasks \subseteq Tasks
      /\ AllTasks' \subseteq AllTasks
      /\ AllTasks \subseteq AllTasks' \cup {h}
      /\ IsToken(h) => \A t \in AllTasks' : IsToken(t) => ~SameRoom(t, h)
  BY <1>1, <1>2, TakeStep
<1>4. PICK c \in Clients : c = h.request.from
  BY <1>3, TaskFields
<1>5. PICK r \in Nat : r = h.sender_id
  BY <1>2, <1>3, TaskFields DEF IsToken
<1>6. IsToken(h) /\ h.request.to = d
  BY <1>2, <1>3 DEF IsToken, Strand
<1>7. TablesInv /\ ChatsInv
  BY DEF RoomsInv
<1>8. c # d /\ r \in DOMAIN chat_rooms_[c] /\ chat_rooms_[c][r].first = d
  BY <1>3, <1>4, <1>5, <1>6, <1>7 DEF ChatsInv, TokensHaveRooms
<1>9. /\ TablesInv'
      /\ RoomChanged(d, id, Room(c, r))
  <2>1. chat_rooms_' = [chat_rooms_ EXCEPT ![d][id].second = r]
    BY <1>2, <1>5, Zenon
  <2>2. TablesInv' /\ RoomChanged(d, id, Room(chat_rooms_[d][id].first, r))
    BY <1>2, <1>7, <2>1, LearningTables, Zenon
  <2> QED
    BY <1>2, <1>4, <2>2, Zenon
<1>10. <<d, c>> \in opened /\ <<c, d>> \in opened
  BY <1>2, <1>4, <1>7, <1>8 DEF ChatsInv, RoomsWereOpened
<1>11. IsSettled(c, r)'
  BY <1>3, <1>4, <1>5, <1>6 DEF IsSettled, SameRoom, IsToken
<1>12. EndStays(d, id)'
  BY <1>8, <1>9, <1>11 DEF EndStays, Room, RoomChanged
<1>13. ASSUME NEW t \in AllTasks', IsToken(t), t.request.from = d, t.sender_id = id
       PROVE  <<t.request.to, t.request.from>> \in opened
  BY <1>2, <1>3, <1>4, <1>7, <1>10, <1>13 DEF ChatsInv, TokensHaveRooms
<1>14. ChatsInv'
  <2>1. /\ RoomChanged(d, id, Room(chat_rooms_[d][id].first, r))
        /\ chat_rooms_[d][id].first # d
    BY <1>2, <1>4, <1>8, <1>9
  <2> QED
    BY <1>2, <1>3, <1>7, <1>9, <1>12, <1>13, <2>1, LearningChats
<1>15. LostOnlyIfCrossed'
  BY <1>2, <1>3, <1>4, <1>6, <1>10, NothingLost DEF RoomsInv
<1>16. RequestsAreTyped'
  BY <1>2 DEF RoomsInv, RequestsAreTyped
<1> QED
  BY <1>3, <1>9, <1>14, <1>15, <1>16 DEF RoomsInv

(* The room that is given up has a token until now: no other room has it   *)
(* as its end.                                                             *)
LEMMA EraseRoomStep ==
    ASSUME RoomsInv, NEW c \in Clients, EraseRoom(c)
    PROVE  RoomsInv'
<1>1. PICK h : h = Head(tasks[c])
  OBVIOUS
<1>2. PICK id : id = h.sender_id
  OBVIOUS
<1>3. /\ tasks[c] # << >> /\ h.do = "erase"
      /\ chat_rooms_' = [chat_rooms_ EXCEPT ![c] = Restrict(@, DOMAIN @ \ {id})]
      /\ tasks' = Popped(c)
      /\ unanswered' = unanswered \ {h.request}
      /\ UNCHANGED <<guests_, chat_rooms_id_, asked, opened>>
  BY <1>1, <1>2 DEF EraseRoom, IsNext, Answer
<1>4. /\ InPlace(tasks)' /\ TokensDiffer(tasks)'
      /\ h \in AllTasks /\ h \in Tasks /\ Strand(h) = c
      /\ AllTasks \subseteq Tasks
      /\ AllTasks' \subseteq AllTasks
      /\ AllTasks \subseteq AllTasks' \cup {h}
      /\ IsToken(h) => \A t \in AllTasks' : IsToken(t) => ~SameRoom(t, h)
  BY <1>1, <1>3, TakeStep
<1>5. IsToken(h) /\ h.request.from = c
  BY <1>3, <1>4 DEF IsToken, Strand
<1>6. TablesInv /\ ChatsInv
  BY DEF RoomsInv
<1>7. id \in DOMAIN chat_rooms_[c] /\ chat_rooms_[c][id].first # c
  BY <1>2, <1>4, <1>5, <1>6 DEF ChatsInv, TokensHaveRooms
<1>8. TablesInv' /\ RoomRemoved(c, id)
  BY <1>3, <1>6, ErasingTables
<1>9. ~IsSettled(c, id) /\ IsSettled(c, id)'
  BY <1>2, <1>4, <1>5 DEF IsSettled, SameRoom, IsToken
<1>10. ChatsInv'
  BY <1>3, <1>4, <1>6, <1>7, <1>8, <1>9, ErasingChats
<1>11. LostOnlyIfCrossed'
  BY <1>3, <1>4, NothingLost DEF RoomsInv
<1>12. RequestsAreTyped'
  BY <1>3 DEF RoomsInv, RequestsAreTyped
<1> QED
  BY <1>4, <1>8, <1>10, <1>11, <1>12 DEF RoomsInv

LEMMA ConfirmStep ==
    ASSUME RoomsInv, NEW c \in Clients, Confirm(c)
    PROVE  RoomsInv'
<1>1. PICK h : h = Head(tasks[c])
  OBVIOUS
<1>2. PICK id : id = h.sender_id
  OBVIOUS
<1>3. PICK p : p = h.recipient_id
  OBVIOUS
<1>4. /\ tasks[c] # << >> /\ h.do = "confirm"
      /\ tasks' = Popped(c)
      /\ \/ /\ chat_rooms_' = [chat_rooms_ EXCEPT ![c][id].second = p]
            /\ unanswered' = unanswered \ {h.request}
         \/ /\ ~MayConfirm(c, id)
            /\ UNCHANGED <<chat_rooms_, unanswered>>
      /\ UNCHANGED <<guests_, chat_rooms_id_, asked, opened>>
  BY <1>1, <1>2, <1>3, Zenon DEF Confirm, IsNext, Answer
<1>5. /\ InPlace(tasks)' /\ TokensDiffer(tasks)'
      /\ h \in AllTasks /\ h \in Tasks /\ Strand(h) = c
      /\ AllTasks \subseteq Tasks
      /\ AllTasks' \subseteq AllTasks
      /\ AllTasks \subseteq AllTasks' \cup {h}
      /\ IsToken(h) => \A t \in AllTasks' : IsToken(t) => ~SameRoom(t, h)
      /\ TokensContinue
  BY <1>1, <1>4, TakeStep
<1>6. IsToken(h) /\ h.request.from = c /\ id \in Nat /\ p \in Nat
  BY <1>2, <1>3, <1>4, <1>5, TaskFields DEF IsToken, Strand
<1>7. TablesInv /\ ChatsInv
  BY DEF RoomsInv
<1>8. PICK d \in Clients : d = h.request.to
  BY <1>5, TaskFields
<1>9. /\ id \in DOMAIN chat_rooms_[c] /\ chat_rooms_[c][id].first = d /\ d # c
      /\ p \in DOMAIN chat_rooms_[d] /\ chat_rooms_[d][p] = Room(d, id)
  BY <1>2, <1>3, <1>4, <1>5, <1>6, <1>7, <1>8
     DEF ChatsInv, TokensHaveRooms, ConfirmedRoomsExist
<1>10. unanswered' \subseteq unanswered
  BY <1>4, Zenon
<1>11. RequestsAreTyped'
  BY <1>4, <1>10, Zenon DEF RoomsInv, RequestsAreTyped
<1>12. CASE /\ chat_rooms_' = [chat_rooms_ EXCEPT ![c][id].second = p]
            /\ unanswered' = unanswered \ {h.request}
  <2>0. UNCHANGED chat_rooms_id_ /\ opened' = opened
    BY <1>4, Zenon
  <2>1. TablesInv' /\ RoomChanged(c, id, Room(chat_rooms_[c][id].first, p))
    BY <1>6, <1>7, <1>9, <1>12, <2>0, LearningTables, Zenon
  <2>2. EndStays(c, id)'
    <3>1. chat_rooms_'[c][id] = Room(d, p) /\ chat_rooms_'[d] = chat_rooms_[d]
      BY <1>9, <2>1 DEF RoomChanged
    <3>2. chat_rooms_'[c][id].first = d /\ chat_rooms_'[c][id].second = p
      BY <3>1 DEF Room
    <3> QED
      BY <1>9, <3>1, <3>2 DEF EndStays, Room
  <2>3. ASSUME NEW t \in AllTasks', IsToken(t), t.request.from = c, t.sender_id = id
        PROVE  FALSE
    BY <1>2, <1>5, <1>6, <2>3 DEF SameRoom
  <2>4. ChatsInv'
    <3>1. chat_rooms_[c][id].first # c /\ opened' = opened
          /\ AllTasks \subseteq Tasks /\ AllTasks' \subseteq AllTasks
      BY <1>5, <1>9, <2>0, Zenon
    <3> QED
      BY <1>7, <1>9, <2>1, <2>2, <2>3, <3>1, LearningChats, Zenon
  <2>5. LostOnlyIfCrossed'
    <3>1. h.request \notin unanswered'
      BY <1>12, Zenon
    <3> QED
      BY <1>5, <1>10, <2>0, <3>1, NothingLost DEF RoomsInv
  <2> QED
    BY <1>5, <1>11, <2>1, <2>4, <2>5 DEF RoomsInv
<1>13. CASE ~MayConfirm(c, id) /\ UNCHANGED <<chat_rooms_, unanswered>>
  <2>0. UNCHANGED <<chat_rooms_, chat_rooms_id_, opened, unanswered>>
    BY <1>4, <1>13, Zenon
  <2>1. ChatsInv'
    BY <1>5, <1>7, <2>0, SameTables
  <2>2. <<d, c>> \in opened
    BY <1>2, <1>5, <1>6, <1>7, <1>8, <1>9, <1>13
       DEF MayConfirm, ChatsInv, MetRoomsWereCrossed
  <2>3. LostOnlyIfCrossed'
    BY <1>5, <1>6, <1>8, <2>0, <2>2, NothingLost DEF RoomsInv
  <2>4. TablesInv'
    BY <1>7, <2>0 DEF TablesInv
  <2> QED
    BY <1>5, <1>11, <2>1, <2>3, <2>4 DEF RoomsInv
<1> QED
  BY <1>4, <1>12, <1>13, Zenon

LEMMA RoomsNext == RoomsInv /\ [Next]_vars => RoomsInv'
<1> SUFFICES ASSUME RoomsInv, [Next]_vars
             PROVE  RoomsInv'
  OBVIOUS
<1>1. CASE UNCHANGED vars
  BY <1>1, IdleStep DEF vars, RoomsInv, RequestsAreTyped
<1>2. ASSUME NEW c \in Clients, NEW d \in Clients, NewDirect(c, d)
      PROVE  RoomsInv'
  BY <1>2, NewDirectStep
<1>3. ASSUME NEW c \in Clients, Disconnect(c)
      PROVE  RoomsInv'
  BY <1>3, IdleStep DEF Disconnect, RoomsInv, RequestsAreTyped
<1>4. ASSUME NEW c \in Clients, Task(c)
      PROVE  RoomsInv'
  <2>1. CASE OpenRefused(c)
    BY <2>1, RefuseStep DEF OpenRefused, IsNext
  <2>2. CASE OpenRoom(c)
    BY <2>2, OpenRoomStep
  <2>3. CASE OpenRoomToSelf(c)
    BY <2>3, OpenRoomToSelfStep
  <2>4. ASSUME NEW id \in DOMAIN chat_rooms_[c], VisitMeets(c, id)
        PROVE  RoomsInv'
    BY <2>4, VisitMeetsStep
  <2>5. ASSUME NEW id \in DOMAIN chat_rooms_[c], VisitFinds(c, id)
        PROVE  RoomsInv'
    BY <2>5, RefuseStep DEF VisitFinds, IsNext
  <2>6. CASE VisitFull(c)
    BY <2>6, VisitFullStep
  <2>7. CASE VisitMakesRoom(c)
    BY <2>7, VisitMakesRoomStep
  <2>8. CASE EraseRoom(c)
    BY <2>8, EraseRoomStep
  <2>9. CASE Confirm(c)
    BY <2>9, ConfirmStep
  <2> QED
    BY <1>4, <2>1, <2>2, <2>3, <2>4, <2>5, <2>6, <2>7, <2>8, <2>9 DEF Task
<1> QED
  BY <1>1, <1>2, <1>3, <1>4 DEF Next

LEMMA RoomsAlways == Spec => []RoomsInv
  BY RoomsInit, RoomsNext, PTL DEF Spec

LEMMA RoomsImplyChatInv == RoomsInv => ChatInv
<1> SUFFICES ASSUME RoomsInv
             PROVE  ChatInv
  OBVIOUS
<1>1. TypeOK
  <2>1. ASSUME NEW c \in Clients, NEW id \in DOMAIN chat_rooms_[c]
        PROVE  /\ id \in 1..(chat_rooms_id_[c] - 1)
               /\ chat_rooms_[c][id] \in [first : Clients, second : Nat]
    BY DEF RoomsInv, TablesInv, Rooms
  <2> QED
    BY <2>1 DEF TypeOK, RoomsInv, TablesInv, RequestsAreTyped, Requests
<1>2. ASSUME NEW c \in Clients, NEW d \in Clients \ {c}
      PROVE  Cardinality(RoomsTo(c, d)) <= 1
  <2>1. CASE RoomsTo(c, d) = {}
    <3>1. Cardinality(RoomsTo(c, d)) = 0
      BY <2>1, FS_EmptySet, Zenon
    <3> QED
      BY <3>1
  <2>2. CASE RoomsTo(c, d) # {}
    <3>1. PICK k : k \in RoomsTo(c, d)
      BY <2>2
    <3>2. RoomsTo(c, d) = {k}
      BY <3>1 DEF RoomsTo, RoomsInv, TablesInv
    <3>3. Cardinality(RoomsTo(c, d)) = 1
      BY <3>2, FS_Singleton, Zenon
    <3> QED
      BY <3>3
  <2> QED
    BY <2>1, <2>2
<1>3. \A c \in Clients : Cardinality(DOMAIN chat_rooms_[c]) <= MaxRooms
  BY DEF RoomsInv, TablesInv
<1> QED
  BY <1>1, <1>2, <1>3 DEF ChatInv

(* No table outgrows its limit, and no client has two rooms that lead to   *)
(* one other client, in whatever order the strands run: a table is only    *)
(* filled on its own strand, under a new id and after the check.           *)
THEOREM TablesStayWithinLimits == Spec => []ChatInv
  BY RoomsAlways, RoomsImplyChatInv, PTL

(* A room that knows its other end knows one that is there and belongs to  *)
(* the same pair.  A room is only given up while its own task is under     *)
(* way, and no other room has learnt its id by then.                       *)
THEOREM TheEndsBelongTogether == Spec => []EndsBelongTogether
<1>1. RoomsInv => EndsBelongTogether
  BY DEF RoomsInv, ChatsInv, EndsStay, EndStays, EndsBelongTogether
<1> QED
  BY RoomsAlways, <1>1, PTL

(* A request that is neither answered nor under way was to oneself, or     *)
(* crossed one in the other direction.                                     *)
THEOREM OnlyCrossedRequestsAreLost == Spec => []LostOnlyIfCrossed
<1>1. RoomsInv => LostOnlyIfCrossed
  BY DEF RoomsInv
<1> QED
  BY RoomsAlways, <1>1, PTL
=============================================================================
