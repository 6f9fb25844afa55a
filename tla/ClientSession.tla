--------------------------- MODULE ClientSession ---------------------------
(***************************************************************************)
(* What a client is to the server between OnConnect and OnDisconnect: its  *)
(* username, its entry in guests_, its channels and its place among the    *)
(* viewers of the list of virtual machines (CollabVmSocket in              *)
(* src/CollabVmServer.hpp).                                                *)
(*                                                                         *)
(* Each of these is guarded by a strand of its own and a request hops from *)
(* one to the next: the username of the client, guests_, virtual_machines_,*)
(* a channel, sessions_.  tasks holds the queue of every strand; a step is *)
(* one handler, which runs to its end and may dispatch further ones.       *)
(* dispatch may run a handler at once if its strand is free; that is the   *)
(* case in which the queued task is the next to run.                       *)
(*                                                                         *)
(* Left out: captchas (none is required), the deletion of virtual machines *)
(* and the user type shown beside a name.                                  *)
(***************************************************************************)
EXTENDS Integers, Sequences, FiniteSets

CONSTANTS
    Clients, NoClient,
    Names,             \* usernames
    Accounts,          \* names of registered accounts
    Vms,
    Global,            \* global_channel_id, which is also "no VM" (0)
    GuestsDisallowed,  \* virtual machines with disallowGuests
    MaxMessages,       \* bound: messages of all clients
    MaxDisconnects     \* bound: clients that disconnect

ASSUME SessionConstants ==
    /\ NoClient \notin Clients
    /\ "" \notin Names
    /\ Accounts \subseteq Names
    /\ Global \notin Vms
    /\ GuestsDisallowed \subseteq Vms
    /\ MaxMessages \in Nat
    /\ MaxDisconnects \in Nat

VARIABLES
    tasks,             \* the queue of each strand
    open,              \* the client is connected: OnDisconnect has not run
    sent,              \* number of messages sent so far
    username_, is_logged_in_,
    connected_vm_id_, is_in_global_chat_, is_viewing_vm_list_,
    guests_,           \* who holds each name, or NoClient
    users_,            \* for each channel, the name shown for each user in it
    vm_list_viewers_,  \* how often each client is in the list
    tested,            \* what the calls of LeaveVmList under way found is_viewing_vm_list_ to be
    careless,          \* history: the client did not wait, or came to the VM it was in
    raced              \* history: LeaveVmList was past its test when another call cleared the flag

vars == <<tasks, open, sent, username_, is_logged_in_, connected_vm_id_,
          is_in_global_chat_, is_viewing_vm_list_, guests_, users_, vm_list_viewers_,
          tested, careless, raced>>

Channels == Vms \cup {Global}
NoName == ""

Username(c) == <<"username_", c>>
Channel(ch) == <<"channel", ch>>
Guests == <<"guests_", NoClient>>
VmList == <<"virtual_machines_", NoClient>>
Sessions == <<"sessions_", NoClient>>

Strands == {Username(c) : c \in Clients} \cup {Channel(ch) : ch \in Channels}
           \cup {Guests, VmList, Sessions}

Init ==
    /\ tasks = [s \in Strands |-> << >>]
    /\ open = [c \in Clients |-> TRUE]
    /\ sent = 0
    /\ username_ = [c \in Clients |-> NoName]
    /\ is_logged_in_ = [c \in Clients |-> FALSE]
    /\ connected_vm_id_ = [c \in Clients |-> Global]
    /\ is_in_global_chat_ = [c \in Clients |-> FALSE]
    /\ is_viewing_vm_list_ = [c \in Clients |-> FALSE]
    /\ guests_ = [n \in Names |-> NoClient]
    /\ users_ = [ch \in Channels |-> [c \in Clients |-> NoName]]
    /\ vm_list_viewers_ = [c \in Clients |-> 0]
    /\ tested = [c \in Clients |-> {}]
    /\ careless = [c \in Clients |-> FALSE]
    /\ raced = [c \in Clients |-> FALSE]

(* dispatch: the task waits for its turn on strand s. *)
Push(q, s, task) == [q EXCEPT ![s] = Append(@, task)]
PushIf(cond, q, s, task) == IF cond THEN Push(q, s, task) ELSE q

(* The next task of strand s is a do, of client c; the queues without it. *)
IsNext(s, do, c) == tasks[s] # << >> /\ Head(tasks[s]).do = do /\ Head(tasks[s]).client = c
Popped(s) == [tasks EXCEPT ![s] = Tail(@)]

(* A request of c is under way on some strand. *)
Busy(c) == \E s \in Strands : \E i \in 1..Len(tasks[s]) : tasks[s][i].client = c
-----------------------------------------------------------------------------
(* Messages of a client (HandleMessage). *)
Message(c, s, task, is_careless) ==
    /\ open[c]
    /\ sent < MaxMessages
    /\ sent' = sent + 1
    /\ tasks' = Push(tasks, s, task)
    /\ careless' = [careless EXCEPT ![c] = @ \/ Busy(c) \/ is_careless]
    /\ UNCHANGED <<open, username_, is_logged_in_, connected_vm_id_, is_in_global_chat_,
                   is_viewing_vm_list_, guests_, users_, vm_list_viewers_, tested, raced>>

ConnectToChannel(c, ch) ==
    Message(c, Username(c), [do |-> "connect", client |-> c, channel |-> ch],
            ch # Global /\ ch = connected_vm_id_[c])

ChangeUsername(c, name) ==
    /\ ~is_logged_in_[c]
    /\ Message(c, Username(c), [do |-> "rename", client |-> c, name |-> name], FALSE)

VmListRequest(c) ==
    Message(c, VmList, [do |-> "view", client |-> c], FALSE)

(* LOGIN_REQUEST or a registration, up to CreateSession.  The captcha and  *)
(* the login strand come before; a client waits there for itself only.     *)
LoginRequest(c, account) ==
    Message(c, Sessions, [do |-> "login", client |-> c, name |-> account], FALSE)

(* LeaveVmList tests the plain bool is_viewing_vm_list_ and clears it      *)
(* later, on whichever thread calls it: on the strand of a channel for a   *)
(* join, on the socket's side for OnDisconnect.  Calls on different ones   *)
(* run in parallel: a call may make its test in a step of its own, before  *)
(* the step that acts on it.                                               *)
Socket == <<"OnDisconnect", NoClient>>
Callers == {Channel(ch) : ch \in Channels} \cup {Socket}

Test(c, by) ==
    /\ tested[c] \cap ({by} \X BOOLEAN) = {}
    /\ tested' = [tested EXCEPT ![c] = @ \cup {<<by, is_viewing_vm_list_[c]>>}]
    /\ UNCHANGED <<tasks, open, sent, username_, is_logged_in_, connected_vm_id_,
                   is_in_global_chat_, is_viewing_vm_list_, guests_, users_,
                   vm_list_viewers_, careless, raced>>

(* The outcome of the test, made before or only now. *)
FindsViewing(c, by) ==
    \/ <<by, TRUE>> \in tested[c]
    \/ is_viewing_vm_list_[c] /\ <<by, FALSE>> \notin tested[c]

(* The rest of LeaveVmList: the queues after it, and the flag. *)
Unviewed(q, c, by) ==
    PushIf(FindsViewing(c, by), q, VmList, [do |-> "unview", client |-> c])

LeaveVmList(c, by) ==
    /\ is_viewing_vm_list_' = [is_viewing_vm_list_ EXCEPT ![c] = @ /\ ~FindsViewing(c, by)]
    /\ raced' = [raced EXCEPT ![c] = @ \/ (FindsViewing(c, by) /\ ~is_viewing_vm_list_[c])]
    /\ tested' = [tested EXCEPT ![c] = @ \ ({by} \X BOOLEAN)]

(* Close runs OnDisconnect once for a client. *)
MayDisconnect(c) ==
    open[c] /\ Cardinality({d \in Clients : ~open[d]}) < MaxDisconnects

DisconnectTest(c) == MayDisconnect(c) /\ Test(c, Socket)

(* OnDisconnect. *)
Disconnect(c) ==
    LET left == Unviewed(tasks, c, Socket)
        released == Push(left, Username(c), [do |-> "release", client |-> c])
        left_vm == PushIf(connected_vm_id_[c] # Global, released, VmList,
                          [do |-> "leave", client |-> c, channel |-> connected_vm_id_[c]])
    IN
    /\ MayDisconnect(c)
    /\ open' = [open EXCEPT ![c] = FALSE]
    /\ LeaveVmList(c, Socket)
    /\ tasks' = PushIf(is_in_global_chat_[c], left_vm, Channel(Global),
                       [do |-> "leave", client |-> c, channel |-> Global])
    /\ careless' = [careless EXCEPT ![c] = @ \/ Busy(c)]
    /\ UNCHANGED <<sent, username_, is_logged_in_, connected_vm_id_, is_in_global_chat_,
                   guests_, users_, vm_list_viewers_>>
-----------------------------------------------------------------------------
(* The lambda connect_to_channel of CONNECT_TO_CHANNEL, for a client that  *)
(* has a name.                                                             *)
ConnectNamed(q, c, name, ch) ==
    LET task == [do |-> "join", client |-> c, channel |-> ch, name |-> name] IN
    IF ch = Global
    THEN /\ tasks' = PushIf(~is_in_global_chat_[c], q, Channel(Global), task)
         /\ is_in_global_chat_' = [is_in_global_chat_ EXCEPT ![c] = TRUE]
    ELSE /\ tasks' = Push(q, VmList, task)
         /\ UNCHANGED is_in_global_chat_

(* Tasks on the strand of the username. *)
ConnectTask(c) ==
    LET s == Username(c)
        ch == Head(tasks[s]).channel
    IN
    /\ IsNext(s, "connect", c)
    /\ IF username_[c] = NoName
       THEN /\ tasks' = Push(Popped(s), Guests,
                             [do |-> "generate", client |-> c, channel |-> ch])
            /\ UNCHANGED is_in_global_chat_
       ELSE ConnectNamed(Popped(s), c, username_[c], ch)
    /\ UNCHANGED <<open, sent, username_, is_logged_in_, connected_vm_id_,
                   is_viewing_vm_list_, guests_, users_, vm_list_viewers_, tested, careless,
                   raced>>

RenameTask(c) ==
    LET s == Username(c)
        name == Head(tasks[s]).name
    IN
    /\ IsNext(s, "rename", c)
    /\ tasks' = PushIf(username_[c] # name, Popped(s), Guests,
                       [do |-> "rename", client |-> c, name |-> name, old |-> username_[c]])
    /\ UNCHANGED <<open, sent, username_, is_logged_in_, connected_vm_id_, is_in_global_chat_,
                   is_viewing_vm_list_, guests_, users_, vm_list_viewers_, tested, careless,
                   raced>>

(* SetUserData's task: the channels learn of a change of name. *)
SetUserData(c) ==
    LET s == Username(c)
        name == Head(tasks[s]).name
        shown == username_[c] # NoName
        id == connected_vm_id_[c]
        vm_told == PushIf(shown /\ id # Global, Popped(s), VmList,
                          [do |-> "update", client |-> c, channel |-> id, name |-> name])
    IN
    /\ IsNext(s, "set", c)
    /\ username_' = [username_ EXCEPT ![c] = name]
    /\ tasks' = PushIf(shown /\ is_in_global_chat_[c], vm_told, Channel(Global),
                       [do |-> "update", client |-> c, channel |-> Global, name |-> name])
    /\ UNCHANGED <<open, sent, is_logged_in_, connected_vm_id_, is_in_global_chat_,
                   is_viewing_vm_list_, guests_, users_, vm_list_viewers_, tested, careless,
                   raced>>

(* OnDisconnect's task moves the name out. *)
ReleaseUsername(c) ==
    LET s == Username(c) IN
    /\ IsNext(s, "release", c)
    /\ tasks' = PushIf(username_[c] # NoName, Popped(s), Guests,
                       [do |-> "erase", client |-> c, name |-> username_[c]])
    /\ username_' = [username_ EXCEPT ![c] = NoName]
    /\ UNCHANGED <<open, sent, is_logged_in_, connected_vm_id_, is_in_global_chat_,
                   is_viewing_vm_list_, guests_, users_, vm_list_viewers_, tested, careless,
                   raced>>
-----------------------------------------------------------------------------
(* Tasks on the strand of guests_.  GenerateUsername tries numbers until   *)
(* one is free, so the name is any free one.                               *)
GenerateUsername(c, name) ==
    /\ IsNext(Guests, "generate", c)
    /\ guests_[name] = NoClient
    /\ guests_' = [guests_ EXCEPT ![name] = c]
    /\ ConnectNamed(Push(Popped(Guests), Username(c),
                         [do |-> "set", client |-> c, name |-> name]),
                    c, name, Head(tasks[Guests]).channel)
    /\ UNCHANGED <<open, sent, username_, is_logged_in_, connected_vm_id_,
                   is_viewing_vm_list_, users_, vm_list_viewers_, tested, careless, raced>>

(* Mutant of RenameGuest: the old name stays taken. *)
RenameGuestKeeps(c) ==
    LET task == Head(tasks[Guests]) IN
    /\ IsNext(Guests, "rename", c)
    /\ IF guests_[task.name] # NoClient
       THEN tasks' = Popped(Guests) /\ UNCHANGED guests_
       ELSE /\ guests_' = [guests_ EXCEPT ![task.name] = c]
            /\ tasks' = Push(Popped(Guests), Username(c),
                             [do |-> "set", client |-> c, name |-> task.name])
    /\ UNCHANGED <<open, sent, username_, is_logged_in_, connected_vm_id_, is_in_global_chat_,
                   is_viewing_vm_list_, users_, vm_list_viewers_, tested, careless, raced>>

(* The rest of CHANGE_USERNAME: the new name must be free, the old one is  *)
(* given back.                                                             *)
RenameGuest(c) ==
    LET task == Head(tasks[Guests]) IN
    /\ IsNext(Guests, "rename", c)
    /\ IF guests_[task.name] # NoClient
       THEN tasks' = Popped(Guests) /\ UNCHANGED guests_
       ELSE /\ guests_' = [n \in Names |-> IF n = task.name THEN c
                                           ELSE IF n = task.old THEN NoClient
                                           ELSE guests_[n]]
            /\ tasks' = Push(Popped(Guests), Username(c),
                             [do |-> "set", client |-> c, name |-> task.name])
    /\ UNCHANGED <<open, sent, username_, is_logged_in_, connected_vm_id_, is_in_global_chat_,
                   is_viewing_vm_list_, users_, vm_list_viewers_, tested, careless, raced>>

(* The end of OnDisconnect's task: whoever holds the name. *)
EraseGuest(c) ==
    /\ IsNext(Guests, "erase", c)
    /\ tasks' = Popped(Guests)
    /\ guests_' = [guests_ EXCEPT ![Head(tasks[Guests]).name] = NoClient]
    /\ UNCHANGED <<open, sent, username_, is_logged_in_, connected_vm_id_, is_in_global_chat_,
                   is_viewing_vm_list_, users_, vm_list_viewers_, tested, careless, raced>>

(* CreateSession's task on the strand of sessions_, and its SetUserData.   *)
(* The guest name of the client is not given back.                         *)
CreateSession(c) ==
    /\ IsNext(Sessions, "login", c)
    /\ is_logged_in_' = [is_logged_in_ EXCEPT ![c] = TRUE]
    /\ tasks' = Push(Popped(Sessions), Username(c),
                     [do |-> "set", client |-> c, name |-> Head(tasks[Sessions]).name])
    /\ UNCHANGED <<open, sent, username_, connected_vm_id_, is_in_global_chat_,
                   is_viewing_vm_list_, guests_, users_, vm_list_viewers_, tested, careless,
                   raced>>
-----------------------------------------------------------------------------
(* Tasks on the strand of virtual_machines_: finding the machine. *)
GetAdminVirtualMachine(c) ==
    LET task == Head(tasks[VmList]) IN
    /\ \E do \in {"join", "leave", "update"} : IsNext(VmList, do, c)
    /\ tasks' = Push(Popped(VmList), Channel(task.channel), task)
    /\ UNCHANGED <<open, sent, username_, is_logged_in_, connected_vm_id_, is_in_global_chat_,
                   is_viewing_vm_list_, guests_, users_, vm_list_viewers_, tested, careless,
                   raced>>

AddVmListViewer(c) ==
    /\ IsNext(VmList, "view", c)
    /\ tasks' = Popped(VmList)
    /\ is_viewing_vm_list_' = [is_viewing_vm_list_ EXCEPT ![c] = TRUE]
    /\ vm_list_viewers_' = [vm_list_viewers_ EXCEPT
                              ![c] = IF is_viewing_vm_list_[c] THEN @ ELSE @ + 1]
    /\ UNCHANGED <<open, sent, username_, is_logged_in_, connected_vm_id_,
                   is_in_global_chat_, guests_, users_, tested, careless, raced>>

RemoveVmListViewer(c) ==
    /\ IsNext(VmList, "unview", c)
    /\ tasks' = Popped(VmList)
    /\ vm_list_viewers_' = [vm_list_viewers_ EXCEPT ![c] = IF @ > 0 THEN @ - 1 ELSE @]
    /\ UNCHANGED <<open, sent, username_, is_logged_in_, connected_vm_id_, is_in_global_chat_,
                   is_viewing_vm_list_, guests_, users_, tested, careless, raced>>
-----------------------------------------------------------------------------
(* Mutants of Join: the other VM is not left; the client goes on viewing   *)
(* the list.                                                               *)
JoinStays(c, ch) ==
    LET s == Channel(ch) IN
    /\ IsNext(s, "join", c)
    /\ tasks' = Unviewed(Popped(s), c, s)
    /\ LeaveVmList(c, s)
    /\ connected_vm_id_' = [connected_vm_id_ EXCEPT ![c] = ch]
    /\ users_' = [users_ EXCEPT ![ch][c] = IF @ = NoName THEN Head(tasks[s]).name ELSE @]
    /\ UNCHANGED <<open, sent, username_, is_logged_in_, is_in_global_chat_, guests_,
                   vm_list_viewers_, careless>>

JoinStillViewing(c, ch) ==
    LET s == Channel(ch)
        id == connected_vm_id_[c]
    IN
    /\ IsNext(s, "join", c)
    /\ tasks' = PushIf(id # Global, Unviewed(Popped(s), c, s), VmList,
                       [do |-> "leave", client |-> c, channel |-> id])
    /\ connected_vm_id_' = [connected_vm_id_ EXCEPT ![c] = ch]
    /\ users_' = [users_ EXCEPT ![ch][c] = IF @ = NoName THEN Head(tasks[s]).name ELSE @]
    /\ UNCHANGED <<open, sent, username_, is_logged_in_, is_in_global_chat_, guests_,
                   is_viewing_vm_list_, vm_list_viewers_, tested, careless, raced>>

MayEnter(c, ch) == ch \in GuestsDisallowed => is_logged_in_[c]

JoinTest(c, ch) ==
    /\ IsNext(Channel(ch), "join", c)
    /\ MayEnter(c, ch)
    /\ Test(c, Channel(ch))

(* Tasks on the strand of a channel.  The end of CONNECT_TO_CHANNEL leaves *)
(* the list and the other VM, by tasks that run later, and enters.         *)
Join(c, ch) ==
    LET s == Channel(ch)
        id == connected_vm_id_[c]
        left_list == Unviewed(Popped(s), c, s)
    IN
    /\ IsNext(s, "join", c)
    /\ IF ~MayEnter(c, ch)
       THEN /\ tasks' = Popped(s)
            /\ UNCHANGED <<is_viewing_vm_list_, connected_vm_id_, users_, tested, raced>>
       ELSE /\ tasks' = PushIf(id # Global, left_list, VmList,
                               [do |-> "leave", client |-> c, channel |-> id])
            /\ LeaveVmList(c, s)
            /\ connected_vm_id_' = [connected_vm_id_ EXCEPT ![c] = ch]
            /\ users_' = [users_ EXCEPT ![ch][c] =
                             IF @ = NoName THEN Head(tasks[s]).name ELSE @]
    /\ UNCHANGED <<open, sent, username_, is_logged_in_, is_in_global_chat_, guests_,
                   vm_list_viewers_, careless>>

Leave(c, ch) ==
    LET s == Channel(ch) IN
    /\ IsNext(s, "leave", c)
    /\ tasks' = Popped(s)
    /\ users_' = [users_ EXCEPT ![ch][c] = NoName]
    /\ UNCHANGED <<open, sent, username_, is_logged_in_, connected_vm_id_, is_in_global_chat_,
                   is_viewing_vm_list_, guests_, vm_list_viewers_, tested, careless, raced>>

(* update_username of SetUserData. *)
UpdateUsername(c, ch) ==
    LET s == Channel(ch) IN
    /\ IsNext(s, "update", c)
    /\ tasks' = Popped(s)
    /\ users_' = [users_ EXCEPT ![ch][c] =
                     IF @ = NoName THEN NoName ELSE Head(tasks[s]).name]
    /\ UNCHANGED <<open, sent, username_, is_logged_in_, connected_vm_id_, is_in_global_chat_,
                   is_viewing_vm_list_, guests_, vm_list_viewers_, tested, careless, raced>>

ClientNext(c) ==
    \/ \E ch \in Channels : ConnectToChannel(c, ch)
    \/ \E name \in Names : ChangeUsername(c, name)
    \/ \E account \in Accounts : LoginRequest(c, account)
    \/ VmListRequest(c)
    \/ DisconnectTest(c) \/ Disconnect(c)

TaskNext(c) ==
    \/ ConnectTask(c) \/ RenameTask(c) \/ SetUserData(c) \/ ReleaseUsername(c)
    \/ \E name \in Names : GenerateUsername(c, name)
    \/ RenameGuest(c) \/ EraseGuest(c)
    \/ CreateSession(c)
    \/ GetAdminVirtualMachine(c) \/ AddVmListViewer(c) \/ RemoveVmListViewer(c)
    \/ \E ch \in Channels :
         JoinTest(c, ch) \/ Join(c, ch) \/ Leave(c, ch) \/ UpdateUsername(c, ch)

Next == \E c \in Clients : ClientNext(c) \/ TaskNext(c)

Spec == Init /\ [][Next]_vars
-----------------------------------------------------------------------------
UsernameTasks ==
    [do : {"connect"}, client : Clients, channel : Channels]
    \cup [do : {"rename", "set"}, client : Clients, name : Names]
    \cup [do : {"release"}, client : Clients]

GuestTasks ==
    [do : {"generate"}, client : Clients, channel : Channels]
    \cup [do : {"rename"}, client : Clients, name : Names, old : Names \cup {NoName}]
    \cup [do : {"erase"}, client : Clients, name : Names]

(* Tasks for the channels chs; those of virtual_machines_ are never for    *)
(* the global one.                                                         *)
ChannelTasks(chs) ==
    [do : {"join", "update"}, client : Clients, channel : chs, name : Names]
    \cup [do : {"leave"}, client : Clients, channel : chs]

TypeOK ==
    /\ \A c \in Clients : tasks[Username(c)] \in Seq(UsernameTasks)
    /\ tasks[Guests] \in Seq(GuestTasks)
    /\ tasks[VmList] \in Seq(ChannelTasks(Vms) \cup [do : {"view", "unview"}, client : Clients])
    /\ \A ch \in Channels : tasks[Channel(ch)] \in Seq(ChannelTasks({ch}))
    /\ tasks[Sessions] \in Seq([do : {"login"}, client : Clients, name : Accounts])
    /\ open \in [Clients -> BOOLEAN]
    /\ sent \in 0..MaxMessages
    /\ username_ \in [Clients -> Names \cup {NoName}]
    /\ is_logged_in_ \in [Clients -> BOOLEAN]
    /\ connected_vm_id_ \in [Clients -> Channels]
    /\ is_in_global_chat_ \in [Clients -> BOOLEAN]
    /\ is_viewing_vm_list_ \in [Clients -> BOOLEAN]
    /\ guests_ \in [Names -> Clients \cup {NoClient}]
    /\ users_ \in [Channels -> [Clients -> Names \cup {NoName}]]
    /\ vm_list_viewers_ \in [Clients -> Nat]
    /\ tested \in [Clients -> SUBSET (Callers \X BOOLEAN)]
    /\ careless \in [Clients -> BOOLEAN]
    /\ raced \in [Clients -> BOOLEAN]

IsIn(c, ch) == users_[ch][c] # NoName

(* Once the requests of a client that waits for each of them are done, it  *)
(* is in exactly the channels it believes to be in: the virtual machine it *)
(* came to last, if any, and the global chat if it joined it; after a      *)
(* disconnect it is in none.                                               *)
MembershipIsRight ==
    \A c \in Clients : ~Busy(c) /\ ~careless[c] =>
        /\ \A v \in Vms : IsIn(c, v) <=> open[c] /\ v = connected_vm_id_[c]
        /\ IsIn(c, Global) <=> open[c] /\ is_in_global_chat_[c]

(* ... and its channels show the name it has, also after a change of name  *)
(* or a login.                                                             *)
ShownNameIsRight ==
    \A c \in Clients, ch \in Channels :
        ~Busy(c) /\ ~careless[c] /\ IsIn(c, ch) => users_[ch][c] = username_[c]

(* The invariant of a client's place in the channels: where it is and what *)
(* it is called there.                                                     *)
SessionInv == TypeOK /\ MembershipIsRight /\ ShownNameIsRight

(* Every client waits for its requests and nobody logs in. *)
OnlyCarefulGuests == \A c \in Clients : ~careless[c] /\ ~is_logged_in_[c]

(* Among careful guests guests_ is exact: a client that is not busy holds  *)
(* its name and no other, and none once it is gone.                        *)
NamesAreReserved ==
    OnlyCarefulGuests =>
        \A c \in Clients, n \in Names :
            ~Busy(c) => (guests_[n] = c <=> username_[c] = n)

(* is_viewing_vm_list_ and the removals under way. *)
BelievedViews(c) ==
    (IF is_viewing_vm_list_[c] THEN 1 ELSE 0)
        + Cardinality({i \in 1..Len(tasks[VmList]) :
                         tasks[VmList][i] = [do |-> "unview", client |-> c]})

(* However requests overlap, no client is among the viewers more often     *)
(* than is_viewing_vm_list_ says, counting the removals under way, so none *)
(* whose flag is clear stays in the list; and it is there exactly as often *)
(* unless two calls of LeaveVmList, of joins on different strands or of a  *)
(* join and OnDisconnect, have raced for the same entry.                   *)
ViewersAreCounted ==
    \A c \in Clients :
        /\ vm_list_viewers_[c] <= BelievedViews(c)
        /\ ~raced[c] => vm_list_viewers_[c] = BelievedViews(c)

(* Not kept: after such a race a client that asks for the list again may   *)
(* be taken out of it by the second removal, and is told nothing any more. *)
ViewersStayInTheList ==
    \A c \in Clients : is_viewing_vm_list_[c] => vm_list_viewers_[c] > 0

(* GenerateUsername: "Increment the number until a username is found that  *)
(* is not taken": the generated name is nobody else's.                     *)
GeneratedNameIsFree ==
    [][\A c \in Clients, n \in Names :
         GenerateUsername(c, n) => \A d \in Clients \ {c} : username_[d] # n]_vars

(* CHANGE_USERNAME: "Registered users can't change their usernames": when  *)
(* the change is made the client is still a guest.                         *)
RegisteredNameIsKept ==
    [][\A c \in Clients : RenameGuest(c) /\ is_logged_in_[c] => UNCHANGED guests_]_vars
=============================================================================
