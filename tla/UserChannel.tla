---------------------------- MODULE UserChannel ----------------------------
(***************************************************************************)
(* One channel, of a virtual machine or the global one: its users          *)
(* (src/UserChannel.hpp), its chat room with the ring buffer of old        *)
(* messages (src/CollabVmChatRoom.hpp), and what the clients in it see of  *)
(* both.  Each action is one handler on the strand of the channel; the     *)
(* messages it queues for a client arrive in that order (SendQueue).       *)
(*                                                                         *)
(* Members are clients, but what clients are sent of them are usernames,   *)
(* which change and which two members may share; so a client's list of     *)
(* members is a bag of names.  A message is the name of its sender and its *)
(* text; timestamp and user type are left out.                             *)
(***************************************************************************)
EXTENDS Integers, SequencesExt

CONSTANTS
    Users,       \* clients
    Names,       \* usernames
    Texts,
    MaxHistory,  \* max_chat_message_history
    MaxLog,      \* bound: messages sent in a behaviour
    MaxRepeats   \* bound: repeated UserListAdds a member has been sent

ASSUME ChannelConstants ==
    /\ MaxHistory \in 1..255     \* next_message_offset_ is a std::uint8_t
    /\ MaxLog \in Nat
    /\ MaxRepeats \in Nat

VARIABLES
    users_,                \* the clients with an entry in users_
    usernames,             \* UserData::username of an entry
    messages,              \* the ring buffer: functions from 0..MaxHistory-1
    count,                 \* channel_messages_.count
    next_message_offset_,
    log,                   \* history: every message of the channel
    chat_view,             \* chat a member has been sent since it connected
    list_view,             \* how often each name is in the list of a member
    repeats                \* history: UserListAdds a member got of others that
                           \* were in its list already

vars == <<users_, usernames, messages, count, next_message_offset_, log, chat_view,
          list_view, repeats>>
roomVars == <<messages, count, next_message_offset_, log>>

ChatMessages == [sender : Names, text : Texts]
NoList == [n \in Names |-> 0]
NoMessage == [sender |-> "", text |-> ""]

Init ==
    /\ users_ = {}
    /\ usernames \in [Users -> Names]
    /\ messages = [i \in 0..(MaxHistory - 1) |-> NoMessage]
    /\ count = 0
    /\ next_message_offset_ = 0
    /\ log = << >>
    /\ chat_view = [u \in Users |-> << >>]
    /\ list_view = [u \in Users |-> NoList]
    /\ repeats = [u \in Users |-> 0]

(* Mutant of GetChatHistory: always starts at the first slot. *)
GetChatHistoryFromZero == [i \in 1..count |-> messages[i - 1]]

(* The old messages, oldest first: once the buffer is full the oldest is   *)
(* the one that will be overwritten next.                                  *)
GetChatHistory ==
    LET first == IF count = MaxHistory THEN next_message_offset_ ELSE 0
    IN  [i \in 1..count |-> messages[(first + i - 1) % MaxHistory]]

(* The list made of the entries (CreateUserListMessages). *)
Named(members, names, n) == Cardinality({v \in members : names[v] = n})
UserList(members, names) == [n \in Names |-> Named(members, names, n)]

(* What a member makes of UserListAdd and of UserListRemove. *)
Added(list, n) == [list EXCEPT ![n] = @ + 1]
Removed(list, n) == [list EXCEPT ![n] = IF @ > 0 THEN @ - 1 ELSE 0]

(* Mutant of Connect: the old messages are not sent. *)
ConnectWithoutHistory(u, name) ==
    /\ u \notin users_
    /\ users_' = users_ \cup {u}
    /\ usernames' = [usernames EXCEPT ![u] = name]
    /\ chat_view' = [chat_view EXCEPT ![u] = << >>]
    /\ list_view' = [v \in Users |->
           IF v = u THEN UserList(users_', usernames')
           ELSE IF v \in users_ THEN Added(list_view[v], name) ELSE list_view[v]]
    /\ repeats' = [repeats EXCEPT ![u] = 0]
    /\ UNCHANGED roomVars

(* The end of CONNECT_TO_CHANNEL: the response carries the chat history,   *)
(* then AddUser enters the user, sends it the list and tells the others    *)
(* the name it came with.  A client may connect again to a channel it is   *)
(* in, and by another name than it is entered with: emplace keeps the old  *)
(* entry, everything is sent again.                                        *)
Connect(u, name) ==
    LET others == users_ \ {u} IN
    /\ u \in users_ => \A v \in others : repeats[v] < MaxRepeats
    /\ users_' = users_ \cup {u}
    /\ usernames' = IF u \in users_ THEN usernames ELSE [usernames EXCEPT ![u] = name]
    /\ chat_view' = [chat_view EXCEPT ![u] = GetChatHistory]
    /\ list_view' = [v \in Users |->
           IF v = u THEN UserList(users_', usernames')
           ELSE IF v \in others THEN Added(list_view[v], name) ELSE list_view[v]]
    /\ repeats' = [v \in Users |->
           IF v = u THEN 0
           ELSE IF v \in others /\ u \in users_ THEN repeats[v] + 1 ELSE repeats[v]]
    /\ UNCHANGED roomVars

(* RemoveUser: the message to the others names the entry that is erased. *)
RemoveUser(u) ==
    /\ u \in users_
    /\ users_' = users_ \ {u}
    /\ list_view' = [v \in Users |->
           IF v = u THEN NoList
           ELSE IF v \in users_ THEN Removed(list_view[v], usernames[u])
           ELSE list_view[v]]
    /\ chat_view' = [chat_view EXCEPT ![u] = << >>]
    /\ repeats' = [repeats EXCEPT ![u] = 0]
    /\ UNCHANGED <<roomVars, usernames>>

(* Mutant of ChangeUsername: the entry keeps the old name. *)
ChangeUsernameKeepsEntry(u, name) ==
    /\ u \in users_
    /\ list_view' = [v \in Users |->
           IF v \in users_ THEN Added(Removed(list_view[v], usernames[u]), name)
           ELSE list_view[v]]
    /\ UNCHANGED <<users_, usernames, roomVars, chat_view, repeats>>

(* update_username of SetUserData: a change of name, or a login, reaches   *)
(* the channel; everybody in it is told, the client itself too.            *)
ChangeUsername(u, name) ==
    /\ u \in users_
    /\ usernames' = [usernames EXCEPT ![u] = name]
    /\ list_view' = [v \in Users |->
           IF v \in users_ THEN Added(Removed(list_view[v], usernames[u]), name)
           ELSE list_view[v]]
    /\ UNCHANGED <<users_, roomVars, chat_view, repeats>>

(* The virtual machine of the channel is deleted; nobody is told, but the  *)
(* views are those of members only.                                        *)
Clear ==
    /\ users_' = {}
    /\ chat_view' = [u \in Users |-> << >>]
    /\ list_view' = [u \in Users |-> NoList]
    /\ repeats' = [u \in Users |-> 0]
    /\ UNCHANGED <<roomVars, usernames>>

AddUserMessage(m) ==
    /\ count' = IF count + 1 < MaxHistory THEN count + 1 ELSE MaxHistory
    /\ messages' = [messages EXCEPT ![next_message_offset_] = m]
    /\ next_message_offset_' = ((next_message_offset_ + 1) % MaxHistory) % 256
    /\ log' = Append(log, m)

(* CHAT_MESSAGE to a channel.  The sender need not be one of its users, and *)
(* one that is may have another name than its entry.                       *)
Chat(name, text) ==
    LET m == [sender |-> name, text |-> text] IN
    /\ Len(log) < MaxLog
    /\ AddUserMessage(m)
    /\ chat_view' = [v \in Users |->
           IF v \in users_ THEN Append(chat_view[v], m) ELSE chat_view[v]]
    /\ UNCHANGED <<users_, usernames, list_view, repeats>>

Next ==
    \/ \E u \in Users, name \in Names : Connect(u, name) \/ ChangeUsername(u, name)
    \/ \E u \in Users : RemoveUser(u)
    \/ \E name \in Names, text \in Texts : Chat(name, text)
    \/ Clear

Spec == Init /\ [][Next]_vars
-----------------------------------------------------------------------------
TypeOK ==
    /\ users_ \subseteq Users
    /\ usernames \in [Users -> Names]
    /\ messages \in [0..(MaxHistory - 1) -> ChatMessages \cup {NoMessage}]
    /\ count \in 0..MaxHistory
    /\ next_message_offset_ \in 0..(MaxHistory - 1)
    /\ log \in Seq(ChatMessages)
    /\ chat_view \in [Users -> Seq(ChatMessages)]
    /\ list_view \in [Users -> [Names -> Nat]]
    /\ repeats \in [Users -> Nat]

Recent == IF Len(log) < MaxHistory THEN Len(log) ELSE MaxHistory

(* The ring buffer answers with the last messages of the channel in their  *)
(* order, before and after it has wrapped.                                 *)
HistoryIsTheRecentLog ==
    GetChatHistory = SubSeq(log, Len(log) - Recent + 1, Len(log))

(* The invariant of the chat room: count and next_message_offset_ stay in  *)
(* their ranges and the ring buffer is the end of the log.                 *)
ChannelInv == TypeOK /\ HistoryIsTheRecentLog

(* A client in the channel has been shown an unbroken end of the chat:     *)
(* between the history it was sent on connecting and the messages          *)
(* broadcast after that, none is missing and none comes twice.             *)
MembersFollowTheChat ==
    \A u \in users_ :
        /\ Len(chat_view[u]) >= Recent
        /\ IsSuffix(chat_view[u], log)

(* The list a member shows, though it is told names and members share and  *)
(* change them, has every name as often as there are members of that name; *)
(* names that are too many come only of members that joined again.         *)
MembersSeeTheMembers ==
    \A u \in users_, n \in Names :
        /\ list_view[u][n] >= Named(users_, usernames, n)
        /\ repeats[u] = 0 => list_view[u][n] = Named(users_, usernames, n)

(* Not kept: AddUser tells the others of a member that joins again. *)
ListsHaveNoRepetition ==
    \A u \in users_ : list_view[u] = UserList(users_, usernames)
=============================================================================
