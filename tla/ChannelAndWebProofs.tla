------------------------ MODULE ChannelAndWebProofs -------------------------
(***************************************************************************)
(* Proofs about who is connected to what, for any values of the            *)
(* constants. UserChannel: the old messages a client is sent are the end   *)
(* of the chat, the clients in the channel have an unbroken end of it      *)
(* before them, and see each other.  WebServer: connections are removed    *)
(* once, stop() reaches all of them, and the limit of connections from     *)
(* one address is kept as long as the count of them does not wrap.         *)
(***************************************************************************)
EXTENDS UserChannel, WebServer, SequenceTheorems, FiniteSetTheorems, TLAPS

-----------------------------------------------------------------------------
(***************************************************************************)
(* UserChannel                                                             *)
(***************************************************************************)

(* The slot of the message that was written j messages before the last. *)
Slot(j) ==
    IF next_message_offset_ - 1 - j >= 0 THEN next_message_offset_ - 1 - j
    ELSE next_message_offset_ - 1 - j + MaxHistory

(* The inductive invariant of the ring buffer: where each of the recent    *)
(* messages is, counted backwards from next_message_offset_, and that this *)
(* has not wrapped before the buffer is full.                              *)
RingHoldsTheRecentLog ==
    /\ count = Recent
    /\ count < MaxHistory => next_message_offset_ = count
    /\ \A j \in 0..(count - 1) : messages[Slot(j)] = log[Len(log) - j]

ChatInv ==
    /\ TypeOK
    /\ IsFiniteSet(users_)
    /\ RingHoldsTheRecentLog
    /\ MembersFollowTheChat
    /\ MembersSeeTheMembers

-----------------------------------------------------------------------------
(* The only remainders taken are of numbers below twice the size. *)
LEMMA RemainderWraps ==
    ASSUME NEW x \in Nat, x < 2 * MaxHistory
    PROVE  x % MaxHistory = IF x < MaxHistory THEN x ELSE x - MaxHistory
<1>1. MaxHistory \in Nat /\ MaxHistory > 0
  BY ChannelConstants
<1>2. CASE x < MaxHistory
  BY <1>1, <1>2
<1>3. CASE x >= MaxHistory
  BY <1>1, <1>3
<1> QED
  BY <1>2, <1>3, <1>1

LEMMA NextOffset ==
    ASSUME NEW x \in 0..(MaxHistory - 1)
    PROVE  ((x + 1) % MaxHistory) % 256 = IF x + 1 = MaxHistory THEN 0 ELSE x + 1
<1>1. MaxHistory \in Nat /\ MaxHistory > 0 /\ MaxHistory < 256
  BY ChannelConstants
<1>2. (x + 1) % MaxHistory = IF x + 1 = MaxHistory THEN 0 ELSE x + 1
  BY <1>1, RemainderWraps
<1> QED
  BY <1>1, <1>2

(* IsSuffix, element by element. *)
LEMMA SuffixByElements ==
    ASSUME NEW S, NEW s \in Seq(S), NEW t \in Seq(S)
    PROVE  IsSuffix(s, t) <=> /\ Len(s) <= Len(t)
                              /\ \A i \in 1..Len(s) : s[i] = t[Len(t) - Len(s) + i]
<1> DEFINE r == Reverse(s)
           q == Reverse(t)
<1>1. /\ r \in Seq(S) /\ Len(r) = Len(s)
      /\ \A i \in 1..Len(s) : r[i] = s[Len(s) - i + 1]
  BY DEF Reverse
<1>2. /\ q \in Seq(S) /\ Len(q) = Len(t)
      /\ \A i \in 1..Len(t) : q[i] = t[Len(t) - i + 1]
  BY DEF Reverse
<1> HIDE DEF r, q
<1>3. Len(s) \in Nat /\ Len(t) \in Nat
  BY LenProperties
<1>4. IsSuffix(s, t) <=> Len(r) <= Len(q) /\ SubSeq(r, 1, Len(r)) = SubSeq(q, 1, Len(r))
  BY DEF IsSuffix, IsPrefix, r, q
<1>5. ASSUME Len(s) <= Len(t)
      PROVE  SubSeq(r, 1, Len(r)) = SubSeq(q, 1, Len(r))
             <=> \A i \in 1..Len(s) : r[i] = q[i]
  <2> DEFINE a == SubSeq(r, 1, Len(r))
             b == SubSeq(q, 1, Len(r))
  <2>1. (\A i \in 1..Len(r) : r[i] \in S) /\ (\A i \in 1..Len(r) : q[i] \in S)
    BY <1>1, <1>2, <1>3, <1>5, ElementOfSeq
  <2>2. /\ a \in Seq(S) /\ Len(a) = Len(r)
        /\ \A i \in 1..Len(r) : a[i] = r[i]
    BY <1>1, <1>3, <2>1, SubSeqProperties
  <2>3. /\ b \in Seq(S) /\ Len(b) = Len(r)
        /\ \A i \in 1..Len(r) : b[i] = q[i]
    BY <1>1, <1>3, <2>1, SubSeqProperties
  <2> HIDE DEF a, b
  <2>4. a = b <=> \A i \in 1..Len(r) : a[i] = b[i]
    BY <2>2, <2>3, SeqEqual
  <2> QED
    BY <1>1, <2>2, <2>3, <2>4 DEF a, b
<1>6. ASSUME Len(s) <= Len(t)
      PROVE  (\A i \in 1..Len(s) : r[i] = q[i])
             <=> \A i \in 1..Len(s) : s[i] = t[Len(t) - Len(s) + i]
  <2>1. ASSUME \A i \in 1..Len(s) : r[i] = q[i], NEW i \in 1..Len(s)
        PROVE  s[i] = t[Len(t) - Len(s) + i]
    <3>1. r[Len(s) - i + 1] = q[Len(s) - i + 1]
      BY <1>3, <2>1
    <3>2. r[Len(s) - i + 1] = s[Len(s) - (Len(s) - i + 1) + 1]
      BY <1>1, <1>3
    <3>3. q[Len(s) - i + 1] = t[Len(t) - (Len(s) - i + 1) + 1]
      BY <1>2, <1>3, <1>6
    <3>4. /\ Len(s) - (Len(s) - i + 1) + 1 = i
          /\ Len(t) - (Len(s) - i + 1) + 1 = Len(t) - Len(s) + i
      BY <1>3
    <3> QED
      BY <3>1, <3>2, <3>3, <3>4
  <2>2. ASSUME \A i \in 1..Len(s) : s[i] = t[Len(t) - Len(s) + i], NEW i \in 1..Len(s)
        PROVE  r[i] = q[i]
    <3>1. r[i] = s[Len(s) - i + 1]
      BY <1>1
    <3>2. q[i] = t[Len(t) - i + 1]
      BY <1>2, <1>3, <1>6
    <3>3. s[Len(s) - i + 1] = t[Len(t) - Len(s) + (Len(s) - i + 1)]
      BY <1>3, <2>2
    <3>4. Len(t) - Len(s) + (Len(s) - i + 1) = Len(t) - i + 1
      BY <1>3
    <3> QED
      BY <3>1, <3>2, <3>3, <3>4
  <2> QED
    BY <2>1, <2>2
<1> QED
  BY <1>1, <1>2, <1>4, <1>5, <1>6

-----------------------------------------------------------------------------
(* What the invariant says of the numbers. *)
LEMMA RoomNumbers ==
    ASSUME TypeOK, RingHoldsTheRecentLog
    PROVE  /\ MaxHistory \in Nat /\ MaxHistory > 0
           /\ Len(log) \in Nat
           /\ count \in Nat /\ count <= MaxHistory /\ count <= Len(log)
           /\ count < MaxHistory => Len(log) = count
           /\ next_message_offset_ \in Nat /\ next_message_offset_ < MaxHistory
           /\ \A i \in 1..Len(log) : log[i] \in ChatMessages
<1>1. MaxHistory \in Nat /\ MaxHistory > 0
  BY ChannelConstants
<1>2. Len(log) \in Nat /\ \A i \in 1..Len(log) : log[i] \in ChatMessages
  BY ElementOfSeq, LenProperties DEF TypeOK
<1> QED
  BY <1>1, <1>2 DEF TypeOK, RingHoldsTheRecentLog, Recent

(* GetChatHistory reads the slots in the order they were written. *)
LEMMA HistoryByElements ==
    ASSUME TypeOK, RingHoldsTheRecentLog, NEW i \in 1..count
    PROVE  GetChatHistory[i] = log[Len(log) - count + i]
<1> DEFINE first == IF count = MaxHistory THEN next_message_offset_ ELSE 0
           j == count - i
<1>1. /\ j \in 0..(count - 1) /\ first \in Nat /\ first + i - 1 \in Nat
      /\ first + i - 1 < 2 * MaxHistory
  BY RoomNumbers
<1>2. PICK x \in Nat : x = first + i - 1
  BY <1>1
<1>3. x % MaxHistory = IF x < MaxHistory THEN x ELSE x - MaxHistory
  BY <1>1, <1>2, RemainderWraps
<1>4. x % MaxHistory = Slot(j)
  <2>1. CASE count = MaxHistory
    BY <1>2, <1>3, <2>1, RoomNumbers DEF Slot
  <2>2. CASE count < MaxHistory
    BY <1>2, <1>3, <2>2, RoomNumbers DEF Slot, RingHoldsTheRecentLog
  <2> QED
    BY <2>1, <2>2, RoomNumbers
<1>5. GetChatHistory[i] = messages[x % MaxHistory]
  BY <1>2 DEF GetChatHistory
<1>6. messages[Slot(j)] = log[Len(log) - j]
  BY <1>1 DEF RingHoldsTheRecentLog
<1>7. Len(log) - j = Len(log) - count + i
  BY RoomNumbers
<1> QED
  BY <1>4, <1>5, <1>6, <1>7

(* ... and its answer is the end of the log. *)
LEMMA HistoryIsSuffix ==
    ASSUME TypeOK, RingHoldsTheRecentLog
    PROVE  /\ GetChatHistory \in Seq(ChatMessages)
           /\ Len(GetChatHistory) = count
           /\ IsSuffix(GetChatHistory, log)
           /\ HistoryIsTheRecentLog
<1> DEFINE h == GetChatHistory
           s == SubSeq(log, Len(log) - count + 1, Len(log))
<1>1. ASSUME NEW i \in 1..count
      PROVE  h[i] \in ChatMessages
  <2>1. h[i] = log[Len(log) - count + i]
    BY HistoryByElements
  <2>2. Len(log) - count + i \in 1..Len(log)
    BY RoomNumbers
  <2> QED
    BY <2>1, <2>2, RoomNumbers
<1>2. DOMAIN h = 1..count /\ h = [i \in 1..count |-> h[i]]
  BY DEF GetChatHistory
<1>3. h \in Seq(ChatMessages) /\ Len(h) = count
  <2> HIDE DEF h
  <2> QED
    BY <1>1, <1>2, RoomNumbers
<1>4. IsSuffix(h, log)
  <2>1. \A i \in 1..count : h[i] = log[Len(log) - count + i]
    BY HistoryByElements
  <2> HIDE DEF h
  <2> QED
    BY <1>3, <2>1, RoomNumbers, SuffixByElements DEF TypeOK
<1>5. /\ s \in Seq(ChatMessages) /\ Len(s) = count
      /\ \A i \in 1..count : s[i] = log[Len(log) - count + i]
  <2>1. \A i \in (Len(log) - count + 1)..Len(log) : log[i] \in ChatMessages
    BY RoomNumbers
  <2>2. Len(log) - count + 1 \in Int /\ Len(log) \in Int
    BY RoomNumbers
  <2>3. /\ s \in Seq(ChatMessages)
        /\ Len(s) = IF Len(log) - count + 1 <= Len(log)
                    THEN Len(log) - (Len(log) - count + 1) + 1 ELSE 0
        /\ \A i \in 1..(Len(log) - (Len(log) - count + 1) + 1) :
              s[i] = log[(Len(log) - count + 1) + i - 1]
    BY <2>1, <2>2, SubSeqProperties
  <2> HIDE DEF s
  <2>4. Len(s) = count
    BY <2>3, RoomNumbers
  <2>5. ASSUME NEW i \in 1..count
        PROVE  s[i] = log[Len(log) - count + i]
    <3>1. /\ i \in 1..(Len(log) - (Len(log) - count + 1) + 1)
          /\ (Len(log) - count + 1) + i - 1 = Len(log) - count + i
      BY RoomNumbers
    <3> QED
      BY <2>3, <3>1
  <2> QED
    BY <2>3, <2>4, <2>5
<1>6. h = s
  <2>1. \A i \in 1..Len(h) : h[i] = s[i]
    BY <1>3, <1>5, HistoryByElements
  <2> HIDE DEF h, s
  <2> QED
    BY <1>3, <1>5, <2>1, SeqEqual
<1>7. count = Recent
  BY DEF RingHoldsTheRecentLog
<1> QED
  BY <1>3, <1>4, <1>6, <1>7 DEF HistoryIsTheRecentLog

-----------------------------------------------------------------------------
(* Steps that leave the chat room alone. *)
LEMMA SameRoom ==
    ASSUME RingHoldsTheRecentLog, UNCHANGED roomVars
    PROVE  RingHoldsTheRecentLog' /\ Recent' = Recent
  BY DEF RingHoldsTheRecentLog, Recent, Slot, roomVars

(* How often a name is there, when a member comes, goes or changes its     *)
(* name.                                                                   *)
One(m, n) == IF m = n THEN 1 ELSE 0

LEMMA NamedIsNat ==
    ASSUME NEW S \in SUBSET Users, IsFiniteSet(S), NEW f \in [Users -> Names], NEW n \in Names
    PROVE  /\ IsFiniteSet({v \in S : f[v] = n})
           /\ Named(S, f, n) \in Nat
<1>1. IsFiniteSet({v \in S : f[v] = n})
  <2>1. {v \in S : f[v] = n} \subseteq S
    OBVIOUS
  <2> QED
    BY <2>1, FS_Subset
<1> QED
  BY <1>1, FS_CardinalityType DEF Named

LEMMA OneIsNat ==
    ASSUME NEW m, NEW n
    PROVE  One(m, n) \in 0..1 /\ One(m, n) \in Nat
  BY DEF One

LEMMA NamedAfterAdd ==
    ASSUME NEW S \in SUBSET Users, IsFiniteSet(S), NEW u \in Users, u \notin S,
           NEW f \in [Users -> Names], NEW g \in [Users -> Names], NEW n \in Names,
           \A v \in S : g[v] = f[v]
    PROVE  Named(S \cup {u}, g, n) = Named(S, f, n) + One(g[u], n)
<1> DEFINE A == {v \in S : f[v] = n}
           B == {v \in S \cup {u} : g[v] = n}
<1>1. IsFiniteSet(A) /\ u \notin A
  BY NamedIsNat
<1>2. Cardinality(A) \in Nat
  BY <1>1, FS_CardinalityType
<1>3. Named(S \cup {u}, g, n) = Cardinality(B) /\ Named(S, f, n) = Cardinality(A)
  BY DEF Named
<1>4. CASE g[u] = n
  <2>1. B = A \cup {u}
    BY <1>4
  <2>2. Cardinality(A \cup {u}) = Cardinality(A) + 1
    BY <1>1, FS_AddElement
  <2>3. One(g[u], n) = 1
    BY <1>4 DEF One
  <2> QED
    BY <1>3, <2>1, <2>2, <2>3
<1>5. CASE g[u] # n
  <2>1. B = A
    BY <1>5
  <2>2. One(g[u], n) = 0
    BY <1>5 DEF One
  <2>3. Cardinality(A) = Cardinality(A) + 0
    BY <1>2
  <2> QED
    BY <1>3, <2>1, <2>2, <2>3
<1> QED
  BY <1>4, <1>5

LEMMA NamedAfterRemove ==
    ASSUME NEW S \in SUBSET Users, IsFiniteSet(S), NEW u \in S,
           NEW f \in [Users -> Names], NEW n \in Names
    PROVE  /\ Named(S \ {u}, f, n) = Named(S, f, n) - One(f[u], n)
           /\ One(f[u], n) <= Named(S, f, n)
<1> DEFINE T == S \ {u}
           a == Named(T, f, n)
           b == Named(S, f, n)
           d == One(f[u], n)
<1>1. T \in SUBSET Users /\ IsFiniteSet(T) /\ u \in Users /\ u \notin T /\ T \cup {u} = S
  BY FS_RemoveElement
<1>2. b = a + d
  <2> HIDE DEF T
  <2>1. Named(T \cup {u}, f, n) = Named(T, f, n) + One(f[u], n)
    BY <1>1, NamedAfterAdd
  <2> QED
    BY <1>1, <2>1
<1>3. a \in Nat
  BY <1>1, NamedIsNat
<1>4. d \in Nat
  BY OneIsNat
<1> HIDE DEF a, b, d
<1>5. a = b - d /\ d <= b
  BY <1>2, <1>3, <1>4
<1> QED
  BY <1>5 DEF a, b, d, T

LEMMA NamedAfterChange ==
    ASSUME NEW S \in SUBSET Users, IsFiniteSet(S), NEW u \in S,
           NEW f \in [Users -> Names], NEW g \in [Users -> Names], NEW n \in Names,
           \A v \in S \ {u} : g[v] = f[v]
    PROVE  Named(S, g, n) = (Named(S, f, n) - One(f[u], n)) + One(g[u], n)
<1> DEFINE T == S \ {u}
<1>1. T \in SUBSET Users /\ IsFiniteSet(T) /\ u \in Users /\ u \notin T /\ T \cup {u} = S
  BY FS_RemoveElement
<1>2. Named(T, f, n) = Named(S, f, n) - One(f[u], n)
  BY NamedAfterRemove
<1>3. \A v \in T : g[v] = f[v]
  OBVIOUS
<1> HIDE DEF T
<1>4. Named(T \cup {u}, g, n) = Named(T, f, n) + One(g[u], n)
  BY <1>1, <1>3, NamedAfterAdd
<1> QED
  BY <1>1, <1>2, <1>4

(* What a list of names becomes. *)
LEMMA AddedList ==
    ASSUME NEW list \in [Names -> Nat], NEW name \in Names
    PROVE  /\ Added(list, name) \in [Names -> Nat]
           /\ \A n \in Names : Added(list, name)[n] = list[n] + One(name, n)
  BY DEF Added, One

LEMMA RemovedList ==
    ASSUME NEW list \in [Names -> Nat], NEW name \in Names
    PROVE  /\ Removed(list, name) \in [Names -> Nat]
           /\ \A n \in Names : list[n] >= One(name, n) =>
                  Removed(list, name)[n] = list[n] - One(name, n)
  BY DEF Removed, One

LEMMA UserListIsList ==
    ASSUME NEW S \in SUBSET Users, IsFiniteSet(S), NEW f \in [Users -> Names]
    PROVE  UserList(S, f) \in [Names -> Nat]
  BY NamedIsNat DEF UserList

LEMMA ConnectKeepsInv ==
    ASSUME ChatInv, NEW u \in Users, NEW name \in Names, Connect(u, name)
    PROVE  ChatInv'
<1> USE DEF ChatInv
<1>1. /\ GetChatHistory \in Seq(ChatMessages)
      /\ Len(GetChatHistory) = count
      /\ IsSuffix(GetChatHistory, log)
  BY HistoryIsSuffix
<1>2. /\ users_' = users_ \cup {u}
      /\ usernames' = IF u \in users_ THEN usernames ELSE [usernames EXCEPT ![u] = name]
      /\ chat_view' = [chat_view EXCEPT ![u] = GetChatHistory]
      /\ list_view' = [v \in Users |->
           IF v = u THEN UserList(users_', usernames')
           ELSE IF v \in users_ \ {u} THEN Added(list_view[v], name) ELSE list_view[v]]
      /\ repeats' = [v \in Users |->
           IF v = u THEN 0
           ELSE IF v \in users_ \ {u} /\ u \in users_ THEN repeats[v] + 1 ELSE repeats[v]]
      /\ UNCHANGED roomVars
  BY DEF Connect
<1>3. /\ users_ \subseteq Users /\ usernames \in [Users -> Names]
      /\ list_view \in [Users -> [Names -> Nat]] /\ repeats \in [Users -> Nat]
  BY DEF TypeOK
<1>4. /\ users_' \subseteq Users /\ IsFiniteSet(users_')
      /\ usernames' \in [Users -> Names]
  BY <1>2, <1>3, FS_AddElement
<1>5. list_view' \in [Users -> [Names -> Nat]]
  <2>1. UserList(users_', usernames') \in [Names -> Nat]
    BY <1>4, UserListIsList
  <2>2. \A v \in Users : Added(list_view[v], name) \in [Names -> Nat]
    BY <1>3, AddedList
  <2> QED
    BY <1>2, <1>3, <2>1, <2>2
<1>6. repeats' \in [Users -> Nat]
  BY <1>2, <1>3
<1>7. TypeOK'
  <2>1. chat_view' \in [Users -> Seq(ChatMessages)]
    BY <1>1, <1>2 DEF TypeOK
  <2> QED
    BY <1>2, <1>4, <1>5, <1>6, <2>1 DEF TypeOK, roomVars
<1>8. RingHoldsTheRecentLog' /\ Recent' = Recent
  BY <1>2, SameRoom
<1>9. MembersFollowTheChat'
  <2>1. ASSUME NEW v \in users_'
        PROVE  Len(chat_view'[v]) >= Recent /\ IsSuffix(chat_view'[v], log)
    <3>1. CASE v = u
      <4>1. chat_view'[v] = GetChatHistory
        BY <1>2, <3>1 DEF TypeOK
      <4>2. count = Recent /\ count \in Nat
        BY RoomNumbers DEF RingHoldsTheRecentLog
      <4> QED
        BY <1>1, <4>1, <4>2
    <3>2. CASE v # u
      <4>1. v \in users_ /\ v \in Users
        BY <1>2, <1>3, <2>1, <3>2
      <4>2. chat_view'[v] = chat_view[v]
        BY <1>2, <3>2, <4>1 DEF TypeOK
      <4> QED
        BY <4>1, <4>2 DEF MembersFollowTheChat
    <3> QED
      BY <3>1, <3>2
  <2>2. log' = log
    BY <1>2 DEF roomVars
  <2> QED
    BY <1>8, <2>1, <2>2 DEF MembersFollowTheChat
<1>10. MembersSeeTheMembers'
  <2> SUFFICES ASSUME NEW v \in users_', NEW n \in Names
               PROVE  /\ list_view'[v][n] >= Named(users_', usernames', n)
                      /\ repeats'[v] = 0 =>
                           list_view'[v][n] = Named(users_', usernames', n)
    BY DEF MembersSeeTheMembers
  <2>1. Named(users_', usernames', n) \in Nat /\ Named(users_, usernames, n) \in Nat
    <3>1. IsFiniteSet(users_)
      OBVIOUS
    <3> QED
      BY <1>3, <1>4, <3>1, NamedIsNat
  <2>2. CASE v = u
    <3>1. list_view'[v][n] = Named(users_', usernames', n)
      BY <1>2, <2>2 DEF UserList
    <3> QED
      BY <2>1, <3>1
  <2>3. CASE v # u
    <3>1. v \in users_ /\ v \in Users
      BY <1>2, <1>3, <2>3
    <3>2. /\ list_view'[v] = Added(list_view[v], name)
          /\ list_view'[v][n] = list_view[v][n] + One(name, n)
          /\ list_view[v][n] \in Nat /\ One(name, n) \in 0..1
      <4>1. list_view'[v] = Added(list_view[v], name) /\ list_view[v] \in [Names -> Nat]
        BY <1>2, <1>3, <2>3, <3>1
      <4> QED
        BY <4>1, AddedList DEF One
    <3>3. /\ list_view[v][n] >= Named(users_, usernames, n)
          /\ repeats[v] = 0 => list_view[v][n] = Named(users_, usernames, n)
      BY <3>1 DEF MembersSeeTheMembers
    <3>4. CASE u \in users_
      <4>1. users_' = users_ /\ usernames' = usernames /\ repeats'[v] = repeats[v] + 1
        BY <1>2, <2>3, <3>1, <3>4
      <4>2. repeats'[v] # 0
        BY <1>3, <3>1, <4>1
      <4> QED
        BY <2>1, <3>2, <3>3, <4>1, <4>2
    <3>5. CASE u \notin users_
      <4>1. repeats'[v] = repeats[v]
        BY <1>2, <2>3, <3>1, <3>5
      <4>2. Named(users_ \cup {u}, usernames', n)
              = Named(users_, usernames, n) + One(usernames'[u], n)
        <5> DEFINE g == usernames'
        <5>1. g \in [Users -> Names] /\ \A w \in users_ : g[w] = usernames[w]
          BY <1>2, <1>3, <1>4, <3>5
        <5>2. /\ users_ \in SUBSET Users /\ IsFiniteSet(users_) /\ u \notin users_
              /\ usernames \in [Users -> Names]
          BY <1>3, <3>5
        <5> HIDE DEF g, ChatInv
        <5>3. Named(users_ \cup {u}, g, n) = Named(users_, usernames, n) + One(g[u], n)
          BY <5>1, <5>2, NamedAfterAdd
        <5> QED
          BY <5>3 DEF g
      <4>3. usernames'[u] = name
        BY <1>2, <1>3, <3>5
      <4> QED
        BY <1>2, <2>1, <3>2, <3>3, <4>1, <4>2, <4>3
    <3> QED
      BY <3>4, <3>5
  <2> QED
    BY <2>2, <2>3
<1> QED
  BY <1>4, <1>7, <1>8, <1>9, <1>10

LEMMA RemoveUserKeepsInv ==
    ASSUME ChatInv, NEW u \in Users, RemoveUser(u)
    PROVE  ChatInv'
<1> USE DEF ChatInv
<1>1. /\ u \in users_ /\ users_' = users_ \ {u} /\ usernames' = usernames
      /\ list_view' = [v \in Users |->
           IF v = u THEN NoList
           ELSE IF v \in users_ THEN Removed(list_view[v], usernames[u])
           ELSE list_view[v]]
      /\ chat_view' = [chat_view EXCEPT ![u] = << >>]
      /\ repeats' = [repeats EXCEPT ![u] = 0]
      /\ UNCHANGED roomVars
  BY DEF RemoveUser
<1>2. /\ users_ \subseteq Users /\ usernames \in [Users -> Names] /\ usernames[u] \in Names
      /\ list_view \in [Users -> [Names -> Nat]] /\ repeats \in [Users -> Nat]
  BY DEF TypeOK
<1>3. IsFiniteSet(users_')
  BY <1>1, FS_RemoveElement
<1>4. list_view' \in [Users -> [Names -> Nat]]
  <2>1. \A v \in Users : Removed(list_view[v], usernames[u]) \in [Names -> Nat]
    BY <1>2, RemovedList
  <2>2. NoList \in [Names -> Nat]
    BY DEF NoList
  <2> QED
    BY <1>1, <1>2, <2>1, <2>2
<1>5. TypeOK'
  <2>1. chat_view' \in [Users -> Seq(ChatMessages)] /\ repeats' \in [Users -> Nat]
    BY <1>1, EmptySeq DEF TypeOK
  <2> QED
    BY <1>1, <1>2, <1>4, <2>1 DEF TypeOK, roomVars
<1>6. RingHoldsTheRecentLog' /\ Recent' = Recent
  BY <1>1, SameRoom
<1>7. MembersFollowTheChat'
  <2>1. \A v \in users_' : v \in users_ /\ chat_view'[v] = chat_view[v]
    BY <1>1, <1>2 DEF TypeOK
  <2> QED
    BY <1>1, <1>6, <2>1 DEF MembersFollowTheChat, roomVars
<1>8. MembersSeeTheMembers'
  <2> SUFFICES ASSUME NEW v \in users_', NEW n \in Names
               PROVE  /\ list_view'[v][n] >= Named(users_', usernames', n)
                      /\ repeats'[v] = 0 =>
                           list_view'[v][n] = Named(users_', usernames', n)
    BY DEF MembersSeeTheMembers
  <2>1. v \in users_ /\ v \in Users /\ v # u
    BY <1>1, <1>2
  <2>2. /\ Named(users_ \ {u}, usernames, n)
             = Named(users_, usernames, n) - One(usernames[u], n)
        /\ One(usernames[u], n) <= Named(users_, usernames, n)
        /\ Named(users_, usernames, n) \in Nat /\ One(usernames[u], n) \in 0..1
    BY <1>1, <1>2, NamedAfterRemove, NamedIsNat, OneIsNat
  <2>3. /\ list_view[v][n] >= Named(users_, usernames, n)
        /\ repeats[v] = 0 => list_view[v][n] = Named(users_, usernames, n)
        /\ list_view[v] \in [Names -> Nat] /\ list_view[v][n] \in Nat
    BY <1>2, <2>1 DEF MembersSeeTheMembers
  <2>4. list_view'[v] = Removed(list_view[v], usernames[u]) /\ repeats'[v] = repeats[v]
    BY <1>1, <1>2, <2>1
  <2>5. list_view'[v][n] = list_view[v][n] - One(usernames[u], n)
    <3>1. list_view[v][n] >= One(usernames[u], n)
      BY <2>2, <2>3
    <3>2. Removed(list_view[v], usernames[u])[n] = list_view[v][n] - One(usernames[u], n)
      BY <1>2, <2>3, <3>1, RemovedList
    <3> QED
      BY <2>4, <3>2
  <2> QED
    BY <1>1, <2>2, <2>3, <2>4, <2>5
<1> QED
  BY <1>3, <1>5, <1>6, <1>7, <1>8

(* The entry and everybody's list change together. *)
LEMMA ChangeUsernameKeepsInv ==
    ASSUME ChatInv, NEW u \in Users, NEW name \in Names, ChangeUsername(u, name)
    PROVE  ChatInv'
<1> USE DEF ChatInv
<1>1. /\ u \in users_ /\ users_' = users_ /\ usernames' = [usernames EXCEPT ![u] = name]
      /\ list_view' = [v \in Users |->
           IF v \in users_ THEN Added(Removed(list_view[v], usernames[u]), name)
           ELSE list_view[v]]
      /\ UNCHANGED <<roomVars, chat_view, repeats>>
  BY DEF ChangeUsername
<1>2. /\ users_ \subseteq Users /\ usernames \in [Users -> Names] /\ usernames[u] \in Names
      /\ list_view \in [Users -> [Names -> Nat]] /\ repeats \in [Users -> Nat]
  BY DEF TypeOK
<1>3. list_view' \in [Users -> [Names -> Nat]]
  <2>1. \A v \in Users : Added(Removed(list_view[v], usernames[u]), name) \in [Names -> Nat]
    <3>1. \A v \in Users : Removed(list_view[v], usernames[u]) \in [Names -> Nat]
      BY <1>2, RemovedList
    <3> QED
      BY <3>1, AddedList
  <2> QED
    BY <1>1, <1>2, <2>1
<1>4. TypeOK'
  <2>1. usernames' \in [Users -> Names]
    BY <1>1, <1>2
  <2> QED
    BY <1>1, <1>3, <2>1 DEF TypeOK, roomVars
<1>5. RingHoldsTheRecentLog' /\ Recent' = Recent
  BY <1>1, SameRoom
<1>6. MembersFollowTheChat'
  BY <1>1, <1>5 DEF MembersFollowTheChat, roomVars
<1>7. MembersSeeTheMembers'
  <2> SUFFICES ASSUME NEW v \in users_', NEW n \in Names
               PROVE  /\ list_view'[v][n] >= Named(users_', usernames', n)
                      /\ repeats'[v] = 0 =>
                           list_view'[v][n] = Named(users_', usernames', n)
    BY DEF MembersSeeTheMembers
  <2> DEFINE old == One(usernames[u], n)
             new == One(name, n)
             removed == Removed(list_view[v], usernames[u])
  <2>1. v \in users_ /\ v \in Users
    BY <1>1, <1>2
  <2>2. /\ Named(users_, usernames', n) = (Named(users_, usernames, n) - old) + new
        /\ old <= Named(users_, usernames, n)
        /\ Named(users_, usernames, n) \in Nat /\ old \in 0..1 /\ new \in 0..1
    <3>1. usernames'[u] = name /\ \A w \in users_ \ {u} : usernames'[w] = usernames[w]
      BY <1>1, <1>2
    <3>2. Named(users_, usernames', n)
            = (Named(users_, usernames, n) - One(usernames[u], n)) + One(usernames'[u], n)
      <4> DEFINE g == usernames'
      <4>1. g \in [Users -> Names] /\ \A w \in users_ \ {u} : g[w] = usernames[w]
        BY <1>4, <3>1 DEF TypeOK
      <4>2. users_ \in SUBSET Users /\ IsFiniteSet(users_) /\ u \in users_
        BY <1>1, <1>2
      <4> HIDE DEF g, ChatInv
      <4>3. Named(users_, g, n)
              = (Named(users_, usernames, n) - One(usernames[u], n)) + One(g[u], n)
        BY <1>2, <4>1, <4>2, NamedAfterChange
      <4> QED
        BY <4>3 DEF g
    <3>3. old <= Named(users_, usernames, n) /\ Named(users_, usernames, n) \in Nat
      BY <1>1, <1>2, NamedAfterRemove, NamedIsNat
    <3>4. old \in 0..1 /\ new \in 0..1
      BY DEF One
    <3> QED
      BY <3>1, <3>2, <3>3, <3>4
  <2>3. /\ list_view[v][n] >= Named(users_, usernames, n)
        /\ repeats[v] = 0 => list_view[v][n] = Named(users_, usernames, n)
        /\ list_view[v] \in [Names -> Nat] /\ list_view[v][n] \in Nat
    BY <1>2, <2>1 DEF MembersSeeTheMembers
  <2>4. list_view'[v] = Added(removed, name) /\ repeats'[v] = repeats[v]
    BY <1>1, <1>2, <2>1
  <2>5. removed \in [Names -> Nat] /\ removed[n] = list_view[v][n] - old
    <3>1. list_view[v][n] >= old
      <4> HIDE DEF old
      <4> QED
        BY <2>2, <2>3
    <3> QED
      BY <1>2, <2>3, <3>1, RemovedList
  <2> HIDE DEF removed
  <2>6. list_view'[v][n] = removed[n] + new
    BY <2>4, <2>5, AddedList
  <2> HIDE DEF old, new
  <2> QED
    BY <1>1, <2>2, <2>3, <2>4, <2>5, <2>6
<1> QED
  BY <1>1, <1>4, <1>5, <1>6, <1>7

LEMMA ClearKeepsInv ==
    ASSUME ChatInv, Clear
    PROVE  ChatInv'
<1> USE DEF ChatInv, Clear
<1>1. TypeOK'
  <2>1. NoList \in [Names -> Nat] /\ << >> \in Seq(ChatMessages)
    BY EmptySeq DEF NoList
  <2> QED
    BY <2>1 DEF TypeOK, roomVars
<1>2. RingHoldsTheRecentLog'
  BY SameRoom
<1>3. MembersFollowTheChat' /\ MembersSeeTheMembers'
  BY DEF MembersFollowTheChat, MembersSeeTheMembers
<1>4. IsFiniteSet(users_')
  BY FS_EmptySet
<1> QED
  BY <1>1, <1>2, <1>3, <1>4

(* A message that is added to the room. *)
LEMMA AddUserMessageKeepsRing ==
    ASSUME TypeOK, RingHoldsTheRecentLog, NEW m \in ChatMessages, AddUserMessage(m)
    PROVE  /\ messages' \in [0..(MaxHistory - 1) -> ChatMessages \cup {NoMessage}]
           /\ count' \in 0..MaxHistory
           /\ next_message_offset_' \in 0..(MaxHistory - 1)
           /\ log' \in Seq(ChatMessages)
           /\ RingHoldsTheRecentLog'
<1>1. next_message_offset_'
      = IF next_message_offset_ + 1 = MaxHistory THEN 0 ELSE next_message_offset_ + 1
  BY NextOffset DEF TypeOK, AddUserMessage
<1>2. /\ log' \in Seq(ChatMessages) /\ Len(log') = Len(log) + 1
      /\ \A i \in 1..Len(log) : log'[i] = log[i]
      /\ log'[Len(log) + 1] = m
  BY AppendProperties DEF TypeOK, AddUserMessage
<1>3. count' = IF count + 1 < MaxHistory THEN count + 1 ELSE MaxHistory
  BY DEF AddUserMessage
<1>4. next_message_offset_' \in 0..(MaxHistory - 1) /\ count' \in 0..MaxHistory
  BY <1>1, <1>3, RoomNumbers
<1>5. /\ messages' \in [0..(MaxHistory - 1) -> ChatMessages \cup {NoMessage}]
      /\ messages'[next_message_offset_] = m
      /\ \A k \in 0..(MaxHistory - 1) : k # next_message_offset_ => messages'[k] = messages[k]
  BY DEF TypeOK, AddUserMessage
<1>6. count' = Recent' /\ (count' < MaxHistory => next_message_offset_' = count')
  <2>1. count = IF Len(log) < MaxHistory THEN Len(log) ELSE MaxHistory
    BY DEF RingHoldsTheRecentLog, Recent
  <2>2. count < MaxHistory => next_message_offset_ = count
    BY DEF RingHoldsTheRecentLog
  <2> QED
    BY <1>1, <1>2, <1>3, <2>1, <2>2, RoomNumbers DEF Recent
<1>7. ASSUME NEW j \in 0..(count' - 1)
      PROVE  messages'[Slot(j)'] = log'[Len(log') - j]
  <2>1. Slot(j)' = IF next_message_offset_' - 1 - j >= 0 THEN next_message_offset_' - 1 - j
                   ELSE next_message_offset_' - 1 - j + MaxHistory
    BY DEF Slot
  <2>2. CASE j = 0
    <3>1. Slot(j)' = next_message_offset_
      BY <1>1, <2>1, <2>2, RoomNumbers
    <3>2. Len(log') - j = Len(log) + 1
      BY <1>2, <2>2, RoomNumbers
    <3> QED
      BY <1>2, <1>5, <3>1, <3>2
  <2>3. CASE j # 0
    <3>1. j - 1 \in 0..(count - 1) /\ j \in Nat /\ j < MaxHistory
      BY <1>3, <2>3, RoomNumbers
    <3>2. /\ Slot(j)' = Slot(j - 1)
          /\ Slot(j - 1) \in 0..(MaxHistory - 1) /\ Slot(j - 1) # next_message_offset_
      <4> DEFINE n == next_message_offset_
      <4>1. Slot(j - 1) = IF n - j >= 0 THEN n - j ELSE n - j + MaxHistory
        BY <3>1, RoomNumbers DEF Slot
      <4>2. n \in Nat /\ n < MaxHistory /\ MaxHistory \in Nat
        BY RoomNumbers
      <4>3. n' = IF n + 1 = MaxHistory THEN 0 ELSE n + 1
        BY <1>1
      <4>4. Slot(j)' = IF n' - 1 - j >= 0 THEN n' - 1 - j ELSE n' - 1 - j + MaxHistory
        BY <2>1
      <4>5. j > 0
        BY <2>3, <3>1
      <4> HIDE DEF n
      <4>6. Slot(j - 1) \in 0..(MaxHistory - 1) /\ Slot(j - 1) # n
        BY <3>1, <4>1, <4>2, <4>5
      <4>7. Slot(j)' = Slot(j - 1)
        <5>1. CASE n + 1 = MaxHistory
          <6>1. Slot(j)' = MaxHistory - 1 - j
            BY <3>1, <4>2, <4>3, <4>4, <4>5, <5>1
          <6>2. Slot(j - 1) = MaxHistory - 1 - j
            BY <3>1, <4>1, <4>2, <5>1
          <6> QED
            BY <6>1, <6>2
        <5>2. CASE n + 1 # MaxHistory
          BY <3>1, <4>1, <4>2, <4>3, <4>4, <5>2
        <5> QED
          BY <5>1, <5>2
      <4> QED
        BY <4>6, <4>7 DEF n
    <3>3. messages[Slot(j - 1)] = log[Len(log) - (j - 1)]
      BY <3>1 DEF RingHoldsTheRecentLog
    <3>4. Len(log) - (j - 1) = Len(log') - j /\ Len(log) - (j - 1) \in 1..Len(log)
      <4>1. Len(log') = Len(log) + 1
        BY <1>2
      <4>2. Len(log) \in Nat /\ count \in Nat /\ count <= Len(log)
        BY RoomNumbers
      <4> QED
        BY <3>1, <4>1, <4>2
    <3> QED
      BY <1>2, <1>5, <3>2, <3>3, <3>4
  <2> QED
    BY <2>2, <2>3
<1> QED
  BY <1>2, <1>4, <1>5, <1>6, <1>7 DEF RingHoldsTheRecentLog

LEMMA ChatKeepsInv ==
    ASSUME ChatInv, NEW name \in Names, NEW text \in Texts, Chat(name, text)
    PROVE  ChatInv'
<1> DEFINE m == [sender |-> name, text |-> text]
<1> USE DEF ChatInv
<1>1. /\ m \in ChatMessages /\ AddUserMessage(m) 
      /\ UNCHANGED <<users_, usernames, list_view, repeats>>
      /\ log' = Append(log, m)
      /\ chat_view' = [v \in Users |-> IF v \in users_ THEN Append(chat_view[v], m)
                                       ELSE chat_view[v]]
  BY DEF Chat, ChatMessages, AddUserMessage
<1> HIDE DEF m
<1>2. /\ messages' \in [0..(MaxHistory - 1) -> ChatMessages \cup {NoMessage}]
      /\ count' \in 0..MaxHistory
      /\ next_message_offset_' \in 0..(MaxHistory - 1)
      /\ log' \in Seq(ChatMessages)
      /\ RingHoldsTheRecentLog'
  BY <1>1, AddUserMessageKeepsRing
<1>3. chat_view' \in [Users -> Seq(ChatMessages)]
  <2>1. \A v \in Users : Append(chat_view[v], m) \in Seq(ChatMessages)
    BY <1>1, AppendProperties DEF TypeOK
  <2> QED
    BY <1>1, <2>1 DEF TypeOK
<1>4. TypeOK'
  BY <1>1, <1>2, <1>3 DEF TypeOK
<1>5. /\ Len(log) \in Nat /\ Len(log') = Len(log) + 1
      /\ \A i \in 1..Len(log) : log'[i] = log[i]
      /\ log'[Len(log) + 1] = m
  BY <1>1, AppendProperties, LenProperties DEF TypeOK
<1>6. ASSUME NEW v \in users_
      PROVE  Len(chat_view'[v]) >= Recent' /\ IsSuffix(chat_view'[v], log')
  <2> DEFINE s == chat_view[v]
             t == chat_view'[v]
  <2>1. v \in Users /\ s \in Seq(ChatMessages) /\ t = Append(s, m)
    BY <1>1, <1>6 DEF TypeOK
  <2>2. Len(s) >= Recent /\ IsSuffix(s, log)
    BY <1>6 DEF MembersFollowTheChat
  <2> HIDE DEF s, t
  <2>3. /\ t \in Seq(ChatMessages) /\ Len(t) = Len(s) + 1 /\ Len(s) \in Nat
        /\ \A i \in 1..Len(s) : t[i] = s[i]
        /\ t[Len(s) + 1] = m
    BY <1>1, <2>1, AppendProperties, LenProperties
  <2>4. /\ Len(s) <= Len(log)
        /\ \A i \in 1..Len(s) : s[i] = log[Len(log) - Len(s) + i]
    BY <2>1, <2>2, SuffixByElements DEF TypeOK
  <2>5. Len(t) >= Recent'
    <3>1. MaxHistory \in Nat
      BY ChannelConstants
    <3> QED
      BY <1>5, <2>2, <2>3, <3>1 DEF Recent
  <2>6. ASSUME NEW i \in 1..Len(t)
        PROVE  t[i] = log'[Len(log') - Len(t) + i]
    <3>1. Len(log') - Len(t) + i = Len(log) - Len(s) + i
      BY <1>5, <2>3
    <3>2. CASE i = Len(s) + 1
      <4>1. Len(log) - Len(s) + i = Len(log) + 1
        BY <1>5, <2>3, <3>2
      <4> QED
        BY <1>5, <2>3, <3>1, <3>2, <4>1
    <3>3. CASE i # Len(s) + 1
      <4>1. i \in 1..Len(s) /\ Len(log) - Len(s) + i \in 1..Len(log)
        BY <1>5, <2>3, <2>4, <3>3
      <4> QED
        BY <1>5, <2>3, <2>4, <3>1, <4>1
    <3> QED
      BY <3>2, <3>3
  <2>7. Len(t) <= Len(log')
    BY <1>5, <2>3, <2>4
  <2>8. IsSuffix(t, log')
    BY <1>2, <2>3, <2>6, <2>7, SuffixByElements
  <2> QED
    BY <2>5, <2>8 DEF t
<1>7. MembersFollowTheChat'
  BY <1>1, <1>6 DEF MembersFollowTheChat
<1>8. MembersSeeTheMembers'
  BY <1>1 DEF MembersSeeTheMembers
<1> QED
  BY <1>1, <1>2, <1>4, <1>7, <1>8

-----------------------------------------------------------------------------
LEMMA ChatInit == Init => ChatInv
<1> SUFFICES ASSUME Init PROVE ChatInv
  OBVIOUS
<1> USE DEF Init
<1>1. MaxHistory \in Nat /\ MaxHistory > 0
  BY ChannelConstants
<1>2. << >> \in Seq(ChatMessages) /\ Len(log) = 0
  BY EmptySeq
<1>3. TypeOK /\ IsFiniteSet(users_)
  BY <1>1, <1>2, FS_EmptySet DEF TypeOK, NoList
<1>4. RingHoldsTheRecentLog
  BY <1>1, <1>2 DEF RingHoldsTheRecentLog, Recent
<1>5. MembersFollowTheChat /\ MembersSeeTheMembers
  BY DEF MembersFollowTheChat, MembersSeeTheMembers
<1> QED
  BY <1>3, <1>4, <1>5 DEF ChatInv

LEMMA ChatNext == ChatInv /\ [Next]_vars => ChatInv'
<1> SUFFICES ASSUME ChatInv, [Next]_vars
             PROVE  ChatInv'
  OBVIOUS
<1>1. ASSUME NEW u \in Users, NEW name \in Names, Connect(u, name)
      PROVE  ChatInv'
  BY <1>1, ConnectKeepsInv
<1>6. ASSUME NEW u \in Users, NEW name \in Names, ChangeUsername(u, name)
      PROVE  ChatInv'
  BY <1>6, ChangeUsernameKeepsInv
<1>2. ASSUME NEW u \in Users, RemoveUser(u)
      PROVE  ChatInv'
  BY <1>2, RemoveUserKeepsInv
<1>3. ASSUME NEW name \in Names, NEW text \in Texts, Chat(name, text)
      PROVE  ChatInv'
  BY <1>3, ChatKeepsInv
<1>4. CASE Clear
  BY <1>4, ClearKeepsInv
<1>5. CASE UNCHANGED vars
  <2>1. RingHoldsTheRecentLog' /\ Recent' = Recent
    BY <1>5, SameRoom DEF ChatInv, vars, roomVars
  <2> QED
    BY <1>5, <2>1 DEF vars, ChatInv, TypeOK, MembersFollowTheChat, MembersSeeTheMembers
<1> QED
  BY <1>1, <1>2, <1>3, <1>4, <1>5, <1>6 DEF Next

LEMMA ChatInvariant == Spec => []ChatInv
  BY ChatInit, ChatNext, PTL DEF Spec

(* The ring buffer of CollabVmChatRoom answers a client that connects with *)
(* the last messages of the channel, oldest first, for every size of the   *)
(* buffer a std::uint8_t can index and however often it has wrapped.       *)
THEOREM HistoryIsRecent == Spec => []ChannelInv
<1>1. ChatInv => ChannelInv
  BY HistoryIsSuffix DEF ChatInv, ChannelInv
<1> QED
  BY <1>1, ChatInvariant, PTL

(* A client in the channel has been sent an unbroken end of the chat by    *)
(* the response to CONNECT_TO_CHANNEL and the broadcasts after it.         *)
THEOREM ChatIsFollowed == Spec => []MembersFollowTheChat
<1>1. ChatInv => MembersFollowTheChat
  BY DEF ChatInv
<1> QED
  BY <1>1, ChatInvariant, PTL

(* The list that AddUser sends a client and the messages of AddUser,       *)
(* RemoveUser and update_username keep every member's list right, though   *)
(* they name members by names that are shared and change: no member is     *)
(* missing, and none is there twice unless somebody joined again.          *)
THEOREM MembersSeeMembers == Spec => []MembersSeeTheMembers
<1>1. ChatInv => MembersSeeTheMembers
  BY DEF ChatInv
<1> QED
  BY <1>1, ChatInvariant, PTL
-----------------------------------------------------------------------------
(***************************************************************************)
(* WebServer                                                               *)
(***************************************************************************)

(* Phases of connections that have been counted, and those from            *)
(* OnPreConnect on.                                                        *)
AfterCount == {"upgrade", "read_message", "ended"}
AfterIPData == {"get_settings", "count"} \cup AfterCount

(* Before the server is stopped only connections that have a websocket, or *)
(* are over, are closed.                                                   *)
SocketsSound ==
    \A s \in Sockets :
        /\ phase[s] = "unused" => closes[s] = 0 /\ s \notin sockets_
        /\ close_callback_[s] => s \in sockets_
        /\ tcp_open[s] => close_callback_[s]
        /\ acceptor_open /\ (closes[s] > 0 \/ ~close_callback_[s]) =>
              phase[s] \in {"unused", "read_message", "ended"}
        /\ acceptor_open /\ phase[s] = "accept" /\ io[s] = "error" => accept_failed
        /\ ip_data_[s] => phase[s] \in AfterIPData
        /\ io[s] # "none" => phase[s] \in Operations

StopIsLast == stopping_ \/ Contains(tasks, StopTask) => ~acceptor_open

(* A connection has one count and one discount on its way at a time. *)
IpTasksSound ==
    \A i \in 1..Len(ip_tasks) :
        LET task == ip_tasks[i]
            s == task.socket
        IN
        /\ task.do = "count" => phase[s] = "count" /\ (always_enabled => task.limited)
        /\ task.do = "discount" => ip_data_[s] /\ ~close_callback_[s]
        /\ \A j \in 1..Len(ip_tasks) :
              ip_tasks[j].do = task.do /\ ip_tasks[j].socket = s => j = i

Discounting(s) ==
    \E i \in 1..Len(ip_tasks) : ip_tasks[i].do = "discount" /\ ip_tasks[i].socket = s

(* With the limit on from the start whoever has an OnDisconnect to come,   *)
(* or a discount, has been counted.                                        *)
CountedSound ==
    /\ IsFiniteSet(counted)
    /\ \A s \in counted : phase[s] \in AfterCount
    /\ always_enabled => max_connections_enabled
    /\ acceptor_open /\ always_enabled =>
          \A s \in Sockets :
              phase[s] \in AfterCount /\ ip_data_[s] /\ (close_callback_[s] \/ Discounting(s))
                  => s \in counted

WebServerInv ==
    /\ WebTypeOK
    /\ SocketsSound
    /\ StopIsLast
    /\ RemovedOnce
    /\ StopReachesAll
    /\ AcceptLoopLives
    /\ IpTasksSound
    /\ CountedSound
    /\ NeverOvercounted

(* A step of connection s that leaves the queues alone. *)
Advances(s) ==
    /\ UNCHANGED <<close_callback_, sockets_, stopping_, acceptor_open, tasks, limitVars>>
    /\ \A t \in Sockets \ {s} :
          /\ phase'[t] = phase[t] /\ io'[t] = io[t] /\ tcp_open'[t] = tcp_open[t]
          /\ closes'[t] = closes[t] /\ ip_data_'[t] = ip_data_[t]
    /\ phase[s] \notin {"unused", "count"} /\ phase'[s] # "unused"
    /\ phase'[s] = "accept" <=> phase[s] = "accept"
    /\ phase'[s] = "accept" /\ io'[s] = "error" /\ acceptor_open => accept_failed'
    /\ accept_failed => accept_failed'
    /\ tcp_open'[s] => tcp_open[s] \/ (phase[s] = "accept" /\ acceptor_open)
    /\ closes'[s] >= closes[s]
    /\ closes'[s] > closes[s] => phase'[s] \in {"read_message", "ended"}
    /\ phase[s] \in {"read_message", "ended"} => phase'[s] \in {"read_message", "ended"}
    /\ ip_data_[s] => ip_data_'[s]
    /\ ip_data_'[s] => phase'[s] \in AfterIPData
    /\ io'[s] # "none" => phase'[s] \in Operations
    /\ phase[s] \in AfterCount => phase'[s] \in AfterCount
    /\ phase'[s] \in AfterCount /\ ip_data_'[s] => phase[s] \in AfterCount /\ ip_data_[s]
-----------------------------------------------------------------------------
LEMMA AdvancesKeepsInv ==
    ASSUME WebServerInv, WebTypeOK', NEW s \in Sockets, Advances(s)
    PROVE  WebServerInv'
<1>1. UNCHANGED <<close_callback_, sockets_, stopping_, acceptor_open, tasks, connections, ip_tasks,
                  max_connections_enabled, changes, always_enabled, counted>>
  BY DEF Advances, limitVars
<1>2. \A t \in Sockets \ {s} :
          /\ phase'[t] = phase[t] /\ io'[t] = io[t] /\ tcp_open'[t] = tcp_open[t]
          /\ closes'[t] = closes[t] /\ ip_data_'[t] = ip_data_[t]
  BY DEF Advances
<1>3. closes[s] \in Nat /\ closes'[s] \in Nat
  BY DEF WebServerInv, WebTypeOK
<1>4. SocketsSound'
  <2> SUFFICES ASSUME NEW t \in Sockets
               PROVE  /\ phase'[t] = "unused" => closes'[t] = 0 /\ t \notin sockets_
                      /\ close_callback_[t] => t \in sockets_
                      /\ tcp_open'[t] => close_callback_[t]
                      /\ acceptor_open /\ (closes'[t] > 0 \/ ~close_callback_[t]) =>
                            phase'[t] \in {"unused", "read_message", "ended"}
                      /\ acceptor_open /\ phase'[t] = "accept" /\ io'[t] = "error" => accept_failed'
                      /\ ip_data_'[t] => phase'[t] \in AfterIPData
                      /\ io'[t] # "none" => phase'[t] \in Operations
    BY <1>1 DEF SocketsSound
  <2>1. CASE t # s
    BY <1>2, <2>1 DEF WebServerInv, SocketsSound, Advances
  <2>2. CASE t = s
    BY <1>3, <2>2 DEF WebServerInv, SocketsSound, Advances
  <2> QED
    BY <2>1, <2>2
<1>5. StopIsLast' /\ RemovedOnce'
  BY <1>1 DEF WebServerInv, StopIsLast, RemovedOnce
<1>6. StopReachesAll'
  BY <1>1, <1>2, <1>3 DEF WebServerInv, StopReachesAll, StopIsLast, Advances
<1>7. AcceptLoopLives'
  BY <1>1, <1>2 DEF WebServerInv, AcceptLoopLives, Advances
<1>8. IpTasksSound'
  <2>1. \A i \in 1..Len(ip_tasks) : ip_tasks[i].socket \in Sockets
    BY DEF WebServerInv, WebTypeOK, IpTasks
  <2>2. \A t \in Sockets : /\ phase[t] = "count" => phase'[t] = "count"
                           /\ ip_data_[t] => ip_data_'[t]
    BY <1>2 DEF Advances
  <2> QED
    BY <1>1, <2>1, <2>2 DEF WebServerInv, IpTasksSound
<1>9. CountedSound'
  <2>1. \A t : Discounting(t)' = Discounting(t)
    BY <1>1 DEF Discounting
  <2>2. counted \subseteq Sockets
    BY DEF WebServerInv, WebTypeOK
  <2>3. \A t \in Sockets : /\ phase[t] \in AfterCount => phase'[t] \in AfterCount
                           /\ phase'[t] \in AfterCount /\ ip_data_'[t] =>
                                phase[t] \in AfterCount /\ ip_data_[t]
    BY <1>2 DEF Advances
  <2> QED
    BY <1>1, <2>1, <2>2, <2>3 DEF WebServerInv, CountedSound
<1>10. NeverOvercounted'
  BY <1>1 DEF WebServerInv, NeverOvercounted
<1> QED
  BY <1>4, <1>5, <1>6, <1>7, <1>8, <1>9, <1>10 DEF WebServerInv

(* Goto and PostClose, by connection. *)
LEMMA GotoFacts ==
    ASSUME WebTypeOK, NEW s \in Sockets, NEW p \in Phases, Goto(s, p)
    PROVE  /\ phase' \in [Sockets -> Phases]
           /\ io' \in [Sockets -> {"none", "pending", "ok", "error"}]
           /\ phase'[s] = p /\ io'[s] \in {"none", "pending"}
           /\ io'[s] # "none" => phase'[s] \in Operations
           /\ \A t \in Sockets \ {s} : phase'[t] = phase[t] /\ io'[t] = io[t]
  BY DEF WebTypeOK, Goto

LEMMA PostCloseFacts ==
    ASSUME WebTypeOK, NEW s \in Sockets, PostClose(s)
    PROVE  /\ closes' \in [Sockets -> Nat]
           /\ closes'[s] = closes[s] + 1 /\ closes[s] \in Nat
           /\ \A t \in Sockets \ {s} : closes'[t] = closes[t]
  BY DEF WebTypeOK, PostClose
-----------------------------------------------------------------------------
LEMMA IoSucceedsKeepsInv ==
    ASSUME WebServerInv, NEW s \in Sockets, IoSucceeds(s)
    PROVE  WebServerInv'
<1>1. WebTypeOK'
  BY DEF WebServerInv, WebTypeOK, IoSucceeds, serverVars, limitVars
<1>2. phase[s] \in Operations
  BY DEF WebServerInv, SocketsSound, IoSucceeds
<1>3. Advances(s)
  BY <1>2 DEF WebServerInv, WebTypeOK, SocketsSound, IoSucceeds, Advances, serverVars, Operations
<1> QED
  BY <1>1, <1>3, AdvancesKeepsInv

LEMMA IoFailsKeepsInv ==
    ASSUME WebServerInv, NEW s \in Sockets, IoFails(s)
    PROVE  WebServerInv'
<1>1. accept_failed' \in BOOLEAN
  BY DEF IoFails
<1>2. WebTypeOK'
  BY <1>1 DEF WebServerInv, WebTypeOK, IoFails, limitVars
<1>3. phase[s] \in Operations
  BY DEF WebServerInv, SocketsSound, IoFails
<1>4. /\ accept_failed => accept_failed'
      /\ phase[s] = "accept" /\ acceptor_open => accept_failed'
  BY DEF IoFails
<1>5. Advances(s)
  BY <1>3, <1>4 DEF WebServerInv, WebTypeOK, SocketsSound, IoFails, Advances, Operations
<1> QED
  BY <1>2, <1>5, AdvancesKeepsInv

(* The handlers of a connection's operations, which may post a Close. *)
LEMMA HandlerKeepsInv ==
    ASSUME WebServerInv, NEW s \in Sockets, NEW p \in Phases, Goto(s, p),
           UNCHANGED closes \/ (PostClose(s) /\ p \in {"read_message", "ended"}),
           UNCHANGED <<close_callback_, ip_data_, serverVars, limitVars>>,
           UNCHANGED tcp_open \/ tcp_open' = [tcp_open EXCEPT ![s] = FALSE],
           kicks' \in 0..MaxKicks,
           phase[s] \notin {"unused", "accept", "count"}, p \notin {"unused", "accept"},
           phase[s] \in {"read_message", "ended"} => p \in {"read_message", "ended"},
           phase[s] \in AfterCount => p \in AfterCount,
           phase[s] \in AfterIPData => phase[s] \in AfterCount
    PROVE  WebServerInv'
<1>1. WebTypeOK /\ SocketsSound
  BY DEF WebServerInv
<1>2. /\ phase' \in [Sockets -> Phases]
      /\ io' \in [Sockets -> {"none", "pending", "ok", "error"}]
      /\ phase'[s] = p /\ io'[s] \in {"none", "pending"}
      /\ io'[s] # "none" => phase'[s] \in Operations
      /\ \A t \in Sockets \ {s} : phase'[t] = phase[t] /\ io'[t] = io[t]
  BY <1>1, GotoFacts
<1>3. /\ closes' \in [Sockets -> Nat]
      /\ closes'[s] >= closes[s]
      /\ closes'[s] > closes[s] => phase'[s] \in {"read_message", "ended"}
      /\ \A t \in Sockets \ {s} : closes'[t] = closes[t]
  <2>1. CASE UNCHANGED closes
    BY <1>1, <2>1 DEF WebTypeOK
  <2>2. CASE PostClose(s) /\ p \in {"read_message", "ended"}
    BY <1>1, <1>2, <2>2, PostCloseFacts
  <2> QED
    BY <2>1, <2>2
<1>4. /\ tcp_open' \in [Sockets -> BOOLEAN]
      /\ tcp_open'[s] => tcp_open[s]
      /\ \A t \in Sockets \ {s} : tcp_open'[t] = tcp_open[t]
  BY <1>1 DEF WebTypeOK
<1>5. WebTypeOK'
  BY <1>1, <1>2, <1>3, <1>4 DEF WebTypeOK, serverVars, limitVars
<1>6. UNCHANGED <<close_callback_, sockets_, stopping_, acceptor_open, tasks, limitVars,
                  accept_failed>>
  BY DEF serverVars
<1>7. ip_data_'[s] = ip_data_[s] /\ \A t \in Sockets \ {s} : ip_data_'[t] = ip_data_[t]
  OBVIOUS
<1>8. ip_data_[s] => phase[s] \in AfterCount /\ phase'[s] \in AfterCount
                     /\ phase'[s] \in AfterIPData
  BY <1>1, <1>2 DEF SocketsSound, AfterIPData
<1>9. Advances(s)
  BY <1>2, <1>3, <1>4, <1>6, <1>7, <1>8 DEF Advances
<1> QED
  BY <1>5, <1>9, AdvancesKeepsInv

LEMMA StartKeepsInv ==
    ASSUME WebServerInv, NEW s \in Sockets, Start(s)
    PROVE  WebServerInv'
<1>1. /\ phase[s] = "start" /\ kicks' \in 0..MaxKicks
      /\ UNCHANGED <<tcp_open, close_callback_, ip_data_, serverVars, limitVars>>
  BY DEF WebServerInv, WebTypeOK, Start
<1>2. CASE Goto(s, "read_header") /\ UNCHANGED closes
  BY <1>1, <1>2, HandlerKeepsInv DEF Phases, AfterIPData, AfterCount
<1>3. CASE Goto(s, "ended") /\ PostClose(s)
  BY <1>1, <1>3, HandlerKeepsInv DEF Phases, AfterIPData, AfterCount
<1> QED
  BY <1>2, <1>3 DEF Start

LEMMA ReadHeaderHandlerKeepsInv ==
    ASSUME WebServerInv, NEW s \in Sockets, ReadHeaderHandler(s)
    PROVE  WebServerInv'
<1>1. /\ phase[s] = "read_header" /\ kicks' \in 0..MaxKicks
      /\ UNCHANGED <<closes, close_callback_, ip_data_, serverVars, limitVars>>
      /\ UNCHANGED tcp_open \/ tcp_open' = [tcp_open EXCEPT ![s] = FALSE]
  BY DEF WebServerInv, WebTypeOK, ReadHeaderHandler
<1>2. PICK p \in {"ended", "get_ip_data", "write_response"} : Goto(s, p)
  BY DEF ReadHeaderHandler
<1> QED
  BY <1>1, <1>2, HandlerKeepsInv DEF Phases, AfterIPData, AfterCount

LEMMA WriteResponseHandlerKeepsInv ==
    ASSUME WebServerInv, NEW s \in Sockets, WriteResponseHandler(s)
    PROVE  WebServerInv'
<1>1. /\ phase[s] = "write_response" /\ kicks' \in 0..MaxKicks
      /\ UNCHANGED <<tcp_open, closes, close_callback_, ip_data_, serverVars, limitVars>>
  BY DEF WebServerInv, WebTypeOK, WriteResponseHandler
<1>2. PICK p \in {"ended", "read_header"} : Goto(s, p)
  BY DEF WriteResponseHandler
<1> QED
  BY <1>1, <1>2, HandlerKeepsInv DEF Phases, AfterIPData, AfterCount

LEMMA UpgradeHandlerKeepsInv ==
    ASSUME WebServerInv, NEW s \in Sockets, UpgradeHandler(s)
    PROVE  WebServerInv'
<1>1. /\ phase[s] = "upgrade" /\ kicks' \in 0..MaxKicks
      /\ UNCHANGED <<tcp_open, close_callback_, ip_data_, serverVars, limitVars>>
  BY DEF WebServerInv, WebTypeOK, UpgradeHandler
<1>2. CASE Goto(s, "read_message") /\ UNCHANGED closes
  BY <1>1, <1>2, HandlerKeepsInv DEF Phases, AfterIPData, AfterCount
<1>3. CASE Goto(s, "ended") /\ PostClose(s)
  BY <1>1, <1>3, HandlerKeepsInv DEF Phases, AfterIPData, AfterCount
<1> QED
  BY <1>2, <1>3 DEF UpgradeHandler

LEMMA ReadMessageHandlerKeepsInv ==
    ASSUME WebServerInv, NEW s \in Sockets, ReadMessageHandler(s)
    PROVE  WebServerInv'
<1>1. /\ phase[s] = "read_message"
      /\ UNCHANGED <<tcp_open, close_callback_, ip_data_, serverVars, limitVars>>
  BY DEF ReadMessageHandler
<1>2. kicks' \in 0..MaxKicks
  BY WebServerConstants DEF WebServerInv, WebTypeOK, ReadMessageHandler
<1>3. PICK p \in {"ended", "read_message"} : Goto(s, p) /\ (UNCHANGED closes \/ PostClose(s))
  BY DEF ReadMessageHandler
<1> QED
  BY <1>1, <1>2, <1>3, HandlerKeepsInv DEF Phases, AfterIPData, AfterCount

LEMMA KickKeepsInv ==
    ASSUME WebServerInv, NEW s \in Sockets, Kick(s)
    PROVE  WebServerInv'
<1>1. /\ phase[s] = "read_message"
      /\ UNCHANGED <<phase, io, tcp_open, close_callback_, ip_data_, serverVars, limitVars>>
      /\ WebTypeOK /\ SocketsSound
  BY DEF WebServerInv, Kick
<1>2. kicks' \in 0..MaxKicks
  BY WebServerConstants DEF WebServerInv, WebTypeOK, Kick
<1>3. /\ closes' \in [Sockets -> Nat]
      /\ closes'[s] = closes[s] + 1 /\ closes[s] \in Nat
      /\ \A t \in Sockets \ {s} : closes'[t] = closes[t]
  BY <1>1, PostCloseFacts DEF Kick
<1>4. WebTypeOK'
  BY <1>1, <1>2, <1>3 DEF WebTypeOK, serverVars, limitVars
<1>5. UNCHANGED <<close_callback_, sockets_, stopping_, acceptor_open, tasks, limitVars,
                  accept_failed>>
  BY <1>1 DEF serverVars
<1>6. Advances(s)
  BY <1>1, <1>3, <1>5 DEF SocketsSound, Advances
<1> QED
  BY <1>4, <1>6, AdvancesKeepsInv

LEMMA GetIPDataKeepsInv ==
    ASSUME WebServerInv, NEW s \in Sockets, GetIPData(s)
    PROVE  WebServerInv'
<1>1. /\ phase[s] = "get_ip_data"
      /\ UNCHANGED <<tcp_open, closes, close_callback_, serverVars, limitVars, kicks>>
      /\ WebTypeOK /\ SocketsSound
  BY DEF WebServerInv, GetIPData
<1>2. /\ phase' \in [Sockets -> Phases]
      /\ io' \in [Sockets -> {"none", "pending", "ok", "error"}]
      /\ phase'[s] = "get_settings" /\ io'[s] \in {"none", "pending"}
      /\ io'[s] # "none" => phase'[s] \in Operations
      /\ \A t \in Sockets \ {s} : phase'[t] = phase[t] /\ io'[t] = io[t]
  BY <1>1, GotoFacts DEF GetIPData, Phases
<1>3. /\ ip_data_' \in [Sockets -> BOOLEAN]
      /\ ip_data_'[s] /\ \A t \in Sockets \ {s} : ip_data_'[t] = ip_data_[t]
  BY <1>1 DEF GetIPData, WebTypeOK
<1>4. WebTypeOK'
  BY <1>1, <1>2, <1>3 DEF WebTypeOK, serverVars, limitVars
<1>5. UNCHANGED <<close_callback_, sockets_, stopping_, acceptor_open, tasks, limitVars,
                  accept_failed>>
  BY <1>1 DEF serverVars
<1>6. closes'[s] = closes[s] /\ closes[s] \in Nat /\ tcp_open'[s] = tcp_open[s]
  BY <1>1 DEF WebTypeOK
<1>7. Advances(s)
  BY <1>1, <1>2, <1>3, <1>5, <1>6 DEF Advances, AfterIPData, AfterCount
<1> QED
  BY <1>4, <1>7, AdvancesKeepsInv
-----------------------------------------------------------------------------
(* Queues, by what they hold. *)
LEMMA QueueTail ==
    ASSUME NEW S, NEW q \in Seq(S), q # << >>
    PROVE  /\ Tail(q) \in Seq(S) /\ Len(q) \in Nat /\ Len(Tail(q)) = Len(q) - 1
           /\ 1 \in 1..Len(q) /\ Head(q) = q[1] /\ Head(q) \in S
           /\ \A i \in 1..Len(Tail(q)) : i + 1 \in 1..Len(q) /\ Tail(q)[i] = q[i + 1]
           /\ \A x : Contains(Tail(q), x) => Contains(q, x)
           /\ \A x : Contains(q, x) /\ Head(q) # x => Contains(Tail(q), x)
<1>1. /\ Tail(q) \in Seq(S) /\ Len(q) \in Nat /\ Len(Tail(q)) = Len(q) - 1
      /\ 1 \in 1..Len(q) /\ Head(q) = q[1] /\ Head(q) \in S
      /\ \A i \in 1..Len(Tail(q)) : i + 1 \in 1..Len(q) /\ Tail(q)[i] = q[i + 1]
  BY HeadTailProperties, LenProperties
<1>2. \A x : Contains(Tail(q), x) => Contains(q, x)
  BY <1>1 DEF Contains
<1>3. ASSUME NEW x, Contains(q, x), Head(q) # x PROVE Contains(Tail(q), x)
  <2>1. PICK i \in 1..Len(q) : q[i] = x
    BY <1>3 DEF Contains
  <2>2. i - 1 \in 1..Len(Tail(q)) /\ Tail(q)[i - 1] = q[i]
    BY <1>1, <1>3, <2>1
  <2> QED
    BY <2>1, <2>2 DEF Contains
<1> QED
  BY <1>1, <1>2, <1>3

LEMMA QueueAppend ==
    ASSUME NEW S, NEW q \in Seq(S), NEW x \in S
    PROVE  /\ Append(q, x) \in Seq(S) /\ Len(q) \in Nat /\ Len(Append(q, x)) = Len(q) + 1
           /\ \A i \in 1..Len(q) : Append(q, x)[i] = q[i]
           /\ Append(q, x)[Len(q) + 1] = x
           /\ \A y : Contains(Append(q, x), y) <=> Contains(q, y) \/ x = y
<1>1. /\ Append(q, x) \in Seq(S) /\ Len(q) \in Nat /\ Len(Append(q, x)) = Len(q) + 1
      /\ \A i \in 1..Len(q) : Append(q, x)[i] = q[i]
      /\ Append(q, x)[Len(q) + 1] = x
  BY AppendProperties, LenProperties
<1>2. ASSUME NEW y PROVE Contains(Append(q, x), y) <=> Contains(q, y) \/ x = y
  <2>1. ASSUME Contains(Append(q, x), y) PROVE Contains(q, y) \/ x = y
    <3>1. PICK i \in 1..(Len(q) + 1) : Append(q, x)[i] = y
      BY <1>1, <2>1 DEF Contains
    <3>2. i \in 1..Len(q) \/ i = Len(q) + 1
      BY <1>1
    <3> QED
      BY <1>1, <3>1, <3>2 DEF Contains
  <2>2. ASSUME Contains(q, y) \/ x = y PROVE Contains(Append(q, x), y)
    <3>1. 1..Len(q) \subseteq 1..(Len(q) + 1) /\ Len(q) + 1 \in 1..(Len(q) + 1)
      BY <1>1
    <3> QED
      BY <1>1, <2>2, <3>1 DEF Contains
  <2> QED
    BY <2>1, <2>2
<1> QED
  BY <1>1, <1>2

LEMMA TasksDiffer ==
    /\ AcceptTask # StopTask
    /\ \A s : RemoveTask(s) # AcceptTask /\ RemoveTask(s) # StopTask
    /\ \A s, t : RemoveTask(s) = RemoveTask(t) => s = t
<1>1. AcceptTask.do = "accept" /\ StopTask.do = "stop"
  BY DEF AcceptTask, StopTask
<1>2. \A s : RemoveTask(s).do = "remove" /\ RemoveTask(s).socket = s
  BY DEF RemoveTask
<1> QED
  BY <1>1, <1>2

(* The first task is taken: it erases nobody another task will erase. *)
LEMMA TakingTaskKeepsRemovals ==
    ASSUME WebServerInv, tasks # << >>, tasks' = Tail(tasks),
           \A s \in Sockets : s \in sockets_ /\ Head(tasks) # RemoveTask(s) =>
               s \in sockets_' /\ (close_callback_'[s] => close_callback_[s])
    PROVE  RemovedOnce'
<1>1. /\ Len(tasks) \in Nat /\ Len(tasks') = Len(tasks) - 1
      /\ 1 \in 1..Len(tasks) /\ Head(tasks) = tasks[1]
      /\ \A i \in 1..Len(tasks') : i + 1 \in 1..Len(tasks) /\ tasks'[i] = tasks[i + 1]
  BY QueueTail DEF WebServerInv, WebTypeOK
<1> SUFFICES ASSUME NEW s \in Sockets, NEW i \in 1..Len(tasks'), tasks'[i] = RemoveTask(s)
             PROVE  /\ s \in sockets_' /\ ~close_callback_'[s]
                    /\ \A j \in 1..Len(tasks') : tasks'[j] = RemoveTask(s) => j = i
  BY DEF RemovedOnce
<1>2. /\ s \in sockets_ /\ ~close_callback_[s]
      /\ \A j \in 1..Len(tasks) : tasks[j] = RemoveTask(s) => j = i + 1
  BY <1>1 DEF WebServerInv, RemovedOnce
<1>3. Head(tasks) # RemoveTask(s)
  BY <1>1, <1>2
<1>4. ASSUME NEW j \in 1..Len(tasks'), tasks'[j] = RemoveTask(s) PROVE j = i
  <2>1. j + 1 = i + 1
    BY <1>1, <1>2, <1>4
  <2> QED
    BY <2>1
<1> QED
  BY <1>2, <1>3, <1>4

(* A step that does not touch the limit keeps its invariants. *)
LEMMA LimitKept ==
    ASSUME WebServerInv, UNCHANGED <<ip_data_, limitVars>>, acceptor_open' => acceptor_open,
           \A t \in Sockets :
              /\ phase[t] = "count" => phase'[t] = "count"
              /\ phase[t] \in AfterCount => phase'[t] \in AfterCount
              /\ ip_data_[t] => /\ phase'[t] \in AfterCount => phase[t] \in AfterCount
                                /\ close_callback_'[t] => close_callback_[t]
    PROVE  IpTasksSound' /\ CountedSound' /\ NeverOvercounted'
<1>1. UNCHANGED <<connections, ip_tasks, max_connections_enabled, always_enabled, counted>>
  BY DEF limitVars
<1>2. /\ \A i \in 1..Len(ip_tasks) : ip_tasks[i].socket \in Sockets
      /\ counted \subseteq Sockets
  BY DEF WebServerInv, WebTypeOK, IpTasks
<1>3. IpTasksSound'
  BY <1>1, <1>2 DEF WebServerInv, IpTasksSound
<1>4. \A t : Discounting(t)' = Discounting(t)
  BY <1>1 DEF Discounting
<1>5. CountedSound'
  BY <1>1, <1>2, <1>4 DEF WebServerInv, CountedSound
<1>6. NeverOvercounted'
  BY <1>1 DEF WebServerInv, NeverOvercounted
<1> QED
  BY <1>3, <1>5, <1>6
-----------------------------------------------------------------------------
LEMMA DoAcceptKeepsInv ==
    ASSUME WebServerInv, NEW s \in Sockets, DoAccept(s)
    PROVE  WebServerInv'
<1>1. /\ tasks # << >> /\ Head(tasks) = AcceptTask /\ tasks' = Tail(tasks)
      /\ ~stopping_ /\ phase[s] = "unused" /\ sockets_' = sockets_ \cup {s}
      /\ UNCHANGED <<tcp_open, closes, ip_data_, stopping_, acceptor_open, accept_failed,
                     limitVars, kicks>>
      /\ WebTypeOK /\ SocketsSound
  BY DEF WebServerInv, DoAccept
<1>2. /\ phase' \in [Sockets -> Phases]
      /\ io' \in [Sockets -> {"none", "pending", "ok", "error"}]
      /\ phase'[s] = "accept" /\ io'[s] \in {"none", "pending"}
      /\ io'[s] # "none" => phase'[s] \in Operations
      /\ \A t \in Sockets \ {s} : phase'[t] = phase[t] /\ io'[t] = io[t]
  BY <1>1, GotoFacts DEF DoAccept, Phases
<1>3. /\ close_callback_' \in [Sockets -> BOOLEAN] /\ close_callback_'[s]
      /\ \A t \in Sockets \ {s} : close_callback_'[t] = close_callback_[t]
  BY <1>1 DEF DoAccept, WebTypeOK
<1>4. /\ tasks' \in Seq({AcceptTask, StopTask} \cup {RemoveTask(t) : t \in Sockets})
      /\ \A x : Contains(tasks', x) => Contains(tasks, x)
  BY <1>1, QueueTail DEF WebTypeOK
<1>5. closes[s] = 0 /\ s \notin sockets_ /\ ~ip_data_[s] /\ ~tcp_open[s]
  BY <1>1 DEF SocketsSound, AfterIPData, AfterCount
<1>6. WebTypeOK'
  BY <1>1, <1>2, <1>3, <1>4 DEF WebTypeOK, limitVars
<1>7. SocketsSound'
  <2> SUFFICES ASSUME NEW t \in Sockets
               PROVE  /\ phase'[t] = "unused" => closes'[t] = 0 /\ t \notin sockets_'
                      /\ close_callback_'[t] => t \in sockets_'
                      /\ tcp_open'[t] => close_callback_'[t]
                      /\ acceptor_open' /\ (closes'[t] > 0 \/ ~close_callback_'[t]) =>
                            phase'[t] \in {"unused", "read_message", "ended"}
                      /\ acceptor_open' /\ phase'[t] = "accept" /\ io'[t] = "error" => accept_failed'
                      /\ ip_data_'[t] => phase'[t] \in AfterIPData
                      /\ io'[t] # "none" => phase'[t] \in Operations
    BY DEF SocketsSound
  <2>1. CASE t # s
    BY <1>1, <1>2, <1>3, <2>1 DEF SocketsSound
  <2>2. CASE t = s
    BY <1>1, <1>2, <1>3, <1>5, <2>2
  <2> QED
    BY <2>1, <2>2
<1>8. StopIsLast'
  BY <1>1, <1>4 DEF WebServerInv, StopIsLast
<1>9. RemovedOnce'
  BY <1>1, <1>3, <1>5, TakingTaskKeepsRemovals
<1>10. StopReachesAll' /\ AcceptLoopLives'
  BY <1>1, <1>2 DEF StopReachesAll, AcceptLoopLives
<1>11. IpTasksSound' /\ CountedSound' /\ NeverOvercounted'
  <2>1. \A t \in Sockets :
              /\ phase[t] = "count" => phase'[t] = "count"
              /\ phase[t] \in AfterCount => phase'[t] \in AfterCount
              /\ ip_data_[t] => /\ phase'[t] \in AfterCount => phase[t] \in AfterCount
                                /\ close_callback_'[t] => close_callback_[t]
    BY <1>1, <1>2, <1>3, <1>5 DEF AfterCount
  <2> QED
    BY <1>1, <2>1, LimitKept
<1> QED
  BY <1>6, <1>7, <1>8, <1>9, <1>10, <1>11 DEF WebServerInv

LEMMA DoAcceptNothingKeepsInv ==
    ASSUME WebServerInv, DoAcceptNothing
    PROVE  WebServerInv'
<1>1. /\ tasks # << >> /\ Head(tasks) = AcceptTask /\ tasks' = Tail(tasks)
      /\ stopping_ \/ \A s \in Sockets : phase[s] # "unused"
      /\ UNCHANGED <<phase, io, tcp_open, closes, close_callback_, ip_data_, sockets_, stopping_,
                     acceptor_open, accept_failed, limitVars, kicks>>
  BY DEF DoAcceptNothing, socketVars
<1>2. /\ tasks' \in Seq({AcceptTask, StopTask} \cup {RemoveTask(t) : t \in Sockets})
      /\ \A x : Contains(tasks', x) => Contains(tasks, x)
  BY <1>1, QueueTail DEF WebServerInv, WebTypeOK
<1>3. WebTypeOK'
  BY <1>1, <1>2 DEF WebServerInv, WebTypeOK, limitVars
<1>4. SocketsSound' /\ StopIsLast' /\ StopReachesAll' /\ AcceptLoopLives'
  BY <1>1, <1>2 DEF WebServerInv, SocketsSound, StopIsLast, StopReachesAll, AcceptLoopLives
<1>5. RemovedOnce'
  BY <1>1, TakingTaskKeepsRemovals
<1>6. IpTasksSound' /\ CountedSound' /\ NeverOvercounted'
  BY <1>1, LimitKept
<1> QED
  BY <1>3, <1>4, <1>5, <1>6 DEF WebServerInv

LEMMA AcceptHandlerKeepsInv ==
    ASSUME WebServerInv, NEW s \in Sockets, AcceptHandler(s)
    PROVE  WebServerInv'
<1>1. /\ phase[s] = "accept"
      /\ UNCHANGED <<tcp_open, close_callback_, ip_data_, sockets_, stopping_,
                     acceptor_open, accept_failed, limitVars, kicks>>
      /\ WebTypeOK /\ SocketsSound
  BY DEF WebServerInv, AcceptHandler
<1>2. /\ ~ip_data_[s] /\ closes[s] \in Nat
      /\ acceptor_open => closes[s] = 0 /\ close_callback_[s]
  <2>1. closes[s] \in Nat
    BY <1>1 DEF WebTypeOK
  <2>2. ~ip_data_[s] /\ (acceptor_open => ~(closes[s] > 0) /\ close_callback_[s])
    BY <1>1 DEF SocketsSound, AfterIPData, AfterCount
  <2> QED
    BY <2>1, <2>2
<1>3. PICK p \in {"ended", "start"} :
        /\ Goto(s, p)
        /\ p = "ended" =>
              PostClose(s) /\ UNCHANGED tasks /\ (io[s] = "error" \/ ~acceptor_open)
        /\ p = "start" => tasks' = Append(tasks, AcceptTask) /\ UNCHANGED closes /\ acceptor_open
  BY DEF AcceptHandler
<1>4. /\ phase' \in [Sockets -> Phases]
      /\ io' \in [Sockets -> {"none", "pending", "ok", "error"}]
      /\ phase'[s] = p /\ io'[s] \in {"none", "pending"}
      /\ io'[s] # "none" => phase'[s] \in Operations
      /\ \A t \in Sockets \ {s} : phase'[t] = phase[t] /\ io'[t] = io[t]
  BY <1>1, <1>3, GotoFacts DEF Phases
<1>5. /\ closes' \in [Sockets -> Nat] /\ closes'[s] >= closes[s]
      /\ p = "start" => closes'[s] = closes[s]
      /\ \A t \in Sockets \ {s} : closes'[t] = closes[t]
  <2>1. CASE p = "ended"
    BY <1>1, <1>3, <2>1, PostCloseFacts
  <2>2. CASE p = "start"
    BY <1>1, <1>3, <2>2 DEF WebTypeOK
  <2> QED
    BY <2>1, <2>2
<1>6. /\ tasks' \in Seq({AcceptTask, StopTask} \cup {RemoveTask(t) : t \in Sockets})
      /\ Contains(tasks', StopTask) => Contains(tasks, StopTask)
      /\ p = "start" => Contains(tasks', AcceptTask)
  <2>1. CASE p = "ended"
    BY <1>1, <1>3, <2>1 DEF WebTypeOK
  <2>2. CASE p = "start"
    <3>1. tasks \in Seq({AcceptTask, StopTask} \cup {RemoveTask(t) : t \in Sockets})
      BY <1>1 DEF WebTypeOK
    <3>2. tasks' = Append(tasks, AcceptTask)
      BY <1>3, <2>2
    <3> HIDE DEF AcceptTask, StopTask
    <3> QED
      BY <3>1, <3>2, QueueAppend, TasksDiffer
  <2> QED
    BY <2>1, <2>2
<1>7. WebTypeOK'
  BY <1>1, <1>4, <1>5, <1>6 DEF WebTypeOK, limitVars
<1>8. SocketsSound'
  <2> SUFFICES ASSUME NEW t \in Sockets
               PROVE  /\ phase'[t] = "unused" => closes'[t] = 0 /\ t \notin sockets_'
                      /\ close_callback_'[t] => t \in sockets_'
                      /\ tcp_open'[t] => close_callback_'[t]
                      /\ acceptor_open' /\ (closes'[t] > 0 \/ ~close_callback_'[t]) =>
                            phase'[t] \in {"unused", "read_message", "ended"}
                      /\ acceptor_open' /\ phase'[t] = "accept" /\ io'[t] = "error" => accept_failed'
                      /\ ip_data_'[t] => phase'[t] \in AfterIPData
                      /\ io'[t] # "none" => phase'[t] \in Operations
    BY DEF SocketsSound
  <2>1. CASE t # s
    BY <1>1, <1>4, <1>5, <2>1 DEF SocketsSound
  <2>2. CASE t = s
    BY <1>1, <1>2, <1>4, <1>5, <2>2 DEF SocketsSound
  <2> QED
    BY <2>1, <2>2
<1>9. StopIsLast'
  BY <1>1, <1>6 DEF WebServerInv, StopIsLast
<1>10. RemovedOnce'
  <2>1. CASE p = "ended"
    BY <1>1, <1>3, <2>1 DEF WebServerInv, RemovedOnce
  <2>2. CASE p = "start"
    <3>1. /\ Len(tasks) \in Nat /\ Len(tasks') = Len(tasks) + 1
          /\ \A i \in 1..Len(tasks) : tasks'[i] = tasks[i]
          /\ tasks'[Len(tasks) + 1] = AcceptTask
      <4>1. tasks \in Seq({AcceptTask, StopTask} \cup {RemoveTask(t) : t \in Sockets})
        BY <1>1 DEF WebTypeOK
      <4>2. tasks' = Append(tasks, AcceptTask)
        BY <1>3, <2>2
      <4> HIDE DEF AcceptTask, StopTask
      <4> QED
        BY <4>1, <4>2, QueueAppend
    <3>2. \A t \in Sockets : \A i \in 1..Len(tasks') :
             tasks'[i] = RemoveTask(t) => i \in 1..Len(tasks) /\ tasks[i] = RemoveTask(t)
      BY <3>1, TasksDiffer
    <3> QED
      BY <1>1, <3>2 DEF WebServerInv, RemovedOnce
  <2> QED
    BY <2>1, <2>2
<1>11. StopReachesAll'
  <2>1. \A t \in Sockets : closes[t] \in Nat /\ closes'[t] \in Nat /\ closes'[t] >= closes[t]
    <3>1. closes \in [Sockets -> Nat]
      BY <1>1 DEF WebTypeOK
    <3> QED
      BY <1>5, <3>1
  <2> QED
    BY <1>1, <2>1 DEF WebServerInv, StopReachesAll
<1>12. AcceptLoopLives'
  <2>1. CASE p = "ended"
    BY <1>1, <1>3, <2>1 DEF AcceptLoopLives, SocketsSound
  <2>2. CASE p = "start"
    BY <1>6, <2>2 DEF AcceptLoopLives
  <2> QED
    BY <2>1, <2>2
<1>13. IpTasksSound' /\ CountedSound' /\ NeverOvercounted'
  <2>1. \A t \in Sockets :
              /\ phase[t] = "count" => phase'[t] = "count"
              /\ phase[t] \in AfterCount => phase'[t] \in AfterCount
              /\ ip_data_[t] => /\ phase'[t] \in AfterCount => phase[t] \in AfterCount
                                /\ close_callback_'[t] => close_callback_[t]
    BY <1>1, <1>2, <1>4 DEF AfterCount
  <2> QED
    BY <1>1, <2>1, LimitKept
<1> QED
  BY <1>7, <1>8, <1>9, <1>10, <1>11, <1>12, <1>13 DEF WebServerInv

LEMMA RemoveSocketKeepsInv ==
    ASSUME WebServerInv, NEW s \in Sockets, RemoveSocket(s)
    PROVE  WebServerInv'
<1>1. /\ tasks # << >> /\ Head(tasks) = RemoveTask(s) /\ tasks' = Tail(tasks)
      /\ sockets_' \subseteq sockets_ /\ \A t \in sockets_ : t # s => t \in sockets_'
      /\ UNCHANGED <<phase, io, tcp_open, closes, close_callback_, ip_data_, stopping_,
                     acceptor_open, accept_failed, limitVars, kicks>>
  BY DEF RemoveSocket, socketVars
<1>2. /\ tasks' \in Seq({AcceptTask, StopTask} \cup {RemoveTask(t) : t \in Sockets})
      /\ \A x : Contains(tasks', x) => Contains(tasks, x)
      /\ Contains(tasks, AcceptTask) => Contains(tasks', AcceptTask)
      /\ Contains(tasks, RemoveTask(s))
  <2>1. tasks \in Seq({AcceptTask, StopTask} \cup {RemoveTask(t) : t \in Sockets})
    BY DEF WebServerInv, WebTypeOK
  <2>2. Contains(tasks, RemoveTask(s))
    BY <1>1, <2>1, QueueTail DEF Contains
  <2> QED
    BY <1>1, <2>1, <2>2, QueueTail, TasksDiffer
<1>3. ~close_callback_[s]
  BY <1>2 DEF WebServerInv, RemovedOnce, Contains
<1>4. WebTypeOK'
  BY <1>1, <1>2 DEF WebServerInv, WebTypeOK, limitVars
<1>5. SocketsSound'
  BY <1>1, <1>3 DEF WebServerInv, SocketsSound
<1>6. StopIsLast' /\ StopReachesAll' /\ AcceptLoopLives'
  BY <1>1, <1>2 DEF WebServerInv, StopIsLast, StopReachesAll, AcceptLoopLives
<1>7. RemovedOnce'
  <2>1. \A t \in Sockets : t \in sockets_ /\ Head(tasks) # RemoveTask(t) =>
               t \in sockets_' /\ (close_callback_'[t] => close_callback_[t])
    BY <1>1
  <2> QED
    BY <1>1, <2>1, TakingTaskKeepsRemovals
<1>8. IpTasksSound' /\ CountedSound' /\ NeverOvercounted'
  BY <1>1, LimitKept
<1> QED
  BY <1>4, <1>5, <1>6, <1>7, <1>8 DEF WebServerInv

LEMMA StopKeepsInv ==
    ASSUME WebServerInv, Stop
    PROVE  WebServerInv'
<1>1. /\ acceptor_open' = FALSE /\ tasks' = Append(tasks, StopTask)
      /\ UNCHANGED <<phase, io, tcp_open, closes, close_callback_, ip_data_, sockets_, stopping_,
                     accept_failed, limitVars, kicks>>
  BY DEF Stop, socketVars
<1>2. /\ tasks' \in Seq({AcceptTask, StopTask} \cup {RemoveTask(t) : t \in Sockets})
      /\ Len(tasks) \in Nat /\ Len(tasks') = Len(tasks) + 1
      /\ \A i \in 1..Len(tasks) : tasks'[i] = tasks[i]
      /\ tasks'[Len(tasks) + 1] = StopTask
  BY <1>1, QueueAppend DEF WebServerInv, WebTypeOK
<1>3. WebTypeOK'
  BY <1>1, <1>2 DEF WebServerInv, WebTypeOK, limitVars
<1>4. SocketsSound' /\ StopIsLast' /\ StopReachesAll' /\ AcceptLoopLives'
  BY <1>1 DEF WebServerInv, SocketsSound, StopIsLast, StopReachesAll, AcceptLoopLives
<1>5. RemovedOnce'
  <2>1. \A t \in Sockets : \A i \in 1..Len(tasks') :
           tasks'[i] = RemoveTask(t) => i \in 1..Len(tasks) /\ tasks[i] = RemoveTask(t)
    BY <1>2, TasksDiffer
  <2> QED
    BY <1>1, <2>1 DEF WebServerInv, RemovedOnce
<1>6. IpTasksSound' /\ CountedSound' /\ NeverOvercounted'
  BY <1>1, LimitKept
<1> QED
  BY <1>3, <1>4, <1>5, <1>6 DEF WebServerInv

(* Stop's task closes every connection of the list: whoever has a          *)
(* close_callback_ is on it.                                               *)
LEMMA StopSocketsKeepsInv ==
    ASSUME WebServerInv, StopSockets
    PROVE  WebServerInv'
<1>1. /\ tasks # << >> /\ Head(tasks) = StopTask /\ tasks' = Tail(tasks)
      /\ stopping_' = TRUE
      /\ closes' = [s \in Sockets |-> IF s \in sockets_ THEN closes[s] + 1 ELSE closes[s]]
      /\ UNCHANGED <<phase, io, tcp_open, close_callback_, ip_data_, sockets_,
                     acceptor_open, accept_failed, limitVars, kicks>>
  BY DEF StopSockets
<1>2. /\ tasks' \in Seq({AcceptTask, StopTask} \cup {RemoveTask(t) : t \in Sockets})
      /\ Contains(tasks, StopTask)
  <2>1. tasks \in Seq({AcceptTask, StopTask} \cup {RemoveTask(t) : t \in Sockets})
    BY DEF WebServerInv, WebTypeOK
  <2> QED
    BY <1>1, <2>1, QueueTail DEF Contains
<1>3. ~acceptor_open
  BY <1>2 DEF WebServerInv, StopIsLast
<1>4. closes \in [Sockets -> Nat]
  BY DEF WebServerInv, WebTypeOK
<1>5. closes' \in [Sockets -> Nat]
  BY <1>1, <1>4
<1>6. WebTypeOK'
  BY <1>1, <1>2, <1>5 DEF WebServerInv, WebTypeOK, limitVars
<1>7. SocketsSound' /\ StopIsLast' /\ AcceptLoopLives'
  BY <1>1, <1>3 DEF WebServerInv, SocketsSound, StopIsLast, AcceptLoopLives
<1>8. StopReachesAll'
  BY <1>1, <1>4 DEF WebServerInv, SocketsSound, StopReachesAll
<1>9. RemovedOnce'
  BY <1>1, TakingTaskKeepsRemovals
<1>10. IpTasksSound' /\ CountedSound' /\ NeverOvercounted'
  BY <1>1, LimitKept
<1> QED
  BY <1>6, <1>7, <1>8, <1>9, <1>10 DEF WebServerInv

LEMMA UpdateServerSettingsKeepsInv ==
    ASSUME WebServerInv, UpdateServerSettings
    PROVE  WebServerInv'
<1>1. /\ always_enabled' = FALSE
      /\ UNCHANGED <<phase, io, tcp_open, closes, close_callback_, ip_data_, sockets_, stopping_,
                     acceptor_open, tasks, accept_failed, connections, ip_tasks, counted, kicks>>
  BY DEF UpdateServerSettings, socketVars, serverVars
<1>2. max_connections_enabled' \in BOOLEAN
  BY DEF UpdateServerSettings
<1>3. changes' \in 0..MaxChanges
  BY WebServerConstants DEF UpdateServerSettings, WebServerInv, WebTypeOK
<1>4. WebTypeOK'
  BY <1>1, <1>2, <1>3 DEF WebServerInv, WebTypeOK
<1>5. SocketsSound' /\ StopIsLast' /\ StopReachesAll' /\ AcceptLoopLives' /\ RemovedOnce'
  BY <1>1 DEF WebServerInv, SocketsSound, StopIsLast, StopReachesAll, AcceptLoopLives, RemovedOnce
<1>6. IpTasksSound' /\ CountedSound' /\ NeverOvercounted'
  BY <1>1 DEF WebServerInv, IpTasksSound, CountedSound, NeverOvercounted
<1> QED
  BY <1>4, <1>5, <1>6 DEF WebServerInv
-----------------------------------------------------------------------------
LEMMA GetSettingsKeepsInv ==
    ASSUME WebServerInv, NEW s \in Sockets, GetSettings(s)
    PROVE  WebServerInv'
<1> DEFINE task == [do |-> "count", socket |-> s, limited |-> max_connections_enabled]
<1>1. /\ phase[s] = "get_settings" /\ ip_tasks' = Append(ip_tasks, task)
      /\ UNCHANGED <<tcp_open, closes, close_callback_, ip_data_, sockets_, stopping_, acceptor_open,
                     tasks, accept_failed, connections, max_connections_enabled, changes,
                     always_enabled, counted, kicks>>
      /\ WebTypeOK /\ SocketsSound
  BY DEF WebServerInv, GetSettings, serverVars
<1>2. /\ phase' \in [Sockets -> Phases]
      /\ io' \in [Sockets -> {"none", "pending", "ok", "error"}]
      /\ phase'[s] = "count" /\ io'[s] \in {"none", "pending"}
      /\ io'[s] # "none" => phase'[s] \in Operations
      /\ \A t \in Sockets \ {s} : phase'[t] = phase[t] /\ io'[t] = io[t]
  BY <1>1, GotoFacts DEF GetSettings, Phases
<1>3. task \in IpTasks /\ task.do = "count" /\ task.socket = s
      /\ task.limited = max_connections_enabled
  BY <1>1 DEF WebTypeOK, IpTasks
<1>4. /\ ip_tasks' \in Seq(IpTasks) /\ Len(ip_tasks) \in Nat /\ Len(ip_tasks') = Len(ip_tasks) + 1
      /\ \A i \in 1..Len(ip_tasks) : ip_tasks'[i] = ip_tasks[i]
      /\ ip_tasks'[Len(ip_tasks) + 1] = task
      /\ \A i \in 1..Len(ip_tasks) : ip_tasks[i] \in IpTasks /\ ip_tasks[i].socket \in Sockets
  <2>1. ip_tasks \in Seq(IpTasks)
    BY <1>1 DEF WebTypeOK
  <2>2. \A i \in 1..Len(ip_tasks) : ip_tasks[i] \in IpTasks /\ ip_tasks[i].socket \in Sockets
    BY <2>1 DEF IpTasks
  <2> HIDE DEF task
  <2> QED
    BY <1>1, <1>3, <2>1, <2>2, QueueAppend
<1> HIDE DEF task
<1>5. WebTypeOK'
  BY <1>1, <1>2, <1>4 DEF WebTypeOK
<1>6. SocketsSound'
  <2> SUFFICES ASSUME NEW t \in Sockets
               PROVE  /\ phase'[t] = "unused" => closes'[t] = 0 /\ t \notin sockets_'
                      /\ close_callback_'[t] => t \in sockets_'
                      /\ tcp_open'[t] => close_callback_'[t]
                      /\ acceptor_open' /\ (closes'[t] > 0 \/ ~close_callback_'[t]) =>
                            phase'[t] \in {"unused", "read_message", "ended"}
                      /\ acceptor_open' /\ phase'[t] = "accept" /\ io'[t] = "error" => accept_failed'
                      /\ ip_data_'[t] => phase'[t] \in AfterIPData
                      /\ io'[t] # "none" => phase'[t] \in Operations
    BY DEF SocketsSound
  <2>1. CASE t # s
    BY <1>1, <1>2, <2>1 DEF SocketsSound
  <2>2. CASE t = s
    BY <1>1, <1>2, <2>2 DEF SocketsSound, AfterIPData
  <2> QED
    BY <2>1, <2>2
<1>7. StopIsLast' /\ RemovedOnce' /\ StopReachesAll' /\ NeverOvercounted'
  BY <1>1 DEF WebServerInv, StopIsLast, RemovedOnce, StopReachesAll, NeverOvercounted
<1>8. AcceptLoopLives'
  BY <1>1, <1>2 DEF WebServerInv, AcceptLoopLives
<1>9. IpTasksSound'
  <2>1. \A i \in 1..Len(ip_tasks) : ip_tasks[i].do = "count" => ip_tasks[i].socket # s
    BY <1>1 DEF WebServerInv, IpTasksSound
  <2>2. \A i \in 1..Len(ip_tasks') : i \in 1..Len(ip_tasks) \/ i = Len(ip_tasks) + 1
    BY <1>4
  <2>3. always_enabled => task.limited
    BY <1>3 DEF WebServerInv, CountedSound
  <2>4. \A i \in 1..Len(ip_tasks') :
          ip_tasks'[i].do = "count" => /\ phase'[ip_tasks'[i].socket] = "count"
                                       /\ always_enabled => ip_tasks'[i].limited
    BY <1>2, <1>3, <1>4, <2>1, <2>2, <2>3 DEF WebServerInv, IpTasksSound
  <2>5. \A i \in 1..Len(ip_tasks') :
          ip_tasks'[i].do = "discount" =>
              ip_data_[ip_tasks'[i].socket] /\ ~close_callback_[ip_tasks'[i].socket]
    BY <1>3, <1>4, <2>2 DEF WebServerInv, IpTasksSound
  <2>6. \A i, j \in 1..Len(ip_tasks') :
          ip_tasks'[j].do = ip_tasks'[i].do /\ ip_tasks'[j].socket = ip_tasks'[i].socket => j = i
    BY <1>3, <1>4, <2>1, <2>2 DEF WebServerInv, IpTasksSound
  <2> QED
    BY <1>1, <2>4, <2>5, <2>6 DEF IpTasksSound
<1>10. CountedSound'
  <2>1. \A t : Discounting(t)' => Discounting(t)
    <3> SUFFICES ASSUME NEW t, NEW i \in 1..Len(ip_tasks'),
                        ip_tasks'[i].do = "discount", ip_tasks'[i].socket = t
                 PROVE  Discounting(t)
      BY DEF Discounting
    <3>1. i \in 1..Len(ip_tasks)
      BY <1>3, <1>4
    <3> QED
      BY <1>4, <3>1 DEF Discounting
  <2>2. counted \subseteq Sockets
    BY <1>1 DEF WebTypeOK
  <2>3. \A t \in Sockets : phase[t] \in AfterCount <=> phase'[t] \in AfterCount
    BY <1>1, <1>2 DEF AfterCount
  <2> QED
    BY <1>1, <2>1, <2>2, <2>3 DEF WebServerInv, CountedSound
<1> QED
  BY <1>5, <1>6, <1>7, <1>8, <1>9, <1>10 DEF WebServerInv

(* The first task of the address is taken: no other is like it. *)
LEMMA TakingIpTask ==
    ASSUME WebServerInv, ip_tasks # << >>, ip_tasks' = Tail(ip_tasks)
    PROVE  /\ ip_tasks' \in Seq(IpTasks) /\ Head(ip_tasks) \in IpTasks
           /\ 1 \in 1..Len(ip_tasks) /\ Head(ip_tasks) = ip_tasks[1]
           /\ \A i \in 1..Len(ip_tasks') :
                 /\ i + 1 \in 1..Len(ip_tasks) /\ ip_tasks'[i] = ip_tasks[i + 1]
                 /\ ip_tasks'[i].socket \in Sockets
                 /\ ip_tasks'[i].do = Head(ip_tasks).do =>
                       ip_tasks'[i].socket # Head(ip_tasks).socket
           /\ \A i, j \in 1..Len(ip_tasks') :
                 ip_tasks'[j].do = ip_tasks'[i].do /\ ip_tasks'[j].socket = ip_tasks'[i].socket
                     => j = i
           /\ \A t : Discounting(t)' => Discounting(t)
<1>1. ip_tasks \in Seq(IpTasks)
  BY DEF WebServerInv, WebTypeOK
<1>2. /\ ip_tasks' \in Seq(IpTasks) /\ Len(ip_tasks) \in Nat /\ Head(ip_tasks) \in IpTasks
      /\ 1 \in 1..Len(ip_tasks) /\ Head(ip_tasks) = ip_tasks[1]
      /\ \A i \in 1..Len(ip_tasks') :
            i + 1 \in 1..Len(ip_tasks) /\ ip_tasks'[i] = ip_tasks[i + 1]
  BY <1>1, QueueTail
<1>3. \A i \in 1..Len(ip_tasks) : ip_tasks[i].socket \in Sockets
  BY <1>1 DEF IpTasks
<1>4. \A i, j \in 1..Len(ip_tasks) :
         ip_tasks[j].do = ip_tasks[i].do /\ ip_tasks[j].socket = ip_tasks[i].socket => j = i
  BY DEF WebServerInv, IpTasksSound
<1>5. \A i \in 1..Len(ip_tasks') :
          ip_tasks'[i].do = Head(ip_tasks).do => ip_tasks'[i].socket # Head(ip_tasks).socket
  <2> SUFFICES ASSUME NEW i \in 1..Len(ip_tasks'), ip_tasks'[i].do = Head(ip_tasks).do,
                      ip_tasks'[i].socket = Head(ip_tasks).socket
               PROVE  FALSE
    OBVIOUS
  <2>1. i + 1 = 1
    BY <1>2, <1>4
  <2> QED
    BY <2>1
<1>6. ASSUME NEW i \in 1..Len(ip_tasks'), NEW j \in 1..Len(ip_tasks'),
             ip_tasks'[j].do = ip_tasks'[i].do, ip_tasks'[j].socket = ip_tasks'[i].socket
      PROVE  j = i
  <2>1. j + 1 = i + 1
    BY <1>2, <1>4, <1>6
  <2> QED
    BY <2>1
<1>7. \A t : Discounting(t)' => Discounting(t)
  BY <1>2 DEF Discounting
<1> QED
  BY <1>2, <1>3, <1>5, <1>6, <1>7

(* The count is taken once: a connection that is counted goes on. *)
LEMMA CountConnectionKeepsInv ==
    ASSUME WebServerInv, NEW s \in Sockets, CountConnection(s)
    PROVE  WebServerInv'
<1> DEFINE task == Head(ip_tasks)
           n == (connections + 1) % 256
<1>1. /\ ip_tasks # << >> /\ task.do = "count" /\ task.socket = s /\ ip_tasks' = Tail(ip_tasks)
      /\ UNCHANGED <<tcp_open, close_callback_, ip_data_, sockets_, stopping_, acceptor_open,
                     tasks, accept_failed, max_connections_enabled, changes, always_enabled, kicks>>
      /\ WebTypeOK /\ SocketsSound
  BY DEF WebServerInv, CountConnection, serverVars
<1>2. /\ ip_tasks' \in Seq(IpTasks)
      /\ 1 \in 1..Len(ip_tasks) /\ task = ip_tasks[1]
      /\ \A i \in 1..Len(ip_tasks') :
            /\ i + 1 \in 1..Len(ip_tasks) /\ ip_tasks'[i] = ip_tasks[i + 1]
            /\ ip_tasks'[i].socket \in Sockets
            /\ ip_tasks'[i].do = "count" => ip_tasks'[i].socket # s
      /\ \A i, j \in 1..Len(ip_tasks') :
            ip_tasks'[j].do = ip_tasks'[i].do /\ ip_tasks'[j].socket = ip_tasks'[i].socket => j = i
      /\ \A t : Discounting(t)' => Discounting(t)
  BY <1>1, TakingIpTask
<1>3. phase[s] = "count" /\ (always_enabled => task.limited)
  BY <1>1, <1>2 DEF WebServerInv, IpTasksSound
<1>4. PICK p \in {"ended", "upgrade"} :
        Goto(s, p) /\ IF p = "ended" THEN PostClose(s) ELSE UNCHANGED closes
  BY DEF CountConnection
<1>5. /\ phase' \in [Sockets -> Phases]
      /\ io' \in [Sockets -> {"none", "pending", "ok", "error"}]
      /\ phase'[s] = p /\ io'[s] \in {"none", "pending"}
      /\ io'[s] # "none" => phase'[s] \in Operations
      /\ \A t \in Sockets \ {s} : phase'[t] = phase[t] /\ io'[t] = io[t]
  BY <1>1, <1>4, GotoFacts DEF Phases
<1>6. /\ closes' \in [Sockets -> Nat] /\ closes'[s] >= closes[s]
      /\ closes'[s] > closes[s] => p = "ended"
      /\ \A t \in Sockets \ {s} : closes'[t] = closes[t]
  <2>1. CASE p = "ended"
    BY <1>1, <1>4, <2>1, PostCloseFacts
  <2>2. CASE p # "ended"
    BY <1>1, <1>4, <2>2 DEF WebTypeOK
  <2> QED
    BY <2>1, <2>2
<1>7. closes[s] \in Nat /\ (acceptor_open => closes[s] = 0 /\ close_callback_[s])
  <2>1. closes[s] \in Nat
    BY <1>1 DEF WebTypeOK
  <2>2. acceptor_open => ~(closes[s] > 0) /\ close_callback_[s]
    BY <1>1, <1>3 DEF SocketsSound
  <2> QED
    BY <2>1, <2>2
<1>8. /\ connections \in 0..255 /\ n \in 0..255 /\ n <= connections + 1
      /\ IsFiniteSet(counted) /\ s \notin counted /\ counted \subseteq Sockets
      /\ Cardinality(counted) \in Nat
      /\ IsFiniteSet(counted \cup {s}) /\ Cardinality(counted \cup {s}) = Cardinality(counted) + 1
  <2>1. connections \in 0..255 /\ counted \subseteq Sockets
    BY <1>1 DEF WebTypeOK
  <2>2. IsFiniteSet(counted) /\ s \notin counted
    BY <1>3 DEF WebServerInv, CountedSound, AfterCount
  <2>3. n \in 0..255 /\ n <= connections + 1
    BY <2>1
  <2>4. Cardinality(counted) \in Nat
    BY <2>2, FS_CardinalityType
  <2>5. IsFiniteSet(counted \cup {s}) /\ Cardinality(counted \cup {s}) = Cardinality(counted) + 1
    BY <2>2, FS_AddElement
  <2> QED
    BY <2>1, <2>2, <2>3, <2>4, <2>5
<1>9. \/ connections' = n /\ counted' = counted \cup {s}
      \/ ~task.limited /\ UNCHANGED <<connections, counted>>
  BY DEF CountConnection
<1> HIDE DEF n, task
<1>10. /\ connections' \in 0..255 /\ counted' \subseteq Sockets /\ IsFiniteSet(counted')
       /\ counted \subseteq counted' /\ counted' \subseteq counted \cup {s}
       /\ always_enabled => s \in counted'
  BY <1>3, <1>8, <1>9
<1>11. WebTypeOK'
  BY <1>1, <1>2, <1>5, <1>6, <1>10 DEF WebTypeOK
<1>12. SocketsSound'
  <2> SUFFICES ASSUME NEW t \in Sockets
               PROVE  /\ phase'[t] = "unused" => closes'[t] = 0 /\ t \notin sockets_'
                      /\ close_callback_'[t] => t \in sockets_'
                      /\ tcp_open'[t] => close_callback_'[t]
                      /\ acceptor_open' /\ (closes'[t] > 0 \/ ~close_callback_'[t]) =>
                            phase'[t] \in {"unused", "read_message", "ended"}
                      /\ acceptor_open' /\ phase'[t] = "accept" /\ io'[t] = "error" => accept_failed'
                      /\ ip_data_'[t] => phase'[t] \in AfterIPData
                      /\ io'[t] # "none" => phase'[t] \in Operations
    BY DEF SocketsSound
  <2>1. CASE t # s
    BY <1>1, <1>5, <1>6, <2>1 DEF SocketsSound
  <2>2. CASE t = s
    BY <1>1, <1>5, <1>6, <1>7, <2>2 DEF SocketsSound, AfterIPData, AfterCount
  <2> QED
    BY <2>1, <2>2
<1>13. StopIsLast' /\ RemovedOnce'
  BY <1>1 DEF WebServerInv, StopIsLast, RemovedOnce
<1>14. StopReachesAll'
  <2>1. \A t \in Sockets : closes[t] \in Nat /\ closes'[t] \in Nat /\ closes'[t] >= closes[t]
    <3>1. closes \in [Sockets -> Nat]
      BY <1>1 DEF WebTypeOK
    <3> QED
      BY <1>6, <3>1
  <2> QED
    BY <1>1, <2>1 DEF WebServerInv, StopReachesAll
<1>15. AcceptLoopLives'
  BY <1>1, <1>3, <1>5 DEF WebServerInv, AcceptLoopLives
<1>16. IpTasksSound'
  <2>1. \A i \in 1..Len(ip_tasks') :
          /\ ip_tasks'[i].do = "count" => /\ phase'[ip_tasks'[i].socket] = "count"
                                          /\ always_enabled => ip_tasks'[i].limited
          /\ ip_tasks'[i].do = "discount" =>
                ip_data_[ip_tasks'[i].socket] /\ ~close_callback_[ip_tasks'[i].socket]
    BY <1>2, <1>5 DEF WebServerInv, IpTasksSound
  <2> QED
    BY <1>1, <1>2, <2>1 DEF IpTasksSound
<1>17. CountedSound'
  <2>1. \A t \in counted' : phase'[t] \in AfterCount
    BY <1>5, <1>8, <1>10 DEF WebServerInv, CountedSound, AfterCount
  <2>2. \A t \in Sockets : t # s => phase'[t] = phase[t]
    BY <1>5
  <2> QED
    BY <1>1, <1>2, <1>10, <2>1, <2>2 DEF WebServerInv, CountedSound
<1>18. NeverOvercounted'
  <2> SUFFICES ASSUME acceptor_open PROVE connections' <= Cardinality(counted')
    BY <1>1 DEF NeverOvercounted
  <2>1. connections <= Cardinality(counted)
    BY DEF WebServerInv, NeverOvercounted
  <2>2. CASE connections' = n /\ counted' = counted \cup {s}
    BY <1>8, <2>1, <2>2
  <2>3. CASE UNCHANGED <<connections, counted>>
    BY <2>1, <2>3
  <2> QED
    BY <1>9, <2>2, <2>3
<1> QED
  BY <1>11, <1>12, <1>13, <1>14, <1>15, <1>16, <1>17, <1>18 DEF WebServerInv

LEMMA DiscountConnectionKeepsInv ==
    ASSUME WebServerInv, NEW s \in Sockets, DiscountConnection(s)
    PROVE  WebServerInv'
<1>1. /\ ip_tasks # << >> /\ Head(ip_tasks).do = "discount" /\ Head(ip_tasks).socket = s
      /\ ip_tasks' = Tail(ip_tasks)
      /\ connections' = IF connections > 0 THEN connections - 1 ELSE connections
      /\ counted' = counted \ {s}
      /\ UNCHANGED <<phase, io, tcp_open, closes, close_callback_, ip_data_, sockets_, stopping_,
                     acceptor_open, tasks, accept_failed, max_connections_enabled, changes,
                     always_enabled, kicks>>
  BY DEF DiscountConnection, socketVars, serverVars
<1>2. /\ ip_tasks' \in Seq(IpTasks)
      /\ 1 \in 1..Len(ip_tasks) /\ Head(ip_tasks) = ip_tasks[1]
      /\ \A i \in 1..Len(ip_tasks') :
            /\ i + 1 \in 1..Len(ip_tasks) /\ ip_tasks'[i] = ip_tasks[i + 1]
            /\ ip_tasks'[i].do = "discount" => ip_tasks'[i].socket # s
      /\ \A i, j \in 1..Len(ip_tasks') :
            ip_tasks'[j].do = ip_tasks'[i].do /\ ip_tasks'[j].socket = ip_tasks'[i].socket => j = i
      /\ \A t : Discounting(t)' => Discounting(t)
  BY <1>1, TakingIpTask
<1>3. ~close_callback_[s] /\ ~Discounting(s)'
  BY <1>1, <1>2 DEF WebServerInv, IpTasksSound, Discounting
<1>4. /\ connections \in 0..255 /\ counted \subseteq Sockets /\ IsFiniteSet(counted)
      /\ Cardinality(counted) \in Nat /\ IsFiniteSet(counted')
      /\ Cardinality(counted') = IF s \in counted THEN Cardinality(counted) - 1
                                 ELSE Cardinality(counted)
  BY <1>1, FS_RemoveElement, FS_CardinalityType DEF WebServerInv, WebTypeOK, CountedSound
<1>5. connections' \in 0..255 /\ counted' \subseteq Sockets
  BY <1>1, <1>4
<1>6. WebTypeOK'
  BY <1>1, <1>2, <1>5 DEF WebServerInv, WebTypeOK
<1>7. SocketsSound' /\ StopIsLast' /\ StopReachesAll' /\ AcceptLoopLives' /\ RemovedOnce'
  BY <1>1 DEF WebServerInv, SocketsSound, StopIsLast, StopReachesAll, AcceptLoopLives, RemovedOnce
<1>8. IpTasksSound'
  <2>1. \A i \in 1..Len(ip_tasks') :
          /\ ip_tasks'[i].do = "count" => /\ phase[ip_tasks'[i].socket] = "count"
                                          /\ always_enabled => ip_tasks'[i].limited
          /\ ip_tasks'[i].do = "discount" =>
                ip_data_[ip_tasks'[i].socket] /\ ~close_callback_[ip_tasks'[i].socket]
    BY <1>2 DEF WebServerInv, IpTasksSound
  <2> QED
    BY <1>1, <1>2, <2>1 DEF IpTasksSound
<1>9. CountedSound'
  BY <1>1, <1>2, <1>3, <1>4 DEF WebServerInv, CountedSound
<1>10. NeverOvercounted'
  <2> SUFFICES ASSUME acceptor_open PROVE connections' <= Cardinality(counted')
    BY <1>1 DEF NeverOvercounted
  <2>1. connections <= Cardinality(counted)
    BY DEF WebServerInv, NeverOvercounted
  <2>2. Cardinality(counted') \in Nat
    BY <1>4, FS_CardinalityType
  <2> QED
    BY <1>1, <1>4, <2>1, <2>2
<1> QED
  BY <1>6, <1>7, <1>8, <1>9, <1>10 DEF WebServerInv

(* Only the first Close of a connection finds close_callback_: it posts    *)
(* the one removal and the one discount.                                   *)
LEMMA CloseHandlerKeepsInv ==
    ASSUME WebServerInv, NEW s \in Sockets, CloseHandler(s)
    PROVE  WebServerInv'
<1> DEFINE task == [do |-> "discount", socket |-> s]
<1>1. /\ closes[s] > 0
      /\ UNCHANGED <<phase, io, ip_data_, sockets_, stopping_, acceptor_open, accept_failed,
                     connections, max_connections_enabled, changes, always_enabled, counted, kicks>>
      /\ WebTypeOK /\ SocketsSound
  BY DEF WebServerInv, CloseHandler
<1>2. /\ closes' \in [Sockets -> Nat]
      /\ \A t \in Sockets \ {s} : closes'[t] = closes[t]
      /\ tcp_open' \in [Sockets -> BOOLEAN] /\ ~tcp_open'[s]
      /\ \A t \in Sockets \ {s} : tcp_open'[t] = tcp_open[t]
      /\ close_callback_' \in [Sockets -> BOOLEAN] /\ ~close_callback_'[s]
      /\ \A t \in Sockets \ {s} : close_callback_'[t] = close_callback_[t]
  BY <1>1 DEF CloseHandler, WebTypeOK
<1>3. /\ phase[s] # "unused"
      /\ acceptor_open => phase[s] \in {"read_message", "ended"}
  BY <1>1 DEF SocketsSound
<1>4. \/ UNCHANGED <<tasks, ip_tasks>>
      \/ /\ close_callback_[s] /\ tasks' = Append(tasks, RemoveTask(s))
         /\ ip_tasks' = IF ip_data_[s] THEN Append(ip_tasks, task) ELSE ip_tasks
  BY DEF CloseHandler, ReleaseConnection
<1>5. /\ tasks \in Seq({AcceptTask, StopTask} \cup {RemoveTask(t) : t \in Sockets})
      /\ ip_tasks \in Seq(IpTasks)
  BY <1>1 DEF WebTypeOK
<1>6. \/ UNCHANGED tasks
      \/ /\ close_callback_[s]
         /\ tasks' \in Seq({AcceptTask, StopTask} \cup {RemoveTask(t) : t \in Sockets})
         /\ Len(tasks) \in Nat /\ Len(tasks') = Len(tasks) + 1
         /\ \A i \in 1..Len(tasks) : tasks'[i] = tasks[i]
         /\ tasks'[Len(tasks) + 1] = RemoveTask(s)
         /\ \A x : Contains(tasks', x) <=> Contains(tasks, x) \/ RemoveTask(s) = x
  <2> DEFINE S == {AcceptTask, StopTask} \cup {RemoveTask(t) : t \in Sockets}
  <2>1. RemoveTask(s) \in S
    OBVIOUS
  <2> HIDE DEF S
  <2>2. tasks \in Seq(S)
    BY <1>5 DEF S
  <2>3. /\ Append(tasks, RemoveTask(s)) \in Seq(S)
        /\ Len(tasks) \in Nat /\ Len(Append(tasks, RemoveTask(s))) = Len(tasks) + 1
        /\ \A i \in 1..Len(tasks) : Append(tasks, RemoveTask(s))[i] = tasks[i]
        /\ Append(tasks, RemoveTask(s))[Len(tasks) + 1] = RemoveTask(s)
        /\ \A x : Contains(Append(tasks, RemoveTask(s)), x) <=> Contains(tasks, x) \/ RemoveTask(s) = x
    BY <2>1, <2>2, QueueAppend
  <2> QED
    BY <1>4, <2>3 DEF S
<1>7. task \in IpTasks /\ task.do = "discount" /\ task.socket = s
  BY DEF IpTasks
<1>8. \/ UNCHANGED ip_tasks /\ ~(close_callback_[s] /\ ip_data_[s])
      \/ /\ close_callback_[s] /\ ip_data_[s]
         /\ ip_tasks' \in Seq(IpTasks)
         /\ Len(ip_tasks) \in Nat /\ Len(ip_tasks') = Len(ip_tasks) + 1
         /\ \A i \in 1..Len(ip_tasks) : ip_tasks'[i] = ip_tasks[i]
         /\ ip_tasks'[Len(ip_tasks) + 1] = task
  <2>1. CASE close_callback_[s] /\ ip_data_[s]
    <3>1. ip_tasks' = Append(ip_tasks, task)
      BY <2>1 DEF CloseHandler, ReleaseConnection
    <3> HIDE DEF task
    <3> QED
      BY <1>5, <1>7, <2>1, <3>1, QueueAppend
  <2>2. CASE ~(close_callback_[s] /\ ip_data_[s])
    BY <2>2 DEF CloseHandler, ReleaseConnection
  <2> QED
    BY <2>1, <2>2
<1> HIDE DEF task
<1>9. \A i \in 1..Len(ip_tasks) : ip_tasks[i].socket \in Sockets
  BY <1>5 DEF IpTasks
<1>10. WebTypeOK'
  BY <1>1, <1>2, <1>6, <1>8 DEF WebTypeOK
<1>11. SocketsSound'
  <2> SUFFICES ASSUME NEW t \in Sockets
               PROVE  /\ phase'[t] = "unused" => closes'[t] = 0 /\ t \notin sockets_'
                      /\ close_callback_'[t] => t \in sockets_'
                      /\ tcp_open'[t] => close_callback_'[t]
                      /\ acceptor_open' /\ (closes'[t] > 0 \/ ~close_callback_'[t]) =>
                            phase'[t] \in {"unused", "read_message", "ended"}
                      /\ acceptor_open' /\ phase'[t] = "accept" /\ io'[t] = "error" => accept_failed'
                      /\ ip_data_'[t] => phase'[t] \in AfterIPData
                      /\ io'[t] # "none" => phase'[t] \in Operations
    BY DEF SocketsSound
  <2>1. CASE t # s
    BY <1>1, <1>2, <2>1 DEF SocketsSound
  <2>2. CASE t = s
    BY <1>1, <1>2, <1>3, <2>2 DEF SocketsSound
  <2> QED
    BY <2>1, <2>2
<1>12. StopIsLast'
  BY <1>1, <1>6, TasksDiffer DEF WebServerInv, StopIsLast
<1>13. RemovedOnce'
  <2>1. CASE UNCHANGED tasks
    BY <1>1, <1>2, <2>1 DEF WebServerInv, RemovedOnce
  <2>2. CASE ~UNCHANGED tasks
    <3>1. /\ close_callback_[s] /\ s \in sockets_
          /\ Len(tasks) \in Nat /\ Len(tasks') = Len(tasks) + 1
          /\ \A i \in 1..Len(tasks) : tasks'[i] = tasks[i]
          /\ tasks'[Len(tasks) + 1] = RemoveTask(s)
      BY <1>1, <1>6, <2>2 DEF SocketsSound
    <3>2. \A i \in 1..Len(tasks) : tasks[i] # RemoveTask(s)
      BY <3>1 DEF WebServerInv, RemovedOnce
    <3>3. \A i \in 1..Len(tasks') : i \in 1..Len(tasks) \/ i = Len(tasks) + 1
      BY <3>1
    <3>4. \A i \in 1..Len(tasks') : tasks'[i] = RemoveTask(s) => i = Len(tasks) + 1
      BY <3>1, <3>2, <3>3
    <3>5. ASSUME NEW t \in Sockets, t # s, NEW i \in 1..Len(tasks'), tasks'[i] = RemoveTask(t)
          PROVE  /\ t \in sockets_' /\ ~close_callback_'[t]
                 /\ \A j \in 1..Len(tasks') : tasks'[j] = RemoveTask(t) => j = i
      <4>1. \A j \in 1..Len(tasks') : tasks'[j] = RemoveTask(t) =>
                j \in 1..Len(tasks) /\ tasks[j] = RemoveTask(t)
        BY <3>1, <3>3, <3>5, TasksDiffer
      <4> QED
        BY <1>1, <1>2, <3>5, <4>1 DEF WebServerInv, RemovedOnce
    <3> QED
      BY <1>1, <1>2, <3>1, <3>4, <3>5 DEF RemovedOnce
  <2> QED
    BY <2>1, <2>2
<1>14. StopReachesAll'
  BY <1>1, <1>2 DEF WebServerInv, StopReachesAll
<1>15. AcceptLoopLives'
  BY <1>1, <1>6 DEF WebServerInv, AcceptLoopLives
<1>16. IpTasksSound'
  <2>1. CASE UNCHANGED ip_tasks
    BY <1>1, <1>2, <1>9, <2>1 DEF WebServerInv, IpTasksSound
  <2>2. CASE ~UNCHANGED ip_tasks
    <3>1. /\ close_callback_[s] /\ ip_data_[s]
          /\ Len(ip_tasks) \in Nat /\ Len(ip_tasks') = Len(ip_tasks) + 1
          /\ \A i \in 1..Len(ip_tasks) : ip_tasks'[i] = ip_tasks[i]
          /\ ip_tasks'[Len(ip_tasks) + 1] = task
      BY <1>8, <2>2
    <3>2. \A i \in 1..Len(ip_tasks) : ip_tasks[i].do = "discount" => ip_tasks[i].socket # s
      BY <3>1 DEF WebServerInv, IpTasksSound
    <3>3. \A i \in 1..Len(ip_tasks') : i \in 1..Len(ip_tasks) \/ i = Len(ip_tasks) + 1
      BY <3>1
    <3>4. \A i \in 1..Len(ip_tasks') :
            ip_tasks'[i].do = "count" => /\ phase[ip_tasks'[i].socket] = "count"
                                         /\ always_enabled => ip_tasks'[i].limited
      BY <1>7, <3>1, <3>3 DEF WebServerInv, IpTasksSound
    <3>5. \A i \in 1..Len(ip_tasks') :
            ip_tasks'[i].do = "discount" =>
                ip_data_[ip_tasks'[i].socket] /\ ~close_callback_'[ip_tasks'[i].socket]
      <4>1. ASSUME NEW i \in 1..Len(ip_tasks), ip_tasks[i].do = "discount"
            PROVE  ip_data_[ip_tasks[i].socket] /\ ~close_callback_'[ip_tasks[i].socket]
        <5>1. /\ ip_data_[ip_tasks[i].socket] /\ ~close_callback_[ip_tasks[i].socket]
              /\ ip_tasks[i].socket \in Sockets \ {s}
          BY <1>9, <3>2, <4>1 DEF WebServerInv, IpTasksSound
        <5> QED
          BY <1>2, <5>1
      <4> QED
        BY <1>2, <1>7, <3>1, <3>3, <4>1
    <3>6. \A i, j \in 1..Len(ip_tasks') :
            ip_tasks'[j].do = ip_tasks'[i].do /\ ip_tasks'[j].socket = ip_tasks'[i].socket => j = i
      BY <1>7, <3>1, <3>2, <3>3 DEF WebServerInv, IpTasksSound
    <3> QED
      BY <1>1, <3>4, <3>5, <3>6 DEF IpTasksSound
  <2> QED
    BY <2>1, <2>2
<1>17. CountedSound'
  <2>1. \A t : Discounting(t)' => Discounting(t) \/ (t = s /\ close_callback_[s] /\ ip_data_[s])
    <3> SUFFICES ASSUME NEW t, NEW i \in 1..Len(ip_tasks'),
                        ip_tasks'[i].do = "discount", ip_tasks'[i].socket = t
                 PROVE  Discounting(t) \/ (t = s /\ close_callback_[s] /\ ip_data_[s])
      BY DEF Discounting
    <3> QED
      BY <1>7, <1>8 DEF Discounting
  <2>2. \A t \in Sockets : close_callback_'[t] => close_callback_[t]
    BY <1>2
  <2> QED
    BY <1>1, <2>1, <2>2 DEF WebServerInv, CountedSound
<1>18. NeverOvercounted'
  BY <1>1 DEF WebServerInv, NeverOvercounted
<1> QED
  BY <1>10, <1>11, <1>12, <1>13, <1>14, <1>15, <1>16, <1>17, <1>18 DEF WebServerInv
-----------------------------------------------------------------------------
LEMMA WebServerInit == WebInit => WebServerInv /\ LimitHolds
<1> SUFFICES ASSUME WebInit PROVE WebServerInv /\ LimitHolds
  OBVIOUS
<1>1. /\ tasks \in Seq({AcceptTask, StopTask} \cup {RemoveTask(t) : t \in Sockets})
      /\ Len(tasks) = 1 /\ tasks[1] = AcceptTask
      /\ ip_tasks \in Seq(IpTasks) /\ Len(ip_tasks) = 0
  BY DEF WebInit
<1>2. changes \in 0..MaxChanges /\ kicks \in 0..MaxKicks
  BY WebServerConstants DEF WebInit
<1>3. WebTypeOK
  <2>1. /\ phase \in [Sockets -> Phases] /\ io \in [Sockets -> {"none", "pending", "ok", "error"}]
        /\ tcp_open \in [Sockets -> BOOLEAN] /\ closes \in [Sockets -> Nat]
        /\ close_callback_ \in [Sockets -> BOOLEAN] /\ ip_data_ \in [Sockets -> BOOLEAN]
    BY DEF WebInit, Phases
  <2>2. /\ {stopping_, acceptor_open, accept_failed} \subseteq BOOLEAN
        /\ {max_connections_enabled, always_enabled} \subseteq BOOLEAN
        /\ sockets_ \subseteq Sockets /\ counted \subseteq Sockets
    BY DEF WebInit
  <2>3. connections \in 0..255
    BY DEF WebInit
  <2> QED
    BY <1>1, <1>2, <2>1, <2>2, <2>3 DEF WebTypeOK
<1>4. SocketsSound /\ StopReachesAll
  BY DEF WebInit, SocketsSound, StopReachesAll
<1>5. StopIsLast /\ RemovedOnce /\ AcceptLoopLives
  <2>1. Contains(tasks, AcceptTask) /\ ~Contains(tasks, StopTask)
    BY <1>1, TasksDiffer DEF Contains
  <2>2. \A i \in 1..Len(tasks) : \A t : tasks[i] # RemoveTask(t)
    BY <1>1, TasksDiffer
  <2> QED
    BY <2>1, <2>2 DEF WebInit, StopIsLast, RemovedOnce, AcceptLoopLives
<1>6. IpTasksSound
  BY <1>1 DEF IpTasksSound
<1>7. IsFiniteSet({}) /\ Cardinality({}) = 0
  BY FS_EmptySet
<1>8. CountedSound /\ NeverOvercounted
  BY <1>7 DEF WebInit, CountedSound, NeverOvercounted, AfterCount
<1>9. LimitHolds
  <2>1. Active = {}
    BY DEF WebInit, Active
  <2>2. {s \in Active : phase[s] # "ended"} = {}
    BY <2>1
  <2>3. connections = 0 /\ counted = {} /\ 0 <= MaxConnections
    BY WebServerConstants DEF WebInit
  <2> QED
    BY <1>7, <2>2, <2>3 DEF LimitHolds
<1> QED
  BY <1>3, <1>4, <1>5, <1>6, <1>8, <1>9 DEF WebServerInv

LEMMA WebServerStutter ==
    ASSUME WebServerInv, UNCHANGED webVars
    PROVE  WebServerInv'
<1>1. UNCHANGED <<phase, io, tcp_open, closes, close_callback_, ip_data_, sockets_, stopping_,
             acceptor_open, tasks, connections, ip_tasks, max_connections_enabled,
             changes, kicks, always_enabled, counted, accept_failed>>
  BY DEF webVars
<1>2. WebTypeOK'
  BY <1>1 DEF WebServerInv, WebTypeOK
<1>3. SocketsSound' /\ StopIsLast' /\ StopReachesAll' /\ AcceptLoopLives' /\ RemovedOnce'
  BY <1>1 DEF WebServerInv, SocketsSound, StopIsLast, StopReachesAll, AcceptLoopLives, RemovedOnce
<1>4. IpTasksSound' /\ CountedSound' /\ NeverOvercounted'
  BY <1>1, LimitKept DEF limitVars
<1> QED
  BY <1>2, <1>3, <1>4 DEF WebServerInv

LEMMA WebServerNext ==
    ASSUME WebServerInv, [WebNext]_webVars
    PROVE  WebServerInv'
<1>1. ASSUME NEW s \in Sockets, SocketNext(s) PROVE WebServerInv'
  BY <1>1, IoSucceedsKeepsInv, IoFailsKeepsInv, DoAcceptKeepsInv, AcceptHandlerKeepsInv,
     StartKeepsInv, ReadHeaderHandlerKeepsInv, WriteResponseHandlerKeepsInv, GetIPDataKeepsInv,
     GetSettingsKeepsInv, CountConnectionKeepsInv, DiscountConnectionKeepsInv,
     UpgradeHandlerKeepsInv, ReadMessageHandlerKeepsInv, KickKeepsInv, CloseHandlerKeepsInv,
     RemoveSocketKeepsInv
  DEF SocketNext
<1> QED
  BY <1>1, DoAcceptNothingKeepsInv, StopKeepsInv, StopSocketsKeepsInv,
     UpdateServerSettingsKeepsInv, WebServerStutter DEF WebNext

LEMMA WebServerInvariant == WebSpec => []WebServerInv
  BY WebServerInit, WebServerNext, PTL DEF WebSpec

(* Nothing is erased twice from the list of connections, the accept loop   *)
(* goes on unless an accept failed, and Stop reaches every connection: for *)
(* any number of connections and any order of their handlers.              *)
THEOREM ConnectionListIsSound == WebSpec => []WebInv
<1>1. WebServerInv => WebInv
  BY DEF WebServerInv, WebInv
<1> QED
  BY <1>1, WebServerInvariant, PTL
-----------------------------------------------------------------------------
(* connections is a uint8_t: the limit needs that fewer than 256 are       *)
(* counted at a time.                                                      *)
NoWrap == Cardinality(counted) < 256

(* Only CountConnection lets a websocket in. *)
LEMMA WebsocketsAreCounted ==
    ASSUME WebServerInv, [WebNext]_webVars, \A s \in Sockets : ~CountConnection(s),
           NEW t \in Sockets, t \in Active', phase'[t] # "ended"
    PROVE  t \in Active /\ phase[t] # "ended"
<1>1. /\ phase'[t] \in {"upgrade", "read_message"} /\ ip_data_'[t] /\ close_callback_'[t]
  BY DEF Active
<1>2. /\ phase \in [Sockets -> Phases] /\ ip_data_ \in [Sockets -> BOOLEAN]
      /\ close_callback_ \in [Sockets -> BOOLEAN]
  BY DEF WebServerInv, WebTypeOK
<1> SUFFICES /\ phase[t] \in {"upgrade", "read_message"} /\ ip_data_[t] /\ close_callback_[t]
  BY DEF Active
<1>3. CASE UNCHANGED <<phase, ip_data_, close_callback_>>
  BY <1>1, <1>3
<1>4. ASSUME NEW s \in Sockets, SocketNext(s)
      PROVE  phase[t] \in {"upgrade", "read_message"} /\ ip_data_[t] /\ close_callback_[t]
  <2>1. CASE IoSucceeds(s) \/ IoFails(s) \/ Kick(s)
    BY <1>3, <2>1 DEF IoSucceeds, IoFails, Kick
  <2>2. CASE DiscountConnection(s) \/ RemoveSocket(s)
    BY <1>3, <2>2 DEF DiscountConnection, RemoveSocket, socketVars
  <2>3. CASE CloseHandler(s)
    BY <1>1, <1>2, <2>3 DEF CloseHandler
  <2>4. CASE DoAccept(s)
    BY <1>1, <1>2, <2>4 DEF DoAccept, Goto
  <2>5. CASE AcceptHandler(s) \/ Start(s)
    BY <1>1, <1>2, <2>5 DEF AcceptHandler, Start, Goto
  <2>6. CASE ReadHeaderHandler(s) \/ WriteResponseHandler(s)
    BY <1>1, <1>2, <2>6 DEF ReadHeaderHandler, WriteResponseHandler, Goto
  <2>7. CASE GetIPData(s) \/ GetSettings(s)
    BY <1>1, <1>2, <2>7 DEF GetIPData, GetSettings, Goto
  <2>8. CASE UpgradeHandler(s) \/ ReadMessageHandler(s)
    BY <1>1, <1>2, <2>8 DEF UpgradeHandler, ReadMessageHandler, Goto
  <2> QED
    BY <1>4, <2>1, <2>2, <2>3, <2>4, <2>5, <2>6, <2>7, <2>8 DEF SocketNext
<1>5. CASE DoAcceptNothing \/ Stop \/ StopSockets \/ UpdateServerSettings
  BY <1>3, <1>5 DEF DoAcceptNothing, Stop, StopSockets, UpdateServerSettings, socketVars
<1>6. CASE UNCHANGED webVars
  BY <1>3, <1>6 DEF webVars
<1> QED
  BY <1>4, <1>5, <1>6 DEF WebNext

(* What the other steps leave alone. *)
LEMMA CountIsLeftAlone ==
    ASSUME [WebNext]_webVars, \A s \in Sockets : ~CountConnection(s) /\ ~DiscountConnection(s)
    PROVE  UNCHANGED <<connections, counted>>
<1>1. ASSUME NEW s \in Sockets, SocketNext(s) PROVE UNCHANGED <<connections, counted>>
  BY <1>1 DEF SocketNext, IoSucceeds, IoFails, DoAccept, AcceptHandler, Start, ReadHeaderHandler,
     WriteResponseHandler, GetIPData, GetSettings, UpgradeHandler, ReadMessageHandler, Kick,
     CloseHandler, RemoveSocket, limitVars
<1> QED
  BY <1>1 DEF WebNext, DoAcceptNothing, Stop, StopSockets, UpdateServerSettings, limitVars, webVars

LEMMA LimitNext ==
    ASSUME WebServerInv, WebServerInv', NoWrap', LimitHolds, [WebNext]_webVars
    PROVE  LimitHolds'
<1> DEFINE Websockets == {s \in Active : phase[s] # "ended"}
<1> SUFFICES ASSUME acceptor_open', always_enabled'
             PROVE  /\ connections' = Cardinality(counted')
                    /\ Cardinality(Websockets') <= MaxConnections
  BY DEF LimitHolds
<1>1. acceptor_open /\ always_enabled
  <2>1. ASSUME NEW s \in Sockets, SocketNext(s) PROVE UNCHANGED <<acceptor_open, always_enabled>>
    BY <2>1 DEF SocketNext, IoSucceeds, IoFails, DoAccept, AcceptHandler, Start, ReadHeaderHandler,
       WriteResponseHandler, GetIPData, GetSettings, UpgradeHandler, ReadMessageHandler, Kick,
       CloseHandler, RemoveSocket, CountConnection, DiscountConnection, limitVars, serverVars
  <2> QED
    BY <2>1 DEF WebNext, DoAcceptNothing, Stop, StopSockets, UpdateServerSettings, limitVars,
       serverVars, webVars
<1>2. connections = Cardinality(counted) /\ Cardinality(Websockets) <= MaxConnections
  BY <1>1 DEF LimitHolds
<1>3. /\ IsFiniteSet(counted) /\ IsFiniteSet(counted')
      /\ Websockets \subseteq counted /\ Websockets' \subseteq counted'
  <2>1. Websockets \subseteq counted
    BY <1>1 DEF WebServerInv, CountedSound, Active, AfterCount
  <2>2. Websockets' \subseteq counted'
    BY DEF WebServerInv, CountedSound, Active, AfterCount
  <2> QED
    BY <2>1, <2>2 DEF WebServerInv, CountedSound
<1>4. /\ IsFiniteSet(Websockets) /\ IsFiniteSet(Websockets')
      /\ Cardinality(Websockets) \in Nat /\ Cardinality(Websockets') \in Nat
      /\ Cardinality(Websockets') <= Cardinality(counted')
      /\ Cardinality(counted) \in Nat /\ Cardinality(counted') \in Nat
      /\ MaxConnections \in Nat
  <2> HIDE DEF Websockets
  <2>1. /\ IsFiniteSet(Websockets) /\ IsFiniteSet(Websockets')
        /\ Cardinality(Websockets') <= Cardinality(counted')
    BY <1>3, FS_Subset
  <2> QED
    BY <1>3, <2>1, FS_CardinalityType, WebServerConstants
<1>5. ASSUME Websockets' \subseteq Websockets
      PROVE  Cardinality(Websockets') <= MaxConnections
  <2> HIDE DEF Websockets
  <2>1. Cardinality(Websockets') <= Cardinality(Websockets)
    BY <1>4, <1>5, FS_Subset
  <2> QED
    BY <1>2, <1>4, <2>1
<1>6. ASSUME NEW s \in Sockets, CountConnection(s)
      PROVE  /\ connections' = Cardinality(counted')
             /\ Cardinality(Websockets') <= MaxConnections
  <2>1. /\ ip_tasks # << >> /\ Head(ip_tasks).do = "count" /\ Head(ip_tasks).socket = s
        /\ ip_tasks' = Tail(ip_tasks)
    BY <1>6 DEF CountConnection
  <2>2. 1 \in 1..Len(ip_tasks) /\ Head(ip_tasks) = ip_tasks[1]
    BY <2>1, TakingIpTask
  <2>3. phase[s] = "count" /\ Head(ip_tasks).limited
    BY <1>1, <2>1, <2>2 DEF WebServerInv, IpTasksSound
  <2>4. /\ connections' = (connections + 1) % 256 /\ counted' = counted \cup {s}
        /\ connections' > MaxConnections => Goto(s, "ended")
        /\ ~(connections' > MaxConnections) => Goto(s, "upgrade")
    BY <1>6, <2>3 DEF CountConnection
  <2>5. s \notin counted
    BY <2>3 DEF WebServerInv, CountedSound, AfterCount
  <2>6. Cardinality(counted') = Cardinality(counted) + 1
    BY <1>3, <2>4, <2>5, FS_AddElement
  <2>7. connections' = Cardinality(counted')
    <3>1. connections + 1 \in 0..255
      BY <1>2, <1>4, <2>6 DEF NoWrap
    <3>2. (connections + 1) % 256 = connections + 1
      BY <3>1
    <3> QED
      BY <1>2, <2>4, <2>6, <3>2
  <2>8. CASE connections' > MaxConnections
    <3>1. Websockets' \subseteq Websockets
      <4>1. /\ phase \in [Sockets -> Phases] /\ Goto(s, "ended")
            /\ UNCHANGED <<ip_data_, close_callback_>>
        BY <1>6, <2>4, <2>8 DEF WebServerInv, WebTypeOK, CountConnection
      <4>2. phase'[s] = "ended" /\ \A t \in Sockets : t # s => phase'[t] = phase[t]
        BY <4>1 DEF Goto
      <4> QED
        BY <4>1, <4>2 DEF Active
    <3> QED
      BY <1>5, <2>7, <3>1
  <2>9. CASE ~(connections' > MaxConnections)
    BY <1>4, <2>7, <2>9
  <2> QED
    BY <2>7, <2>8, <2>9
<1>7. ASSUME NEW s \in Sockets, DiscountConnection(s)
      PROVE  /\ connections' = Cardinality(counted')
             /\ Cardinality(Websockets') <= MaxConnections
  <2>1. /\ ip_tasks # << >> /\ Head(ip_tasks).do = "discount" /\ Head(ip_tasks).socket = s
        /\ ip_tasks' = Tail(ip_tasks)
        /\ connections' = IF connections > 0 THEN connections - 1 ELSE connections
        /\ counted' = counted \ {s}
        /\ UNCHANGED <<phase, ip_data_, close_callback_>>
    BY <1>7 DEF DiscountConnection, socketVars
  <2>2. 1 \in 1..Len(ip_tasks) /\ Head(ip_tasks) = ip_tasks[1]
    BY <2>1, TakingIpTask
  <2>3. ip_data_[s] /\ ~close_callback_[s] /\ Discounting(s)
    BY <2>1, <2>2 DEF WebServerInv, IpTasksSound, Discounting
  <2>4. phase[s] \in AfterCount
    BY <1>1, <2>3 DEF WebServerInv, SocketsSound, AfterCount, AfterIPData
  <2>5. s \in counted
    BY <1>1, <2>3, <2>4 DEF WebServerInv, CountedSound
  <2>6. Cardinality(counted') = Cardinality(counted) - 1
    BY <1>3, <2>1, <2>5, FS_RemoveElement
  <2>7. connections' = Cardinality(counted')
    BY <1>2, <1>4, <2>1, <2>6
  <2>8. Websockets' \subseteq Websockets
    BY <2>1 DEF Active
  <2> QED
    BY <1>5, <2>7, <2>8
<1>8. CASE \A s \in Sockets : ~CountConnection(s) /\ ~DiscountConnection(s)
  <2>1. Websockets' \subseteq Websockets
    <3>1. \A t \in Sockets : t \in Active' /\ phase'[t] # "ended" => t \in Active /\ phase[t] # "ended"
      BY <1>8, WebsocketsAreCounted
    <3>2. Active' \subseteq Sockets
      BY DEF Active
    <3> QED
      BY <3>1, <3>2
  <2>2. UNCHANGED <<connections, counted>>
    BY <1>8, CountIsLeftAlone
  <2> QED
    BY <1>2, <1>5, <2>1, <2>2
<1> QED
  BY <1>6, <1>7, <1>8

(* While fewer than 256 connections of the address are counted at a time,  *)
(* the limit neither lets too many in nor keeps out too many.  (Otherwise  *)
(* connections, a uint8_t, wraps and starts again from 0.)                 *)
THEOREM LimitIsKept == WebSpec /\ []NoWrap => []ConnectionsAreLimited
<1>1. WebServerInv /\ LimitHolds => ConnectionsAreLimited
  BY DEF WebServerInv, ConnectionsAreLimited
<1> QED
  BY <1>1, WebServerInit, WebServerInvariant, LimitNext, PTL DEF WebSpec
=============================================================================
