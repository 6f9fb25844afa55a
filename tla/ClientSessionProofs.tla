------------------------ MODULE ClientSessionProofs ------------------------
(***************************************************************************)
(* Proofs about ClientSession for any clients, names, virtual machines and *)
(* interleaving of the strands: a client that waits for its requests is in *)
(* the channels it believes to be in, under the name it has; the viewers   *)
(* of the list are counted; careful guests hold their names and no others. *)
(***************************************************************************)
EXTENDS ClientSession, SequenceTheorems, FiniteSetTheorems, TLAPS

ViewTasks == [do : {"view", "unview"}, client : Clients]
LoginTasks == [do : {"login"}, client : Clients, name : Accounts]
GuestRenames == [do : {"rename"}, client : Clients, name : Names, old : Names \cup {NoName}]

Tasks == UsernameTasks \cup GuestTasks \cup ChannelTasks(Channels) \cup ViewTasks \cup LoginTasks

(* What may wait on strand s. *)
Fits(s, t) ==
    \/ s = Guests /\ t \in GuestTasks
    \/ s = VmList /\ t \in ChannelTasks(Vms) \cup ViewTasks
    \/ s = Sessions /\ t \in LoginTasks
    \/ \E c \in Clients : s = Username(c) /\ t \in UsernameTasks
    \/ \E ch \in Channels : s = Channel(ch) /\ t \in ChannelTasks({ch})

QueuesFit(q) ==
    /\ q \in [Strands -> Seq(Tasks)]
    /\ \A s \in Strands : \A i \in 1..Len(q[s]) : Fits(s, q[s][i])

(* The tasks of client c, and that each of them waits in one place. *)
Pending(q, c) ==
    {t \in Tasks : t.client = c /\ \E s \in Strands : \E i \in 1..Len(q[s]) : q[s][i] = t}

Once(q, c) ==
    \A s, z \in Strands : \A i \in 1..Len(q[s]), j \in 1..Len(q[z]) :
        q[s][i].client = c /\ q[s][i] = q[z][j] => s = z /\ i = j

(* How many removals of c from the viewers wait. *)
Unview(c) == [do |-> "unview", client |-> c]
UnviewPlaces(q, c) == {i \in 1..Len(q[VmList]) : q[VmList][i] = Unview(c)}
Unviews(q, c) == Cardinality(UnviewPlaces(q, c))
-----------------------------------------------------------------------------
(* A client by itself: the set P of its tasks, whether it is connected     *)
(* (on), the name it has, the VM it is in, whether it joined the global    *)
(* chat and the name each channel shows for it.                            *)

(* Tasks of one request that may wait at the same time. *)
Together ==
    {<<"set", "join">>, <<"set", "unview">>, <<"set", "leave">>,
     <<"unview", "leave">>, <<"unview", "release">>, <<"unview", "erase">>,
     <<"leave", "release">>, <<"leave", "erase">>}

MayMeet(t, u) ==
    \/ <<t.do, u.do>> \in Together
    \/ <<u.do, t.do>> \in Together
    \/ t.do = u.do /\ t.do \in {"update", "leave"} /\ t.channel # u.channel

OneRequest(P) == \A t, u \in P : t = u \/ MayMeet(t, u)

(* A name that is being set is the first one of the client unless nothing  *)
(* else waits.                                                             *)
IsSet(P, n) == \E t \in P : t.do = "set" /\ t.name = n

TaskSound(t, P, on, name, vm, global, shown) ==
    /\ t.do \notin {"unview", "leave", "release", "erase"} => on
    /\ t.do \in {"release", "erase"} => ~on
    /\ t.do \in {"connect", "generate", "join"} /\ t.channel # Global => t.channel # vm
    /\ t.do = "generate" => name = NoName
    /\ t.do = "set" => name = NoName \/ P = {t}
    /\ t.do = "join" => /\ shown[t.channel] = NoName
                        /\ t.channel = Global => global
                        /\ name = t.name \/ (name = NoName /\ IsSet(P, t.name))
    /\ t.do = "update" => name = t.name
    /\ t.do = "leave" /\ on => t.channel # vm /\ t.channel # Global
    /\ t.do = "erase" => name = NoName
    /\ t \in GuestRenames => t.old = name

IsJoining(P, ch) == \E t \in P : t.do = "join" /\ t.channel = ch
IsLeaving(P, ch) == \E t \in P : t.do = "leave" /\ t.channel = ch
IsUpdated(P, ch) == \E t \in P : t.do = "update" /\ t.channel = ch

InVms(P, on, vm, shown) ==
    /\ on /\ vm # Global => shown[vm] # NoName
    /\ \A v \in Vms : shown[v] # NoName => (on /\ v = vm) \/ IsLeaving(P, v)

InGlobal(P, on, global, shown) ==
    /\ on /\ global => shown[Global] # NoName \/ IsJoining(P, Global)
    /\ shown[Global] # NoName => (on /\ global) \/ IsLeaving(P, Global)

NamesShown(P, on, name, vm, shown) ==
    \A ch \in Channels :
        on /\ shown[ch] # NoName /\ (ch = vm \/ ch = Global) =>
            \/ shown[ch] = name
            \/ IsUpdated(P, ch) /\ name # NoName
            \/ name = NoName /\ IsSet(P, shown[ch])

Sound(P, on, name, vm, global, shown) ==
    /\ OneRequest(P)
    /\ \A t \in P : TaskSound(t, P, on, name, vm, global, shown)
    /\ InVms(P, on, vm, shown)
    /\ InGlobal(P, on, global, shown)
    /\ NamesShown(P, on, name, vm, shown)

(* The client holds name n in guests_: it has the name and will not get    *)
(* another, or the name is being set or given back.                        *)
Holds(P, name, n) ==
    \/ \E t \in P : t.do \in {"set", "erase"} /\ t.name = n
    \/ name = n /\ \A t \in P : t.do # "set"
-----------------------------------------------------------------------------
Shown(c) == [ch \in Channels |-> users_[ch][c]]

CarefulSound(c) ==
    /\ Once(tasks, c)
    /\ Sound(Pending(tasks, c), open[c], username_[c], connected_vm_id_[c],
             is_in_global_chat_[c], Shown(c))

NamesHeld ==
    OnlyCarefulGuests =>
        \A c \in Clients, n \in Names :
            guests_[n] = c <=> Holds(Pending(tasks, c), username_[c], n)

PlainTypes ==
    /\ open \in [Clients -> BOOLEAN]
    /\ sent \in 0..MaxMessages
    /\ username_ \in [Clients -> Names \cup {NoName}]
    /\ is_logged_in_ \in [Clients -> BOOLEAN]
    /\ connected_vm_id_ \in [Clients -> Channels]
    /\ is_in_global_chat_ \in [Clients -> BOOLEAN]
    /\ is_viewing_vm_list_ \in [Clients -> BOOLEAN]
    /\ guests_ \in [Names -> Clients \cup {NoClient}]
    /\ users_ \in [Channels -> [Clients -> Names \cup {NoName}]]
    /\ vm_list_viewers_ \in [Clients -> Nat]
    /\ tested \in [Clients -> SUBSET (Callers \X BOOLEAN)]
    /\ careless \in [Clients -> BOOLEAN]
    /\ raced \in [Clients -> BOOLEAN]

ClientsInv ==
    /\ PlainTypes
    /\ QueuesFit(tasks)
    /\ \A c \in Clients : ~careless[c] => CarefulSound(c)
    /\ NamesHeld
    /\ ViewersAreCounted
-----------------------------------------------------------------------------
(* What the fields of a task are. *)
LEMMA TaskFields ==
    ASSUME NEW t \in Tasks
    PROVE  /\ t.client \in Clients
           /\ t.do \in {"connect", "generate", "join", "update", "leave"} => t.channel \in Channels
           /\ t.do \in {"rename", "set", "erase", "join", "update", "login"} => t.name \in Names
  <1>1. CASE t \in UsernameTasks
    BY <1>1 DEF UsernameTasks
  <1>2. CASE t \in GuestTasks
    BY <1>2 DEF GuestTasks
  <1>3. CASE t \in ChannelTasks(Channels)
    BY <1>3 DEF ChannelTasks
  <1>4. CASE t \in ViewTasks
    BY <1>4 DEF ViewTasks
  <1>5. CASE t \in LoginTasks
    BY <1>5, SessionConstants DEF LoginTasks
  <1> QED
    BY <1>1, <1>2, <1>3, <1>4, <1>5 DEF Tasks

(* A task that begins a request waits alone. *)
LEMMA LoneTask ==
    ASSUME NEW P, OneRequest(P), NEW t \in P,
           t.do \in {"connect", "generate", "rename", "login", "view"}
    PROVE  P = {t}
  <1>1. ASSUME NEW u \in P PROVE u = t
    BY <1>1 DEF OneRequest, MayMeet, Together
  <1> QED
    BY <1>1

LEMMA RequestSound ==
    ASSUME NEW on \in BOOLEAN, NEW name, NEW vm, NEW global \in BOOLEAN, NEW shown,
           NEW t,
           Sound({}, on, name, vm, global, shown),
           on,
           t.do \in {"connect", "rename", "login", "view"},
           t \notin GuestRenames,
           t.do = "connect" /\ t.channel # Global => t.channel # vm
    PROVE  Sound({t}, on, name, vm, global, shown)
  <1>1. OneRequest({t})
    BY DEF OneRequest
  <1>2. TaskSound(t, {t}, on, name, vm, global, shown)
    BY DEF TaskSound
  <1>3. InVms({t}, on, vm, shown) /\ InGlobal({t}, on, global, shown)
    BY DEF Sound, InVms, InGlobal, IsLeaving, IsJoining
  <1>4. NamesShown({t}, on, name, vm, shown)
    BY DEF Sound, NamesShown, IsUpdated, IsSet
  <1> QED
    BY <1>1, <1>2, <1>3, <1>4 DEF Sound

LEMMA DisconnectSound ==
    ASSUME NEW on \in BOOLEAN, NEW name, NEW vm, NEW global \in BOOLEAN, NEW shown,
           NEW Q,
           Sound({}, on, name, vm, global, shown),
           OneRequest(Q),
           \A t \in Q : t.do \in {"unview", "release", "leave"} /\ t \notin GuestRenames,
           vm # Global => IsLeaving(Q, vm),
           global => IsLeaving(Q, Global)
    PROVE  Sound(Q, FALSE, name, vm, global, shown)
  <1>2. ASSUME NEW t \in Q PROVE TaskSound(t, Q, FALSE, name, vm, global, shown)
    BY DEF TaskSound
  <1>3. InVms(Q, FALSE, vm, shown) /\ InGlobal(Q, FALSE, global, shown)
    BY SessionConstants DEF Sound, InVms, InGlobal, IsLeaving, IsJoining
  <1>4. NamesShown(Q, FALSE, name, vm, shown)
    BY DEF NamesShown
  <1> QED
    BY <1>2, <1>3, <1>4 DEF Sound

(* A task whose end leaves the client as it is. *)
LEMMA DropSound ==
    ASSUME NEW on \in BOOLEAN, NEW name, NEW vm, NEW global \in BOOLEAN, NEW shown,
           NEW P, NEW t \in P,
           Sound(P, on, name, vm, global, shown),
           \/ t.do \in {"connect", "rename", "view", "unview", "erase"}
           \/ t.do = "release" /\ name = NoName
           \/ t.do = "join" /\ t.channel # Global
    PROVE  Sound(P \ {t}, on, name, vm, global, shown)
  <1> DEFINE Q == P \ {t}
  <1>1. OneRequest(Q)
    BY DEF Sound, OneRequest
  <1>2. ASSUME NEW n PROVE IsSet(Q, n) <=> IsSet(P, n)
    BY DEF IsSet
  <1>3. ASSUME NEW u \in Q PROVE TaskSound(u, Q, on, name, vm, global, shown)
    BY <1>2 DEF Sound, TaskSound
  <1>4. InVms(Q, on, vm, shown) /\ InGlobal(Q, on, global, shown)
    BY DEF Sound, InVms, InGlobal, IsLeaving, IsJoining
  <1>5. NamesShown(Q, on, name, vm, shown)
    BY <1>2 DEF Sound, NamesShown, IsUpdated
  <1> QED
    BY <1>1, <1>3, <1>4, <1>5 DEF Sound

(* One task of a request follows the other. *)
LEMMA FollowSound ==
    ASSUME NEW on \in BOOLEAN, NEW name, NEW vm, NEW global \in BOOLEAN, NEW shown,
           NEW P, NEW t \in P, NEW u,
           Sound(P, on, name, vm, global, shown),
           t.do \in {"connect", "generate", "rename", "login"},
           \/ /\ t.do = "connect" /\ u.do = "generate" /\ u.channel = t.channel
              /\ name = NoName
           \/ u.do \in {"rename", "set"},
           u \in GuestRenames => u.old = name
    PROVE  Sound({u}, on, name, vm, global, shown)
  <1>1. P = {t}
    BY LoneTask DEF Sound
  <1>2. OneRequest({u})
    BY DEF OneRequest
  <1>3. on
    BY DEF Sound, TaskSound
  <1>4. TaskSound(u, {u}, on, name, vm, global, shown)
    BY <1>3 DEF Sound, TaskSound
  <1>5. InVms({u}, on, vm, shown) /\ InGlobal({u}, on, global, shown)
    BY <1>1 DEF Sound, InVms, InGlobal, IsLeaving, IsJoining
  <1>6. NamesShown({u}, on, name, vm, shown)
    BY <1>1 DEF Sound, NamesShown, IsUpdated, IsSet
  <1> QED
    BY <1>2, <1>4, <1>5, <1>6 DEF Sound

(* A client without requests that does not view ch is not shown there. *)
LEMMA LoneNotShown ==
    ASSUME NEW on \in BOOLEAN, NEW name, NEW vm, NEW global \in BOOLEAN, NEW shown,
           NEW P, NEW t \in P, NEW ch \in Channels,
           Sound(P, on, name, vm, global, shown),
           t.do \in {"connect", "generate"}, t.channel = ch,
           ch = Global => ~global
    PROVE  on /\ shown[ch] = NoName /\ ~(ch # Global /\ ch = vm)
  <1>1. P = {t}
    BY LoneTask DEF Sound
  <1> QED
    BY <1>1 DEF Sound, TaskSound, InVms, InGlobal, IsLeaving, Channels

(* A client that has a name goes to a channel. *)
LEMMA EnterSound ==
    ASSUME NEW on \in BOOLEAN, NEW name, NEW vm, NEW global \in BOOLEAN, NEW shown,
           NEW global1 \in BOOLEAN,
           NEW P, NEW t \in P, NEW u, NEW ch \in Channels,
           Sound(P, on, name, vm, global, shown),
           t.do = "connect", t.channel = ch,
           u.do = "join", u.channel = ch, u.name = name, u \notin GuestRenames,
           ch = Global => ~global,
           global1 <=> global \/ ch = Global
    PROVE  Sound({u}, on, name, vm, global1, shown)
  <1>1. P = {t}
    BY LoneTask DEF Sound
  <1>2. OneRequest({u})
    BY DEF OneRequest
  <1>3. on /\ shown[ch] = NoName /\ ~(ch # Global /\ ch = vm)
    BY LoneNotShown
  <1>4. TaskSound(u, {u}, on, name, vm, global1, shown)
    BY <1>3 DEF TaskSound
  <1>5. InVms({u}, on, vm, shown)
    BY <1>1 DEF Sound, InVms, IsLeaving
  <1>6. InGlobal({u}, on, global1, shown)
    BY <1>1 DEF Sound, InGlobal, IsLeaving, IsJoining
  <1>7. NamesShown({u}, on, name, vm, shown)
    BY <1>1 DEF Sound, NamesShown, IsUpdated, IsSet
  <1> QED
    BY <1>2, <1>4, <1>5, <1>6, <1>7 DEF Sound

(* A client gets its first name, w, and goes to a channel. *)
LEMMA GeneratedSound ==
    ASSUME NEW on \in BOOLEAN, NEW name, NEW vm, NEW global \in BOOLEAN, NEW shown,
           NEW global1 \in BOOLEAN,
           NEW P, NEW t \in P, NEW u, NEW w, NEW ch \in Channels,
           Sound(P, on, name, vm, global, shown),
           t.do = "generate", t.channel = ch,
           w.do = "set", w.name = u.name, w \notin GuestRenames,
           u.do = "join", u.channel = ch, u \notin GuestRenames,
           ch = Global => ~global,
           global1 <=> global \/ ch = Global
    PROVE  Sound({w, u}, on, name, vm, global1, shown)
  <1>1. P = {t}
    BY LoneTask DEF Sound
  <1>2. OneRequest({w, u})
    BY DEF OneRequest, MayMeet, Together
  <1>3. on /\ shown[ch] = NoName /\ ~(ch # Global /\ ch = vm)
    BY LoneNotShown
  <1>4. name = NoName
    BY DEF Sound, TaskSound
  <1>5. IsSet({w, u}, u.name)
    BY DEF IsSet
  <1>6. /\ TaskSound(u, {w, u}, on, name, vm, global1, shown)
        /\ TaskSound(w, {w, u}, on, name, vm, global1, shown)
    BY <1>3, <1>4, <1>5 DEF TaskSound
  <1>7. InVms({w, u}, on, vm, shown)
    BY <1>1 DEF Sound, InVms, IsLeaving
  <1>8. InGlobal({w, u}, on, global1, shown)
    BY <1>1 DEF Sound, InGlobal, IsLeaving, IsJoining
  <1>9. NamesShown({w, u}, on, name, vm, shown)
    BY <1>1 DEF Sound, NamesShown, IsUpdated, IsSet
  <1> QED
    BY <1>2, <1>6, <1>7, <1>8, <1>9 DEF Sound

(* The first name of a client is set. *)
LEMMA FirstNameSound ==
    ASSUME NEW on \in BOOLEAN, NEW name, NEW vm, NEW global \in BOOLEAN, NEW shown,
           NEW P \in SUBSET Tasks, NEW w \in P,
           Sound(P, on, name, vm, global, shown),
           w.do = "set", name = NoName
    PROVE  Sound(P \ {w}, on, w.name, vm, global, shown)
  <1> DEFINE Q == P \ {w}
  <1>1. OneRequest(Q)
    BY DEF Sound, OneRequest
  <1>2. ASSUME NEW u \in Q PROVE u.do \in {"join", "unview", "leave"}
    BY DEF Sound, OneRequest, MayMeet, Together
  <1>3. ASSUME NEW n, IsSet(P, n) PROVE w.name = n
    BY <1>3, <1>2 DEF IsSet
  <1>4. ASSUME NEW u \in Q PROVE TaskSound(u, Q, on, w.name, vm, global, shown)
    <2>1. u.do = "join" => u.name # NoName
      BY TaskFields, SessionConstants DEF NoName
    <2>2. u \notin GuestRenames
      BY <1>2 DEF GuestRenames
    <2> QED
      BY <1>2, <1>3, <2>1, <2>2 DEF Sound, TaskSound
  <1>5. InVms(Q, on, vm, shown) /\ InGlobal(Q, on, global, shown)
    BY DEF Sound, InVms, InGlobal, IsLeaving, IsJoining
  <1>6. NamesShown(Q, on, w.name, vm, shown)
    BY <1>3 DEF Sound, NamesShown
  <1> QED
    BY <1>1, <1>4, <1>5, <1>6 DEF Sound

(* A client that has a name gets another: its channels are told. *)
LEMMA NewNameSound ==
    ASSUME NEW on \in BOOLEAN, NEW name, NEW vm \in Channels, NEW global \in BOOLEAN, NEW shown,
           NEW P \in SUBSET Tasks, NEW w \in P, NEW Q,
           Sound(P, on, name, vm, global, shown),
           w.do = "set", name # NoName,
           OneRequest(Q),
           \A u \in Q : u.do = "update" /\ u.name = w.name /\ u \notin GuestRenames,
           vm # Global => IsUpdated(Q, vm),
           global => IsUpdated(Q, Global)
    PROVE  Sound(Q, on, w.name, vm, global, shown)
  <1>1. P = {w}
    BY DEF Sound, TaskSound
  <1>2. on
    BY DEF Sound, TaskSound
  <1>3. ASSUME NEW u \in Q PROVE TaskSound(u, Q, on, w.name, vm, global, shown)
    BY <1>2 DEF TaskSound
  <1>4. InVms(Q, on, vm, shown) /\ InGlobal(Q, on, global, shown)
    BY <1>1 DEF Sound, InVms, InGlobal, IsLeaving, IsJoining
  <1>5. w.name # NoName
    BY TaskFields, SessionConstants DEF NoName
  <1>6. NamesShown(Q, on, w.name, vm, shown)
    BY <1>1, <1>5 DEF Sound, NamesShown, InVms, InGlobal, IsLeaving
  <1> QED
    BY <1>3, <1>4, <1>6 DEF Sound

(* The name of a client that is gone is given back. *)
LEMMA ReleaseSound ==
    ASSUME NEW on \in BOOLEAN, NEW name, NEW vm, NEW global \in BOOLEAN, NEW shown,
           NEW P, NEW t \in P, NEW u,
           Sound(P, on, name, vm, global, shown),
           t.do = "release", u.do = "erase", u \notin GuestRenames
    PROVE  Sound((P \ {t}) \cup {u}, on, NoName, vm, global, shown)
  <1> DEFINE Q == (P \ {t}) \cup {u}
  <1>1. ASSUME NEW x \in P \ {t} PROVE x.do \in {"unview", "leave"}
    BY DEF Sound, OneRequest, MayMeet, Together
  <1>2. OneRequest(Q)
    BY <1>1 DEF Sound, OneRequest, MayMeet, Together
  <1>3. ~on
    BY DEF Sound, TaskSound
  <1>4. ASSUME NEW x \in Q PROVE TaskSound(x, Q, on, NoName, vm, global, shown)
    <2>1. CASE x = u
      BY <2>1, <1>3 DEF TaskSound
    <2>2. CASE x \in P \ {t}
      <3>1. x \notin GuestRenames
        BY <2>2, <1>1 DEF GuestRenames
      <3> QED
        BY <2>2, <3>1, <1>1, <1>3 DEF TaskSound
    <2> QED
      BY <2>1, <2>2
  <1>5. InVms(Q, on, vm, shown) /\ InGlobal(Q, on, global, shown)
    BY DEF Sound, InVms, InGlobal, IsLeaving, IsJoining
  <1>6. NamesShown(Q, on, NoName, vm, shown)
    BY <1>3 DEF NamesShown
  <1> QED
    BY <1>2, <1>4, <1>5, <1>6 DEF Sound

(* The tasks X by which a client leaves the list and the VM it was in. *)
LeavingTasks(X, vm) ==
    /\ \A x \in X : \/ x.do = "unview"
                    \/ x.do = "leave" /\ x.channel = vm /\ vm # Global
    /\ \A x \in X : x \notin GuestRenames
    /\ OneRequest(X)
    /\ vm # Global => IsLeaving(X, vm)

(* Channel ch, which did not show the client, shows it as n. *)
ShownAt(ch, n, shown, shown1) ==
    \A z \in Channels : shown1[z] = IF z = ch THEN n ELSE shown[z]

(* A client enters channel ch. *)
LEMMA JoinSound ==
    ASSUME NEW on \in BOOLEAN, NEW name, NEW vm \in Channels, NEW global \in BOOLEAN,
           NEW shown \in [Channels -> Names \cup {NoName}],
           NEW shown1 \in [Channels -> Names \cup {NoName}],
           NEW P \in SUBSET Tasks, NEW t \in P, NEW X, NEW ch \in Channels,
           Sound(P, on, name, vm, global, shown),
           t.do = "join", t.channel = ch,
           LeavingTasks(X, vm),
           ShownAt(ch, t.name, shown, shown1)
    PROVE  Sound((P \ {t}) \cup X, on, name, ch, global, shown1)
  <1>0. \A z \in Channels : shown1[z] = IF z = ch THEN t.name ELSE shown[z]
    BY DEF ShownAt
  <1> DEFINE Q == (P \ {t}) \cup X
  <1>1. ASSUME NEW x \in P \ {t} PROVE x.do = "set"
    BY DEF Sound, OneRequest, MayMeet, Together
  <1>2. OneRequest(Q)
    BY <1>1 DEF Sound, OneRequest, MayMeet, Together, LeavingTasks
  <1>3. /\ on
        /\ shown[ch] = NoName
        /\ ch # Global => ch # vm
        /\ ch = Global => global
        /\ name = t.name \/ (name = NoName /\ IsSet(P, t.name))
    BY DEF Sound, TaskSound
  <1>4. t.name # NoName
    BY TaskFields, SessionConstants DEF NoName
  <1>5. ASSUME NEW x \in Q PROVE TaskSound(x, Q, on, name, ch, global, shown1)
    <2>1. CASE x \in X
      BY <2>1, <1>3 DEF TaskSound, LeavingTasks
    <2>2. CASE x \in P \ {t}
      <3>1. x \notin GuestRenames
        BY <2>2, <1>1 DEF GuestRenames
      <3>2. name = NoName
        BY <2>2, <1>1 DEF Sound, TaskSound
      <3> QED
        BY <3>1, <3>2, <2>2, <1>1, <1>3 DEF TaskSound
    <2> QED
      BY <2>1, <2>2
  <1>6. InVms(Q, on, ch, shown1)
    <2>1. ASSUME NEW v \in Vms, shown1[v] # NoName, v # ch PROVE IsLeaving(Q, v)
      BY <2>1, <1>0, <1>1, SessionConstants DEF Sound, InVms, IsLeaving, Channels, LeavingTasks
    <2> QED
      BY <2>1, <1>0, <1>3, <1>4 DEF InVms
  <1>7. InGlobal(Q, on, global, shown1)
    BY <1>0, <1>1, <1>3, <1>4 DEF Sound, InGlobal, IsLeaving, IsJoining, Channels, LeavingTasks
  <1>8. ASSUME NEW n PROVE IsSet(P, n) => IsSet(Q, n)
    BY DEF IsSet
  <1>9. NamesShown(Q, on, name, ch, shown1)
    <2>1. ASSUME NEW z \in Channels, z # ch PROVE ~IsUpdated(P, z)
      BY <1>1 DEF IsUpdated
    <2> QED
      BY <2>1, <1>0, <1>3, <1>8 DEF Sound, NamesShown
  <1> QED
    BY <1>2, <1>5, <1>6, <1>7, <1>9 DEF Sound

(* A client leaves channel ch. *)
LEMMA LeaveSound ==
    ASSUME NEW on \in BOOLEAN, NEW name, NEW vm \in Channels, NEW global \in BOOLEAN,
           NEW shown \in [Channels -> Names \cup {NoName}],
           NEW shown1 \in [Channels -> Names \cup {NoName}],
           NEW P, NEW t \in P, NEW ch \in Channels,
           Sound(P, on, name, vm, global, shown),
           t.do = "leave", t.channel = ch,
           \A z \in Channels : shown1[z] = IF z = ch THEN NoName ELSE shown[z]
    PROVE  Sound(P \ {t}, on, name, vm, global, shown1)
  <1> DEFINE Q == P \ {t}
  <1>1. OneRequest(Q)
    BY DEF Sound, OneRequest
  <1>2. ASSUME NEW n PROVE IsSet(Q, n) <=> IsSet(P, n)
    BY DEF IsSet
  <1>3. ASSUME NEW x \in Q PROVE x.do \in {"set", "unview", "release", "erase", "leave"}
    BY DEF Sound, OneRequest, MayMeet, Together
  <1>4. ASSUME NEW x \in Q PROVE TaskSound(x, Q, on, name, vm, global, shown1)
    BY <1>3 DEF Sound, TaskSound
  <1>5. ASSUME NEW z \in Channels, z # ch PROVE IsLeaving(Q, z) <=> IsLeaving(P, z)
    BY <1>5 DEF IsLeaving
  <1>6. on => ch # vm /\ ch # Global
    BY DEF Sound, TaskSound
  <1>7. InVms(Q, on, vm, shown1)
    BY <1>5, <1>6 DEF Sound, InVms, Channels
  <1>8. InGlobal(Q, on, global, shown1)
    <2>1. IsJoining(Q, Global) <=> IsJoining(P, Global)
      BY DEF IsJoining
    <2>2. Global \in Channels
      BY DEF Channels
    <2> QED
      BY <2>1, <2>2, <1>5, <1>6 DEF Sound, InGlobal
  <1>9. NamesShown(Q, on, name, vm, shown1)
    <2>1. ASSUME NEW z \in Channels PROVE IsUpdated(Q, z) <=> IsUpdated(P, z)
      BY DEF IsUpdated
    <2> QED
      BY <2>1, <1>2, <1>6 DEF Sound, NamesShown
  <1> QED
    BY <1>1, <1>4, <1>7, <1>8, <1>9 DEF Sound

(* Channel ch learns of the name. *)
LEMMA UpdateSound ==
    ASSUME NEW on \in BOOLEAN, NEW name, NEW vm \in Channels, NEW global \in BOOLEAN,
           NEW shown \in [Channels -> Names \cup {NoName}],
           NEW shown1 \in [Channels -> Names \cup {NoName}],
           NEW P \in SUBSET Tasks, NEW t \in P, NEW ch \in Channels,
           Sound(P, on, name, vm, global, shown),
           t.do = "update", t.channel = ch,
           \A z \in Channels :
              shown1[z] = IF z = ch /\ shown[z] # NoName THEN t.name ELSE shown[z]
    PROVE  Sound(P \ {t}, on, name, vm, global, shown1)
  <1> DEFINE Q == P \ {t}
  <1>1. OneRequest(Q)
    BY DEF Sound, OneRequest
  <1>2. ASSUME NEW x \in Q PROVE x.do = "update" /\ x.channel # ch
    BY DEF Sound, OneRequest, MayMeet, Together
  <1>3. ASSUME NEW x \in Q PROVE TaskSound(x, Q, on, name, vm, global, shown1)
    BY <1>2 DEF Sound, TaskSound
  <1>4. t.name # NoName /\ name = t.name
    BY TaskFields, SessionConstants DEF NoName, Sound, TaskSound
  <1>5. ASSUME NEW z \in Channels PROVE shown1[z] = NoName <=> shown[z] = NoName
    BY <1>4
  <1>6. ASSUME NEW z PROVE ~IsLeaving(P, z) /\ ~IsJoining(P, z)
    BY <1>2 DEF IsLeaving, IsJoining
  <1>7. InVms(Q, on, vm, shown1) /\ InGlobal(Q, on, global, shown1)
    BY <1>5, <1>6 DEF Sound, InVms, InGlobal, Channels
  <1>8. ASSUME NEW z \in Channels, z # ch PROVE IsUpdated(Q, z) <=> IsUpdated(P, z)
    BY <1>8 DEF IsUpdated
  <1>9. NamesShown(Q, on, name, vm, shown1)
    BY <1>4, <1>5, <1>8 DEF Sound, NamesShown
  <1> QED
    BY <1>1, <1>3, <1>7, <1>9 DEF Sound
-----------------------------------------------------------------------------
(* Queues: a task is added at the end of one or taken from its front. *)
LEMMA FitsIsTyped ==
    ASSUME NEW s, NEW t, Fits(s, t)
    PROVE  t \in Tasks /\ s \in Strands
  <1>1. ChannelTasks(Vms) \subseteq ChannelTasks(Channels)
    BY DEF ChannelTasks, Channels
  <1>2. ASSUME NEW ch \in Channels PROVE ChannelTasks({ch}) \subseteq ChannelTasks(Channels)
    BY DEF ChannelTasks
  <1> QED
    BY <1>1, <1>2 DEF Fits, Tasks, Strands

LEMMA StrandsDiffer ==
    /\ {Guests, VmList, Sessions} \subseteq Strands
    /\ \A c \in Clients : Username(c) \in Strands
    /\ \A ch \in Channels : Channel(ch) \in Strands
    /\ Guests # VmList /\ Guests # Sessions /\ VmList # Sessions
    /\ \A c \in Clients : Username(c) \notin {Guests, VmList, Sessions}
    /\ \A ch \in Channels : Channel(ch) \notin {Guests, VmList, Sessions}
    /\ \A c \in Clients, ch \in Channels : Username(c) # Channel(ch)
    /\ \A c, d \in Clients : Username(c) = Username(d) => c = d
    /\ \A ch, z \in Channels : Channel(ch) = Channel(z) => ch = z
  BY DEF Strands, Guests, VmList, Sessions, Username, Channel

LEMMA PushedQueue ==
    ASSUME NEW q, QueuesFit(q), NEW s, NEW t, Fits(s, t), NEW p, p = Push(q, s, t)
    PROVE  /\ p \in [Strands -> Seq(Tasks)]
           /\ \A z \in Strands \ {s} : p[z] = q[z]
           /\ Len(q[s]) \in Nat
           /\ Len(p[s]) = Len(q[s]) + 1
           /\ \A i \in 1..Len(q[s]) : p[s][i] = q[s][i]
           /\ p[s][Len(q[s]) + 1] = t
  <1>1. q \in [Strands -> Seq(Tasks)] /\ s \in Strands /\ t \in Tasks
    BY FitsIsTyped DEF QueuesFit
  <1>2. q[s] \in Seq(Tasks)
    BY <1>1
  <1>3. /\ Append(q[s], t) \in Seq(Tasks) /\ Len(Append(q[s], t)) = Len(q[s]) + 1
        /\ \A i \in 1..Len(q[s]) : Append(q[s], t)[i] = q[s][i]
        /\ Append(q[s], t)[Len(q[s]) + 1] = t
    BY <1>1, <1>2, AppendProperties
  <1>4. Len(q[s]) \in Nat
    BY <1>2, LenProperties
  <1>5. p[s] = Append(q[s], t) /\ p \in [Strands -> Seq(Tasks)]
        /\ \A z \in Strands \ {s} : p[z] = q[z]
    BY <1>1, <1>3 DEF Push
  <1> QED
    BY <1>3, <1>4, <1>5

LEMMA Pushing ==
    ASSUME NEW q, QueuesFit(q), NEW s, NEW t, Fits(s, t), NEW p, p = Push(q, s, t)
    PROVE  /\ QueuesFit(p)
           /\ \A d \in Clients :
                /\ Pending(p, d) = IF t.client = d THEN Pending(q, d) \cup {t} ELSE Pending(q, d)
                /\ Once(q, d) /\ (t.client = d => t \notin Pending(q, d)) => Once(p, d)
  <1> DEFINE last == Len(q[s]) + 1
  <1>1. /\ p \in [Strands -> Seq(Tasks)]
        /\ \A z \in Strands \ {s} : p[z] = q[z]
        /\ Len(q[s]) \in Nat /\ Len(p[s]) = last
        /\ \A i \in 1..Len(q[s]) : p[s][i] = q[s][i]
        /\ p[s][last] = t
    BY PushedQueue
  <1>2. q \in [Strands -> Seq(Tasks)] /\ s \in Strands /\ t \in Tasks
    BY FitsIsTyped DEF QueuesFit
  <1>3. ASSUME NEW z \in Strands, NEW i \in 1..Len(p[z]), ~(z = s /\ i = last)
        PROVE  i \in 1..Len(q[z]) /\ p[z][i] = q[z][i]
    BY <1>1, <1>3
  <1>4. ASSUME NEW z \in Strands, NEW i \in 1..Len(q[z])
        PROVE  i \in 1..Len(p[z]) /\ p[z][i] = q[z][i] /\ q[z][i] \in Tasks
    <2>1. q[z][i] \in Tasks
      BY <1>2, ElementOfSeq
    <2> QED
      BY <1>1, <2>1
  <1>5. last \in 1..Len(p[s])
    BY <1>1
  <1> HIDE DEF last
  <1>6. QueuesFit(p)
    <2>1. ASSUME NEW z \in Strands, NEW i \in 1..Len(p[z]) PROVE Fits(z, p[z][i])
      <3>1. CASE z = s /\ i = last
        BY <1>1, <3>1
      <3>2. CASE ~(z = s /\ i = last)
        <4>1. i \in 1..Len(q[z]) /\ p[z][i] = q[z][i]
          BY <1>3, <3>2
        <4> QED
          BY <4>1 DEF QueuesFit
      <3> QED
        BY <3>1, <3>2
    <2> QED
      BY <1>1, <2>1 DEF QueuesFit
  <1>7. ASSUME NEW d \in Clients
        PROVE  Pending(p, d) = IF t.client = d THEN Pending(q, d) \cup {t} ELSE Pending(q, d)
    <2>1. ASSUME NEW u \in Pending(q, d) PROVE u \in Pending(p, d)
      <3>1. PICK z \in Strands : \E i \in 1..Len(q[z]) : q[z][i] = u
        BY DEF Pending
      <3>2. PICK i \in 1..Len(q[z]) : q[z][i] = u
        BY <3>1
      <3>3. i \in 1..Len(p[z]) /\ p[z][i] = u
        BY <1>4, <3>2
      <3> QED
        BY <3>3 DEF Pending
    <2>2. ASSUME NEW u \in Pending(p, d), u # t PROVE u \in Pending(q, d)
      <3>1. PICK z \in Strands : \E i \in 1..Len(p[z]) : p[z][i] = u
        BY DEF Pending
      <3>2. PICK i \in 1..Len(p[z]) : p[z][i] = u
        BY <3>1
      <3>3. i \in 1..Len(q[z]) /\ q[z][i] = u
        BY <1>1, <1>3, <2>2, <3>2
      <3> QED
        BY <3>3 DEF Pending
    <2>3. t \in Pending(p, d) <=> t.client = d
      BY <1>1, <1>2, <1>5 DEF Pending
    <2>4. t \in Pending(q, d) => t.client = d
      BY DEF Pending
    <2> QED
      BY <2>1, <2>2, <2>3, <2>4
  <1>8. ASSUME NEW d \in Clients, Once(q, d), t.client = d => t \notin Pending(q, d)
        PROVE  Once(p, d)
    <2>1. ASSUME NEW z \in Strands, NEW i \in 1..Len(q[z]) PROVE t.client = d => q[z][i] # t
      BY <1>2, <1>8, <2>1 DEF Pending
    <2> SUFFICES ASSUME NEW x \in Strands, NEW z \in Strands,
                        NEW i \in 1..Len(p[x]), NEW j \in 1..Len(p[z]),
                        p[x][i].client = d, p[x][i] = p[z][j]
                 PROVE  x = z /\ i = j
      BY DEF Once
    <2>2. CASE ~(x = s /\ i = last) /\ ~(z = s /\ j = last)
      <3>1. i \in 1..Len(q[x]) /\ p[x][i] = q[x][i] /\ j \in 1..Len(q[z]) /\ p[z][j] = q[z][j]
        BY <1>3, <2>2
      <3>2. q[x][i].client = d /\ q[x][i] = q[z][j]
        BY <3>1
      <3> QED
        BY <3>1, <3>2, <1>8 DEF Once
    <2>3. CASE x = s /\ i = last /\ ~(z = s /\ j = last)
      <3>1. j \in 1..Len(q[z]) /\ p[z][j] = q[z][j] /\ p[x][i] = t
        BY <1>1, <1>3, <2>3
      <3> QED
        BY <3>1, <2>1
    <2>4. CASE z = s /\ j = last /\ ~(x = s /\ i = last)
      <3>1. i \in 1..Len(q[x]) /\ p[x][i] = q[x][i] /\ p[z][j] = t
        BY <1>1, <1>3, <2>4
      <3> QED
        BY <3>1, <2>1
    <2> QED
      BY <2>2, <2>3, <2>4
  <1> QED
    BY <1>6, <1>7, <1>8

LEMMA PoppedQueue ==
    ASSUME QueuesFit(tasks), NEW s \in Strands, tasks[s] # << >>, NEW p, p = Popped(s)
    PROVE  /\ p \in [Strands -> Seq(Tasks)]
           /\ \A z \in Strands \ {s} : p[z] = tasks[z]
           /\ Len(tasks[s]) \in Nat /\ Len(tasks[s]) > 0
           /\ Len(p[s]) = Len(tasks[s]) - 1
           /\ \A i \in 1..(Len(tasks[s]) - 1) : p[s][i] = tasks[s][i + 1]
           /\ Head(tasks[s]) = tasks[s][1]
           /\ Fits(s, Head(tasks[s]))
  <1>1. tasks[s] \in Seq(Tasks)
    BY DEF QueuesFit
  <1>2. /\ Tail(tasks[s]) \in Seq(Tasks) /\ Len(Tail(tasks[s])) = Len(tasks[s]) - 1
        /\ \A i \in 1..Len(Tail(tasks[s])) : Tail(tasks[s])[i] = tasks[s][i + 1]
    BY <1>1, HeadTailProperties
  <1>3. Len(tasks[s]) \in Nat /\ Len(tasks[s]) > 0
    BY <1>1, EmptySeq, LenProperties
  <1>4. p[s] = Tail(tasks[s]) /\ p \in [Strands -> Seq(Tasks)]
        /\ \A z \in Strands \ {s} : p[z] = tasks[z]
    BY <1>2 DEF Popped, QueuesFit
  <1>5. Head(tasks[s]) = tasks[s][1]
    BY <1>1
  <1>6. 1 \in 1..Len(tasks[s])
    BY <1>3
  <1>7. Fits(s, Head(tasks[s]))
    BY <1>5, <1>6 DEF QueuesFit
  <1> QED
    BY <1>2, <1>3, <1>4, <1>5, <1>7

LEMMA Popping ==
    ASSUME QueuesFit(tasks), NEW s \in Strands, tasks[s] # << >>,
           NEW p, p = Popped(s), NEW t, t = Head(tasks[s])
    PROVE  /\ QueuesFit(p)
           /\ Fits(s, t) /\ t \in Tasks /\ t \in Pending(tasks, t.client)
           /\ \A d \in Clients : Once(tasks, d) =>
                Once(p, d) /\ Pending(p, d) = Pending(tasks, d) \ {t}
  <1> DEFINE Old(z, i) == IF z = s THEN i + 1 ELSE i
  <1>0. /\ p \in [Strands -> Seq(Tasks)]
        /\ \A z \in Strands \ {s} : p[z] = tasks[z]
        /\ Len(tasks[s]) \in Nat /\ Len(tasks[s]) > 0
        /\ Len(p[s]) = Len(tasks[s]) - 1
        /\ \A i \in 1..(Len(tasks[s]) - 1) : p[s][i] = tasks[s][i + 1]
        /\ t = tasks[s][1]
        /\ Fits(s, t)
    BY PoppedQueue
  <1>1. ASSUME NEW z \in Strands, NEW i \in 1..Len(p[z])
        PROVE  /\ Old(z, i) \in 1..Len(tasks[z])
               /\ p[z][i] = tasks[z][Old(z, i)]
               /\ ~(z = s /\ Old(z, i) = 1)
    BY <1>0
  <1>2. ASSUME NEW z, NEW i, NEW j, Old(z, i) = Old(z, j), i \in Nat, j \in Nat
        PROVE  i = j
    BY <1>2
  <1> HIDE DEF Old
  <1>3. QueuesFit(p)
    <2>1. ASSUME NEW z \in Strands, NEW i \in 1..Len(p[z]) PROVE Fits(z, p[z][i])
      <3>1. PICK k \in 1..Len(tasks[z]) : p[z][i] = tasks[z][k]
        BY <1>1
      <3> QED
        BY <3>1 DEF QueuesFit
    <2> QED
      BY <1>0, <2>1 DEF QueuesFit
  <1>4. 1 \in 1..Len(tasks[s]) /\ t \in Tasks
    BY <1>0, FitsIsTyped
  <1>5. t \in Pending(tasks, t.client)
    BY <1>0, <1>4 DEF Pending
  <1>6. ASSUME NEW d \in Clients, Once(tasks, d) PROVE Once(p, d)
    <2> SUFFICES ASSUME NEW x \in Strands, NEW z \in Strands,
                        NEW i \in 1..Len(p[x]), NEW j \in 1..Len(p[z]),
                        p[x][i].client = d, p[x][i] = p[z][j]
                 PROVE  x = z /\ i = j
      BY DEF Once
    <2>1. PICK k \in 1..Len(tasks[x]) : k = Old(x, i) /\ p[x][i] = tasks[x][k]
      BY <1>1
    <2>2. PICK l \in 1..Len(tasks[z]) : l = Old(z, j) /\ p[z][j] = tasks[z][l]
      BY <1>1
    <2>3. tasks[x][k].client = d /\ tasks[x][k] = tasks[z][l]
      BY <2>1, <2>2
    <2>4. x = z /\ k = l
      BY <1>6, <2>3 DEF Once
    <2>5. i \in Nat /\ j \in Nat
      BY <1>0, LenProperties
    <2> QED
      BY <2>1, <2>2, <2>4, <2>5, <1>2
  <1>7. ASSUME NEW d \in Clients, Once(tasks, d) PROVE Pending(p, d) = Pending(tasks, d) \ {t}
    <2>1. ASSUME NEW u \in Pending(p, d) PROVE u \in Pending(tasks, d) /\ u # t
      <3>1. PICK z \in Strands : \E i \in 1..Len(p[z]) : p[z][i] = u
        BY DEF Pending
      <3>2. PICK i \in 1..Len(p[z]) : p[z][i] = u
        BY <3>1
      <3>3. PICK k \in 1..Len(tasks[z]) : k = Old(z, i) /\ tasks[z][k] = u
        BY <1>1, <3>2
      <3>4. ~(z = s /\ k = 1)
        BY <1>1, <3>3
      <3>5. u.client = d /\ u \in Tasks
        BY DEF Pending
      <3>6. u # t
        BY <1>0, <1>4, <1>7, <3>3, <3>4, <3>5 DEF Once
      <3> QED
        BY <3>3, <3>5, <3>6 DEF Pending
    <2>2. ASSUME NEW u \in Pending(tasks, d), u # t PROVE u \in Pending(p, d)
      <3>1. PICK z \in Strands : \E i \in 1..Len(tasks[z]) : tasks[z][i] = u
        BY DEF Pending
      <3>2. PICK i \in 1..Len(tasks[z]) : tasks[z][i] = u
        BY <3>1
      <3>3. u.client = d /\ u \in Tasks
        BY DEF Pending
      <3>4. CASE z # s
        BY <3>2, <3>3, <3>4, <1>0 DEF Pending
      <3>5. CASE z = s
        <4>1. i # 1 /\ i - 1 \in 1..(Len(tasks[s]) - 1)
          BY <2>2, <3>2, <3>5, <1>0
        <4>2. i - 1 \in 1..Len(p[s]) /\ p[s][i - 1] = u
          BY <3>2, <3>5, <4>1, <1>0
        <4> QED
          BY <3>3, <4>2 DEF Pending
      <3> QED
        BY <3>4, <3>5
    <2> QED
      BY <2>1, <2>2
  <1> QED
    BY <1>0, <1>3, <1>4, <1>5, <1>6, <1>7

LEMMA BusyIsPending ==
    ASSUME QueuesFit(tasks), NEW c \in Clients
    PROVE  Busy(c) <=> Pending(tasks, c) # {}
  <1>1. ASSUME NEW s \in Strands, NEW i \in 1..Len(tasks[s]) PROVE tasks[s][i] \in Tasks
    BY FitsIsTyped DEF QueuesFit
  <1> QED
    BY <1>1 DEF Busy, Pending

(* The removals from the viewers that wait are counted as they are added   *)
(* and taken.                                                              *)
LEMMA UnviewsAreCounted ==
    ASSUME NEW q, QueuesFit(q), NEW c
    PROVE  IsFiniteSet(UnviewPlaces(q, c)) /\ Unviews(q, c) \in Nat
  <1>1. Len(q[VmList]) \in Nat
    BY StrandsDiffer, LenProperties DEF QueuesFit
  <1>2. IsFiniteSet(1..Len(q[VmList]))
    BY <1>1, FS_Interval
  <1>3. UnviewPlaces(q, c) \in SUBSET (1..Len(q[VmList]))
    BY DEF UnviewPlaces
  <1>4. IsFiniteSet(UnviewPlaces(q, c))
    BY <1>2, <1>3, FS_Subset
  <1> QED
    BY <1>4, FS_CardinalityType DEF Unviews

LEMMA PushedUnviews ==
    ASSUME NEW q, QueuesFit(q), NEW s, NEW t, Fits(s, t), NEW p, p = Push(q, s, t), NEW c
    PROVE  Unviews(p, c) = Unviews(q, c) + (IF s = VmList /\ t = Unview(c) THEN 1 ELSE 0)
  <1>1. /\ \A z \in Strands \ {s} : p[z] = q[z]
        /\ Len(q[s]) \in Nat
        /\ Len(p[s]) = Len(q[s]) + 1
        /\ \A i \in 1..Len(q[s]) : p[s][i] = q[s][i]
        /\ p[s][Len(q[s]) + 1] = t
    BY PushedQueue
  <1>2. IsFiniteSet(UnviewPlaces(q, c)) /\ Unviews(q, c) \in Nat
    BY UnviewsAreCounted
  <1>3. CASE s # VmList
    <2>1. p[VmList] = q[VmList]
      BY <1>1, <1>3, StrandsDiffer
    <2>2. Unviews(p, c) = Unviews(q, c)
      BY <2>1 DEF Unviews, UnviewPlaces
    <2> QED
      BY <1>2, <1>3, <2>2
  <1>4. CASE s = VmList /\ t # Unview(c)
    <2>1. UnviewPlaces(p, c) = UnviewPlaces(q, c)
      BY <1>1, <1>4 DEF UnviewPlaces
    <2> QED
      BY <1>2, <1>4, <2>1 DEF Unviews
  <1>5. CASE s = VmList /\ t = Unview(c)
    <2>1. UnviewPlaces(p, c) = UnviewPlaces(q, c) \cup {Len(q[VmList]) + 1}
      BY <1>1, <1>5 DEF UnviewPlaces
    <2>2. Len(q[VmList]) + 1 \notin UnviewPlaces(q, c)
      BY <1>1, <1>5 DEF UnviewPlaces
    <2>3. Cardinality(UnviewPlaces(p, c)) = Cardinality(UnviewPlaces(q, c)) + 1
      BY <1>2, <2>1, <2>2, FS_AddElement
    <2> QED
      BY <1>5, <2>3 DEF Unviews
  <1> QED
    BY <1>3, <1>4, <1>5

LEMMA PoppedUnviews ==
    ASSUME QueuesFit(tasks), NEW s \in Strands, tasks[s] # << >>, NEW p, p = Popped(s), NEW c
    PROVE  Unviews(p, c) =
             Unviews(tasks, c) - (IF s = VmList /\ Head(tasks[s]) = Unview(c) THEN 1 ELSE 0)
  <1>1. /\ \A z \in Strands \ {s} : p[z] = tasks[z]
        /\ Len(tasks[s]) \in Nat /\ Len(tasks[s]) > 0
        /\ Len(p[s]) = Len(tasks[s]) - 1
        /\ \A i \in 1..(Len(tasks[s]) - 1) : p[s][i] = tasks[s][i + 1]
        /\ Head(tasks[s]) = tasks[s][1]
    BY PoppedQueue
  <1>2. IsFiniteSet(UnviewPlaces(tasks, c)) /\ Unviews(tasks, c) \in Nat
    BY UnviewsAreCounted
  <1>3. CASE s # VmList
    <2>1. p[VmList] = tasks[VmList]
      BY <1>1, <1>3, StrandsDiffer
    <2>2. Unviews(p, c) = Unviews(tasks, c)
      BY <2>1 DEF Unviews, UnviewPlaces
    <2> QED
      BY <1>2, <1>3, <2>2
  <1>4. CASE s = VmList
    <2> DEFINE A == UnviewPlaces(p, c)
               B == UnviewPlaces(tasks, c) \ {1}
               f == [i \in A |-> i + 1]
    <2>1. QueuesFit(p)
      BY Popping
    <2>2. IsFiniteSet(A)
      BY <2>1, UnviewsAreCounted
    <2>3. f \in [A -> B]
      BY <1>1, <1>4 DEF UnviewPlaces
    <2>4. \A i, j \in A : f[i] = f[j] => i = j
      BY <1>1, <1>4 DEF UnviewPlaces
    <2>5. ASSUME NEW k \in B PROVE \E i \in A : f[i] = k
      <3>1. k - 1 \in A
        BY <1>1, <1>4 DEF UnviewPlaces
      <3>2. f[k - 1] = k
        BY <3>1, <1>1, <1>4 DEF UnviewPlaces
      <3> QED
        BY <3>1, <3>2
    <2>6. f \in Bijection(A, B)
      BY <2>3, <2>4, <2>5 DEF Bijection, Injection, Surjection, IsInjective
    <2>7. ExistsBijection(A, B)
      BY <2>6 DEF ExistsBijection
    <2>8. Cardinality(B) = Cardinality(A)
      BY <2>2, <2>7, FS_Bijection
    <2>9. Cardinality(B) = IF 1 \in UnviewPlaces(tasks, c) THEN Unviews(tasks, c) - 1
                           ELSE Unviews(tasks, c)
      BY <1>2, FS_RemoveElement DEF Unviews
    <2>10. 1 \in UnviewPlaces(tasks, c) <=> Head(tasks[s]) = Unview(c)
      BY <1>1, <1>4 DEF UnviewPlaces
    <2> QED
      BY <1>2, <1>4, <2>8, <2>9, <2>10 DEF Unviews
  <1> QED
    BY <1>3, <1>4
-----------------------------------------------------------------------------
(* What a step of client c does to the queues: tasks gone are taken and    *)
(* tasks new are added, k more of them being removals from the viewers.    *)
Rest(q, c, gone) == Pending(q, c) \ gone

Moved(q, p, c, gone, new, k) ==
    /\ QueuesFit(p)
    /\ \A d \in Clients \ {c} : Once(q, d) => Once(p, d) /\ Pending(p, d) = Pending(q, d)
    /\ Once(q, c) /\ new \cap Rest(q, c, gone) = {} =>
           Once(p, c) /\ Pending(p, c) = Rest(q, c, gone) \cup new
    /\ \A d \in Clients \ {c} : Unviews(p, d) = Unviews(q, d)
    /\ Unviews(p, c) = Unviews(q, c) + k

LEMMA NothingMoved ==
    ASSUME NEW q, QueuesFit(q), NEW c \in Clients
    PROVE  Moved(q, q, c, {}, {}, 0)
  <1>1. Unviews(q, c) \in Nat
    BY UnviewsAreCounted
  <1> QED
    BY <1>1 DEF Moved, Rest

LEMMA MovedByPop ==
    ASSUME QueuesFit(tasks), NEW s \in Strands, tasks[s] # << >>, NEW c \in Clients,
           Head(tasks[s]).client = c,
           NEW k, k = IF s = VmList /\ Head(tasks[s]) = Unview(c) THEN -1 ELSE 0
    PROVE  Moved(tasks, Popped(s), c, {Head(tasks[s])}, {}, k)
  <1> DEFINE t == Head(tasks[s])
             p == Popped(s)
  <1>1. /\ QueuesFit(p)
        /\ \A d \in Clients : Once(tasks, d) =>
                Once(p, d) /\ Pending(p, d) = Pending(tasks, d) \ {t}
    BY Popping
  <1>2. ASSUME NEW d \in Clients \ {c} PROVE t \notin Pending(tasks, d)
    BY DEF Pending
  <1>3. ASSUME NEW d \in Clients \ {c} PROVE t # Unview(d)
    BY DEF Unview
  <1>4. ASSUME NEW d \in Clients
        PROVE  Unviews(p, d) = Unviews(tasks, d) - (IF s = VmList /\ t = Unview(d) THEN 1 ELSE 0)
    BY PoppedUnviews
  <1>5. ASSUME NEW d \in Clients PROVE Unviews(tasks, d) \in Nat
    BY UnviewsAreCounted
  <1>6. ASSUME NEW d \in Clients \ {c} PROVE Unviews(p, d) = Unviews(tasks, d)
    BY <1>3, <1>4, <1>5
  <1>7. Unviews(p, c) = Unviews(tasks, c) + k
    BY <1>4, <1>5
  <1>8. ASSUME NEW d \in Clients \ {c}, Once(tasks, d)
        PROVE  Once(p, d) /\ Pending(p, d) = Pending(tasks, d)
    <2>1. Pending(tasks, d) \ {t} = Pending(tasks, d)
      BY <1>2
    <2> QED
      BY <1>1, <1>8, <2>1
  <1>9. Once(tasks, c) => Once(p, c) /\ Pending(p, c) = Rest(tasks, c, {t}) \cup {}
    <2>1. Rest(tasks, c, {t}) \cup {} = Pending(tasks, c) \ {t}
      BY DEF Rest
    <2> QED
      BY <1>1, <2>1
  <1> QED
    BY <1>1, <1>6, <1>7, <1>8, <1>9 DEF Moved

LEMMA MovedByPush ==
    ASSUME NEW q, QueuesFit(q), NEW p, NEW c \in Clients, NEW gone, NEW new, NEW k \in Int,
           Moved(q, p, c, gone, new, k),
           NEW s, NEW t, Fits(s, t), t.client = c, t \notin new,
           NEW m, m = k + (IF s = VmList /\ t = Unview(c) THEN 1 ELSE 0)
    PROVE  Moved(q, Push(p, s, t), c, gone, new \cup {t}, m)
  <1> DEFINE r == Push(p, s, t)
  <1>0. QueuesFit(p)
    BY DEF Moved
  <1>1. /\ QueuesFit(r)
        /\ \A d \in Clients :
             /\ Pending(r, d) = IF t.client = d THEN Pending(p, d) \cup {t} ELSE Pending(p, d)
             /\ Once(p, d) /\ (t.client = d => t \notin Pending(p, d)) => Once(r, d)
    BY <1>0, Pushing
  <1>2. ASSUME NEW d \in Clients \ {c}, Once(q, d)
        PROVE  Once(r, d) /\ Pending(r, d) = Pending(q, d)
    BY <1>1, <1>2 DEF Moved
  <1>3. ASSUME Once(q, c), (new \cup {t}) \cap Rest(q, c, gone) = {}
        PROVE  Once(r, c) /\ Pending(r, c) = Rest(q, c, gone) \cup (new \cup {t})
    <2>1. new \cap Rest(q, c, gone) = {} /\ t \notin Rest(q, c, gone)
      BY <1>3
    <2>2. Once(p, c) /\ Pending(p, c) = Rest(q, c, gone) \cup new
      BY <1>3, <2>1 DEF Moved
    <2> QED
      BY <1>1, <2>1, <2>2
  <1>4. ASSUME NEW d \in Clients \ {c} PROVE t # Unview(d)
    BY DEF Unview
  <1>5. ASSUME NEW d \in Clients
        PROVE  Unviews(r, d) = Unviews(p, d) + (IF s = VmList /\ t = Unview(d) THEN 1 ELSE 0)
    BY <1>0, PushedUnviews
  <1>6. ASSUME NEW d \in Clients PROVE Unviews(q, d) \in Nat /\ Unviews(p, d) \in Nat
    BY <1>0, UnviewsAreCounted
  <1>7. ASSUME NEW d \in Clients \ {c} PROVE Unviews(r, d) = Unviews(q, d)
    BY <1>4, <1>5, <1>6 DEF Moved
  <1>8. Unviews(r, c) = Unviews(q, c) + m
    <2>1. Unviews(p, c) = Unviews(q, c) + k
      BY DEF Moved
    <2> QED
      BY <1>5, <1>6, <2>1
  <1> QED
    BY <1>1, <1>2, <1>3, <1>7, <1>8 DEF Moved

LEMMA MovedByOther ==
    ASSUME NEW q, QueuesFit(q), NEW p, NEW c \in Clients, NEW gone, NEW new, NEW k \in Int,
           Moved(q, p, c, gone, new, k),
           NEW s, NEW t, Fits(s, t), t.client = c, t.do # "unview", t \notin new
    PROVE  Moved(q, Push(p, s, t), c, gone, new \cup {t}, k)
  <1>1. t # Unview(c)
    BY DEF Unview
  <1>2. k = k + (IF s = VmList /\ t = Unview(c) THEN 1 ELSE 0)
    BY <1>1
  <1> QED
    BY <1>2, MovedByPush

(* The same if the task is added under a condition. *)
LEMMA MovedByPushIf ==
    ASSUME NEW q, QueuesFit(q), NEW p, NEW c \in Clients, NEW gone, NEW new, NEW k \in Int,
           Moved(q, p, c, gone, new, k),
           NEW cond \in BOOLEAN,
           NEW s, NEW t, cond => Fits(s, t), t.client = c, t \notin new,
           NEW m, m = k + (IF cond /\ s = VmList /\ t = Unview(c) THEN 1 ELSE 0),
           NEW all, all = IF cond THEN new \cup {t} ELSE new
    PROVE  Moved(q, PushIf(cond, p, s, t), c, gone, all, m)
  <1>1. CASE cond
    <2>1. Moved(q, Push(p, s, t), c, gone, new \cup {t}, m)
      BY <1>1, MovedByPush
    <2> QED
      BY <1>1, <2>1 DEF PushIf
  <1>2. CASE ~cond
    BY <1>2 DEF PushIf
  <1> QED
    BY <1>1, <1>2
-----------------------------------------------------------------------------
(* A step of client c, put together from what it does to the queues and to *)
(* the client itself.                                                      *)
Viewing(b) == IF b THEN 1 ELSE 0

SameClient(d) ==
    /\ careless'[d] = careless[d]
    /\ open'[d] = open[d]
    /\ username_'[d] = username_[d]
    /\ is_logged_in_'[d] = is_logged_in_[d]
    /\ connected_vm_id_'[d] = connected_vm_id_[d]
    /\ is_in_global_chat_'[d] = is_in_global_chat_[d]
    /\ is_viewing_vm_list_'[d] = is_viewing_vm_list_[d]
    /\ vm_list_viewers_'[d] = vm_list_viewers_[d]
    /\ raced'[d] = raced[d]
    /\ \A ch \in Channels : users_'[ch][d] = users_[ch][d]

CarefulNext(c, gone, new) ==
    LET rest == Rest(tasks, c, gone) IN
    /\ new \cap rest = {}
    /\ Sound(rest \cup new, open'[c], username_'[c], connected_vm_id_'[c],
             is_in_global_chat_'[c], Shown(c)')

GuestsNext(c, P) ==
    \A n \in Names :
        /\ guests_'[n] = c <=> Holds(P, username_'[c], n)
        /\ \A d \in Clients \ {c} : guests_'[n] = d <=> guests_[n] = d

(* The viewers after a step of c that adds k removals to the queue. *)
ViewsNext(c, k) ==
    LET believed == Viewing(is_viewing_vm_list_'[c]) + Unviews(tasks, c) + k IN
    /\ vm_list_viewers_'[c] <= believed
    /\ ~raced'[c] => vm_list_viewers_'[c] = believed

LEMMA ViewsBefore ==
    ASSUME ClientsInv, NEW c \in Clients
    PROVE  /\ Unviews(tasks, c) \in Nat /\ vm_list_viewers_[c] \in Nat
           /\ Viewing(is_viewing_vm_list_[c]) \in Nat
           /\ vm_list_viewers_[c] <= Viewing(is_viewing_vm_list_[c]) + Unviews(tasks, c)
           /\ ~raced[c] =>
                vm_list_viewers_[c] = Viewing(is_viewing_vm_list_[c]) + Unviews(tasks, c)
  <1>1. Unviews(tasks, c) \in Nat
    BY UnviewsAreCounted DEF ClientsInv
  <1>2. vm_list_viewers_[c] \in Nat /\ Viewing(is_viewing_vm_list_[c]) \in Nat
    BY DEF ClientsInv, PlainTypes, Viewing
  <1>3. BelievedViews(c) = Viewing(is_viewing_vm_list_[c]) + Unviews(tasks, c)
    BY DEF BelievedViews, Unviews, UnviewPlaces, Unview, Viewing
  <1> QED
    BY <1>1, <1>2, <1>3 DEF ClientsInv, ViewersAreCounted

LEMMA SameViews ==
    ASSUME ClientsInv, NEW c \in Clients,
           UNCHANGED <<is_viewing_vm_list_, vm_list_viewers_, raced>>
    PROVE  ViewsNext(c, 0)
  BY ViewsBefore DEF ViewsNext

LEMMA ClientsStep ==
    ASSUME ClientsInv, NEW c \in Clients, NEW gone, NEW new, NEW k \in Int,
           Moved(tasks, tasks', c, gone, new, k),
           PlainTypes',
           \A d \in Clients \ {c} : SameClient(d),
           careless[c] => careless'[c],
           is_logged_in_[c] => is_logged_in_'[c],
           ~careless[c] /\ ~careless'[c] => CarefulNext(c, gone, new),
           ViewsNext(c, k),
           OnlyCarefulGuests /\ ~careless'[c] /\ ~is_logged_in_'[c] =>
               GuestsNext(c, Rest(tasks, c, gone) \cup new)
    PROVE  ClientsInv'
  <1>1. QueuesFit(tasks')
    BY DEF Moved
  <1>2. ASSUME NEW d \in Clients, ~careless'[d] PROVE CarefulSound(d)'
    <2>1. CASE d = c
      <3>1. ~careless[c] /\ Once(tasks, c)
        BY <1>2, <2>1 DEF ClientsInv, CarefulSound
      <3>2. CarefulNext(c, gone, new)
        BY <1>2, <2>1, <3>1
      <3>3. Once(tasks', c) /\ Pending(tasks', c) = Rest(tasks, c, gone) \cup new
        BY <3>1, <3>2 DEF Moved, CarefulNext
      <3> QED
        BY <2>1, <3>2, <3>3 DEF CarefulSound, CarefulNext
    <2>2. CASE d # c
      <3>1. SameClient(d)
        BY <2>2
      <3>2. CarefulSound(d)
        BY <1>2, <3>1 DEF SameClient, ClientsInv
      <3>3. Once(tasks', d) /\ Pending(tasks', d) = Pending(tasks, d)
        BY <2>2, <3>2 DEF Moved, CarefulSound
      <3>4. Shown(d)' = Shown(d)
        BY <3>1 DEF Shown, SameClient
      <3> QED
        BY <3>1, <3>2, <3>3, <3>4 DEF CarefulSound, SameClient
    <2> QED
      BY <2>1, <2>2
  <1>3. NamesHeld'
    <2> SUFFICES ASSUME OnlyCarefulGuests', NEW d \in Clients, NEW n \in Names
                 PROVE  guests_'[n] = d <=> Holds(Pending(tasks', d), username_'[d], n)
      BY DEF NamesHeld
    <2>1. ~careless'[c] /\ ~is_logged_in_'[c]
      BY DEF OnlyCarefulGuests
    <2>2. OnlyCarefulGuests
      BY <2>1 DEF OnlyCarefulGuests, SameClient
    <2>3. GuestsNext(c, Rest(tasks, c, gone) \cup new)
      BY <2>1, <2>2
    <2>4. \A e \in Clients : Once(tasks, e)
      BY <2>2 DEF ClientsInv, CarefulSound, OnlyCarefulGuests
    <2>5. CASE d = c
      <3>1. CarefulNext(c, gone, new)
        BY <2>1, <2>2 DEF OnlyCarefulGuests
      <3>2. Pending(tasks', c) = Rest(tasks, c, gone) \cup new
        BY <3>1, <2>4 DEF Moved, CarefulNext
      <3> QED
        BY <2>3, <2>5, <3>2 DEF GuestsNext
    <2>6. CASE d # c
      <3>1. Pending(tasks', d) = Pending(tasks, d) /\ username_'[d] = username_[d]
        BY <2>4, <2>6 DEF Moved, SameClient
      <3>2. guests_'[n] = d <=> guests_[n] = d
        BY <2>3, <2>6 DEF GuestsNext
      <3>3. guests_[n] = d <=> Holds(Pending(tasks, d), username_[d], n)
        BY <2>2 DEF ClientsInv, NamesHeld
      <3> QED
        BY <3>1, <3>2, <3>3
    <2> QED
      BY <2>5, <2>6
  <1>4. ViewersAreCounted'
    <2>1. ASSUME NEW d \in Clients
          PROVE  LET believed == Viewing(is_viewing_vm_list_'[d]) + Unviews(tasks', d) IN
                 /\ vm_list_viewers_'[d] <= believed
                 /\ ~raced'[d] => vm_list_viewers_'[d] = believed
      <3>1. Unviews(tasks, d) \in Nat
        BY ViewsBefore
      <3>2. CASE d = c
        <4>1. Unviews(tasks', c) = Unviews(tasks, c) + k
          BY DEF Moved
        <4>2. Viewing(is_viewing_vm_list_'[c]) \in Nat
          BY DEF Viewing
        <4> QED
          BY <3>1, <3>2, <4>1, <4>2 DEF ViewsNext
      <3>3. CASE d # c
        <4>1. Unviews(tasks', d) = Unviews(tasks, d)
          BY <3>3 DEF Moved
        <4> QED
          BY <3>3, <4>1, ViewsBefore DEF SameClient
      <3> QED
        BY <3>2, <3>3
    <2>2. ASSUME NEW d \in Clients
          PROVE  BelievedViews(d)' = Viewing(is_viewing_vm_list_'[d]) + Unviews(tasks', d)
      BY DEF BelievedViews, Unviews, UnviewPlaces, Unview, Viewing
    <2> QED
      BY <2>1, <2>2 DEF ViewersAreCounted
  <1> QED
    BY <1>1, <1>2, <1>3, <1>4 DEF ClientsInv
-----------------------------------------------------------------------------
(* What is known of the client of a step and of the task it runs. *)
LEMMA ActingClient ==
    ASSUME ClientsInv, NEW c \in Clients
    PROVE  /\ QueuesFit(tasks) /\ PlainTypes
           /\ open[c] \in BOOLEAN /\ is_in_global_chat_[c] \in BOOLEAN
           /\ is_viewing_vm_list_[c] \in BOOLEAN
           /\ connected_vm_id_[c] \in Channels
           /\ username_[c] \in Names \cup {NoName}
           /\ Shown(c) \in [Channels -> Names \cup {NoName}]
           /\ Pending(tasks, c) \in SUBSET Tasks
           /\ ~careless[c] => Once(tasks, c)
           /\ ~careless[c] => Sound(Pending(tasks, c), open[c], username_[c],
                                    connected_vm_id_[c], is_in_global_chat_[c], Shown(c))
           /\ vm_list_viewers_[c] \in Nat
           /\ OnlyCarefulGuests =>
                ~careless[c] /\ \A n \in Names :
                  guests_[n] = c <=> Holds(Pending(tasks, c), username_[c], n)
  <1>1. QueuesFit(tasks) /\ PlainTypes
    BY DEF ClientsInv
  <1>2. /\ open[c] \in BOOLEAN /\ is_in_global_chat_[c] \in BOOLEAN
        /\ is_viewing_vm_list_[c] \in BOOLEAN
        /\ connected_vm_id_[c] \in Channels
        /\ username_[c] \in Names \cup {NoName}
        /\ vm_list_viewers_[c] \in Nat
        /\ Shown(c) \in [Channels -> Names \cup {NoName}]
    BY <1>1 DEF PlainTypes, Shown
  <1>3. Pending(tasks, c) \in SUBSET Tasks
    BY DEF Pending
  <1>4. ~careless[c] => /\ Once(tasks, c)
                        /\ Sound(Pending(tasks, c), open[c], username_[c],
                                 connected_vm_id_[c], is_in_global_chat_[c], Shown(c))
    BY DEF ClientsInv, CarefulSound
  <1>5. OnlyCarefulGuests =>
            ~careless[c] /\ \A n \in Names :
              guests_[n] = c <=> Holds(Pending(tasks, c), username_[c], n)
    BY DEF ClientsInv, NamesHeld, OnlyCarefulGuests
  <1> QED
    BY <1>1, <1>2, <1>3, <1>4, <1>5

LEMMA NextTask ==
    ASSUME QueuesFit(tasks), NEW s \in Strands, NEW do, NEW c \in Clients, IsNext(s, do, c),
           NEW t, t = Head(tasks[s])
    PROVE  /\ t \in Pending(tasks, c) /\ t \in Tasks /\ Fits(s, t)
           /\ t.do = do /\ t.client = c
           /\ do # "unview" => Moved(tasks, Popped(s), c, {t}, {}, 0)
           /\ s = VmList /\ t = Unview(c) => Moved(tasks, Popped(s), c, {t}, {}, -1)
  <1>1. tasks[s] # << >> /\ t.do = do /\ t.client = c
    BY DEF IsNext
  <1>2. t \in Pending(tasks, c) /\ t \in Tasks /\ Fits(s, t)
    BY <1>1, Popping
  <1>3. t = Unview(c) => do = "unview"
    BY <1>1 DEF Unview
  <1>4. do # "unview" => Moved(tasks, Popped(s), c, {t}, {}, 0)
    BY <1>1, <1>3, MovedByPop
  <1>5. s = VmList /\ t = Unview(c) => Moved(tasks, Popped(s), c, {t}, {}, -1)
    BY <1>1, MovedByPop
  <1> QED
    BY <1>1, <1>2, <1>4, <1>5

LEMMA FitsByStrand ==
    ASSUME NEW t
    PROVE  /\ Fits(Guests, t) <=> t \in GuestTasks
           /\ Fits(VmList, t) <=> t \in ChannelTasks(Vms) \cup ViewTasks
           /\ Fits(Sessions, t) <=> t \in LoginTasks
           /\ \A c \in Clients : Fits(Username(c), t) <=> t \in UsernameTasks
           /\ \A ch \in Channels : Fits(Channel(ch), t) <=> t \in ChannelTasks({ch})
  BY StrandsDiffer DEF Fits

(* A task that says nothing of an old name is not the second half of a     *)
(* rename.                                                                 *)
LEMMA NoGuestRename ==
    ASSUME NEW t, t.do # "rename"
    PROVE  t \notin GuestRenames
  BY DEF GuestRenames

LEMMA MessageStep ==
    ASSUME ClientsInv, NEW c \in Clients, NEW s, NEW t, NEW b \in BOOLEAN,
           Message(c, s, t, b), Fits(s, t), t.client = c,
           t.do \in {"connect", "rename", "login", "view"}, t \notin GuestRenames,
           t.do = "connect" /\ t.channel # Global /\ t.channel = connected_vm_id_[c] => b
    PROVE  ClientsInv'
  <1>0. QueuesFit(tasks)
    BY ActingClient
  <1>1. Moved(tasks, tasks, c, {}, {}, 0)
    BY <1>0, NothingMoved
  <1>2. t \notin {} /\ 0 \in Int
    OBVIOUS
  <1>3. Moved(tasks, Push(tasks, s, t), c, {}, {} \cup {t}, 0)
    BY <1>0, <1>1, <1>2, MovedByOther
  <1>4. Moved(tasks, tasks', c, {}, {t}, 0)
    <2>1. {} \cup {t} = {t} /\ tasks' = Push(tasks, s, t)
      BY DEF Message
    <2> QED
      BY <1>3, <2>1
  <1>5. PlainTypes'
    <2>1. careless' \in [Clients -> BOOLEAN]
      BY Zenon DEF ClientsInv, PlainTypes, Message, Busy
    <2>2. sent' \in 0..MaxMessages
      <3>1. sent' = sent + 1 /\ sent < MaxMessages
        BY Zenon DEF Message
      <3>2. sent \in 0..MaxMessages
        BY DEF ClientsInv, PlainTypes
      <3>3. MaxMessages \in Nat
        BY SessionConstants
      <3> QED
        BY <3>1, <3>2, <3>3
    <2> QED
      BY <2>1, <2>2 DEF ClientsInv, PlainTypes, Message
  <1>6. \A d \in Clients \ {c} : SameClient(d)
    BY DEF SameClient, Message, ClientsInv, PlainTypes
  <1>7. careless'[c] = (careless[c] \/ Busy(c) \/ b)
    BY DEF Message, ClientsInv, PlainTypes
  <1>8. ASSUME ~careless[c], ~careless'[c]
        PROVE  Pending(tasks, c) = {} /\ ~b
    BY <1>0, <1>7, <1>8, BusyIsPending
  <1>9. ASSUME ~careless[c], ~careless'[c]
        PROVE  CarefulNext(c, {}, {t})
    <2>1. Sound({}, open[c], username_[c], connected_vm_id_[c], is_in_global_chat_[c], Shown(c))
      BY <1>8, <1>9, ActingClient
    <2>2. open[c] /\ (t.do = "connect" /\ t.channel # Global => t.channel # connected_vm_id_[c])
      BY <1>8, <1>9 DEF Message
    <2>6. open[c] \in BOOLEAN /\ is_in_global_chat_[c] \in BOOLEAN
      BY ActingClient
    <2>3. Sound({t}, open[c], username_[c], connected_vm_id_[c], is_in_global_chat_[c], Shown(c))
      BY <2>1, <2>2, <2>6, RequestSound
    <2>4. Rest(tasks, c, {}) = {} /\ Rest(tasks, c, {}) \cup {t} = {t}
      BY <1>8, <1>9 DEF Rest
    <2>5. Shown(c)' = Shown(c)
      BY DEF Shown, Message
    <2> QED
      BY <2>3, <2>4, <2>5 DEF CarefulNext, Message
  <1>10. ASSUME OnlyCarefulGuests, ~careless'[c]
         PROVE  GuestsNext(c, Rest(tasks, c, {}) \cup {t})
    <2>1. Pending(tasks, c) = {} /\ Rest(tasks, c, {}) \cup {t} = {t}
      BY <1>8, <1>10, ActingClient DEF Rest
    <2>2. ASSUME NEW n \in Names PROVE guests_[n] = c <=> username_[c] = n
      BY <1>10, <2>1, ActingClient DEF Holds
    <2> QED
      BY <2>1, <2>2 DEF GuestsNext, Holds, Message
  <1>11. ViewsNext(c, 0)
    BY SameViews DEF Message
  <1>12. is_logged_in_[c] => is_logged_in_'[c]
    BY DEF Message
  <1>13. careless[c] => careless'[c]
    BY <1>7
  <1>14. ~careless[c] /\ ~careless'[c] => CarefulNext(c, {}, {t})
    BY <1>9
  <1>15. OnlyCarefulGuests /\ ~careless'[c] /\ ~is_logged_in_'[c] =>
             GuestsNext(c, Rest(tasks, c, {}) \cup {t})
    BY <1>10
  <1> QED
    BY <1>2, <1>4, <1>5, <1>6, <1>11, <1>12, <1>13, <1>14, <1>15, ClientsStep

(* One task is taken and another one added. *)
LEMMA MovedOn ==
    ASSUME QueuesFit(tasks), NEW s \in Strands, NEW do, NEW c \in Clients, IsNext(s, do, c),
           do # "unview",
           NEW z, NEW u, Fits(z, u), u.client = c, u.do # "unview"
    PROVE  Moved(tasks, Push(Popped(s), z, u), c, {Head(tasks[s])}, {u}, 0)
  <1>1. PICK t : t = Head(tasks[s])
    OBVIOUS
  <1>2. Moved(tasks, Popped(s), c, {t}, {}, 0)
    BY <1>1, NextTask
  <1>3. u \notin {} /\ 0 \in Int
    OBVIOUS
  <1>4. Moved(tasks, Push(Popped(s), z, u), c, {t}, {} \cup {u}, 0)
    BY <1>2, <1>3, MovedByOther
  <1>5. {} \cup {u} = {u}
    OBVIOUS
  <1> QED
    BY <1>1, <1>4, <1>5

(* The names a client holds change only with tasks that set or erase one. *)
LEMMA HoldsRest ==
    ASSUME NEW P, NEW t \in P, NEW new, NEW name, NEW n,
           t.do \notin {"set", "erase"},
           \A u \in new : u.do \notin {"set", "erase"}
    PROVE  Holds((P \ {t}) \cup new, name, n) <=> Holds(P, name, n)
  <1> DEFINE Q == (P \ {t}) \cup new
  <1>1. (\E u \in Q : u.do \in {"set", "erase"} /\ u.name = n)
            <=> (\E u \in P : u.do \in {"set", "erase"} /\ u.name = n)
    OBVIOUS
  <1>2. (\A u \in Q : u.do # "set") <=> (\A u \in P : u.do # "set")
    OBVIOUS
  <1> HIDE DEF Q
  <1>3. Holds(Q, name, n) <=> Holds(P, name, n)
    BY <1>1, <1>2 DEF Holds
  <1> QED
    BY <1>3 DEF Q

(* A task that concerns neither the name of the client nor guests_. *)
LEMMA TaskStep ==
    ASSUME ClientsInv, NEW c \in Clients, NEW t \in Pending(tasks, c), NEW new, NEW k \in Int,
           t.do \notin {"set", "erase"},
           \A u \in new : u.do \notin {"set", "erase"},
           Moved(tasks, tasks', c, {t}, new, k),
           UNCHANGED <<username_, is_logged_in_, guests_, careless>>,
           PlainTypes',
           \A d \in Clients \ {c} : SameClient(d),
           ~careless[c] => CarefulNext(c, {t}, new),
           ViewsNext(c, k)
    PROVE  ClientsInv'
  <1>1. careless[c] => careless'[c]
    OBVIOUS
  <1>2. is_logged_in_[c] => is_logged_in_'[c]
    OBVIOUS
  <1>3. ~careless[c] /\ ~careless'[c] => CarefulNext(c, {t}, new)
    OBVIOUS
  <1>4. ASSUME OnlyCarefulGuests PROVE GuestsNext(c, Rest(tasks, c, {t}) \cup new)
    <2>1. ASSUME NEW n \in Names
          PROVE  guests_[n] = c <=> Holds((Pending(tasks, c) \ {t}) \cup new, username_[c], n)
      <3>1. guests_[n] = c <=> Holds(Pending(tasks, c), username_[c], n)
        BY <1>4, ActingClient
      <3> QED
        BY <3>1, HoldsRest
    <2> QED
      BY <2>1 DEF GuestsNext, Rest
  <1>5. OnlyCarefulGuests /\ ~careless'[c] /\ ~is_logged_in_'[c] =>
            GuestsNext(c, Rest(tasks, c, {t}) \cup new)
    BY <1>4
  <1> QED
    BY <1>1, <1>2, <1>3, <1>5, ClientsStep

(* ... and that leaves no trace but in the queues. *)
LEMMA QuietStep ==
    ASSUME ClientsInv, NEW c \in Clients, NEW t \in Pending(tasks, c), NEW new,
           t.do \notin {"set", "erase"},
           \A u \in new : u.do \notin {"set", "erase"},
           Moved(tasks, tasks', c, {t}, new, 0),
           UNCHANGED <<open, sent, username_, is_logged_in_, connected_vm_id_,
                       is_in_global_chat_, is_viewing_vm_list_, guests_, users_,
                       vm_list_viewers_, tested, careless, raced>>,
           ~careless[c] =>
               /\ new \cap (Pending(tasks, c) \ {t}) = {}
               /\ Sound((Pending(tasks, c) \ {t}) \cup new, open[c], username_[c],
                        connected_vm_id_[c], is_in_global_chat_[c], Shown(c))
    PROVE  ClientsInv'
  <1>1. PlainTypes'
    BY DEF ClientsInv, PlainTypes
  <1>2. \A d \in Clients \ {c} : SameClient(d)
    BY DEF SameClient
  <1>3. ~careless[c] => CarefulNext(c, {t}, new)
    BY DEF CarefulNext, Rest, Shown
  <1>4. ViewsNext(c, 0)
    BY SameViews
  <1>5. 0 \in Int
    OBVIOUS
  <1> QED
    BY <1>1, <1>2, <1>3, <1>4, <1>5, TaskStep
LEMMA EndStep ==
    ASSUME ClientsInv, NEW c \in Clients, NEW t \in Pending(tasks, c),
           t.do \notin {"set", "erase"},
           Moved(tasks, tasks', c, {t}, {}, 0),
           UNCHANGED <<open, sent, username_, is_logged_in_, connected_vm_id_,
                       is_in_global_chat_, is_viewing_vm_list_, guests_, users_,
                       vm_list_viewers_, tested, careless, raced>>,
           ~careless[c] => Sound(Pending(tasks, c) \ {t}, open[c], username_[c],
                                 connected_vm_id_[c], is_in_global_chat_[c], Shown(c))
    PROVE  ClientsInv'
  <1>1. PICK new : new = {}
    OBVIOUS
  <1>2. \A u \in new : u.do \notin {"set", "erase"}
    BY <1>1
  <1>3. (Pending(tasks, c) \ {t}) \cup new = Pending(tasks, c) \ {t}
    BY <1>1
  <1>4. Moved(tasks, tasks', c, {t}, new, 0)
    BY <1>1
  <1>5. ~careless[c] =>
            /\ new \cap (Pending(tasks, c) \ {t}) = {}
            /\ Sound((Pending(tasks, c) \ {t}) \cup new, open[c], username_[c],
                     connected_vm_id_[c], is_in_global_chat_[c], Shown(c))
    BY <1>1, <1>3
  <1> QED
    BY <1>2, <1>4, <1>5, QuietStep
-----------------------------------------------------------------------------
(* The steps, one by one. *)
LEMMA RenameTaskStep ==
    ASSUME ClientsInv, NEW c \in Clients, RenameTask(c)
    PROVE  ClientsInv'
  <1>1. PICK t : t = Head(tasks[Username(c)])
    OBVIOUS
  <1>2. IsNext(Username(c), "rename", c) /\ QueuesFit(tasks) /\ Username(c) \in Strands
    BY ActingClient, StrandsDiffer DEF RenameTask
  <1>3. /\ t \in Pending(tasks, c) /\ t \in Tasks
        /\ t.do = "rename" /\ t.client = c
        /\ Moved(tasks, Popped(Username(c)), c, {t}, {}, 0)
    BY <1>1, <1>2, NextTask
  <1>4. CASE username_[c] # t.name
    <2>1. PICK u : u = [do |-> "rename", client |-> c, name |-> t.name, old |-> username_[c]]
      OBVIOUS
    <2>2. t.name \in Names /\ username_[c] \in Names \cup {NoName}
      BY <1>3, TaskFields, ActingClient
    <2>3. u.do = "rename" /\ u.client = c /\ u.old = username_[c] /\ Fits(Guests, u)
      BY <2>1, <2>2, FitsByStrand DEF GuestTasks
    <2>4. Moved(tasks, Push(Popped(Username(c)), Guests, u), c, {t}, {u}, 0)
      BY <1>1, <1>2, <2>3, MovedOn
    <2>5. Moved(tasks, tasks', c, {t}, {u}, 0)
      <3>1. tasks' = Push(Popped(Username(c)), Guests, u)
        BY <1>1, <1>4, <2>1 DEF RenameTask, PushIf
      <3> QED
        BY <2>4, <3>1
    <2>6. ASSUME ~careless[c]
          PROVE  /\ {u} \cap (Pending(tasks, c) \ {t}) = {}
                 /\ Sound((Pending(tasks, c) \ {t}) \cup {u}, open[c], username_[c],
                          connected_vm_id_[c], is_in_global_chat_[c], Shown(c))
      <3>1. Sound(Pending(tasks, c), open[c], username_[c],
                  connected_vm_id_[c], is_in_global_chat_[c], Shown(c))
        BY <2>6, ActingClient
      <3>2. Pending(tasks, c) = {t}
        BY <1>3, <3>1, LoneTask DEF Sound
      <3>3. (Pending(tasks, c) \ {t}) \cup {u} = {u}
        BY <3>2
      <3>4. open[c] \in BOOLEAN /\ is_in_global_chat_[c] \in BOOLEAN
        BY ActingClient
      <3>5. Sound({u}, open[c], username_[c], connected_vm_id_[c], is_in_global_chat_[c], Shown(c))
        BY <1>3, <2>3, <3>1, <3>4, FollowSound
      <3> QED
        BY <3>2, <3>3, <3>5
    <2>7. UNCHANGED <<open, sent, username_, is_logged_in_, connected_vm_id_,
                      is_in_global_chat_, is_viewing_vm_list_, guests_, users_,
                      vm_list_viewers_, tested, careless, raced>>
      BY DEF RenameTask
    <2>8. t.do \notin {"set", "erase"} /\ \A x \in {u} : x.do \notin {"set", "erase"}
      BY <1>3, <2>3
    <2>9. ~careless[c] =>
            /\ {u} \cap (Pending(tasks, c) \ {t}) = {}
            /\ Sound((Pending(tasks, c) \ {t}) \cup {u}, open[c], username_[c],
                     connected_vm_id_[c], is_in_global_chat_[c], Shown(c))
      BY <2>6
    <2>10. t \in Pending(tasks, c)
      BY <1>3
    <2> QED
      BY <2>5, <2>7, <2>8, <2>9, <2>10, QuietStep
  <1>5. CASE username_[c] = t.name
    <2>1. tasks' = Popped(Username(c))
      BY <1>1, <1>5 DEF RenameTask, PushIf
    <2>2. Moved(tasks, tasks', c, {t}, {}, 0)
      BY <1>3, <2>1
    <2>3. ASSUME ~careless[c]
          PROVE  Sound(Pending(tasks, c) \ {t}, open[c], username_[c],
                       connected_vm_id_[c], is_in_global_chat_[c], Shown(c))
      <3>1. Sound(Pending(tasks, c), open[c], username_[c],
                  connected_vm_id_[c], is_in_global_chat_[c], Shown(c))
        BY <2>3, ActingClient
      <3>2. open[c] \in BOOLEAN /\ is_in_global_chat_[c] \in BOOLEAN
        BY ActingClient
      <3> QED
        BY <1>3, <3>1, <3>2, DropSound
    <2>4. UNCHANGED <<open, sent, username_, is_logged_in_, connected_vm_id_,
                      is_in_global_chat_, is_viewing_vm_list_, guests_, users_,
                      vm_list_viewers_, tested, careless, raced>>
      BY DEF RenameTask
    <2>5. t.do \notin {"set", "erase"}
      BY <1>3
    <2> QED
      BY <1>3, <2>2, <2>3, <2>4, <2>5, EndStep
  <1> QED
    BY <1>4, <1>5

LEMMA GetAdminVirtualMachineStep ==
    ASSUME ClientsInv, NEW c \in Clients, GetAdminVirtualMachine(c)
    PROVE  ClientsInv'
  <1>1. PICK t : t = Head(tasks[VmList])
    OBVIOUS
  <1>2. PICK kind : kind \in {"join", "leave", "update"} /\ IsNext(VmList, kind, c)
    BY DEF GetAdminVirtualMachine
  <1>3. QueuesFit(tasks) /\ VmList \in Strands
    BY ActingClient, StrandsDiffer
  <1>4. t \in Pending(tasks, c) /\ t \in Tasks /\ t.do = kind /\ t.client = c /\ Fits(VmList, t)
    <2>1. tasks[VmList] # << >> /\ t.do = kind /\ t.client = c
      BY <1>1, <1>2 DEF IsNext
    <2>2. Fits(VmList, t) /\ t \in Tasks /\ t \in Pending(tasks, t.client)
      BY <1>1, <1>3, <2>1, Popping
    <2> QED
      BY <2>1, <2>2
  <1>5. t \in ChannelTasks(Vms)
    BY <1>2, <1>4, FitsByStrand DEF ViewTasks
  <1>6. t.channel \in Channels /\ t \in ChannelTasks({t.channel})
    BY <1>5 DEF ChannelTasks, Channels
  <1>7. Fits(Channel(t.channel), t) /\ t.do # "unview" /\ kind # "unview"
    BY <1>2, <1>4, <1>6, FitsByStrand
  <1>8. Moved(tasks, Push(Popped(VmList), Channel(t.channel), t), c, {t}, {t}, 0)
    BY <1>1, <1>2, <1>3, <1>4, <1>7, MovedOn
  <1>9. Moved(tasks, tasks', c, {t}, {t}, 0)
    <2>1. tasks' = Push(Popped(VmList), Channel(t.channel), t)
      BY <1>1 DEF GetAdminVirtualMachine
    <2> QED
      BY <1>8, <2>1
  <1>10. ASSUME ~careless[c]
         PROVE  /\ {t} \cap (Pending(tasks, c) \ {t}) = {}
                /\ Sound((Pending(tasks, c) \ {t}) \cup {t}, open[c], username_[c],
                         connected_vm_id_[c], is_in_global_chat_[c], Shown(c))
    <2>1. (Pending(tasks, c) \ {t}) \cup {t} = Pending(tasks, c)
      BY <1>4
    <2> QED
      BY <1>10, <2>1, ActingClient
  <1>11. UNCHANGED <<open, sent, username_, is_logged_in_, connected_vm_id_,
                     is_in_global_chat_, is_viewing_vm_list_, guests_, users_,
                     vm_list_viewers_, tested, careless, raced>>
    BY DEF GetAdminVirtualMachine
  <1>12. t.do \notin {"set", "erase"} /\ \A x \in {t} : x.do \notin {"set", "erase"}
    BY <1>2, <1>4
  <1> QED
    BY <1>4, <1>9, <1>10, <1>11, <1>12, QuietStep

LEMMA ConnectTaskStep ==
    ASSUME ClientsInv, NEW c \in Clients, ConnectTask(c)
    PROVE  ClientsInv'
  <1>1. PICK t : t = Head(tasks[Username(c)])
    OBVIOUS
  <1>2. IsNext(Username(c), "connect", c) /\ QueuesFit(tasks) /\ Username(c) \in Strands
    BY ActingClient, StrandsDiffer DEF ConnectTask
  <1>3. /\ t \in Pending(tasks, c) /\ t \in Tasks
        /\ t.do = "connect" /\ t.client = c
        /\ Moved(tasks, Popped(Username(c)), c, {t}, {}, 0)
    BY <1>1, <1>2, NextTask
  <1>4. PICK ch \in Channels : ch = t.channel
    BY <1>3, TaskFields
  <1>5. /\ open[c] \in BOOLEAN /\ is_in_global_chat_[c] \in BOOLEAN
        /\ username_[c] \in Names \cup {NoName}
        /\ ~careless[c] => Sound(Pending(tasks, c), open[c], username_[c],
                                 connected_vm_id_[c], is_in_global_chat_[c], Shown(c))
    BY ActingClient
  <1>6. ~careless[c] => Pending(tasks, c) = {t}
    BY <1>3, <1>5, LoneTask DEF Sound
  <1>7. ASSUME NEW u PROVE ~careless[c] => (Pending(tasks, c) \ {t}) \cup {u} = {u}
    BY <1>6
  <1>8. UNCHANGED <<open, sent, username_, is_logged_in_, connected_vm_id_,
                    is_viewing_vm_list_, guests_, users_, vm_list_viewers_, tested, careless,
                    raced>>
    BY DEF ConnectTask
  <1>9. CASE username_[c] = NoName
    <2>1. PICK u : u = [do |-> "generate", client |-> c, channel |-> ch]
      OBVIOUS
    <2>2. u.do = "generate" /\ u.client = c /\ u.channel = ch /\ Fits(Guests, u)
      BY <2>1, FitsByStrand DEF GuestTasks
    <2>3. Moved(tasks, Push(Popped(Username(c)), Guests, u), c, {t}, {u}, 0)
      BY <1>1, <1>2, <2>2, MovedOn
    <2>4. tasks' = Push(Popped(Username(c)), Guests, u) /\ UNCHANGED is_in_global_chat_
      BY <1>1, <1>4, <1>9, <2>1 DEF ConnectTask
    <2>5. Moved(tasks, tasks', c, {t}, {u}, 0)
      BY <2>3, <2>4
    <2>6. u \notin GuestRenames
      BY <2>2, NoGuestRename
    <2>7. ASSUME ~careless[c]
          PROVE  Sound({u}, open[c], username_[c],
                       connected_vm_id_[c], is_in_global_chat_[c], Shown(c))
      BY <1>3, <1>4, <1>5, <1>9, <2>2, <2>6, <2>7, FollowSound
    <2>8. ~careless[c] =>
              /\ {u} \cap (Pending(tasks, c) \ {t}) = {}
              /\ Sound((Pending(tasks, c) \ {t}) \cup {u}, open[c], username_[c],
                       connected_vm_id_[c], is_in_global_chat_[c], Shown(c))
      BY <1>6, <1>7, <2>7
    <2>9. t.do \notin {"set", "erase"} /\ \A x \in {u} : x.do \notin {"set", "erase"}
      BY <1>3, <2>2
    <2>10. UNCHANGED <<open, sent, username_, is_logged_in_, connected_vm_id_,
                       is_in_global_chat_, is_viewing_vm_list_, guests_, users_,
                       vm_list_viewers_, tested, careless, raced>>
      BY <1>8, <2>4
    <2>11. t \in Pending(tasks, c)
      BY <1>3
    <2> QED
      BY <2>5, <2>8, <2>9, <2>10, <2>11, QuietStep
  <1>10. CASE username_[c] # NoName /\ ch = Global /\ is_in_global_chat_[c]
    <2>1. tasks' = Popped(Username(c)) /\ UNCHANGED is_in_global_chat_
      <3>1. /\ tasks' = Popped(Username(c))
            /\ is_in_global_chat_' = [is_in_global_chat_ EXCEPT ![c] = TRUE]
        BY <1>1, <1>4, <1>10 DEF ConnectTask, ConnectNamed, PushIf
      <3> QED
        BY <1>10, <3>1 DEF ClientsInv, PlainTypes
    <2>2. Moved(tasks, tasks', c, {t}, {}, 0)
      BY <1>3, <2>1
    <2>3. ~careless[c] => Sound(Pending(tasks, c) \ {t}, open[c], username_[c],
                                connected_vm_id_[c], is_in_global_chat_[c], Shown(c))
      BY <1>3, <1>5, DropSound
    <2>4. t.do \notin {"set", "erase"}
      BY <1>3
    <2> QED
      BY <1>3, <1>8, <2>1, <2>2, <2>3, <2>4, EndStep
  <1>11. CASE username_[c] # NoName /\ ~(ch = Global /\ is_in_global_chat_[c])
    <2>1. PICK u : u = [do |-> "join", client |-> c, channel |-> ch, name |-> username_[c]]
      OBVIOUS
    <2>2. PICK z : z = IF ch = Global THEN Channel(Global) ELSE VmList
      OBVIOUS
    <2>3. /\ u.do = "join" /\ u.client = c /\ u.channel = ch /\ u.name = username_[c]
          /\ u \in ChannelTasks({ch}) /\ (ch # Global => u \in ChannelTasks(Vms))
      BY <1>5, <1>11, <2>1 DEF ChannelTasks, Channels
    <2>4. Fits(z, u)
      BY <2>2, <2>3, FitsByStrand
    <2>5. Moved(tasks, Push(Popped(Username(c)), z, u), c, {t}, {u}, 0)
      BY <1>1, <1>2, <2>3, <2>4, MovedOn
    <2>6. /\ tasks' = Push(Popped(Username(c)), z, u)
          /\ is_in_global_chat_' = [is_in_global_chat_ EXCEPT ![c] = @ \/ ch = Global]
      <3>1. CASE ch = Global
        BY <1>1, <1>4, <1>11, <2>1, <2>2, <3>1 DEF ConnectTask, ConnectNamed, PushIf
      <3>2. CASE ch # Global
        <4>1. tasks' = Push(Popped(Username(c)), z, u) /\ UNCHANGED is_in_global_chat_
          BY <1>1, <1>4, <1>11, <2>1, <2>2, <3>2 DEF ConnectTask, ConnectNamed
        <4> QED
          BY <3>2, <4>1 DEF ClientsInv, PlainTypes
      <3> QED
        BY <3>1, <3>2
    <2>7. Moved(tasks, tasks', c, {t}, {u}, 0)
      BY <2>5, <2>6
    <2>8. /\ is_in_global_chat_'[c] <=> is_in_global_chat_[c] \/ ch = Global
          /\ is_in_global_chat_'[c] \in BOOLEAN
          /\ is_in_global_chat_' \in [Clients -> BOOLEAN]
          /\ \A d \in Clients \ {c} : is_in_global_chat_'[d] = is_in_global_chat_[d]
      BY <2>6 DEF ClientsInv, PlainTypes
    <2>9. PlainTypes'
      BY <1>8, <2>8 DEF ClientsInv, PlainTypes
    <2>10. \A d \in Clients \ {c} : SameClient(d)
      BY <1>8, <2>8 DEF SameClient
    <2>11. u \notin GuestRenames
      BY <2>3, NoGuestRename
    <2>12. ASSUME ~careless[c]
           PROVE  Sound({u}, open[c], username_[c],
                        connected_vm_id_[c], is_in_global_chat_'[c], Shown(c))
      <3>1. ch = Global => ~is_in_global_chat_[c]
        BY <1>11
      <3> QED
        BY <1>3, <1>4, <1>5, <2>3, <2>8, <2>11, <2>12, <3>1, EnterSound
    <2>13. ~careless[c] => CarefulNext(c, {t}, {u})
      BY <1>6, <1>7, <1>8, <2>12 DEF CarefulNext, Rest, Shown
    <2>14. t.do \notin {"set", "erase"} /\ \A x \in {u} : x.do \notin {"set", "erase"}
      BY <1>3, <2>3
    <2>15. ViewsNext(c, 0)
      BY <1>8, SameViews
    <2>16. 0 \in Int /\ UNCHANGED <<username_, is_logged_in_, guests_, careless>>
      BY <1>8
    <2> QED
      BY <1>3, <2>7, <2>9, <2>10, <2>13, <2>14, <2>15, <2>16, TaskStep
  <1> QED
    BY <1>9, <1>10, <1>11

LEMMA AddVmListViewerStep ==
    ASSUME ClientsInv, NEW c \in Clients, AddVmListViewer(c)
    PROVE  ClientsInv'
  <1>1. PICK t : t = Head(tasks[VmList])
    OBVIOUS
  <1>2. IsNext(VmList, "view", c) /\ QueuesFit(tasks) /\ VmList \in Strands
    BY ActingClient, StrandsDiffer DEF AddVmListViewer
  <1>3. /\ t \in Pending(tasks, c) /\ t.do = "view"
        /\ Moved(tasks, Popped(VmList), c, {t}, {}, 0)
    BY <1>1, <1>2, NextTask
  <1>4. Moved(tasks, tasks', c, {t}, {}, 0)
    BY <1>3 DEF AddVmListViewer
  <1>5. PICK new : new = {}
    OBVIOUS
  <1>6. PlainTypes' /\ \A d \in Clients \ {c} : SameClient(d)
    BY DEF AddVmListViewer, ClientsInv, PlainTypes, SameClient
  <1>7. ASSUME ~careless[c] PROVE CarefulNext(c, {t}, new)
    <2>1. open[c] \in BOOLEAN /\ is_in_global_chat_[c] \in BOOLEAN
      BY ActingClient
    <2>2. Sound(Pending(tasks, c) \ {t}, open[c], username_[c],
                connected_vm_id_[c], is_in_global_chat_[c], Shown(c))
      BY <1>3, <1>7, <2>1, DropSound, ActingClient
    <2>3. (Pending(tasks, c) \ {t}) \cup new = Pending(tasks, c) \ {t}
      BY <1>5
    <2> QED
      BY <1>5, <2>2, <2>3 DEF CarefulNext, Rest, AddVmListViewer, Shown
  <1>8. ViewsNext(c, 0)
    <2>1. /\ is_viewing_vm_list_'[c] /\ raced'[c] = raced[c]
          /\ vm_list_viewers_'[c] =
               IF is_viewing_vm_list_[c] THEN vm_list_viewers_[c] ELSE vm_list_viewers_[c] + 1
      BY DEF AddVmListViewer, ClientsInv, PlainTypes
    <2> QED
      BY <2>1, ViewsBefore DEF ViewsNext, Viewing
  <1>9. t.do \notin {"set", "erase"} /\ \A x \in new : x.do \notin {"set", "erase"}
    BY <1>3, <1>5
  <1>10. 0 \in Int /\ UNCHANGED <<username_, is_logged_in_, guests_, careless>>
    BY DEF AddVmListViewer
  <1>11. Moved(tasks, tasks', c, {t}, new, 0)
    BY <1>4, <1>5
  <1> QED
    BY <1>3, <1>6, <1>7, <1>8, <1>9, <1>10, <1>11, TaskStep

LEMMA RemoveVmListViewerStep ==
    ASSUME ClientsInv, NEW c \in Clients, RemoveVmListViewer(c)
    PROVE  ClientsInv'
  <1>1. PICK t : t = Head(tasks[VmList])
    OBVIOUS
  <1>2. IsNext(VmList, "unview", c) /\ QueuesFit(tasks) /\ VmList \in Strands
    BY ActingClient, StrandsDiffer DEF RemoveVmListViewer
  <1>3. t \in Pending(tasks, c) /\ t.do = "unview" /\ t.client = c /\ Fits(VmList, t)
    <2>1. tasks[VmList] # << >> /\ t.do = "unview" /\ t.client = c
      BY <1>1, <1>2 DEF IsNext
    <2>2. Fits(VmList, t) /\ t \in Pending(tasks, t.client)
      BY <1>1, <1>2, <2>1, Popping
    <2> QED
      BY <2>1, <2>2
  <1>4. t = Unview(c)
    <2>1. t \in ViewTasks
      BY <1>3, FitsByStrand DEF ChannelTasks
    <2> QED
      BY <1>3, <2>1 DEF ViewTasks, Unview
  <1>5. Moved(tasks, Popped(VmList), c, {t}, {}, -1)
    BY <1>1, <1>2, <1>4, NextTask
  <1>6. PICK new : new = {}
    OBVIOUS
  <1>7. Moved(tasks, tasks', c, {t}, new, -1)
    BY <1>5, <1>6 DEF RemoveVmListViewer
  <1>8. PlainTypes' /\ \A d \in Clients \ {c} : SameClient(d)
    BY DEF RemoveVmListViewer, ClientsInv, PlainTypes, SameClient
  <1>9. ASSUME ~careless[c] PROVE CarefulNext(c, {t}, new)
    <2>1. open[c] \in BOOLEAN /\ is_in_global_chat_[c] \in BOOLEAN
      BY ActingClient
    <2>2. Sound(Pending(tasks, c) \ {t}, open[c], username_[c],
                connected_vm_id_[c], is_in_global_chat_[c], Shown(c))
      BY <1>3, <1>9, <2>1, DropSound, ActingClient
    <2>3. (Pending(tasks, c) \ {t}) \cup new = Pending(tasks, c) \ {t}
      BY <1>6
    <2> QED
      BY <1>6, <2>2, <2>3 DEF CarefulNext, Rest, RemoveVmListViewer, Shown
  <1>10. Unviews(tasks, c) > 0
    <2>1. QueuesFit(tasks') /\ Unviews(tasks', c) = Unviews(tasks, c) - 1
      BY <1>7, <1>2, UnviewsAreCounted DEF Moved
    <2>2. Unviews(tasks', c) \in Nat /\ Unviews(tasks, c) \in Nat
      BY <1>2, <2>1, UnviewsAreCounted
    <2> QED
      BY <2>1, <2>2
  <1>11. ViewsNext(c, -1)
    <2>1. /\ is_viewing_vm_list_'[c] = is_viewing_vm_list_[c] /\ raced'[c] = raced[c]
          /\ vm_list_viewers_'[c] =
               IF vm_list_viewers_[c] > 0 THEN vm_list_viewers_[c] - 1 ELSE vm_list_viewers_[c]
      BY DEF RemoveVmListViewer, ClientsInv, PlainTypes
    <2> QED
      BY <1>10, <2>1, ViewsBefore DEF ViewsNext
  <1>12. t.do \notin {"set", "erase"} /\ \A x \in new : x.do \notin {"set", "erase"}
    BY <1>3, <1>6
  <1>13. -1 \in Int /\ UNCHANGED <<username_, is_logged_in_, guests_, careless>>
    BY DEF RemoveVmListViewer
  <1> QED
    BY <1>3, <1>7, <1>8, <1>9, <1>11, <1>12, <1>13, TaskStep

LEMMA LeaveStep ==
    ASSUME ClientsInv, NEW c \in Clients, NEW ch \in Channels, Leave(c, ch)
    PROVE  ClientsInv'
  <1>1. PICK t : t = Head(tasks[Channel(ch)])
    OBVIOUS
  <1>2. IsNext(Channel(ch), "leave", c) /\ QueuesFit(tasks) /\ Channel(ch) \in Strands
    BY ActingClient, StrandsDiffer DEF Leave
  <1>3. /\ t \in Pending(tasks, c) /\ t.do = "leave" /\ Fits(Channel(ch), t)
        /\ Moved(tasks, Popped(Channel(ch)), c, {t}, {}, 0)
    BY <1>1, <1>2, NextTask
  <1>4. t.channel = ch
    BY <1>3, FitsByStrand DEF ChannelTasks
  <1>5. PICK new : new = {}
    OBVIOUS
  <1>6. Moved(tasks, tasks', c, {t}, new, 0)
    BY <1>3, <1>5 DEF Leave
  <1>7. PlainTypes' /\ \A d \in Clients \ {c} : SameClient(d)
    BY DEF Leave, ClientsInv, PlainTypes, SameClient
  <1>8. \A z \in Channels : Shown(c)'[z] = IF z = ch THEN NoName ELSE Shown(c)[z]
    BY DEF Leave, ClientsInv, PlainTypes, Shown
  <1>9. Shown(c)' \in [Channels -> Names \cup {NoName}]
    BY <1>7 DEF PlainTypes, Shown
  <1>10. ASSUME ~careless[c] PROVE CarefulNext(c, {t}, new)
    <2>1. /\ open[c] \in BOOLEAN /\ is_in_global_chat_[c] \in BOOLEAN
          /\ connected_vm_id_[c] \in Channels
          /\ Shown(c) \in [Channels -> Names \cup {NoName}]
          /\ Sound(Pending(tasks, c), open[c], username_[c],
                   connected_vm_id_[c], is_in_global_chat_[c], Shown(c))
      BY <1>10, ActingClient
    <2>2. Sound(Pending(tasks, c) \ {t}, open[c], username_[c],
                connected_vm_id_[c], is_in_global_chat_[c], Shown(c)')
      BY <1>3, <1>4, <1>8, <1>9, <2>1, LeaveSound
    <2>3. (Pending(tasks, c) \ {t}) \cup new = Pending(tasks, c) \ {t}
      BY <1>5
    <2> QED
      BY <1>5, <2>2, <2>3 DEF CarefulNext, Rest, Leave
  <1>11. ViewsNext(c, 0)
    BY SameViews DEF Leave
  <1>12. t.do \notin {"set", "erase"} /\ \A x \in new : x.do \notin {"set", "erase"}
    BY <1>3, <1>5
  <1>13. 0 \in Int /\ UNCHANGED <<username_, is_logged_in_, guests_, careless>>
    BY DEF Leave
  <1> QED
    BY <1>3, <1>6, <1>7, <1>10, <1>11, <1>12, <1>13, TaskStep

LEMMA UpdateUsernameStep ==
    ASSUME ClientsInv, NEW c \in Clients, NEW ch \in Channels, UpdateUsername(c, ch)
    PROVE  ClientsInv'
  <1>1. PICK t : t = Head(tasks[Channel(ch)])
    OBVIOUS
  <1>2. IsNext(Channel(ch), "update", c) /\ QueuesFit(tasks) /\ Channel(ch) \in Strands
    BY ActingClient, StrandsDiffer DEF UpdateUsername
  <1>3. /\ t \in Pending(tasks, c) /\ t.do = "update" /\ Fits(Channel(ch), t) /\ t \in Tasks
        /\ Moved(tasks, Popped(Channel(ch)), c, {t}, {}, 0)
    BY <1>1, <1>2, NextTask
  <1>4. t.channel = ch /\ t.name \in Names
    BY <1>3, FitsByStrand DEF ChannelTasks
  <1>5. PICK new : new = {}
    OBVIOUS
  <1>6. Moved(tasks, tasks', c, {t}, new, 0)
    BY <1>3, <1>5 DEF UpdateUsername
  <1>7. PlainTypes' /\ \A d \in Clients \ {c} : SameClient(d)
    BY <1>1, <1>4 DEF UpdateUsername, ClientsInv, PlainTypes, SameClient
  <1>8. \A z \in Channels :
            Shown(c)'[z] = IF z = ch /\ Shown(c)[z] # NoName THEN t.name ELSE Shown(c)[z]
    BY <1>1 DEF UpdateUsername, ClientsInv, PlainTypes, Shown
  <1>9. Shown(c)' \in [Channels -> Names \cup {NoName}]
    BY <1>7 DEF PlainTypes, Shown
  <1>10. ASSUME ~careless[c] PROVE CarefulNext(c, {t}, new)
    <2>1. /\ open[c] \in BOOLEAN /\ is_in_global_chat_[c] \in BOOLEAN
          /\ connected_vm_id_[c] \in Channels
          /\ Shown(c) \in [Channels -> Names \cup {NoName}]
          /\ Pending(tasks, c) \in SUBSET Tasks
          /\ Sound(Pending(tasks, c), open[c], username_[c],
                   connected_vm_id_[c], is_in_global_chat_[c], Shown(c))
      BY <1>10, ActingClient
    <2>2. Sound(Pending(tasks, c) \ {t}, open[c], username_[c],
                connected_vm_id_[c], is_in_global_chat_[c], Shown(c)')
      BY <1>3, <1>4, <1>8, <1>9, <2>1, UpdateSound
    <2>3. (Pending(tasks, c) \ {t}) \cup new = Pending(tasks, c) \ {t}
      BY <1>5
    <2> QED
      BY <1>5, <2>2, <2>3 DEF CarefulNext, Rest, UpdateUsername
  <1>11. ViewsNext(c, 0)
    BY SameViews DEF UpdateUsername
  <1>12. t.do \notin {"set", "erase"} /\ \A x \in new : x.do \notin {"set", "erase"}
    BY <1>3, <1>5
  <1>13. 0 \in Int /\ UNCHANGED <<username_, is_logged_in_, guests_, careless>>
    BY DEF UpdateUsername
  <1> QED
    BY <1>3, <1>6, <1>7, <1>10, <1>11, <1>12, <1>13, TaskStep

LEMMA UnviewFits ==
    ASSUME NEW c \in Clients
    PROVE  Fits(VmList, Unview(c)) /\ Unview(c).client = c /\ Unview(c).do = "unview"
  BY FitsByStrand DEF Unview, ViewTasks

(* What LeaveVmList does to the viewers: the removal it adds takes the     *)
(* place of the flag, unless a racing call has cleared that before.        *)
LEMMA LeftViews ==
    ASSUME ClientsInv, NEW c \in Clients, NEW by \in Callers, LeaveVmList(c, by),
           NEW viewing \in BOOLEAN, viewing <=> FindsViewing(c, by),
           UNCHANGED vm_list_viewers_
    PROVE  /\ ViewsNext(c, IF viewing THEN 1 ELSE 0)
           /\ is_viewing_vm_list_' \in [Clients -> BOOLEAN]
           /\ tested' \in [Clients -> SUBSET (Callers \X BOOLEAN)]
           /\ raced' \in [Clients -> BOOLEAN]
           /\ \A d \in Clients \ {c} : /\ is_viewing_vm_list_'[d] = is_viewing_vm_list_[d]
                                        /\ raced'[d] = raced[d]
  <1>1. /\ is_viewing_vm_list_ \in [Clients -> BOOLEAN] /\ raced \in [Clients -> BOOLEAN]
        /\ tested \in [Clients -> SUBSET (Callers \X BOOLEAN)]
    BY DEF ClientsInv, PlainTypes
  <1>2. /\ is_viewing_vm_list_' =
             [is_viewing_vm_list_ EXCEPT ![c] = is_viewing_vm_list_[c] /\ ~FindsViewing(c, by)]
        /\ raced' = [raced EXCEPT ![c] =
                       raced[c] \/ (FindsViewing(c, by) /\ ~is_viewing_vm_list_[c])]
    BY <1>1, Zenon DEF LeaveVmList
  <1>3. is_viewing_vm_list_' \in [Clients -> BOOLEAN] /\ raced' \in [Clients -> BOOLEAN]
    BY <1>1, <1>2, Zenon
  <1>4. tested' \in [Clients -> SUBSET (Callers \X BOOLEAN)]
    <2>1. tested' = [tested EXCEPT ![c] = tested[c] \ ({by} \X BOOLEAN)]
      BY DEF LeaveVmList
    <2>2. tested[c] \ ({by} \X BOOLEAN) \in SUBSET (Callers \X BOOLEAN)
      BY <1>1
    <2> QED
      BY <1>1, <2>1, <2>2, Zenon
  <1>5. /\ is_viewing_vm_list_'[c] <=> is_viewing_vm_list_[c] /\ ~viewing
        /\ raced'[c] <=> raced[c] \/ (viewing /\ ~is_viewing_vm_list_[c])
    BY <1>1, <1>2
  <1>6. ViewsNext(c, IF viewing THEN 1 ELSE 0)
    BY <1>5, ViewsBefore DEF ViewsNext, Viewing
  <1> QED
    BY <1>1, <1>2, <1>3, <1>4, <1>6

LEMMA JoinStep ==
    ASSUME ClientsInv, NEW c \in Clients, NEW ch \in Channels, Join(c, ch)
    PROVE  ClientsInv'
  <1>1. PICK t : t = Head(tasks[Channel(ch)])
    OBVIOUS
  <1>2. IsNext(Channel(ch), "join", c) /\ QueuesFit(tasks) /\ Channel(ch) \in Strands
    BY ActingClient, StrandsDiffer DEF Join
  <1>3. /\ t \in Pending(tasks, c) /\ t.do = "join" /\ Fits(Channel(ch), t) /\ t \in Tasks
        /\ Moved(tasks, Popped(Channel(ch)), c, {t}, {}, 0)
    BY <1>1, <1>2, NextTask
  <1>4. t.channel = ch /\ t.name \in Names
    BY <1>3, FitsByStrand DEF ChannelTasks
  <1>5. /\ open[c] \in BOOLEAN /\ is_in_global_chat_[c] \in BOOLEAN
        /\ is_viewing_vm_list_[c] \in BOOLEAN
        /\ connected_vm_id_[c] \in Channels
        /\ Shown(c) \in [Channels -> Names \cup {NoName}]
        /\ Pending(tasks, c) \in SUBSET Tasks
        /\ vm_list_viewers_[c] \in Nat
        /\ ~careless[c] => Sound(Pending(tasks, c), open[c], username_[c],
                                 connected_vm_id_[c], is_in_global_chat_[c], Shown(c))
    BY ActingClient
  <1>6. UNCHANGED <<open, sent, username_, is_logged_in_, is_in_global_chat_, guests_,
                    vm_list_viewers_, careless>>
    BY DEF Join
  <1>7. CASE ~MayEnter(c, ch)
    <2>1. /\ tasks' = Popped(Channel(ch))
          /\ UNCHANGED <<is_viewing_vm_list_, connected_vm_id_, users_, tested, raced>>
      BY <1>7 DEF Join
    <2>2. Moved(tasks, tasks', c, {t}, {}, 0)
      BY <1>3, <2>1
    <2>3. t.channel # Global
      BY <1>4, <1>7, SessionConstants DEF MayEnter
    <2>4. ~careless[c] => Sound(Pending(tasks, c) \ {t}, open[c], username_[c],
                                connected_vm_id_[c], is_in_global_chat_[c], Shown(c))
      BY <1>3, <1>5, <2>3, DropSound
    <2>5. UNCHANGED <<open, sent, username_, is_logged_in_, connected_vm_id_,
                      is_in_global_chat_, is_viewing_vm_list_, guests_, users_,
                      vm_list_viewers_, tested, careless, raced>>
      BY <1>6, <2>1
    <2>6. t \in Pending(tasks, c) /\ t.do \notin {"set", "erase"}
      BY <1>3
    <2> QED
      BY <2>2, <2>4, <2>5, <2>6, EndStep
  <1>8. CASE MayEnter(c, ch)
    <2> DEFINE id == connected_vm_id_[c]
    <2>0. PICK viewing \in BOOLEAN : viewing <=> FindsViewing(c, Channel(ch))
      OBVIOUS
    <2>1. PICK l : l = [do |-> "leave", client |-> c, channel |-> id]
      OBVIOUS
    <2>2. PICK b \in BOOLEAN : b <=> id # Global
      OBVIOUS
    <2>3. /\ l.do = "leave" /\ l.client = c /\ l.channel = id
          /\ b => Fits(VmList, l)
          /\ l # Unview(c)
      <3>1. l.do = "leave" /\ l.client = c /\ l.channel = id /\ l # Unview(c)
        BY <2>1 DEF Unview
      <3>2. b => l \in ChannelTasks(Vms)
        BY <1>5, <2>1, <2>2 DEF ChannelTasks, Channels
      <3> QED
        BY <3>1, <3>2, FitsByStrand
    <2>4. PICK X0 : X0 = IF viewing THEN {} \cup {Unview(c)} ELSE {}
      OBVIOUS
    <2>5. PICK X : X = IF b THEN X0 \cup {l} ELSE X0
      OBVIOUS
    <2>6. PICK k : k = 0 + (IF viewing /\ VmList = VmList /\ Unview(c) = Unview(c) THEN 1 ELSE 0)
      OBVIOUS
    <2>7. k \in Int /\ k = (IF viewing THEN 1 ELSE 0) /\ 0 \in Int /\ Unview(c) \notin {}
      BY <2>6
    <2>8. Moved(tasks, PushIf(viewing, Popped(Channel(ch)), VmList, Unview(c)), c, {t}, X0, k)
      BY <1>2, <1>3, <2>4, <2>6, <2>7, UnviewFits, MovedByPushIf
    <2>9. PICK p : p = PushIf(viewing, Popped(Channel(ch)), VmList, Unview(c))
      OBVIOUS
    <2>10. l \notin X0 /\ k = k + (IF b /\ VmList = VmList /\ l = Unview(c) THEN 1 ELSE 0)
      BY <2>3, <2>4, <2>7
    <2>11. Moved(tasks, PushIf(b, p, VmList, l), c, {t}, X, k)
      <3>1. Moved(tasks, p, c, {t}, X0, k)
        BY <2>8, <2>9
      <3> QED
        BY <1>2, <2>2, <2>3, <2>5, <2>7, <2>10, <3>1, MovedByPushIf
    <2>12. /\ tasks' = PushIf(b, p, VmList, l)
           /\ LeaveVmList(c, Channel(ch))
           /\ connected_vm_id_' = [connected_vm_id_ EXCEPT ![c] = ch]
           /\ users_' = [users_ EXCEPT ![ch][c] = IF @ = NoName THEN t.name ELSE @]
      <3>1. p = Unviewed(Popped(Channel(ch)), c, Channel(ch))
        BY <2>0, <2>9 DEF Unviewed, PushIf, Unview
      <3>2. tasks' = PushIf(id # Global, p, VmList, l)
        BY <1>8, <2>1, <3>1 DEF Join
      <3>3. PushIf(id # Global, p, VmList, l) = PushIf(b, p, VmList, l)
        BY <2>2 DEF PushIf
      <3> QED
        BY <1>1, <1>8, <3>2, <3>3 DEF Join
    <2>13. Moved(tasks, tasks', c, {t}, X, k)
      BY <2>11, <2>12
    <2>20. /\ ViewsNext(c, IF viewing THEN 1 ELSE 0)
           /\ is_viewing_vm_list_' \in [Clients -> BOOLEAN]
           /\ tested' \in [Clients -> SUBSET (Callers \X BOOLEAN)]
           /\ raced' \in [Clients -> BOOLEAN]
           /\ \A d \in Clients \ {c} : /\ is_viewing_vm_list_'[d] = is_viewing_vm_list_[d]
                                        /\ raced'[d] = raced[d]
      <3>1. Channel(ch) \in Callers
        BY DEF Callers
      <3>2. UNCHANGED vm_list_viewers_
        BY <1>6
      <3> QED
        BY <2>0, <2>12, <3>1, <3>2, LeftViews
    <2>14. PlainTypes' /\ \A d \in Clients \ {c} : SameClient(d)
      <3>1. /\ connected_vm_id_' \in [Clients -> Channels]
            /\ users_' \in [Channels -> [Clients -> Names \cup {NoName}]]
            /\ \A d \in Clients \ {c} :
                 /\ connected_vm_id_'[d] = connected_vm_id_[d]
                 /\ \A z \in Channels : users_'[z][d] = users_[z][d]
        BY <1>4, <2>12 DEF ClientsInv, PlainTypes
      <3>2. PlainTypes'
        BY <1>6, <2>20, <3>1 DEF ClientsInv, PlainTypes
      <3>3. \A d \in Clients \ {c} : SameClient(d)
        BY <1>6, <2>20, <3>1 DEF SameClient
      <3> QED
        BY <3>2, <3>3
    <2>15. /\ connected_vm_id_'[c] = ch
           /\ Shown(c)' \in [Channels -> Names \cup {NoName}]
           /\ \A z \in Channels : Shown(c)'[z] =
                IF z = ch /\ Shown(c)[ch] = NoName THEN t.name ELSE Shown(c)[z]
      BY <2>12, <2>14 DEF ClientsInv, PlainTypes, Shown
    <2>16. ASSUME ~careless[c] PROVE CarefulNext(c, {t}, X)
      <3>1. Sound(Pending(tasks, c), open[c], username_[c], id, is_in_global_chat_[c], Shown(c))
        BY <1>5, <2>16
      <3>2. Shown(c)[ch] = NoName
        BY <1>3, <1>4, <3>1 DEF Sound, TaskSound
      <3>3. \A z \in Channels : Shown(c)'[z] = IF z = ch THEN t.name ELSE Shown(c)[z]
        BY <2>15, <3>2
      <3>4. \A x \in X : \/ x.do = "unview"
                         \/ x.do = "leave" /\ x.channel = id /\ id # Global
        BY <2>2, <2>3, <2>4, <2>5, UnviewFits
      <3>5. \A x \in X : x \notin GuestRenames
        BY <3>4, NoGuestRename
      <3>6. OneRequest(X)
        BY <2>3, <2>4, <2>5, UnviewFits DEF OneRequest, MayMeet, Together
      <3>7. id # Global => IsLeaving(X, id)
        BY <2>2, <2>3, <2>5 DEF IsLeaving
      <3>8. Sound((Pending(tasks, c) \ {t}) \cup X, open[c], username_[c], ch,
                  is_in_global_chat_[c], Shown(c)')
        <4>1. /\ t \in Pending(tasks, c) /\ t.do = "join" /\ t.channel = ch
              /\ open[c] \in BOOLEAN /\ is_in_global_chat_[c] \in BOOLEAN
              /\ id \in Channels
              /\ Shown(c) \in [Channels -> Names \cup {NoName}]
              /\ Shown(c)' \in [Channels -> Names \cup {NoName}]
              /\ Pending(tasks, c) \in SUBSET Tasks
          BY <1>3, <1>4, <1>5, <2>15
        <4>2. LeavingTasks(X, id)
          BY <3>4, <3>5, <3>6, <3>7 DEF LeavingTasks
        <4>3. ShownAt(ch, t.name, Shown(c), Shown(c)')
          BY <3>3 DEF ShownAt
        <4> QED
          BY <4>1, <4>2, <4>3, <3>1, JoinSound, ZenonT(30)
      <3>9. X \cap (Pending(tasks, c) \ {t}) = {}
        BY <1>3, <3>1, <3>4 DEF Sound, OneRequest, MayMeet, Together
      <3> QED
        BY <1>6, <2>15, <3>8, <3>9 DEF CarefulNext, Rest
    <2>17. ViewsNext(c, k)
      BY <2>7, <2>20
    <2>18. t.do \notin {"set", "erase"} /\ \A x \in X : x.do \notin {"set", "erase"}
      BY <1>3, <2>3, <2>4, <2>5, UnviewFits
    <2>19. t \in Pending(tasks, c) /\ UNCHANGED <<username_, is_logged_in_, guests_, careless>>
      BY <1>3, <1>6
    <2> QED
      BY <2>7, <2>13, <2>14, <2>16, <2>17, <2>18, <2>19, TaskStep
  <1> QED
    BY <1>7, <1>8

LEMMA DisconnectStep ==
    ASSUME ClientsInv, NEW c \in Clients, Disconnect(c)
    PROVE  ClientsInv'
  <1> DEFINE id == connected_vm_id_[c]
             global == is_in_global_chat_[c]
  <1>1. /\ QueuesFit(tasks)
        /\ open[c] \in BOOLEAN /\ global \in BOOLEAN
        /\ id \in Channels
        /\ vm_list_viewers_[c] \in Nat
        /\ ~careless[c] => Sound(Pending(tasks, c), open[c], username_[c], id, global, Shown(c))
    BY ActingClient
  <1>0. PICK viewing \in BOOLEAN : viewing <=> FindsViewing(c, Socket)
    OBVIOUS
  <1>2. PICK r, l, g :
          /\ r = [do |-> "release", client |-> c]
          /\ l = [do |-> "leave", client |-> c, channel |-> id]
          /\ g = [do |-> "leave", client |-> c, channel |-> Global]
    OBVIOUS
  <1>3. PICK b \in BOOLEAN : b <=> id # Global
    OBVIOUS
  <1>4. /\ r.do = "release" /\ r.client = c
        /\ l.do = "leave" /\ l.client = c /\ l.channel = id
        /\ g.do = "leave" /\ g.client = c /\ g.channel = Global
    BY <1>2
  <1>5. l # Unview(c) /\ g # Unview(c) /\ r # Unview(c)
    BY <1>4, UnviewFits
  <1>6. /\ Fits(Username(c), r)
        /\ b => Fits(VmList, l)
        /\ Fits(Channel(Global), g)
    <2>1. r \in UsernameTasks
      BY <1>2 DEF UsernameTasks
    <2>2. b => l \in ChannelTasks(Vms)
      BY <1>1, <1>2, <1>3 DEF ChannelTasks, Channels
    <2>3. Global \in Channels /\ g \in ChannelTasks({Global})
      BY <1>2 DEF ChannelTasks, Channels
    <2> QED
      BY <2>1, <2>2, <2>3, FitsByStrand
  <1>7. PICK X0, X1, X2, X :
          /\ X0 = IF viewing THEN {} \cup {Unview(c)} ELSE {}
          /\ X1 = X0 \cup {r}
          /\ X2 = IF b THEN X1 \cup {l} ELSE X1
          /\ X = IF global THEN X2 \cup {g} ELSE X2
    OBVIOUS
  <1>8. PICK k : k = 0 + (IF viewing /\ VmList = VmList /\ Unview(c) = Unview(c) THEN 1 ELSE 0)
    OBVIOUS
  <1>9. k \in Int /\ k = (IF viewing THEN 1 ELSE 0) /\ 0 \in Int /\ Unview(c) \notin {}
    BY <1>8
  <1>10. PICK p0, p1, p2 :
           /\ p0 = PushIf(viewing, tasks, VmList, Unview(c))
           /\ p1 = Push(p0, Username(c), r)
           /\ p2 = PushIf(b, p1, VmList, l)
    OBVIOUS
  <1>11. Moved(tasks, p0, c, {}, X0, k)
    <2>1. Moved(tasks, tasks, c, {}, {}, 0)
      BY <1>1, NothingMoved
    <2>2. X0 = IF viewing THEN {} \cup {Unview(c)} ELSE {}
      BY <1>7
    <2>3. Moved(tasks, PushIf(viewing, tasks, VmList, Unview(c)), c, {}, X0, k)
      BY <1>1, <1>8, <1>9, <2>1, <2>2, UnviewFits, MovedByPushIf
    <2> QED
      BY <1>10, <2>3
  <1>12. Moved(tasks, p1, c, {}, X1, k)
    <2>1. r \notin X0 /\ r.do # "unview"
      BY <1>4, <1>5, <1>7
    <2>2. Moved(tasks, Push(p0, Username(c), r), c, {}, X0 \cup {r}, k)
      BY <1>1, <1>4, <1>6, <1>9, <1>11, <2>1, MovedByOther
    <2> QED
      BY <1>7, <1>10, <2>2
  <1>13. Moved(tasks, p2, c, {}, X2, k)
    <2>1. l \notin X1 /\ k = k + (IF b /\ VmList = VmList /\ l = Unview(c) THEN 1 ELSE 0)
      BY <1>4, <1>5, <1>7, <1>9
    <2>2. X2 = IF b THEN X1 \cup {l} ELSE X1
      BY <1>7
    <2>3. Moved(tasks, PushIf(b, p1, VmList, l), c, {}, X2, k)
      BY <1>1, <1>3, <1>4, <1>6, <1>9, <1>12, <2>1, <2>2, MovedByPushIf
    <2> QED
      BY <1>10, <2>3
  <1>14. Moved(tasks, PushIf(global, p2, Channel(Global), g), c, {}, X, k)
    <2>1. /\ g \notin X2
          /\ k = k + (IF global /\ Channel(Global) = VmList /\ g = Unview(c) THEN 1 ELSE 0)
      BY <1>3, <1>4, <1>5, <1>7, <1>9, UnviewFits
    <2>2. X = IF global THEN X2 \cup {g} ELSE X2
      BY <1>7
    <2> QED
      BY <1>1, <1>4, <1>6, <1>9, <1>13, <2>1, <2>2, MovedByPushIf
  <1>15. tasks' = PushIf(global, p2, Channel(Global), g)
    <2>1. p0 = Unviewed(tasks, c, Socket)
      BY <1>0, <1>10 DEF Unviewed, PushIf, Unview
    <2>2. p2 = PushIf(id # Global, p1, VmList, l)
      BY <1>3, <1>10 DEF PushIf
    <2> QED
      BY <1>2, <1>10, <2>1, <2>2 DEF Disconnect
  <1>16. Moved(tasks, tasks', c, {}, X, k)
    BY <1>14, <1>15
  <1>17. /\ open' = [open EXCEPT ![c] = FALSE]
         /\ LeaveVmList(c, Socket)
         /\ careless' = [careless EXCEPT ![c] = @ \/ Busy(c)]
         /\ UNCHANGED <<sent, username_, is_logged_in_, connected_vm_id_, is_in_global_chat_,
                        guests_, users_, vm_list_viewers_>>
    BY DEF Disconnect
  <1>31. /\ ViewsNext(c, IF viewing THEN 1 ELSE 0)
         /\ is_viewing_vm_list_' \in [Clients -> BOOLEAN]
         /\ tested' \in [Clients -> SUBSET (Callers \X BOOLEAN)]
         /\ raced' \in [Clients -> BOOLEAN]
         /\ \A d \in Clients \ {c} : /\ is_viewing_vm_list_'[d] = is_viewing_vm_list_[d]
                                      /\ raced'[d] = raced[d]
    <2>1. Socket \in Callers
      BY DEF Callers
    <2>2. UNCHANGED vm_list_viewers_
      BY <1>17
    <2> QED
      BY <1>0, <1>17, <2>1, <2>2, LeftViews
  <1>18. PlainTypes'
    <2>1. careless' \in [Clients -> BOOLEAN]
      BY <1>17, Zenon DEF ClientsInv, PlainTypes, Busy
    <2>2. open' \in [Clients -> BOOLEAN]
      BY <1>17 DEF ClientsInv, PlainTypes
    <2> QED
      BY <1>17, <1>31, <2>1, <2>2 DEF ClientsInv, PlainTypes
  <1>19. \A d \in Clients \ {c} : SameClient(d)
    BY <1>17, <1>31 DEF SameClient, ClientsInv, PlainTypes
  <1>20. /\ careless'[c] = (careless[c] \/ Busy(c))
         /\ open'[c] = FALSE
    BY <1>17 DEF ClientsInv, PlainTypes
  <1>21. ASSUME ~careless'[c] PROVE ~careless[c] /\ Pending(tasks, c) = {}
    BY <1>1, <1>20, <1>21, BusyIsPending
  <1>22. Shown(c)' = Shown(c)
    BY <1>17 DEF Shown
  <1>23. \A x \in X : x.do \in {"unview", "release", "leave"}
    BY <1>4, <1>7, UnviewFits
  <1>24. ASSUME ~careless[c], ~careless'[c] PROVE CarefulNext(c, {}, X)
    <2>1. Sound({}, open[c], username_[c], id, global, Shown(c))
      BY <1>1, <1>21, <1>24
    <2>2. OneRequest(X)
      BY <1>3, <1>4, <1>7, UnviewFits DEF OneRequest, MayMeet, Together
    <2>3. \A x \in X : x.do \in {"unview", "release", "leave"} /\ x \notin GuestRenames
      BY <1>23, NoGuestRename
    <2>4. /\ id # Global => IsLeaving(X, id)
          /\ global => IsLeaving(X, Global)
      BY <1>3, <1>4, <1>7 DEF IsLeaving
    <2>5. Sound(X, FALSE, username_[c], id, global, Shown(c))
      BY <1>1, <2>1, <2>2, <2>3, <2>4, DisconnectSound
    <2>6. Rest(tasks, c, {}) = {} /\ Rest(tasks, c, {}) \cup X = X /\ X \cap Rest(tasks, c, {}) = {}
      BY <1>21, <1>24 DEF Rest
    <2> QED
      BY <1>17, <1>20, <1>22, <2>5, <2>6 DEF CarefulNext
  <1>25. ASSUME OnlyCarefulGuests, ~careless'[c]
         PROVE  GuestsNext(c, Rest(tasks, c, {}) \cup X)
    <2>1. Pending(tasks, c) = {} /\ Rest(tasks, c, {}) \cup X = X
      BY <1>21, <1>25 DEF Rest
    <2>2. ASSUME NEW n \in Names PROVE guests_[n] = c <=> username_[c] = n
      BY <1>25, <2>1, ActingClient DEF Holds
    <2>3. ASSUME NEW n \in Names PROVE Holds(X, username_[c], n) <=> username_[c] = n
      BY <1>23 DEF Holds
    <2> QED
      BY <1>17, <2>1, <2>2, <2>3 DEF GuestsNext
  <1>26. ViewsNext(c, k)
    BY <1>9, <1>31
  <1>27. careless[c] => careless'[c]
    BY <1>20
  <1>28. is_logged_in_[c] => is_logged_in_'[c]
    BY <1>17
  <1>29. ~careless[c] /\ ~careless'[c] => CarefulNext(c, {}, X)
    BY <1>24
  <1>30. OnlyCarefulGuests /\ ~careless'[c] /\ ~is_logged_in_'[c] =>
             GuestsNext(c, Rest(tasks, c, {}) \cup X)
    BY <1>25
  <1> QED
    BY <1>9, <1>16, <1>18, <1>19, <1>26, <1>27, <1>28, <1>29, <1>30, ClientsStep

(* While a name is being set the client holds that name only, and then     *)
(* still does.                                                             *)
LEMMA HoldsSet ==
    ASSUME NEW P, OneRequest(P), NEW w \in P, w.do = "set", NEW new, NEW name, NEW n,
           \A u \in new : u.do \notin {"set", "erase"}
    PROVE  /\ Holds(P, name, n) <=> n = w.name
           /\ Holds((P \ {w}) \cup new, w.name, n) <=> n = w.name
  <1>1. ASSUME NEW u \in P \ {w} PROVE u.do \notin {"set", "erase"}
    BY DEF OneRequest, MayMeet, Together
  <1>2. Holds(P, name, n) <=> n = w.name
    BY <1>1 DEF Holds
  <1>3. Holds((P \ {w}) \cup new, w.name, n) <=> n = w.name
    BY <1>1 DEF Holds
  <1> QED
    BY <1>2, <1>3

LEMMA SetUserDataStep ==
    ASSUME ClientsInv, NEW c \in Clients, SetUserData(c)
    PROVE  ClientsInv'
  <1> DEFINE id == connected_vm_id_[c]
             global == is_in_global_chat_[c]
             shown == username_[c] # NoName
  <1>1. PICK w : w = Head(tasks[Username(c)])
    OBVIOUS
  <1>2. IsNext(Username(c), "set", c) /\ QueuesFit(tasks) /\ Username(c) \in Strands
    BY ActingClient, StrandsDiffer DEF SetUserData
  <1>3. /\ w \in Pending(tasks, c) /\ w \in Tasks
        /\ w.do = "set" /\ w.client = c
        /\ Moved(tasks, Popped(Username(c)), c, {w}, {}, 0)
    BY <1>1, <1>2, NextTask
  <1>4. w.name \in Names
    BY <1>3, TaskFields
  <1>5. /\ open[c] \in BOOLEAN /\ global \in BOOLEAN /\ id \in Channels
        /\ Pending(tasks, c) \in SUBSET Tasks
        /\ vm_list_viewers_[c] \in Nat
        /\ ~careless[c] => Sound(Pending(tasks, c), open[c], username_[c], id, global, Shown(c))
    BY ActingClient
  <1>6. PICK u, g :
          /\ u = [do |-> "update", client |-> c, channel |-> id, name |-> w.name]
          /\ g = [do |-> "update", client |-> c, channel |-> Global, name |-> w.name]
    OBVIOUS
  <1>7. PICK b \in BOOLEAN, e \in BOOLEAN : (b <=> shown /\ id # Global) /\ (e <=> shown /\ global)
    OBVIOUS
  <1>8. /\ u.do = "update" /\ u.client = c /\ u.channel = id /\ u.name = w.name
        /\ g.do = "update" /\ g.client = c /\ g.channel = Global /\ g.name = w.name
    BY <1>6
  <1>9. /\ b => Fits(VmList, u)
        /\ e => Fits(Channel(Global), g)
    <2>1. b => u \in ChannelTasks(Vms)
      BY <1>4, <1>5, <1>6, <1>7 DEF ChannelTasks, Channels
    <2>2. Global \in Channels /\ g \in ChannelTasks({Global})
      BY <1>4, <1>6 DEF ChannelTasks, Channels
    <2> QED
      BY <2>1, <2>2, FitsByStrand
  <1>10. PICK X0, X :
           /\ X0 = IF b THEN {} \cup {u} ELSE {}
           /\ X = IF e THEN X0 \cup {g} ELSE X0
    OBVIOUS
  <1>11. PICK p : p = PushIf(b, Popped(Username(c)), VmList, u)
    OBVIOUS
  <1>12. Moved(tasks, p, c, {w}, X0, 0)
    <2>1. u \notin {} /\ 0 \in Int /\ X0 = IF b THEN {} \cup {u} ELSE {}
      BY <1>10
    <2>2. 0 = 0 + (IF b /\ VmList = VmList /\ u = Unview(c) THEN 1 ELSE 0)
      BY <1>8, UnviewFits
    <2>3. Moved(tasks, PushIf(b, Popped(Username(c)), VmList, u), c, {w}, X0, 0)
      BY <1>2, <1>3, <1>7, <1>8, <1>9, <2>1, <2>2, MovedByPushIf
    <2> QED
      BY <1>11, <2>3
  <1>13. Moved(tasks, PushIf(e, p, Channel(Global), g), c, {w}, X, 0)
    <2>1. g \notin X0 /\ 0 \in Int /\ X = IF e THEN X0 \cup {g} ELSE X0
      BY <1>7, <1>8, <1>10
    <2>2. 0 = 0 + (IF e /\ Channel(Global) = VmList /\ g = Unview(c) THEN 1 ELSE 0)
      BY <1>8, UnviewFits
    <2> QED
      BY <1>2, <1>7, <1>8, <1>9, <1>12, <2>1, <2>2, MovedByPushIf
  <1>14. tasks' = PushIf(e, p, Channel(Global), g)
    <2>1. p = PushIf(shown /\ id # Global, Popped(Username(c)), VmList, u)
      BY <1>7, <1>11 DEF PushIf
    <2>2. tasks' = PushIf(shown /\ global, p, Channel(Global), g)
      BY <1>1, <1>6, <2>1 DEF SetUserData
    <2> QED
      BY <1>7, <2>2 DEF PushIf
  <1>15. Moved(tasks, tasks', c, {w}, X, 0)
    BY <1>13, <1>14
  <1>16. /\ username_' = [username_ EXCEPT ![c] = w.name]
         /\ UNCHANGED <<open, sent, is_logged_in_, connected_vm_id_, is_in_global_chat_,
                        is_viewing_vm_list_, guests_, users_, vm_list_viewers_, tested, careless,
                        raced>>
    BY <1>1 DEF SetUserData
  <1>17. PlainTypes' /\ \A d \in Clients \ {c} : SameClient(d)
    BY <1>4, <1>16 DEF ClientsInv, PlainTypes, SameClient
  <1>18. username_'[c] = w.name /\ Shown(c)' = Shown(c)
    BY <1>16 DEF ClientsInv, PlainTypes, Shown
  <1>19. \A x \in X : x.do = "update" /\ x.name = w.name
    BY <1>8, <1>10
  <1>20. ASSUME ~careless[c] PROVE CarefulNext(c, {w}, X)
    <2>1. Sound(Pending(tasks, c), open[c], username_[c], id, global, Shown(c))
      BY <1>5, <1>20
    <2>2. CASE ~shown
      <3>1. X = {} /\ (Pending(tasks, c) \ {w}) \cup X = Pending(tasks, c) \ {w}
        BY <1>7, <1>10, <2>2
      <3>2. Sound(Pending(tasks, c) \ {w}, open[c], w.name, id, global, Shown(c))
        BY <1>3, <1>5, <2>1, <2>2, FirstNameSound
      <3> QED
        BY <1>16, <1>18, <3>1, <3>2 DEF CarefulNext, Rest
    <2>3. CASE shown
      <3>1. Pending(tasks, c) = {w}
        BY <1>3, <2>1, <2>3 DEF Sound, TaskSound
      <3>2. (Pending(tasks, c) \ {w}) \cup X = X /\ X \cap (Pending(tasks, c) \ {w}) = {}
        BY <3>1
      <3>3. OneRequest(X)
        BY <1>7, <1>8, <1>10 DEF OneRequest, MayMeet
      <3>4. \A x \in X : x.do = "update" /\ x.name = w.name /\ x \notin GuestRenames
        BY <1>19, NoGuestRename
      <3>5. (id # Global => IsUpdated(X, id)) /\ (global => IsUpdated(X, Global))
        BY <1>7, <1>8, <1>10, <2>3 DEF IsUpdated
      <3>6. Sound(X, open[c], w.name, id, global, Shown(c))
        BY <1>3, <1>5, <2>1, <2>3, <3>3, <3>4, <3>5, NewNameSound
      <3> QED
        BY <1>16, <1>18, <3>2, <3>6 DEF CarefulNext, Rest
    <2> QED
      BY <2>2, <2>3
  <1>21. ASSUME OnlyCarefulGuests PROVE GuestsNext(c, Rest(tasks, c, {w}) \cup X)
    <2>1. OneRequest(Pending(tasks, c))
      BY <1>21, ActingClient DEF Sound
    <2>2. \A x \in X : x.do \notin {"set", "erase"}
      BY <1>19
    <2>3. ASSUME NEW n \in Names
          PROVE  guests_[n] = c <=> Holds((Pending(tasks, c) \ {w}) \cup X, w.name, n)
      <3>1. guests_[n] = c <=> Holds(Pending(tasks, c), username_[c], n)
        BY <1>21, ActingClient
      <3>2. /\ Holds(Pending(tasks, c), username_[c], n) <=> n = w.name
            /\ Holds((Pending(tasks, c) \ {w}) \cup X, w.name, n) <=> n = w.name
        BY <1>3, <2>1, <2>2, HoldsSet
      <3> QED
        BY <3>1, <3>2
    <2> QED
      BY <1>16, <1>18, <2>3 DEF GuestsNext, Rest
  <1>22. ViewsNext(c, 0)
    BY <1>16, SameViews
  <1>23. 0 \in Int /\ (careless[c] => careless'[c]) /\ (is_logged_in_[c] => is_logged_in_'[c])
    BY <1>16
  <1>24. ~careless[c] /\ ~careless'[c] => CarefulNext(c, {w}, X)
    BY <1>20
  <1>25. OnlyCarefulGuests /\ ~careless'[c] /\ ~is_logged_in_'[c] =>
             GuestsNext(c, Rest(tasks, c, {w}) \cup X)
    BY <1>21
  <1> QED
    BY <1>15, <1>17, <1>22, <1>23, <1>24, <1>25, ClientsStep

LEMMA ReleaseUsernameStep ==
    ASSUME ClientsInv, NEW c \in Clients, ReleaseUsername(c)
    PROVE  ClientsInv'
  <1>1. PICK t : t = Head(tasks[Username(c)])
    OBVIOUS
  <1>2. IsNext(Username(c), "release", c) /\ QueuesFit(tasks) /\ Username(c) \in Strands
    BY ActingClient, StrandsDiffer DEF ReleaseUsername
  <1>3. /\ t \in Pending(tasks, c) /\ t.do = "release" /\ t.client = c
        /\ Moved(tasks, Popped(Username(c)), c, {t}, {}, 0)
    BY <1>1, <1>2, NextTask
  <1>4. /\ open[c] \in BOOLEAN /\ is_in_global_chat_[c] \in BOOLEAN
        /\ username_[c] \in Names \cup {NoName}
        /\ vm_list_viewers_[c] \in Nat
        /\ ~careless[c] => Sound(Pending(tasks, c), open[c], username_[c],
                                 connected_vm_id_[c], is_in_global_chat_[c], Shown(c))
    BY ActingClient
  <1>5. UNCHANGED <<open, sent, is_logged_in_, connected_vm_id_, is_in_global_chat_,
                    is_viewing_vm_list_, guests_, users_, vm_list_viewers_, tested, careless,
                    raced>>
    BY DEF ReleaseUsername
  <1>6. CASE username_[c] = NoName
    <2>1. tasks' = Popped(Username(c)) /\ UNCHANGED username_
      BY <1>6 DEF ReleaseUsername, PushIf, ClientsInv, PlainTypes
    <2>2. Moved(tasks, tasks', c, {t}, {}, 0)
      BY <1>3, <2>1
    <2>3. ~careless[c] => Sound(Pending(tasks, c) \ {t}, open[c], username_[c],
                                connected_vm_id_[c], is_in_global_chat_[c], Shown(c))
      BY <1>3, <1>4, <1>6, DropSound
    <2>4. UNCHANGED <<open, sent, username_, is_logged_in_, connected_vm_id_,
                      is_in_global_chat_, is_viewing_vm_list_, guests_, users_,
                      vm_list_viewers_, tested, careless, raced>>
      BY <1>5, <2>1
    <2>5. t \in Pending(tasks, c) /\ t.do \notin {"set", "erase"}
      BY <1>3
    <2> QED
      BY <2>2, <2>3, <2>4, <2>5, EndStep
  <1>7. CASE username_[c] # NoName
    <2>1. PICK u : u = [do |-> "erase", client |-> c, name |-> username_[c]]
      OBVIOUS
    <2>2. u.do = "erase" /\ u.client = c /\ u.name = username_[c] /\ Fits(Guests, u)
      BY <1>4, <1>7, <2>1, FitsByStrand DEF GuestTasks
    <2>3. Moved(tasks, Push(Popped(Username(c)), Guests, u), c, {t}, {u}, 0)
      BY <1>1, <1>2, <2>2, MovedOn
    <2>4. /\ tasks' = Push(Popped(Username(c)), Guests, u)
          /\ username_' = [username_ EXCEPT ![c] = NoName]
      BY <1>7, <2>1 DEF ReleaseUsername, PushIf
    <2>5. Moved(tasks, tasks', c, {t}, {u}, 0)
      BY <2>3, <2>4
    <2>6. PlainTypes' /\ \A d \in Clients \ {c} : SameClient(d)
      BY <1>5, <2>4 DEF ClientsInv, PlainTypes, SameClient
    <2>7. username_'[c] = NoName /\ Shown(c)' = Shown(c)
      BY <1>5, <2>4 DEF ClientsInv, PlainTypes, Shown
    <2>8. u \notin GuestRenames
      BY <2>2, NoGuestRename
    <2>9. ASSUME ~careless[c], NEW x \in Pending(tasks, c) \ {t}
          PROVE  x.do \in {"unview", "leave"}
      BY <1>3, <1>4, <2>9 DEF Sound, OneRequest, MayMeet, Together
    <2>10. ASSUME ~careless[c] PROVE CarefulNext(c, {t}, {u})
      <3>1. Sound((Pending(tasks, c) \ {t}) \cup {u}, open[c], NoName,
                  connected_vm_id_[c], is_in_global_chat_[c], Shown(c))
        BY <1>3, <1>4, <2>2, <2>8, <2>10, ReleaseSound
      <3>2. {u} \cap (Pending(tasks, c) \ {t}) = {}
        BY <2>2, <2>9, <2>10
      <3> QED
        BY <1>5, <2>7, <3>1, <3>2 DEF CarefulNext, Rest
    <2>11. ASSUME OnlyCarefulGuests PROVE GuestsNext(c, Rest(tasks, c, {t}) \cup {u})
      <3>1. ~careless[c]
        BY <2>11, ActingClient
      <3>2. ASSUME NEW n \in Names
            PROVE  guests_[n] = c <=> Holds((Pending(tasks, c) \ {t}) \cup {u}, NoName, n)
        <4>1. guests_[n] = c <=> Holds(Pending(tasks, c), username_[c], n)
          BY <2>11, ActingClient
        <4>2. Holds(Pending(tasks, c), username_[c], n) <=> username_[c] = n
          BY <1>3, <2>9, <3>1 DEF Holds
        <4>3. n # NoName
          BY SessionConstants DEF NoName
        <4>4. Holds((Pending(tasks, c) \ {t}) \cup {u}, NoName, n) <=> username_[c] = n
          BY <2>2, <2>9, <3>1, <4>3 DEF Holds
        <4> QED
          BY <4>1, <4>2, <4>4
      <3> QED
        BY <1>5, <2>7, <3>2 DEF GuestsNext, Rest
    <2>12. ViewsNext(c, 0)
      BY <1>5, SameViews
    <2>13. 0 \in Int /\ (careless[c] => careless'[c]) /\ (is_logged_in_[c] => is_logged_in_'[c])
      BY <1>5
    <2>14. ~careless[c] /\ ~careless'[c] => CarefulNext(c, {t}, {u})
      BY <2>10
    <2>15. OnlyCarefulGuests /\ ~careless'[c] /\ ~is_logged_in_'[c] =>
               GuestsNext(c, Rest(tasks, c, {t}) \cup {u})
      BY <2>11
    <2> QED
      BY <2>5, <2>6, <2>12, <2>13, <2>14, <2>15, ClientsStep
  <1> QED
    BY <1>6, <1>7

LEMMA CreateSessionStep ==
    ASSUME ClientsInv, NEW c \in Clients, CreateSession(c)
    PROVE  ClientsInv'
  <1>1. PICK t : t = Head(tasks[Sessions])
    OBVIOUS
  <1>2. IsNext(Sessions, "login", c) /\ QueuesFit(tasks) /\ Sessions \in Strands
    BY ActingClient, StrandsDiffer DEF CreateSession
  <1>3. /\ t \in Pending(tasks, c) /\ t.do = "login" /\ t \in Tasks
        /\ Moved(tasks, Popped(Sessions), c, {t}, {}, 0)
    BY <1>1, <1>2, NextTask
  <1>4. t.name \in Names
    BY <1>3, TaskFields
  <1>5. PICK u : u = [do |-> "set", client |-> c, name |-> t.name]
    OBVIOUS
  <1>6. u.do = "set" /\ u.client = c /\ Fits(Username(c), u)
    BY <1>4, <1>5, FitsByStrand DEF UsernameTasks
  <1>7. Moved(tasks, Push(Popped(Sessions), Username(c), u), c, {t}, {u}, 0)
    BY <1>1, <1>2, <1>6, MovedOn
  <1>8. Moved(tasks, tasks', c, {t}, {u}, 0)
    <2>1. tasks' = Push(Popped(Sessions), Username(c), u)
      BY <1>1, <1>5 DEF CreateSession
    <2> QED
      BY <1>7, <2>1
  <1>9. PlainTypes' /\ \A d \in Clients \ {c} : SameClient(d)
    BY DEF CreateSession, ClientsInv, PlainTypes, SameClient
  <1>10. is_logged_in_'[c] /\ Shown(c)' = Shown(c)
    BY DEF CreateSession, ClientsInv, PlainTypes, Shown
  <1>11. ASSUME ~careless[c] PROVE CarefulNext(c, {t}, {u})
    <2>1. /\ open[c] \in BOOLEAN /\ is_in_global_chat_[c] \in BOOLEAN
          /\ Sound(Pending(tasks, c), open[c], username_[c],
                   connected_vm_id_[c], is_in_global_chat_[c], Shown(c))
      BY <1>11, ActingClient
    <2>2. Pending(tasks, c) = {t}
      BY <1>3, <2>1, LoneTask DEF Sound
    <2>3. u \notin GuestRenames
      BY <1>6, NoGuestRename
    <2>4. Sound({u}, open[c], username_[c], connected_vm_id_[c], is_in_global_chat_[c], Shown(c))
      BY <1>3, <1>6, <2>1, <2>3, FollowSound
    <2>5. (Pending(tasks, c) \ {t}) \cup {u} = {u} /\ {u} \cap (Pending(tasks, c) \ {t}) = {}
      BY <2>2
    <2> QED
      BY <1>10, <2>4, <2>5 DEF CarefulNext, Rest, CreateSession
  <1>12. ViewsNext(c, 0)
    BY SameViews DEF CreateSession
  <1>13. 0 \in Int /\ (careless[c] => careless'[c]) /\ (is_logged_in_[c] => is_logged_in_'[c])
    BY <1>10 DEF CreateSession
  <1>14. ~careless[c] /\ ~careless'[c] => CarefulNext(c, {t}, {u})
    BY <1>11
  <1>15. OnlyCarefulGuests /\ ~careless'[c] /\ ~is_logged_in_'[c] =>
             GuestsNext(c, Rest(tasks, c, {t}) \cup {u})
    BY <1>10
  <1> QED
    BY <1>8, <1>9, <1>12, <1>13, <1>14, <1>15, ClientsStep

LEMMA EraseGuestStep ==
    ASSUME ClientsInv, NEW c \in Clients, EraseGuest(c)
    PROVE  ClientsInv'
  <1>1. PICK t : t = Head(tasks[Guests])
    OBVIOUS
  <1>2. IsNext(Guests, "erase", c) /\ QueuesFit(tasks) /\ Guests \in Strands
    BY ActingClient, StrandsDiffer DEF EraseGuest
  <1>3. /\ t \in Pending(tasks, c) /\ t \in Tasks /\ t.do = "erase" /\ t.client = c
        /\ Moved(tasks, Popped(Guests), c, {t}, {}, 0)
    BY <1>1, <1>2, NextTask
  <1>4. t.name \in Names
    BY <1>3, TaskFields
  <1>5. PICK new : new = {}
    OBVIOUS
  <1>6. Moved(tasks, tasks', c, {t}, new, 0)
    <2>1. tasks' = Popped(Guests)
      BY DEF EraseGuest
    <2> QED
      BY <1>3, <1>5, <2>1
  <1>7. /\ guests_' = [guests_ EXCEPT ![t.name] = NoClient]
        /\ UNCHANGED <<open, sent, username_, is_logged_in_, connected_vm_id_,
                       is_in_global_chat_, is_viewing_vm_list_, users_,
                       vm_list_viewers_, tested, careless, raced>>
    BY <1>1 DEF EraseGuest
  <1>8. PlainTypes' /\ \A d \in Clients \ {c} : SameClient(d)
    BY <1>4, <1>7 DEF ClientsInv, PlainTypes, SameClient
  <1>9. /\ open[c] \in BOOLEAN /\ is_in_global_chat_[c] \in BOOLEAN
        /\ vm_list_viewers_[c] \in Nat
        /\ ~careless[c] => Sound(Pending(tasks, c), open[c], username_[c],
                                 connected_vm_id_[c], is_in_global_chat_[c], Shown(c))
    BY ActingClient
  <1>10. Rest(tasks, c, {t}) \cup new = Pending(tasks, c) \ {t}
    BY <1>5 DEF Rest
  <1>11. ASSUME ~careless[c] PROVE CarefulNext(c, {t}, new)
    <2>1. Sound(Pending(tasks, c) \ {t}, open[c], username_[c],
                connected_vm_id_[c], is_in_global_chat_[c], Shown(c))
      BY <1>3, <1>9, <1>11, DropSound
    <2>2. Shown(c)' = Shown(c)
      BY <1>7 DEF Shown
    <2> QED
      BY <1>5, <1>7, <1>10, <2>1, <2>2 DEF CarefulNext
  <1>12. ASSUME OnlyCarefulGuests PROVE GuestsNext(c, Rest(tasks, c, {t}) \cup new)
    <2>1. ~careless[c]
      BY <1>12, ActingClient
    <2>2. username_[c] = NoName
      BY <1>3, <1>9, <2>1 DEF Sound, TaskSound
    <2>3. ASSUME NEW x \in Pending(tasks, c) \ {t} PROVE x.do \in {"unview", "leave"}
      BY <1>3, <1>9, <2>1 DEF Sound, OneRequest, MayMeet, Together
    <2>4. ASSUME NEW n \in Names
          PROVE  /\ guests_[n] = c <=> n = t.name
                 /\ ~Holds(Pending(tasks, c) \ {t}, NoName, n)
      <3>1. guests_[n] = c <=> Holds(Pending(tasks, c), NoName, n)
        BY <1>12, <2>2, ActingClient
      <3>2. n # NoName
        BY SessionConstants DEF NoName
      <3>3. Holds(Pending(tasks, c), NoName, n) <=> n = t.name
        BY <1>3, <2>3, <3>2 DEF Holds
      <3>4. ~Holds(Pending(tasks, c) \ {t}, NoName, n)
        BY <2>3, <3>2 DEF Holds
      <3> QED
        BY <3>1, <3>3, <3>4
    <2>5. ASSUME NEW n \in Names
          PROVE  guests_'[n] = IF n = t.name THEN NoClient ELSE guests_[n]
      BY <1>7 DEF ClientsInv, PlainTypes
    <2>6. ASSUME NEW n \in Names PROVE guests_'[n] # c
      BY <2>4, <2>5, SessionConstants
    <2>7. ASSUME NEW n \in Names, NEW d \in Clients \ {c}
          PROVE  guests_'[n] = d <=> guests_[n] = d
      <3>1. d # c /\ d # NoClient
        BY SessionConstants
      <3> QED
        BY <2>4, <2>5, <3>1
    <2>8. username_'[c] = NoName
      BY <1>7, <2>2
    <2> QED
      BY <1>10, <2>4, <2>6, <2>7, <2>8 DEF GuestsNext
  <1>13. ViewsNext(c, 0)
    BY <1>7, SameViews
  <1>14. 0 \in Int /\ (careless[c] => careless'[c]) /\ (is_logged_in_[c] => is_logged_in_'[c])
    BY <1>7
  <1>15. ~careless[c] /\ ~careless'[c] => CarefulNext(c, {t}, new)
    BY <1>11
  <1>16. OnlyCarefulGuests /\ ~careless'[c] /\ ~is_logged_in_'[c] =>
             GuestsNext(c, Rest(tasks, c, {t}) \cup new)
    BY <1>12
  <1> QED
    BY <1>6, <1>8, <1>13, <1>14, <1>15, <1>16, ClientsStep

LEMMA RenameGuestStep ==
    ASSUME ClientsInv, NEW c \in Clients, RenameGuest(c)
    PROVE  ClientsInv'
  <1>1. PICK t : t = Head(tasks[Guests])
    OBVIOUS
  <1>2. IsNext(Guests, "rename", c) /\ QueuesFit(tasks) /\ Guests \in Strands
    BY ActingClient, StrandsDiffer DEF RenameGuest
  <1>3. /\ t \in Pending(tasks, c) /\ t \in Tasks /\ t.do = "rename" /\ t.client = c
        /\ Fits(Guests, t)
        /\ Moved(tasks, Popped(Guests), c, {t}, {}, 0)
    BY <1>1, <1>2, NextTask
  <1>4. t \in GuestRenames /\ t.name \in Names
    BY <1>3, FitsByStrand DEF GuestTasks, GuestRenames
  <1>5. /\ open[c] \in BOOLEAN /\ is_in_global_chat_[c] \in BOOLEAN
        /\ vm_list_viewers_[c] \in Nat
        /\ ~careless[c] => Sound(Pending(tasks, c), open[c], username_[c],
                                 connected_vm_id_[c], is_in_global_chat_[c], Shown(c))
    BY ActingClient
  <1>6. UNCHANGED <<open, sent, username_, is_logged_in_, connected_vm_id_,
                    is_in_global_chat_, is_viewing_vm_list_, users_,
                    vm_list_viewers_, tested, careless, raced>>
    BY DEF RenameGuest
  <1>7. CASE guests_[t.name] # NoClient
    <2>1. tasks' = Popped(Guests) /\ UNCHANGED guests_
      BY <1>1, <1>7 DEF RenameGuest
    <2>2. Moved(tasks, tasks', c, {t}, {}, 0)
      BY <1>3, <2>1
    <2>3. ~careless[c] => Sound(Pending(tasks, c) \ {t}, open[c], username_[c],
                                connected_vm_id_[c], is_in_global_chat_[c], Shown(c))
      BY <1>3, <1>5, DropSound
    <2>4. UNCHANGED <<open, sent, username_, is_logged_in_, connected_vm_id_,
                      is_in_global_chat_, is_viewing_vm_list_, guests_, users_,
                      vm_list_viewers_, tested, careless, raced>>
      BY <1>6, <2>1
    <2>5. t \in Pending(tasks, c) /\ t.do \notin {"set", "erase"}
      BY <1>3
    <2> QED
      BY <2>2, <2>3, <2>4, <2>5, EndStep
  <1>8. CASE guests_[t.name] = NoClient
    <2>1. PICK w : w = [do |-> "set", client |-> c, name |-> t.name]
      OBVIOUS
    <2>2. w.do = "set" /\ w.client = c /\ w.name = t.name /\ Fits(Username(c), w)
      BY <1>4, <2>1, FitsByStrand DEF UsernameTasks
    <2>3. Moved(tasks, Push(Popped(Guests), Username(c), w), c, {t}, {w}, 0)
      BY <1>1, <1>2, <2>2, MovedOn
    <2>4. /\ tasks' = Push(Popped(Guests), Username(c), w)
          /\ guests_' = [n \in Names |-> IF n = t.name THEN c
                                         ELSE IF n = t.old THEN NoClient
                                         ELSE guests_[n]]
      BY <1>1, <1>8, <2>1 DEF RenameGuest
    <2>5. Moved(tasks, tasks', c, {t}, {w}, 0)
      BY <2>3, <2>4
    <2>6. PlainTypes' /\ \A d \in Clients \ {c} : SameClient(d)
      BY <1>6, <2>4 DEF ClientsInv, PlainTypes, SameClient
    <2>7. ~careless[c] => Pending(tasks, c) = {t} /\ t.old = username_[c]
      BY <1>3, <1>4, <1>5, LoneTask DEF Sound, TaskSound
    <2>8. ~careless[c] => /\ Rest(tasks, c, {t}) \cup {w} = {w}
                          /\ {w} \cap Rest(tasks, c, {t}) = {}
      BY <2>7 DEF Rest
    <2>9. ASSUME ~careless[c] PROVE CarefulNext(c, {t}, {w})
      <3>1. w \notin GuestRenames
        BY <2>2, NoGuestRename
      <3>2. Sound({w}, open[c], username_[c],
                  connected_vm_id_[c], is_in_global_chat_[c], Shown(c))
        BY <1>3, <1>5, <2>2, <2>9, <3>1, FollowSound
      <3>3. Shown(c)' = Shown(c)
        BY <1>6 DEF Shown
      <3> QED
        BY <1>6, <2>8, <2>9, <3>2, <3>3 DEF CarefulNext
    <2>10. ASSUME OnlyCarefulGuests PROVE GuestsNext(c, Rest(tasks, c, {t}) \cup {w})
      <3>1. ~careless[c]
        BY <2>10, ActingClient
      <3>2. ASSUME NEW n \in Names PROVE guests_[n] = c <=> n = username_[c]
        <4>1. guests_[n] = c <=> Holds(Pending(tasks, c), username_[c], n)
          BY <2>10 DEF ClientsInv, NamesHeld
        <4>2. Holds(Pending(tasks, c), username_[c], n) <=> n = username_[c]
          BY <1>3, <2>7, <3>1 DEF Holds
        <4> QED
          BY <4>1, <4>2
      <3>3. ASSUME NEW n \in Names PROVE Holds({w}, username_[c], n) <=> n = t.name
        BY <2>2 DEF Holds
      <3>4. ASSUME NEW n \in Names
            PROVE  guests_'[n] = IF n = t.name THEN c
                                 ELSE IF n = username_[c] THEN NoClient
                                 ELSE guests_[n]
        BY <2>4, <2>7, <3>1
      <3>5. ASSUME NEW n \in Names
            PROVE  guests_'[n] = c <=> n = t.name
        BY <3>2, <3>4, SessionConstants
      <3>6. ASSUME NEW n \in Names, NEW d \in Clients \ {c}
            PROVE  guests_'[n] = d <=> guests_[n] = d
        <4>1. d # c /\ d # NoClient
          BY SessionConstants
        <4>2. CASE n = t.name
          BY <1>8, <3>4, <4>1, <4>2
        <4>3. CASE n # t.name /\ n = username_[c]
          BY <3>2, <3>4, <4>1, <4>3
        <4>4. CASE n # t.name /\ n # username_[c]
          BY <3>4, <4>4
        <4> QED
          BY <4>2, <4>3, <4>4
      <3> QED
        BY <1>6, <2>8, <3>1, <3>3, <3>5, <3>6 DEF GuestsNext
    <2>11. ViewsNext(c, 0)
      BY <1>6, SameViews
    <2>12. 0 \in Int /\ (careless[c] => careless'[c]) /\ (is_logged_in_[c] => is_logged_in_'[c])
      BY <1>6
    <2>13. ~careless[c] /\ ~careless'[c] => CarefulNext(c, {t}, {w})
      BY <2>9
    <2>14. OnlyCarefulGuests /\ ~careless'[c] /\ ~is_logged_in_'[c] =>
               GuestsNext(c, Rest(tasks, c, {t}) \cup {w})
      BY <2>10
    <2> QED
      BY <2>5, <2>6, <2>11, <2>12, <2>13, <2>14, ClientsStep
  <1> QED
    BY <1>7, <1>8

LEMMA GenerateUsernameStep ==
    ASSUME ClientsInv, NEW c \in Clients, NEW name \in Names, GenerateUsername(c, name)
    PROVE  ClientsInv'
  <1> DEFINE global == is_in_global_chat_[c]
  <1>1. PICK t : t = Head(tasks[Guests])
    OBVIOUS
  <1>2. IsNext(Guests, "generate", c) /\ QueuesFit(tasks) /\ Guests \in Strands
    BY ActingClient, StrandsDiffer DEF GenerateUsername
  <1>3. /\ t \in Pending(tasks, c) /\ t \in Tasks /\ t.do = "generate"
        /\ Moved(tasks, Popped(Guests), c, {t}, {}, 0)
    BY <1>1, <1>2, NextTask
  <1>4. PICK ch \in Channels : ch = t.channel
    BY <1>3, TaskFields
  <1>5. /\ open[c] \in BOOLEAN /\ global \in BOOLEAN /\ vm_list_viewers_[c] \in Nat
        /\ ~careless[c] => Sound(Pending(tasks, c), open[c], username_[c],
                                 connected_vm_id_[c], global, Shown(c))
    BY ActingClient
  <1>6. PICK w, u :
          /\ w = [do |-> "set", client |-> c, name |-> name]
          /\ u = [do |-> "join", client |-> c, channel |-> ch, name |-> name]
    OBVIOUS
  <1>7. /\ w.do = "set" /\ w.client = c /\ w.name = name
        /\ u.do = "join" /\ u.client = c /\ u.name = name /\ u.channel = ch
    BY <1>6
  <1>8. PICK z : z = IF ch = Global THEN Channel(Global) ELSE VmList
    OBVIOUS
  <1>9. Fits(Username(c), w) /\ Fits(z, u)
    <2>1. w \in UsernameTasks
      BY <1>6 DEF UsernameTasks
    <2>2. u \in ChannelTasks({ch}) /\ (ch # Global => u \in ChannelTasks(Vms))
      BY <1>6 DEF ChannelTasks, Channels
    <2> QED
      BY <1>8, <2>1, <2>2, FitsByStrand
  <1>10. PICK b \in BOOLEAN : b <=> ~(ch = Global /\ global)
    OBVIOUS
  <1>11. PICK p, X :
           /\ p = Push(Popped(Guests), Username(c), w)
           /\ X = IF b THEN {w} \cup {u} ELSE {w}
    OBVIOUS
  <1>12. Moved(tasks, p, c, {t}, {w}, 0)
    BY <1>1, <1>2, <1>7, <1>9, <1>11, MovedOn
  <1>13. Moved(tasks, PushIf(b, p, z, u), c, {t}, X, 0)
    <2>1. u \notin {w} /\ 0 \in Int /\ X = IF b THEN {w} \cup {u} ELSE {w}
      BY <1>7, <1>11
    <2>2. 0 = 0 + (IF b /\ z = VmList /\ u = Unview(c) THEN 1 ELSE 0)
      BY <1>7, UnviewFits
    <2>3. b => Fits(z, u)
      BY <1>9
    <2> QED
      BY <1>2, <1>7, <1>10, <1>12, <2>1, <2>2, <2>3, MovedByPushIf
  <1>14. ConnectNamed(p, c, name, ch)
    BY <1>1, <1>4, <1>6, <1>11 DEF GenerateUsername
  <1>15. /\ tasks' = PushIf(b, p, z, u)
         /\ is_in_global_chat_' = [is_in_global_chat_ EXCEPT ![c] = @ \/ ch = Global]
    <2>1. CASE ch = Global
      BY <1>6, <1>8, <1>10, <1>14, <2>1 DEF ConnectNamed, PushIf
    <2>2. CASE ch # Global
      <3>1. tasks' = Push(p, VmList, u) /\ UNCHANGED is_in_global_chat_
        BY <1>6, <1>14, <2>2 DEF ConnectNamed
      <3>2. tasks' = PushIf(b, p, z, u)
        BY <1>8, <1>10, <2>2, <3>1 DEF PushIf
      <3> QED
        BY <2>2, <3>1, <3>2 DEF ClientsInv, PlainTypes
    <2> QED
      BY <2>1, <2>2
  <1>16. Moved(tasks, tasks', c, {t}, X, 0)
    BY <1>13, <1>15
  <1>17. /\ guests_[name] = NoClient
         /\ guests_' = [guests_ EXCEPT ![name] = c]
         /\ UNCHANGED <<open, sent, username_, is_logged_in_, connected_vm_id_,
                        is_viewing_vm_list_, users_, vm_list_viewers_, tested, careless, raced>>
    BY DEF GenerateUsername
  <1>18. /\ is_in_global_chat_'[c] <=> global \/ ch = Global
         /\ is_in_global_chat_'[c] \in BOOLEAN
         /\ is_in_global_chat_' \in [Clients -> BOOLEAN]
         /\ \A d \in Clients \ {c} : is_in_global_chat_'[d] = is_in_global_chat_[d]
    BY <1>15 DEF ClientsInv, PlainTypes
  <1>19. PlainTypes' /\ \A d \in Clients \ {c} : SameClient(d)
    BY <1>17, <1>18 DEF ClientsInv, PlainTypes, SameClient
  <1>20. w \notin GuestRenames /\ u \notin GuestRenames
    BY <1>7, NoGuestRename
  <1>21. ~careless[c] => Pending(tasks, c) = {t} /\ username_[c] = NoName
    BY <1>3, <1>5, LoneTask DEF Sound, TaskSound
  <1>22. ~careless[c] => Rest(tasks, c, {t}) \cup X = X /\ X \cap Rest(tasks, c, {t}) = {}
    BY <1>21 DEF Rest
  <1>23. ASSUME ~careless[c] PROVE CarefulNext(c, {t}, X)
    <2>1. Sound(Pending(tasks, c), open[c], username_[c],
                connected_vm_id_[c], global, Shown(c))
      BY <1>5, <1>23
    <2>2. Sound(X, open[c], username_[c], connected_vm_id_[c], is_in_global_chat_'[c], Shown(c))
      <3>1. CASE b
        <4>1. w.name = u.name /\ (ch = Global => ~global)
          BY <1>7, <1>10, <3>1
        <4>2. Sound({w, u}, open[c], username_[c], connected_vm_id_[c],
                    is_in_global_chat_'[c], Shown(c))
          BY <1>3, <1>4, <1>5, <1>7, <1>18, <1>20, <2>1, <4>1, GeneratedSound
        <4>3. X = {w, u}
          BY <1>11, <3>1
        <4> QED
          BY <4>2, <4>3
      <3>2. CASE ~b
        <4>1. Sound({w}, open[c], username_[c], connected_vm_id_[c], global, Shown(c))
          BY <1>3, <1>5, <1>7, <1>20, <2>1, FollowSound
        <4>2. X = {w} /\ is_in_global_chat_'[c] = global
          BY <1>5, <1>10, <1>11, <1>18, <3>2
        <4> QED
          BY <4>1, <4>2
      <3> QED
        BY <3>1, <3>2
    <2>3. Shown(c)' = Shown(c)
      BY <1>17 DEF Shown
    <2> QED
      BY <1>17, <1>22, <1>23, <2>2, <2>3 DEF CarefulNext
  <1>24. ASSUME OnlyCarefulGuests PROVE GuestsNext(c, Rest(tasks, c, {t}) \cup X)
    <2>1. ~careless[c]
      BY <1>24, ActingClient
    <2>2. ASSUME NEW n \in Names PROVE guests_[n] # c
      <3>1. guests_[n] = c <=> Holds(Pending(tasks, c), username_[c], n)
        BY <1>24 DEF ClientsInv, NamesHeld
      <3>2. n # NoName
        BY SessionConstants DEF NoName
      <3> QED
        BY <1>3, <1>21, <2>1, <3>1, <3>2 DEF Holds
    <2>3. ASSUME NEW n \in Names PROVE Holds(X, username_[c], n) <=> n = name
      BY <1>7, <1>11 DEF Holds
    <2>4. ASSUME NEW n \in Names PROVE guests_'[n] = IF n = name THEN c ELSE guests_[n]
      BY <1>17 DEF ClientsInv, PlainTypes
    <2>5. ASSUME NEW n \in Names PROVE guests_'[n] = c <=> n = name
      BY <2>2, <2>4
    <2>6. ASSUME NEW n \in Names, NEW d \in Clients \ {c}
          PROVE  guests_'[n] = d <=> guests_[n] = d
      <3>1. d # c /\ d # NoClient
        BY SessionConstants
      <3> QED
        BY <1>17, <2>4, <3>1
    <2> QED
      BY <1>17, <1>22, <2>1, <2>3, <2>5, <2>6 DEF GuestsNext
  <1>25. ViewsNext(c, 0)
    BY <1>17, SameViews
  <1>26. 0 \in Int /\ (careless[c] => careless'[c]) /\ (is_logged_in_[c] => is_logged_in_'[c])
    BY <1>17
  <1>27. ~careless[c] /\ ~careless'[c] => CarefulNext(c, {t}, X)
    BY <1>23
  <1>28. OnlyCarefulGuests /\ ~careless'[c] /\ ~is_logged_in_'[c] =>
             GuestsNext(c, Rest(tasks, c, {t}) \cup X)
    BY <1>24
  <1> QED
    BY <1>16, <1>19, <1>25, <1>26, <1>27, <1>28, ClientsStep

LEMMA MessagesStep ==
    ASSUME ClientsInv, NEW c \in Clients,
           \/ \E ch \in Channels : ConnectToChannel(c, ch)
           \/ \E name \in Names : ChangeUsername(c, name)
           \/ \E account \in Accounts : LoginRequest(c, account)
           \/ VmListRequest(c)
    PROVE  ClientsInv'
  <1>1. ASSUME NEW ch \in Channels, ConnectToChannel(c, ch) PROVE ClientsInv'
    <2>0. PICK b \in BOOLEAN : b = (ch # Global /\ ch = connected_vm_id_[c])
      OBVIOUS
    <2>1. PICK t : t = [do |-> "connect", client |-> c, channel |-> ch]
      OBVIOUS
    <2>2. t.do = "connect" /\ t.client = c /\ t.channel = ch
      BY <2>1
    <2>3. Fits(Username(c), t)
      BY <2>1, FitsByStrand DEF UsernameTasks
    <2>4. Message(c, Username(c), t, b)
      BY <1>1, <2>0, <2>1 DEF ConnectToChannel
    <2>5. t \notin GuestRenames
      BY <2>2, NoGuestRename
    <2>6. t.do = "connect" /\ t.channel # Global /\ t.channel = connected_vm_id_[c] => b
      BY <2>0, <2>2
    <2> QED
      BY <2>2, <2>3, <2>4, <2>5, <2>6, MessageStep
  <1>2. ASSUME NEW name \in Names, ChangeUsername(c, name) PROVE ClientsInv'
    <2>0. PICK b \in BOOLEAN : b = FALSE
      OBVIOUS
    <2>1. PICK t : t = [do |-> "rename", client |-> c, name |-> name]
      OBVIOUS
    <2>2. t.do = "rename" /\ t.client = c
      BY <2>1
    <2>3. Fits(Username(c), t)
      BY <2>1, FitsByStrand DEF UsernameTasks
    <2>4. Message(c, Username(c), t, b)
      BY <1>2, <2>0, <2>1 DEF ChangeUsername
    <2>5. t \notin GuestRenames
      <3>1. "old" \notin DOMAIN t
        BY <2>1
      <3>2. ASSUME NEW u \in GuestRenames PROVE "old" \in DOMAIN u
        BY DEF GuestRenames
      <3> QED
        BY <3>1, <3>2
    <2> QED
      BY <2>2, <2>3, <2>4, <2>5, MessageStep
  <1>3. ASSUME NEW account \in Accounts, LoginRequest(c, account) PROVE ClientsInv'
    <2>0. PICK b \in BOOLEAN : b = FALSE
      OBVIOUS
    <2>1. PICK t : t = [do |-> "login", client |-> c, name |-> account]
      OBVIOUS
    <2>2. t.do = "login" /\ t.client = c
      BY <2>1
    <2>3. Fits(Sessions, t)
      BY <2>1, FitsByStrand DEF LoginTasks
    <2>4. Message(c, Sessions, t, b)
      BY <1>3, <2>0, <2>1 DEF LoginRequest
    <2>5. t \notin GuestRenames
      BY <2>2, NoGuestRename
    <2> QED
      BY <2>2, <2>3, <2>4, <2>5, MessageStep
  <1>4. ASSUME VmListRequest(c) PROVE ClientsInv'
    <2>0. PICK b \in BOOLEAN : b = FALSE
      OBVIOUS
    <2>1. PICK t : t = [do |-> "view", client |-> c]
      OBVIOUS
    <2>2. t.do = "view" /\ t.client = c
      BY <2>1
    <2>3. Fits(VmList, t)
      BY <2>1, FitsByStrand DEF ViewTasks
    <2>4. Message(c, VmList, t, b)
      BY <1>4, <2>0, <2>1 DEF VmListRequest
    <2>5. t \notin GuestRenames
      BY <2>2, NoGuestRename
    <2> QED
      BY <2>2, <2>3, <2>4, <2>5, MessageStep
  <1> QED
    BY <1>1, <1>2, <1>3, <1>4
-----------------------------------------------------------------------------
LEMMA ClientsInit ==
    ASSUME Init
    PROVE  ClientsInv
  <1>1. PlainTypes
    <2>1. sent \in 0..MaxMessages
      <3>1. sent = 0
        BY Zenon DEF Init
      <3>2. MaxMessages \in Nat
        BY SessionConstants
      <3> QED
        BY <3>1, <3>2
    <2>2. users_ \in [Channels -> [Clients -> Names \cup {NoName}]]
      BY DEF Init
    <2>3. vm_list_viewers_ \in [Clients -> Nat]
      BY DEF Init
    <2>4. /\ connected_vm_id_ \in [Clients -> Channels]
          /\ guests_ \in [Names -> Clients \cup {NoClient}]
      BY DEF Init, Channels
    <2> QED
      BY <2>1, <2>2, <2>3, <2>4 DEF Init, PlainTypes
  <1>2. /\ tasks \in [Strands -> Seq(Tasks)]
        /\ \A s \in Strands : tasks[s] = << >> /\ Len(tasks[s]) = 0
    BY DEF Init
  <1>3. \A s \in Strands : 1..Len(tasks[s]) = {}
    BY <1>2
  <1>4. QueuesFit(tasks)
    BY <1>2, <1>3 DEF QueuesFit
  <1>5. ASSUME NEW c \in Clients PROVE Pending(tasks, c) = {} /\ Once(tasks, c)
    BY <1>3 DEF Pending, Once
  <1>6. ASSUME NEW c \in Clients PROVE CarefulSound(c)
    <2>1. /\ username_[c] = NoName /\ connected_vm_id_[c] = Global
          /\ ~is_in_global_chat_[c]
          /\ \A ch \in Channels : Shown(c)[ch] = NoName
      BY DEF Init, Shown
    <2>2. Sound({}, open[c], username_[c], connected_vm_id_[c], is_in_global_chat_[c], Shown(c))
      BY <2>1 DEF Sound, OneRequest, InVms, InGlobal, NamesShown, Channels
    <2> QED
      BY <1>5, <2>2 DEF CarefulSound
  <1>7. NamesHeld
    <2>1. ASSUME NEW c \in Clients, NEW n \in Names
          PROVE  guests_[n] # c /\ ~Holds({}, username_[c], n)
      BY SessionConstants DEF Init, Holds, NoName
    <2> QED
      BY <1>5, <2>1 DEF NamesHeld
  <1>8. ViewersAreCounted
    <2>1. ASSUME NEW c \in Clients PROVE Unviews(tasks, c) = 0
      <3>1. UnviewPlaces(tasks, c) = {}
        BY <1>3, StrandsDiffer DEF UnviewPlaces
      <3> QED
        BY <3>1, FS_EmptySet DEF Unviews
    <2>2. ASSUME NEW c \in Clients PROVE vm_list_viewers_[c] = 0 /\ BelievedViews(c) = 0
      <3>1. BelievedViews(c) = Viewing(is_viewing_vm_list_[c]) + Unviews(tasks, c)
        BY DEF BelievedViews, Unviews, UnviewPlaces, Unview, Viewing
      <3> QED
        BY <2>1, <3>1 DEF Init, Viewing
    <2> QED
      BY <2>2 DEF ViewersAreCounted
  <1> QED
    BY <1>1, <1>4, <1>6, <1>7, <1>8 DEF ClientsInv

LEMMA ClientsUnchanged ==
    ASSUME ClientsInv, UNCHANGED vars
    PROVE  ClientsInv'
  <1>1. UNCHANGED <<tasks, open, sent, username_, is_logged_in_, connected_vm_id_,
                    is_in_global_chat_, is_viewing_vm_list_, guests_, users_,
                    vm_list_viewers_, tested, careless, raced>>
    BY DEF vars
  <1>2. PlainTypes' /\ QueuesFit(tasks')
    BY <1>1 DEF ClientsInv, PlainTypes
  <1>3. ASSUME NEW c \in Clients, ~careless'[c] PROVE CarefulSound(c)'
    BY <1>1, <1>3 DEF ClientsInv, CarefulSound, Shown
  <1>4. NamesHeld' /\ ViewersAreCounted'
    BY <1>1 DEF ClientsInv, NamesHeld, OnlyCarefulGuests, ViewersAreCounted,
                BelievedViews
  <1> QED
    BY <1>2, <1>3, <1>4 DEF ClientsInv

(* The test of LeaveVmList, made ahead. *)
LEMMA TestStep ==
    ASSUME ClientsInv, NEW c \in Clients, NEW by \in Callers, Test(c, by)
    PROVE  ClientsInv'
  <1>1. UNCHANGED <<tasks, open, sent, username_, is_logged_in_, connected_vm_id_,
                    is_in_global_chat_, is_viewing_vm_list_, guests_, users_,
                    vm_list_viewers_, careless, raced>>
    BY DEF Test
  <1>2. tested' \in [Clients -> SUBSET (Callers \X BOOLEAN)]
    <2>1. tested' = [tested EXCEPT ![c] = tested[c] \cup {<<by, is_viewing_vm_list_[c]>>}]
      BY DEF Test
    <2>2. tested \in [Clients -> SUBSET (Callers \X BOOLEAN)] /\ is_viewing_vm_list_[c] \in BOOLEAN
      BY DEF ClientsInv, PlainTypes
    <2>3. tested[c] \cup {<<by, is_viewing_vm_list_[c]>>} \in SUBSET (Callers \X BOOLEAN)
      BY <2>2
    <2> QED
      BY <2>1, <2>2, <2>3, Zenon
  <1>3. PlainTypes' /\ QueuesFit(tasks')
    BY <1>1, <1>2 DEF ClientsInv, PlainTypes
  <1>4. ASSUME NEW d \in Clients, ~careless'[d] PROVE CarefulSound(d)'
    BY <1>1, <1>4 DEF ClientsInv, CarefulSound, Shown
  <1>5. NamesHeld' /\ ViewersAreCounted'
    BY <1>1 DEF ClientsInv, NamesHeld, OnlyCarefulGuests, ViewersAreCounted,
                BelievedViews
  <1> QED
    BY <1>3, <1>4, <1>5 DEF ClientsInv

(* Every step of every client keeps the invariant. *)
LEMMA ClientsNext ==
    ASSUME ClientsInv, [Next]_vars
    PROVE  ClientsInv'
  <1>1. ASSUME NEW c \in Clients, ClientNext(c) PROVE ClientsInv'
    BY <1>1, MessagesStep, DisconnectStep, TestStep DEF ClientNext, DisconnectTest, Callers
  <1>2. ASSUME NEW c \in Clients, TaskNext(c) PROVE ClientsInv'
    <2>1. CASE ConnectTask(c) \/ RenameTask(c) \/ SetUserData(c) \/ ReleaseUsername(c)
      BY <2>1, ConnectTaskStep, RenameTaskStep, SetUserDataStep, ReleaseUsernameStep
    <2>2. CASE \/ \E name \in Names : GenerateUsername(c, name)
               \/ RenameGuest(c) \/ EraseGuest(c) \/ CreateSession(c)
      BY <2>2, GenerateUsernameStep, RenameGuestStep, EraseGuestStep, CreateSessionStep
    <2>3. CASE GetAdminVirtualMachine(c) \/ AddVmListViewer(c) \/ RemoveVmListViewer(c)
      BY <2>3, GetAdminVirtualMachineStep, AddVmListViewerStep, RemoveVmListViewerStep
    <2>4. CASE \E ch \in Channels :
                 JoinTest(c, ch) \/ Join(c, ch) \/ Leave(c, ch) \/ UpdateUsername(c, ch)
      BY <2>4, JoinStep, LeaveStep, UpdateUsernameStep, TestStep DEF JoinTest, Callers
    <2> QED
      BY <1>2, <2>1, <2>2, <2>3, <2>4 DEF TaskNext
  <1>3. ASSUME UNCHANGED vars PROVE ClientsInv'
    BY <1>3, ClientsUnchanged
  <1> QED
    BY <1>1, <1>2, <1>3 DEF Next

LEMMA ClientsAlways == Spec => []ClientsInv
  <1>1. Init => ClientsInv
    BY ClientsInit
  <1>2. ClientsInv /\ [Next]_vars => ClientsInv'
    BY ClientsNext
  <1> QED
    BY <1>1, <1>2, PTL DEF Spec
-----------------------------------------------------------------------------
LEMMA QueuesAreTyped ==
    ASSUME ClientsInv
    PROVE  TypeOK
  <1>1. QueuesFit(tasks)
    BY DEF ClientsInv
  <1>2. ASSUME NEW s \in Strands, NEW T, \A t : Fits(s, t) => t \in T
        PROVE  tasks[s] \in Seq(T)
    <2>1. tasks[s] \in Seq(Tasks) /\ \A i \in 1..Len(tasks[s]) : tasks[s][i] \in T
      BY <1>1, <1>2 DEF QueuesFit
    <2>2. /\ Len(tasks[s]) \in Nat /\ DOMAIN tasks[s] = 1..Len(tasks[s])
          /\ tasks[s] = [i \in 1..Len(tasks[s]) |-> tasks[s][i]]
      BY <2>1
    <2>3. tasks[s] \in [1..Len(tasks[s]) -> T]
      BY <2>1, <2>2
    <2> QED
      BY <2>2, <2>3, SeqDef
  <1>3. \A c \in Clients : tasks[Username(c)] \in Seq(UsernameTasks)
    BY <1>2, StrandsDiffer, FitsByStrand
  <1>4. tasks[Guests] \in Seq(GuestTasks)
    BY <1>2, StrandsDiffer, FitsByStrand
  <1>5. tasks[VmList] \in Seq(ChannelTasks(Vms) \cup ViewTasks)
    BY <1>2, StrandsDiffer, FitsByStrand
  <1>6. \A ch \in Channels : tasks[Channel(ch)] \in Seq(ChannelTasks({ch}))
    BY <1>2, StrandsDiffer, FitsByStrand
  <1>7. tasks[Sessions] \in Seq(LoginTasks)
    BY <1>2, StrandsDiffer, FitsByStrand
  <1> QED
    BY <1>3, <1>4, <1>5, <1>6, <1>7 DEF TypeOK, ClientsInv, PlainTypes, ViewTasks, LoginTasks

(* A careful client whose requests are done: no task excuses a difference. *)
LEMMA IdleClient ==
    ASSUME ClientsInv, NEW c \in Clients, ~Busy(c), ~careless[c]
    PROVE  /\ \A v \in Vms : IsIn(c, v) <=> open[c] /\ v = connected_vm_id_[c]
           /\ IsIn(c, Global) <=> open[c] /\ is_in_global_chat_[c]
           /\ \A ch \in Channels : IsIn(c, ch) => users_[ch][c] = username_[c]
  <1>1. Pending(tasks, c) = {}
    BY ActingClient, BusyIsPending
  <1>2. Sound({}, open[c], username_[c], connected_vm_id_[c], is_in_global_chat_[c], Shown(c))
    BY <1>1, ActingClient
  <1>3. \A ch \in Channels : Shown(c)[ch] # NoName <=> IsIn(c, ch)
    BY DEF Shown, IsIn
  <1>4. \A v \in Vms : IsIn(c, v) <=> open[c] /\ v = connected_vm_id_[c]
    BY <1>2, <1>3, SessionConstants DEF Sound, InVms, IsLeaving, Channels
  <1>5. IsIn(c, Global) <=> open[c] /\ is_in_global_chat_[c]
    BY <1>2, <1>3 DEF Sound, InGlobal, IsLeaving, IsJoining, Channels
  <1>6. ASSUME NEW ch \in Channels, IsIn(c, ch) PROVE users_[ch][c] = username_[c]
    <2>1. open[c] /\ (ch = connected_vm_id_[c] \/ ch = Global)
      BY <1>4, <1>5, <1>6 DEF Channels
    <2>2. Shown(c)[ch] = username_[c]
      BY <1>2, <1>3, <1>6, <2>1 DEF Sound, NamesShown, IsUpdated, IsSet
    <2> QED
      BY <2>2 DEF Shown
  <1> QED
    BY <1>4, <1>5, <1>6

(* Whatever the strands interleave: a client that waits for each of its    *)
(* requests ends up in exactly the channels it believes to be in and is    *)
(* shown there by the name it has, however the tasks of the others run in  *)
(* between; connected_vm_id_, is_in_global_chat_, username_ and users_ of  *)
(* the channels agree, for any numbers of clients, names and virtual       *)
(* machines.                                                               *)
THEOREM MembershipAndNamesAreRight == Spec => []SessionInv
  <1>1. ClientsInv => SessionInv
    BY QueuesAreTyped, IdleClient DEF SessionInv, MembershipIsRight, ShownNameIsRight
  <1> QED
    BY <1>1, ClientsAlways, PTL

(* No client is in vm_list_viewers_ more often than is_viewing_vm_list_    *)
(* and the removals under way say, also if its requests overlap and calls  *)
(* of LeaveVmList run in parallel on several strands; and it is there      *)
(* exactly as often unless two such calls have raced for the same entry.   *)
THEOREM ViewersStayCounted == Spec => []ViewersAreCounted
  <1>1. ClientsInv => ViewersAreCounted
    BY DEF ClientsInv
  <1> QED
    BY <1>1, ClientsAlways, PTL

(* As long as every client waits for its requests and nobody logs in,      *)
(* guests_ reserves for each idle client its username_ and no other name.  *)
THEOREM GuestNamesAreReserved == Spec => []NamesAreReserved
  <1>1. ASSUME ClientsInv PROVE NamesAreReserved
    <2>1. ASSUME OnlyCarefulGuests, NEW c \in Clients, NEW n \in Names, ~Busy(c)
          PROVE  guests_[n] = c <=> username_[c] = n
      <3>1. Pending(tasks, c) = {}
        BY <1>1, <2>1, ActingClient, BusyIsPending
      <3>2. guests_[n] = c <=> Holds(Pending(tasks, c), username_[c], n)
        BY <1>1, <2>1 DEF ClientsInv, NamesHeld
      <3> QED
        BY <3>1, <3>2 DEF Holds
    <2> QED
      BY <2>1 DEF NamesAreReserved
  <1> QED
    BY <1>1, ClientsAlways, PTL
=============================================================================
