------------------------ MODULE TurnControllerProofs ------------------------
(***************************************************************************)
(* Proofs about TurnController for every set of clients, all turn times    *)
(* and any number of queued timer handlers.                                *)
(***************************************************************************)
EXTENDS TurnController, SequenceTheorems, TLAPS

(* What RemoveAt returns, element by element. *)
LEMMA RemoveAtElements ==
    ASSUME NEW S, NEW s \in Seq(S), NEW i \in 1..Len(s)
    PROVE  /\ RemoveAt(s, i) \in Seq(S)
           /\ Len(RemoveAt(s, i)) = Len(s) - 1
           /\ \A k \in 1..(Len(s) - 1) :
                  RemoveAt(s, i)[k] = s[IF k < i THEN k ELSE k + 1]
           /\ RemoveAt(s, i) = [k \in 1..(Len(s) - 1) |-> s[IF k < i THEN k ELSE k + 1]]
  <1> DEFINE a == SubSeq(s, 1, i - 1)
             b == SubSeq(s, i + 1, Len(s))
  <1>1. /\ a \in Seq(S) /\ Len(a) = i - 1
        /\ \A k \in 1..(i - 1) : a[k] = s[k]
    OBVIOUS
  <1>2. /\ b \in Seq(S) /\ Len(b) = Len(s) - i
        /\ \A k \in 1..(Len(s) - i) : b[k] = s[i + k]
    OBVIOUS
  <1>3. RemoveAt(s, i) = a \o b
    BY DEF RemoveAt
  <1> HIDE DEF a, b
  <1>4. a \o b \in Seq(S) /\ Len(a \o b) = Len(s) - 1
    <2>1. a \o b \in Seq(S)
      BY <1>1, <1>2
    <2>2. Len(a \o b) = Len(a) + Len(b)
      BY <1>1, <1>2, ConcatProperties, Zenon
    <2> QED BY <2>1, <2>2, <1>1, <1>2
  <1>5. ASSUME NEW k \in 1..(Len(s) - 1)
        PROVE  (a \o b)[k] = s[IF k < i THEN k ELSE k + 1]
    <2>1. CASE k < i
      <3>1. k \in 1..Len(a)
        BY <1>1, <2>1
      <3> QED BY <3>1, <1>1, <1>2, <2>1
    <2>2. CASE ~(k < i)
      <3>1. k - Len(a) \in 1..Len(b) /\ i + (k - Len(a)) = k + 1
        BY <1>1, <1>2, <2>2
      <3>2. (a \o b)[k] = b[k - Len(a)]
        BY <3>1, <1>1, <1>2, <2>2
      <3> QED BY <3>1, <3>2, <1>2, <2>2
    <2> QED BY <2>1, <2>2
  <1>6. a \o b = [k \in 1..(Len(s) - 1) |-> s[IF k < i THEN k ELSE k + 1]]
    BY <1>4, <1>5, LenProperties
  <1> QED BY <1>3, <1>4, <1>5, <1>6
-----------------------------------------------------------------------------
(* Type correctness. *)
LEMMA InitTypeOK == Init => TypeOK
  <1> SUFFICES ASSUME Init PROVE TypeOK
    OBVIOUS
  <1>1. /\ turn_queue_ \in Seq(Users) /\ completed \in Seq(Users)
        /\ turn_queue_position_ \in [Users -> Nat \cup {nullopt}]
        /\ paused_time_ \in Nat \cup {nullopt}
        /\ turn_time_ \in TurnTimes /\ turns_enabled \in BOOLEAN
    BY DEF Init, nullopt
  <1>2. turn_timer_ \in Timers
    BY DEF Init, Timers
  <1>3. announced \in Broadcasts
    BY DEF Init, Broadcasts
  <1> QED BY <1>1, <1>2, <1>3 DEF TypeOK

(* What the callbacks and the start of a turn leave behind. *)
LEMMA BroadcastTypeOK ==
    ASSUME NEW q \in Seq(Users), NEW enabled, NEW paused, NEW time \in Int,
           BroadcastTurnQueue(q, enabled, paused, time)
    PROVE  /\ announced' \in Broadcasts
           /\ announced'.users = q
           /\ announced'.state = TurnState(enabled, paused)
           /\ announced'.time = time
  <1> DEFINE st == TurnState(enabled, paused)
  <1>1. announced' = [users |-> q, state |-> st, time |-> time]
    BY DEF BroadcastTurnQueue
  <1>2. st \in {"NONE", "DISABLED", "PAUSED", "ENABLED"}
    BY DEF TurnState
  <1> HIDE DEF st
  <1>3. announced' \in Broadcasts
    BY <1>1, <1>2, Zenon DEF Broadcasts
  <1>4. announced'.users = q /\ announced'.state = st /\ announced'.time = time
    BY <1>1, Zenon
  <1> QED BY <1>3, <1>4, Zenon DEF st

(* Timers and broadcasts as records. *)
LEMMA TimerFields ==
    ASSUME NEW timer \in Timers
    PROVE  /\ timer.user \in Users \cup {NoUser} /\ timer.left \in Int
           /\ Cancelled(timer) \in Timers
           /\ Cancelled(timer).user = NoUser /\ Cancelled(timer).left = timer.left
  BY DEF Timers, Cancelled

(* UpdateCurrentTurn announces the queue and times its head. *)
LEMMA UpdateCurrentTurnEffect ==
    ASSUME NEW q \in Seq(Users), NEW paused, NEW time \in Int,
           NEW timer \in Timers,
           UpdateCurrentTurn(q, paused, timer, time)
    PROVE  /\ announced' \in Broadcasts
           /\ announced'.users = q
           /\ announced'.state = TurnState(turns_enabled, paused)
           /\ turn_timer_' \in Timers
           /\ q # << >> => announced'.time = time
           /\ q # << >> /\ paused = nullopt =>
                turn_timer_'.user = Head(q) /\ turn_timer_'.left = time
           /\ q = << >> \/ paused # nullopt => turn_timer_' = timer
  <1>1. BroadcastTurnQueue(q, turns_enabled, paused, IF q = << >> THEN 0 ELSE time)
    BY DEF UpdateCurrentTurn
  <1>2. /\ announced' \in Broadcasts
        /\ announced'.users = q
        /\ announced'.state = TurnState(turns_enabled, paused)
        /\ announced'.time = IF q = << >> THEN 0 ELSE time
    <2>1. (IF q = << >> THEN 0 ELSE time) \in Int
      OBVIOUS
    <2> QED BY <1>1, <2>1, BroadcastTypeOK, Zenon
  <1>3. q # << >> => Head(q) \in Users
    BY HeadTailProperties
  <1>4. turn_timer_' = IF q # << >> /\ paused = nullopt
                       THEN [user |-> Head(q), left |-> time] ELSE timer
    BY DEF UpdateCurrentTurn
  <1>5. /\ turn_timer_' \in Timers
        /\ q # << >> /\ paused = nullopt =>
             turn_timer_'.user = Head(q) /\ turn_timer_'.left = time
        /\ q = << >> \/ paused # nullopt => turn_timer_' = timer
    BY <1>3, <1>4 DEF Timers
  <1> QED BY <1>2, <1>5, Zenon

(* The queue that RemoveQueued leaves: the user at its stored position is  *)
(* gone, everybody behind has moved up by one.                             *)
LEMMA RemoveQueuedQueue ==
    ASSUME TypeOK, PositionsMatchQueue, NEW u \in Users, IsQueued(u), RemoveQueued(u)
    PROVE  /\ turn_queue_position_[u] \in 0..(Len(turn_queue_) - 1)
           /\ turn_queue_[turn_queue_position_[u] + 1] = u
           /\ turn_queue_' \in Seq(Users)
           /\ Len(turn_queue_') = Len(turn_queue_) - 1
           /\ \A k \in 1..Len(turn_queue_') :
                  turn_queue_'[k] =
                     turn_queue_[IF k < turn_queue_position_[u] + 1 THEN k ELSE k + 1]
           /\ turn_queue_' =
                [k \in 1..(Len(turn_queue_) - 1) |->
                     turn_queue_[IF k < turn_queue_position_[u] + 1 THEN k ELSE k + 1]]
  <1> DEFINE p == turn_queue_position_[u]
  <1>1. /\ p \in Nat /\ p < Len(turn_queue_) /\ turn_queue_ \in Seq(Users)
        /\ turn_queue_[p + 1] = u
    BY DEF TypeOK, PositionsMatchQueue, IsQueued, nullopt
  <1>2. p + 1 \in 1..Len(turn_queue_) /\ p \in 0..(Len(turn_queue_) - 1)
    BY <1>1
  <1>3. turn_queue_' = RemoveAt(turn_queue_, p + 1)
    BY DEF RemoveQueued
  <1> HIDE DEF p
  <1>4. /\ turn_queue_' \in Seq(Users) /\ Len(turn_queue_') = Len(turn_queue_) - 1
        /\ \A k \in 1..(Len(turn_queue_) - 1) :
               turn_queue_'[k] = turn_queue_[IF k < p + 1 THEN k ELSE k + 1]
        /\ turn_queue_' = [k \in 1..(Len(turn_queue_) - 1) |->
                              turn_queue_[IF k < p + 1 THEN k ELSE k + 1]]
    <2> DEFINE i == p + 1
    <2>1. i \in 1..Len(turn_queue_)
      BY <1>2
    <2> HIDE DEF i
    <2>2. /\ RemoveAt(turn_queue_, i) \in Seq(Users)
          /\ Len(RemoveAt(turn_queue_, i)) = Len(turn_queue_) - 1
          /\ \A k \in 1..(Len(turn_queue_) - 1) :
                 RemoveAt(turn_queue_, i)[k] = turn_queue_[IF k < i THEN k ELSE k + 1]
          /\ RemoveAt(turn_queue_, i) =
               [k \in 1..(Len(turn_queue_) - 1) |->
                    turn_queue_[IF k < i THEN k ELSE k + 1]]
      BY <1>1, <2>1, RemoveAtElements
    <2> QED BY <2>2, <1>3, Zenon DEF i
  <1> USE DEF p
  <1> QED BY <1>1, <1>2, <1>4, Zenon

(* The positions that RemoveQueued leaves. *)
LEMMA RemoveQueuedPositions ==
    ASSUME TypeOK, PositionsMatchQueue, NEW u \in Users, IsQueued(u), RemoveQueued(u)
    PROVE  /\ turn_queue_position_' \in [Users -> Nat \cup {nullopt}]
           /\ PositionsMatchQueue'
  <1> DEFINE p == turn_queue_position_[u]
             pos == turn_queue_position_
             q == turn_queue_'
             behind == {q[j] : j \in (p + 1)..Len(q)}
  <1>1. /\ p \in 0..(Len(turn_queue_) - 1) /\ turn_queue_[p + 1] = u
        /\ q \in Seq(Users) /\ Len(q) = Len(turn_queue_) - 1
        /\ \A k \in 1..Len(q) : q[k] = turn_queue_[IF k < p + 1 THEN k ELSE k + 1]
    BY RemoveQueuedQueue, Zenon
  <1>a. ASSUME NEW k \in 1..Len(q), k <= p
        PROVE  q[k] = turn_queue_[k] /\ k \in 1..Len(turn_queue_)
    <2>1. k < p + 1 /\ k \in 1..Len(turn_queue_)
      BY <1>1, <1>a
    <2> QED BY <2>1, <1>1, Zenon
  <1>b. ASSUME NEW k \in 1..Len(q), k > p
        PROVE  q[k] = turn_queue_[k + 1] /\ k + 1 \in 1..Len(turn_queue_)
    <2>1. ~(k < p + 1) /\ k + 1 \in 1..Len(turn_queue_)
      BY <1>1, <1>b
    <2> QED BY <2>1, <1>1, Zenon
  <1>2. /\ turn_queue_ \in Seq(Users) /\ Len(turn_queue_) \in Nat
        /\ pos \in [Users -> Nat \cup {nullopt}]
        /\ \A i \in 1..Len(turn_queue_) : pos[turn_queue_[i]] = i - 1
        /\ \A v \in Users : pos[v] # nullopt =>
               pos[v] < Len(turn_queue_) /\ turn_queue_[pos[v] + 1] = v
    BY DEF TypeOK, PositionsMatchQueue, IsQueued
  <1>3. pos' = [v \in Users |-> IF v = u THEN nullopt
                                ELSE IF v \in behind THEN pos[v] - 1 ELSE pos[v]]
    BY DEF RemoveQueued, MovedUp
  <1>4. ASSUME NEW v \in Users, v # u
        PROVE  v \in behind <=> pos[v] # nullopt /\ pos[v] > p
    <2>1. ASSUME v \in behind PROVE pos[v] # nullopt /\ pos[v] > p
      <3>1. PICK j \in (p + 1)..Len(q) : v = q[j]
        BY <2>1
      <3>2. v = turn_queue_[j + 1] /\ j + 1 \in 1..Len(turn_queue_)
        <4>1. j \in 1..Len(q) /\ j > p
          BY <1>1
        <4> QED BY <3>1, <4>1, <1>b, Zenon
      <3>3. pos[v] = j
        BY <3>2, <1>2, <1>1
      <3> QED BY <3>3, <1>1 DEF nullopt
    <2>2. ASSUME pos[v] # nullopt, pos[v] > p PROVE v \in behind
      <3>1. pos[v] \in (p + 1)..Len(q) /\ turn_queue_[pos[v] + 1] = v
        BY <2>2, <1>1, <1>2
      <3>2. q[pos[v]] = v
        <4>1. pos[v] \in 1..Len(q) /\ pos[v] > p
          BY <3>1, <1>1
        <4> QED BY <3>1, <4>1, <1>b, Zenon
      <3> QED BY <3>1, <3>2
    <2> QED BY <2>1, <2>2
  <1>5. ASSUME NEW v \in Users, v # u
        PROVE  pos'[v] = IF pos[v] # nullopt /\ pos[v] > p THEN pos[v] - 1 ELSE pos[v]
    <2>1. pos'[v] = IF v \in behind THEN pos[v] - 1 ELSE pos[v]
      BY <1>3, <1>5, Zenon
    <2> QED BY <2>1, <1>4, <1>5, Zenon
  <1>6. pos'[u] = nullopt
    BY <1>3
  <1>7. pos' \in [Users -> Nat \cup {nullopt}]
    <2>1. \A v \in Users : pos'[v] \in Nat \cup {nullopt}
      BY <1>1, <1>2, <1>5, <1>6 DEF nullopt
    <2> QED BY <2>1, <1>3
  <1>8. ASSUME NEW i \in 1..Len(q)
        PROVE  pos'[q[i]] = i - 1
    <2>1. CASE i < p + 1
      <3>1. q[i] = turn_queue_[i] /\ i \in 1..Len(turn_queue_)
        <4>1. i <= p
          BY <2>1, <1>1
        <4> QED BY <4>1, <1>a, Zenon
      <3>2. pos[q[i]] = i - 1 /\ q[i] \in Users
        BY <3>1, <1>2
      <3>3. q[i] # u
        BY <3>2, <2>1, <1>1
      <3> QED BY <3>2, <3>3, <2>1, <1>5, <1>1
    <2>2. CASE ~(i < p + 1)
      <3>1. q[i] = turn_queue_[i + 1] /\ i + 1 \in 1..Len(turn_queue_)
        <4>1. i > p
          BY <2>2, <1>1
        <4> QED BY <4>1, <1>b, Zenon
      <3>2. pos[q[i]] = i /\ q[i] \in Users
        BY <3>1, <1>2
      <3>3. q[i] # u
        BY <3>2, <2>2, <1>1
      <3>4. ~(pos[q[i]] < p) /\ pos[q[i]] # nullopt
        BY <3>2, <2>2, <1>1 DEF nullopt
      <3> QED BY <3>2, <3>3, <3>4, <2>2, <1>5, <1>1 DEF nullopt
    <2> QED BY <2>1, <2>2
  <1>9. ASSUME NEW v \in Users, pos'[v] # nullopt
        PROVE  pos'[v] < Len(q) /\ q[pos'[v] + 1] = v
    <2>1. v # u /\ pos[v] # nullopt
      BY <1>5, <1>6, <1>9
    <2>2. pos[v] \in 0..(Len(turn_queue_) - 1) /\ turn_queue_[pos[v] + 1] = v
      BY <2>1, <1>2
    <2>3. pos[v] # p
      BY <2>1, <2>2, <1>1
    <2>4. CASE pos[v] > p
      <3>1. pos'[v] = pos[v] - 1
        BY <2>4, <2>1, <1>5
      <3>2. pos[v] \in 1..Len(q) /\ pos'[v] + 1 = pos[v] /\ pos'[v] < Len(q)
        BY <3>1, <2>2, <2>4, <1>1
      <3>3. q[pos[v]] = v
        BY <3>2, <2>2, <2>4, <1>b, Zenon
      <3> QED BY <3>2, <3>3, Zenon
    <2>5. CASE pos[v] < p
      <3>1. pos'[v] = pos[v]
        BY <2>5, <2>2, <2>1, <1>1, <1>5
      <3>2. pos[v] + 1 \in 1..Len(q) /\ pos[v] + 1 <= p /\ pos'[v] < Len(q)
        BY <3>1, <2>2, <2>5, <1>1
      <3>3. q[pos[v] + 1] = v
        BY <3>2, <2>2, <1>a, Zenon
      <3> QED BY <3>1, <3>2, <3>3, Zenon
    <2> QED BY <2>2, <2>3, <2>4, <2>5, <1>1
  <1> QED BY <1>7, <1>8, <1>9 DEF PositionsMatchQueue, IsQueued

(* The timer and the broadcast that RemoveQueued leaves: either the next   *)
(* turn starts, or somebody behind the current user left and nothing of    *)
(* the current turn changes.                                               *)
LEMMA RemoveQueuedTimer ==
    ASSUME TypeOK, PositionsMatchQueue, NEW u \in Users, IsQueued(u), RemoveQueued(u)
    PROVE  /\ turn_timer_' \in Timers
           /\ announced' \in Broadcasts
           /\ announced'.users = turn_queue_'
           /\ announced'.state = TurnState(turns_enabled, paused_time_)
           /\ turn_queue_' # << >> /\ paused_time_ = nullopt =>
                announced'.time = turn_timer_'.left
           /\ paused_time_ # nullopt => turn_timer_' = turn_timer_
           /\ turn_queue_' # << >> =>
                \/ paused_time_ = nullopt => turn_timer_'.user = Head(turn_queue_')
                \/ /\ turn_queue_ # << >> /\ Head(turn_queue_') = Head(turn_queue_)
                   /\ u # Head(turn_queue_)
                   /\ turn_timer_' = turn_timer_
           /\ paused_time_' = paused_time_ /\ turn_time_' = turn_time_
           /\ turns_enabled' = turns_enabled
           /\ turn_queue_' # << >> \/ turn_timer_' = turn_timer_
  <1> DEFINE p == turn_queue_position_[u]
  <1>1. /\ p \in 0..(Len(turn_queue_) - 1) /\ turn_queue_[p + 1] = u
        /\ turn_queue_' \in Seq(Users) /\ Len(turn_queue_') = Len(turn_queue_) - 1
        /\ \A k \in 1..Len(turn_queue_') :
               turn_queue_'[k] = turn_queue_[IF k < p + 1 THEN k ELSE k + 1]
    BY RemoveQueuedQueue, Zenon
  <1>2. /\ paused_time_' = paused_time_ /\ turn_time_' = turn_time_
        /\ turns_enabled' = turns_enabled
        /\ turn_timer_ \in Timers
        /\ turn_time_ \in Int /\ turn_timer_.left \in Int
    BY TurnConstants, TimerFields DEF RemoveQueued, TypeOK
  <1>3. CASE p = 0
    <2>1. UpdateCurrentTurn(turn_queue_', paused_time_, turn_timer_, turn_time_)
      BY <1>3 DEF RemoveQueued
    <2>2. /\ announced' \in Broadcasts
          /\ announced'.users = turn_queue_'
          /\ announced'.state = TurnState(turns_enabled, paused_time_)
          /\ turn_timer_' \in Timers
          /\ turn_queue_' # << >> => announced'.time = turn_time_
          /\ turn_queue_' # << >> /\ paused_time_ = nullopt =>
                turn_timer_'.user = Head(turn_queue_') /\ turn_timer_'.left = turn_time_
          /\ turn_queue_' = << >> \/ paused_time_ # nullopt => turn_timer_' = turn_timer_
      BY <2>1, <1>1, <1>2, UpdateCurrentTurnEffect, Zenon
    <2> QED BY <1>2, <2>2, Zenon
  <1>4. CASE p # 0
    <2>1. /\ BroadcastTurnQueue(turn_queue_', turns_enabled, paused_time_, turn_timer_.left)
          /\ turn_timer_' = turn_timer_
      BY <1>4 DEF RemoveQueued, GetTimeRemaining
    <2>2. /\ announced' \in Broadcasts
          /\ announced'.users = turn_queue_'
          /\ announced'.state = TurnState(turns_enabled, paused_time_)
          /\ announced'.time = turn_timer_.left
      BY <2>1, <1>1, <1>2, BroadcastTypeOK, Zenon
    <2>3. /\ 1 \in 1..Len(turn_queue_') /\ 1 < p + 1
          /\ turn_queue_ # << >> /\ turn_queue_ \in Seq(Users)
      BY <1>1, <1>4 DEF TypeOK
    <2>4. turn_queue_'[1] = turn_queue_[1]
      BY <2>3, <1>1, Zenon
    <2>5. Head(turn_queue_') = Head(turn_queue_) /\ Head(turn_queue_) = turn_queue_[1]
      BY <1>1, <2>3, <2>4
    <2>6. u # Head(turn_queue_)
      <3>1. turn_queue_position_[turn_queue_[1]] = 0
        BY <1>1, <2>3 DEF PositionsMatchQueue
      <3> QED BY <3>1, <2>5, <1>4
    <2> QED BY <1>2, <2>1, <2>2, <2>3, <2>5, <2>6, Zenon
  <1> QED BY <1>3, <1>4

(* The inductive invariant. PositionsMatchQueue is what makes erasing by   *)
(* position the removal of that user; without it neither the timer nor the *)
(* broadcast can be followed through RemoveUser.                           *)
TurnInv ==
    /\ TypeOK
    /\ PositionsMatchQueue
    /\ CurrentTurnIsTimed
    /\ NoWaitWhilePaused
    /\ NoTurnsWhileDisabled
    /\ ClientsSeeTheQueue

(* The empty queue satisfies the invariant. *)
LEMMA InitTurnInv == Init => TurnInv
  <1> SUFFICES ASSUME Init PROVE TurnInv
    OBVIOUS
  <1>1. TypeOK
    BY InitTypeOK
  <1>2. /\ turn_queue_ = << >> /\ paused_time_ = nullopt
        /\ turn_queue_position_ = [u \in Users |-> nullopt]
        /\ turn_timer_ = [user |-> NoUser, left |-> 0]
        /\ announced = [users |-> << >>, state |-> "NONE", time |-> 0]
    BY DEF Init
  <1>3. PositionsMatchQueue
    BY <1>2 DEF PositionsMatchQueue, IsQueued
  <1>4. ClientsSeeTheQueue
    <2>1. announced.users = << >>
      BY <1>2, Zenon
    <2> QED BY <1>2, <2>1, Zenon DEF ClientsSeeTheQueue, IsPaused
  <1>5. NoTurnsWhileDisabled
    <2>1. turn_timer_.user = NoUser
      BY <1>2, Zenon
    <2> QED BY <1>2, <2>1 DEF NoTurnsWhileDisabled
  <1> QED BY <1>1, <1>2, <1>3, <1>4, <1>5
          DEF TurnInv, CurrentTurnIsTimed, NoWaitWhilePaused, IsPaused

(* Whoever removes a queued user, the handlers left are the ones before,   *)
(* or one less that was for this very user.                                *)
LEMMA RemoveQueuedKeepsInv ==
    ASSUME TurnInv, NEW u \in Users, IsQueued(u), RemoveQueued(u),
           completed' \in Seq(Users),
           \A v \in ToSet(completed) : v # u => v \in ToSet(completed')
    PROVE  TurnInv'
  <1>1. /\ TypeOK /\ PositionsMatchQueue /\ CurrentTurnIsTimed
        /\ NoWaitWhilePaused /\ NoTurnsWhileDisabled /\ ClientsSeeTheQueue
    BY DEF TurnInv
  <1>2. /\ turn_queue_' \in Seq(Users)
        /\ turn_queue_position_' \in [Users -> Nat \cup {nullopt}]
        /\ PositionsMatchQueue'
    BY <1>1, RemoveQueuedQueue, RemoveQueuedPositions, Zenon
  <1>3. /\ turn_timer_' \in Timers
        /\ announced' \in Broadcasts
        /\ announced'.users = turn_queue_'
        /\ announced'.state = TurnState(turns_enabled, paused_time_)
        /\ turn_queue_' # << >> /\ paused_time_ = nullopt =>
                announced'.time = turn_timer_'.left
        /\ paused_time_ # nullopt => turn_timer_' = turn_timer_
        /\ turn_queue_' # << >> =>
                \/ paused_time_ = nullopt => turn_timer_'.user = Head(turn_queue_')
                \/ /\ turn_queue_ # << >> /\ Head(turn_queue_') = Head(turn_queue_)
                   /\ u # Head(turn_queue_)
                   /\ turn_timer_' = turn_timer_
        /\ paused_time_' = paused_time_ /\ turn_time_' = turn_time_
        /\ turns_enabled' = turns_enabled
        /\ turn_queue_' # << >> \/ turn_timer_' = turn_timer_
    BY <1>1, RemoveQueuedTimer, Zenon
  <1>4. TypeOK'
    BY <1>1, <1>2, <1>3, Zenon DEF TypeOK
  <1>5. CurrentTurnIsTimed'
    BY <1>1, <1>3, Zenon DEF CurrentTurnIsTimed, IsPaused
  <1>6. NoWaitWhilePaused'
    BY <1>1, <1>3, Zenon DEF NoWaitWhilePaused, IsPaused
  <1>7. ClientsSeeTheQueue'
    BY <1>3, Zenon DEF ClientsSeeTheQueue, IsPaused
  <1>8. turn_queue_ # << >>
    <2>1. turn_queue_position_[u] \in 0..(Len(turn_queue_) - 1)
      BY <1>1, RemoveQueuedQueue, Zenon
    <2> QED BY <2>1
  <1>9. NoTurnsWhileDisabled'
    BY <1>1, <1>3, <1>8, Zenon DEF NoTurnsWhileDisabled
  <1> QED BY <1>2, <1>4, <1>5, <1>6, <1>7, <1>9 DEF TurnInv

(* RequestTurn adds an unqueued user at the end, or does nothing. *)
LEMMA RequestTurnKeepsInv ==
    ASSUME TurnInv, NEW u \in Users, RequestTurn(u)
    PROVE  TurnInv'
  <1> DEFINE q == Append(turn_queue_, u)
  <1>1. /\ TypeOK /\ PositionsMatchQueue /\ CurrentTurnIsTimed
        /\ NoWaitWhilePaused /\ NoTurnsWhileDisabled /\ ClientsSeeTheQueue
    BY DEF TurnInv
  <1>2. /\ turn_queue_' = q /\ ~IsQueued(u)
        /\ turn_queue_position_' = [turn_queue_position_ EXCEPT ![u] = Len(q) - 1]
        /\ paused_time_' = paused_time_ /\ turn_time_' = turn_time_
        /\ turns_enabled /\ turns_enabled' = turns_enabled
        /\ completed' = completed
    BY DEF RequestTurn
  <1>3. /\ turn_queue_ \in Seq(Users) /\ q \in Seq(Users)
        /\ q # << >> /\ Len(q) = Len(turn_queue_) + 1
        /\ \A k \in 1..Len(turn_queue_) : q[k] = turn_queue_[k]
        /\ q[Len(turn_queue_) + 1] = u
        /\ turn_time_ \in Int /\ turn_timer_.left \in Int
        /\ turn_timer_ \in Timers
    <2>1. turn_queue_ \in Seq(Users)
      BY <1>1 DEF TypeOK
    <2>2. /\ q \in Seq(Users) /\ q # << >> /\ Len(q) = Len(turn_queue_) + 1
          /\ q[Len(turn_queue_) + 1] = u
      BY <2>1
    <2>3. \A k \in 1..Len(turn_queue_) : q[k] = turn_queue_[k]
      BY <2>1
    <2>4. turn_timer_ \in Timers
      BY <1>1 DEF TypeOK
    <2>5. turn_timer_.left \in Int
      BY <2>4, TimerFields
    <2>6. turn_time_ \in Int
      BY <1>1, TurnConstants DEF TypeOK
    <2> QED BY <2>1, <2>2, <2>3, <2>4, <2>5, <2>6
  <1>4. turn_queue_position_' \in [Users -> Nat \cup {nullopt}]
    BY <1>1, <1>2, <1>3 DEF TypeOK
  <1> HIDE DEF q
  <1>5. PositionsMatchQueue'
    <2>1. ASSUME NEW k \in 1..Len(q) PROVE turn_queue_position_'[q[k]] = k - 1
      <3>1. CASE k = Len(q)
        BY <3>1, <1>1, <1>2, <1>3 DEF TypeOK
      <3>2. CASE k # Len(q)
        <4>1. k \in 1..Len(turn_queue_) /\ q[k] = turn_queue_[k] /\ q[k] \in Users
          BY <3>2, <1>3
        <4>2. turn_queue_position_[q[k]] = k - 1 /\ q[k] # u
          BY <4>1, <1>1, <1>2 DEF PositionsMatchQueue, IsQueued, nullopt
        <4> QED BY <4>1, <4>2, <1>1, <1>2 DEF TypeOK
      <3> QED BY <3>1, <3>2
    <2>2. ASSUME NEW v \in Users, turn_queue_position_'[v] # nullopt
          PROVE  /\ turn_queue_position_'[v] < Len(q)
                 /\ q[turn_queue_position_'[v] + 1] = v
      <3>1. CASE v = u
        BY <3>1, <1>1, <1>2, <1>3 DEF TypeOK
      <3>2. CASE v # u
        <4>1. turn_queue_position_'[v] = turn_queue_position_[v]
          BY <3>2, <1>1, <1>2 DEF TypeOK
        <4>2. /\ turn_queue_position_[v] \in Nat
              /\ turn_queue_position_[v] < Len(turn_queue_)
              /\ turn_queue_[turn_queue_position_[v] + 1] = v
          BY <2>2, <4>1, <1>1 DEF PositionsMatchQueue, IsQueued, TypeOK, nullopt
        <4>3. turn_queue_position_[v] + 1 \in 1..Len(turn_queue_)
          BY <4>2, <1>3
        <4>4. q[turn_queue_position_[v] + 1] = v
          BY <4>2, <4>3, <1>3, Zenon
        <4>5. turn_queue_position_[v] < Len(q)
          BY <4>2, <1>3
        <4> QED BY <4>1, <4>4, <4>5, Zenon
      <3> QED BY <3>1, <3>2, Zenon
    <2> QED BY <2>1, <2>2, <1>2 DEF PositionsMatchQueue, IsQueued
  <1>6. CASE Len(q) = 1
    <2>1. UpdateCurrentTurn(q, paused_time_, turn_timer_, turn_time_)
      BY <1>6 DEF RequestTurn, q
    <2>2. /\ announced' \in Broadcasts
          /\ announced'.users = q
          /\ announced'.state = TurnState(turns_enabled, paused_time_)
          /\ turn_timer_' \in Timers
          /\ q # << >> => announced'.time = turn_time_
          /\ q # << >> /\ paused_time_ = nullopt =>
                turn_timer_'.user = Head(q) /\ turn_timer_'.left = turn_time_
          /\ q = << >> \/ paused_time_ # nullopt => turn_timer_' = turn_timer_
      BY <2>1, <1>3, UpdateCurrentTurnEffect, Zenon
    <2>3. TypeOK'
      BY <1>1, <1>2, <1>3, <1>4, <2>2, Zenon DEF TypeOK
    <2> QED BY <1>1, <1>2, <1>3, <1>5, <2>2, <2>3, Zenon
            DEF TurnInv, CurrentTurnIsTimed, NoWaitWhilePaused, NoTurnsWhileDisabled,
              ClientsSeeTheQueue, IsPaused
  <1>7. CASE Len(q) # 1
    <2>1. /\ BroadcastTurnQueue(q, turns_enabled, paused_time_, turn_timer_.left)
          /\ turn_timer_' = turn_timer_
      BY <1>7 DEF RequestTurn, GetTimeRemaining, q
    <2>2. /\ announced' \in Broadcasts
          /\ announced'.users = q
          /\ announced'.state = TurnState(turns_enabled, paused_time_)
          /\ announced'.time = turn_timer_.left
      BY <2>1, <1>3, BroadcastTypeOK, Zenon
    <2>3. TypeOK'
      BY <1>1, <1>2, <1>3, <1>4, <2>1, <2>2, Zenon DEF TypeOK
    <2>4. turn_queue_ # << >> /\ Head(q) = Head(turn_queue_)
      BY <1>3, <1>7
    <2> QED BY <1>1, <1>2, <1>5, <2>1, <2>2, <2>3, <2>4, Zenon
            DEF TurnInv, CurrentTurnIsTimed, NoWaitWhilePaused, NoTurnsWhileDisabled,
              ClientsSeeTheQueue, IsPaused
  <1> QED BY <1>6, <1>7

(* PauseTurnTimer cancels the wait and tells the clients. *)
LEMMA PauseKeepsInv == TurnInv /\ PauseTurnTimer => TurnInv'
  <1> SUFFICES ASSUME TurnInv, PauseTurnTimer PROVE TurnInv'
    OBVIOUS
  <1> DEFINE time == IF turn_timer_.user # NoUser /\ turn_timer_.left > 0
                     THEN turn_timer_.left ELSE turn_time_
  <1>1. TypeOK /\ PositionsMatchQueue /\ turns_enabled
    BY DEF TurnInv, PauseTurnTimer
  <1>2. /\ turn_queue_ \in Seq(Users) /\ time \in Nat /\ time \in Int
        /\ Cancelled(turn_timer_) \in Timers
        /\ Cancelled(turn_timer_).user = NoUser
    <2>1. turn_timer_.left \in Int /\ turn_time_ \in Nat
      BY <1>1, TurnConstants, TimerFields DEF TypeOK
    <2>2. time \in Nat
      BY <2>1
    <2> QED BY <1>1, <2>2, TimerFields DEF TypeOK
  <1>3. /\ paused_time_' = time
        /\ UpdateCurrentTurn(turn_queue_, time, Cancelled(turn_timer_), time)
        /\ UNCHANGED <<turn_queue_, turn_queue_position_, turn_time_, turns_enabled,
                       completed>>
    BY DEF PauseTurnTimer, GetTimeRemaining
  <1> HIDE DEF time
  <1>4. time # nullopt
    BY <1>2 DEF nullopt
  <1>5. /\ announced' \in Broadcasts
        /\ announced'.users = turn_queue_
        /\ announced'.state = TurnState(turns_enabled, time)
        /\ turn_timer_' = Cancelled(turn_timer_)
    <2> DEFINE timer == Cancelled(turn_timer_)
    <2>1. timer \in Timers /\ UpdateCurrentTurn(turn_queue_, time, timer, time)
      BY <1>2, <1>3
    <2> HIDE DEF timer
    <2>2. /\ announced' \in Broadcasts
          /\ announced'.users = turn_queue_
          /\ announced'.state = TurnState(turns_enabled, time)
          /\ turn_queue_ = << >> \/ time # nullopt => turn_timer_' = timer
      BY <1>2, <2>1, UpdateCurrentTurnEffect, Zenon
    <2> QED BY <1>4, <2>2, Zenon DEF timer
  <1>6. TypeOK'
    BY <1>1, <1>2, <1>3, <1>5, Zenon DEF TypeOK
  <1>7. PositionsMatchQueue'
    BY <1>1, <1>3 DEF PositionsMatchQueue, IsQueued
  <1> QED BY <1>1, <1>2, <1>3, <1>4, <1>5, <1>6, <1>7, Zenon
          DEF TurnInv, CurrentTurnIsTimed, NoWaitWhilePaused, NoTurnsWhileDisabled,
              ClientsSeeTheQueue, IsPaused

(* ResumeTurnTimer starts the wait again for whoever is first. *)
LEMMA ResumeKeepsInv == TurnInv /\ ResumeTurnTimer => TurnInv'
  <1> SUFFICES ASSUME TurnInv, ResumeTurnTimer PROVE TurnInv'
    OBVIOUS
  <1>1. TypeOK /\ PositionsMatchQueue /\ NoWaitWhilePaused /\ turns_enabled
    BY DEF TurnInv, ResumeTurnTimer
  <1>2. /\ paused_time_ \in Int /\ paused_time_' = nullopt
        /\ UpdateCurrentTurn(turn_queue_, nullopt, turn_timer_, paused_time_)
        /\ UNCHANGED <<turn_queue_, turn_queue_position_, turn_time_, turns_enabled,
                       completed>>
    BY <1>1 DEF ResumeTurnTimer, TypeOK, IsPaused
  <1>3. /\ turn_queue_ \in Seq(Users)
        /\ turn_timer_ \in Timers
    BY <1>1 DEF TypeOK
  <1>4. /\ announced' \in Broadcasts
        /\ announced'.users = turn_queue_
        /\ announced'.state = TurnState(turns_enabled, nullopt)
        /\ turn_timer_' \in Timers
        /\ turn_queue_ # << >> => announced'.time = paused_time_
        /\ turn_queue_ # << >> /\ nullopt = nullopt =>
              turn_timer_'.user = Head(turn_queue_) /\ turn_timer_'.left = paused_time_
    BY <1>2, <1>3, UpdateCurrentTurnEffect, Zenon
  <1>5. TypeOK'
    BY <1>1, <1>2, <1>3, <1>4, Zenon DEF TypeOK
  <1>6. PositionsMatchQueue'
    BY <1>1, <1>2 DEF PositionsMatchQueue, IsQueued
  <1> QED BY <1>1, <1>2, <1>4, <1>5, <1>6, Zenon
          DEF TurnInv, CurrentTurnIsTimed, NoWaitWhilePaused, NoTurnsWhileDisabled,
              ClientsSeeTheQueue, IsPaused

(* Clear forgets positions and timer together with the queue; otherwise    *)
(* new settings only change the time of the next turns.                    *)
LEMMA ApplySettingsKeepsInv ==
    ASSUME TurnInv, NEW enabled \in BOOLEAN, NEW time \in TurnTimes,
           ApplySettings(enabled, time)
    PROVE  TurnInv'
  <1>1. /\ TypeOK /\ PositionsMatchQueue /\ CurrentTurnIsTimed
        /\ NoWaitWhilePaused /\ NoTurnsWhileDisabled /\ ClientsSeeTheQueue
    BY DEF TurnInv
  <1>2. /\ turn_time_' = time /\ turns_enabled' = enabled
        /\ UNCHANGED <<paused_time_, completed>>
    BY DEF ApplySettings
  <1>3. CASE turns_enabled /\ ~enabled
    <2>1. /\ turn_timer_' = Cancelled(turn_timer_)
          /\ turn_queue_' = << >>
          /\ turn_queue_position_' =
               [u \in Users |-> IF u \in ToSet(turn_queue_) THEN nullopt
                                ELSE turn_queue_position_[u]]
          /\ IF turn_queue_ # << >>
             THEN BroadcastTurnQueue(<< >>, FALSE, paused_time_, 0)
             ELSE UNCHANGED announced
      BY <1>3 DEF ApplySettings, Clear
    <2>2. /\ Cancelled(turn_timer_) \in Timers
          /\ Cancelled(turn_timer_).user = NoUser
          /\ << >> \in Seq(Users) /\ 0 \in Int
      BY <1>1, TimerFields DEF TypeOK
    <2>3. \A u \in Users : turn_queue_position_'[u] = nullopt
      <3> SUFFICES ASSUME NEW u \in Users, u \notin ToSet(turn_queue_)
                   PROVE  turn_queue_position_[u] = nullopt
        BY <2>1
      <3>1. \A i \in 1..Len(turn_queue_) : turn_queue_[i] # u
        BY <1>1 DEF ToSet, TypeOK
      <3> QED BY <3>1, <1>1 DEF PositionsMatchQueue, IsQueued, TypeOK
    <2>4. PositionsMatchQueue'
      BY <2>1, <2>3 DEF PositionsMatchQueue, IsQueued
    <2>5. announced' \in Broadcasts /\ announced'.users = << >>
      <3>1. CASE turn_queue_ # << >>
        <4>1. BroadcastTurnQueue(<< >>, FALSE, paused_time_, 0)
          BY <2>1, <3>1
        <4> QED BY <4>1, <2>2, BroadcastTypeOK, Zenon
      <3>2. CASE turn_queue_ = << >>
        BY <2>1, <3>2, <1>1, Zenon DEF TypeOK, ClientsSeeTheQueue
      <3> QED BY <3>1, <3>2
    <2>6. turn_queue_position_' \in [Users -> Nat \cup {nullopt}]
      BY <2>1, <2>3
    <2>7. TypeOK'
      BY <1>1, <1>2, <2>1, <2>2, <2>5, <2>6, Zenon DEF TypeOK
    <2> QED BY <1>2, <1>3, <2>1, <2>2, <2>4, <2>5, <2>7, Zenon
            DEF TurnInv, CurrentTurnIsTimed, NoWaitWhilePaused, NoTurnsWhileDisabled,
                ClientsSeeTheQueue, IsPaused
  <1>4. CASE ~(turns_enabled /\ ~enabled)
    <2>1. UNCHANGED <<turn_queue_, turn_queue_position_, turn_timer_, announced>>
      BY <1>4, Zenon DEF ApplySettings
    <2>2. turn_queue_ # << >> => turns_enabled
      BY <1>1 DEF NoTurnsWhileDisabled
    <2>3. turn_queue_ # << >> => (turns_enabled' <=> turns_enabled)
      BY <1>2, <1>4, <2>2
    <2>4. turn_queue_ # << >> =>
             TurnState(turns_enabled, paused_time_)' = TurnState(turns_enabled, paused_time_)
      BY <1>2, <1>4, <2>2, Zenon DEF TurnState
    <2>5. TypeOK' /\ PositionsMatchQueue'
      BY <1>1, <1>2, <2>1, Zenon DEF TypeOK, PositionsMatchQueue, IsQueued
    <2>6. NoTurnsWhileDisabled'
      BY <1>1, <1>2, <1>4, <2>1, Zenon DEF NoTurnsWhileDisabled
    <2>7. ClientsSeeTheQueue'
      BY <1>1, <1>2, <2>1, <2>4, Zenon DEF ClientsSeeTheQueue, IsPaused
    <2>8. CurrentTurnIsTimed' /\ NoWaitWhilePaused'
      BY <1>1, <1>2, <2>1, Zenon DEF CurrentTurnIsTimed, NoWaitWhilePaused, IsPaused
    <2> QED BY <2>5, <2>6, <2>7, <2>8 DEF TurnInv
  <1> QED BY <1>3, <1>4

(* A second passes. *)
LEMMA TickKeepsInv == TurnInv /\ Tick => TurnInv'
  <1> SUFFICES ASSUME TurnInv, Tick PROVE TurnInv'
    OBVIOUS
  <1>1. /\ TypeOK /\ PositionsMatchQueue /\ CurrentTurnIsTimed
        /\ NoWaitWhilePaused /\ NoTurnsWhileDisabled /\ ClientsSeeTheQueue
    BY DEF TurnInv
  <1>2. UNCHANGED <<turn_queue_, turn_queue_position_, paused_time_, turn_time_,
                    turns_enabled, completed>>
    BY DEF Tick
  <1>3. /\ turn_timer_' \in Timers
        /\ turn_timer_'.user = turn_timer_.user
        /\ turn_timer_'.left = turn_timer_.left - 1
    <2>1. /\ turn_timer_ \in Timers
          /\ turn_timer_' = [turn_timer_ EXCEPT !.left = @ - 1]
      BY <1>1, Zenon DEF TypeOK, Tick
    <2>2. turn_timer_.left - 1 \in Int
      BY <2>1, TimerFields
    <2> QED BY <2>1, <2>2, Zenon DEF Timers
  <1>4. announced \in Broadcasts /\ announced.time - 1 \in Int
    BY <1>1 DEF TypeOK, Broadcasts
  <1>5. /\ announced' \in Broadcasts
        /\ announced'.users = announced.users
        /\ announced'.state = announced.state
        /\ announced.state = "ENABLED" => announced'.time = announced.time - 1
    <2>1. announced' = IF announced.state = "ENABLED"
                       THEN [announced EXCEPT !.time = @ - 1] ELSE announced
      BY DEF Tick
    <2> QED BY <1>4, <2>1, Zenon DEF Broadcasts
  <1>6. turn_queue_ # << >> /\ ~IsPaused => announced.state = "ENABLED"
    BY <1>1 DEF ClientsSeeTheQueue, NoTurnsWhileDisabled, TurnState, IsPaused
  <1>7. turn_queue_ # << >> /\ ~IsPaused => announced'.time = turn_timer_'.left
    BY <1>1, <1>3, <1>5, <1>6 DEF ClientsSeeTheQueue
  <1>8. TypeOK'
    BY <1>1, <1>2, <1>3, <1>5, Zenon DEF TypeOK
  <1>9. PositionsMatchQueue'
    BY <1>1, <1>2 DEF PositionsMatchQueue, IsQueued
  <1> QED BY <1>1, <1>2, <1>3, <1>5, <1>7, <1>8, <1>9, Zenon
          DEF TurnInv, CurrentTurnIsTimed, NoWaitWhilePaused, NoTurnsWhileDisabled,
              ClientsSeeTheQueue, IsPaused

(* The wait becomes a queued handler, which times the turn from then on. *)
LEMMA WaitCompletesKeepsInv == TurnInv /\ WaitCompletes => TurnInv'
  <1> SUFFICES ASSUME TurnInv, WaitCompletes PROVE TurnInv'
    OBVIOUS
  <1>1. /\ TypeOK /\ PositionsMatchQueue /\ CurrentTurnIsTimed
        /\ NoWaitWhilePaused /\ NoTurnsWhileDisabled /\ ClientsSeeTheQueue
    BY DEF TurnInv
  <1>2. /\ turn_timer_.user # NoUser
        /\ completed' = Append(completed, turn_timer_.user)
        /\ turn_timer_' = Cancelled(turn_timer_)
        /\ UNCHANGED <<turn_queue_, turn_queue_position_, paused_time_, turn_time_,
                       turns_enabled, announced>>
    BY DEF WaitCompletes
  <1>3. /\ Cancelled(turn_timer_) \in Timers
        /\ Cancelled(turn_timer_).user = NoUser
        /\ Cancelled(turn_timer_).left = turn_timer_.left
        /\ turn_timer_.user \in Users /\ completed \in Seq(Users)
    BY <1>1, <1>2, TimerFields DEF TypeOK
  <1>4. /\ completed' \in Seq(Users)
        /\ turn_timer_.user \in ToSet(completed')
        /\ ToSet(completed) \subseteq ToSet(completed')
    <2>1. /\ completed' \in Seq(Users) /\ Len(completed') = Len(completed) + 1
          /\ completed'[Len(completed) + 1] = turn_timer_.user
          /\ \A k \in 1..Len(completed) : completed'[k] = completed[k]
      BY <1>2, <1>3
    <2> QED BY <2>1, <1>3 DEF ToSet
  <1>5. TypeOK'
    BY <1>1, <1>2, <1>3, <1>4, Zenon DEF TypeOK
  <1>6. PositionsMatchQueue'
    BY <1>1, <1>2 DEF PositionsMatchQueue, IsQueued
  <1> QED BY <1>1, <1>2, <1>3, <1>4, <1>5, <1>6, Zenon
          DEF TurnInv, CurrentTurnIsTimed, NoWaitWhilePaused, NoTurnsWhileDisabled,
              ClientsSeeTheQueue, IsPaused

(* The handler, stale or not, removes its user if it is still queued. *)
LEMMA HandlerKeepsInv == TurnInv /\ TurnTimerHandler => TurnInv'
  <1> SUFFICES ASSUME TurnInv, TurnTimerHandler PROVE TurnInv'
    OBVIOUS
  <1> DEFINE u == Head(completed)
  <1>1. /\ TypeOK /\ PositionsMatchQueue /\ CurrentTurnIsTimed
        /\ NoWaitWhilePaused /\ NoTurnsWhileDisabled /\ ClientsSeeTheQueue
    BY DEF TurnInv
  <1>2. /\ u \in Users /\ completed' \in Seq(Users)
        /\ \A v \in ToSet(completed) : v # u => v \in ToSet(completed')
    <2>1. /\ completed # << >> /\ completed' = Tail(completed)
          /\ completed \in Seq(Users)
      BY <1>1 DEF TurnTimerHandler, TypeOK
    <2>2. /\ Tail(completed) \in Seq(Users)
          /\ Len(Tail(completed)) = Len(completed) - 1
          /\ u = completed[1] /\ u \in Users
          /\ \A k \in 1..(Len(completed) - 1) : Tail(completed)[k] = completed[k + 1]
      BY <2>1
    <2>3. ASSUME NEW v \in ToSet(completed), v # u PROVE v \in ToSet(completed')
      <3>1. PICK k \in 1..Len(completed) : v = completed[k]
        BY <2>1 DEF ToSet
      <3>2. k - 1 \in 1..(Len(completed) - 1) /\ (k - 1) + 1 = k
        BY <3>1, <2>1, <2>2, <2>3
      <3>3. Tail(completed)[k - 1] = v
        BY <3>1, <3>2, <2>2
      <3>4. DOMAIN Tail(completed) = 1..(Len(completed) - 1)
        BY <2>2, LenProperties
      <3> QED BY <2>1, <3>2, <3>3, <3>4, Zenon DEF ToSet
    <2> QED BY <2>1, <2>2, <2>3
  <1>3. CASE IsQueued(u)
    <2>1. RemoveQueued(u)
      BY <1>3 DEF TurnTimerHandler
    <2> QED BY <1>2, <1>3, <2>1, RemoveQueuedKeepsInv
  <1>4. CASE ~IsQueued(u)
    <2>1. UNCHANGED <<turn_queue_, turn_queue_position_, paused_time_, turn_time_,
                      turns_enabled, turn_timer_, announced>>
      BY <1>4 DEF TurnTimerHandler
    <2>2. turn_queue_ # << >> => Head(turn_queue_) # u
      <3> SUFFICES ASSUME turn_queue_ # << >> PROVE Head(turn_queue_) # u
        OBVIOUS
      <3>1. 1 \in 1..Len(turn_queue_) /\ Head(turn_queue_) = turn_queue_[1]
        BY <1>1 DEF TypeOK
      <3>2. turn_queue_position_[turn_queue_[1]] = 0
        BY <3>1, <1>1 DEF PositionsMatchQueue
      <3> QED BY <3>1, <3>2, <1>4 DEF IsQueued, nullopt
    <2>3. TypeOK'
      BY <1>1, <1>2, <2>1, Zenon DEF TypeOK
    <2>4. PositionsMatchQueue'
      BY <1>1, <2>1 DEF PositionsMatchQueue, IsQueued
    <2> QED BY <1>1, <1>2, <2>1, <2>2, <2>3, <2>4, Zenon
            DEF TurnInv, CurrentTurnIsTimed, NoWaitWhilePaused, NoTurnsWhileDisabled,
              ClientsSeeTheQueue, IsPaused
  <1> QED BY <1>3, <1>4

(* No step leaves the invariant. *)
LEMMA NextTurnInv == TurnInv /\ [Next]_vars => TurnInv'
  <1> SUFFICES ASSUME TurnInv, [Next]_vars PROVE TurnInv'
    OBVIOUS
  <1>1. ASSUME NEW u \in Users, RequestTurn(u) PROVE TurnInv'
    BY <1>1, RequestTurnKeepsInv
  <1>2. ASSUME NEW u \in Users, RemoveUser(u) PROVE TurnInv'
    <2>1. IsQueued(u) /\ RemoveQueued(u) /\ completed' = completed
      BY <1>2 DEF RemoveUser
    <2>2. completed \in Seq(Users)
      BY DEF TurnInv, TypeOK
    <2> QED BY <2>1, <2>2, RemoveQueuedKeepsInv, Zenon
  <1>3. ASSUME NEW enabled \in BOOLEAN, NEW time \in TurnTimes, ApplySettings(enabled, time)
        PROVE  TurnInv'
    BY <1>3, ApplySettingsKeepsInv
  <1>4. CASE PauseTurnTimer
    BY <1>4, PauseKeepsInv
  <1>5. CASE ResumeTurnTimer
    BY <1>5, ResumeKeepsInv
  <1>6. CASE EndCurrentTurn
    <2> DEFINE u == Head(turn_queue_)
    <2>1. /\ IsQueued(u) /\ RemoveQueued(u) /\ completed' = completed
          /\ turn_queue_ # << >>
      BY <1>6 DEF EndCurrentTurn
    <2>2. completed \in Seq(Users) /\ u \in Users
      BY <2>1, HeadTailProperties DEF TurnInv, TypeOK
    <2> QED BY <2>1, <2>2, RemoveQueuedKeepsInv, Zenon
  <1>8. CASE Tick
    BY <1>8, TickKeepsInv
  <1>9. CASE WaitCompletes
    BY <1>9, WaitCompletesKeepsInv
  <1>10. CASE TurnTimerHandler
    BY <1>10, HandlerKeepsInv
  <1>11. CASE UNCHANGED vars
    BY <1>11, Zenon DEF vars, TurnInv, TypeOK, PositionsMatchQueue, CurrentTurnIsTimed,
               NoWaitWhilePaused, NoTurnsWhileDisabled, ClientsSeeTheQueue, TurnState,
               IsQueued, IsPaused
  <1> QED BY <1>1, <1>2, <1>3, <1>4, <1>5, <1>6, <1>8, <1>9, <1>10, <1>11 DEF Next
-----------------------------------------------------------------------------
(* Every state of a VM's turn controller is well typed, positions match    *)
(* the queue, the current turn is timed unless paused, no wait is pending  *)
(* while paused, nobody waits while disabled, and clients see the queue.   *)
THEOREM TurnInvariant == Spec => []TurnInv
  <1>1. Init => TurnInv
    BY InitTurnInv
  <1>2. TurnInv /\ [Next]_vars => TurnInv'
    BY NextTurnInv
  <1> QED BY <1>1, <1>2, PTL DEF Spec

(* For every number of clients, RemoveUser erases the user it was called   *)
(* for (the position each client carries is its place in turn_queue_),     *)
(* nobody keeps an unpaused VM without a timer that will end the turn, and *)
(* a paused turn is not ended by its timer.                                *)
THEOREM TurnQueueInvariant == Spec => []TurnQueueInv
  BY TurnInvariant, PTL DEF TurnInv, TurnQueueInv

(* vmTurnInfo, as last broadcast, names the queue in every state, and to   *)
(* whoever waits it tells whether the turns are paused and, while they     *)
(* run, the time that is left of the timer.                                *)
THEOREM TurnBroadcasts == Spec => []ClientsSeeTheQueue
  BY TurnInvariant, PTL DEF TurnInv
-----------------------------------------------------------------------------
(* For the abstract queue, removing a user is Leave. *)
LEMMA RemoveQueuedLeaves ==
    ASSUME TurnInv, NEW u \in Users, IsQueued(u), RemoveQueued(u)
    PROVE  TurnOrder!Leave
  <1> DEFINE i == turn_queue_position_[u] + 1
  <1>1. /\ turn_queue_position_[u] \in 0..(Len(turn_queue_) - 1)
        /\ turn_queue_' = [k \in 1..(Len(turn_queue_) - 1) |->
                              turn_queue_[IF k < i THEN k ELSE k + 1]]
    BY RemoveQueuedQueue, Zenon DEF TurnInv
  <1>2. turn_queue_ \in Seq(Users)
    BY DEF TurnInv, TypeOK
  <1>3. i \in 1..Len(turn_queue_)
    BY <1>1, <1>2
  <1> QED BY <1>1, <1>3, Zenon DEF TurnOrder!Leave

(* The controller with its positions, timer and pause implements the plain *)
(* first come, first served queue.                                         *)
THEOREM TurnRefinement == Spec => ImplementsTurnQueue
  <1>1. Init => TurnOrder!Init
    BY DEF Init, TurnOrder!Init
  <1>2. TurnInv /\ [Next]_vars => [TurnOrder!Next]_turn_queue_
    <2> SUFFICES ASSUME TurnInv, [Next]_vars PROVE TurnOrder!Next \/ turn_queue_' = turn_queue_
      BY Zenon
    <2>1. ASSUME NEW u \in Users, RequestTurn(u) PROVE TurnOrder!Join
      <3>1. ASSUME NEW i \in 1..Len(turn_queue_) PROVE turn_queue_[i] # u
        <4>1. turn_queue_position_[turn_queue_[i]] = i - 1
          BY DEF TurnInv, PositionsMatchQueue
        <4>2. Len(turn_queue_) \in Nat
          BY DEF TurnInv, TypeOK
        <4> QED BY <4>1, <4>2, <2>1 DEF RequestTurn, IsQueued, nullopt
      <3>2. turn_queue_' = Append(turn_queue_, u)
        BY <2>1, Zenon DEF RequestTurn
      <3> QED BY <3>1, <3>2, Zenon DEF TurnOrder!Join
    <2>2. ASSUME NEW u \in Users, RemoveUser(u) PROVE TurnOrder!Leave
      BY <2>2, RemoveQueuedLeaves DEF RemoveUser
    <2>3. CASE EndCurrentTurn
      <3>1. /\ turn_queue_ # << >> /\ IsQueued(Head(turn_queue_))
            /\ RemoveQueued(Head(turn_queue_))
        BY <2>3 DEF EndCurrentTurn
      <3>2. Head(turn_queue_) \in Users
        BY <3>1, HeadTailProperties DEF TurnInv, TypeOK
      <3> QED BY <3>1, <3>2, RemoveQueuedLeaves DEF TurnOrder!Next
    <2>4. CASE TurnTimerHandler
      <3>1. CASE IsQueued(Head(completed))
        <4>1. RemoveQueued(Head(completed)) /\ completed # << >>
          BY <2>4, <3>1 DEF TurnTimerHandler
        <4>2. Head(completed) \in Users
          BY <4>1, HeadTailProperties DEF TurnInv, TypeOK
        <4> QED BY <3>1, <4>1, <4>2, RemoveQueuedLeaves DEF TurnOrder!Next
      <3>2. CASE ~IsQueued(Head(completed))
        BY <2>4, <3>2 DEF TurnTimerHandler
      <3> QED BY <3>1, <3>2
    <2>5. ASSUME NEW enabled \in BOOLEAN, NEW time \in TurnTimes,
                 ApplySettings(enabled, time)
          PROVE  TurnOrder!Next \/ turn_queue_' = turn_queue_
      BY <2>5 DEF ApplySettings, Clear, TurnOrder!Next, TurnOrder!Clear
    <2>6. CASE \/ PauseTurnTimer \/ ResumeTurnTimer \/ Tick \/ WaitCompletes
               \/ UNCHANGED vars
      BY <2>6, Zenon DEF PauseTurnTimer, ResumeTurnTimer, Tick, WaitCompletes, vars
    <2> QED BY <2>1, <2>2, <2>3, <2>4, <2>5, <2>6 DEF Next, TurnOrder!Next
  <1> QED BY <1>1, <1>2, TurnInvariant, PTL
          DEF Spec, ImplementsTurnQueue, TurnOrder!Spec
-----------------------------------------------------------------------------
(* When a waiting user leaves, the current user stays. *)
LEMMA RemoveQueuedSameHead ==
    ASSUME TurnInv, NEW u \in Users, IsQueued(u), RemoveQueued(u),
           turn_queue_ # << >>, turn_queue_' # << >>,
           Head(turn_queue_) = Head(turn_queue_')
    PROVE  turn_timer_' = turn_timer_
  <1> DEFINE p == turn_queue_position_[u]
  <1>1. TypeOK /\ PositionsMatchQueue
    BY DEF TurnInv
  <1>2. /\ p \in 0..(Len(turn_queue_) - 1) /\ turn_queue_[p + 1] = u
        /\ turn_queue_' \in Seq(Users) /\ Len(turn_queue_') = Len(turn_queue_) - 1
        /\ \A k \in 1..Len(turn_queue_') :
               turn_queue_'[k] = turn_queue_[IF k < p + 1 THEN k ELSE k + 1]
    BY <1>1, RemoveQueuedQueue, Zenon
  <1>3. CASE p = 0
    <2>1. /\ 1 \in 1..Len(turn_queue_') /\ 2 \in 1..Len(turn_queue_)
          /\ ~(1 < p + 1) /\ 1 + 1 = 2
          /\ Head(turn_queue_') = turn_queue_'[1] /\ Head(turn_queue_) = turn_queue_[1]
      BY <1>1, <1>2, <1>3 DEF TypeOK
    <2>2. turn_queue_'[1] = turn_queue_[2]
      BY <2>1, <1>2, Zenon
    <2>3. turn_queue_position_[turn_queue_[2]] = 1 /\ turn_queue_position_[turn_queue_[1]] = 0
      BY <2>1, <1>1, <1>2 DEF PositionsMatchQueue
    <2> QED BY <2>1, <2>2, <2>3
  <1>4. CASE p # 0
    BY <1>4 DEF RemoveQueued
  <1> QED BY <1>3, <1>4

(* Nothing that others do, and no change of the settings, gives the user   *)
(* whose turn is running more time.                                        *)
THEOREM TurnNotExtended == Spec => CurrentTimeOnlyDecreases
  <1> DEFINE Decreases ==
               /\ turn_queue_ # << >> /\ turn_queue_' # << >>
               /\ Head(turn_queue_) = Head(turn_queue_')
               /\ ~IsPaused /\ ~IsPaused'
               => turn_timer_'.left <= turn_timer_.left
  <1>1. TurnInv /\ [Next]_vars => Decreases
    <2> SUFFICES ASSUME TurnInv, [Next]_vars,
                        turn_queue_ # << >>, turn_queue_' # << >>,
                        Head(turn_queue_) = Head(turn_queue_'),
                        ~IsPaused, ~IsPaused'
                 PROVE  turn_timer_'.left <= turn_timer_.left
      BY Zenon
    <2>1. /\ turn_timer_ \in Timers
          /\ turn_timer_.left \in Int /\ turn_queue_ \in Seq(Users)
      BY TimerFields DEF TurnInv, TypeOK
    <2>2. turn_timer_' = turn_timer_ => turn_timer_'.left <= turn_timer_.left
      BY <2>1
    <2>3. turn_timer_' = Cancelled(turn_timer_) => turn_timer_'.left <= turn_timer_.left
      <3>1. Cancelled(turn_timer_).left = turn_timer_.left
        BY <2>1, TimerFields
      <3> QED BY <3>1, <2>1
    <2>4. ASSUME NEW u \in Users, RequestTurn(u) PROVE turn_timer_' = turn_timer_
      <3>1. Len(Append(turn_queue_, u)) # 1
        BY <2>1
      <3> QED BY <3>1, <2>4 DEF RequestTurn
    <2>5. ASSUME NEW u \in Users, RemoveUser(u) PROVE turn_timer_' = turn_timer_
      BY <2>5, RemoveQueuedSameHead DEF RemoveUser
    <2>6. ASSUME EndCurrentTurn PROVE turn_timer_' = turn_timer_
      <3>1. Head(turn_queue_) \in Users
        BY <2>1, HeadTailProperties
      <3> QED BY <3>1, <2>6, RemoveQueuedSameHead DEF EndCurrentTurn
    <2>7. ASSUME TurnTimerHandler PROVE turn_timer_' = turn_timer_
      <3>1. CASE IsQueued(Head(completed))
        <4>1. RemoveQueued(Head(completed)) /\ completed # << >>
          BY <2>7, <3>1 DEF TurnTimerHandler
        <4>2. Head(completed) \in Users
          BY <4>1, HeadTailProperties DEF TurnInv, TypeOK
        <4> QED BY <3>1, <4>1, <4>2, RemoveQueuedSameHead
      <3>2. CASE ~IsQueued(Head(completed))
        BY <2>7, <3>2 DEF TurnTimerHandler
      <3> QED BY <3>1, <3>2
    <2>8. ASSUME PauseTurnTimer PROVE FALSE
      <3>1. paused_time_' \in Nat
        BY <2>8, <2>1, TurnConstants DEF PauseTurnTimer, GetTimeRemaining, TurnInv, TypeOK
      <3> QED BY <3>1 DEF IsPaused, nullopt
    <2>9. ASSUME ResumeTurnTimer PROVE FALSE
      BY <2>9 DEF ResumeTurnTimer
    <2>10. ASSUME Tick PROVE turn_timer_'.left <= turn_timer_.left
      <3>1. turn_timer_'.left = turn_timer_.left - 1
        BY <2>10, <2>1, Zenon DEF Tick, Timers
      <3> QED BY <3>1, <2>1
    <2>11. ASSUME WaitCompletes PROVE turn_timer_' = Cancelled(turn_timer_)
      BY <2>11 DEF WaitCompletes
    <2>12. ASSUME NEW enabled \in BOOLEAN, NEW time \in TurnTimes, ApplySettings(enabled, time)
           PROVE  turn_timer_' = turn_timer_
      BY <2>12 DEF ApplySettings, Clear
    <2>13. ASSUME UNCHANGED vars PROVE turn_timer_' = turn_timer_
      BY <2>13, Zenon DEF vars
    <2> QED BY <2>2, <2>3, <2>4, <2>5, <2>6, <2>7, <2>8, <2>9, <2>10, <2>11, <2>12, <2>13 DEF Next
  <1> QED BY <1>1, TurnInvariant, PTL DEF Spec, CurrentTimeOnlyDecreases
=============================================================================
