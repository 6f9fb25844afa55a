--------------------------- MODULE TurnController ---------------------------
(***************************************************************************)
(* The turn queue of one virtual machine (src/TurnController.hpp) with the *)
(* setting that enables it and the broadcasts of VmState                   *)
(* (src/AdminVirtualMachine.hpp).                                          *)
(*                                                                         *)
(* Every operation and every timer handler runs on the strand of the VM    *)
(* (turn_timer_ is built on that strand), so an action is one handler from *)
(* start to end.  What is concurrent is the timer: once its wait has       *)
(* completed with success the handler is only queued, and neither          *)
(* expires_after nor cancel takes it back.                                 *)
(*                                                                         *)
(* An empty std::optional is nullopt, durations are small integers: the    *)
(* time remaining is negative between an expiry and its handler.           *)
(***************************************************************************)
EXTENDS Integers, SequencesExt

CONSTANTS
    Users,        \* the clients that can ask for a turn
    NoUser,       \* no wait is pending on the timer
    TurnTimes,    \* values of the TURN_TIME setting
    MaxCompleted, \* bound: handlers of completed waits queued on the strand
    MaxLate       \* bound: how long after its expiry the timer is looked at

ASSUME TurnConstants ==
    /\ NoUser \notin Users
    /\ TurnTimes \subseteq Nat
    /\ MaxCompleted \in Nat \ {0}
    /\ MaxLate \in Nat

VARIABLES
    turn_queue_,           \* users waiting for a turn, the current one first
    turn_queue_position_,  \* UserTurnData of every client
    paused_time_,          \* time kept for the current user while paused
    turn_time_,
    turns_enabled,         \* the TURNS_ENABLED setting
    turn_timer_,           \* [user: captured by the pending wait, left: expiry - now]
    completed,             \* users captured by queued handlers of completed waits
    announced              \* what clients see: the last broadcast, counting down

vars == <<turn_queue_, turn_queue_position_, paused_time_, turn_time_,
          turns_enabled, turn_timer_, completed, announced>>

nullopt == -1

IsPaused == paused_time_ # nullopt
Cancelled(timer) == [timer EXCEPT !.user = NoUser]
IsQueued(u) == turn_queue_position_[u] # nullopt

(* What vmTurnInfo says of the turns. *)
TurnState(enabled, paused) ==
    IF ~enabled THEN "DISABLED"
    ELSE IF paused # nullopt THEN "PAUSED" ELSE "ENABLED"

(* A machine starts with the settings it was stored with, which nobody     *)
(* validates, and nothing has been broadcast.                              *)
Init ==
    /\ turn_queue_ = << >>
    /\ turn_queue_position_ = [u \in Users |-> nullopt]
    /\ paused_time_ = nullopt
    /\ turn_time_ \in TurnTimes
    /\ turns_enabled \in BOOLEAN
    /\ turn_timer_ = [user |-> NoUser, left |-> 0]
    /\ completed = << >>
    /\ announced = [users |-> << >>, state |-> "NONE", time |-> 0]

(* BroadcastTurnQueue, called by each of the three callbacks. *)
BroadcastTurnQueue(q, enabled, paused, time_remaining) ==
    announced' = [users |-> q, state |-> TurnState(enabled, paused),
                  time |-> time_remaining]

GetTimeRemaining == turn_timer_.left

(* Starts the turn of the front user of q.  The wait is re-armed, which    *)
(* cancels the one that was pending, unless nobody is left or the turns    *)
(* are paused: then the timer stays as it is.                              *)
UpdateCurrentTurn(q, paused, timer, time_remaining) ==
    /\ turn_timer_' = IF q # << >> /\ paused = nullopt
                      THEN [user |-> Head(q), left |-> time_remaining]
                      ELSE timer
    /\ BroadcastTurnQueue(q, turns_enabled, paused,
                          IF q = << >> THEN 0 ELSE time_remaining)

(* Mutants of RequestTurn: the client may be queued already; every request *)
(* restarts the current turn.                                              *)
RequestTurnAgain(u) ==
    LET q == Append(turn_queue_, u) IN
    /\ Len(q) < 4
    /\ turn_queue_' = q
    /\ turn_queue_position_' = [turn_queue_position_ EXCEPT ![u] = Len(q) - 1]
    /\ BroadcastTurnQueue(q, turns_enabled, paused_time_, GetTimeRemaining)
    /\ UNCHANGED <<turn_timer_, paused_time_, turn_time_, turns_enabled, completed>>

RequestTurnRestarts(u) ==
    LET q == Append(turn_queue_, u) IN
    /\ ~IsQueued(u)
    /\ turn_queue_' = q
    /\ turn_queue_position_' = [turn_queue_position_ EXCEPT ![u] = Len(q) - 1]
    /\ UpdateCurrentTurn(q, paused_time_, turn_timer_, turn_time_)
    /\ UNCHANGED <<paused_time_, turn_time_, turns_enabled, completed>>

RequestTurn(u) ==
    LET q == Append(turn_queue_, u) IN
    /\ turns_enabled
    /\ ~IsQueued(u)
    /\ turn_queue_' = q
    /\ turn_queue_position_' = [turn_queue_position_ EXCEPT ![u] = Len(q) - 1]
    /\ IF Len(q) = 1
       THEN UpdateCurrentTurn(q, paused_time_, turn_timer_, turn_time_)
       ELSE /\ BroadcastTurnQueue(q, turns_enabled, paused_time_, GetTimeRemaining)
            /\ UNCHANGED turn_timer_
    /\ UNCHANGED <<paused_time_, turn_time_, turns_enabled, completed>>

(* Mutants of MovedUp: nobody behind moves up; everybody does. *)
NotMovedUp(u, q) == [turn_queue_position_ EXCEPT ![u] = nullopt]
AllMovedUp(u, q) ==
    [v \in Users |-> IF v = u THEN nullopt ELSE turn_queue_position_[v] - 1]

(* Positions once u is gone and q is left: those behind u move up by one. *)
MovedUp(u, q) ==
    LET behind == {q[j] : j \in (turn_queue_position_[u] + 1)..Len(q)} IN
    [v \in Users |-> IF v = u THEN nullopt
                     ELSE IF v \in behind THEN turn_queue_position_[v] - 1
                     ELSE turn_queue_position_[v]]

(* Mutant of RemoveQueued: the next turn is announced but never timed. *)
RemoveQueuedUntimed(u) ==
    LET q == RemoveAt(turn_queue_, turn_queue_position_[u] + 1) IN
    /\ turn_queue_' = q
    /\ turn_queue_position_' = MovedUp(u, q)
    /\ BroadcastTurnQueue(q, turns_enabled, paused_time_, GetTimeRemaining)
    /\ UNCHANGED <<turn_timer_, paused_time_, turn_time_, turns_enabled>>

(* The body of RemoveUser: erase by the user's stored position, move       *)
(* everybody behind it up, and start the next turn if it was the current.  *)
RemoveQueued(u) ==
    LET p == turn_queue_position_[u]
        q == RemoveAt(turn_queue_, p + 1)
    IN
    /\ turn_queue_' = q
    /\ turn_queue_position_' = MovedUp(u, q)
    /\ IF p = 0
       THEN UpdateCurrentTurn(q, paused_time_, turn_timer_, turn_time_)
       ELSE /\ BroadcastTurnQueue(q, turns_enabled, paused_time_, GetTimeRemaining)
            /\ UNCHANGED turn_timer_
    /\ UNCHANGED <<paused_time_, turn_time_, turns_enabled>>

(* A client leaves the virtual machine, whatever the setting is. *)
RemoveUser(u) ==
    /\ IsQueued(u)
    /\ RemoveQueued(u)
    /\ UNCHANGED completed

(* Mutant of PauseTurnTimer: clients are not told. *)
PauseTurnTimerUnannounced ==
    /\ turns_enabled
    /\ paused_time_' = turn_time_
    /\ turn_timer_' = Cancelled(turn_timer_)
    /\ UNCHANGED <<turn_queue_, turn_queue_position_, turn_time_, turns_enabled,
                   completed, announced>>

(* cancel() counts the pending waits: a wait that has completed already is *)
(* not among them, and the user is then given a whole turn.                *)
PauseTurnTimer ==
    LET was_running == turn_timer_.user # NoUser
        time == IF was_running /\ GetTimeRemaining > 0
                THEN GetTimeRemaining ELSE turn_time_
    IN
    /\ turns_enabled
    /\ paused_time_' = time
    /\ UpdateCurrentTurn(turn_queue_, time, Cancelled(turn_timer_), time)
    /\ UNCHANGED <<turn_queue_, turn_queue_position_, turn_time_, turns_enabled,
                   completed>>

(* Mutant of ResumeTurnTimer: the timer is not started again. *)
ResumeTurnTimerStopped ==
    /\ turns_enabled
    /\ IsPaused
    /\ paused_time_' = nullopt
    /\ UNCHANGED <<turn_queue_, turn_queue_position_, turn_time_, turns_enabled,
                   turn_timer_, completed, announced>>

ResumeTurnTimer ==
    /\ turns_enabled
    /\ IsPaused
    /\ paused_time_' = nullopt
    /\ UpdateCurrentTurn(turn_queue_, nullopt, turn_timer_, paused_time_)
    /\ UNCHANGED <<turn_queue_, turn_queue_position_, turn_time_, turns_enabled,
                   completed>>

EndCurrentTurn ==
    /\ turns_enabled
    /\ turn_queue_ # << >>
    /\ IsQueued(Head(turn_queue_))
    /\ RemoveQueued(Head(turn_queue_))
    /\ UNCHANGED completed

(* The turns were disabled, and the settings say so already when the empty *)
(* queue is broadcast.  paused_time_ survives: a machine whose turns were  *)
(* paused is still paused when they are enabled again.                     *)
Clear ==
    /\ turn_timer_' = Cancelled(turn_timer_)
    /\ turn_queue_' = << >>
    /\ turn_queue_position_' =
         [u \in Users |-> IF u \in ToSet(turn_queue_) THEN nullopt
                          ELSE turn_queue_position_[u]]
    /\ IF turn_queue_ # << >>
       THEN BroadcastTurnQueue(<< >>, FALSE, paused_time_, 0)
       ELSE UNCHANGED announced

(* UpdateSettings and ApplySettings: nothing is broadcast when the turns   *)
(* are enabled, nor when they are disabled and nobody waits.               *)
ApplySettings(enabled, time) ==
    /\ enabled => time > 0
    /\ turn_time_' = time
    /\ turns_enabled' = enabled
    /\ IF turns_enabled /\ ~enabled
       THEN Clear
       ELSE UNCHANGED <<turn_queue_, turn_queue_position_, turn_timer_, announced>>
    /\ UNCHANGED <<paused_time_, completed>>

(* Time passes, for the timer and for the countdown that clients show      *)
(* while the turns run.                                                    *)
Tick ==
    /\ turn_timer_.left > -MaxLate
    /\ turn_timer_' = [turn_timer_ EXCEPT !.left = @ - 1]
    /\ announced' = IF announced.state = "ENABLED"
                    THEN [announced EXCEPT !.time = @ - 1] ELSE announced
    /\ UNCHANGED <<turn_queue_, turn_queue_position_, paused_time_, turn_time_,
                   turns_enabled, completed>>

(* The pending wait completes: its handler is queued behind the others. *)
WaitCompletes ==
    /\ turn_timer_.user # NoUser
    /\ turn_timer_.left <= 0
    /\ Len(completed) < MaxCompleted
    /\ completed' = Append(completed, turn_timer_.user)
    /\ turn_timer_' = Cancelled(turn_timer_)
    /\ UNCHANGED <<turn_queue_, turn_queue_position_, paused_time_, turn_time_,
                   turns_enabled, announced>>

(* The handler of async_wait without an error: it removes the user it      *)
(* captured, whoever has the turn by now.                                  *)
TurnTimerHandler ==
    /\ completed # << >>
    /\ completed' = Tail(completed)
    /\ IF IsQueued(Head(completed))
       THEN RemoveQueued(Head(completed))
       ELSE UNCHANGED <<turn_queue_, turn_queue_position_, paused_time_,
                        turn_time_, turns_enabled, turn_timer_, announced>>

Next ==
    \/ \E u \in Users : RequestTurn(u) \/ RemoveUser(u)
    \/ \E enabled \in BOOLEAN, time \in TurnTimes : ApplySettings(enabled, time)
    \/ PauseTurnTimer
    \/ ResumeTurnTimer
    \/ EndCurrentTurn
    \/ Tick
    \/ WaitCompletes
    \/ TurnTimerHandler

(* Time passes, an expired timer completes its wait and the io_context     *)
(* runs the handlers queued on a strand.  Nothing is assumed of clients    *)
(* and admins.                                                             *)
Fairness ==
    /\ WF_vars(Tick)
    /\ WF_vars(WaitCompletes)
    /\ WF_vars(TurnTimerHandler)

Spec == Init /\ [][Next]_vars

FairSpec == Spec /\ Fairness
-----------------------------------------------------------------------------
Timers == [user : Users \cup {NoUser}, left : Int]

Broadcasts ==
    [users : Seq(Users), state : {"NONE", "DISABLED", "PAUSED", "ENABLED"}, time : Int]

TypeOK ==
    /\ turn_queue_ \in Seq(Users)
    /\ turn_queue_position_ \in [Users -> Nat \cup {nullopt}]
    /\ paused_time_ \in Nat \cup {nullopt}
    /\ turn_time_ \in TurnTimes
    /\ turns_enabled \in BOOLEAN
    /\ turn_timer_ \in Timers
    /\ completed \in Seq(Users)
    /\ announced \in Broadcasts

(* The position a client carries (turn_queue_position_, by which RemoveUser *)
(* erases) is its place in the deque, and clients without a position are   *)
(* not in it: a drifting position would erase somebody else, or run past   *)
(* the end of the deque.                                                   *)
PositionsMatchQueue ==
    /\ \A i \in 1..Len(turn_queue_) :
           turn_queue_position_[turn_queue_[i]] = i - 1
    /\ \A u \in Users : IsQueued(u) =>
           /\ turn_queue_position_[u] < Len(turn_queue_)
           /\ turn_queue_[turn_queue_position_[u] + 1] = u

(* Nobody holds the VM for ever: unless the turns are paused, the current  *)
(* user's wait is pending or its completed handler is queued.              *)
CurrentTurnIsTimed ==
    ~IsPaused /\ turn_queue_ # << >> =>
        \/ turn_timer_.user = Head(turn_queue_)
        \/ Head(turn_queue_) \in ToSet(completed)

(* While the turns are paused no wait is pending, so a pause cannot be cut *)
(* short by a timer armed after it.                                        *)
NoWaitWhilePaused == IsPaused => turn_timer_.user = NoUser

(* Disabling the turns ends them: nobody waits and no wait is pending      *)
(* until they are enabled again, though handlers may still be queued.      *)
NoTurnsWhileDisabled ==
    ~turns_enabled => turn_queue_ = << >> /\ turn_timer_.user = NoUser

(* The invariant of the queue: positions, timer, pause and setting agree. *)
TurnQueueInv ==
    TypeOK /\ PositionsMatchQueue /\ CurrentTurnIsTimed /\ NoWaitWhilePaused
           /\ NoTurnsWhileDisabled

(* What was last broadcast (vmTurnInfo) names the queue as it is, whatever *)
(* order of requests, removals, pauses, changes of the settings and stale  *)
(* expiries led to it.  Whoever waits was told whether the turns are       *)
(* paused, and while a turn runs the countdown is that of its timer, past  *)
(* the expiry too.                                                         *)
ClientsSeeTheQueue ==
    /\ announced.users = turn_queue_
    /\ turn_queue_ # << >> =>
          announced.state = TurnState(turns_enabled, paused_time_)
    /\ turn_queue_ # << >> /\ ~IsPaused => announced.time = turn_timer_.left

(* Not kept: while nobody waits, ApplySettings changes the setting without *)
(* a broadcast, so clients go on showing the state of the last one.        *)
ClientsSeeTheState ==
    announced.state \in {"NONE", TurnState(turns_enabled, paused_time_)}

(* Not kept: a client that joins or leaves the queue while it is paused    *)
(* has the rest of the cancelled timer broadcast, not the time kept.       *)
ClientsSeeThePausedTime ==
    turn_queue_ # << >> /\ IsPaused => announced.time = paused_time_

(* Not kept: the second of two pauses finds no wait to cancel and gives    *)
(* the current user a whole turn.                                          *)
PausedTimeIsKept ==
    [][ IsPaused /\ IsPaused' => paused_time_' = paused_time_ ]_vars

(* Others joining, leaving or changing the settings never give the current *)
(* user more time: while it stays current and unpaused its time only goes  *)
(* down.                                                                   *)
CurrentTimeOnlyDecreases ==
    [][ /\ turn_queue_ # << >> /\ turn_queue_' # << >>
        /\ Head(turn_queue_) = Head(turn_queue_')
        /\ ~IsPaused /\ ~IsPaused'
        => turn_timer_'.left <= turn_timer_.left ]_vars

(* The queue is first come, first served. *)
TurnOrder == INSTANCE TurnQueue WITH queue <- turn_queue_
ImplementsTurnQueue == TurnOrder!Spec

(* Once turns are no longer paused, every queued user gets its turn and    *)
(* loses it: nobody stays in the queue for ever.                           *)
TurnsEnd ==
    <>[]~IsPaused => \A u \in Users : IsQueued(u) ~> ~IsQueued(u)
=============================================================================
