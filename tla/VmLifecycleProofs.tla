------------------------- MODULE VmLifecycleProofs -------------------------
(***************************************************************************)
(* Proofs about VmLifecycle for any number of guac_clients and any bound   *)
(* on the queue: whatever order starts, stops, restarts, errors, exits of  *)
(* the thread, reconnections and the deletion come in, a guac_client is    *)
(* freed after its thread has exited and is there when state_ or           *)
(* connected_ say so, until a start or the deletion comes before the last  *)
(* connection was over.                                                    *)
(***************************************************************************)
EXTENDS VmLifecycle, SequenceTheorems, TLAPS

(* The machine owns at most one guac_client, and only that one has a       *)
(* thread.                                                                 *)
OneClient ==
    /\ allocated = {client_} \ {nullptr}
    /\ \A c \in Clients : Live(c) => c = client_

(* From Start or Reconnect to the next Start or Reconnect one of these is  *)
(* there and the others are not: the thread, the task it posted when it    *)
(* ended, the wait that the task began, and the task that follows.         *)
ThreadRuns == client_ # nullptr /\ thread[client_] # "none"
ExitQueued == Queued("OnExit")
Waiting == connect_delay_timer_ = "waiting"
ReconnectQueued == Queued("Reconnect")

OneAtATime ==
    /\ client_ # nullptr => ThreadRuns \/ ExitQueued
    /\ ThreadRuns => ~ExitQueued
    /\ ExitQueued => client_ # nullptr
    /\ client_ # nullptr => ~Waiting /\ ~ReconnectQueued
    /\ Waiting => ~ReconnectQueued

QueuedOnce ==
    \A i, j \in 1..Len(tasks) :
        tasks[i] = tasks[j] /\ tasks[i] \in {"OnExit", "Reconnect"} => i = j

(* OnStart runs while the client whose first image it reports is there.    *)
StartsBeforeExit ==
    \A i, j \in 1..Len(tasks) : tasks[i] = "OnStart" /\ tasks[j] = "OnExit" => i < j

(* Stop cancels the wait: the machine waits only while it is active. *)
WaitingIsActive == Waiting => active_

StartedIfInUse ==
    active_ \/ client_ # nullptr \/ tasks # << >> \/ Waiting => started

RunningHasThread ==
    started /\ state_ = "kRunning" => ThreadRuns

LifecycleInv ==
    /\ TypeOK
    /\ OneClient
    /\ OneAtATime
    /\ QueuedOnce /\ StartsBeforeExit
    /\ StartedIfInUse
    /\ WaitingIsActive
    /\ RunningHasThread
    /\ Queued("OnStart") \/ connected_ => client_ # nullptr

-----------------------------------------------------------------------------
(* The queue after a handler has been added. *)
LEMMA QueueAfterPost ==
    ASSUME tasks \in Seq(Tasks), QueuedOnce, StartsBeforeExit, NEW task \in Tasks, Post(task),
           task \in {"OnExit", "Reconnect"} => ~Queued(task),
           task = "OnStart" => ~Queued("OnExit")
    PROVE  /\ tasks' \in Seq(Tasks)
           /\ \A x : Queued(x)' <=> Queued(x) \/ x = task
           /\ QueuedOnce' /\ StartsBeforeExit'
<1>1. /\ tasks' \in Seq(Tasks) /\ Len(tasks) \in Nat /\ Len(tasks') = Len(tasks) + 1
      /\ \A i \in 1..Len(tasks) : tasks'[i] = tasks[i]
      /\ tasks'[Len(tasks) + 1] = task
  BY AppendProperties, LenProperties DEF Post
<1>2. ASSUME NEW x
      PROVE  Queued(x)' <=> Queued(x) \/ x = task
  BY <1>1 DEF Queued
<1>3. QueuedOnce'
  BY <1>1 DEF QueuedOnce, Queued
<1>4. StartsBeforeExit'
  BY <1>1 DEF StartsBeforeExit, Queued
<1> QED
  BY <1>1, <1>2, <1>3, <1>4

(* The queue after its first handler has been taken. *)
LEMMA QueueAfterTake ==
    ASSUME tasks \in Seq(Tasks), QueuedOnce, StartsBeforeExit, NEW task, Takes(task),
           tasks' = Tail(tasks)
    PROVE  /\ tasks' \in Seq(Tasks)
           /\ Queued(task)
           /\ \A x : Queued(x)' => Queued(x)
           /\ \A x : Queued(x) => Queued(x)' \/ x = task
           /\ task \in {"OnExit", "Reconnect"} => ~Queued(task)'
           /\ task = "OnExit" => ~Queued("OnStart")
           /\ QueuedOnce' /\ StartsBeforeExit'
<1>1. /\ tasks' \in Seq(Tasks) /\ Len(tasks') = Len(tasks) - 1
      /\ \A i \in 1..Len(tasks') : tasks'[i] = tasks[i + 1]
      /\ Len(tasks) \in Nat /\ Len(tasks) > 0 /\ tasks[1] = task
  BY HeadTailProperties, LenProperties, EmptySeq DEF Takes
<1>2. Queued(task)
  BY <1>1 DEF Queued
<1>3. ASSUME NEW x, Queued(x)'
      PROVE  Queued(x)
  <2>1. PICK i \in 1..Len(tasks') : tasks'[i] = x
    BY <1>3 DEF Queued
  <2>2. i + 1 \in 1..Len(tasks) /\ tasks[i + 1] = x
    BY <1>1, <2>1
  <2> QED
    BY <2>2 DEF Queued
<1>4. ASSUME NEW x, Queued(x), x # task
      PROVE  Queued(x)'
  <2>1. PICK i \in 1..Len(tasks) : tasks[i] = x
    BY <1>4 DEF Queued
  <2>2. i # 1
    BY <1>1, <1>4, <2>1
  <2>3. i - 1 \in 1..Len(tasks') /\ tasks'[i - 1] = x
    BY <1>1, <2>1, <2>2
  <2> QED
    BY <2>3 DEF Queued
<1>5. ASSUME task \in {"OnExit", "Reconnect"}, Queued(task)'
      PROVE  FALSE
  <2>1. PICK i \in 1..Len(tasks') : tasks'[i] = task
    BY <1>5 DEF Queued
  <2>2. i + 1 \in 1..Len(tasks) /\ tasks[i + 1] = task /\ i + 1 # 1 /\ 1 \in 1..Len(tasks)
    BY <1>1, <2>1
  <2> QED
    BY <1>1, <1>5, <2>2 DEF QueuedOnce
<1>6. ASSUME task = "OnExit", Queued("OnStart")
      PROVE  FALSE
  BY <1>1, <1>6 DEF Queued, StartsBeforeExit
<1>7. ASSUME NEW i \in 1..Len(tasks'), NEW j \in 1..Len(tasks')
      PROVE  /\ i + 1 \in 1..Len(tasks) /\ tasks'[i] = tasks[i + 1]
             /\ j + 1 \in 1..Len(tasks) /\ tasks'[j] = tasks[j + 1]
             /\ i + 1 = j + 1 => i = j
             /\ i + 1 < j + 1 => i < j
  BY <1>1
<1>8. QueuedOnce'
  BY <1>7 DEF QueuedOnce
<1>9. StartsBeforeExit'
  BY <1>7 DEF StartsBeforeExit
<1> QED
  BY <1>1, <1>2, <1>3, <1>4, <1>5, <1>6, <1>8, <1>9

-----------------------------------------------------------------------------
LEMMA LifecycleInit == Init => LifecycleInv
<1> SUFFICES ASSUME Init
             PROVE  LifecycleInv
  OBVIOUS
<1>1. tasks = << >> /\ tasks \in Seq(Tasks) /\ Len(tasks) = 0
  BY DEF Init
<1>2. TypeOK
  BY <1>1, VmConstants DEF Init, TypeOK, States, Phases
<1>3. \A x : ~Queued(x)
  BY <1>1 DEF Queued
<1>4. QueuedOnce /\ StartsBeforeExit
  BY <1>1 DEF QueuedOnce, StartsBeforeExit
<1>5. OneClient
  BY DEF Init, OneClient, Live
<1>6. OneAtATime
  BY <1>3 DEF Init, OneAtATime, ThreadRuns, ExitQueued, Waiting, ReconnectQueued
<1> QED
  BY <1>2, <1>3, <1>4, <1>5, <1>6 DEF Init, LifecycleInv, StartedIfInUse, RunningHasThread,
    WaitingIsActive, Waiting

(* GuacamoleClient::Start with nothing left of an earlier connection. *)
LEMMA StartClient ==
    ASSUME LifecycleInv, client_ = nullptr, ~Waiting, StartGuacamoleClient,
           tasks' \in Seq(Tasks), \A x : Queued(x)' => Queued(x) /\ x # "Reconnect",
           QueuedOnce', StartsBeforeExit',
           active_' = TRUE, started' = TRUE, early' \in BOOLEAN,
           UNCHANGED <<connected_, connect_delay_timer_, exists, join>>
    PROVE  LifecycleInv'
<1>1. PICK c \in Clients \ allocated :
          /\ state_' = "kStarting" /\ client_' = c
          /\ allocated' = (allocated \ {client_}) \cup {c}
          /\ thread' = [thread EXCEPT ![c] = "connecting"]
          /\ stop' = stop \ {c}
  BY DEF StartGuacamoleClient
<1>2. /\ TypeOK /\ OneClient /\ OneAtATime
      /\ ~connected_ /\ ~Queued("OnStart") /\ ~Queued("OnExit")
  BY DEF LifecycleInv, OneAtATime, ExitQueued
<1>3. c # nullptr /\ allocated = {} /\ \A d \in Clients : thread[d] = "none"
  BY <1>2, VmConstants DEF OneClient, Live
<1>4. thread'[c] = "connecting" /\ \A d \in Clients \ {c} : thread'[d] = "none"
  BY <1>1, <1>2, <1>3 DEF TypeOK
<1>5. TypeOK'
  BY <1>1, <1>2 DEF TypeOK, States, Phases
<1>6. OneClient'
  BY <1>1, <1>3, <1>4 DEF OneClient, Live
<1>7. ThreadRuns'
  BY <1>1, <1>3, <1>4 DEF ThreadRuns
<1>8. OneAtATime'
  BY <1>2, <1>7 DEF OneAtATime, ThreadRuns, ExitQueued, Waiting, ReconnectQueued
<1>9. StartedIfInUse' /\ WaitingIsActive' /\ RunningHasThread' /\ client_' # nullptr
  BY <1>1, <1>3 DEF StartedIfInUse, WaitingIsActive, RunningHasThread
<1> QED
  BY <1>5, <1>6, <1>8, <1>9 DEF LifecycleInv

(* Steps after which the same client is owned and the same thread runs. *)
LEMMA SameClient ==
    ASSUME LifecycleInv, UNCHANGED <<client_, allocated, started>>,
           thread' \in [Clients -> Phases], \A c \in Clients : Live(c)' <=> Live(c),
           tasks' \in Seq(Tasks), QueuedOnce', StartsBeforeExit',
           Queued("OnExit")' <=> Queued("OnExit"),
           Queued("OnStart")' => client_ # nullptr,
           Queued("Reconnect")' => Queued("Reconnect") \/ (Waiting /\ ~Waiting'),
           Waiting' => Waiting /\ active_',
           connect_delay_timer_' \in {"idle", "waiting"},
           state_' \in States, started /\ state_' = "kRunning" => ThreadRuns,
           stop' \subseteq Clients \cup {nullptr},
           active_' \in BOOLEAN, active_' => active_,
           connected_' \in BOOLEAN, connected_' => client_ # nullptr,
           tasks' # << >> => started,
           exists' \in BOOLEAN, early' \in BOOLEAN,
           join'[1] \in {"none", "queued", "joining"}
    PROVE  LifecycleInv'
<1>1. TypeOK'
  BY DEF LifecycleInv, TypeOK
<1>2. OneClient'
  BY DEF LifecycleInv, OneClient
<1>3. ThreadRuns' <=> ThreadRuns
  BY DEF ThreadRuns, Live, LifecycleInv, TypeOK
<1>4. OneAtATime'
  BY <1>3 DEF LifecycleInv, OneAtATime, ExitQueued, ReconnectQueued
<1>5. StartedIfInUse' /\ WaitingIsActive'
  BY DEF LifecycleInv, StartedIfInUse, WaitingIsActive
<1>6. RunningHasThread'
  BY <1>3 DEF RunningHasThread
<1> QED
  BY <1>1, <1>2, <1>4, <1>5, <1>6 DEF LifecycleInv

(* GuacamoleClient::Stop reads client_ only while there is one. *)
LEMMA StopClient ==
    ASSUME LifecycleInv, started, StopGuacamoleClient
    PROVE  /\ UNCHANGED <<client_, allocated, thread>>
           /\ state_' = "kStopping" /\ stop' \subseteq Clients \cup {nullptr}
  BY DEF StopGuacamoleClient, LifecycleInv, TypeOK

(* The facts of the invariant that every step uses. *)
LEMMA TheQueue ==
    ASSUME LifecycleInv
    PROVE  /\ TypeOK /\ tasks \in Seq(Tasks) /\ QueuedOnce /\ StartsBeforeExit
           /\ active_ => started
           /\ Waiting => active_
           /\ tasks # << >> => started
           /\ connected_ => client_ # nullptr
           /\ Queued("OnStart") => client_ # nullptr
           /\ started /\ state_ = "kRunning" => ThreadRuns
  BY DEF LifecycleInv, TypeOK, StartedIfInUse, WaitingIsActive, RunningHasThread

-----------------------------------------------------------------------------
(* With nothing left of the last connection but waits that were cancelled. *)
LEMMA StartStep ==
    ASSUME LifecycleInv, Start, ~early'
    PROVE  LifecycleInv'
<1>1. /\ ~Connecting /\ ~active_ /\ early' \in BOOLEAN
      /\ active_' = TRUE /\ started' = TRUE /\ StartGuacamoleClient
      /\ UNCHANGED <<connected_, tasks, connect_delay_timer_, exists, join>>
  BY DEF Start
<1>2. client_ = nullptr /\ ~Queued("Reconnect")
  BY <1>1 DEF Connecting
<1>3. ~Waiting
  BY <1>1 DEF LifecycleInv, WaitingIsActive
<1>4. QueuedOnce' /\ StartsBeforeExit' /\ tasks' \in Seq(Tasks)
  BY <1>1, TheQueue DEF QueuedOnce, StartsBeforeExit
<1>5. \A x : Queued(x)' => Queued(x) /\ x # "Reconnect"
  BY <1>1, <1>2 DEF Queued
<1> QED
  BY <1>1, <1>2, <1>3, <1>4, <1>5, StartClient

LEMMA StopStep ==
    ASSUME LifecycleInv, Stop
    PROVE  LifecycleInv'
<1>1. /\ active_ /\ active_' = FALSE /\ connect_delay_timer_' = "idle"
      /\ StopGuacamoleClient /\ UNCHANGED <<connected_, exists, started, early, join>>
  BY DEF Stop
<1>2. started
  BY <1>1, TheQueue
<1>3. /\ UNCHANGED <<client_, allocated, thread>>
      /\ state_' = "kStopping" /\ stop' \subseteq Clients \cup {nullptr}
  BY <1>1, <1>2, StopClient
<1>4. /\ tasks' \in Seq(Tasks) /\ QueuedOnce' /\ StartsBeforeExit'
      /\ \A x : x # "Cancelled" => (Queued(x)' <=> Queued(x))
  <2>1. CASE Post("Cancelled")
    <3>1. "Cancelled" \in Tasks
      BY DEF Tasks
    <3> QED
      BY <2>1, <3>1, TheQueue, QueueAfterPost
  <2>2. CASE UNCHANGED tasks
    BY <2>2, TheQueue DEF QueuedOnce, StartsBeforeExit, Queued
  <2> QED
    BY <2>1, <2>2 DEF Stop
<1>5. ~Waiting'
  BY <1>1 DEF Waiting
<1> QED
  BY <1>1, <1>2, <1>3, <1>4, <1>5, TheQueue, SameClient DEF TypeOK, States, Live

(* Steps that leave the queue and the timer alone. *)
LEMMA SameQueue ==
    ASSUME LifecycleInv, UNCHANGED <<tasks, connect_delay_timer_>>
    PROVE  /\ tasks' \in Seq(Tasks) /\ QueuedOnce' /\ StartsBeforeExit'
           /\ \A x : Queued(x)' <=> Queued(x)
           /\ Waiting' <=> Waiting
           /\ connect_delay_timer_' \in {"idle", "waiting"}
           /\ tasks' # << >> => started
           /\ Queued("OnStart")' => client_ # nullptr
  BY TheQueue DEF QueuedOnce, StartsBeforeExit, Queued, Waiting, TypeOK

LEMMA RestartStep ==
    ASSUME LifecycleInv, Restart
    PROVE  LifecycleInv'
<1>1. /\ active_ /\ StopGuacamoleClient
      /\ UNCHANGED <<active_, connected_, tasks, connect_delay_timer_, exists, started, early, join>>
  BY DEF Restart
<1>2. started
  BY <1>1, TheQueue
<1>3. /\ UNCHANGED <<client_, allocated, thread>>
      /\ state_' = "kStopping" /\ stop' \subseteq Clients \cup {nullptr}
  BY <1>1, <1>2, StopClient
<1> QED
  BY <1>1, <1>2, <1>3, TheQueue, SameQueue, SameClient DEF TypeOK, States, Live

(* The deletion of a machine that is quiet frees nothing. *)
LEMMA DeleteStep ==
    ASSUME LifecycleInv, Delete, ~early'
    PROVE  LifecycleInv'
<1>1. /\ client_ = nullptr /\ tasks = << >> /\ connect_delay_timer_ = "idle"
      /\ early' \in BOOLEAN
  BY DEF Delete, Connecting
<1>2. /\ exists' = FALSE /\ active_' = FALSE /\ client_' = nullptr
      /\ allocated' = allocated \ {client_}
      /\ UNCHANGED <<tasks, connect_delay_timer_, connected_, thread, started, join>>
      /\ state_' \in {state_, "kStopping"}
      /\ stop' \subseteq stop \cup {client_}
  BY <1>1 DEF Delete
<1>3. allocated' = allocated
  BY <1>1, <1>2 DEF LifecycleInv, OneClient
<1>4. started /\ state_' = "kRunning" => ThreadRuns
  BY <1>2, TheQueue
<1>5. state_' \in States /\ stop' \subseteq Clients \cup {nullptr}
  BY <1>1, <1>2, TheQueue DEF TypeOK, States
<1>6. ~Waiting'
  BY <1>1, <1>2 DEF Waiting
<1>7. thread' \in [Clients -> Phases] /\ \A c \in Clients : Live(c)' <=> Live(c)
  BY <1>2, TheQueue DEF TypeOK, Live
<1> QED
  BY <1>1, <1>2, <1>3, <1>4, <1>5, <1>6, <1>7, TheQueue, SameQueue, SameClient DEF TypeOK

-----------------------------------------------------------------------------
(* The thread that takes a step is that of the client owned. *)
LEMMA TheThread ==
    ASSUME LifecycleInv, NEW c \in Clients, thread[c] # "none"
    PROVE  /\ client_ = c /\ client_ # nullptr /\ ThreadRuns
           /\ ~Queued("OnExit") /\ ~Waiting /\ ~Queued("Reconnect")
<1>1. client_ = c /\ client_ # nullptr
  BY VmConstants DEF LifecycleInv, OneClient, Live
<1>2. ThreadRuns
  BY <1>1 DEF ThreadRuns
<1> QED
  BY <1>1, <1>2 DEF LifecycleInv, OneAtATime, ExitQueued, ReconnectQueued

LEMMA FirstInstructionStep ==
    ASSUME LifecycleInv, NEW c \in Clients, NEW error \in BOOLEAN, FirstInstruction(c, error)
    PROVE  LifecycleInv'
<1>1. /\ thread[c] = "connecting" /\ thread' = [thread EXCEPT ![c] = "registered"]
      /\ state_' \in {state_, "kStopping"} /\ stop' \subseteq stop \cup {c}
      /\ UNCHANGED <<active_, connected_, client_, allocated, tasks,
                     connect_delay_timer_, exists, started, early, join>>
  BY DEF FirstInstruction
<1>2. ThreadRuns /\ client_ # nullptr
  BY <1>1, TheThread
<1>3. thread' \in [Clients -> Phases] /\ \A d \in Clients : Live(d)' <=> Live(d)
  BY <1>1, TheQueue DEF TypeOK, Phases, Live
<1>4. state_' \in States /\ stop' \subseteq Clients \cup {nullptr}
  BY <1>1, TheQueue DEF TypeOK, States
<1> QED
  BY <1>1, <1>2, <1>3, <1>4, TheQueue, SameQueue, SameClient DEF TypeOK

LEMMA DisconnectStep ==
    ASSUME LifecycleInv, NEW c \in Clients, DisconnectInstruction(c)
    PROVE  LifecycleInv'
<1>1. /\ state_' = "kStopping" /\ stop' = stop \cup {c}
      /\ UNCHANGED <<active_, connected_, client_, allocated, thread, tasks,
                     connect_delay_timer_, exists, started, early, join>>
  BY DEF DisconnectInstruction
<1>2. state_' \in States /\ stop' \subseteq Clients \cup {nullptr}
  BY <1>1, TheQueue DEF TypeOK, States
<1> QED
  BY <1>1, <1>2, TheQueue, SameQueue, SameClient DEF TypeOK, Live

LEMMA FirstImageStep ==
    ASSUME LifecycleInv, NEW c \in Clients, FirstImage(c)
    PROVE  LifecycleInv'
<1>1. /\ thread[c] = "registered" /\ thread' = [thread EXCEPT ![c] = "drawing"]
      /\ \/ state_' = "kRunning" /\ Post("OnStart")
         \/ UNCHANGED <<state_, tasks>>
      /\ stop' \subseteq stop \cup {client_}
      /\ UNCHANGED <<active_, connected_, client_, allocated,
                     connect_delay_timer_, exists, started, early, join>>
  BY DEF FirstImage
<1>2. /\ client_ = c /\ client_ # nullptr /\ ThreadRuns
      /\ ~Queued("OnExit") /\ ~Queued("Reconnect")
  BY <1>1, TheThread
<1>3. thread' \in [Clients -> Phases] /\ \A d \in Clients : Live(d)' <=> Live(d)
  BY <1>1, TheQueue DEF TypeOK, Phases, Live
<1>4. state_' \in States /\ stop' \subseteq Clients \cup {nullptr}
  BY <1>1, <1>2, TheQueue DEF TypeOK, States
<1>5. started
  BY <1>2 DEF LifecycleInv, StartedIfInUse
<1>6. /\ tasks' \in Seq(Tasks) /\ QueuedOnce' /\ StartsBeforeExit'
      /\ \A x : x # "OnStart" => (Queued(x)' <=> Queued(x))
  <2>1. CASE Post("OnStart")
    <3>1. "OnStart" \in Tasks
      BY DEF Tasks
    <3> QED
      BY <1>2, <2>1, <3>1, TheQueue, QueueAfterPost
  <2>2. CASE UNCHANGED tasks
    BY <2>2, TheQueue DEF QueuedOnce, StartsBeforeExit, Queued
  <2> QED
    BY <1>1, <2>1, <2>2
<1>7. Waiting' <=> Waiting
  BY <1>1 DEF Waiting
<1> QED
  BY <1>1, <1>2, <1>3, <1>4, <1>5, <1>6, <1>7, TheQueue, SameClient DEF TypeOK

(* The thread ends: its client waits for the task to be freed by. *)
LEMMA DestructorStep ==
    ASSUME LifecycleInv, NEW c \in Clients, GuacamoleThreadDestructor(c)
    PROVE  LifecycleInv'
<1>1. /\ thread[c] # "none" /\ thread' = [thread EXCEPT ![c] = "none"]
      /\ state_' = "kStopped" /\ Post("OnExit")
      /\ UNCHANGED <<active_, connected_, client_, allocated, stop,
                     connect_delay_timer_, exists, started, early, join>>
  BY DEF GuacamoleThreadDestructor
<1>2. /\ client_ = c /\ client_ # nullptr
      /\ ~Queued("OnExit") /\ ~Waiting /\ ~Queued("Reconnect")
  BY <1>1, TheThread
<1>3. /\ tasks' \in Seq(Tasks) /\ QueuedOnce' /\ StartsBeforeExit'
      /\ \A x : Queued(x)' <=> Queued(x) \/ x = "OnExit"
  <2>1. "OnExit" \in Tasks
    BY DEF Tasks
  <2> QED
    BY <1>1, <1>2, <2>1, TheQueue, QueueAfterPost
<1>4. thread'[c] = "none" /\ \A d \in Clients : Live(d)' => Live(d)
  BY <1>1, TheQueue DEF TypeOK, Live
<1>5. TypeOK'
  BY <1>1, <1>3, TheQueue DEF TypeOK, States, Phases
<1>6. OneClient'
  BY <1>1, <1>4 DEF LifecycleInv, OneClient
<1>7. OneAtATime'
  BY <1>1, <1>2, <1>3, <1>4 DEF OneAtATime, ThreadRuns, ExitQueued, Waiting, ReconnectQueued
<1>8. StartedIfInUse' /\ WaitingIsActive' /\ RunningHasThread'
  BY <1>1, <1>2 DEF LifecycleInv, StartedIfInUse, WaitingIsActive, Waiting, RunningHasThread
<1> QED
  BY <1>1, <1>2, <1>3, <1>5, <1>6, <1>7, <1>8 DEF LifecycleInv

-----------------------------------------------------------------------------
LEMMA OnStartStep ==
    ASSUME LifecycleInv, OnStart
    PROVE  LifecycleInv'
<1>1. /\ Takes("OnStart") /\ tasks' = Tail(tasks)
      /\ \/ connected_' = TRUE /\ UNCHANGED guacVars
         \/ StopGuacamoleClient /\ UNCHANGED connected_
      /\ UNCHANGED <<active_, connect_delay_timer_, exists, started, early, join>>
  BY DEF OnStart
<1>2. /\ tasks' \in Seq(Tasks) /\ QueuedOnce' /\ StartsBeforeExit'
      /\ Queued("OnStart")
      /\ \A x : Queued(x)' => Queued(x)
      /\ \A x : Queued(x) => Queued(x)' \/ x = "OnStart"
  BY <1>1, TheQueue, QueueAfterTake
<1>3. started /\ client_ # nullptr
  BY <1>1, <1>2, TheQueue DEF Takes
<1>4. /\ UNCHANGED <<client_, allocated, thread>>
      /\ state_' \in {state_, "kStopping"} /\ stop' \subseteq Clients \cup {nullptr}
  <2>1. CASE UNCHANGED guacVars
    BY <2>1, TheQueue DEF guacVars, TypeOK
  <2>2. CASE StopGuacamoleClient
    BY <1>3, <2>2, StopClient
  <2> QED
    BY <1>1, <2>1, <2>2
<1>5. Waiting' <=> Waiting
  BY <1>1 DEF Waiting
<1>6. /\ state_' \in States
      /\ started /\ state_' = "kRunning" => ThreadRuns
  BY <1>4, TheQueue DEF TypeOK, States
<1>7. Queued("OnExit")' <=> Queued("OnExit")
  BY <1>2
<1> QED
  BY <1>1, <1>2, <1>3, <1>4, <1>5, <1>6, <1>7, TheQueue, SameClient DEF TypeOK, Live

(* The thread of the client that is freed has ended, and every OnStart of  *)
(* it has run.                                                             *)
LEMMA OnStopStep ==
    ASSUME LifecycleInv, OnStop
    PROVE  LifecycleInv'
<1>1. Takes("OnExit") /\ Queued("OnExit")
  <2>1. Takes("OnExit")
    BY DEF OnStop
  <2>2. 1 \in 1..Len(tasks) /\ tasks[1] = "OnExit"
    BY <2>1, TheQueue, EmptySeq, LenProperties DEF Takes
  <2> QED
    BY <2>1, <2>2 DEF Queued
<1>2. ~Waiting /\ ~Queued("Reconnect") /\ ~ThreadRuns /\ client_ # nullptr
  BY <1>1 DEF LifecycleInv, OneAtATime, ExitQueued, ReconnectQueued
<1>3. /\ client_' = nullptr /\ allocated' = allocated \ {client_} /\ connected_' = FALSE
      /\ tasks' = Tail(tasks) /\ connect_delay_timer_' \in {"waiting", connect_delay_timer_}
      /\ connect_delay_timer_' = "waiting" => active_
      /\ UNCHANGED <<active_, state_, thread, stop, exists, started, early, join>>
  BY <1>2 DEF OnStop, Waiting
<1>4. /\ tasks' \in Seq(Tasks) /\ QueuedOnce' /\ StartsBeforeExit'
      /\ \A x : Queued(x)' => Queued(x)
      /\ ~Queued("OnExit")' /\ ~Queued("OnStart")
  BY <1>1, <1>3, TheQueue, QueueAfterTake
<1>5. TypeOK'
  BY <1>3, <1>4, TheQueue DEF TypeOK
<1>6. \A c \in Clients : ~Live(c)
  BY <1>2 DEF LifecycleInv, OneClient, Live, ThreadRuns
<1>7. OneClient'
  BY <1>3, <1>6 DEF LifecycleInv, OneClient, Live
<1>8. OneAtATime'
  BY <1>2, <1>3, <1>4 DEF OneAtATime, ThreadRuns, ExitQueued, ReconnectQueued
<1>9. StartedIfInUse' /\ WaitingIsActive' /\ RunningHasThread'
  BY <1>2, <1>3 DEF LifecycleInv, StartedIfInUse, WaitingIsActive, Waiting, RunningHasThread
<1> QED
  BY <1>3, <1>4, <1>5, <1>7, <1>8, <1>9 DEF LifecycleInv

LEMMA DelayExpiresStep ==
    ASSUME LifecycleInv, DelayExpires
    PROVE  LifecycleInv'
<1>1. /\ Waiting /\ connect_delay_timer_' = "idle" /\ Post("Reconnect")
      /\ UNCHANGED <<active_, connected_, guacVars, exists, started, early, join>>
  BY DEF DelayExpires, Waiting
<1>2. ~Waiting'
  BY <1>1 DEF Waiting
<1>3. ~Queued("Reconnect")
  BY <1>1 DEF LifecycleInv, OneAtATime, ReconnectQueued
<1>4. /\ tasks' \in Seq(Tasks) /\ QueuedOnce' /\ StartsBeforeExit'
      /\ \A x : Queued(x)' <=> Queued(x) \/ x = "Reconnect"
  <2>1. "Reconnect" \in Tasks
    BY DEF Tasks
  <2> QED
    BY <1>1, <1>3, <2>1, TheQueue, QueueAfterPost
<1>5. started
  BY <1>1 DEF LifecycleInv, StartedIfInUse
<1> QED
  BY <1>1, <1>2, <1>4, <1>5, TheQueue, SameClient DEF TypeOK, Live, guacVars

LEMMA DelayHandlerStep ==
    ASSUME LifecycleInv, DelayHandler
    PROVE  LifecycleInv'
<1>1. PICK task \in {"Reconnect", "Cancelled"} : Takes(task)
  BY DEF DelayHandler
<1>2. /\ tasks' = Tail(tasks)
      /\ \/ task = "Reconnect" /\ active_ /\ StartGuacamoleClient
         \/ UNCHANGED guacVars
      /\ UNCHANGED <<active_, connected_, connect_delay_timer_, exists, started, early, join>>
  BY <1>1 DEF DelayHandler, Takes
<1>3. /\ tasks' \in Seq(Tasks) /\ QueuedOnce' /\ StartsBeforeExit'
      /\ Queued(task)
      /\ \A x : Queued(x)' => Queued(x)
      /\ \A x : Queued(x) => Queued(x)' \/ x = task
      /\ task = "Reconnect" => ~Queued("Reconnect")'
  BY <1>1, <1>2, TheQueue, QueueAfterTake
<1>4. started
  BY <1>1, TheQueue DEF Takes
<1>5. CASE task = "Reconnect" /\ active_ /\ StartGuacamoleClient
  <2>1. client_ = nullptr /\ ~Waiting
    BY <1>3, <1>5 DEF LifecycleInv, OneAtATime, ReconnectQueued
  <2>2. \A x : Queued(x)' => Queued(x) /\ x # "Reconnect"
    BY <1>3, <1>5
  <2>3. active_' = TRUE /\ started' = TRUE /\ early' \in BOOLEAN
    BY <1>2, <1>4, <1>5, TheQueue DEF TypeOK
  <2> QED
    BY <1>2, <1>3, <1>5, <2>1, <2>2, <2>3, StartClient
<1>6. CASE UNCHANGED guacVars
  <2>1. Waiting' <=> Waiting
    BY <1>2 DEF Waiting
  <2>2. Queued("OnExit")' <=> Queued("OnExit")
    BY <1>3
  <2> QED
    BY <1>2, <1>3, <1>4, <1>6, <2>1, <2>2, TheQueue, SameClient DEF TypeOK, Live, guacVars
<1> QED
  BY <1>2, <1>5, <1>6

(* The steps of a user that joins, and steps that change nothing. *)
LEMMA JoinStep ==
    ASSUME LifecycleInv, join'[1] \in {"none", "queued", "joining"},
           UNCHANGED <<active_, connected_, guacVars, tasks, connect_delay_timer_, exists, started, early>>
    PROVE  LifecycleInv'
  BY TheQueue, SameQueue, SameClient DEF TypeOK, Live, guacVars

LEMMA LifecycleNext ==
    ASSUME LifecycleInv, [Next]_vars, ~early'
    PROVE  LifecycleInv'
<1>1. CASE UNCHANGED vars
  BY <1>1, TheQueue, JoinStep DEF vars, guacVars, TypeOK
<1>2. ASSUME NEW c \in Clients, ThreadStep(c)
      PROVE  LifecycleInv'
  BY <1>2, FirstInstructionStep, DisconnectStep, FirstImageStep, DestructorStep DEF ThreadStep
<1>3. CASE Start \/ Stop \/ Restart \/ Delete
  BY <1>3, StartStep, StopStep, RestartStep, DeleteStep
<1>4. CASE StrandTask
  BY <1>4, OnStartStep, OnStopStep, DelayHandlerStep DEF StrandTask
<1>5. CASE DelayExpires
  BY <1>5, DelayExpiresStep
<1>6. CASE OnAddUser
  BY <1>6, JoinStep DEF OnAddUser
<1>7. CASE AddUserBegins
  BY <1>7, JoinStep DEF AddUserBegins
<1>8. CASE AddUserEnds
  BY <1>8, JoinStep DEF AddUserEnds
<1> QED
  BY <1>1, <1>2, <1>3, <1>4, <1>5, <1>6, <1>7, <1>8 DEF Next

-----------------------------------------------------------------------------
(* Types, also after an early start or deletion. *)
LEMMA PostedTask ==
    ASSUME tasks \in Seq(Tasks), NEW task \in Tasks, Post(task)
    PROVE  tasks' \in Seq(Tasks)
  BY AppendProperties DEF Post

LEMMA TakenTask ==
    ASSUME tasks \in Seq(Tasks), NEW task, Takes(task)
    PROVE  Tail(tasks) \in Seq(Tasks)
  BY HeadTailProperties, EmptySeq DEF Takes

LEMMA StartTypes ==
    ASSUME TypeOK, StartGuacamoleClient
    PROVE  /\ state_' \in States /\ client_' \in Clients \cup {nullptr}
           /\ allocated' \subseteq Clients /\ thread' \in [Clients -> Phases]
           /\ stop' \subseteq Clients \cup {nullptr}
  BY DEF TypeOK, StartGuacamoleClient, States, Phases

LEMMA StopTypes ==
    ASSUME TypeOK, StopGuacamoleClient
    PROVE  /\ state_' \in States /\ client_' \in Clients \cup {nullptr}
           /\ allocated' \subseteq Clients /\ thread' \in [Clients -> Phases]
           /\ stop' \subseteq Clients \cup {nullptr}
  BY DEF TypeOK, StopGuacamoleClient, States, Phases

LEMMA TypeNext ==
    ASSUME TypeOK, [Next]_vars
    PROVE  TypeOK' /\ (early => early')
<1>1. tasks \in Seq(Tasks) /\ {"OnStart", "OnExit", "Reconnect", "Cancelled"} = Tasks
  BY DEF TypeOK, Tasks
<1>2. CASE UNCHANGED vars
  BY <1>2 DEF vars, TypeOK
<1>3. CASE Start
  BY <1>3, StartTypes DEF Start, TypeOK
<1>4. CASE Stop
  <2>1. tasks' \in Seq(Tasks)
    BY <1>1, <1>4, PostedTask DEF Stop
  <2> QED
    BY <1>4, <2>1, StopTypes DEF Stop, TypeOK
<1>5. CASE Restart
  BY <1>5, StopTypes DEF Restart, TypeOK
<1>6. CASE Delete
  <2>1. tasks' \in Seq(Tasks)
    BY <1>1, <1>6, PostedTask DEF Delete
  <2> QED
    BY <1>6, <2>1 DEF Delete, TypeOK, States
<1>7. ASSUME NEW c \in Clients, ThreadStep(c)
      PROVE  TypeOK' /\ (early => early')
  <2>1. ASSUME NEW error \in BOOLEAN, FirstInstruction(c, error)
        PROVE  TypeOK' /\ (early => early')
    BY <2>1 DEF FirstInstruction, TypeOK, States, Phases
  <2>2. CASE DisconnectInstruction(c)
    BY <2>2 DEF DisconnectInstruction, TypeOK, States
  <2>3. CASE FirstImage(c)
    <3>1. tasks' \in Seq(Tasks)
      BY <1>1, <2>3, PostedTask DEF FirstImage
    <3> QED
      BY <2>3, <3>1 DEF FirstImage, TypeOK, States, Phases
  <2>4. CASE GuacamoleThreadDestructor(c)
    <3>1. tasks' \in Seq(Tasks)
      BY <1>1, <2>4, PostedTask DEF GuacamoleThreadDestructor
    <3> QED
      BY <2>4, <3>1 DEF GuacamoleThreadDestructor, TypeOK, States, Phases
  <2> QED
    BY <1>7, <2>1, <2>2, <2>3, <2>4 DEF ThreadStep
<1>8. CASE OnStart
  <2>1. tasks' \in Seq(Tasks)
    BY <1>1, <1>8, TakenTask DEF OnStart
  <2> QED
    BY <1>8, <2>1, StopTypes DEF OnStart, TypeOK, guacVars
<1>9. CASE OnStop
  <2>1. Tail(tasks) \in Seq(Tasks)
    BY <1>1, <1>9, TakenTask DEF OnStop
  <2>2. Append(Tail(tasks), "Cancelled") \in Seq(Tasks)
    BY <1>1, <2>1, AppendProperties
  <2> QED
    BY <1>9, <2>1, <2>2 DEF OnStop, TypeOK
<1>10. CASE DelayHandler
  <2>1. tasks' \in Seq(Tasks)
    BY <1>1, <1>10, TakenTask DEF DelayHandler
  <2> QED
    BY <1>10, <2>1, StartTypes DEF DelayHandler, TypeOK, guacVars
<1>11. CASE DelayExpires
  <2>1. tasks' \in Seq(Tasks)
    BY <1>1, <1>11, PostedTask DEF DelayExpires
  <2> QED
    BY <1>11, <2>1 DEF DelayExpires, TypeOK, guacVars
<1>12. CASE OnAddUser
  BY <1>12 DEF OnAddUser, TypeOK, guacVars
<1>13. CASE AddUserBegins
  BY <1>13 DEF AddUserBegins, TypeOK, guacVars
<1>14. CASE AddUserEnds
  BY <1>14 DEF AddUserEnds, TypeOK, guacVars
<1> QED
  BY <1>2, <1>3, <1>4, <1>5, <1>6, <1>7, <1>8, <1>9, <1>10, <1>11, <1>12, <1>13, <1>14
  DEF Next, StrandTask

(* The machine may be started, stopped, restarted and deleted at any time. *)
(* Until a start or the deletion comes before the last connection was      *)
(* over, no order of these with errors, exits and reconnections frees a    *)
(* guac_client under its thread, starts a second thread, or leaves state_  *)
(* or connected_ promising a client that is gone.                          *)
THEOREM ClientOutlivesItsThread == Spec => []VmInv
<1> DEFINE Inv == TypeOK /\ (~early => LifecycleInv)
<1>1. Inv => VmInv
  <2> SUFFICES ASSUME LifecycleInv
               PROVE  /\ OneThread /\ FreedAfterThreadExit
                      /\ RunningHasClient /\ ConnectedHasClient
    BY DEF VmInv
  <2>1. client_ # nullptr => client_ \in allocated
    BY DEF LifecycleInv, OneClient
  <2>2. OneThread /\ FreedAfterThreadExit
    BY <2>1, VmConstants DEF LifecycleInv, OneClient, OneThread, FreedAfterThreadExit
  <2>3. RunningHasClient /\ ConnectedHasClient
    BY <2>1, TheQueue DEF RunningHasClient, ConnectedHasClient, ThreadRuns
  <2> QED
    BY <2>2, <2>3
<1>2. Init => Inv
  BY LifecycleInit DEF LifecycleInv
<1>3. Inv /\ [Next]_vars => Inv'
  BY TypeNext, LifecycleNext
<1> HIDE DEF Inv
<1> QED
  BY <1>1, <1>2, <1>3, PTL DEF Spec
=============================================================================
