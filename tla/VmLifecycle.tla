---------------------------- MODULE VmLifecycle ----------------------------
(***************************************************************************)
(* Starting, stopping, restarting, reconnecting and deleting one virtual   *)
(* machine: AdminVirtualMachine (src/AdminVirtualMachine.hpp) and its      *)
(* GuacamoleClient (src/GuacamoleClient.hpp).                              *)
(*                                                                         *)
(* Actors: the strand of the virtual machine; the thread libguac starts    *)
(* for each guac_client, which reports over the broadcast socket and posts *)
(* tasks to the strand when it draws first and when it exits; and the      *)
(* strand of a user's send queue, where the join handler of a user that    *)
(* connects may run (OnAddUser).  state_ is atomic and written by all.     *)
(*                                                                         *)
(* External, as src/ uses it: a client thread sends an instruction other   *)
(* than NOP before it exits, a stopped client's thread exits, and so does  *)
(* one that has sent DISCONNECT or ERROR.  An init_handler that fails (it  *)
(* throws) is left out.                                                    *)
(***************************************************************************)
EXTENDS Integers, Sequences

CONSTANTS
    nullptr,
    Clients,       \* guac_client addresses; one is reused once it is free
    MaxTasks       \* bound: tasks and timer handlers queued for the strand

ASSUME VmConstants ==
    /\ nullptr \notin Clients
    /\ MaxTasks \in Nat

VARIABLES
    active_,
    connected_,
    state_,       \* GuacamoleClient::state_
    client_,      \* the guac_client owned, or nullptr
    allocated,    \* guac_clients not freed
    thread,       \* guac_client -> what its thread has reported so far
    stop,         \* guac_clients stopped, or ending after DISCONNECT or ERROR
    tasks,        \* handlers queued for the strand of the virtual machine
    connect_delay_timer_,
    exists,       \* the machine has not been deleted
    started,      \* history: Start has been called
    early,        \* history: it was started or deleted before its last
                  \* connection was over
    join          \* a user's AddUser: not there, queued, or in its handler

vars == <<active_, connected_, state_, client_, allocated, thread, stop, tasks,
          connect_delay_timer_, exists, started, early, join>>

States == {"kStopped", "kStarting", "kRunning", "kStopping"}
Phases == {"none", "connecting", "registered", "drawing"}
Tasks == {"OnStart", "OnExit", "Reconnect", "Cancelled"}

(* state_ is not initialised by the constructor. *)
Init ==
    /\ active_ = FALSE
    /\ connected_ = FALSE
    /\ state_ \in States
    /\ client_ = nullptr
    /\ allocated = {}
    /\ thread = [c \in Clients |-> "none"]
    /\ stop = {}
    /\ tasks = << >>
    /\ connect_delay_timer_ = "idle"
    /\ exists = TRUE
    /\ started = FALSE
    /\ early = FALSE
    /\ join = <<"none">>

Post(task) == tasks' = Append(tasks, task)

(* The strand runs its handlers in the order they were queued. *)
Takes(task) ==
    /\ tasks # << >>
    /\ Head(tasks) = task

(* GuacamoleClient::Start: client_.reset frees the client there was; the   *)
(* new one gets its own thread in guac_client_add_user.                    *)
StartGuacamoleClient ==
    \E c \in Clients \ allocated :
        /\ thread[c] = "none"
        /\ state_' = "kStarting"
        /\ client_' = c
        /\ allocated' = (allocated \ {client_}) \cup {c}
        /\ thread' = [thread EXCEPT ![c] = "connecting"]
        /\ stop' = stop \ {c}

guacVars == <<state_, client_, allocated, thread, stop>>

(* GuacamoleClient::Stop *)
StopGuacamoleClient ==
    /\ state_' = "kStopping"
    /\ stop' = IF state_ = "kRunning" THEN stop \cup {client_} ELSE stop
    /\ UNCHANGED <<client_, allocated, thread>>

Queued(task) == \E i \in 1..Len(tasks) : tasks[i] = task

(* A connection is not over: its client is not freed, or the handler that  *)
(* would make the next one is queued.                                      *)
Connecting == client_ # nullptr \/ Queued("Reconnect")

(* Only active_ is tested: what is left of the last connection is not.     *)
Start ==
    /\ exists
    /\ ~active_
    /\ active_' = TRUE
    /\ started' = TRUE
    /\ early' = (early \/ Connecting)
    /\ StartGuacamoleClient
    /\ UNCHANGED <<connected_, tasks, connect_delay_timer_, exists, join>>

(* Stop: a cancelled wait still queues its handler, with an error. *)
Stop ==
    /\ exists
    /\ Len(tasks) < MaxTasks
    /\ active_
    /\ active_' = FALSE
    /\ IF connect_delay_timer_ = "waiting"
       THEN Post("Cancelled") ELSE UNCHANGED tasks
    /\ connect_delay_timer_' = "idle"
    /\ StopGuacamoleClient
    /\ UNCHANGED <<connected_, exists, started, early, join>>

(* Mutant of Restart: the new connection does not wait for the old. *)
RestartAtOnce ==
    /\ exists
    /\ active_
    /\ StartGuacamoleClient
    /\ UNCHANGED <<active_, connected_, tasks,
                   connect_delay_timer_, exists, started, early, join>>

Restart ==
    /\ exists
    /\ active_
    /\ StopGuacamoleClient
    /\ UNCHANGED <<active_, connected_, tasks, connect_delay_timer_, exists, started, early,
                   join>>

(* RemoveAdminVirtualMachine: the machine is stopped and destroyed at      *)
(* once, and its client with it.  Threads and handlers that are left run   *)
(* on, on what was freed.                                                  *)
Delete ==
    /\ exists
    /\ Len(tasks) < MaxTasks
    /\ exists' = FALSE
    /\ early' = (early \/ Connecting \/ tasks # << >> \/ connect_delay_timer_ # "idle"
                        \/ join # <<"none">>)
    /\ active_' = FALSE
    /\ IF active_
       THEN /\ state_' = "kStopping"
            /\ stop' = IF state_ = "kRunning" THEN stop \cup {client_} ELSE stop
       ELSE UNCHANGED <<state_, stop>>
    /\ client_' = nullptr
    /\ allocated' = allocated \ {client_}
    /\ IF connect_delay_timer_ = "waiting"
       THEN Post("Cancelled") ELSE UNCHANGED tasks
    /\ connect_delay_timer_' = "idle"
    /\ UNCHANGED <<connected_, thread, started, join>>

-----------------------------------------------------------------------------
(* The thread of client c.  broadcast_socket->write_handler is replaced    *)
(* after the first instruction, which registers the destructor of the      *)
(* thread, and after the first image.  Any instruction may be DISCONNECT   *)
(* or ERROR, which SocketWriteHandler looks for.                           *)
FirstInstruction(c, error) ==
    /\ thread[c] = "connecting"
    /\ thread' = [thread EXCEPT ![c] = "registered"]
    /\ state_' = IF error THEN "kStopping" ELSE state_
    /\ stop' = IF error THEN stop \cup {c} ELSE stop
    /\ UNCHANGED <<active_, connected_, client_, allocated, tasks,
                   connect_delay_timer_, exists, started, early, join>>

DisconnectInstruction(c) ==
    /\ thread[c] \in {"registered", "drawing"}
    /\ state_' = "kStopping"
    /\ stop' = stop \cup {c}
    /\ UNCHANGED <<active_, connected_, client_, allocated, thread, tasks,
                   connect_delay_timer_, exists, started, early, join>>

(* Mutant of FirstImage: a stop asked for while starting is forgotten. *)
FirstImageForgetsStop(c) ==
    /\ Len(tasks) < MaxTasks
    /\ thread[c] = "registered"
    /\ thread' = [thread EXCEPT ![c] = "drawing"]
    /\ IF state_ = "kStarting"
       THEN state_' = "kRunning" /\ Post("OnStart")
       ELSE UNCHANGED <<state_, tasks>>
    /\ UNCHANGED <<stop, active_, connected_, client_, allocated,
                   connect_delay_timer_, exists, started, early, join>>

FirstImage(c) ==
    /\ Len(tasks) < MaxTasks
    /\ thread[c] = "registered"
    /\ thread' = [thread EXCEPT ![c] = "drawing"]
    /\ IF state_ = "kStarting"
       THEN state_' = "kRunning" /\ Post("OnStart")
       ELSE UNCHANGED <<state_, tasks>>
    /\ stop' = IF state_ = "kStopping" THEN stop \cup {client_} ELSE stop
    /\ UNCHANGED <<active_, connected_, client_, allocated,
                   connect_delay_timer_, exists, started, early, join>>

(* The thread ends, because it was stopped or because the machine is gone. *)
GuacamoleThreadDestructor(c) ==
    /\ Len(tasks) < MaxTasks
    /\ thread[c] \in {"registered", "drawing"}
    /\ thread' = [thread EXCEPT ![c] = "none"]
    /\ state_' = "kStopped"
    /\ Post("OnExit")
    /\ UNCHANGED <<active_, connected_, client_, allocated, stop,
                   connect_delay_timer_, exists, started, early, join>>

-----------------------------------------------------------------------------
(* Tasks of the virtual machine's strand. *)
OnStart ==
    /\ Takes("OnStart")
    /\ tasks' = Tail(tasks)
    /\ IF active_
       THEN connected_' = TRUE /\ UNCHANGED guacVars
       ELSE StopGuacamoleClient /\ UNCHANGED connected_
    /\ UNCHANGED <<active_, connect_delay_timer_, exists, started, early, join>>

(* Mutant of OnStop: the machine is not reconnected. *)
OnStopGivesUp ==
    /\ Takes("OnExit")
    /\ client_' = nullptr
    /\ allocated' = allocated \ {client_}
    /\ connected_' = FALSE
    /\ tasks' = Tail(tasks)
    /\ UNCHANGED <<active_, state_, thread, stop,
                   connect_delay_timer_, exists, started, early, join>>

(* The task the destructor posted: client_ is freed, and after OnStop an   *)
(* active machine is connected to again in a second.  expires_after        *)
(* cancels a wait that has not finished.                                   *)
OnStop ==
    /\ Takes("OnExit")
    /\ client_' = nullptr
    /\ allocated' = allocated \ {client_}
    /\ connected_' = FALSE
    /\ IF active_
       THEN /\ connect_delay_timer_' = "waiting"
            /\ tasks' = IF connect_delay_timer_ = "waiting"
                        THEN Append(Tail(tasks), "Cancelled") ELSE Tail(tasks)
       ELSE /\ tasks' = Tail(tasks)
            /\ UNCHANGED connect_delay_timer_
    /\ UNCHANGED <<active_, state_, thread, stop, exists, started, early, join>>

DelayExpires ==
    /\ Len(tasks) < MaxTasks
    /\ connect_delay_timer_ = "waiting"
    /\ connect_delay_timer_' = "idle"
    /\ Post("Reconnect")
    /\ UNCHANGED <<active_, connected_, guacVars, exists, started, early, join>>

DelayHandler ==
    /\ Takes("Reconnect") \/ Takes("Cancelled")
    /\ tasks' = Tail(tasks)
    /\ IF Takes("Reconnect") /\ active_
       THEN StartGuacamoleClient ELSE UNCHANGED guacVars
    /\ UNCHANGED <<active_, connected_, connect_delay_timer_, exists, started, early, join>>

-----------------------------------------------------------------------------
(* A user connects: the batch queued by OnAddUser calls AddUser on the     *)
(* strand of the send queue.  AddUser reads state_, takes client_ and runs *)
(* its join and leave handlers.                                            *)
OnAddUser ==
    /\ exists
    /\ join = <<"none">>
    /\ join' = <<"queued">>
    /\ UNCHANGED <<active_, connected_, guacVars, tasks,
                   connect_delay_timer_, exists, started, early>>

AddUserBegins ==
    /\ join = <<"queued">>
    /\ join' = IF state_ = "kRunning" THEN <<"joining", client_>> ELSE <<"none">>
    /\ UNCHANGED <<active_, connected_, guacVars, tasks,
                   connect_delay_timer_, exists, started, early>>

AddUserEnds ==
    /\ join[1] = "joining"
    /\ join' = <<"none">>
    /\ UNCHANGED <<active_, connected_, guacVars, tasks,
                   connect_delay_timer_, exists, started, early>>

ThreadStep(c) ==
    \/ \E error \in BOOLEAN : FirstInstruction(c, error)
    \/ DisconnectInstruction(c)
    \/ FirstImage(c)
    \/ GuacamoleThreadDestructor(c)

StrandTask == OnStart \/ OnStop \/ DelayHandler

Next ==
    \/ Start \/ Stop \/ Restart \/ Delete
    \/ \E c \in Clients : ThreadStep(c)
    \/ StrandTask
    \/ DelayExpires
    \/ OnAddUser \/ AddUserBegins \/ AddUserEnds

Spec == Init /\ [][Next]_vars

(* io_context runs what is queued and timers expire.  External: a client's *)
(* connection attempt reports something, then draws or ends, and a client  *)
(* in stop ends.                                                           *)
Fairness ==
    /\ WF_vars(StrandTask)
    /\ WF_vars(DelayExpires)
    /\ \A c \in Clients :
        /\ WF_vars(\E error \in BOOLEAN : FirstInstruction(c, error))
        /\ WF_vars(FirstImage(c) \/ (thread[c] = "registered" /\ GuacamoleThreadDestructor(c)))
        /\ WF_vars(c \in stop /\ GuacamoleThreadDestructor(c))

FairSpec == Spec /\ Fairness
-----------------------------------------------------------------------------
TypeOK ==
    /\ active_ \in BOOLEAN
    /\ connected_ \in BOOLEAN
    /\ state_ \in States
    /\ client_ \in Clients \cup {nullptr}
    /\ allocated \subseteq Clients
    /\ thread \in [Clients -> Phases]
    /\ stop \subseteq Clients \cup {nullptr}
    /\ tasks \in Seq(Tasks)
    /\ connect_delay_timer_ \in {"idle", "waiting"}
    /\ exists \in BOOLEAN
    /\ started \in BOOLEAN
    /\ early \in BOOLEAN
    /\ join[1] \in {"none", "queued", "joining"}

Live(c) == thread[c] # "none"

(* A guac_client is freed only after its thread has exited: the comment in *)
(* CreateClient, "when it exits it is safe to deallocate the guac_client". *)
FreedAfterThreadExit ==
    \A c \in Clients : Live(c) => c \in allocated

(* Across starts, reconnections and stops no more than one thread draws    *)
(* into the instruction queue of the virtual machine.                      *)
OneThread ==
    \A c, d \in Clients : Live(c) /\ Live(d) => c = d

(* Once the machine has been started, kRunning on the strand means there   *)
(* is a client to join and to stop: AddUser, CreateScreenshot and Stop     *)
(* test only state_.                                                       *)
RunningHasClient ==
    started /\ state_ = "kRunning" => client_ \in allocated

(* Input is passed to the client while connected_ is set (ReadInstruction):*)
(* the connected machine has its client, whatever order the first image,   *)
(* a stop and the exit of the thread came in.                              *)
ConnectedHasClient ==
    connected_ => client_ \in allocated

(* The invariant of the machine and its client on the strand: at most one  *)
(* thread, whose client is not freed under it, and a client wherever       *)
(* state_ or connected_ promise one.  Start and DELETE_VM do not wait for  *)
(* the last connection; only one of them that was early breaks it, no      *)
(* order of stops, restarts, errors, exits and reconnections does.         *)
VmInv ==
    /\ TypeOK
    /\ ~early => /\ OneThread /\ FreedAfterThreadExit
                 /\ RunningHasClient /\ ConnectedHasClient

(* Not kept: a Start soon after a Stop, or DELETE_VM, frees the client     *)
(* under its thread.                                                       *)
ThreadHasItsClient == OneThread /\ FreedAfterThreadExit

(* AddUser runs the join handler of a guac_client that has not been freed: *)
(* the comment in CreateClient says the exit of the thread makes it safe.  *)
JoinedClientIsAllocated ==
    join[1] = "joining" => join[2] \in allocated \cup {nullptr}

(* A machine that is stopped for good, at whatever point of a connection   *)
(* or reconnection, ends up with no client, no thread and not connected,   *)
(* if no start or deletion was early.                                      *)
StopTakesEffect ==
    []~early /\ <>[](~active_) =>
        <>[](client_ = nullptr /\ ~connected_ /\ \A c \in Clients : ~Live(c))

(* A machine that stays active is connected to again and again: no         *)
(* restart, error or lost connection leaves it without a thread for good,  *)
(* if it was not started early.                                            *)
Reconnects ==
    []~early /\ <>[]active_ => []<>(\E c \in Clients : Live(c))
=============================================================================
