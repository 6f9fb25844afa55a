----------------------------- MODULE WebServer -----------------------------
(***************************************************************************)
(* The life of connections: WebServer's accept loop and shutdown, the HTTP *)
(* phase and the upgrade of WebServerSocket (src/WebSocketServer.hpp), and *)
(* the limit on connections of an IP address, CollabVmSocket::OnPreConnect *)
(* and the end of OnDisconnect (src/CollabVmServer.hpp).                   *)
(*                                                                         *)
(* Every connection has a strand of its own; sockets_ and the IPData of    *)
(* the address, which all connections here share, have one each, with a    *)
(* queue of tasks.  An asynchronous operation ends when the network says   *)
(* so and its handler runs some time later; closing the socket makes the   *)
(* operation fail, but not one that has ended already.                     *)
(***************************************************************************)
EXTENDS Integers, SequencesExt, FiniteSets

CONSTANTS
    Sockets,         \* bound: the connections a behaviour may have
    MaxConnections,  \* the setting of this name
    MaxChanges,      \* bound: changes of the settings
    MaxKicks         \* bound: Close calls by message handlers

ASSUME WebServerConstants ==
    /\ MaxConnections \in 0..255
    /\ MaxChanges \in Nat
    /\ MaxKicks \in Nat

VARIABLES
    phase,            \* what each connection is doing
    io,               \* its operation: none, pending, or ended
    tcp_open,         \* the TCP socket is open at this end
    closes,           \* Close handlers posted to its strand
    close_callback_,  \* close_callback_ is set
    ip_data_,         \* ip_data_ is set
    sockets_,         \* the list of connections
    stopping_,
    acceptor_open,
    tasks,            \* queue of the strand of sockets_
    connections,      \* IPData::connections, a uint8_t
    ip_tasks,         \* queue of the strand of the IPData
    max_connections_enabled,
    changes, kicks,   \* bounded counters
    always_enabled,   \* history: the limit has been on from the start
    counted,          \* history: connections for which connections was increased
    accept_failed     \* history: an accept failed on an open acceptor

webVars == <<phase, io, tcp_open, closes, close_callback_, ip_data_, sockets_, stopping_,
             acceptor_open, tasks, connections, ip_tasks, max_connections_enabled,
             changes, kicks, always_enabled, counted, accept_failed>>

socketVars == <<phase, io, tcp_open, closes, close_callback_, ip_data_>>
serverVars == <<sockets_, stopping_, acceptor_open, tasks, accept_failed>>
limitVars == <<connections, ip_tasks, max_connections_enabled, changes,
               always_enabled, counted>>

Phases == {"unused", "accept", "start", "read_header", "write_response", "get_ip_data",
           "get_settings", "count", "upgrade", "read_message", "ended"}

(* Phases in which an asynchronous operation is under way. *)
Operations == {"accept", "read_header", "write_response", "upgrade", "read_message"}

(* The tasks of the strand of sockets_. *)
AcceptTask == [do |-> "accept"]
StopTask == [do |-> "stop"]
RemoveTask(s) == [do |-> "remove", socket |-> s]

WebInit ==
    /\ phase = [s \in Sockets |-> "unused"]
    /\ io = [s \in Sockets |-> "none"]
    /\ tcp_open = [s \in Sockets |-> FALSE]
    /\ closes = [s \in Sockets |-> 0]
    /\ close_callback_ = [s \in Sockets |-> FALSE]
    /\ ip_data_ = [s \in Sockets |-> FALSE]
    /\ sockets_ = {}
    /\ stopping_ = FALSE
    /\ acceptor_open = TRUE
    /\ tasks = <<AcceptTask>>
    /\ connections = 0
    /\ ip_tasks = << >>
    /\ max_connections_enabled \in BOOLEAN
    /\ changes = 0
    /\ kicks = 0
    /\ always_enabled = max_connections_enabled
    /\ counted = {}
    /\ accept_failed = FALSE

(* Connection s goes on to phase p, where it may start an operation. *)
Goto(s, p) ==
    /\ phase' = [phase EXCEPT ![s] = p]
    /\ io' = [io EXCEPT ![s] = IF p \in Operations THEN "pending" ELSE "none"]

(* Close: posts a handler to the strand of s. *)
PostClose(s) == closes' = [closes EXCEPT ![s] = @ + 1]
-----------------------------------------------------------------------------
(* The network ends an operation.                                          *)
IoSucceeds(s) ==
    /\ io[s] = "pending"
    /\ IF phase[s] = "accept" THEN acceptor_open ELSE tcp_open[s]
    /\ io' = [io EXCEPT ![s] = "ok"]
    /\ tcp_open' = [tcp_open EXCEPT ![s] = TRUE]
    /\ UNCHANGED <<phase, closes, close_callback_, ip_data_, serverVars, limitVars, kicks>>

IoFails(s) ==
    /\ io[s] = "pending"
    /\ io' = [io EXCEPT ![s] = "error"]
    /\ accept_failed' = (accept_failed \/ (phase[s] = "accept" /\ acceptor_open))
    /\ UNCHANGED <<phase, tcp_open, closes, close_callback_, ip_data_, sockets_,
                   stopping_, acceptor_open, tasks, limitVars, kicks>>

(* The operation cannot succeed any more. *)
MustFail(s) ==
    IF phase[s] = "accept" THEN ~acceptor_open ELSE ~tcp_open[s]
-----------------------------------------------------------------------------
(* DoAccept's task: a new connection waits to be accepted. *)
DoAccept(s) ==
    /\ tasks # << >> /\ Head(tasks) = AcceptTask
    /\ tasks' = Tail(tasks)
    /\ ~stopping_
    /\ phase[s] = "unused"
    /\ sockets_' = sockets_ \cup {s}
    /\ close_callback_' = [close_callback_ EXCEPT ![s] = TRUE]
    /\ Goto(s, "accept")
    /\ UNCHANGED <<tcp_open, closes, ip_data_, stopping_, acceptor_open, accept_failed,
                   limitVars, kicks>>

(* Nothing is accepted while stopping, nor beyond the bound of the model. *)
DoAcceptNothing ==
    /\ tasks # << >> /\ Head(tasks) = AcceptTask
    /\ tasks' = Tail(tasks)
    /\ stopping_ \/ \A s \in Sockets : phase[s] # "unused"
    /\ UNCHANGED <<socketVars, sockets_, stopping_, acceptor_open, accept_failed,
                   limitVars, kicks>>

(* The handler of async_accept.  An error ends the accept loop. *)
AcceptHandler(s) ==
    /\ phase[s] = "accept" /\ io[s] \in {"ok", "error"}
    /\ IF io[s] = "error" \/ ~acceptor_open
       THEN Goto(s, "ended") /\ PostClose(s) /\ UNCHANGED tasks
       ELSE /\ Goto(s, "start")
            /\ tasks' = Append(tasks, AcceptTask)
            /\ UNCHANGED closes
    /\ UNCHANGED <<tcp_open, close_callback_, ip_data_, sockets_, stopping_,
                   acceptor_open, accept_failed, limitVars, kicks>>

(* Start: remote_endpoint fails on a socket that is closed or has lost its *)
(* peer.                                                                   *)
Start(s) ==
    /\ phase[s] = "start"
    /\ \/ tcp_open[s] /\ Goto(s, "read_header") /\ UNCHANGED closes
       \/ Goto(s, "ended") /\ PostClose(s)
    /\ UNCHANGED <<tcp_open, close_callback_, ip_data_, serverVars, limitVars, kicks>>

(* The handler of async_read_header: an error, the upgrade to a websocket, *)
(* a POST, or anything that is answered: a file, 404, 405.  Neither an     *)
(* error nor a POST calls Close.                                           *)
ReadHeaderHandler(s) ==
    /\ phase[s] = "read_header"
    /\ \/ io[s] = "error" /\ Goto(s, "ended") /\ UNCHANGED tcp_open
       \/ io[s] = "ok" /\ Goto(s, "get_ip_data") /\ UNCHANGED tcp_open
       \/ io[s] = "ok" /\ Goto(s, "write_response") /\ UNCHANGED tcp_open
       \/ /\ io[s] = "ok"
          /\ Goto(s, "ended")
          /\ tcp_open' = [tcp_open EXCEPT ![s] = FALSE]
    /\ UNCHANGED <<closes, close_callback_, ip_data_, serverVars, limitVars, kicks>>

(* The response is written: the next request is read on the connection. *)
WriteResponseHandler(s) ==
    /\ phase[s] = "write_response"
    /\ \/ io[s] = "ok" /\ Goto(s, "read_header")
       \/ io[s] = "error" /\ Goto(s, "ended")
    /\ UNCHANGED <<tcp_open, closes, close_callback_, ip_data_, serverVars, limitVars, kicks>>
-----------------------------------------------------------------------------
(* OnPreConnect: GetIPData, then the settings, then the IPData itself. *)
GetIPData(s) ==
    /\ phase[s] = "get_ip_data"
    /\ ip_data_' = [ip_data_ EXCEPT ![s] = TRUE]
    /\ Goto(s, "get_settings")
    /\ UNCHANGED <<tcp_open, closes, close_callback_, serverVars, limitVars, kicks>>

(* Mutant of GetSettings: the limit does not reach the address. *)
GetSettingsUnlimited(s) ==
    /\ phase[s] = "get_settings"
    /\ ip_tasks' = Append(ip_tasks, [do |-> "count", socket |-> s, limited |-> FALSE])
    /\ Goto(s, "count")
    /\ UNCHANGED <<tcp_open, closes, close_callback_, ip_data_, serverVars, connections,
                   max_connections_enabled, changes, always_enabled, counted, kicks>>

GetSettings(s) ==
    /\ phase[s] = "get_settings"
    /\ ip_tasks' = Append(ip_tasks, [do |-> "count", socket |-> s,
                                     limited |-> max_connections_enabled])
    /\ Goto(s, "count")
    /\ UNCHANGED <<tcp_open, closes, close_callback_, ip_data_, serverVars, connections,
                   max_connections_enabled, changes, always_enabled, counted, kicks>>

(* ++ip_data.connections > max_connections, evaluated if there is a limit. *)
CountConnection(s) ==
    LET n == (connections + 1) % 256 IN
    /\ ip_tasks # << >> /\ Head(ip_tasks).do = "count" /\ Head(ip_tasks).socket = s
    /\ ip_tasks' = Tail(ip_tasks)
    /\ IF Head(ip_tasks).limited
       THEN connections' = n /\ counted' = counted \cup {s}
       ELSE UNCHANGED <<connections, counted>>
    /\ IF Head(ip_tasks).limited /\ n > MaxConnections
       THEN Goto(s, "ended") /\ PostClose(s)
       ELSE Goto(s, "upgrade") /\ UNCHANGED closes
    /\ UNCHANGED <<tcp_open, close_callback_, ip_data_, serverVars,
                   max_connections_enabled, changes, always_enabled, kicks>>

(* Mutant of DiscountConnection: off by one. *)
DiscountConnectionAboveOne(s) ==
    /\ ip_tasks # << >> /\ Head(ip_tasks).do = "discount" /\ Head(ip_tasks).socket = s
    /\ ip_tasks' = Tail(ip_tasks)
    /\ connections' = IF connections > 1 THEN connections - 1 ELSE connections
    /\ counted' = counted \ {s}
    /\ UNCHANGED <<socketVars, serverVars, max_connections_enabled, changes,
                   always_enabled, kicks>>

(* The last task of OnDisconnect. *)
DiscountConnection(s) ==
    /\ ip_tasks # << >> /\ Head(ip_tasks).do = "discount" /\ Head(ip_tasks).socket = s
    /\ ip_tasks' = Tail(ip_tasks)
    /\ connections' = IF connections > 0 THEN connections - 1 ELSE connections
    /\ counted' = counted \ {s}
    /\ UNCHANGED <<socketVars, serverVars, max_connections_enabled, changes,
                   always_enabled, kicks>>

(* The handler of async_accept_ex. *)
UpgradeHandler(s) ==
    /\ phase[s] = "upgrade"
    /\ \/ io[s] = "ok" /\ Goto(s, "read_message") /\ UNCHANGED closes
       \/ io[s] = "error" /\ Goto(s, "ended") /\ PostClose(s)
    /\ UNCHANGED <<tcp_open, close_callback_, ip_data_, serverVars, limitVars, kicks>>

(* The handler of async_read.  OnMessage may throw, which only closes: the *)
(* next read is started all the same.                                      *)
ReadMessageHandler(s) ==
    /\ phase[s] = "read_message"
    /\ \/ io[s] = "error" /\ Goto(s, "ended") /\ PostClose(s) /\ UNCHANGED kicks
       \/ io[s] = "ok" /\ Goto(s, "read_message") /\ UNCHANGED <<closes, kicks>>
       \/ /\ io[s] = "ok" /\ kicks < MaxKicks
          /\ kicks' = kicks + 1
          /\ Goto(s, "read_message")
          /\ PostClose(s)
    /\ UNCHANGED <<tcp_open, close_callback_, ip_data_, serverVars, limitVars>>

(* A failed write of the send queue, or a kick by an administrator. *)
Kick(s) ==
    /\ phase[s] = "read_message"
    /\ kicks < MaxKicks
    /\ kicks' = kicks + 1
    /\ PostClose(s)
    /\ UNCHANGED <<phase, io, tcp_open, close_callback_, ip_data_, serverVars, limitVars>>

(* What OnDisconnect does to the count. *)
ReleaseConnection(s) ==
    ip_tasks' = IF ip_data_[s] THEN Append(ip_tasks, [do |-> "discount", socket |-> s])
                ELSE ip_tasks

(* Mutant of CloseHandler: close_callback_ is not cleared. *)
CloseHandlerAgain(s) ==
    /\ closes[s] > 0
    /\ closes' = [closes EXCEPT ![s] = @ - 1]
    /\ tcp_open' = [tcp_open EXCEPT ![s] = FALSE]
    /\ tasks' = Append(tasks, RemoveTask(s))
    /\ ReleaseConnection(s)
    /\ UNCHANGED <<phase, io, ip_data_, close_callback_, sockets_, stopping_, acceptor_open,
                   accept_failed, connections, max_connections_enabled, changes,
                   always_enabled, counted, kicks>>

(* The handler that Close posts.  The first one leaves the list and runs   *)
(* OnDisconnect.                                                           *)
CloseHandler(s) ==
    /\ closes[s] > 0
    /\ closes' = [closes EXCEPT ![s] = @ - 1]
    /\ tcp_open' = [tcp_open EXCEPT ![s] = FALSE]
    /\ close_callback_' = [close_callback_ EXCEPT ![s] = FALSE]
    /\ IF close_callback_[s]
       THEN tasks' = Append(tasks, RemoveTask(s)) /\ ReleaseConnection(s)
       ELSE UNCHANGED <<tasks, ip_tasks>>
    /\ UNCHANGED <<phase, io, ip_data_, sockets_, stopping_, acceptor_open, accept_failed,
                   connections, max_connections_enabled, changes, always_enabled,
                   counted, kicks>>

(* RemoveSocket's task. *)
RemoveSocket(s) ==
    /\ tasks # << >> /\ Head(tasks) = RemoveTask(s)
    /\ tasks' = Tail(tasks)
    /\ sockets_' = IF stopping_ THEN sockets_ ELSE sockets_ \ {s}
    /\ UNCHANGED <<socketVars, stopping_, acceptor_open, accept_failed, limitVars, kicks>>
-----------------------------------------------------------------------------
(* Stop, called once, by a signal: the acceptor is closed at once. *)
Stop ==
    /\ acceptor_open
    /\ acceptor_open' = FALSE
    /\ tasks' = Append(tasks, StopTask)
    /\ UNCHANGED <<socketVars, sockets_, stopping_, accept_failed, limitVars, kicks>>

(* Mutant of StopSockets: connections that are still being accepted are    *)
(* left out.                                                               *)
StopSocketsAccepted ==
    /\ tasks # << >> /\ Head(tasks) = StopTask
    /\ tasks' = Tail(tasks)
    /\ stopping_' = TRUE
    /\ closes' = [s \in Sockets |->
                    IF s \in sockets_ /\ phase[s] \notin {"accept", "start"}
                    THEN closes[s] + 1 ELSE closes[s]]
    /\ UNCHANGED <<phase, io, tcp_open, close_callback_, ip_data_, sockets_,
                   acceptor_open, accept_failed, limitVars, kicks>>

(* Stop's task. *)
StopSockets ==
    /\ tasks # << >> /\ Head(tasks) = StopTask
    /\ tasks' = Tail(tasks)
    /\ stopping_' = TRUE
    /\ closes' = [s \in Sockets |-> IF s \in sockets_ THEN closes[s] + 1 ELSE closes[s]]
    /\ UNCHANGED <<phase, io, tcp_open, close_callback_, ip_data_, sockets_,
                   acceptor_open, accept_failed, limitVars, kicks>>

(* An administrator turns the limit on or off. *)
UpdateServerSettings ==
    /\ changes < MaxChanges
    /\ changes' = changes + 1
    /\ max_connections_enabled' = ~max_connections_enabled
    /\ always_enabled' = FALSE
    /\ UNCHANGED <<socketVars, serverVars, connections, ip_tasks, counted, kicks>>

SocketNext(s) ==
    \/ IoSucceeds(s) \/ IoFails(s)
    \/ DoAccept(s) \/ AcceptHandler(s) \/ Start(s)
    \/ ReadHeaderHandler(s) \/ WriteResponseHandler(s)
    \/ GetIPData(s) \/ GetSettings(s) \/ CountConnection(s) \/ DiscountConnection(s)
    \/ UpgradeHandler(s) \/ ReadMessageHandler(s) \/ Kick(s)
    \/ CloseHandler(s) \/ RemoveSocket(s)

WebNext ==
    \/ \E s \in Sockets : SocketNext(s)
    \/ DoAcceptNothing
    \/ Stop
    \/ StopSockets
    \/ UpdateServerSettings

(* The io_context runs every handler, and an operation on a closed socket  *)
(* ends.  Peers, administrators and signals owe nothing.                   *)
Fairness ==
    /\ \A s \in Sockets :
        /\ WF_webVars(MustFail(s) /\ IoFails(s))
        /\ WF_webVars(DoAccept(s) \/ CountConnection(s) \/ DiscountConnection(s) \/ RemoveSocket(s))
        /\ WF_webVars(AcceptHandler(s) \/ Start(s) \/ ReadHeaderHandler(s)
                   \/ WriteResponseHandler(s) \/ GetIPData(s) \/ GetSettings(s)
                   \/ UpgradeHandler(s) \/ ReadMessageHandler(s))
        /\ WF_webVars(CloseHandler(s))
    /\ WF_webVars(DoAcceptNothing)
    /\ WF_webVars(StopSockets)

WebSpec == WebInit /\ [][WebNext]_webVars

FairSpec == WebSpec /\ Fairness
-----------------------------------------------------------------------------
IpTasks == [do : {"count"}, socket : Sockets, limited : BOOLEAN]
           \cup [do : {"discount"}, socket : Sockets]

WebTypeOK ==
    /\ phase \in [Sockets -> Phases]
    /\ io \in [Sockets -> {"none", "pending", "ok", "error"}]
    /\ tcp_open \in [Sockets -> BOOLEAN]
    /\ closes \in [Sockets -> Nat]
    /\ close_callback_ \in [Sockets -> BOOLEAN]
    /\ ip_data_ \in [Sockets -> BOOLEAN]
    /\ sockets_ \subseteq Sockets
    /\ stopping_ \in BOOLEAN
    /\ acceptor_open \in BOOLEAN
    /\ tasks \in Seq({AcceptTask, StopTask} \cup {RemoveTask(s) : s \in Sockets})
    /\ connections \in 0..255
    /\ ip_tasks \in Seq(IpTasks)
    /\ max_connections_enabled \in BOOLEAN
    /\ changes \in 0..MaxChanges
    /\ kicks \in 0..MaxKicks
    /\ always_enabled \in BOOLEAN
    /\ counted \subseteq Sockets
    /\ accept_failed \in BOOLEAN

(* RemoveSocket erases an iterator of the list: it is still valid, and no  *)
(* other task will erase it too.                                           *)
RemovedOnce ==
    \A s \in Sockets : \A i \in 1..Len(tasks) : tasks[i] = RemoveTask(s) =>
        /\ s \in sockets_ /\ ~close_callback_[s]
        /\ \A j \in 1..Len(tasks) : tasks[j] = RemoveTask(s) => j = i

(* Once the task of Stop has run, every connection it may have missed in   *)
(* a race with the accept loop is closed or is about to be: an open socket *)
(* has a Close on its way.                                                 *)
StopReachesAll ==
    stopping_ => \A s \in Sockets : tcp_open[s] \/ close_callback_[s] => closes[s] > 0

(* The server goes on accepting unless an accept failed: an accept is      *)
(* outstanding, or about to start, up to the bound of the model.           *)
AcceptLoopLives ==
    acceptor_open /\ ~accept_failed /\ (\E s \in Sockets : phase[s] = "unused") =>
        \/ \E s \in Sockets : phase[s] = "accept"
        \/ Contains(tasks, AcceptTask)

(* The invariant of the list of connections: nothing is erased from it     *)
(* twice, however many callers Close has, the accept loop goes on, and     *)
(* Stop misses nobody.                                                     *)
WebInv == WebTypeOK /\ RemovedOnce /\ AcceptLoopLives /\ StopReachesAll

(* Connections of the address between their count and their discount. *)
Active == {s \in Sockets :
             /\ phase[s] \in {"upgrade", "read_message", "ended"}
             /\ ip_data_[s]
             /\ close_callback_[s]}

(* Nobody is refused for connections that are gone, whatever the settings  *)
(* were: the count never exceeds the connections that were counted and not *)
(* yet discounted.  (While stopping a discount may overtake its count.)    *)
NeverOvercounted ==
    acceptor_open => connections <= Cardinality(counted)

(* With the limit on from the start the count is exact, and no more than   *)
(* MaxConnections websockets are ever open and not yet disconnected.       *)
LimitHolds ==
    acceptor_open /\ always_enabled =>
        /\ connections = Cardinality(counted)
        /\ Cardinality({s \in Active : phase[s] # "ended"}) <= MaxConnections

(* The count of an address never exceeds the connections that were         *)
(* counted, so it refuses nobody for those that are gone, however the      *)
(* setting changes; and while the limit has been on all the time it is     *)
(* exact and the limit holds.                                              *)
ConnectionsAreLimited == NeverOvercounted /\ LimitHolds

(* IPData: "The number of active connections from the IP.", at least while *)
(* there is a limit to hold it against.                                    *)
ConnectionsCountActive ==
    acceptor_open /\ max_connections_enabled => connections >= Cardinality(Active)

(* A server that is stopped is done with its connections: each of them     *)
(* ends, every close_callback_ is called and the accept loop is over.      *)
(* The other work of the io_context, as that of machines, is not here.     *)
StopCompletes ==
    ~acceptor_open ~>
        /\ \A s \in Sockets : phase[s] \in {"unused", "ended"} /\ closes[s] = 0
                              /\ ~close_callback_[s]
        /\ tasks = << >> /\ ip_tasks = << >>

(* ReadHttpRequest: "Request must be fully processed within 60 seconds.":  *)
(* what is read is answered or given up some day.                          *)
RequestsEnd ==
    \A s \in Sockets : phase[s] = "read_header" ~> phase[s] # "read_header"
=============================================================================
