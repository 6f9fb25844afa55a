# TLA+ verification of collab-vm-server 2.0

CollabVM lets many people on the web watch and, in turn, control virtual
machines.  The server is one C++ process built on Boost.Asio: a pool of threads
runs an `io_context`, and every piece of shared state is guarded by a strand.
Nearly all that can go wrong in it is a matter of order: which strand runs
first, which handler was already queued when something was cancelled, what a
value that was copied on one strand is worth on the next.  That is what the
modules here model.

Contents: [the system](#1-the-system), [the modules](#2-modules-and-code),
[the runs](#3-runs), [what the code does not keep](#4-what-the-code-does-not-keep),
[bounds](#5-bounds),
[fairness](#6-fairness-and-external-assumptions), [proofs](#7-proofs),
[limits](#8-what-is-not-modelled), [plan](#9-plan).

To check a run: `tlc -config TurnController.cfg MCTurnController`; to check the
proofs of a module: `tlapm TurnControllerProofs.tla`.  `PROJECT.json` lists the
runs, the lines of `src/` each definition models, a mutant for each property,
the hazards and the theorems.

## 1. The system

### Strands

`StrandGuard` owns an object and a strand.  `dispatch(f)` runs `f` on the strand
(at once when the caller is on it, later otherwise), `post(f)` always later,
`wrap(f)` makes a handler that is meant to run there.  Two handlers of one
strand never overlap and run in the order they were queued; nothing is promised
between two strands.  A request of a client hops over several of them:
`username_`, `guests_`, `virtual_machines_`, a channel, `sessions_`.  Between two
hops anything may happen.  A completed Asio wait or operation is a handler in a
queue, and `cancel` or `close` cannot take it back.

### Components

| component | state | operations | talks to | what is hard |
|---|---|---|---|---|
| **Turns** (`TurnController.hpp`) | queue of users, the position each keeps, timer, pause, whether turns are enabled | request, leave, pause, resume, end, settings and clear | VmState: broadcasts to the channel | timer handlers queued before a cancel; positions kept in two places; pause and resume; what clients are told of a setting |
| **Votes** (`VoteController.hpp`) | vote state, two counts, data of each voter, timer for vote and cooldown | vote, remove vote, stop, end, cooldown | VmState: restart of the machine | cancel by timer error; voters who leave; limit of changes |
| **Channels** (`UserChannel.hpp`, `CollabVmChatRoom.hpp`) | members and the name of each, ring buffer of messages | join, leave, change name, chat, clear | send queues of the members | wrap of the ring; joint between history and news; lists kept by names |
| **Send queue** (`CollabVmServer.hpp`: `QueueMessage`...) | queue, `sending_` | queue one or a batch, write completion | socket of the connection | two strands, lost wake-up, overlapping writes, failure |
| **VM life cycle** (`AdminVirtualMachine.hpp`, `GuacamoleClient.hpp`) | active, connected, `guac_client`, state of its thread, reconnect timer | start, stop, restart, delete, first instruction, first image, disconnect, exit, add user | a thread of libguac for each client | start and delete against thread exit; free against join; stop while starting |
| **Captcha** (`CaptchaVerifier.hpp`) | request, queue, settings, failures | verify, set settings, five network steps, retry | an HTTP service | settings changed under way; failures anywhere; exactly one answer |
| **Web server** (`WebSocketServer.hpp`, part of `CollabVmServer.hpp`) | connections, acceptor, `IPData::connections` | accept, HTTP, upgrade, read, close, stop | kernel; one strand for each connection | stop at any moment; many closers; count against a setting that changes |
| **Client session** (`CollabVmServer.hpp`: `CollabVmSocket`) | username, login, channel, viewing the list | connect to channel, change name, list, login, disconnect | five kinds of strand | every request is a chain of hops |
| **Accounts** (`Database.cpp`, part of `CollabVmServer.hpp`) | users, invites, reserved names, sessions | register, log in, change password, invites | sqlite, no strand | four strands use one database without transactions; crash |
| **VM list and info** (`CollabVmServer.hpp`: `VirtualMachinesList`) | machines, the lists shown to clients and to admins, pending answers and their count | bulk update on a timer, single update, create, delete | every machine's strand, viewers | callbacks that run off their strand; a single update between the answers of a bulk one; deletion under queued updates |
| **Direct chat** (`CollabVmServer.hpp`: NEW_DIRECT) | a table of rooms for each client | open, visit, confirm, refuse | another client's strand | three-step handshake of two strands, crossing requests, two limits |
| **Clients across machines** (`CollabVmServer.hpp`, `UserChannel.hpp`, `TurnController.hpp`) | channel and turn queue of each machine, one position for each client | join, leave, request and end a turn, expiry, disconnect | strands of two machines and of the list | the position is shared by all queues; leaving is a task that runs later |
| Instruction queue (`CollabVmGuacamoleClient.hpp`) | queue of instructions | write, flush | libguac threads, members | order of two flushes |
| Settings, TOTP, files, text, framing, `Main.cpp` | values | read, write, convert | - | nothing concurrent |

What makes each correct:

- turns: first come first served; nobody is overtaken or forgotten; every
  running turn is timed and ends; what clients are told is the queue;
- votes: the tally is the votes of those present, the limit holds, a vote ends;
- channels: a member's chat has neither gap nor repetition, and the names it lists
  are those of the members;
- send queue: one write at a time, in order, nothing lost, nothing left waiting;
- VM life cycle: no client is used or freed under a running thread; a stop stops
  and an active machine comes back;
- captcha: one answer to each request, in order, with the settings in force;
- web server: each connection leaves once, Stop reaches all, the limit holds;
- sessions: the channel, the name and the list agree with the client's own idea;
- accounts: an invite makes one account, a password change sticks, names differ;
- VM list: no update is published before its last answer, both lists agree with
  what is recorded of each machine, and they settle on the machines there are;
- direct chat: rooms are linked in pairs, the limits hold, requests are answered;
- across machines: a client waits in one queue, its position says where, and
  only members wait.

## 2. Modules and code

Names are those of the source, with its trailing underscores.  `PROJECT.json`
maps each definition to its lines.  One action is one handler, with all the
calls it makes; where the code is not on a strand (`Accounts`) it is one SQL
statement, and where two strands take part it is what one of them does.

**TurnQueue** is the promise of the turns: a queue whose users join at the end,
leave from anywhere or all at once, and never change places. **TurnController** is
`TurnController.hpp` with the broadcasts of `VmState`. `turn_timer_` is a record of
the user a pending wait is for and the time left; `completed` holds the handlers of
waits that ended with success and are queued: nothing removes them from there but
their run, which is what makes the check at the start of the handler matter.  Time
passes one unit at a time (`Tick`) and goes on below zero: between an expiry and its
handler the time remaining is negative, and that is what is broadcast; a pause keeps
it only if it is positive.  `ApplySettings` enables and disables the turns
(`turns_enabled`).  `announced` is what clients see of the last `vmTurnInfo`: the
queue, the state (ENABLED, DISABLED, PAUSED) and the time, which counts down while
the state is ENABLED.  `EndCurrentTurn` passes `RemoveUser` a reference to the very
element it erases; the model gives the meaning of a copy.

**MessageChannel** is the promise of a connection: what the peer has received
is always a prefix of what was sent.  **SendQueue** is the
write loop over two strands: `send_queue_` and `sending_` on one, `dispatched`,
`writing` and `completed` being the stations of a batch on the other and back.
The history variables `queued` and `wire` are the two ends of the channel, and
`dropped` is what a failed write took with it.

**VoteController** is `VoteController.hpp` and the members of the channel it
counts.  `wait` and `handler` are the timer and its queued handler, with the
error code the handler will see.  Counts are modulo `CountModulus`.  History
variables: `counted` for the limit, a flag for cancelled votes.

**UserChannel** is the members and the chat of a channel; `chat_view` and
`list_view` are what a client made of the messages it was sent, and `log` is the
whole chat, for which the code has no counterpart.  The messages about members carry
usernames and nothing else, so a client's list says how often each *name* is in it.
Names change while a client is in the channel (`ChangeUsername`), two members may
have one name, a client may be entered under another name than it has by now, and
one that joins the channel it is in is added to the lists of the others again;
`repeats` counts that.

**VmLifecycle** is a machine and its thread: `thread[c]` is what the thread of
client `c` has done so far, `tasks` the queue of the strand.  A client address
that was freed may be allocated again.  As in the code, `Start` looks at `active_` only,
and `Delete` (DELETE_VM) stops the machine and destroys it with its client in one
handler.  The history variable `early` records that one of the two came while
something of the last connection was left: a client that was not freed, the handler of
an expired delay, and for `Delete` any handler or join at all.  All these states are in
the run, and go on from there; the properties say what holds until then.

**CaptchaVerifier** is the verifier with one connection; `ops` are the
operations in progress with the settings they were begun with.  Each of them may fail,
any number of times.

**WebServer** is the accept loop, the phases of a connection, the count of an
address and shutdown.  A connection is in one phase; `io` tells whether its
operation is pending or has ended.  `RequestsEnd` is what the comment on the
deadline of requests promises.

**ClientSession** is the chain of hops of each message; `tasks` is the queue of each
strand.  A client that sends a request before the answer to the last one, or joins
the machine it is in, is marked `careless`: the code then leaves it in channels it
has left, or in none, and the properties are of the others. `LeaveVmList` tests the
plain bool `is_viewing_vm_list_` and then clears it, on whichever strand calls it: a
join runs it on the strand of a channel, a disconnect on that of the socket.  So it
takes two steps, `JoinTest` or `DisconnectTest` and the rest of the handler,
`tested` holds the calls between the two, and `raced` the clients for which two
calls passed the test for one entry.

**VmInfo** is `VirtualMachinesList`.  The callback of an update is wrapped with
the strand of the list, but the destructor of `VmInfoProducer` calls it where it
is, on the strand of a machine.  A callback therefore takes two steps: it begins
with a copy of what it reads and ends by writing what it made of the copy, and
`Threads` of them may be under way (`running`).  `raced` records that two used
the list at once, `overtaken` that a machine was created, deleted or updated
between the answers of a bulk update.

**DirectChat** is the handshake that opens a direct chat: the sender makes a
room, visits the recipient's table and comes back.  `tasks` is the strand of each
table.  The second room is made with `first` the recipient itself, as in the code.

**ClientTurns** composes what `TurnController`, `UserChannel` and `ClientSession`
model apart: several machines, each with a channel, a turn queue and a timer, and
clients that move between them.  `turn_queue_position_` is one for each client,
since `UserTurnData` is a base class of the socket.  `hasty` records that a client
was queued while another machine could still remove it, `rejoined` that it came to
the machine it was in or disconnected on its way.  `Rejoin` is the join whose
nested `dispatch` runs at once.  `TurnController` is the special case of clients
that are queued at one machine at a time; its theorems are about that case.

**Accounts** is the database as the four strands use it.  `registration`,
`password_change` and `session` are the calls in progress, with the values they have
read.  `rows_modified` is the count sqlite keeps for the connection.  `overlapped`
records that a password was written between the two statements of a `CreateSession`
of that account. `Crash` ends the process between any two statements.

Each has an `MC...` module with the definitions its configurations need, and
configurations (`.cfg`).

The theorems are in `TurnControllerProofs`, `VmLifecycleProofs`, `DirectChatProofs` and
`ClientSessionProofs`, each about one component, and in `SendAndCaptchaProofs`,
`ChannelAndWebProofs`, `VoteAndTurnsProofs` and `VmInfoAndAccountsProofs`, each about
two: one part for each, which uses nothing of the other.  So that both can be extended,
the names `CaptchaVerifier`, `WebServer`, `ClientTurns` and `Accounts` would share with
the others have a prefix there: `CaptchaInit`, `WebNext`, `ClientTurnsSpec`,
`AccountsTypeOK`, ...

Some definitions are variants that stand directly before the one they vary
(`NotMovedUp`, `RestartAtOnce`, ...).  No specification uses them: each is a
plausible mistake, `PROJECT.json` ("mutants") says which property detects it,
and replacing the original by it makes TLC find a violation.

## 3. Runs

All of them hold.

| run | shows |
|---|---|
| `turn_controller` | With pauses, removals, changes of the settings and stale handlers in any order: positions equal places, a running turn has its timer and a paused one has not, nobody waits while turns are disabled (`TurnQueueInv`), clients were told the queue as it is and, if anybody waits, whether it is paused and what is left of the running turn, past its expiry too (`ClientsSeeTheQueue`), a running turn is never extended (`CurrentTimeOnlyDecreases`), places are never swapped (`ImplementsTurnQueue`), turns end (`TurnsEnd`). |
| `send_queue` | One write at a time and no lost wake-up (`SendQueueInv`), no message is lost (`NothingLost`) or reordered (`ImplementsChannel`), messages arrive unless the connection fails, a failure disconnects. |
| `vote_controller` | One timer for each vote and the limit of changes (`VoteInv`), a tally that is right as long as no vote was cancelled, votes and cooldowns that end. |
| `user_channel` | The history is the end of the chat also when the ring wraps (`ChannelInv`); from history and news a member has an unbroken chat (`MembersFollowTheChat`); its list has each name as often as there are members of that name, whoever shares or changes one, and too often only after somebody joined again (`MembersSeeTheMembers`). |
| `vm_lifecycle` | Started, stopped, restarted and deleted at any time: until a start or a deletion was early, no client is freed under its thread, there is one thread at a time, and running and connected imply a client (`VmInv`); in behaviours without such an event a stop takes effect and an active machine reconnects. |
| `captcha_verifier` | Each request gets one answer, in order; one operation at a time (`CaptchaInv`); the settings are the current ones unless a change overtook the resolution; all are answered or rejected, unless requests are written for ever (`AnsweredOrSentForever`). |
| `web_server` | Each connection is removed once and the accept loop ends only by Stop or a failed accept and Stop misses none (`WebInv`), a count is never above the connections and the limit holds while it stays on (`ConnectionsAreLimited`), a stopped server is done with all its connections (`StopCompletes`). |
| `client_session` | Two clients, three messages and a disconnect at any moment: membership and the name shown (`SessionInv`) and the names in `guests_` (`NamesAreReserved`, among guests that wait for their requests) agree with what the clients believe; nobody is among the viewers of the list more often than its flag and the removals under way say, however calls of `LeaveVmList` overlap, and exactly as often unless two raced for one entry (`ViewersAreCounted`). |
| `accounts` | An invite makes at most one account, whatever administrators and crashes do, and registrations without an invite never share a name (`AccountInv`); an invite is not lost without one of them; a password change that was acknowledged is kept unless it was written between the statements of a `CreateSession` of that account (`PasswordSticksUnlessOverlapped`). |
| `vm_info` | However callbacks overlap, the lists are not rebuilt before every machine that was asked has answered, and the count of requests is exact as long as none overlap, also when machines asked are deleted (`RequestsInv`); between updates that nothing overtook both lists are right (`ListsMatchUnlessOvertaken`, which the assertion in `RemoveFirst` rests on); after the last change the timer brings clients the started machines whatever was overtaken (`ListSettles`). |
| `direct_chat` | Three clients: no table outgrows its limit or has two rooms to one client (`ChatInv`), no order of requests links the rooms of three clients (`EndsBelongTogether`), and only a request to oneself or one that crossed another may stay without an answer (`LostOnlyIfCrossed`). |
| `client_turns` | Two clients and two machines: as long as nobody is hasty each client is queued once over all machines, its position says where, no erase goes past an end and every turn is timed, also the turn of one that has left (`ClientTurnsInv`); whoever waits is a member, unless it rejoined (`QueuedAreMembersUnlessRejoined`). |

`TurnQueueInv`, `SendQueueInv`, `VoteInv`, `ChannelInv`, `VmInv`, `CaptchaInv`,
`WebInv`, `SessionInv`, `AccountInv`, `RequestsInv`, `ChatInv` and `ClientTurnsInv`
are each the type invariant of their module with the named
properties about the same state.  The inductive invariants from which they are proved
stand in the proof modules: `TurnInv`, `SendInv`, `VotingInv`,
`ChatInv` of `ChannelAndWebProofs` (not the one of `DirectChat`), `LifecycleInv`,
`VerifierInv`, `WebServerInv`, `ClientsInv`, `AccountsInv`, `VmInfoInv` with `ListsInv`,
`RoomsInv` and `TurnQueuesInv`.

Several properties carry a condition (`...UnlessCancelled`, `...UnlessOvertaken`,
`...UnlessOverlapped`).  The condition is a history variable that records
exactly the event without which the code is right; what the code does with that
event is described below, or is a hazard in `PROJECT.json`.

## 4. What the code does not keep

Met while modelling.  Each is stated in its module by the definition named
here, which no run lists because the code does not keep it; TLC refutes it at
once when it is added to the configuration of that module.  The properties of
the runs are what remains true beside them.

1. **Early start and deletion** (`GuacamoleClient.hpp:237` and
   `CollabVmServer.hpp:2157`, `ThreadHasItsClient`).  A start soon after a stop
   replaces `client_`, and frees it, while the thread of the last one runs; the exit
   of that thread then frees the new client.  The comment there says of the thread
   "when it exits it is safe to deallocate the guac_client".  DELETE_VM destroys the
   machine in the handler that stops it, which frees the client under its thread and
   leaves the handlers that are queued with a machine that is gone.  `VmInv` shows
   that nothing else does it.
2. **Names of registered users** (`CollabVmServer.hpp:442`,
   `RegisteredNameIsKept`).  "Registered users can't change their usernames", but
   a login that completes between the check and the last hop of CHANGE_USERNAME
   lets one do so.
3. **Votes of a cancelled vote** (`VoteController.hpp:92`,
   `CountedVotesAreTallied`).  The handler that sees the cancel returns before it
   resets the voters' data.  In the next vote they are taken to have voted: a
   vote is acknowledged and not counted, or taken off a count it was never in.
   `TallyIsRightUnlessCancelled` shows that nothing else spoils the tally.
4. **Join against free** (`GuacamoleClient.hpp:118`, `JoinedClientIsAllocated`).
   `AddUser` runs on the strand of a send queue and may be in the join handler
   when the machine's strand frees the client.
5. **Captcha settings** (`CaptchaVerifier.hpp:88`, `SentWithCurrentSettings`).
   Closing the socket does not stop a resolution; requests go to the old host.
6. **Captcha retries** (`CaptchaVerifier.hpp:169`, `AllAnswered` of
   `CaptchaVerifier`).  The count of failures is reset by each connection, so a service
   that accepts and then fails is retried for ever and no request is rejected.
   `AnsweredOrSentForever` shows that this is the only way to wait for ever.
7. **Count of connections** (`CollabVmServer.hpp:178`,
   `ConnectionsCountActive`).  It rises only while the limit is enabled and falls
   always: enabling the limit later undercounts.  A refused connection is
   counted until its disconnect has run, so 256 at once wrap the `std::uint8_t`.
8. **Request deadline** (`WebSocketServer.hpp:148`, `RequestsEnd`).  It is set
   and nothing waits for it.
9. **Generated names** (`CollabVmServer.hpp:1761`, `GeneratedNameIsFree`, with
   two clients and an account).  They are checked against guests only and may be
   the name of a client that is logged in.
10. **Names of accounts** (`Database/Database.cpp:299`, `UsernamesDiffer`).  The
    constraint whose error `CreateAccount` handles does not exist; an invite can
    make a second account of one name.
11. **Sessions** (`Database/Database.cpp:450`, `CurrentSessionIsValid`).  The old
    session id returned is the new one, so the session just made is the one that is
    invalidated.
12. **Updates of deleted machines** (`CollabVmServer.hpp:2412`,
    `NothingCrashes`).  A single update that was queued when its machine was
    deleted finds null in `admin_virtual_machines_` and dereferences it; a single
    update between the answers of a bulk one makes the list longer or shorter than
    was counted, which the assertion of `RemoveFirst` meets later.
13. **Crossed direct chats** (`CollabVmServer.hpp:580`, `AllAnswered` of
    `DirectChat`).  Two clients that write to each other at once link their rooms
    and neither is told.
14. **Rooms of recipients** (`CollabVmServer.hpp:610`, `RoomsLeadBack`).  The
    recipient's room leads to the recipient, so that its answers come back to it,
    and rooms outlive the client they lead to.
15. **Position shared by queues** (`CollabVmServer.hpp:55`,
    `NobodyElseIsRemoved`).  A client in the queue of one machine that joins
    another and takes a turn there is later erased from the first queue by its
    position in the second: somebody else loses a turn, or an empty queue is
    erased from.  The wait of a queue that became empty (`TurnController.hpp:18`)
    does the same.
16. **State of the turns** (`AdminVirtualMachine.hpp:297`, `ClientsSeeTheState`).
    Nothing is broadcast when turns are enabled, nor when they are disabled while
    nobody waits, and a new member is sent no turn information: clients go on
    showing the state of the last broadcast.  Whoever waits knows the state
    (`ClientsSeeTheQueue`).
17. **Time of a paused turn** (`TurnController.hpp:121`, `ClientsSeeThePausedTime` and
    `PausedTimeIsKept`).  Who joins or leaves the queue while it is paused has what was
    left on the cancelled timer broadcast, and not the time that is kept; and a second
    pause finds no wait to cancel and keeps a whole turn.
18. **Joining again** (`UserChannel.hpp:74`, `ListsHaveNoRepetition`).  The others
    are sent a second `UserListAdd` for a member that joins the channel it is in.
19. **Viewers of the list** (`CollabVmServer.hpp:1703`, `ViewersStayInTheList`).
    Two calls of `LeaveVmList` on two strands both pass the test and dispatch two
    removals for one entry.  A client that has asked for the list again in between
    is taken out of it and told nothing any more.  And a request for the list that
    runs after `OnDisconnect` leaves a client that is gone among the viewers, with
    its flag set.
20. **Passwords** (`Database/Database.cpp:452`, `PasswordSticks`).  `CreateSession`
    reads the whole row and writes it back; a password that was written in between,
    and acknowledged, is lost.

## 5. Bounds

Every bound is a CONSTANT with a comment that says so.

| run | bounds | why they are enough |
|---|---|---|
| turns | 3 users, turn times 0, 1 and 2, 2 queued handlers, a timer up to 1 unit late | a current user, one to move up and one behind it; a turn that has expired as it starts (nobody checks the time a machine was stored with); a stale handler together with the current one; a time below zero to pause and to show. The invariants are proved for all values. |
| send queue | 2 messages, 4 queued in all, batches of one and two, 1 foreign close | a write in flight, a batch collected meanwhile, one more, and an empty batch; proved for all values. |
| votes | 3 members, limit 2, counts modulo 16 | a majority and a tie; a member at its limit; a count below zero would show as 15. The invariants are proved for all values. |
| channel | 3 users, 2 names, ring of 2, 5 messages, 2 repeated additions to a list | the ring is empty, filling, full, and wraps twice; two of one name and a third, who sees them; proved for all values |
| machine | 2 client addresses, 3 tasks | the old and the new client; an exit, a first image and the timer together; proved for all values |
| captcha | 3 requests, 2 changes, 3 failures | one under way, two queued; a change overtaken by a change; the invariants are proved for all values |
| web server | 2 connections, limit 1, 1 change, 1 kick | one within the limit and one above; each race is of two; the invariants are proved for all values, the limit while fewer than 256 connections are counted |
| sessions | 2 clients, 3 messages in all, 1 disconnect, 2 machines, 2 names, one of them an account's | a request, one that overtakes it and one after both; competition for names is between two; the invariants are proved for all values |
| accounts | 1 name, 1 invite, 2 passwords, 3 users, 2 session ids, 2 sessions waiting to be made, 1 crash | a registration with and one without the invite, and room for an account too many; an old and a new password; an account that has a session, with which it changes its password, while another is made for it; the invariants are proved for all values |
| VM info | 2 machines, 2 threads, 1 single update queued for each, 4 changes | an answer that waits for another, a callback beside a callback; create, start, delete and one more; the invariants are proved for all values |
| direct chat | 3 clients, 2 rooms, 2 requests each | two that cross and a third that fills a table; proved for all values |
| client turns | 2 clients, 2 machines, 5 messages in all | join, turn, join, turn and one more of the other; the run also passes with 6 messages (6 million states, 3 minutes); the invariants are proved for all values |

Deadlock is checked where the system goes on for ever (turns, votes, channel,
accounts).  The machine (once it is deleted), the send queue, the captcha verifier,
the web server, the client sessions, direct chats, client turns and VM info (once it
has crashed or lost a decrement) do stop once their clients have sent all that the
bound allows or the server was stopped; there `CHECK_DEADLOCK FALSE` stands.

## 6. Fairness and external assumptions

- *Handlers.*  An `io_context` with running threads runs every queued handler,
  so each handler action has weak fairness.  This is all `turn_controller`,
  `vote_controller` and `web_server` need, with a clock that goes on (`Tick`,
  or a wait that completes).
- *Writes.*  `MessagesArrive` assumes that an `async_write` ends, with success
  or with failure.
- *Threads of libguac* (external): a thread sends an instruction before it exits,
  one that was stopped exits, and so does one that has sent DISCONNECT or ERROR.
  `StopTakesEffect` and `Reconnects` rest on it, and are about behaviours without an
  early start or deletion.
- *Captcha service* (external).  `CaptchaFairSpec` assumes only that operations end,
  with success or with failure; nothing is assumed of the service, which may fail
  every time.
- *Connections*: an operation on a closed socket ends.  A peer owes nothing,
  which is why `RequestsEnd` fails and `StopCompletes` must not rely on peers.
- *VM info*: the timer starts itself again and queued callbacks run; changes
  by administrators are finitely many (`MaxChanges`), which is what "after the
  last change" of `ListSettles` means.
- Users, administrators, signals and crashes have no fairness.

## 7. Proofs

TLAPS proves, for every value of the constants that satisfies the assumption
named in the module:

**TurnController** (in `TurnControllerProofs`), from `TurnConstants` (`NoUser` is
not a user, turn times are natural numbers, at least one handler may be queued; not
that Users is finite). The inductive invariant is

    TurnInv == TypeOK /\ PositionsMatchQueue /\ CurrentTurnIsTimed
                      /\ NoWaitWhilePaused /\ NoTurnsWhileDisabled
                      /\ ClientsSeeTheQueue

No conjunct but the type is inductive alone.  A removal erases the element at the
*position the user keeps*, so the queue shifts rightly only if positions match; that
also gives that nobody is in the queue twice.  The timer belongs to the head only if
the queue has moved as expected, and a resume finds no wait only if a pause left
none.  What was announced to those who wait is right only because nobody waits while
the turns are disabled: enabling them tells nobody.  The core is a set of lemmas on
positions: what appending a user, removing one from any place and clearing do to the
agreement of queue and positions.  `TurnQueueInvariant` and `TurnBroadcasts` follow
from the invariant; `TurnNotExtended` is the action property, by cases on the
actions; `TurnRefinement` shows that each step is a step of `TurnQueue` or leaves
the queue alone.

**SendQueue** (in `SendAndCaptchaProofs`), from `SendConstants` (batches are
sequences of messages). The invariant says which phase the write loop is in,

    SendInv == TypeOK /\ (Idle \/ Dispatched \/ Writing \/ Written \/ Failed)

each phase fixing `sending_`, where the one outstanding batch is and how `queued`
splits into what is on the wire, what is in flight, what was dropped and what waits.
`OneWriteAtATime` alone is not inductive: a second write is excluded because
`sending_` is set exactly while something is outstanding.  `SendOneWrite` and
`SendServed`, together `SendQueueInvariant`, and `SendNothingLost` follow, and
`SendRefinement` shows that a write that succeeds is the only step that changes the
channel's receiving end, by the messages that come next, which needs the split of
`queued`.

**VmInfo** (in `VmInfoAndAccountsProofs`), from `VmInfoConstants` (finitely many
machines, at least one thread).  `VmInfoRequests` is `RequestsInv`: the count of
pending requests is never below the number of missing answers, and equal to it while
no two callbacks overlapped.  It is not inductive alone, because a callback writes
back a count it copied earlier, and another callback may have written meanwhile.
The inductive invariant `VmInfoInv` adds that each copy is also at least the number
of missing answers, that a machine has one callback at a time (so that a callback
that begins is a new element and the cardinalities add up), and that while nothing
raced the only callback there is holds the count as it is.  The argument for
overlaps: an end makes one answer less missing and writes a copy less one, and the
copy was enough for all that were missing before; the counts left in the other
copies only become more generous.

`VmInfoListsMatch` is `ListsMatchUnlessOvertaken`, relative to `VmInfoInv`.  The
invariant `ListsInv` adds what holds *during* a bulk update: each machine is asked
at most once, the machines that have answered are those that owe no answer, and no
answer is left between updates (`AskedOnce`, `AnswersMatch`, `NoAnswersLeft`); and a
callback that nothing raced holds the lists as they are (`CopiesAreCurrent`).  Only
so does the end of the last callback publish exactly the machines.  The lists are
compared by how often they hold each machine, with lemmas on what appending,
`RemoveFirst` and the padding of the new list do to that number.

**VoteController** (in `VoteAndTurnsProofs`), from `VoteConstants` (a limit of at
least one, and fewer users than the counts can tell apart: the counts are
`std::uint32_t` and count connections).  The inductive invariant

    VotingInv == VoteInv /\ AttemptsBoundVotes /\ TallyIsRightUnlessCancelled
                         /\ NothingCountedBetweenVotes

bounds what was counted of each user by the attempts it made, which makes the limit of
changes inductive, and says that nothing is counted while no vote runs, which makes
the tally start right.  That the counts never wrap is a consequence: a count is the
number of users who decided so, and one is taken off only if it was in it.
`VoteStateIsSound` and `TallyIsRight` follow.

**UserChannel** (in `ChannelAndWebProofs`), from `ChannelConstants` (1 to 255 slots,
since the offset is a `std::uint8_t`).  The history that is sent is computed by two
loops over the ring, and the property is about their result; the invariant `ChatInv`
says instead where in the ring each recent message is (`RingHoldsTheRecentLog`),
which a write keeps because it overwrites the oldest.  From it `HistoryIsSuffix`
derives what the loops return. `HistoryIsRecent` and `ChatIsFollowed` follow: what a
member has before it is an unbroken end of the chat, whenever it joined.
`MembersSeeMembers` is about lists kept by names: lemmas on finite sets say how the
number of members of each name changes when one is entered, erased or renamed, and a
list keeps step because a removal takes off the name of the *entry*, which every
list has (a list never has a name too seldom).

**VmLifecycle** (in `VmLifecycleProofs`), from `VmConstants`.
`ClientOutlivesItsThread` is `VmInv`, of every behaviour.  The inductive invariant
is `TypeOK /\ (~early => LifecycleInv)`: types hold always, and the rest until a
start or a deletion was early, since `early` stays set (section 4, item 1).
`LifecycleInv` says that there is at most one client and only it has a thread
(`OneClient`), that of the running thread, its queued exit, the delay and the queued
reconnection one is there at a time (`OneAtATime`), that the exit and the
reconnection are queued at most once, and that what the thread posted before it
exited is queued before its exit (`StartsBeforeExit`).  The last is the reason why
`OnStart` never meets a client that was freed.

**DirectChat** (in `DirectChatProofs`), from `ChatConstants`.  The tables of two
clients are on two strands, so no step sees both ends of a chat; the proof is about
the tasks that carry a chat from one to the other, the *tokens*.  `RoomsInv` says
that a token runs on the strand it belongs to (`InPlace`), that no room has two of
them (`TokensDiffer`), that the room it speaks of is there (`TokensHaveRooms`,
`ConfirmedRoomsExist`), and that the room at the other end of a linked one leads
back to it or has no token left that would erase or relink it (`EndsStay`).
`RoomsWereOpened` and `MetRoomsWereCrossed` tie the rooms to the history `opened`,
so that a request that finds a room is known to have crossed another.
`TablesStayWithinLimits`, `TheEndsBelongTogether` and `OnlyCrossedRequestsAreLost`
follow.

**ClientSession** (in `ClientSessionProofs`), from `SessionConstants` (any clients,
names and machines, not even finitely many).  A request of a client hops over up to
four strands, and each strand interleaves the tasks of all clients.  The proof takes
each client by itself: `Pending(tasks, c)` is the *set* of its tasks wherever they
wait, and `Once` says that none waits twice.  `Sound` then relates that set to the
client's own state: the tasks belong to one request (`OneRequest`), each carries
what the client had when it was sent and still has (`TaskSound`), and each channel
shows the client exactly if it is there or a join or leave says otherwise (`InVms`,
`InGlobal`, `NamesShown`).  This holds of a client that waits for its requests
(`~careless`).  Names are what clients share: `NamesHeld` says that `guests_` maps a
name to a client exactly if the client has it, is about to get it or to give it back
(`Holds`).  Lemmas ending in `Sound` are about one client and a set of tasks, and
free of queues; `Pushing` and `Popping` say what a queue operation does to the sets;
one lemma ending in `Step` for each action joins the two.
`MembershipAndNamesAreRight` is `SessionInv` and `GuestNamesAreReserved` is
`NamesAreReserved`.  `ViewersStayCounted` is `ViewersAreCounted`, for all clients,
also careless ones: the entries a client has among the viewers are at most one for
its flag and one for each removal under way, wherever its calls of `LeaveVmList` are
between test and clearing, and exactly as many while no two of them raced.

**CaptchaVerifier** (in `SendAndCaptchaProofs`), from `CaptchaConstants`.  The
inductive invariant is

    VerifierInv == CaptchaInv /\ SettingsSound /\ StreamSound
                     /\ SentWithCurrentSettingsUnlessOvertaken
                     /\ RequestsSound /\ AnsweredOnceInOrder

`CaptchaInv` says that an operation in progress is the only one and is for the only
request in progress.  That the settings a request is sent with are the current ones is
not inductive: the host was fixed when the stream was opened, several operations
before.  `StreamSound` carries it along, from the resolution to the open stream, as
long as no change overtook a resolution.  `SettingsSound` says that the last settings
are the pending ones if there are any and that there are settings wherever they are
used.  `RequestsSound` gives that no answer was there before its call, from which each
request is answered at most once and in order.  `OneOperationAtATime`,
`NewSettingsReachTheService` and `CallbacksOnceInOrder` follow.

**WebServer** (in `ChannelAndWebProofs`), from `WebServerConstants` (a limit that is a
`std::uint8_t`; any connections).  The inductive invariant is

    WebServerInv == WebTypeOK /\ SocketsSound /\ StopIsLast /\ RemovedOnce
                      /\ StopReachesAll /\ AcceptLoopLives /\ IpTasksSound
                      /\ CountedSound /\ NeverOvercounted

A connection is closed from many places, and its close callback is what makes the first
of them the only one that counts: `SocketsSound` says that a connection with its
callback is in the list and an open one has its callback.  `ConnectionListIsSound` is
`WebInv`.  For the limit, `IpTasksSound` says that one count and one discount at most
are queued for a connection, and `CountedSound` that with the limit on from the start
whoever will be discounted was counted.  `LimitIsKept` is `ConnectionsAreLimited` under
`[]NoWrap`, fewer than 256 connections of the address counted at a time.  It is a
hypothesis of the theorem, because the code does not imply it: a connection that is
refused is counted too until its disconnect has run, the count is a `std::uint8_t`, and
the 256th connection counted would make it 0.

**ClientTurns** (in `VoteAndTurnsProofs`), from `ClientTurnsConstants` (any clients and
machines).  The inductive invariant is

    TurnQueuesInv == ClientTurnsTypeOK
                       /\ (~hasty => ~crashed /\ QueuesSound /\ RemovalsSound)
                       /\ CurrentTurnIsTimed /\ (\A c \in Clients : LeaveIsLast(c))
                       /\ RequestsAreOfMembers /\ QueuedAreMembersUnlessRejoined

Each machine removes a client by the one position all of them share.
`RemovalsSound` says that only the machine where a client is queued is about to remove
it, be it by its timer, by a handler of it that is queued or by a leave; `QueuesSound`
that positions and queues agree and nobody is queued at two machines.  Each needs the
other.  That whoever waits is a member rests on the order of one strand: `LeaveIsLast`
says that a client has one leave at a machine, behind all its requests for a turn there.
`Moved` describes what a step does to the strands, with lemmas on which tasks are still
there afterwards and in which order.  `OnePlaceOverAllMachines` is `ClientTurnsInv` and
`WaitingAreMembers` is `QueuedAreMembersUnlessRejoined`.

**Accounts** (in `VmInfoAndAccountsProofs`), from `AccountsConstants`.  The inductive
invariant is

    AccountsInv == AccountInv /\ LengthsAgree /\ CallsMatchRows /\ OpenInvitesAreUnused
                     /\ RegistrationIsSound /\ AcceptedInviteMakesAccount
                     /\ PasswordSticksUnlessOverlapped

A call writes back a row it has read some statements before.  `CallsMatchRows` says
what of that row still holds: the name always, the password unless one was written
since a `CreateSession` read the row.  An invite makes one account because it is
open until the registration that uses it has closed it: `OpenInvitesAreUnused`, and
for the registration between its statements, with an administrator and a crash
between any two, `RegistrationIsSound`.  `AccountsSafe` is `AccountInv`,
`AcceptedInvitesAreKept` is `AcceptedInviteMakesAccount` and
`AcknowledgedPasswordsStick` is `PasswordSticksUnlessOverlapped`.

Only model-checked: all liveness (`TurnsEnd`, `MessagesArrive`,
`FailureDisconnects`, `VotesEnd`, `StopTakesEffect`, `Reconnects`,
`AnsweredOrSentForever`, `StopCompletes`, `ListSettles`), which needs ENABLED and
fairness, out of this prover's reach.  Every other property of a run is stated by a
theorem.  No module uses a RECURSIVE operator.

## 8. What is not modelled

- *Meaning of undefined behaviour in C++ references*: the reference to an erased
  element in `EndCurrentTurn`, and the `remote_ip` that `Verify` captures by
  reference.  The model gives both the meaning of a copy.
- *The captcha request `req_`*: `SetSettings` changes its host, method and headers
  at once (`CaptchaVerifier.hpp:74`), also while it is being written.  The model has
  the settings an operation was begun with and not a request that changes under a
  write.
- *Where exceptions end*: a registration that throws ends the process in the model
  (`CreateUserThrows`).  If its dispatch ran inline, the `catch(...)` of the message
  handler (`CollabVmServer.hpp:205`) closes the socket instead, which the
  properties, being about the database, cannot tell from a request that was never
  sent.
- *The last answer of a bulk update*: the decrement (`CollabVmServer.hpp:2349`) and
  the publication (2358-2400) are one step, `EndBulk`.  They are of one callback,
  and differ for others only if callbacks overlap, which `raced` excludes from the
  exact properties.
- *The global channel in `ClientTurns`*: joining it leaves the machine and sets
  `connected_vm_id_` to 0 (`CollabVmServer.hpp:247`, 266-273).  It has no turn
  queue; leaving a machine is there as part of joining another and of disconnecting.
- *`AddVmListViewer`*: the test and the setting of the flag in VM_LIST_REQUEST are
  one step; only that one task sets it, and it runs on the strand of the list.
- *The wrap of `IPData::connections`* needs 256 connections and is out of reach of
  the run; the theorem names it as its hypothesis (section 7, WebServer).
- *The end of `io_context::run`*: `StopCompletes` is about connections.  A handler of
  `vm_info_timer_` that is queued when the server stops may arm the timer again
  (`CollabVmServer.hpp:1872-1880` against 1907-1917), and libguac's threads run on.
- *Pauses and the time of a turn*: `CurrentTimeOnlyDecreases` is about turns that
  run; what pauses do to the time is section 4, item 17.
- *Two-factor authentication*: its answer is computed and ignored by the login.
  HMAC and base32 are arithmetic on strings.
- *`last_username_change_`* is never assigned, so the pause between two changes
  of name it is meant for does not exist, and the model has none.
- *Unnamed invites*: the check in `Database.cpp` makes them unusable by a client
  that asks for a name; the model has the check as it is (`Mismatch`).
- *Reserved names*: the query that looks one up has three parameters and binds
  one.  The model follows what the code does with the answer.
- *Storage of settings, files, uploads, framing, text helpers, command line*:
  input and output or conversion, no state that outlives a call.
- *Instruction queue* (`CollabVmGuacamoleClient.hpp`): adding an instruction and
  taking the queue are each one critical section, and delivery is one task of the
  machine's strand.  The one question is the order of two flushes by two threads
  of libguac, which unlock before they dispatch; the code leaves it to the
  scheduler, and what libguac promises about its threads is not in this repository.
- *Thumbnails and the number of viewers shown* in the list of machines: data that
  no decision depends on.
- *Votes across machines*: a vote's data belongs to the membership of one channel,
  so `VoteController` with one channel is the whole of it.

## 9. Plan

Done, in this order: TurnQueue, TurnController, MessageChannel, SendQueue,
VoteController, UserChannel, VmLifecycle, CaptchaVerifier, WebServer,
ClientSession, Accounts; proofs of the first two components; VmInfo, DirectChat,
ClientTurns; proof of VmInfo.

Then the proofs of VoteController, UserChannel, DirectChat, VmLifecycle,
ClientSession and the lists of VmInfo; last those of CaptchaVerifier, WebServer,
Accounts and ClientTurns, so that every invariant and every action property the runs
check is proved.

Left: liveness beyond the model checker's instances, and the parts that section 8
names.
