------------------------------ MODULE Accounts ------------------------------
(***************************************************************************)
(* Accounts, invites and sessions: Database (src/Database/Database.cpp)    *)
(* and the messages of CollabVmSocket that use it                          *)
(* (src/CollabVmServer.hpp).                                               *)
(*                                                                         *)
(* The database has no strand.  Registrations run on the strand of         *)
(* settings_, logins and changes of passwords on login_strand_,            *)
(* CreateSession on the strand of sessions_ and invites on the strand of   *)
(* the administrator's socket, at the same time and without transactions.  *)
(* A step is one SQL statement, which sqlite makes atomic, with the code   *)
(* up to the next one; a statement that reads only what the same strand    *)
(* writes is joined to the next.  Crash ends the process at any step and   *)
(* starts it again with the tables it left.                                *)
(*                                                                         *)
(* Left out: two-factor authentication, whose result is ignored, disabled  *)
(* accounts, which nothing disables, captchas and password lengths.        *)
(***************************************************************************)
EXTENDS Integers, Sequences, FiniteSets

CONSTANTS
    Names,       \* valid usernames
    Passwords,
    Invites,     \* bound: the invite ids that may be generated
    SessionIds,  \* bound: the session ids that may be generated
    None,        \* no invite, session or task
    MaxUsers,    \* bound: registrations that may succeed
    MaxTasks,    \* bound: sessions a login may leave waiting to be created
    MaxCrashes   \* bound

(* Usernames an account or an invite may have: an invite need not name one. *)
Usernames == Names \cup {""}

RowType == [username : Usernames, password : Passwords,
            session_id : SessionIds \cup {None}, is_admin : BOOLEAN]

InviteType == [username : Usernames, is_admin : BOOLEAN, accepted : BOOLEAN]

RegistrationType == [step : {"accept", "accepted", "create"}, username : Usernames,
                     invite : Invites \cup {None}, password : Passwords]

ASSUME AccountsConstants ==
    /\ "" \notin Names
    /\ None \notin Names \cup Invites \cup SessionIds \cup {""}
    /\ None \notin InviteType \cup RegistrationType   \* std::nullopt is no value
    /\ MaxUsers \in Nat
    /\ MaxTasks \in Nat
    /\ MaxCrashes \in Nat

VARIABLES
    User,                 \* the table: a row is at its Id
    UserInvite,           \* the table: the row of each invite id, or None
    UnavailableUsername,  \* the table: a set of names
    rows_modified,        \* sqlite3_changes() # 0, of the one connection
    registration,         \* CreateAccount under way, or None
    password_change,      \* ChangePassword between its statements, or None
    session,              \* Database::CreateSession between its statements, or None
    session_tasks,        \* the queue of the strand of sessions_
    invite_check,         \* CreateInvite between its statements, or None
    sessions_,            \* the user of each session, or None
    crashes,              \* bounded counter
    origin,               \* history: the invite each account was made by, or None
    acknowledged,         \* history: the password each user was told it has
    overlapped,           \* history: accounts whose row CreateSession had read before a change
    spoiled,              \* history: invites whose registration was disturbed
    invalidated           \* history: sessions for which InvalidateSession was called

tables == <<User, UserInvite, UnavailableUsername>>
history == <<origin, acknowledged, overlapped, spoiled, invalidated>>
accountsVars == <<tables, rows_modified, registration, password_change, session,
                  session_tasks, invite_check, sessions_, crashes, history>>

(* What no statement of an administrator changes. *)
userVars == <<User, registration, password_change, session, session_tasks, sessions_,
              crashes, origin, acknowledged, overlapped, invalidated>>

AccountsInit ==
    /\ User = << >>
    /\ UserInvite = [i \in Invites |-> None]
    /\ UnavailableUsername = {}
    /\ rows_modified = FALSE
    /\ registration = None
    /\ password_change = None
    /\ session = None
    /\ session_tasks = << >>
    /\ invite_check = None
    /\ sessions_ = [s \in SessionIds |-> None]
    /\ crashes = 0
    /\ origin = << >>
    /\ acknowledged = << >>
    /\ overlapped = {}
    /\ spoiled = {}
    /\ invalidated = {}

(* The rows of a username; GetUser returns the last of them, or 0. *)
Rows(name) == {i \in DOMAIN User : User[i].username = name}

GetUser(name) ==
    IF Rows(name) = {} THEN 0 ELSE CHOOSE i \in Rows(name) : \A j \in Rows(name) : j <= i

(* Mutant of UpdateUser: WHERE Username = ? *)
UpdateUserByName(i, row) ==
    [j \in DOMAIN User |-> IF User[j].username = row.username THEN row ELSE User[j]]

(* UpdateUser writes every column of the row, also those nobody changed. *)
UpdateUser(i, row) == [User EXCEPT ![i] = row]
-----------------------------------------------------------------------------
(* Registration without an invite, up to CreateAccount's first query: two  *)
(* of its three parameters are not bound, so it only looks at User.        *)
(* Mutant: the parameter that is bound is another one.                     *)
UsernameReserved(name) == name \in UnavailableUsername

UsernameTaken(name) == Rows(name) # {}

Register(name, password) ==
    /\ registration = None
    /\ Len(User) < MaxUsers
    /\ ~UsernameTaken(name)
    /\ registration' = [step |-> "create", username |-> name, invite |-> None,
                        password |-> password]
    /\ UNCHANGED <<tables, rows_modified, password_change, session, session_tasks,
                   invite_check, sessions_, crashes, history>>

(* The test of ValidateInvite's answer against the length of the username  *)
(* in the request: valid_username.empty() ^ requested_username.size().     *)
Mismatch(username, size) == (IF username = "" THEN 1 ELSE 0) # size

IsOpen(i) == UserInvite[i] # None /\ ~UserInvite[i].accepted

(* Mutant of ValidateInvite: the invite is accepted before the request is  *)
(* checked against it.                                                     *)
ValidateInviteAccepts(i, size, password) ==
    /\ registration = None
    /\ Len(User) < MaxUsers
    /\ IsOpen(i)
    /\ IF Mismatch(UserInvite[i].username, size)
       THEN UNCHANGED registration
       ELSE registration' = [step |-> "create", username |-> UserInvite[i].username,
                             invite |-> i, password |-> password]
    /\ UserInvite' = [UserInvite EXCEPT ![i].accepted = TRUE]
    /\ UNCHANGED <<User, UnavailableUsername, rows_modified, password_change, session,
                   session_tasks, invite_check, sessions_, crashes, history>>

(* Registration with an invite: ValidateInvite. *)
ValidateInvite(i, size, password) ==
    /\ registration = None
    /\ Len(User) < MaxUsers
    /\ IsOpen(i)
    /\ ~Mismatch(UserInvite[i].username, size)
    /\ registration' = [step |-> "accept", username |-> UserInvite[i].username,
                        invite |-> i, password |-> password]
    /\ UNCHANGED <<tables, rows_modified, password_change, session, session_tasks,
                   invite_check, sessions_, crashes, history>>

(* Mutant of AcceptInvite: the update does not set Accepted. *)
AcceptInviteUnmarked ==
    /\ registration # None /\ registration.step = "accept"
    /\ rows_modified' = IsOpen(registration.invite)
    /\ registration' = [registration EXCEPT !.step = "accepted"]
    /\ UNCHANGED <<tables, password_change, session, session_tasks, invite_check,
                   sessions_, crashes, history>>

(* UPDATE UserInvite SET Accepted = 1 WHERE Id = ? AND Accepted = 0 *)
AcceptInvite ==
    LET i == registration.invite IN
    /\ registration # None /\ registration.step = "accept"
    /\ rows_modified' = IsOpen(i)
    /\ UserInvite' = IF IsOpen(i) THEN [UserInvite EXCEPT ![i].accepted = TRUE]
                     ELSE UserInvite
    /\ registration' = [registration EXCEPT !.step = "accepted"]
    /\ UNCHANGED <<User, UnavailableUsername, password_change, session, session_tasks,
                   invite_check, sessions_, crashes, history>>

(* db_.rows_modified(), which may tell of another thread's statement. *)
CheckRowsModified ==
    /\ registration # None /\ registration.step = "accepted"
    /\ registration' = IF rows_modified THEN [registration EXCEPT !.step = "create"]
                       ELSE None
    /\ UNCHANGED <<tables, rows_modified, password_change, session, session_tasks,
                   invite_check, sessions_, crashes, history>>

(* The end of CreateAccount, once the password is hashed: IsAdmin comes    *)
(* from the invite or from being the first, and Username is not UNIQUE.    *)
CreateUser ==
    LET i == registration.invite
        is_admin == IF i # None THEN UserInvite[i].is_admin ELSE User = << >>
    IN
    /\ registration # None /\ registration.step = "create"
    /\ i # None => UserInvite[i] # None
    /\ User' = Append(User, [username |-> registration.username,
                             password |-> registration.password,
                             session_id |-> None, is_admin |-> is_admin])
    /\ rows_modified' = TRUE
    /\ registration' = None
    /\ session_tasks' = Append(session_tasks, registration.username)
    /\ origin' = Append(origin, i)
    /\ acknowledged' = Append(acknowledged, registration.password)
    /\ UNCHANGED <<UserInvite, UnavailableUsername, password_change, session,
                   invite_check, sessions_, crashes, overlapped, spoiled, invalidated>>

(* A statement of another strand between the update of an invite and the   *)
(* reading of rows_modified disturbs that registration.                    *)
Disturbed ==
    IF registration # None /\ registration.step = "accepted"
    THEN spoiled \cup {registration.invite} ELSE spoiled

(* The process ends.  CreateUser's query of a row that is gone throws out  *)
(* of its handler, which has the same effect.                              *)
Crash ==
    /\ crashes < MaxCrashes
    /\ crashes' = crashes + 1
    /\ rows_modified' = FALSE
    /\ registration' = None
    /\ password_change' = None
    /\ session' = None
    /\ session_tasks' = << >>
    /\ invite_check' = None
    /\ sessions_' = [s \in SessionIds |-> None]
    /\ spoiled' = IF registration # None /\ registration.invite # None
                  THEN spoiled \cup {registration.invite} ELSE spoiled
    /\ UNCHANGED <<tables, origin, acknowledged, overlapped, invalidated>>

CreateUserThrows ==
    /\ registration # None /\ registration.step = "create"
    /\ registration.invite # None /\ UserInvite[registration.invite] = None
    /\ Crash
-----------------------------------------------------------------------------
(* LOGIN_REQUEST: one query on login_strand_. *)
Login(name, password) ==
    /\ Len(session_tasks) < MaxTasks
    /\ GetUser(name) # 0
    /\ User[GetUser(name)].password = password
    /\ session_tasks' = Append(session_tasks, name)
    /\ UNCHANGED <<tables, rows_modified, registration, password_change, session,
                   invite_check, sessions_, crashes, history>>

(* CreateSession: GenerateSessionId and GetUser, which finds somebody. *)
CreateSessionReads(s) ==
    /\ session = None /\ session_tasks # << >>
    /\ sessions_[s] = None
    /\ session' = [id |-> GetUser(Head(session_tasks)),
                   row |-> User[GetUser(Head(session_tasks))], new |-> s]
    /\ UNCHANGED <<tables, rows_modified, registration, password_change, session_tasks,
                   invite_check, sessions_, crashes, history>>

(* SessionId is UNIQUE: a session id that another row has is not written   *)
(* and CreateSession starts over.                                          *)
SessionIdExists ==
    \E i \in DOMAIN User : session # None /\ i # session.id
                           /\ User[i].session_id = session.new

CreateSessionRetries ==
    /\ SessionIdExists
    /\ session' = None
    /\ UNCHANGED <<tables, rows_modified, registration, password_change, session_tasks,
                   invite_check, sessions_, crashes, history>>

(* The rest of CreateSession, in which old_session_id is the new one too. *)
CreateSession ==
    LET logs_in == session.row.username # "" IN
    /\ session # None /\ ~SessionIdExists
    /\ User' = UpdateUser(session.id, [session.row EXCEPT !.session_id = session.new])
    /\ rows_modified' = TRUE
    /\ spoiled' = Disturbed
    /\ sessions_' = IF logs_in
                    THEN [sessions_ EXCEPT ![session.new] =
                                [username |-> session.row.username,
                                 is_admin |-> session.row.is_admin]]
                    ELSE sessions_
    /\ invalidated' = IF logs_in THEN invalidated \cup {session.new} ELSE invalidated
    /\ session' = None
    /\ session_tasks' = Tail(session_tasks)
    /\ UNCHANGED <<UserInvite, UnavailableUsername, registration, password_change,
                   invite_check, crashes, origin, acknowledged, overlapped>>

(* CHANGE_PASSWORD_REQUEST of a client that is logged in: GetUser and the  *)
(* comparison of the hashes, then UpdateUser.                              *)
ChangePassword(name, old, new) ==
    /\ password_change = None
    /\ \E s \in SessionIds : sessions_[s] # None /\ sessions_[s].username = name
    /\ GetUser(name) # 0
    /\ User[GetUser(name)].password = old
    /\ password_change' = [id |-> GetUser(name), row |-> User[GetUser(name)], new |-> new]
    /\ UNCHANGED <<tables, rows_modified, registration, session, session_tasks,
                   invite_check, sessions_, crashes, history>>

PasswordChanged ==
    LET change == password_change IN
    /\ change # None
    /\ User' = UpdateUser(change.id, [change.row EXCEPT !.password = change.new])
    /\ rows_modified' = TRUE
    /\ acknowledged' = [acknowledged EXCEPT ![change.id] = change.new]
    /\ overlapped' = IF session # None /\ session.id = change.id
                     THEN overlapped \cup {change.id} ELSE overlapped
    /\ spoiled' = Disturbed
    /\ password_change' = None
    /\ UNCHANGED <<UserInvite, UnavailableUsername, registration, session, session_tasks,
                   invite_check, sessions_, crashes, origin, invalidated>>
-----------------------------------------------------------------------------
(* is_admin_: an administrator is logged in. *)
IsAdmin == \E s \in SessionIds : sessions_[s] # None /\ sessions_[s].is_admin

(* CREATE_INVITE: the query of User, then the insertion, which fails if an *)
(* invite has the username.                                                *)
CheckInvite(username, is_admin) ==
    /\ IsAdmin
    /\ invite_check = None
    /\ username # "" => Rows(username) = {}
    /\ invite_check' = [username |-> username, is_admin |-> is_admin]
    /\ UNCHANGED <<userVars, UserInvite, UnavailableUsername, rows_modified, spoiled>>

(* UNIQUE: another invite than i has the username. *)
IsInvited(username, i) ==
    \E j \in Invites \ {i} : UserInvite[j] # None /\ UserInvite[j].username = username

(* Random ids are new: neither in the table nor used by a registration. *)
CreateInvite(i) ==
    /\ invite_check # None
    /\ UserInvite[i] = None /\ i \notin spoiled
    /\ \A k \in DOMAIN origin : origin[k] # i
    /\ IF IsInvited(invite_check.username, i)
       THEN UNCHANGED <<UserInvite, rows_modified, spoiled>>
       ELSE /\ UserInvite' = [UserInvite EXCEPT
                                ![i] = [username |-> invite_check.username,
                                        is_admin |-> invite_check.is_admin,
                                        accepted |-> FALSE]]
            /\ rows_modified' = TRUE
            /\ spoiled' = Disturbed
    /\ invite_check' = None
    /\ UNCHANGED <<userVars, UnavailableUsername>>

(* UPDATE_INVITE throws if another invite has the username; Accepted is    *)
(* left alone.                                                             *)
UpdateInvite(i, username, is_admin) ==
    /\ IsAdmin
    /\ ~(UserInvite[i] # None /\ IsInvited(username, i))
    /\ UserInvite' = IF UserInvite[i] = None THEN UserInvite
                     ELSE [UserInvite EXCEPT ![i].username = username,
                                             ![i].is_admin = is_admin]
    /\ rows_modified' = (UserInvite[i] # None)
    /\ spoiled' = Disturbed
    /\ UNCHANGED <<userVars, UnavailableUsername, invite_check>>

DeleteInvite(i) ==
    /\ IsAdmin
    /\ UserInvite' = [UserInvite EXCEPT ![i] = None]
    /\ rows_modified' = (UserInvite[i] # None)
    /\ spoiled' = IF registration # None /\ registration.invite = i
                  THEN spoiled \cup {i} ELSE Disturbed
    /\ UNCHANGED <<userVars, UnavailableUsername, invite_check>>

(* CREATE_RESERVED_USERNAME fails on a name that is there. *)
CreateReservedUsername(name) ==
    /\ IsAdmin
    /\ name \notin UnavailableUsername
    /\ UnavailableUsername' = UnavailableUsername \cup {name}
    /\ rows_modified' = TRUE
    /\ spoiled' = Disturbed
    /\ UNCHANGED <<userVars, UserInvite, invite_check>>

DeleteReservedUsername(name) ==
    /\ IsAdmin
    /\ UnavailableUsername' = UnavailableUsername \ {name}
    /\ rows_modified' = (name \in UnavailableUsername)
    /\ spoiled' = Disturbed
    /\ UNCHANGED <<userVars, UserInvite, invite_check>>
-----------------------------------------------------------------------------
Registering ==
    \/ \E name \in Names, password \in Passwords : Register(name, password)
    \/ \E i \in Invites, size \in 0..2, password \in Passwords :
          ValidateInvite(i, size, password)
    \/ AcceptInvite
    \/ CheckRowsModified
    \/ CreateUser
    \/ CreateUserThrows

LoggingIn ==
    \/ \E name \in Names, password \in Passwords : Login(name, password)
    \/ \E s \in SessionIds : CreateSessionReads(s)
    \/ CreateSessionRetries
    \/ CreateSession
    \/ \E name \in Names, old, new \in Passwords : ChangePassword(name, old, new)
    \/ PasswordChanged

Administering ==
    \/ \E username \in Usernames, is_admin \in BOOLEAN : CheckInvite(username, is_admin)
    \/ \E i \in Invites : CreateInvite(i) \/ DeleteInvite(i)
    \/ \E i \in Invites, username \in Usernames, is_admin \in BOOLEAN :
          UpdateInvite(i, username, is_admin)
    \/ \E name \in Names : CreateReservedUsername(name) \/ DeleteReservedUsername(name)

AccountsNext == Registering \/ LoggingIn \/ Administering \/ Crash

AccountsSpec == AccountsInit /\ [][AccountsNext]_accountsVars
-----------------------------------------------------------------------------
AccountsTypeOK ==
    /\ User \in Seq(RowType)
    /\ UserInvite \in [Invites -> InviteType \cup {None}]
    /\ UnavailableUsername \subseteq Names
    /\ rows_modified \in BOOLEAN
    /\ registration \in RegistrationType \cup {None}
    /\ password_change \in [id : DOMAIN User, row : RowType, new : Passwords] \cup {None}
    /\ session \in [id : DOMAIN User, row : RowType, new : SessionIds] \cup {None}
    /\ session_tasks \in Seq(Usernames)
    /\ invite_check \in [username : Usernames, is_admin : BOOLEAN] \cup {None}
    /\ sessions_ \in [SessionIds -> [username : Names, is_admin : BOOLEAN] \cup {None}]
    /\ crashes \in 0..MaxCrashes
    /\ origin \in Seq(Invites \cup {None})
    /\ acknowledged \in Seq(Passwords)
    /\ overlapped \subseteq DOMAIN User
    /\ spoiled \subseteq Invites
    /\ invalidated \subseteq SessionIds

(* An invite makes at most one account, whatever administrators do to it   *)
(* meanwhile and wherever the process crashes.                             *)
InviteUsedOnce ==
    \A j, k \in DOMAIN origin : origin[j] = origin[k] /\ origin[j] # None => j = k

(* Accounts made without an invite have different names: the query and the *)
(* insertion are apart, but on one strand.                                 *)
UninvitedNamesDiffer ==
    \A j, k \in DOMAIN User :
        User[j].username = User[k].username /\ origin[j] = None /\ origin[k] = None => j = k

(* The invariant of the tables: rows of their types, calls in progress     *)
(* that refer to rows that exist, and neither an invite nor a name that    *)
(* two registrations without one share.                                    *)
AccountInv == AccountsTypeOK /\ InviteUsedOnce /\ UninvitedNamesDiffer

(* An invite is not lost: one that is accepted has made an account or is   *)
(* about to, unless its registration was cut short by a crash, by the      *)
(* deletion of the invite or by another strand's statement before          *)
(* rows_modified was read.                                                 *)
AcceptedInviteMakesAccount ==
    \A i \in Invites : UserInvite[i] # None /\ UserInvite[i].accepted =>
        \/ \E k \in DOMAIN origin : origin[k] = i
        \/ registration # None /\ registration.invite = i
        \/ i \in spoiled

(* A password a user was told it has is the one the database holds, unless *)
(* it was written while CreateSession was between its statements for the   *)
(* account: UpdateUser then writes back the password read before.  The     *)
(* other order does no harm to the password: whatever else ChangePassword  *)
(* writes back, it writes the new one.                                     *)
PasswordSticksUnlessOverlapped ==
    \A i \in DOMAIN User : i \notin overlapped => User[i].password = acknowledged[i]

(* Not kept: CHANGE_PASSWORD_REQUEST succeeds and the password may be lost. *)
PasswordSticks == \A i \in DOMAIN User : User[i].password = acknowledged[i]

(* CreateAccount: "The username was registered after the first check", and *)
(* USERNAME_TAKEN is returned: no two accounts have one name.              *)
UsernamesDiffer ==
    \A j, k \in DOMAIN User : User[j].username = User[k].username => j = k

(* CreateSession returns "a pair of session IDs, old and new", so that the *)
(* old session can be invalidated: a session that an account has is not.   *)
CurrentSessionIsValid ==
    \A i \in DOMAIN User : User[i].session_id \notin invalidated
=============================================================================
