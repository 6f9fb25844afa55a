--------------------------- MODULE VoteController ---------------------------
(***************************************************************************)
(* The vote to restart a virtual machine (src/VoteController.hpp) with the *)
(* part of the VM's state it works on (src/AdminVirtualMachine.hpp): the   *)
(* users of the channel, each with its UserVoteData, and the settings that *)
(* enable votes and set the cooldown.                                      *)
(*                                                                         *)
(* All of it runs on the strand of the VM, one handler per action.  The    *)
(* vote timer is the other party: StopVote only turns its pending wait     *)
(* into a queued handler that will see an error, and what happens between  *)
(* the two still sees the old vote_state_.                                 *)
(***************************************************************************)
EXTENDS Integers, FiniteSets

CONSTANTS
    Users,
    VoteLimit,     \* Common::vote_limit
    CountModulus   \* 2^32: the counts are std::uint32_t

ASSUME VoteConstants ==
    /\ VoteLimit \in Nat \ {0}
    /\ CountModulus \in Nat \ {0}
    \* A process has far fewer than 2^32 connections.
    /\ IsFiniteSet(Users) /\ Cardinality(Users) < CountModulus

VARIABLES
    members,        \* users_ of the channel
    vote_data,      \* UserVoteData of every member
    vote_state_,
    yes_vote_count_,
    no_vote_count_,
    wait,           \* the pending wait of vote_timer_: "none", "vote" or "cooldown"
    handler,        \* the queued handler of an ended wait
    votes_enabled,  \* setting VOTES_ENABLED
    has_cooldown,   \* setting VOTE_COOLDOWN_TIME is not zero
    counted,        \* history: votes of a member that AddVote counted in this vote
    cancelled       \* history: some vote ended without OnVoteEnd

vars == <<members, vote_data, vote_state_, yes_vote_count_, no_vote_count_,
          wait, handler, votes_enabled, has_cooldown, counted, cancelled>>

voteVars == <<vote_state_, yes_vote_count_, no_vote_count_, wait, handler>>

States == {"kIdle", "kVoting", "kCoolingdown"}
Decisions == {"kUndecided", "kYes", "kNo"}
NoHandler == [of |-> "none", ec |-> FALSE]
NoVoteData == [last_vote |-> "kUndecided", voted_amount |-> 0, voted_limit |-> FALSE]

Decision(voted_yes) == IF voted_yes THEN "kYes" ELSE "kNo"
Plus(n) == (n + 1) % CountModulus
Minus(n) == (n - 1) % CountModulus

Init ==
    /\ members = {}
    /\ vote_data = [u \in Users |-> NoVoteData]
    /\ vote_state_ = "kIdle"
    /\ yes_vote_count_ = 0
    /\ no_vote_count_ = 0
    /\ wait = "none"
    /\ handler = NoHandler
    /\ votes_enabled \in BOOLEAN
    /\ has_cooldown \in BOOLEAN
    /\ counted = [u \in Users |-> 0]
    /\ cancelled = FALSE

(* A user joins the channel with new vote data. *)
AddUser(u) ==
    /\ u \notin members
    /\ members' = members \cup {u}
    /\ vote_data' = [vote_data EXCEPT ![u] = NoVoteData]
    /\ UNCHANGED <<voteVars, votes_enabled, has_cooldown, counted, cancelled>>

RemoveVote(u) ==
    LET vote == vote_data[u].last_vote IN
    /\ yes_vote_count_' = IF vote = "kYes" THEN Minus(yes_vote_count_) ELSE yes_vote_count_
    /\ no_vote_count_' = IF vote = "kNo" THEN Minus(no_vote_count_) ELSE no_vote_count_

(* A user leaves: OnRemoveUser takes its vote back, whatever the state. *)
RemoveUser(u) ==
    /\ u \in members
    /\ RemoveVote(u)
    /\ members' = members \ {u}
    /\ vote_data' = [vote_data EXCEPT ![u] = NoVoteData]
    /\ counted' = [counted EXCEPT ![u] = 0]
    /\ UNCHANGED <<vote_state_, wait, handler, votes_enabled, has_cooldown, cancelled>>

(* AddVote in kIdle: the first vote must be a yes and starts the vote. *)
StartVote(u, voted_yes) ==
    /\ vote_state_ = "kIdle"
    /\ voted_yes
    /\ vote_state_' = "kVoting"
    /\ vote_data' = [vote_data EXCEPT ![u].last_vote = "kYes"]
    /\ yes_vote_count_' = 1 % CountModulus
    /\ no_vote_count_' = 0
    /\ wait' = "vote"
    /\ counted' = [v \in Users |-> IF v = u THEN 1 ELSE 0]
    /\ UNCHANGED <<members, handler, votes_enabled, has_cooldown, cancelled>>

(* Mutant of OverLimit: one vote too many. *)
OverLimitByOne(data) == data.voted_limit \/ data.voted_amount >= VoteLimit

(* data.voted_limit || ++data.voted_amount >= Common::vote_limit *)
OverLimit(data) == data.voted_limit \/ data.voted_amount + 1 >= VoteLimit

(* AddVote in kVoting, refused: over the limit, or the vote is the same.   *)
(* The attempt is counted all the same.                                    *)
RefuseVote(u, voted_yes) ==
    LET data == vote_data[u] IN
    /\ vote_state_ = "kVoting"
    /\ OverLimit(data) \/ data.last_vote = Decision(voted_yes)
    /\ vote_data' = [vote_data EXCEPT ![u] =
           [last_vote    |-> data.last_vote,
            voted_amount |-> IF data.voted_limit THEN data.voted_amount
                             ELSE data.voted_amount + 1,
            voted_limit  |-> OverLimit(data)]]
    /\ UNCHANGED <<members, voteVars, votes_enabled, has_cooldown, counted, cancelled>>

(* AddVote in kVoting, counted: one count goes up and, if the user changed *)
(* its mind, the other goes down.                                          *)
CountVote(u, voted_yes) ==
    LET data == vote_data[u]
        changed == data.last_vote # "kUndecided"
    IN
    /\ vote_state_ = "kVoting"
    /\ ~OverLimit(data)
    /\ data.last_vote # Decision(voted_yes)
    /\ yes_vote_count_' = IF voted_yes THEN Plus(yes_vote_count_)
                          ELSE IF changed THEN Minus(yes_vote_count_)
                          ELSE yes_vote_count_
    /\ no_vote_count_' = IF ~voted_yes THEN Plus(no_vote_count_)
                         ELSE IF changed THEN Minus(no_vote_count_)
                         ELSE no_vote_count_
    /\ vote_data' = [vote_data EXCEPT ![u].last_vote = Decision(voted_yes),
                                      ![u].voted_amount = @ + 1]
    /\ counted' = [counted EXCEPT ![u] = @ + 1]
    /\ UNCHANGED <<members, vote_state_, wait, handler, votes_enabled, has_cooldown,
                   cancelled>>

(* VmState::Vote and AddVote.  Nothing happens while cooling down. *)
Vote(u, voted_yes) ==
    /\ u \in members
    /\ votes_enabled
    /\ StartVote(u, voted_yes) \/ RefuseVote(u, voted_yes) \/ CountVote(u, voted_yes)

(* Mutant of StopVote: forgets that the handler of the wait still runs. *)
StopVoteSilently == wait' = "none" /\ UNCHANGED handler

(* vote_timer_.cancel(): the handler of a pending wait is queued with an   *)
(* error; one that is queued already runs as if nothing had happened.      *)
StopVote ==
    IF wait = "none" THEN UNCHANGED <<wait, handler>>
    ELSE wait' = "none" /\ handler' = [of |-> wait, ec |-> TRUE]

(* ApplySettings, the part about votes. *)
ApplySettings(enabled, cooldown) ==
    /\ votes_enabled' = enabled
    /\ has_cooldown' = cooldown
    /\ IF votes_enabled /\ ~enabled THEN StopVote ELSE UNCHANGED <<wait, handler>>
    /\ UNCHANGED <<members, vote_data, vote_state_, yes_vote_count_, no_vote_count_,
                   counted, cancelled>>

(* vote_timer_ expires. *)
WaitCompletes ==
    /\ wait # "none"
    /\ wait' = "none"
    /\ handler' = [of |-> wait, ec |-> FALSE]
    /\ UNCHANGED <<members, vote_data, vote_state_, yes_vote_count_, no_vote_count_,
                   votes_enabled, has_cooldown, counted, cancelled>>

(* The handler of the vote's wait after an error, or with votes disabled:  *)
(* the vote ends, nobody is told and UserVoteData stays.                   *)
CancelVote ==
    /\ handler.of = "vote"
    /\ handler.ec \/ ~votes_enabled
    /\ vote_state_' = "kIdle"
    /\ handler' = NoHandler
    /\ cancelled' = TRUE
    /\ UNCHANGED <<members, vote_data, yes_vote_count_, no_vote_count_, wait,
                   votes_enabled, has_cooldown, counted>>

(* Mutant of OnVoteEnd: votes are kept for the next vote. *)
OnVoteEndKeeps == UNCHANGED vote_data

(* OnVoteEnd resets the vote data of everybody in the channel (and, if the *)
(* vote passed, restarts the VM, which is not part of this state).         *)
OnVoteEnd ==
    vote_data' = [u \in Users |-> IF u \in members THEN NoVoteData ELSE vote_data[u]]

(* The handler of the vote's wait otherwise. *)
EndVote ==
    /\ handler.of = "vote"
    /\ ~handler.ec /\ votes_enabled
    /\ handler' = NoHandler
    /\ vote_state_' = IF has_cooldown THEN "kCoolingdown" ELSE "kIdle"
    /\ wait' = IF has_cooldown THEN "cooldown" ELSE wait
    /\ OnVoteEnd
    /\ counted' = [u \in Users |-> 0]
    /\ UNCHANGED <<members, yes_vote_count_, no_vote_count_, votes_enabled,
                   has_cooldown, cancelled>>

(* Mutant of CooldownEnds: an error leaves the state alone. *)
CooldownEndsUnlessCancelled ==
    /\ handler.of = "cooldown"
    /\ handler' = NoHandler
    /\ vote_state_' = IF handler.ec THEN vote_state_ ELSE "kIdle"
    /\ UNCHANGED <<members, vote_data, yes_vote_count_, no_vote_count_, wait,
                   votes_enabled, has_cooldown, counted, cancelled>>

(* The handler of the cooldown's wait, with an error or without. *)
CooldownEnds ==
    /\ handler.of = "cooldown"
    /\ handler' = NoHandler
    /\ vote_state_' = "kIdle"
    /\ UNCHANGED <<members, vote_data, yes_vote_count_, no_vote_count_, wait,
                   votes_enabled, has_cooldown, counted, cancelled>>

Next ==
    \/ \E u \in Users : AddUser(u) \/ RemoveUser(u)
    \/ \E u \in Users, voted_yes \in BOOLEAN : Vote(u, voted_yes)
    \/ \E enabled, cooldown \in BOOLEAN : ApplySettings(enabled, cooldown)
    \/ WaitCompletes
    \/ CancelVote
    \/ EndVote
    \/ CooldownEnds

(* The timer expires and the strand runs its handlers. *)
Fairness ==
    /\ WF_vars(WaitCompletes)
    /\ WF_vars(CancelVote \/ EndVote)
    /\ WF_vars(CooldownEnds)

Spec == Init /\ [][Next]_vars

FairSpec == Spec /\ Fairness
-----------------------------------------------------------------------------
TypeOK ==
    /\ members \subseteq Users
    /\ vote_data \in [Users -> [last_vote : Decisions, voted_amount : 0..VoteLimit,
                                voted_limit : BOOLEAN]]
    /\ vote_state_ \in States
    /\ yes_vote_count_ \in 0..(CountModulus - 1)
    /\ no_vote_count_ \in 0..(CountModulus - 1)
    /\ wait \in {"none", "vote", "cooldown"}
    /\ handler \in [of : {"none", "vote", "cooldown"}, ec : BOOLEAN]
    /\ votes_enabled \in BOOLEAN
    /\ has_cooldown \in BOOLEAN
    /\ counted \in [Users -> Nat]
    /\ cancelled \in BOOLEAN

(* Members whose vote AddVote counted in the vote under way. *)
Voters(decision) ==
    {u \in members : counted[u] > 0 /\ vote_data[u].last_vote = decision}

(* A vote under way, or a cooldown, always has exactly one wait or one     *)
(* queued handler that ends it, and an idle controller has none: a second  *)
(* one would end the next vote early.                                      *)
OneTimerPerVote ==
    /\ vote_state_ = "kVoting" => {wait, handler.of} = {"none", "vote"}
    /\ vote_state_ = "kCoolingdown" => {wait, handler.of} = {"none", "cooldown"}
    /\ vote_state_ = "kIdle" => {wait, handler.of} = {"none"}

(* No member's vote is counted more often than the limit allows. *)
VoteLimitHolds == \A u \in Users : counted[u] <= VoteLimit

(* The invariant of the vote's state and timers: every variable in its     *)
(* range, one timer per vote and the limit on changes of a vote.           *)
VoteInv == TypeOK /\ OneTimerPerVote /\ VoteLimitHolds

(* AddVote "returns true when the vote was counted": the counts that       *)
(* decide over the restart are the last counted votes of the users in the  *)
(* channel.                                                                *)
CountedVotesAreTallied ==
    vote_state_ = "kVoting" =>
        /\ yes_vote_count_ = Cardinality(Voters("kYes"))
        /\ no_vote_count_ = Cardinality(Voters("kNo"))

(* As long as every vote so far has run to its end, the counts are right   *)
(* and nobody carries a vote from one vote into the next.                  *)
TallyIsRightUnlessCancelled ==
    ~cancelled =>
        /\ CountedVotesAreTallied
        /\ \A u \in members : counted[u] = 0 => vote_data[u].last_vote = "kUndecided"

(* Votes do not go on for ever and a cooldown ends, also when an admin     *)
(* disables votes meanwhile.                                               *)
VotesEnd ==
    /\ vote_state_ = "kVoting" ~> vote_state_ # "kVoting"
    /\ vote_state_ = "kCoolingdown" ~> vote_state_ = "kIdle"
=============================================================================
