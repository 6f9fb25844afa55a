------------------------- MODULE VoteAndTurnsProofs -------------------------
(***************************************************************************)
(* Proofs about what the clients of a machine vote and wait for, for any   *)
(* values of the constants.  VoteController: one timer for every vote,     *)
(* the limit on changes of a vote, and counts that are right until a vote  *)
(* is cancelled.  ClientTurns: one place over the turn queues of all       *)
(* machines, and who waits in a queue is in the channel of its machine.    *)
(***************************************************************************)
EXTENDS VoteController, ClientTurns, SequenceTheorems, FiniteSetTheorems, TLAPS

-----------------------------------------------------------------------------
(***************************************************************************)
(* VoteController                                                          *)
(***************************************************************************)

(* The inductive invariant.  What AddVote counted of a user is bounded by  *)
(* the attempts it recorded, which stay below the limit until voted_limit  *)
(* is set; a user that is not in the channel has none.                     *)
AttemptsBoundVotes ==
    \A u \in Users :
        /\ ~vote_data[u].voted_limit => vote_data[u].voted_amount < VoteLimit
        /\ counted[u] <= vote_data[u].voted_amount + 1
        /\ u \notin members => counted[u] = 0
        /\ counted[u] > 0 => vote_data[u].last_vote # "kUndecided"

(* Between two votes that ended as they should nothing is counted. *)
NothingCountedBetweenVotes ==
    ~cancelled /\ vote_state_ # "kVoting" => \A u \in Users : counted[u] = 0

VotingInv ==
    /\ VoteInv
    /\ AttemptsBoundVotes
    /\ TallyIsRightUnlessCancelled
    /\ NothingCountedBetweenVotes

-----------------------------------------------------------------------------
(* The counts do not wrap while they count users. *)
LEMMA PlusIsPlus ==
    ASSUME NEW n \in Nat, n + 1 < CountModulus
    PROVE  Plus(n) = n + 1
  BY VoteConstants DEF Plus

LEMMA MinusIsMinus ==
    ASSUME NEW n \in Nat, n > 0, n < CountModulus
    PROVE  Minus(n) = n - 1
  BY VoteConstants DEF Minus

LEMMA CountsStayInRange ==
    ASSUME NEW n \in Int
    PROVE  n % CountModulus \in 0..(CountModulus - 1)
  BY VoteConstants

(* The voters of either kind are finitely many, fewer than CountModulus. *)
LEMMA VotersAreFew ==
    ASSUME TypeOK, NEW decision
    PROVE  /\ IsFiniteSet(Voters(decision))
           /\ Cardinality(Voters(decision)) \in Nat
           /\ Cardinality(Voters(decision)) < CountModulus
<1>1. Voters(decision) \subseteq Users
  BY DEF Voters, TypeOK
<1>2. /\ IsFiniteSet(Voters(decision))
      /\ Cardinality(Voters(decision)) <= Cardinality(Users)
  BY <1>1, VoteConstants, FS_Subset
<1>3. Cardinality(Voters(decision)) \in Nat /\ Cardinality(Users) \in Nat
  BY <1>2, VoteConstants, FS_CardinalityType
<1> QED
  BY <1>2, <1>3, VoteConstants

(* ... and somebody who is not one of them leaves room for one more. *)
LEMMA OneMoreVoter ==
    ASSUME TypeOK, NEW decision, NEW u \in Users, u \notin Voters(decision)
    PROVE  /\ Cardinality(Voters(decision) \cup {u}) = Cardinality(Voters(decision)) + 1
           /\ Cardinality(Voters(decision)) + 1 < CountModulus
<1>1. IsFiniteSet(Voters(decision)) /\ Cardinality(Voters(decision)) \in Nat
  BY VotersAreFew
<1>2. Cardinality(Voters(decision) \cup {u}) = Cardinality(Voters(decision)) + 1
  BY <1>1, FS_AddElement
<1>3. Voters(decision) \cup {u} \subseteq Users
  BY DEF Voters, TypeOK
<1>4. Cardinality(Voters(decision) \cup {u}) <= Cardinality(Users)
  BY <1>3, VoteConstants, FS_Subset
<1>5. Cardinality(Users) \in Nat
  BY VoteConstants, FS_CardinalityType
<1> QED
  BY <1>1, <1>2, <1>4, <1>5, VoteConstants

LEMMA OneVoterLess ==
    ASSUME TypeOK, NEW decision, NEW u \in Voters(decision)
    PROVE  /\ Cardinality(Voters(decision) \ {u}) = Cardinality(Voters(decision)) - 1
           /\ Cardinality(Voters(decision)) > 0
<1>1. IsFiniteSet(Voters(decision)) /\ Cardinality(Voters(decision)) \in Nat
  BY VotersAreFew
<1>2. Cardinality(Voters(decision) \ {u}) = Cardinality(Voters(decision)) - 1
  BY <1>1, FS_RemoveElement
<1>3. Cardinality(Voters(decision) \ {u}) \in Nat
  BY <1>1, FS_RemoveElement, FS_CardinalityType
<1> QED
  BY <1>1, <1>2, <1>3

-----------------------------------------------------------------------------
(* The votes of everybody but one user are as before. *)
LEMMA OthersVoteAsBefore ==
    ASSUME TypeOK, NEW u \in Users, NEW decision,
           \A v \in Users \ {u} : /\ v \in members' <=> v \in members
                                  /\ counted'[v] = counted[v]
                                  /\ vote_data'[v] = vote_data[v],
           members' \subseteq Users
    PROVE  Voters(decision)' \ {u} = Voters(decision) \ {u}
  BY Zenon DEF TypeOK, Voters

LEMMA AddUserKeepsInv ==
    ASSUME VotingInv, NEW u \in Users, AddUser(u)
    PROVE  VotingInv'
<1> USE DEF VotingInv, VoteInv, AddUser, voteVars
<1>1. TypeOK'
  BY VoteConstants DEF TypeOK, NoVoteData, Decisions
<1>2. OneTimerPerVote' /\ VoteLimitHolds' /\ NothingCountedBetweenVotes'
  BY DEF OneTimerPerVote, VoteLimitHolds, NothingCountedBetweenVotes
<1>3. AttemptsBoundVotes'
  BY VoteConstants DEF AttemptsBoundVotes, TypeOK, NoVoteData
<1>4. \A decision : Voters(decision)' = Voters(decision)
  BY DEF AttemptsBoundVotes, TypeOK, Voters, NoVoteData
<1>5. TallyIsRightUnlessCancelled'
  BY <1>4 DEF TallyIsRightUnlessCancelled, CountedVotesAreTallied, TypeOK, NoVoteData
<1> QED
  BY <1>1, <1>2, <1>3, <1>5

LEMMA RemoveUserKeepsInv ==
    ASSUME VotingInv, NEW u \in Users, RemoveUser(u)
    PROVE  VotingInv'
<1> USE DEF VotingInv, VoteInv, RemoveUser
<1>1. TypeOK'
  BY VoteConstants, CountsStayInRange
     DEF TypeOK, NoVoteData, Decisions, RemoveVote, Minus
<1>2. OneTimerPerVote' /\ VoteLimitHolds' /\ NothingCountedBetweenVotes'
  BY VoteConstants DEF OneTimerPerVote, VoteLimitHolds, NothingCountedBetweenVotes, TypeOK
<1>3. AttemptsBoundVotes'
  BY VoteConstants DEF AttemptsBoundVotes, TypeOK, NoVoteData
<1>4. ASSUME NEW decision
      PROVE  Voters(decision)' = Voters(decision) \ {u}
  BY DEF TypeOK, Voters, NoVoteData
<1>5. ASSUME ~cancelled, vote_state_ = "kVoting", NEW decision \in {"kYes", "kNo"},
             NEW n \in Nat, n = Cardinality(Voters(decision))
      PROVE  IF vote_data[u].last_vote = decision
             THEN Minus(n) = Cardinality(Voters(decision)')
             ELSE n = Cardinality(Voters(decision)')
  <2>1. CASE vote_data[u].last_vote = decision
    <3>1. u \in Voters(decision)
      BY <1>5, <2>1 DEF TallyIsRightUnlessCancelled, Voters, TypeOK
    <3>2. Minus(n) = n - 1
      BY <1>5, <3>1, OneVoterLess, VotersAreFew, MinusIsMinus
    <3> QED
      BY <1>4, <1>5, <2>1, <3>1, <3>2, OneVoterLess
  <2>2. CASE vote_data[u].last_vote # decision
    <3>1. Voters(decision)' = Voters(decision)
      BY <1>4, <2>2 DEF Voters
    <3> QED
      BY <1>5, <2>2, <3>1
  <2> QED
    BY <2>1, <2>2
<1>6. TallyIsRightUnlessCancelled'
  <2> SUFFICES ASSUME ~cancelled
               PROVE  /\ CountedVotesAreTallied'
                      /\ \A v \in members' :
                             counted'[v] = 0 => vote_data'[v].last_vote = "kUndecided"
    BY DEF TallyIsRightUnlessCancelled
  <2>1. ASSUME vote_state_ = "kVoting"
        PROVE  /\ yes_vote_count_' = Cardinality(Voters("kYes")')
               /\ no_vote_count_' = Cardinality(Voters("kNo")')
    <3>1. /\ yes_vote_count_ = Cardinality(Voters("kYes"))
          /\ no_vote_count_ = Cardinality(Voters("kNo"))
      BY <2>1 DEF TallyIsRightUnlessCancelled, CountedVotesAreTallied
    <3>2. yes_vote_count_ \in Nat /\ no_vote_count_ \in Nat
      BY VoteConstants DEF TypeOK
    <3> QED
      BY <1>5, <2>1, <3>1, <3>2 DEF RemoveVote
  <2>2. \A v \in members' : counted'[v] = 0 => vote_data'[v].last_vote = "kUndecided"
    BY DEF TallyIsRightUnlessCancelled, TypeOK
  <2> QED
    BY <2>1, <2>2 DEF CountedVotesAreTallied
<1> QED
  BY <1>1, <1>2, <1>3, <1>6

LEMMA StartVoteKeepsInv ==
    ASSUME VotingInv, NEW u \in members, NEW voted_yes \in BOOLEAN, StartVote(u, voted_yes)
    PROVE  VotingInv'
<1> USE DEF VotingInv, VoteInv, StartVote
<1> u \in Users
  BY DEF TypeOK
<1>1. TypeOK'
  BY VoteConstants, CountsStayInRange DEF TypeOK, Decisions, States
<1>2. OneTimerPerVote'
  BY DEF OneTimerPerVote
<1>3. VoteLimitHolds' /\ NothingCountedBetweenVotes'
  BY VoteConstants DEF VoteLimitHolds, NothingCountedBetweenVotes
<1>4. AttemptsBoundVotes'
  BY VoteConstants DEF AttemptsBoundVotes, TypeOK
<1>5. TallyIsRightUnlessCancelled'
  <2> SUFFICES ASSUME ~cancelled
               PROVE  /\ CountedVotesAreTallied'
                      /\ \A v \in members' :
                             counted'[v] = 0 => vote_data'[v].last_vote = "kUndecided"
    BY DEF TallyIsRightUnlessCancelled
  <2>1. \A v \in Users : counted[v] = 0
    BY DEF NothingCountedBetweenVotes
  <2>2. \A v \in members : vote_data[v].last_vote = "kUndecided"
    BY <2>1 DEF TallyIsRightUnlessCancelled, TypeOK
  <2>3. Voters("kYes")' = {u} /\ Voters("kNo")' = {}
    BY <2>2 DEF Voters, TypeOK
  <2>4. Cardinality({}) = 0 /\ Cardinality({u}) = 1
    BY FS_EmptySet, FS_Singleton
  <2>5. 1 % CountModulus = 1
    <3>1. Cardinality({u}) <= Cardinality(Users) /\ Cardinality(Users) \in Nat
      BY VoteConstants, FS_Subset, FS_CardinalityType
    <3> QED
      BY <2>4, <3>1, VoteConstants
  <2>6. \A v \in members' : counted'[v] = 0 => vote_data'[v].last_vote = "kUndecided"
    BY <2>2 DEF TypeOK
  <2>7. CountedVotesAreTallied'
    BY <2>3, <2>4, <2>5, Zenon DEF CountedVotesAreTallied
  <2> QED
    BY <2>6, <2>7
<1> QED
  BY <1>1, <1>2, <1>3, <1>4, <1>5

LEMMA RefuseVoteKeepsInv ==
    ASSUME VotingInv, NEW u \in members, NEW voted_yes \in BOOLEAN, RefuseVote(u, voted_yes)
    PROVE  VotingInv'
<1> USE DEF VotingInv, VoteInv, RefuseVote, voteVars
<1> u \in Users
  BY DEF TypeOK
<1> DEFINE data == vote_data[u]
           new == vote_data'[u]
<1>0. /\ data.voted_amount \in Nat /\ data.voted_amount <= VoteLimit
      /\ data.voted_limit \in BOOLEAN /\ data.last_vote \in Decisions
      /\ VoteLimit \in Nat
      /\ ~data.voted_limit => data.voted_amount < VoteLimit
  BY VoteConstants DEF TypeOK, AttemptsBoundVotes
<1>1. /\ new.last_vote = data.last_vote
      /\ new.voted_amount \in 0..VoteLimit
      /\ new.voted_amount >= data.voted_amount
      /\ new.voted_limit \in BOOLEAN
      /\ ~new.voted_limit => new.voted_amount < VoteLimit
  <2>1. /\ new.last_vote = data.last_vote
        /\ new.voted_amount = IF data.voted_limit THEN data.voted_amount
                              ELSE data.voted_amount + 1
        /\ new.voted_limit = OverLimit(data)
    BY DEF TypeOK
  <2>2. new.voted_limit \in BOOLEAN /\ (~new.voted_limit => ~OverLimit(data))
    BY <2>1, Zenon DEF OverLimit
  <2>3. ~OverLimit(data) => data.voted_amount + 1 < VoteLimit /\ ~data.voted_limit
    BY <1>0 DEF OverLimit
  <2> HIDE DEF data, new, RefuseVote, VotingInv
  <2>4. /\ new.voted_amount \in 0..VoteLimit
        /\ new.voted_amount >= data.voted_amount
        /\ ~OverLimit(data) => new.voted_amount < VoteLimit
    BY <1>0, <2>1, <2>3
  <2> QED
    BY <2>1, <2>2, <2>4
<1>2. TypeOK'
  BY <1>0, <1>1 DEF TypeOK, OverLimit
<1>3. OneTimerPerVote' /\ VoteLimitHolds' /\ NothingCountedBetweenVotes'
  BY DEF OneTimerPerVote, VoteLimitHolds, NothingCountedBetweenVotes
<1>4. \A v \in Users : v # u => vote_data'[v] = vote_data[v]
  BY DEF TypeOK
<1>5. AttemptsBoundVotes'
  BY <1>0, <1>1, <1>4 DEF AttemptsBoundVotes, TypeOK
<1>6. \A v \in Users : vote_data'[v].last_vote = vote_data[v].last_vote
  BY <1>1, <1>4
<1>7. \A decision : Voters(decision)' = Voters(decision)
  BY <1>6 DEF Voters, TypeOK
<1>8. TallyIsRightUnlessCancelled'
  BY <1>6, <1>7 DEF TallyIsRightUnlessCancelled, CountedVotesAreTallied, TypeOK
<1> QED
  BY <1>2, <1>3, <1>5, <1>8

(* One count goes up by the user that voted, who was not among its voters, *)
(* and the other goes down if it was among those.                          *)
LEMMA CountVoteKeepsInv ==
    ASSUME VotingInv, NEW u \in members, NEW voted_yes \in BOOLEAN, CountVote(u, voted_yes)
    PROVE  VotingInv'
<1> DEFINE data == vote_data[u]
           new == vote_data'[u]
           decision == Decision(voted_yes)
           other == Decision(~voted_yes)
<1> USE DEF VotingInv, VoteInv
<1> u \in Users
  BY DEF TypeOK
<1>0. /\ data.voted_amount \in Nat /\ VoteLimit \in Nat
      /\ data.voted_amount + 1 < VoteLimit /\ ~data.voted_limit
      /\ data.last_vote \in Decisions /\ data.last_vote # decision
  BY VoteConstants DEF TypeOK, CountVote, OverLimit
<1>1. /\ new.last_vote = decision
      /\ new.voted_amount = data.voted_amount + 1
      /\ new.voted_limit = data.voted_limit
  BY DEF TypeOK, CountVote
<1>2. /\ vote_data' \in [Users -> [last_vote : Decisions, voted_amount : 0..VoteLimit,
                                   voted_limit : BOOLEAN]]
      /\ \A v \in Users \ {u} : vote_data'[v] = vote_data[v]
  <2>1. vote_data' = [vote_data EXCEPT ![u] = new]
    BY DEF TypeOK, CountVote
  <2>2. new \in [last_vote : Decisions, voted_amount : 0..VoteLimit, voted_limit : BOOLEAN]
    <3>1. new = [last_vote |-> decision, voted_amount |-> data.voted_amount + 1,
                 voted_limit |-> data.voted_limit]
      BY DEF TypeOK, CountVote
    <3>2. decision \in Decisions
      BY DEF Decision, Decisions
    <3>3. data.voted_amount + 1 \in 0..VoteLimit /\ data.voted_limit \in BOOLEAN
      BY <1>0 DEF TypeOK
    <3> HIDE DEF new, decision, data
    <3> QED
      BY <3>1, <3>2, <3>3
  <2> HIDE DEF new
  <2> QED
    BY <2>1, <2>2 DEF TypeOK
<1>3. /\ members' = members /\ vote_state_' = vote_state_ /\ vote_state_ = "kVoting"
      /\ counted' = [counted EXCEPT ![u] = @ + 1]
      /\ UNCHANGED <<wait, handler, votes_enabled, has_cooldown, cancelled>>
  BY DEF CountVote
<1>4. /\ yes_vote_count_' = IF voted_yes THEN Plus(yes_vote_count_)
                            ELSE IF data.last_vote # "kUndecided" THEN Minus(yes_vote_count_)
                            ELSE yes_vote_count_
      /\ no_vote_count_' = IF ~voted_yes THEN Plus(no_vote_count_)
                           ELSE IF data.last_vote # "kUndecided" THEN Minus(no_vote_count_)
                           ELSE no_vote_count_
  BY DEF CountVote
<1>5. TypeOK'
  <2>1. /\ yes_vote_count_' \in 0..(CountModulus - 1)
        /\ no_vote_count_' \in 0..(CountModulus - 1)
    <3>1. yes_vote_count_ \in Int /\ no_vote_count_ \in Int
      BY VoteConstants DEF TypeOK
    <3>2. /\ Plus(yes_vote_count_) \in 0..(CountModulus - 1)
          /\ Minus(yes_vote_count_) \in 0..(CountModulus - 1)
          /\ Plus(no_vote_count_) \in 0..(CountModulus - 1)
          /\ Minus(no_vote_count_) \in 0..(CountModulus - 1)
      BY <3>1, CountsStayInRange DEF Plus, Minus
    <3> QED
      BY <1>4, <3>2 DEF TypeOK
  <2> HIDE DEF data, new
  <2> QED
    BY <1>2, <1>3, <2>1 DEF TypeOK
<1>6. OneTimerPerVote' /\ NothingCountedBetweenVotes'
  BY <1>3 DEF OneTimerPerVote, NothingCountedBetweenVotes
<1>7. VoteLimitHolds' /\ AttemptsBoundVotes'
  <2>1. ASSUME NEW v \in Users
        PROVE  /\ counted'[v] <= VoteLimit
               /\ ~vote_data'[v].voted_limit => vote_data'[v].voted_amount < VoteLimit
               /\ counted'[v] <= vote_data'[v].voted_amount + 1
               /\ v \notin members' => counted'[v] = 0
               /\ counted'[v] > 0 => vote_data'[v].last_vote # "kUndecided"
    <3>1. CASE v # u
      BY <1>2, <1>3, <3>1 DEF VoteLimitHolds, AttemptsBoundVotes, TypeOK
    <3>2. CASE v = u
      <4>1. counted[u] \in Nat /\ counted[u] <= data.voted_amount + 1
        BY DEF AttemptsBoundVotes, TypeOK
      <4>2. counted'[u] = counted[u] + 1
        BY <1>3 DEF TypeOK
      <4>3. decision # "kUndecided"
        BY DEF Decision
      <4> HIDE DEF data, new, decision
      <4>4. /\ counted'[u] <= VoteLimit
            /\ new.voted_amount < VoteLimit
            /\ counted'[u] <= new.voted_amount + 1
        BY <1>0, <1>1, <4>1, <4>2
      <4> QED
        BY <1>1, <1>3, <3>2, <4>3, <4>4 DEF new
    <3> QED
      BY <3>1, <3>2
  <2> QED
    BY <2>1 DEF VoteLimitHolds, AttemptsBoundVotes
<1>8. \A d : Voters(d)' \ {u} = Voters(d) \ {u}
  BY <1>2, <1>3, OthersVoteAsBefore DEF TypeOK
<1>9. counted'[u] > 0 /\ counted[u] \in Nat
  BY <1>3 DEF TypeOK
<1>10. /\ decision \in {"kYes", "kNo"} /\ other \in {"kYes", "kNo"} /\ decision # other
  BY DEF Decision
<1>11. Voters(decision)' = Voters(decision) \cup {u} /\ u \notin Voters(decision)
  <2>1. u \in Voters(decision)'
    BY <1>1, <1>3, <1>9 DEF Voters
  <2>2. u \notin Voters(decision)
    BY <1>0 DEF Voters
  <2> QED
    BY <1>8, <2>1, <2>2
<1>12. Voters(other)' = Voters(other) \ {u}
  <2>1. u \notin Voters(other)'
    BY <1>1, <1>10 DEF Voters
  <2> QED
    BY <1>8, <2>1
<1>13. ASSUME ~cancelled
       PROVE  u \in Voters(other) <=> data.last_vote # "kUndecided"
  <2>1. data.last_vote # "kUndecided" => data.last_vote = other
    BY <1>0 DEF Decisions, Decision
  <2>2. counted[u] = 0 => data.last_vote = "kUndecided"
    BY <1>13 DEF TallyIsRightUnlessCancelled
  <2>3. data.last_vote # "kUndecided" => u \in Voters(other)
    BY <1>9, <2>1, <2>2 DEF Voters
  <2>4. u \in Voters(other) => data.last_vote # "kUndecided"
    BY <1>10 DEF Voters
  <2> QED
    BY <2>3, <2>4
<1>14. TallyIsRightUnlessCancelled'
  <2> SUFFICES ASSUME ~cancelled
               PROVE  /\ CountedVotesAreTallied'
                      /\ \A v \in members' :
                             counted'[v] = 0 => vote_data'[v].last_vote = "kUndecided"
    BY <1>3 DEF TallyIsRightUnlessCancelled
  <2>1. /\ yes_vote_count_ = Cardinality(Voters("kYes"))
        /\ no_vote_count_ = Cardinality(Voters("kNo"))
    BY <1>3 DEF TallyIsRightUnlessCancelled, CountedVotesAreTallied
  <2>2. Plus(Cardinality(Voters(decision))) = Cardinality(Voters(decision)')
    <3>1. /\ Cardinality(Voters(decision) \cup {u}) = Cardinality(Voters(decision)) + 1
          /\ Cardinality(Voters(decision)) + 1 < CountModulus
      BY <1>11, OneMoreVoter
    <3>2. Cardinality(Voters(decision)) \in Nat
      BY VotersAreFew
    <3> HIDE DEF decision
    <3> QED
      BY <1>11, <3>1, <3>2, PlusIsPlus
  <2>3. Cardinality(Voters(other)') = IF data.last_vote # "kUndecided"
                                      THEN Minus(Cardinality(Voters(other)))
                                      ELSE Cardinality(Voters(other))
    <3> HIDE DEF other
    <3>1. CASE u \in Voters(other)
      <4>1. /\ Cardinality(Voters(other) \ {u}) = Cardinality(Voters(other)) - 1
            /\ Cardinality(Voters(other)) > 0
        BY <3>1, OneVoterLess
      <4>2. Cardinality(Voters(other)) \in Nat /\ Cardinality(Voters(other)) < CountModulus
        BY VotersAreFew
      <4>3. Minus(Cardinality(Voters(other))) = Cardinality(Voters(other)) - 1
        BY <4>1, <4>2, MinusIsMinus
      <4>4. Cardinality(Voters(other)') = Minus(Cardinality(Voters(other)))
        BY <1>12, <4>1, <4>3
      <4> QED
        BY <1>13, <3>1, <4>4
    <3>2. CASE u \notin Voters(other)
      <4>1. Voters(other)' = Voters(other)
        BY <1>12, <3>2
      <4> QED
        BY <1>13, <3>2, <4>1
    <3> QED
      BY <3>1, <3>2
  <2>4. /\ yes_vote_count_' = Cardinality(Voters("kYes")')
        /\ no_vote_count_' = Cardinality(Voters("kNo")')
    <3>1. CASE voted_yes
      <4>1. decision = "kYes" /\ other = "kNo"
        BY <3>1 DEF Decision
      <4> HIDE DEF decision, other, data
      <4> QED
        BY <1>4, <2>1, <2>2, <2>3, <3>1, <4>1
    <3>2. CASE ~voted_yes
      <4>1. decision = "kNo" /\ other = "kYes"
        BY <3>2 DEF Decision
      <4> HIDE DEF decision, other, data
      <4> QED
        BY <1>4, <2>1, <2>2, <2>3, <3>2, <4>1
    <3> QED
      BY <3>1, <3>2
  <2>5. ASSUME NEW v \in members', counted'[v] = 0
        PROVE  vote_data'[v].last_vote = "kUndecided"
    <3>1. v # u /\ v \in members /\ v \in Users
      BY <1>3, <1>9, <2>5 DEF TypeOK
    <3>2. counted[v] = 0 /\ vote_data'[v] = vote_data[v]
      BY <1>2, <1>3, <2>5, <3>1 DEF TypeOK
    <3> QED
      BY <3>1, <3>2 DEF TallyIsRightUnlessCancelled
  <2> QED
    BY <2>4, <2>5 DEF CountedVotesAreTallied
<1> QED
  BY <1>5, <1>6, <1>7, <1>14

(* Steps of the timer and of the settings leave the votes alone. *)
LEMMA SameVotes ==
    ASSUME VotingInv,
           UNCHANGED <<members, vote_data, vote_state_, yes_vote_count_, no_vote_count_,
                       counted, cancelled>>
    PROVE  /\ VoteLimitHolds'
           /\ AttemptsBoundVotes'
           /\ TallyIsRightUnlessCancelled'
           /\ NothingCountedBetweenVotes'
<1>1. \A decision : Voters(decision)' = Voters(decision)
  BY DEF Voters
<1> QED
  BY <1>1 DEF VotingInv, VoteInv, VoteLimitHolds, AttemptsBoundVotes,
     TallyIsRightUnlessCancelled, CountedVotesAreTallied, NothingCountedBetweenVotes

LEMMA ApplySettingsKeepsInv ==
    ASSUME VotingInv, NEW enabled \in BOOLEAN, NEW cooldown \in BOOLEAN,
           ApplySettings(enabled, cooldown)
    PROVE  VotingInv'
<1> USE DEF VotingInv, VoteInv, ApplySettings
<1>1. CASE votes_enabled /\ ~enabled /\ wait # "none"
  <2>1. wait' = "none" /\ handler' = [of |-> wait, ec |-> TRUE]
    BY <1>1 DEF StopVote
  <2>2. TypeOK'
    BY <2>1 DEF TypeOK
  <2>3. OneTimerPerVote'
    BY <1>1, <2>1 DEF OneTimerPerVote, TypeOK, States
  <2> QED
    BY <2>2, <2>3, SameVotes
<1>2. CASE ~(votes_enabled /\ ~enabled /\ wait # "none")
  <2>1. UNCHANGED <<wait, handler>>
    BY <1>2 DEF StopVote
  <2>2. TypeOK' /\ OneTimerPerVote'
    BY <2>1 DEF TypeOK, OneTimerPerVote
  <2> QED
    BY <2>2, SameVotes
<1> QED
  BY <1>1, <1>2

LEMMA WaitCompletesKeepsInv ==
    ASSUME VotingInv, WaitCompletes
    PROVE  VotingInv'
<1> USE DEF VotingInv, VoteInv, WaitCompletes
<1>1. TypeOK'
  BY DEF TypeOK
<1>2. OneTimerPerVote'
  BY DEF OneTimerPerVote, TypeOK, States
<1> QED
  BY <1>1, <1>2, SameVotes

LEMMA CancelVoteKeepsInv ==
    ASSUME VotingInv, CancelVote
    PROVE  VotingInv'
<1> USE DEF VotingInv, VoteInv, CancelVote
<1>1. TypeOK'
  BY DEF TypeOK, NoHandler, States
<1>2. OneTimerPerVote'
  BY DEF OneTimerPerVote, TypeOK, States, NoHandler
<1>3. VoteLimitHolds' /\ AttemptsBoundVotes'
  BY DEF VoteLimitHolds, AttemptsBoundVotes
<1>4. TallyIsRightUnlessCancelled' /\ NothingCountedBetweenVotes'
  BY DEF TallyIsRightUnlessCancelled, NothingCountedBetweenVotes
<1> QED
  BY <1>1, <1>2, <1>3, <1>4

LEMMA EndVoteKeepsInv ==
    ASSUME VotingInv, EndVote
    PROVE  VotingInv'
<1> USE DEF VotingInv, VoteInv, EndVote, OnVoteEnd
<1>1. TypeOK'
  BY VoteConstants DEF TypeOK, NoHandler, States, NoVoteData, Decisions
<1>2. OneTimerPerVote'
  <2>1. vote_state_ = "kVoting" /\ wait = "none"
    BY DEF OneTimerPerVote, TypeOK, States
  <2> QED
    BY <2>1 DEF OneTimerPerVote, NoHandler
<1>3. \A u \in Users : counted'[u] = 0
  OBVIOUS
<1>4. /\ \A u \in members : vote_data'[u] = NoVoteData
      /\ \A u \in Users \ members : vote_data'[u] = vote_data[u]
  BY DEF TypeOK
<1>5. VoteLimitHolds' /\ NothingCountedBetweenVotes'
  BY <1>3, VoteConstants DEF VoteLimitHolds, NothingCountedBetweenVotes
<1>6. AttemptsBoundVotes'
  BY <1>3, <1>4, VoteConstants DEF AttemptsBoundVotes, NoVoteData, TypeOK
<1>7. TallyIsRightUnlessCancelled'
  BY <1>4 DEF TallyIsRightUnlessCancelled, CountedVotesAreTallied, NoVoteData
<1> QED
  BY <1>1, <1>2, <1>5, <1>6, <1>7

LEMMA CooldownEndsKeepsInv ==
    ASSUME VotingInv, CooldownEnds
    PROVE  VotingInv'
<1> USE DEF VotingInv, VoteInv, CooldownEnds
<1>1. vote_state_ = "kCoolingdown" /\ wait = "none"
  BY DEF OneTimerPerVote, TypeOK, States
<1>2. TypeOK' /\ OneTimerPerVote'
  BY <1>1 DEF TypeOK, OneTimerPerVote, NoHandler, States
<1>3. VoteLimitHolds' /\ AttemptsBoundVotes' /\ NothingCountedBetweenVotes'
  BY <1>1 DEF VoteLimitHolds, AttemptsBoundVotes, NothingCountedBetweenVotes
<1>4. TallyIsRightUnlessCancelled'
  BY DEF TallyIsRightUnlessCancelled, CountedVotesAreTallied
<1> QED
  BY <1>2, <1>3, <1>4

-----------------------------------------------------------------------------
LEMMA VotingInit == Init => VotingInv
<1> SUFFICES ASSUME Init PROVE VotingInv
  OBVIOUS
<1> USE DEF Init
<1>1. votes_enabled \in BOOLEAN /\ has_cooldown \in BOOLEAN /\ cancelled \in BOOLEAN
  BY Zenon
<1>2. TypeOK
  BY <1>1, VoteConstants DEF TypeOK, NoVoteData, NoHandler, Decisions, States
<1>3. OneTimerPerVote /\ VoteLimitHolds /\ NothingCountedBetweenVotes
  BY VoteConstants DEF OneTimerPerVote, VoteLimitHolds, NothingCountedBetweenVotes, NoHandler
<1>4. AttemptsBoundVotes
  BY VoteConstants DEF AttemptsBoundVotes, NoVoteData
<1>5. TallyIsRightUnlessCancelled
  BY DEF TallyIsRightUnlessCancelled, CountedVotesAreTallied
<1> QED
  BY <1>2, <1>3, <1>4, <1>5 DEF VotingInv, VoteInv

LEMMA VotingNext == VotingInv /\ [Next]_vars => VotingInv'
<1> SUFFICES ASSUME VotingInv, [Next]_vars
             PROVE  VotingInv'
  OBVIOUS
<1>1. ASSUME NEW u \in Users, AddUser(u)
      PROVE  VotingInv'
  BY <1>1, AddUserKeepsInv
<1>2. ASSUME NEW u \in Users, RemoveUser(u)
      PROVE  VotingInv'
  BY <1>2, RemoveUserKeepsInv
<1>3. ASSUME NEW u \in Users, NEW voted_yes \in BOOLEAN, Vote(u, voted_yes)
      PROVE  VotingInv'
  BY <1>3, StartVoteKeepsInv, RefuseVoteKeepsInv, CountVoteKeepsInv DEF Vote
<1>4. ASSUME NEW enabled \in BOOLEAN, NEW cooldown \in BOOLEAN,
             ApplySettings(enabled, cooldown)
      PROVE  VotingInv'
  BY <1>4, ApplySettingsKeepsInv
<1>5. CASE WaitCompletes
  BY <1>5, WaitCompletesKeepsInv
<1>6. CASE CancelVote
  BY <1>6, CancelVoteKeepsInv
<1>7. CASE EndVote
  BY <1>7, EndVoteKeepsInv
<1>8. CASE CooldownEnds
  BY <1>8, CooldownEndsKeepsInv
<1>9. CASE UNCHANGED vars
  <2>1. TypeOK' /\ OneTimerPerVote'
    BY <1>9 DEF vars, VotingInv, VoteInv, TypeOK, OneTimerPerVote
  <2> QED
    BY <1>9, <2>1, SameVotes DEF vars, VotingInv, VoteInv
<1> QED
  BY <1>1, <1>2, <1>3, <1>4, <1>5, <1>6, <1>7, <1>8, <1>9 DEF Next

LEMMA VotingInvariant == Spec => []VotingInv
  BY VotingInit, VotingNext, PTL DEF Spec

(* A vote or cooldown has one timer, idle has none, and no user's vote is  *)
(* counted more often than Common::vote_limit allows, whatever the timer,  *)
(* ApplySettings and the users' AddVote do in between.                     *)
THEOREM VoteStateIsSound == Spec => []VoteInv
<1>1. VotingInv => VoteInv
  BY DEF VotingInv
<1> QED
  BY <1>1, VotingInvariant, PTL

(* As long as no vote was cancelled, yes_vote_count_ and no_vote_count_    *)
(* are the last counted votes of the users in the channel: no sequence of  *)
(* joining, leaving and changing one's mind makes a std::uint32_t wrap.    *)
THEOREM TallyIsRight == Spec => []TallyIsRightUnlessCancelled
<1>1. VotingInv => TallyIsRightUnlessCancelled
  BY DEF VotingInv
<1> QED
  BY <1>1, VotingInvariant, PTL
-----------------------------------------------------------------------------
(***************************************************************************)
(* ClientTurns                                                             *)
(***************************************************************************)

(* Positions and queues agree, and nobody is queued at two machines.       *)
QueuesSound ==
    /\ \A v \in Vms : \A i \in 1..Len(turn_queue_[v]) :
          turn_queue_position_[turn_queue_[v][i]] = i - 1
    /\ \A c \in Clients, v, w \in Vms :
          Contains(turn_queue_[v], c) /\ Contains(turn_queue_[w], c) => v = w
    /\ \A c \in Clients : turn_queue_position_[c] # nullopt =>
          \E v \in Vms : Contains(turn_queue_[v], c)

(* Only the machine where a client is queued is about to remove it.        *)
RemovalsSound ==
    \A c \in Clients, v \in Vms :
        /\ turn_queue_position_[c] # nullopt
        /\ \/ turn_timer_[v] = c
           \/ Pending(Task("expired", c, v)) \/ Pending(Task("leave", c, v))
        => Contains(turn_queue_[v], c)

(* A client is a member of the machine it came to until its only "leave"   *)
(* has run there, and that is behind every "turn" of its.                  *)
LeaveIsOne(c, v) ==
    \A s, t \in Strands : \A i \in 1..Len(tasks[s]), j \in 1..Len(tasks[t]) :
        tasks[s][i] = Task("leave", c, v) /\ tasks[t][j] = Task("leave", c, v) => s = t /\ i = j

TurnsComeFirst(c, v) ==
    \A i, j \in 1..Len(tasks[v]) :
        tasks[v][i] = Task("leave", c, v) /\ tasks[v][j] = Task("turn", c, v) => j < i

LeaveFollows(c) ==
    \A j \in 1..Len(tasks[VmList]) : tasks[VmList][j] = Task("turn", c, NoVm) =>
        \E k \in 1..Len(tasks[VmList]) :
            j < k /\ tasks[VmList][k] = Task("leave", c, connected_vm_id_[c])

LeaveIsLast(c) ==
    ~rejoined[c] =>
        /\ \A v \in Vms :
              /\ connected_vm_id_[c] = v /\ open[c] =>
                    c \in users_[v] /\ ~Pending(Task("leave", c, v))
              /\ Pending(Task("leave", c, v)) \/ Contains(tasks[v], Task("turn", c, v)) =>
                    c \in users_[v]
              /\ LeaveIsOne(c, v)
              /\ TurnsComeFirst(c, v)
        /\ ~open[c] => LeaveFollows(c)

RequestsAreOfMembers ==
    \A c \in Clients :
        Contains(tasks[VmList], Task("turn", c, NoVm)) => connected_vm_id_[c] # NoVm

TurnQueuesInv ==
    /\ ClientTurnsTypeOK
    /\ ~hasty => ~crashed /\ QueuesSound /\ RemovalsSound
    /\ CurrentTurnIsTimed
    /\ \A c \in Clients : LeaveIsLast(c)
    /\ RequestsAreOfMembers
    /\ QueuedAreMembersUnlessRejoined

(* How a step changes the strands: the first n[s] tasks of strand s have   *)
(* gone and what was pushed, if anything, came behind the others.          *)
Moved(n, pushed) ==
    /\ n \in [Strands -> {0, 1}]
    /\ \A s \in Strands : \A i \in 1..Len(tasks'[s]) :
          \/ i + n[s] \in 1..Len(tasks[s]) /\ tasks'[s][i] = tasks[s][i + n[s]]
          \/ <<s, tasks'[s][i]>> \in pushed /\ i + n[s] = Len(tasks[s]) + 1
    /\ \A s \in Strands : \A i \in 1..Len(tasks[s]) :
          i > n[s] => i - n[s] \in 1..Len(tasks'[s]) /\ tasks'[s][i - n[s]] = tasks[s][i]
    /\ \A s \in Strands, t \in Tasks : <<s, t>> \in pushed =>
          /\ Len(tasks[s]) + 1 - n[s] \in 1..Len(tasks'[s])
          /\ tasks'[s][Len(tasks[s]) + 1 - n[s]] = t

FirstOf(S) == [s \in Strands |-> IF s \in S THEN 1 ELSE 0]
-----------------------------------------------------------------------------
(* What RemoveAt returns, element by element. *)
LEMMA RemoveAtElements ==
    ASSUME NEW S, NEW s \in Seq(S), NEW i \in 1..Len(s)
    PROVE  /\ RemoveAt(s, i) \in Seq(S)
           /\ Len(RemoveAt(s, i)) = Len(s) - 1
           /\ \A k \in 1..(Len(s) - 1) :
                  RemoveAt(s, i)[k] = s[IF k < i THEN k ELSE k + 1]
           /\ RemoveAt(s, i) = [k \in 1..(Len(s) - 1) |-> s[IF k < i THEN k ELSE k + 1]]
  <1> DEFINE a == SubSeq(s, 1, i - 1)
             b == SubSeq(s, i + 1, Len(s))
  <1>1. /\ a \in Seq(S) /\ Len(a) = i - 1
        /\ \A k \in 1..(i - 1) : a[k] = s[k]
    OBVIOUS
  <1>2. /\ b \in Seq(S) /\ Len(b) = Len(s) - i
        /\ \A k \in 1..(Len(s) - i) : b[k] = s[i + k]
    OBVIOUS
  <1>3. RemoveAt(s, i) = a \o b
    BY DEF RemoveAt
  <1> HIDE DEF a, b
  <1>4. a \o b \in Seq(S) /\ Len(a \o b) = Len(s) - 1
    <2>1. a \o b \in Seq(S)
      BY <1>1, <1>2
    <2>2. Len(a \o b) = Len(a) + Len(b)
      BY <1>1, <1>2, ConcatProperties, Zenon
    <2> QED BY <2>1, <2>2, <1>1, <1>2
  <1>5. ASSUME NEW k \in 1..(Len(s) - 1)
        PROVE  (a \o b)[k] = s[IF k < i THEN k ELSE k + 1]
    <2>1. CASE k < i
      <3>1. k \in 1..Len(a)
        BY <1>1, <2>1
      <3> QED BY <3>1, <1>1, <1>2, <2>1
    <2>2. CASE ~(k < i)
      <3>1. k - Len(a) \in 1..Len(b) /\ i + (k - Len(a)) = k + 1
        BY <1>1, <1>2, <2>2
      <3>2. (a \o b)[k] = b[k - Len(a)]
        BY <3>1, <1>1, <1>2, <2>2
      <3> QED BY <3>1, <3>2, <1>2, <2>2
    <2> QED BY <2>1, <2>2
  <1>6. a \o b = [k \in 1..(Len(s) - 1) |-> s[IF k < i THEN k ELSE k + 1]]
    BY <1>4, <1>5, LenProperties
  <1> QED BY <1>3, <1>4, <1>5, <1>6
(* Tasks are told apart by their fields.                                   *)
LEMMA TaskFields ==
    ASSUME NEW do, NEW c, NEW v
    PROVE  /\ Task(do, c, v).do = do /\ Task(do, c, v).client = c /\ Task(do, c, v).vm = v
           /\ \A a, d, w : Task(do, c, v) = Task(a, d, w) => do = a /\ c = d /\ v = w
<1> SUFFICES ASSUME NEW a, NEW d, NEW w, Task(do, c, v) = Task(a, d, w)
             PROVE  do = a /\ c = d /\ v = w
  BY DEF Task
<1>1. /\ Task(do, c, v).do = do /\ Task(do, c, v).client = c /\ Task(do, c, v).vm = v
      /\ Task(a, d, w).do = a /\ Task(a, d, w).client = d /\ Task(a, d, w).vm = w
  BY DEF Task
<1> QED
  BY <1>1

LEMMA StrandsDiffer == VmList \in Strands /\ Vms \subseteq Strands /\ \A v \in Vms : v # VmList
<1> VmList \notin Vms
  BY ClientTurnsConstants
<1> HIDE DEF VmList
<1> QED
  BY DEF Strands

(* Every change of the strands is such a movement.                         *)
LEMMA StrandsMove ==
    ASSUME tasks \in [Strands -> Seq(Tasks)], NEW n \in [Strands -> {0, 1}], NEW pushed,
           \A s \in Strands :
              \/ n[s] = 0 /\ tasks'[s] = tasks[s] /\ \A t : <<s, t>> \notin pushed
              \/ /\ n[s] = 1 /\ tasks[s] # << >> /\ tasks'[s] = Tail(tasks[s])
                 /\ \A t : <<s, t>> \notin pushed
              \/ \E t \in Tasks :
                    /\ n[s] = 0 /\ tasks'[s] = Append(tasks[s], t)
                    /\ \A u : <<s, u>> \in pushed <=> u = t
    PROVE  Moved(n, pushed) /\ \A s \in Strands : tasks'[s] \in Seq(Tasks)
<1> SUFFICES ASSUME NEW s \in Strands
             PROVE  /\ tasks'[s] \in Seq(Tasks)
                    /\ \A i \in 1..Len(tasks'[s]) :
                          \/ i + n[s] \in 1..Len(tasks[s]) /\ tasks'[s][i] = tasks[s][i + n[s]]
                          \/ <<s, tasks'[s][i]>> \in pushed /\ i + n[s] = Len(tasks[s]) + 1
                    /\ \A i \in 1..Len(tasks[s]) :
                          i > n[s] => /\ i - n[s] \in 1..Len(tasks'[s])
                                      /\ tasks'[s][i - n[s]] = tasks[s][i]
                    /\ \A t \in Tasks : <<s, t>> \in pushed =>
                          /\ Len(tasks[s]) + 1 - n[s] \in 1..Len(tasks'[s])
                          /\ tasks'[s][Len(tasks[s]) + 1 - n[s]] = t
  BY DEF Moved
<1>1. tasks[s] \in Seq(Tasks) /\ Len(tasks[s]) \in Nat
  BY LenProperties
<1>2. CASE n[s] = 0 /\ tasks'[s] = tasks[s] /\ \A t : <<s, t>> \notin pushed
  BY <1>1, <1>2
<1>3. CASE /\ n[s] = 1 /\ tasks[s] # << >> /\ tasks'[s] = Tail(tasks[s])
           /\ \A t : <<s, t>> \notin pushed
  <2>1. /\ tasks'[s] \in Seq(Tasks) /\ Len(tasks'[s]) = Len(tasks[s]) - 1
        /\ \A i \in 1..Len(tasks'[s]) : tasks'[s][i] = tasks[s][i + 1]
    BY <1>1, <1>3, HeadTailProperties
  <2>2. \A i \in 1..Len(tasks'[s]) : i + 1 \in 1..Len(tasks[s])
    BY <1>1, <2>1
  <2>3. \A i \in 1..Len(tasks[s]) : i > 1 => i - 1 \in 1..Len(tasks'[s]) /\ (i - 1) + 1 = i
    BY <1>1, <2>1
  <2> QED
    BY <1>3, <2>1, <2>2, <2>3
<1>4. CASE \E t \in Tasks : /\ n[s] = 0 /\ tasks'[s] = Append(tasks[s], t)
                            /\ \A u : <<s, u>> \in pushed <=> u = t
  <2>1. PICK t \in Tasks : /\ n[s] = 0 /\ tasks'[s] = Append(tasks[s], t)
                           /\ \A u : <<s, u>> \in pushed <=> u = t
    BY <1>4
  <2>2. /\ tasks'[s] \in Seq(Tasks) /\ Len(tasks'[s]) = Len(tasks[s]) + 1
        /\ \A i \in 1..Len(tasks[s]) : tasks'[s][i] = tasks[s][i]
        /\ tasks'[s][Len(tasks[s]) + 1] = t
    BY <1>1, <2>1, AppendProperties
  <2>3. \A i \in 1..Len(tasks'[s]) : i \in 1..Len(tasks[s]) \/ i = Len(tasks[s]) + 1
    BY <1>1, <2>2
  <2>4. \A i \in 1..Len(tasks'[s]) : i + 0 = i
    BY <1>1, <2>2
  <2>5. \A i \in 1..Len(tasks[s]) : i - 0 = i /\ i \in 1..Len(tasks'[s])
    BY <1>1, <2>2
  <2>6. /\ Len(tasks[s]) + 1 - 0 = Len(tasks[s]) + 1
        /\ Len(tasks[s]) + 1 \in 1..Len(tasks'[s])
    BY <1>1, <2>2
  <2> QED
    BY <2>1, <2>2, <2>3, <2>4, <2>5, <2>6
<1> QED
  BY <1>2, <1>3, <1>4

(* What is pending after a step was pending before or pushed, and is still *)
(* pending unless it came first.                                           *)
LEMMA PendingMoves ==
    ASSUME tasks \in [Strands -> Seq(Tasks)], NEW n, NEW pushed, Moved(n, pushed),
           NEW task \in Tasks
    PROVE  /\ Pending(task)' => Pending(task) \/ \E s \in Strands : <<s, task>> \in pushed
           /\ (\E s \in Strands : <<s, task>> \in pushed) => Pending(task)'
           /\ Pending(task) /\ (\A s \in Strands : n[s] = 1 => Head(tasks[s]) # task)
                 => Pending(task)'
           /\ \A s \in Strands :
                 Contains(tasks[s], task)' => Contains(tasks[s], task) \/ <<s, task>> \in pushed
<1>1. \A s \in Strands : tasks[s] \in Seq(Tasks) /\ Len(tasks[s]) \in Nat
  BY LenProperties
<1>2. ASSUME NEW s \in Strands, Contains(tasks[s], task)'
      PROVE  Contains(tasks[s], task) \/ <<s, task>> \in pushed
  <2>1. PICK i \in 1..Len(tasks'[s]) : tasks'[s][i] = task
    BY <1>2 DEF Contains
  <2> QED
    BY <2>1 DEF Moved, Contains
<1>3. ASSUME NEW s \in Strands, <<s, task>> \in pushed
      PROVE  Pending(task)'
  BY <1>3 DEF Moved, Pending, Contains, Strands
<1>4. ASSUME NEW s \in Strands, Contains(tasks[s], task), n[s] = 1 => Head(tasks[s]) # task
      PROVE  Pending(task)'
  <2>1. PICK i \in 1..Len(tasks[s]) : tasks[s][i] = task
    BY <1>4 DEF Contains
  <2>2. i > n[s]
    <3>1. n[s] \in {0, 1}
      BY DEF Moved
    <3>2. CASE n[s] = 0
      BY <1>1, <3>2
    <3>3. CASE n[s] = 1
      <4> tasks[s] # << >> /\ Head(tasks[s]) = tasks[s][1]
        BY <1>1, <2>1
      <4> i # 1
        BY <1>4, <2>1, <3>3
      <4> QED
        BY <1>1, <3>3
    <3> QED
      BY <3>1, <3>2, <3>3
  <2>3. i - n[s] \in 1..Len(tasks'[s]) /\ tasks'[s][i - n[s]] = task
    BY <2>1, <2>2 DEF Moved
  <2> QED
    BY <2>3 DEF Pending, Contains, Strands
<1>5. Pending(task)' => \E s \in Strands : Contains(tasks[s], task)'
  BY DEF Pending, Strands
<1> QED
  BY <1>2, <1>3, <1>4, <1>5 DEF Pending

LEMMA PushMoves ==
    ASSUME tasks \in [Strands -> Seq(Tasks)], NEW s \in Strands, NEW t \in Tasks,
           tasks' = Push(tasks, s, t)
    PROVE  tasks' \in [Strands -> Seq(Tasks)] /\ Moved(FirstOf({}), {<<s, t>>})
<1> DEFINE n == FirstOf({})
<1>1. n \in [Strands -> {0, 1}] /\ \A x \in Strands : n[x] = 0
  BY DEF FirstOf
<1> HIDE DEF n
<1>2. \A x \in Strands : tasks'[x] = IF x = s THEN Append(tasks[x], t) ELSE tasks[x]
  BY DEF Push
<1>3. \A x \in Strands :
         \/ n[x] = 0 /\ tasks'[x] = tasks[x] /\ \A u : <<x, u>> \notin {<<s, t>>}
         \/ /\ n[x] = 0 /\ tasks'[x] = Append(tasks[x], t)
            /\ \A u : <<x, u>> \in {<<s, t>>} <=> u = t
  BY <1>1, <1>2
<1>4. Moved(n, {<<s, t>>}) /\ \A x \in Strands : tasks'[x] \in Seq(Tasks)
  BY <1>1, <1>3, StrandsMove
<1>5. tasks' \in [Strands -> Seq(Tasks)]
  BY <1>4 DEF Push
<1> QED
  BY <1>4, <1>5 DEF n

LEMMA PopMoves ==
    ASSUME tasks \in [Strands -> Seq(Tasks)], NEW s \in Strands, tasks[s] # << >>,
           tasks' = Popped(s), NEW none, \A x : x \notin none
    PROVE  tasks' \in [Strands -> Seq(Tasks)] /\ Moved(FirstOf({s}), none)
<1> DEFINE n == FirstOf({s})
<1>1. n \in [Strands -> {0, 1}] /\ \A x \in Strands : n[x] = IF x = s THEN 1 ELSE 0
  BY DEF FirstOf
<1> HIDE DEF n
<1>2. \A x \in Strands : tasks'[x] = IF x = s THEN Tail(tasks[x]) ELSE tasks[x]
  BY DEF Popped
<1>3. \A x \in Strands :
         \/ n[x] = 0 /\ tasks'[x] = tasks[x] /\ \A u : <<x, u>> \notin none
         \/ /\ n[x] = 1 /\ tasks[x] # << >> /\ tasks'[x] = Tail(tasks[x])
            /\ \A u : <<x, u>> \notin none
  BY <1>1, <1>2
<1>4. Moved(n, none) /\ \A x \in Strands : tasks'[x] \in Seq(Tasks)
  BY <1>1, <1>3, StrandsMove
<1>5. tasks' \in [Strands -> Seq(Tasks)]
  BY <1>4 DEF Popped
<1> QED
  BY <1>4, <1>5 DEF n

LEMMA PopPushMoves ==
    ASSUME tasks \in [Strands -> Seq(Tasks)], NEW s \in Strands, tasks[s] # << >>,
           NEW z \in Strands, z # s, NEW t \in Tasks, tasks' = Push(Popped(s), z, t)
    PROVE  tasks' \in [Strands -> Seq(Tasks)] /\ Moved(FirstOf({s}), {<<z, t>>})
<1> DEFINE n == FirstOf({s})
<1>1. n \in [Strands -> {0, 1}] /\ \A x \in Strands : n[x] = IF x = s THEN 1 ELSE 0
  BY DEF FirstOf
<1> HIDE DEF n
<1>2. \A x \in Strands : tasks'[x] = IF x = z THEN Append(tasks[x], t)
                                     ELSE IF x = s THEN Tail(tasks[x]) ELSE tasks[x]
  BY DEF Push, Popped
<1>3. ASSUME NEW x \in Strands
      PROVE  \/ n[x] = 0 /\ tasks'[x] = tasks[x] /\ \A u : <<x, u>> \notin {<<z, t>>}
             \/ /\ n[x] = 1 /\ tasks[x] # << >> /\ tasks'[x] = Tail(tasks[x])
                /\ \A u : <<x, u>> \notin {<<z, t>>}
             \/ /\ n[x] = 0 /\ tasks'[x] = Append(tasks[x], t)
                /\ \A u : <<x, u>> \in {<<z, t>>} <=> u = t
  <2>1. CASE x = z
    BY <1>1, <1>2, <2>1
  <2>2. CASE x = s
    BY <1>1, <1>2, <2>2
  <2>3. CASE x # z /\ x # s
    BY <1>1, <1>2, <2>3
  <2> QED
    BY <2>1, <2>2, <2>3
<1>4. Moved(n, {<<z, t>>}) /\ \A x \in Strands : tasks'[x] \in Seq(Tasks)
  <2> DEFINE pushed == {<<z, t>>}
  <2> HIDE DEF pushed
  <2>1. \A x \in Strands :
           \/ n[x] = 0 /\ tasks'[x] = tasks[x] /\ \A u : <<x, u>> \notin pushed
           \/ /\ n[x] = 1 /\ tasks[x] # << >> /\ tasks'[x] = Tail(tasks[x])
              /\ \A u : <<x, u>> \notin pushed
           \/ \E a \in Tasks :
                 /\ n[x] = 0 /\ tasks'[x] = Append(tasks[x], a)
                 /\ \A u : <<x, u>> \in pushed <=> u = a
    BY <1>3 DEF pushed
  <2>2. Moved(n, pushed) /\ \A x \in Strands : tasks'[x] \in Seq(Tasks)
    BY <1>1, <2>1, StrandsMove
  <2> QED
    BY <2>2 DEF pushed
<1>5. tasks' \in [Strands -> Seq(Tasks)]
  BY <1>4 DEF Push, Popped
<1> QED
  BY <1>4, <1>5 DEF n
-----------------------------------------------------------------------------
(* RemoveTurn of a client that is queued nowhere else.                     *)
LEMMA RemoveTurnKeeps ==
    ASSUME ClientTurnsTypeOK, ~crashed, QueuesSound,
           NEW v \in Vms, NEW c \in Clients, RemoveTurn(v, c),
           turn_queue_position_[c] # nullopt => Contains(turn_queue_[v], c)
    PROVE  /\ turn_queue_position_' \in [Clients -> Nat \cup {nullopt}]
           /\ turn_queue_' \in [Vms -> Seq(Clients)]
           /\ turn_timer_' \in [Vms -> Clients \cup {NoClient}]
           /\ ~crashed' /\ crashed' \in BOOLEAN
           /\ QueuesSound'
           /\ \A w \in Vms, d \in Clients :
                 Contains(turn_queue_[w], d)' <=> Contains(turn_queue_[w], d) /\ d # c
           /\ \A d \in Clients : turn_queue_position_'[d] # nullopt =>
                 d # c /\ turn_queue_position_[d] # nullopt
           /\ \A w \in Vms : turn_queue_'[w] # << >> =>
                 \/ turn_timer_'[w] = Head(turn_queue_'[w])
                 \/ /\ turn_queue_[w] # << >> /\ Head(turn_queue_'[w]) = Head(turn_queue_[w])
                    /\ turn_timer_'[w] = turn_timer_[w]
           /\ \A w \in Vms : \/ turn_timer_'[w] = turn_timer_[w]
                             \/ /\ turn_timer_'[w] \in Clients
                                /\ Contains(turn_queue_'[w], turn_timer_'[w])
<1>1. /\ turn_queue_position_ \in [Clients -> Nat \cup {nullopt}]
      /\ turn_queue_ \in [Vms -> Seq(Clients)]
      /\ turn_timer_ \in [Vms -> Clients \cup {NoClient}]
      /\ crashed = FALSE
  BY DEF ClientTurnsTypeOK
<1>2. \A w \in Vms : /\ turn_queue_[w] \in Seq(Clients) /\ Len(turn_queue_[w]) \in Nat
                     /\ \A i \in 1..Len(turn_queue_[w]) : turn_queue_[w][i] \in Clients
  BY <1>1, LenProperties
<1>3. CASE turn_queue_position_[c] = nullopt
  <2>1. UNCHANGED turnVars
    BY <1>3 DEF RemoveTurn
  <2>2. \A w \in Vms : ~Contains(turn_queue_[w], c)
    <3> SUFFICES ASSUME NEW w \in Vms, NEW i \in 1..Len(turn_queue_[w]), turn_queue_[w][i] = c
                 PROVE  FALSE
      BY DEF Contains
    <3>1. nullopt = i - 1
      BY <1>3 DEF QueuesSound
    <3> QED
      BY <3>1, <1>2 DEF nullopt
  <2>3. QueuesSound'
    <3> turn_queue_' = turn_queue_ /\ turn_queue_position_' = turn_queue_position_
      BY <2>1 DEF turnVars
    <3> \A w \in Vms, d \in Clients :
           Contains(turn_queue_[w], d)' <=> Contains(turn_queue_[w], d)
      BY DEF Contains
    <3> QED
      BY DEF QueuesSound
  <2>4. \A w \in Vms, d \in Clients :
           Contains(turn_queue_[w], d)' <=> Contains(turn_queue_[w], d) /\ d # c
    BY <2>1, <2>2 DEF turnVars, Contains
  <2> QED
    BY <1>1, <1>3, <2>1, <2>3, <2>4 DEF turnVars
<1>4. CASE turn_queue_position_[c] # nullopt
  <2> DEFINE p == turn_queue_position_[c]
             s == turn_queue_[v]
             q == RemoveAt(turn_queue_[v], p + 1)
             behind == {q[i] : i \in (p + 1)..Len(q)}
  <2>1. p \in Nat /\ p + 1 \in 1..Len(s) /\ s[p + 1] = c
    <3>1. PICK i \in 1..Len(s) : s[i] = c
      BY <1>4 DEF Contains
    <3>2. p = i - 1
      BY <3>1 DEF QueuesSound
    <3>3. i - 1 \in Nat /\ (i - 1) + 1 = i
      BY <1>2
    <3> QED
      BY <3>1, <3>2, <3>3
  <2>2. /\ q \in Seq(Clients) /\ Len(q) = Len(s) - 1 /\ s \in Seq(Clients) /\ Len(s) \in Nat
        /\ \A k \in 1..(Len(s) - 1) : q[k] = s[IF k < p + 1 THEN k ELSE k + 1]
    BY <1>2, <2>1, RemoveAtElements
  <2>3. \A i, j \in 1..Len(s) : s[i] = s[j] => i = j
    <3> SUFFICES ASSUME NEW i \in 1..Len(s), NEW j \in 1..Len(s), s[i] = s[j]
                 PROVE  i = j
      OBVIOUS
    <3>1. i - 1 = j - 1
      BY DEF QueuesSound
    <3> QED
      BY <2>2, <3>1
  <2>4. ASSUME NEW k \in 1..Len(q)
        PROVE  /\ k < p + 1 => k \in 1..Len(s) /\ q[k] = s[k] /\ k # p + 1
               /\ ~(k < p + 1) => k + 1 \in 1..Len(s) /\ q[k] = s[k + 1] /\ k + 1 # p + 1
               /\ q[k] # c
    <3> HIDE DEF p, s, q
    <3>1. CASE k < p + 1
      <4>1. k \in 1..Len(s) /\ k # p + 1 /\ k \in 1..(Len(s) - 1)
        BY <2>1, <2>2, <3>1
      <4>2. q[k] = s[k]
        BY <2>2, <3>1, <4>1
      <4>3. q[k] # c
        BY <2>1, <2>3, <4>1, <4>2
      <4> QED
        BY <3>1, <4>1, <4>2, <4>3
    <3>2. CASE ~(k < p + 1)
      <4>1. k + 1 \in 1..Len(s) /\ k + 1 # p + 1 /\ k \in 1..(Len(s) - 1)
        BY <2>1, <2>2, <3>2
      <4>2. q[k] = s[k + 1]
        BY <2>2, <3>2, <4>1
      <4>3. q[k] # c
        BY <2>1, <2>3, <4>1, <4>2
      <4> QED
        BY <3>2, <4>1, <4>2, <4>3
    <3> QED
      BY <3>1, <3>2
  <2>5. \A i \in 1..Len(s) : turn_queue_position_[s[i]] = i - 1
    BY DEF QueuesSound
  <2>6. ASSUME NEW d \in behind
        PROVE  /\ \E k \in 1..Len(q) : ~(k < p + 1) /\ d = q[k] /\ turn_queue_position_[d] = k
               /\ d \in Clients /\ d # c /\ turn_queue_position_[d] > 0
    <3>1. PICK k \in (p + 1)..Len(q) : d = q[k]
      OBVIOUS
    <3>2. k \in 1..Len(q) /\ ~(k < p + 1) /\ k > 0 /\ (k + 1) - 1 = k
      BY <2>1, <2>2, <3>1
    <3>3. turn_queue_position_[d] = (k + 1) - 1 /\ d \in Clients /\ d # c
      BY <1>2, <2>4, <2>5, <3>1, <3>2
    <3> QED
      BY <3>1, <3>2, <3>3
  <2>7. ~(p >= Len(s))
    BY <2>1, <2>2
  <2>8. ~\E d \in behind : turn_queue_position_[d] <= 0
    <3> SUFFICES ASSUME NEW d \in behind PROVE ~(turn_queue_position_[d] <= 0)
      OBVIOUS
    <3>1. PICK k \in 1..Len(q) : ~(k < p + 1) /\ turn_queue_position_[d] = k
      BY <2>6
    <3> HIDE DEF behind, q
    <3> QED
      BY <2>2, <3>1
  <2>9. /\ turn_queue_' = [turn_queue_ EXCEPT ![v] = q]
        /\ turn_queue_position_' =
               [d \in Clients |-> IF d = c THEN nullopt
                                  ELSE IF d \in behind THEN turn_queue_position_[d] - 1
                                  ELSE turn_queue_position_[d]]
        /\ turn_timer_' = IF p = 0 THEN Started(v, q) ELSE turn_timer_
        /\ UNCHANGED crashed
    BY <1>4, <2>7, <2>8 DEF RemoveTurn
  <2>10. \A k \in 1..Len(q) : ~(k < p + 1) => q[k] \in behind
    BY <2>1, <2>2
  <2>11. \A k \in 1..Len(q) : k < p + 1 => q[k] \notin behind
    <3> SUFFICES ASSUME NEW k \in 1..Len(q), k < p + 1, q[k] \in behind PROVE FALSE
      OBVIOUS
    <3>1. turn_queue_position_[q[k]] = k - 1
      BY <2>4, <2>5
    <3>2. PICK j \in 1..Len(q) : ~(j < p + 1) /\ turn_queue_position_[q[k]] = j
      BY <2>6
    <3> HIDE DEF behind, q
    <3> QED
      BY <2>1, <2>2, <3>1, <3>2
  <2> HIDE DEF q, behind
  <2>12. turn_queue_' \in [Vms -> Seq(Clients)] /\ turn_queue_'[v] = q
         /\ \A w \in Vms : w # v => turn_queue_'[w] = turn_queue_[w]
    BY <1>1, <2>2, <2>9
  <2>13. turn_queue_position_' \in [Clients -> Nat \cup {nullopt}]
    <3>1. ASSUME NEW d \in Clients PROVE turn_queue_position_'[d] \in Nat \cup {nullopt}
      <4>1. CASE d = c
        BY <2>9, <4>1
      <4>2. CASE d # c /\ d \in behind
        <5>1. turn_queue_position_'[d] = turn_queue_position_[d] - 1
          BY <2>9, <4>2
        <5>2. PICK k \in 1..Len(q) : ~(k < p + 1) /\ turn_queue_position_[d] = k
          BY <2>6, <4>2
        <5>3. k - 1 \in Nat
          BY <2>2
        <5> QED
          BY <5>1, <5>2, <5>3
      <4>3. CASE d # c /\ d \notin behind
        BY <1>1, <2>9, <4>3
      <4> QED
        BY <4>1, <4>2, <4>3
    <3> QED
      BY <2>9, <3>1
  <2>14. ASSUME NEW k \in 1..Len(q) PROVE turn_queue_position_'[q[k]] = k - 1
    <3>1. q[k] \in Clients /\ q[k] # c
      BY <2>2, <2>4
    <3>2. CASE k < p + 1
      <4>1. turn_queue_position_[q[k]] = k - 1
        BY <2>4, <2>5, <3>2
      <4>2. turn_queue_position_'[q[k]] = turn_queue_position_[q[k]]
        BY <2>9, <2>11, <3>1, <3>2
      <4> QED
        BY <4>1, <4>2
    <3>3. CASE ~(k < p + 1)
      <4>1. turn_queue_position_[q[k]] = (k + 1) - 1
        BY <2>4, <2>5, <3>3
      <4>2. turn_queue_position_'[q[k]] = turn_queue_position_[q[k]] - 1
        BY <2>9, <2>10, <3>1, <3>3
      <4>3. ((k + 1) - 1) - 1 = k - 1
        BY <2>2
      <4> QED
        BY <4>1, <4>2, <4>3
    <3> QED
      BY <3>2, <3>3
  <2>15. ASSUME NEW d \in Clients
         PROVE  (\E k \in 1..Len(q) : q[k] = d) <=> (\E i \in 1..Len(s) : s[i] = d) /\ d # c
    <3>1. ASSUME NEW k \in 1..Len(q), q[k] = d
          PROVE  (\E i \in 1..Len(s) : s[i] = d) /\ d # c
      BY <2>4, <3>1
    <3>2. ASSUME NEW i \in 1..Len(s), s[i] = d, d # c
          PROVE  \E k \in 1..Len(q) : q[k] = d
      <4>1. i # p + 1
        BY <2>1, <3>2
      <4>2. CASE i < p + 1
        <5>1. i \in 1..Len(q)
          BY <2>1, <2>2, <4>2
        <5> QED
          BY <2>4, <3>2, <4>2, <5>1
      <4>3. CASE ~(i < p + 1)
        <5>1. i - 1 \in 1..Len(q) /\ ~(i - 1 < p + 1) /\ (i - 1) + 1 = i
          BY <2>1, <2>2, <4>1, <4>3
        <5> QED
          BY <2>4, <3>2, <5>1
      <4> QED
        BY <4>2, <4>3
    <3> QED
      BY <3>1, <3>2
  <2>16. \A w \in Vms : w # v => ~Contains(turn_queue_[w], c)
    BY <1>4 DEF QueuesSound
  <2>17. ASSUME NEW w \in Vms, NEW d \in Clients
         PROVE  Contains(turn_queue_[w], d)' <=> Contains(turn_queue_[w], d) /\ d # c
    <3>1. CASE w = v
      BY <2>12, <2>15, <3>1 DEF Contains
    <3>2. CASE w # v
      BY <2>12, <2>16, <3>2 DEF Contains
    <3> QED
      BY <3>1, <3>2
  <2>18. ASSUME NEW w \in Vms, w # v, NEW i \in 1..Len(turn_queue_[w])
         PROVE  turn_queue_position_'[turn_queue_[w][i]] = i - 1
    <3> DEFINE d == turn_queue_[w][i]
    <3>1. d \in Clients /\ Contains(turn_queue_[w], d) /\ d # c
      BY <1>2, <2>16, <2>18 DEF Contains
    <3>2. d \notin behind
      <4> SUFFICES ASSUME d \in behind PROVE FALSE
        OBVIOUS
      <4>1. PICK k \in 1..Len(q) : d = q[k]
        BY <2>6
      <4>2. Contains(s, d)
        BY <2>4, <4>1 DEF Contains
      <4> QED
        BY <2>18, <3>1, <4>2 DEF QueuesSound
    <3> QED
      BY <2>9, <3>1, <3>2 DEF QueuesSound
  <2>19. QueuesSound'
    <3>1. ASSUME NEW w \in Vms, NEW i \in 1..Len(turn_queue_'[w])
          PROVE  turn_queue_position_'[turn_queue_'[w][i]] = i - 1
      <4>1. CASE w = v
        <5> turn_queue_'[w] = q
          BY <2>12, <4>1
        <5> QED
          BY <2>14, <3>1
      <4>2. CASE w # v
        <5> turn_queue_'[w] = turn_queue_[w]
          BY <2>12, <4>2
        <5> QED
          BY <2>18, <3>1, <4>2
      <4> QED
        BY <4>1, <4>2
    <3>2. \A d \in Clients, w, x \in Vms :
             Contains(turn_queue_[w], d)' /\ Contains(turn_queue_[x], d)' => w = x
      BY <2>17 DEF QueuesSound
    <3>3. ASSUME NEW d \in Clients, turn_queue_position_'[d] # nullopt
          PROVE  d # c /\ turn_queue_position_[d] # nullopt
      <4>1. d # c
        BY <2>9, <3>3
      <4>2. CASE d \in behind
        <5>1. PICK k \in 1..Len(q) : turn_queue_position_[d] = k
          BY <2>6, <4>2
        <5> QED
          BY <2>2, <4>1, <5>1 DEF nullopt
      <4>3. CASE d \notin behind
        BY <2>9, <3>3, <4>1, <4>3
      <4> QED
        BY <4>1, <4>2, <4>3
    <3>4. \A d \in Clients : turn_queue_position_'[d] # nullopt =>
             \E w \in Vms : Contains(turn_queue_[w], d)'
      BY <2>17, <3>3 DEF QueuesSound
    <3> QED
      BY <3>1, <3>2, <3>4 DEF QueuesSound
  <2>20. \A d \in Clients : turn_queue_position_'[d] # nullopt =>
            d # c /\ turn_queue_position_[d] # nullopt
    <3> SUFFICES ASSUME NEW d \in Clients, turn_queue_position_'[d] # nullopt
                 PROVE  d # c /\ turn_queue_position_[d] # nullopt
      OBVIOUS
    <3>1. d # c
      BY <2>9
    <3>2. PICK w \in Vms : Contains(turn_queue_[w], d)'
      BY <2>19 DEF QueuesSound
    <3>3. PICK i \in 1..Len(turn_queue_[w]) : turn_queue_[w][i] = d
      BY <2>17, <3>2 DEF Contains
    <3>4. turn_queue_position_[d] = i - 1 /\ i - 1 # -1
      BY <1>2, <3>3 DEF QueuesSound
    <3> QED
      BY <3>1, <3>4 DEF nullopt
  <2>21. /\ turn_timer_' \in [Vms -> Clients \cup {NoClient}]
         /\ \A w \in Vms : w # v \/ q = << >> \/ p # 0 => turn_timer_'[w] = turn_timer_[w]
         /\ q # << >> /\ p = 0 => turn_timer_'[v] = Head(q)
    <3>1. CASE p = 0 /\ q # << >>
      <4>1. turn_timer_' = [turn_timer_ EXCEPT ![v] = Head(q)] /\ Head(q) \in Clients
        BY <2>2, <2>9, <3>1 DEF Started
      <4> QED
        BY <1>1, <3>1, <4>1
    <3>2. CASE ~(p = 0 /\ q # << >>)
      BY <1>1, <2>9, <3>2 DEF Started
    <3> QED
      BY <3>1, <3>2
  <2>22. q # << >> => Len(q) >= 1 /\ Head(q) = q[1] /\ 1 \in 1..Len(q) /\ q[1] \in Clients
    BY <2>2
  <2>23. ASSUME NEW w \in Vms, turn_queue_'[w] # << >>
         PROVE  \/ turn_timer_'[w] = Head(turn_queue_'[w])
                \/ /\ turn_queue_[w] # << >> /\ Head(turn_queue_'[w]) = Head(turn_queue_[w])
                   /\ turn_timer_'[w] = turn_timer_[w]
    <3>1. CASE w # v
      BY <2>12, <2>21, <2>23, <3>1
    <3>2. CASE w = v /\ p = 0
      BY <2>12, <2>21, <2>23, <3>2
    <3>3. CASE w = v /\ p # 0
      <4>1. 1 < p + 1 /\ s # << >> /\ Head(s) = s[1]
        BY <2>1, <2>2, <3>3
      <4>2. q[1] = s[1]
        BY <2>4, <2>12, <2>22, <2>23, <3>3, <4>1
      <4> QED
        BY <2>12, <2>21, <2>22, <2>23, <3>3, <4>1, <4>2
    <3> QED
      BY <3>1, <3>2, <3>3
  <2>24. \A w \in Vms : \/ turn_timer_'[w] = turn_timer_[w]
                        \/ /\ turn_timer_'[w] \in Clients
                           /\ Contains(turn_queue_'[w], turn_timer_'[w])
    <3> SUFFICES ASSUME NEW w \in Vms, turn_timer_'[w] # turn_timer_[w]
                 PROVE  /\ turn_timer_'[w] \in Clients
                        /\ Contains(turn_queue_'[w], turn_timer_'[w])
      OBVIOUS
    <3>1. w = v /\ q # << >> /\ turn_timer_'[w] = q[1] /\ q[1] \in Clients /\ 1 \in 1..Len(q)
      BY <2>21, <2>22
    <3> QED
      BY <2>12, <3>1 DEF Contains
  <2> QED
    BY <1>1, <2>9, <2>12, <2>13, <2>17, <2>19, <2>20, <2>21, <2>23, <2>24
<1> QED
  BY <1>3, <1>4

(* RemoveTurn keeps the types even where the position is another queue's.  *)
LEMMA RemoveTurnTypes ==
    ASSUME ClientTurnsTypeOK, NEW v \in Vms, NEW c \in Clients, RemoveTurn(v, c)
    PROVE  /\ turn_queue_position_' \in [Clients -> Nat \cup {nullopt}]
           /\ turn_queue_' \in [Vms -> Seq(Clients)]
           /\ turn_timer_' \in [Vms -> Clients \cup {NoClient}]
           /\ crashed' \in BOOLEAN
<1> DEFINE p == turn_queue_position_[c]
           s == turn_queue_[v]
           q == RemoveAt(turn_queue_[v], p + 1)
           behind == {q[i] : i \in (p + 1)..Len(q)}
<1>1. /\ turn_queue_position_ \in [Clients -> Nat \cup {nullopt}]
      /\ turn_queue_ \in [Vms -> Seq(Clients)]
      /\ turn_timer_ \in [Vms -> Clients \cup {NoClient}]
      /\ crashed \in BOOLEAN
  BY DEF ClientTurnsTypeOK
<1>2. s \in Seq(Clients) /\ Len(s) \in Nat /\ p \in Nat \cup {nullopt}
  BY <1>1, LenProperties
<1>3. CASE p = nullopt
  BY <1>1, <1>3 DEF RemoveTurn, turnVars
<1>4. CASE p # nullopt /\ (p >= Len(s) \/ \E d \in behind : turn_queue_position_[d] <= 0)
  BY <1>1, <1>4 DEF RemoveTurn
<1>5. CASE p # nullopt /\ ~(p >= Len(s) \/ \E d \in behind : turn_queue_position_[d] <= 0)
  <2>1. /\ turn_queue_' = [turn_queue_ EXCEPT ![v] = q]
        /\ turn_queue_position_' =
               [d \in Clients |-> IF d = c THEN nullopt
                                  ELSE IF d \in behind THEN turn_queue_position_[d] - 1
                                  ELSE turn_queue_position_[d]]
        /\ turn_timer_' = IF p = 0 THEN Started(v, q) ELSE turn_timer_
        /\ UNCHANGED crashed
    BY <1>5 DEF RemoveTurn
  <2>2. p \in Nat /\ p + 1 \in 1..Len(s)
    BY <1>2, <1>5
  <2>3. q \in Seq(Clients)
    BY <1>2, <2>2, RemoveAtElements
  <2>4. \A d \in behind : ~(turn_queue_position_[d] <= 0)
    BY <1>5
  <2> HIDE DEF q, behind, p, s
  <2>5. ASSUME NEW d \in Clients PROVE turn_queue_position_'[d] \in Nat \cup {nullopt}
    <3>1. CASE d = c
      BY <2>1, <3>1
    <3>2. CASE d # c /\ d \in behind
      <4>1. turn_queue_position_'[d] = turn_queue_position_[d] - 1
        BY <2>1, <3>2
      <4>2. ~(turn_queue_position_[d] <= 0) /\ turn_queue_position_[d] \in Nat \cup {-1}
        BY <1>1, <2>4, <3>2 DEF nullopt
      <4>3. turn_queue_position_[d] - 1 \in Nat
        BY <4>2
      <4> QED
        BY <4>1, <4>3
    <3>3. CASE d # c /\ d \notin behind
      BY <1>1, <2>1, <3>3
    <3> QED
      BY <3>1, <3>2, <3>3
  <2>6. turn_queue_position_' \in [Clients -> Nat \cup {nullopt}]
    BY <2>1, <2>5
  <2>7. turn_queue_' \in [Vms -> Seq(Clients)]
    BY <1>1, <2>1, <2>3
  <2>8. turn_timer_' \in [Vms -> Clients \cup {NoClient}]
    <3>1. CASE p = 0 /\ q # << >>
      <4>1. turn_timer_' = [turn_timer_ EXCEPT ![v] = Head(q)] /\ Head(q) \in Clients
        BY <2>1, <2>3, <3>1 DEF Started
      <4> QED
        BY <1>1, <4>1
    <3>2. CASE ~(p = 0 /\ q # << >>)
      BY <1>1, <2>1, <3>2 DEF Started
    <3> QED
      BY <3>1, <3>2
  <2> QED
    BY <1>1, <2>1, <2>6, <2>7, <2>8
<1> QED
  BY <1>3, <1>4, <1>5

(* RequestTurn of a client that is not queued.                             *)
LEMMA EnqueueKeeps ==
    ASSUME ClientTurnsTypeOK, NEW v \in Vms, NEW c \in Clients,
           NEW q, q = Append(turn_queue_[v], c), turn_queue_position_[c] = nullopt,
           turn_queue_' = [turn_queue_ EXCEPT ![v] = q],
           turn_queue_position_' = [turn_queue_position_ EXCEPT ![c] = Len(q) - 1],
           turn_timer_' = IF Len(q) = 1 THEN Started(v, q) ELSE turn_timer_
    PROVE  /\ turn_queue_position_' \in [Clients -> Nat \cup {nullopt}]
           /\ turn_queue_' \in [Vms -> Seq(Clients)]
           /\ turn_timer_' \in [Vms -> Clients \cup {NoClient}]
           /\ \A w \in Vms, d \in Clients : Contains(turn_queue_[w], d)' <=>
                 Contains(turn_queue_[w], d) \/ (w = v /\ d = c)
           /\ QueuesSound => QueuesSound'
           /\ \A d \in Clients : d # c => turn_queue_position_'[d] = turn_queue_position_[d]
           /\ \A w \in Vms : \/ turn_timer_'[w] = turn_timer_[w]
                             \/ w = v /\ turn_timer_'[w] = c
           /\ \A w \in Vms : turn_queue_'[w] # << >> =>
                 \/ turn_timer_'[w] = Head(turn_queue_'[w])
                 \/ /\ turn_queue_[w] # << >> /\ Head(turn_queue_'[w]) = Head(turn_queue_[w])
                    /\ turn_timer_'[w] = turn_timer_[w]
<1> DEFINE s == turn_queue_[v]
<1>1. /\ turn_queue_position_ \in [Clients -> Nat \cup {nullopt}]
      /\ turn_queue_ \in [Vms -> Seq(Clients)]
      /\ turn_timer_ \in [Vms -> Clients \cup {NoClient}]
  BY DEF ClientTurnsTypeOK
<1>2. \A w \in Vms : /\ turn_queue_[w] \in Seq(Clients) /\ Len(turn_queue_[w]) \in Nat
                     /\ \A i \in 1..Len(turn_queue_[w]) : turn_queue_[w][i] \in Clients
  BY <1>1, LenProperties
<1>3. /\ q \in Seq(Clients) /\ Len(q) = Len(s) + 1 /\ Len(s) \in Nat
      /\ \A i \in 1..Len(s) : q[i] = s[i]
      /\ q[Len(s) + 1] = c
  BY <1>2, AppendProperties
<1>4. \A i \in 1..Len(q) : i \in 1..Len(s) \/ i = Len(s) + 1
  BY <1>3
<1>5. 1..Len(s) \subseteq 1..Len(q) /\ Len(s) + 1 \in 1..Len(q) /\ Len(q) - 1 = (Len(s) + 1) - 1
  BY <1>3
<1>6. turn_queue_' \in [Vms -> Seq(Clients)] /\ turn_queue_'[v] = q
      /\ \A w \in Vms : w # v => turn_queue_'[w] = turn_queue_[w]
  BY <1>1, <1>3
<1>7. /\ turn_queue_position_' \in [Clients -> Nat \cup {nullopt}]
      /\ turn_queue_position_'[c] = (Len(s) + 1) - 1
      /\ \A d \in Clients : d # c => turn_queue_position_'[d] = turn_queue_position_[d]
  <2> Len(q) - 1 \in Nat
    BY <1>3
  <2> QED
    BY <1>1, <1>5
<1>8. ASSUME NEW w \in Vms, NEW d \in Clients
      PROVE  Contains(turn_queue_[w], d)' <=> Contains(turn_queue_[w], d) \/ (w = v /\ d = c)
  <2>1. CASE w # v
    BY <1>6, <2>1 DEF Contains
  <2>2. CASE w = v
    <3>1. (\E i \in 1..Len(q) : q[i] = d) <=> (\E i \in 1..Len(s) : s[i] = d) \/ d = c
      BY <1>3, <1>4, <1>5
    <3> QED
      BY <1>6, <2>2, <3>1 DEF Contains
  <2> QED
    BY <2>1, <2>2
<1>9. ASSUME QueuesSound PROVE QueuesSound'
  <2>1. \A w \in Vms : ~Contains(turn_queue_[w], c)
    <3> SUFFICES ASSUME NEW w \in Vms, NEW i \in 1..Len(turn_queue_[w]), turn_queue_[w][i] = c
                 PROVE  FALSE
      BY DEF Contains
    <3>1. nullopt = i - 1
      BY <1>9 DEF QueuesSound
    <3> QED
      BY <3>1, <1>2 DEF nullopt
  <2>2. ASSUME NEW w \in Vms, NEW i \in 1..Len(turn_queue_[w])
        PROVE  turn_queue_position_'[turn_queue_[w][i]] = i - 1
    <3>1. turn_queue_[w][i] # c /\ turn_queue_[w][i] \in Clients
      BY <1>2, <2>1 DEF Contains
    <3> QED
      BY <1>7, <1>9, <3>1 DEF QueuesSound
  <2>3. ASSUME NEW w \in Vms, NEW i \in 1..Len(turn_queue_'[w])
        PROVE  turn_queue_position_'[turn_queue_'[w][i]] = i - 1
    <3>1. CASE w # v
      BY <1>6, <2>2, <3>1
    <3>2. CASE w = v /\ i \in 1..Len(s)
      BY <1>3, <1>6, <2>2, <3>2
    <3>3. CASE w = v /\ i = Len(s) + 1
      BY <1>3, <1>6, <1>7, <3>3
    <3> QED
      BY <1>4, <1>6, <3>1, <3>2, <3>3
  <2>4. \A d \in Clients, w, x \in Vms :
           Contains(turn_queue_[w], d)' /\ Contains(turn_queue_[x], d)' => w = x
    BY <1>8, <1>9, <2>1 DEF QueuesSound
  <2>5. \A d \in Clients : turn_queue_position_'[d] # nullopt =>
           \E w \in Vms : Contains(turn_queue_[w], d)'
    BY <1>7, <1>8, <1>9 DEF QueuesSound
  <2> QED
    BY <2>3, <2>4, <2>5 DEF QueuesSound
<1>10. q # << >> /\ Head(q) = q[1] /\ (Len(q) # 1 => s # << >> /\ Head(s) = s[1] /\ 1 \in 1..Len(s))
  BY <1>2, <1>3
<1>11. Len(q) = 1 => q[1] = c
  <2> Len(q) = 1 => Len(s) + 1 = 1
    BY <1>3
  <2> QED
    BY <1>3
<1>12. /\ turn_timer_' \in [Vms -> Clients \cup {NoClient}]
       /\ \A w \in Vms : w # v \/ Len(q) # 1 => turn_timer_'[w] = turn_timer_[w]
       /\ Len(q) = 1 => turn_timer_'[v] = c
  <2>1. CASE Len(q) = 1
    <3> turn_timer_' = [turn_timer_ EXCEPT ![v] = c]
      BY <1>10, <1>11, <2>1 DEF Started
    <3> QED
      BY <1>1, <2>1
  <2>2. CASE Len(q) # 1
    BY <1>1, <2>2
  <2> QED
    BY <2>1, <2>2
<1>13. ASSUME NEW w \in Vms, turn_queue_'[w] # << >>
       PROVE  \/ turn_timer_'[w] = Head(turn_queue_'[w])
              \/ /\ turn_queue_[w] # << >> /\ Head(turn_queue_'[w]) = Head(turn_queue_[w])
                 /\ turn_timer_'[w] = turn_timer_[w]
  <2>1. CASE w # v
    BY <1>6, <1>12, <1>13, <2>1
  <2>2. CASE w = v /\ Len(q) = 1
    BY <1>6, <1>10, <1>11, <1>12, <2>2
  <2>3. CASE w = v /\ Len(q) # 1
    BY <1>3, <1>6, <1>10, <1>12, <2>3
  <2> QED
    BY <2>1, <2>2, <2>3
<1>14. \A w \in Vms : turn_timer_'[w] = turn_timer_[w] \/ (w = v /\ turn_timer_'[w] = c)
  BY <1>12
<1> QED
  BY <1>6, <1>7, <1>8, <1>9, <1>12, <1>13, <1>14
-----------------------------------------------------------------------------
(* What a step that changes neither queue nor timer leaves of the turns.   *)
LEMMA TaskIn ==
    /\ \A c \in Clients, v \in Vms \cup {NoVm} :
          /\ Task("join", c, v) \in Tasks /\ Task("leave", c, v) \in Tasks
          /\ Task("end", c, v) \in Tasks /\ Task("turn", c, v) \in Tasks
          /\ Task("expired", c, v) \in Tasks
  BY DEF Task, Tasks

LEMMA TimedAt ==
    ASSUME ClientTurnsTypeOK, NEW v \in Vms, turn_queue_[v] # << >>
    PROVE  Head(turn_queue_[v]) \in Clients /\ Contains(turn_queue_[v], Head(turn_queue_[v]))
<1>1. turn_queue_[v] \in Seq(Clients)
  BY DEF ClientTurnsTypeOK
<1>2. 1 \in 1..Len(turn_queue_[v]) /\ Head(turn_queue_[v]) = turn_queue_[v][1]
  BY <1>1
<1> QED
  BY <1>1, <1>2 DEF Contains

LEMMA TimedNext ==
    ASSUME \A v \in Vms, c \in Clients :
              /\ turn_queue_'[v] # << >> /\ c = Head(turn_queue_'[v])
              /\ turn_timer_'[v] # c
              => Pending(Task("expired", c, v))',
           turn_queue_' \in [Vms -> Seq(Clients)]
    PROVE  CurrentTurnIsTimed'
<1> SUFFICES ASSUME NEW v \in Vms, turn_queue_'[v] # << >>,
                    turn_timer_'[v] # Head(turn_queue_'[v])
             PROVE  \E s \in Strands :
                       Contains(tasks'[s], Task("expired", Head(turn_queue_'[v]), v))
  BY DEF CurrentTurnIsTimed, Pending, Strands
<1>1. turn_queue_'[v] \in Seq(Clients)
  OBVIOUS
<1>2. PICK c \in Clients : c = Head(turn_queue_'[v])
  BY <1>1
<1>3. Pending(Task("expired", c, v))'
  BY <1>2
<1> QED
  BY <1>2, <1>3 DEF Pending, Strands

LEMMA SameTurns ==
    ASSUME TurnQueuesInv, ~hasty, UNCHANGED turnVars, NEW n, NEW pushed, Moved(n, pushed),
           \A s \in Strands : n[s] = 1 => Head(tasks[s]).do # "expired",
           \A s \in Strands, c \in Clients, v \in Vms :
              <<s, Task("leave", c, v)>> \in pushed => ~QueuedElsewhere(c, v),
           \A s \in Strands, c \in Clients, v \in Vms :
              <<s, Task("expired", c, v)>> \notin pushed
    PROVE  ~crashed' /\ QueuesSound' /\ RemovalsSound' /\ CurrentTurnIsTimed'
<1>1. /\ turn_queue_' = turn_queue_ /\ turn_queue_position_' = turn_queue_position_
      /\ turn_timer_' = turn_timer_ /\ crashed' = crashed
  BY DEF turnVars
<1>2. \A w \in Vms, d \in Clients : Contains(turn_queue_[w], d)' <=> Contains(turn_queue_[w], d)
  BY <1>1 DEF Contains
<1>3. ClientTurnsTypeOK /\ ~crashed /\ QueuesSound /\ RemovalsSound /\ CurrentTurnIsTimed
      /\ tasks \in [Strands -> Seq(Tasks)]
  BY DEF TurnQueuesInv, ClientTurnsTypeOK
<1>4. QueuesSound'
  BY <1>1, <1>2, <1>3 DEF QueuesSound
<1>5. RemovalsSound'
  <2> SUFFICES ASSUME NEW c \in Clients, NEW v \in Vms, turn_queue_position_[c] # nullopt,
                      \/ turn_timer_[v] = c \/ Pending(Task("expired", c, v))'
                      \/ Pending(Task("leave", c, v))'
               PROVE  Contains(turn_queue_[v], c)
    BY <1>1, <1>2 DEF RemovalsSound
  <2>1. Pending(Task("expired", c, v))' => Pending(Task("expired", c, v))
    BY <1>3, PendingMoves, TaskIn
  <2>2. Pending(Task("leave", c, v))' =>
           Pending(Task("leave", c, v)) \/ ~QueuedElsewhere(c, v)
    BY <1>3, PendingMoves, TaskIn
  <2>3. ~QueuedElsewhere(c, v) => Contains(turn_queue_[v], c)
    BY ClientTurnsConstants DEF QueuedElsewhere
  <2> QED
    BY <1>3, <2>1, <2>2, <2>3 DEF RemovalsSound
<1>6. CurrentTurnIsTimed'
  <2>1. turn_queue_' \in [Vms -> Seq(Clients)]
    BY <1>1, <1>3 DEF ClientTurnsTypeOK
  <2>2. ASSUME NEW v \in Vms, NEW c \in Clients, turn_queue_'[v] # << >>,
               c = Head(turn_queue_'[v]), turn_timer_'[v] # c
        PROVE  Pending(Task("expired", c, v))'
    <3>1. Pending(Task("expired", c, v))
      BY <1>1, <1>3, <2>2 DEF CurrentTurnIsTimed
    <3>2. \A s \in Strands : n[s] = 1 => Head(tasks[s]) # Task("expired", c, v)
      BY TaskFields
    <3> QED
      BY <1>3, <3>1, <3>2, PendingMoves, TaskIn
  <2> QED
    BY <2>1, <2>2, TimedNext
<1> QED
  BY <1>1, <1>3, <1>4, <1>5, <1>6

(* A step of machine v that runs a task of client c and removes c.         *)
LEMMA RemovedTurns ==
    ASSUME TurnQueuesInv, ~hasty, NEW v \in Vms, NEW c \in Clients, RemoveTurn(v, c),
           turn_queue_position_[c] # nullopt => Contains(turn_queue_[v], c),
           NEW n, n = FirstOf({v}), NEW none, \A x : x \notin none, Moved(n, none),
           Head(tasks[v]).client = c
    PROVE  /\ ~crashed' /\ QueuesSound' /\ RemovalsSound' /\ CurrentTurnIsTimed'
           /\ \A w \in Vms, d \in Clients :
                 Contains(turn_queue_[w], d)' <=> Contains(turn_queue_[w], d) /\ d # c
<1>1. ClientTurnsTypeOK /\ ~crashed /\ QueuesSound /\ RemovalsSound /\ CurrentTurnIsTimed
      /\ tasks \in [Strands -> Seq(Tasks)]
  BY DEF TurnQueuesInv, ClientTurnsTypeOK
<1>2. /\ ~crashed' /\ QueuesSound'
      /\ \A w \in Vms, d \in Clients :
            Contains(turn_queue_[w], d)' <=> Contains(turn_queue_[w], d) /\ d # c
      /\ \A d \in Clients : turn_queue_position_'[d] # nullopt =>
            d # c /\ turn_queue_position_[d] # nullopt
      /\ \A w \in Vms : turn_queue_'[w] # << >> =>
            \/ turn_timer_'[w] = Head(turn_queue_'[w])
            \/ /\ turn_queue_[w] # << >> /\ Head(turn_queue_'[w]) = Head(turn_queue_[w])
               /\ turn_timer_'[w] = turn_timer_[w]
      /\ \A w \in Vms : \/ turn_timer_'[w] = turn_timer_[w]
                        \/ /\ turn_timer_'[w] \in Clients
                           /\ Contains(turn_queue_'[w], turn_timer_'[w])
      /\ turn_queue_' \in [Vms -> Seq(Clients)]
  BY <1>1, RemoveTurnKeeps
<1>3. RemovalsSound'
  <2> SUFFICES ASSUME NEW d \in Clients, NEW w \in Vms, turn_queue_position_'[d] # nullopt,
                      \/ turn_timer_'[w] = d \/ Pending(Task("expired", d, w))'
                      \/ Pending(Task("leave", d, w))'
               PROVE  Contains(turn_queue_[w], d)'
    BY DEF RemovalsSound
  <2>1. d # c /\ turn_queue_position_[d] # nullopt
    BY <1>2
  <2>2. /\ Pending(Task("expired", d, w))' => Pending(Task("expired", d, w))
        /\ Pending(Task("leave", d, w))' => Pending(Task("leave", d, w))
    <3>1. \A s, x : <<s, x>> \notin none
      OBVIOUS
    <3>2. Task("expired", d, w) \in Tasks /\ Task("leave", d, w) \in Tasks
      BY TaskIn
    <3> QED
      BY <1>1, <3>1, <3>2, PendingMoves
  <2>3. CASE turn_timer_'[w] = d /\ turn_timer_'[w] # turn_timer_[w]
    BY <1>2, <2>3
  <2>4. CASE ~(turn_timer_'[w] = d /\ turn_timer_'[w] # turn_timer_[w])
    <3>1. Contains(turn_queue_[w], d)
      BY <1>1, <2>1, <2>2, <2>4 DEF RemovalsSound
    <3> QED
      BY <1>2, <2>1, <3>1
  <2> QED
    BY <2>3, <2>4
<1>4. CurrentTurnIsTimed'
  <2>1. ASSUME NEW w \in Vms, NEW d \in Clients, turn_queue_'[w] # << >>,
               d = Head(turn_queue_'[w]), turn_timer_'[w] # d
        PROVE  Pending(Task("expired", d, w))'
    <3>1. turn_queue_[w] # << >> /\ d = Head(turn_queue_[w]) /\ turn_timer_[w] # d
      BY <1>2, <2>1
    <3>2. Contains(turn_queue_[w], d)'
      <4>1. turn_queue_'[w] \in Seq(Clients)
        BY <1>2
      <4>2. 1 \in 1..Len(turn_queue_'[w]) /\ d = turn_queue_'[w][1]
        BY <2>1, <4>1
      <4> QED
        BY <4>2 DEF Contains
    <3>3. d # c
      BY <1>2, <3>2
    <3>4. Pending(Task("expired", d, w))
      BY <1>1, <3>1 DEF CurrentTurnIsTimed
    <3>5. \A s \in Strands : n[s] = 1 => Head(tasks[s]) # Task("expired", d, w)
      BY <3>3, TaskFields DEF FirstOf
    <3> QED
      BY <1>1, <3>4, <3>5, PendingMoves, TaskIn
  <2> QED
    BY <1>2, <2>1, TimedNext
<1> QED
  BY <1>2, <1>3, <1>4
-----------------------------------------------------------------------------
(* A task that was not pushed was there before, n[s] places further on.    *)
LEMMA PulledBack ==
    ASSUME NEW n, NEW pushed, Moved(n, pushed), NEW s \in Strands,
           NEW task, <<s, task>> \notin pushed
    PROVE  /\ n[s] \in {0, 1}
           /\ \A i \in 1..Len(tasks'[s]) : tasks'[s][i] = task =>
                 i + n[s] \in 1..Len(tasks[s]) /\ tasks[s][i + n[s]] = task
  BY DEF Moved

LEMMA LeaveStaysOne ==
    ASSUME NEW c, NEW v, LeaveIsOne(c, v), NEW n, NEW pushed, Moved(n, pushed),
           \A s \in Strands : <<s, Task("leave", c, v)>> \notin pushed
    PROVE  LeaveIsOne(c, v)'
<1> DEFINE L == Task("leave", c, v)
<1>1. \A s \in Strands : <<s, L>> \notin pushed
  OBVIOUS
<1>2. \A s, t \in Strands : \A i \in 1..Len(tasks[s]), j \in 1..Len(tasks[t]) :
         tasks[s][i] = L /\ tasks[t][j] = L => s = t /\ i = j
  BY DEF LeaveIsOne
<1> HIDE DEF L
<1>3. ASSUME NEW s \in Strands, NEW t \in Strands,
             NEW i \in 1..Len(tasks'[s]), NEW j \in 1..Len(tasks'[t]),
             tasks'[s][i] = L, tasks'[t][j] = L
      PROVE  s = t /\ i = j
  <2>0. <<s, L>> \notin pushed /\ <<t, L>> \notin pushed
    BY <1>1
  <2>1. n[s] \in {0, 1} /\ i + n[s] \in 1..Len(tasks[s]) /\ tasks[s][i + n[s]] = L
    BY <1>3, <2>0, PulledBack
  <2>2. n[t] \in {0, 1} /\ j + n[t] \in 1..Len(tasks[t]) /\ tasks[t][j + n[t]] = L
    BY <1>3, <2>0, PulledBack
  <2>3. s = t /\ i + n[s] = j + n[t]
    BY <1>2, <2>1, <2>2
  <2> QED
    BY <2>1, <2>3
<1> QED
  BY <1>3 DEF LeaveIsOne, L, Strands, Task

LEMMA TurnsStayFirst ==
    ASSUME NEW c, NEW v \in Vms, TurnsComeFirst(c, v), NEW n, NEW pushed, Moved(n, pushed),
           <<v, Task("leave", c, v)>> \notin pushed, <<v, Task("turn", c, v)>> \notin pushed
    PROVE  TurnsComeFirst(c, v)'
<1> DEFINE L == Task("leave", c, v)
           T == Task("turn", c, v)
<1>1. <<v, L>> \notin pushed /\ <<v, T>> \notin pushed /\ v \in Strands
  BY StrandsDiffer
<1>2. \A i, j \in 1..Len(tasks[v]) : tasks[v][i] = L /\ tasks[v][j] = T => j < i
  BY DEF TurnsComeFirst
<1> HIDE DEF L, T
<1>3. ASSUME NEW i \in 1..Len(tasks'[v]), NEW j \in 1..Len(tasks'[v]),
             tasks'[v][i] = L, tasks'[v][j] = T
      PROVE  j < i
  <2>1. n[v] \in {0, 1} /\ i + n[v] \in 1..Len(tasks[v]) /\ tasks[v][i + n[v]] = L
    BY <1>1, <1>3, PulledBack
  <2>2. j + n[v] \in 1..Len(tasks[v]) /\ tasks[v][j + n[v]] = T
    BY <1>1, <1>3, PulledBack
  <2>3. j + n[v] < i + n[v]
    BY <1>2, <2>1, <2>2
  <2> QED
    BY <2>1, <2>3
<1> QED
  BY <1>3 DEF TurnsComeFirst, L, T, Task

LEMMA LeaveStillFollows ==
    ASSUME NEW c, LeaveFollows(c), NEW n, NEW pushed, Moved(n, pushed),
           <<VmList, Task("turn", c, NoVm)>> \notin pushed,
           connected_vm_id_'[c] = connected_vm_id_[c]
    PROVE  LeaveFollows(c)'
<1> DEFINE V == VmList
           T == Task("turn", c, NoVm)
           L == Task("leave", c, connected_vm_id_[c])
<1>1. <<V, T>> \notin pushed /\ V \in Strands
  BY StrandsDiffer
<1>2. \A j \in 1..Len(tasks[V]) : tasks[V][j] = T =>
         \E k \in 1..Len(tasks[V]) : j < k /\ tasks[V][k] = L
  BY DEF LeaveFollows
<1> HIDE DEF V, T, L
<1>3. ASSUME NEW j \in 1..Len(tasks'[V]), tasks'[V][j] = T
      PROVE  \E k \in 1..Len(tasks'[V]) : j < k /\ tasks'[V][k] = L
  <2>1. n[V] \in {0, 1} /\ j + n[V] \in 1..Len(tasks[V]) /\ tasks[V][j + n[V]] = T
    BY <1>1, <1>3, PulledBack
  <2>2. PICK k \in 1..Len(tasks[V]) : j + n[V] < k /\ tasks[V][k] = L
    BY <1>2, <2>1
  <2>3. k > n[V] /\ j < k - n[V]
    <3> j \in Nat /\ j > 0 /\ k \in Int
      OBVIOUS
    <3> QED
      BY <2>1, <2>2
  <2>4. k - n[V] \in 1..Len(tasks'[V]) /\ tasks'[V][k - n[V]] = tasks[V][k]
    BY <1>1, <2>3 DEF Moved
  <2> QED
    BY <2>2, <2>3, <2>4
<1> QED
  BY <1>3 DEF LeaveFollows, V, T, L, Task

(* The order of a client's tasks is kept as long as none of them is pushed *)
(* and it neither moves nor loses a membership.                            *)
LEMMA LeaveStaysLast ==
    ASSUME ClientTurnsTypeOK, NEW c \in Clients, LeaveIsLast(c),
           NEW n, NEW pushed, Moved(n, pushed),
           \A s \in Strands, v \in Vms :
              <<s, Task("leave", c, v)>> \notin pushed /\ <<s, Task("turn", c, v)>> \notin pushed,
           ~open[c] => <<VmList, Task("turn", c, NoVm)>> \notin pushed,
           rejoined[c] => rejoined'[c],
           open'[c] = open[c], connected_vm_id_'[c] = connected_vm_id_[c],
           \A v \in Vms : c \in users_[v] => c \in users_'[v]
    PROVE  LeaveIsLast(c)'
<1>1. tasks \in [Strands -> Seq(Tasks)]
  BY DEF ClientTurnsTypeOK
<1>2. Vms \subseteq Strands
  BY StrandsDiffer
<1> SUFFICES ASSUME ~rejoined'[c] PROVE LeaveIsLast(c)'
  BY DEF LeaveIsLast
<1>3. ~rejoined[c]
  OBVIOUS
<1>4. ASSUME NEW v \in Vms
      PROVE  /\ Pending(Task("leave", c, v))' => Pending(Task("leave", c, v))
             /\ Contains(tasks[v], Task("turn", c, v))' => Contains(tasks[v], Task("turn", c, v))
  <2>1. Task("leave", c, v) \in Tasks /\ Task("turn", c, v) \in Tasks /\ v \in Strands
    BY <1>2, TaskIn
  <2> QED
    BY <1>1, <2>1, PendingMoves
<1>5. ASSUME NEW v \in Vms
      PROVE  /\ connected_vm_id_'[c] = v /\ open'[c] =>
                   c \in users_'[v] /\ ~Pending(Task("leave", c, v))'
             /\ Pending(Task("leave", c, v))' \/ Contains(tasks[v], Task("turn", c, v))' =>
                   c \in users_'[v]
  BY <1>3, <1>4 DEF LeaveIsLast
<1>6. ASSUME NEW v \in Vms PROVE LeaveIsOne(c, v)' /\ TurnsComeFirst(c, v)'
  BY <1>2, <1>3, LeaveStaysOne, TurnsStayFirst DEF LeaveIsLast
<1>7. ~open'[c] => LeaveFollows(c)'
  BY <1>3, LeaveStillFollows DEF LeaveIsLast
<1> QED
  BY <1>5, <1>6, <1>7 DEF LeaveIsLast

(* A client that goes, to another machine or for good, pushes its only     *)
(* "leave" behind its requests.                                            *)
LEMMA LeavePushed ==
    ASSUME ClientTurnsTypeOK, NEW c \in Clients, LeaveIsLast(c), ~rejoined[c], open[c],
           NEW v \in Vms, connected_vm_id_[c] = v,
           NEW n, NEW pushed, Moved(n, pushed),
           \A s, t : <<s, t>> \in pushed <=> s = VmList /\ t = Task("leave", c, v),
           \/ ~open'[c] /\ connected_vm_id_'[c] = v
           \/ \E w \in Vms : /\ w # v /\ c \notin users_[w] /\ c \in users_'[w]
                             /\ open'[c] /\ connected_vm_id_'[c] = w,
           \A w \in Vms : c \in users_[w] => c \in users_'[w]
    PROVE  LeaveIsLast(c)'
<1>1. tasks \in [Strands -> Seq(Tasks)] /\ n \in [Strands -> {0, 1}]
  BY DEF ClientTurnsTypeOK, Moved
<1>2. VmList \in Strands /\ Vms \subseteq Strands /\ \A w \in Vms : w # VmList
  BY StrandsDiffer
<1>3. /\ c \in users_[v] /\ ~Pending(Task("leave", c, v))
      /\ \A w \in Vms : /\ LeaveIsOne(c, w) /\ TurnsComeFirst(c, w)
                        /\ Pending(Task("leave", c, w)) => c \in users_[w]
                        /\ Contains(tasks[w], Task("turn", c, w)) => c \in users_[w]
  BY DEF LeaveIsLast
<1>4. ASSUME NEW w \in Vms
      PROVE  /\ Pending(Task("leave", c, w))' => Pending(Task("leave", c, w)) \/ w = v
             /\ Contains(tasks[w], Task("turn", c, w))' => Contains(tasks[w], Task("turn", c, w))
             /\ \A s : <<s, Task("turn", c, w)>> \notin pushed
             /\ \A s \in Strands : s # VmList \/ w # v => <<s, Task("leave", c, w)>> \notin pushed
  <2>1. Task("leave", c, w) \in Tasks /\ Task("turn", c, w) \in Tasks /\ w \in Strands
    BY <1>2, TaskIn
  <2>2. Task("turn", c, w) # Task("leave", c, v) /\ (w # v => Task("leave", c, w) # Task("leave", c, v))
    BY TaskFields
  <2> QED
    BY <1>1, <2>1, <2>2, PendingMoves
<1>5. ASSUME NEW w \in Vms
      PROVE  /\ connected_vm_id_'[c] = w /\ open'[c] =>
                   c \in users_'[w] /\ ~Pending(Task("leave", c, w))'
             /\ Pending(Task("leave", c, w))' \/ Contains(tasks[w], Task("turn", c, w))' =>
                   c \in users_'[w]
  BY <1>3, <1>4
<1>6. ASSUME NEW w \in Vms PROVE LeaveIsOne(c, w)'
  <2>1. CASE w # v
    BY <1>3, <1>4, <2>1, LeaveStaysOne
  <2>2. CASE w = v
    <3> DEFINE L == Task("leave", c, v)
    <3>1. ASSUME NEW s \in Strands, NEW i \in 1..Len(tasks'[s]), tasks'[s][i] = L
          PROVE  s = VmList /\ i + n[s] = Len(tasks[s]) + 1
      <4>1. ~(i + n[s] \in 1..Len(tasks[s]) /\ tasks[s][i + n[s]] = L)
        BY <1>3 DEF Pending, Contains
      <4>2. <<s, tasks'[s][i]>> \in pushed /\ i + n[s] = Len(tasks[s]) + 1
        BY <3>1, <4>1 DEF Moved
      <4> QED
        BY <4>2
    <3> HIDE DEF L
    <3>2. ASSUME NEW s \in Strands, NEW t \in Strands,
                 NEW i \in 1..Len(tasks'[s]), NEW j \in 1..Len(tasks'[t]),
                 tasks'[s][i] = L, tasks'[t][j] = L
          PROVE  s = t /\ i = j
      <4>1. s = t /\ i + n[s] = j + n[s] /\ n[s] \in {0, 1}
        BY <1>1, <3>1, <3>2
      <4> QED
        BY <4>1
    <3> QED
      BY <2>2, <3>2 DEF LeaveIsOne, L, Strands, Task
  <2> QED
    BY <2>1, <2>2
<1>7. ASSUME NEW w \in Vms PROVE TurnsComeFirst(c, w)'
  BY <1>2, <1>3, <1>4, TurnsStayFirst
<1>8. ASSUME ~open'[c] PROVE LeaveFollows(c)'
  <2> DEFINE V == VmList
             T == Task("turn", c, NoVm)
             L == Task("leave", c, v)
             k == Len(tasks[V]) + 1 - n[V]
  <2>1. V \in Strands /\ T # L /\ L \in Tasks /\ <<V, L>> \in pushed /\ <<V, T>> \notin pushed
    BY <1>2, TaskFields, TaskIn
  <2>2. connected_vm_id_'[c] = v
    BY <1>8
  <2> HIDE DEF V, T, L, k
  <2>3. k \in 1..Len(tasks'[V]) /\ tasks'[V][k] = L
    BY <2>1 DEF Moved, k
  <2>4. ASSUME NEW j \in 1..Len(tasks'[V]), tasks'[V][j] = T
        PROVE  j < k
    <3>1. n[V] \in {0, 1} /\ j + n[V] \in 1..Len(tasks[V])
      BY <2>1, <2>4, PulledBack
    <3> QED
      BY <3>1 DEF k
  <2> QED
    BY <2>2, <2>3, <2>4 DEF LeaveFollows, V, T, L, Task
<1> QED
  BY <1>5, <1>6, <1>7, <1>8 DEF LeaveIsLast

(* virtual_machines_ passes a "leave" on to the machine.                   *)
LEMMA LeaveForwarded ==
    ASSUME ClientTurnsTypeOK, NEW c \in Clients, LeaveIsLast(c), NEW v \in Vms,
           tasks[VmList] # << >>, Head(tasks[VmList]) = Task("leave", c, v),
           NEW n, n = FirstOf({VmList}), NEW pushed, Moved(n, pushed),
           \A s, t : <<s, t>> \in pushed <=> s = v /\ t = Task("leave", c, v),
           UNCHANGED <<rejoined, open, connected_vm_id_, users_>>
    PROVE  LeaveIsLast(c)'
<1> SUFFICES ASSUME ~rejoined[c] PROVE LeaveIsLast(c)'
  BY DEF LeaveIsLast
<1> DEFINE V == VmList
           L == Task("leave", c, v)
<1>1. tasks \in [Strands -> Seq(Tasks)] /\ n \in [Strands -> {0, 1}]
  BY DEF ClientTurnsTypeOK, Moved
<1>2. V \in Strands /\ Vms \subseteq Strands /\ \A w \in Vms : w # V
  BY StrandsDiffer
<1>3. n[V] = 1 /\ 1 \in 1..Len(tasks[V]) /\ tasks[V][1] = L
  <2>1. tasks[V] \in Seq(Tasks)
    BY <1>1, <1>2
  <2> QED
    BY <1>2, <2>1 DEF FirstOf
<1> HIDE DEF V
<1>4. Pending(L)
  BY <1>2, <1>3 DEF Pending, Contains
<1>5. ASSUME NEW w \in Vms
      PROVE  /\ Pending(Task("leave", c, w))' => Pending(Task("leave", c, w))
             /\ Contains(tasks[w], Task("turn", c, w))' => Contains(tasks[w], Task("turn", c, w))
             /\ \A s : <<s, Task("turn", c, w)>> \notin pushed
             /\ \A s : <<s, Task("turn", c, NoVm)>> \notin pushed
             /\ w # v => \A s : <<s, Task("leave", c, w)>> \notin pushed
  <2>1. Task("leave", c, w) \in Tasks /\ Task("turn", c, w) \in Tasks /\ w \in Strands
    BY <1>2, TaskIn
  <2>2. Task("turn", c, w) # L /\ Task("turn", c, NoVm) # L /\ (w # v => Task("leave", c, w) # L)
    BY TaskFields
  <2> QED
    BY <1>1, <1>4, <2>1, <2>2, PendingMoves
<1>6. ASSUME NEW w \in Vms
      PROVE  /\ connected_vm_id_'[c] = w /\ open'[c] =>
                   c \in users_'[w] /\ ~Pending(Task("leave", c, w))'
             /\ Pending(Task("leave", c, w))' \/ Contains(tasks[w], Task("turn", c, w))' =>
                   c \in users_'[w]
  BY <1>5 DEF LeaveIsLast
<1>7. ASSUME NEW s \in Strands, NEW i \in 1..Len(tasks'[s]), tasks'[s][i] = L
      PROVE  s = v /\ i + n[s] = Len(tasks[s]) + 1
  <2>1. ~(i + n[s] \in 1..Len(tasks[s]) /\ tasks[s][i + n[s]] = L)
    <3> SUFFICES ASSUME i + n[s] \in 1..Len(tasks[s]), tasks[s][i + n[s]] = L PROVE FALSE
      OBVIOUS
    <3>1. s = V /\ i + n[s] = 1
      BY <1>2, <1>3 DEF LeaveIsLast, LeaveIsOne
    <3> QED
      BY <1>3, <3>1
  <2>2. <<s, tasks'[s][i]>> \in pushed /\ i + n[s] = Len(tasks[s]) + 1
    BY <1>7, <2>1 DEF Moved
  <2> QED
    BY <2>2
<1>8. ASSUME NEW w \in Vms PROVE LeaveIsOne(c, w)'
  <2>1. CASE w # v
    BY <1>5, <2>1, LeaveStaysOne DEF LeaveIsLast
  <2>2. CASE w = v
    <3> HIDE DEF L
    <3>1. ASSUME NEW s \in Strands, NEW t \in Strands,
                 NEW i \in 1..Len(tasks'[s]), NEW j \in 1..Len(tasks'[t]),
                 tasks'[s][i] = L, tasks'[t][j] = L
          PROVE  s = t /\ i = j
      <4>1. s = t /\ i + n[s] = j + n[s] /\ n[s] \in {0, 1}
        BY <1>1, <1>7, <3>1
      <4> QED
        BY <4>1
    <3> QED
      BY <2>2, <3>1 DEF LeaveIsOne, L, Strands, Task
  <2> QED
    BY <2>1, <2>2
<1>9. ASSUME NEW w \in Vms PROVE TurnsComeFirst(c, w)'
  <2>1. CASE w # v
    BY <1>5, <2>1, TurnsStayFirst DEF LeaveIsLast
  <2>2. CASE w = v
    <3> DEFINE T == Task("turn", c, v)
    <3>1. v \in Strands /\ <<v, T>> \notin pushed
      BY <1>2, <1>5
    <3> HIDE DEF L, T
    <3>2. ASSUME NEW i \in 1..Len(tasks'[v]), NEW j \in 1..Len(tasks'[v]),
                 tasks'[v][i] = L, tasks'[v][j] = T
          PROVE  j < i
      <4>1. i + n[v] = Len(tasks[v]) + 1
        BY <1>7, <3>1, <3>2
      <4>2. n[v] \in {0, 1} /\ j + n[v] \in 1..Len(tasks[v])
        BY <3>1, <3>2, PulledBack
      <4> QED
        BY <4>1, <4>2
    <3> QED
      BY <2>2, <3>2 DEF TurnsComeFirst, L, T, Task
  <2> QED
    BY <2>1, <2>2
<1>10. ~open'[c] => LeaveFollows(c)'
  BY <1>2, <1>5, LeaveStillFollows DEF LeaveIsLast
<1> QED
  BY <1>6, <1>8, <1>9, <1>10 DEF LeaveIsLast

(* virtual_machines_ passes a request for a turn on to the machine that    *)
(* the client is in by then.                                               *)
LEMMA TurnForwarded ==
    ASSUME ClientTurnsTypeOK, NEW c \in Clients, LeaveIsLast(c), NEW v \in Vms,
           connected_vm_id_[c] = v,
           tasks[VmList] # << >>, Head(tasks[VmList]) = Task("turn", c, NoVm),
           NEW n, n = FirstOf({VmList}), NEW pushed, Moved(n, pushed),
           \A s, t : <<s, t>> \in pushed <=> s = v /\ t = Task("turn", c, v),
           UNCHANGED <<rejoined, open, connected_vm_id_, users_>>
    PROVE  LeaveIsLast(c)'
<1> SUFFICES ASSUME ~rejoined[c] PROVE LeaveIsLast(c)'
  BY DEF LeaveIsLast
<1> DEFINE V == VmList
           L == Task("leave", c, v)
           T == Task("turn", c, v)
<1>1. tasks \in [Strands -> Seq(Tasks)] /\ n \in [Strands -> {0, 1}]
  BY DEF ClientTurnsTypeOK, Moved
<1>2. V \in Strands /\ Vms \subseteq Strands /\ \A w \in Vms : w # V
  BY StrandsDiffer
<1>3. 1 \in 1..Len(tasks[V]) /\ tasks[V][1] = Task("turn", c, NoVm)
  <2>1. tasks[V] \in Seq(Tasks)
    BY <1>1, <1>2
  <2> QED
    BY <2>1
<1>4. ~open[c] => \E k \in 1..Len(tasks[V]) : tasks[V][k] = L
  BY <1>3 DEF LeaveIsLast, LeaveFollows
<1> HIDE DEF V
<1>5. c \in users_[v]
  <2>1. ~open[c] => Pending(L)
    BY <1>2, <1>4 DEF Pending, Contains
  <2> QED
    BY <2>1 DEF LeaveIsLast
<1>6. ~Contains(tasks[v], L)
  <2>1. CASE open[c]
    <3>1. ~Pending(L)
      BY <2>1 DEF LeaveIsLast
    <3> QED
      BY <1>2, <3>1 DEF Pending
  <2>2. CASE ~open[c]
    <3>1. PICK k \in 1..Len(tasks[V]) : tasks[V][k] = L
      BY <1>4, <2>2
    <3>2. \A i \in 1..Len(tasks[v]) : tasks[v][i] = L => v = V
      BY <1>2, <3>1 DEF LeaveIsLast, LeaveIsOne
    <3> QED
      BY <1>2, <3>2 DEF Contains
  <2> QED
    BY <2>1, <2>2
<1>7. ASSUME NEW w \in Vms
      PROVE  /\ Pending(Task("leave", c, w))' => Pending(Task("leave", c, w))
             /\ Contains(tasks[w], Task("turn", c, w))' =>
                   Contains(tasks[w], Task("turn", c, w)) \/ w = v
             /\ \A s : <<s, Task("leave", c, w)>> \notin pushed
             /\ <<V, Task("turn", c, NoVm)>> \notin pushed
             /\ w # v => \A s : <<s, Task("turn", c, w)>> \notin pushed
  <2>1. Task("leave", c, w) \in Tasks /\ Task("turn", c, w) \in Tasks /\ w \in Strands
    BY <1>2, TaskIn
  <2>2. Task("leave", c, w) # T /\ (w # v => Task("turn", c, w) # T)
    BY TaskFields
  <2> QED
    BY <1>1, <1>2, <2>1, <2>2, PendingMoves
<1>8. ASSUME NEW w \in Vms
      PROVE  /\ connected_vm_id_'[c] = w /\ open'[c] =>
                   c \in users_'[w] /\ ~Pending(Task("leave", c, w))'
             /\ Pending(Task("leave", c, w))' \/ Contains(tasks[w], Task("turn", c, w))' =>
                   c \in users_'[w]
  BY <1>5, <1>7 DEF LeaveIsLast
<1>9. ASSUME NEW w \in Vms PROVE LeaveIsOne(c, w)'
  BY <1>7, LeaveStaysOne DEF LeaveIsLast
<1>10. ASSUME NEW w \in Vms PROVE TurnsComeFirst(c, w)'
  <2>1. CASE w # v
    BY <1>7, <2>1, TurnsStayFirst DEF LeaveIsLast
  <2>2. CASE w = v
    <3>1. ~Contains(tasks[v], L)'
      <4>1. v \in Strands /\ L \in Tasks /\ <<v, L>> \notin pushed
        BY <1>2, <1>7, TaskIn
      <4> QED
        BY <1>1, <1>6, <4>1, PendingMoves
    <3> QED
      BY <2>2, <3>1 DEF TurnsComeFirst, Contains, Task
  <2> QED
    BY <2>1, <2>2
<1>11. ~open'[c] => LeaveFollows(c)'
  BY <1>7, LeaveStillFollows DEF LeaveIsLast, V
<1> QED
  BY <1>8, <1>9, <1>10, <1>11 DEF LeaveIsLast

(* The "leave" runs: it was the only one, and no request is behind it.     *)
LEMMA LeaveRuns ==
    ASSUME ClientTurnsTypeOK, NEW c \in Clients, LeaveIsLast(c), NEW v \in Vms,
           tasks[v] # << >>, Head(tasks[v]) = Task("leave", c, v),
           NEW n, n = FirstOf({v}), NEW none, \A x : x \notin none, Moved(n, none),
           UNCHANGED <<rejoined, open, connected_vm_id_>>,
           \A w \in Vms : w # v /\ c \in users_[w] => c \in users_'[w]
    PROVE  LeaveIsLast(c)'
<1> SUFFICES ASSUME ~rejoined[c] PROVE LeaveIsLast(c)'
  BY DEF LeaveIsLast
<1> DEFINE L == Task("leave", c, v)
           T == Task("turn", c, v)
<1>1. tasks \in [Strands -> Seq(Tasks)] /\ n \in [Strands -> {0, 1}]
  BY DEF ClientTurnsTypeOK, Moved
<1>2. Vms \subseteq Strands
  BY StrandsDiffer
<1>3. n[v] = 1 /\ 1 \in 1..Len(tasks[v]) /\ tasks[v][1] = L
  <2>1. tasks[v] \in Seq(Tasks) /\ v \in Strands
    BY <1>1, <1>2
  <2> QED
    BY <2>1 DEF FirstOf
<1>4. Pending(L)
  BY <1>2, <1>3 DEF Pending, Contains
<1>5. \A s, t : <<s, t>> \notin none
  OBVIOUS
<1>6. ASSUME NEW s \in Strands, NEW i \in 1..Len(tasks'[s]) PROVE tasks'[s][i] # L
  <2> SUFFICES ASSUME tasks'[s][i] = L PROVE FALSE
    OBVIOUS
  <2> HIDE DEF L
  <2>3. <<s, L>> \notin none
    BY <1>5
  <2>1. i + n[s] \in 1..Len(tasks[s]) /\ tasks[s][i + n[s]] = L
    BY <2>3, PulledBack
  <2>2. v = s /\ 1 = i + n[s]
    BY <1>2, <1>3, <2>1 DEF LeaveIsLast, LeaveIsOne, L
  <2> QED
    BY <1>3, <2>2
<1>7. ASSUME NEW j \in 1..Len(tasks'[v]) PROVE tasks'[v][j] # T
  <2> SUFFICES ASSUME tasks'[v][j] = T PROVE FALSE
    OBVIOUS
  <2> HIDE DEF T
  <2>1. j + n[v] \in 1..Len(tasks[v]) /\ tasks[v][j + n[v]] = T
    <3>1. <<v, T>> \notin none /\ v \in Strands
      BY <1>2, <1>5
    <3> QED
      BY <3>1, PulledBack
  <2>2. j + n[v] < 1
    BY <1>3, <2>1 DEF LeaveIsLast, TurnsComeFirst, T
  <2> QED
    BY <1>3, <2>2
<1>8. ASSUME NEW w \in Vms
      PROVE  /\ Pending(Task("leave", c, w))' => Pending(Task("leave", c, w))
             /\ Contains(tasks[w], Task("turn", c, w))' => Contains(tasks[w], Task("turn", c, w))
  <2>1. Task("leave", c, w) \in Tasks /\ Task("turn", c, w) \in Tasks /\ w \in Strands
    BY <1>2, TaskIn
  <2> QED
    BY <1>1, <1>5, <2>1, PendingMoves
<1>9. ~Pending(L)' /\ ~Contains(tasks[v], T)'
  BY <1>6, <1>7 DEF Pending, Contains, Strands, Task
<1>10. ASSUME NEW w \in Vms
      PROVE  /\ connected_vm_id_'[c] = w /\ open'[c] =>
                   c \in users_'[w] /\ ~Pending(Task("leave", c, w))'
             /\ Pending(Task("leave", c, w))' \/ Contains(tasks[w], Task("turn", c, w))' =>
                   c \in users_'[w]
  <2>1. CASE w = v
    BY <1>4, <1>9, <2>1 DEF LeaveIsLast
  <2>2. CASE w # v
    BY <1>8, <2>2 DEF LeaveIsLast
  <2> QED
    BY <2>1, <2>2
<1>11. ASSUME NEW w \in Vms PROVE LeaveIsOne(c, w)' /\ TurnsComeFirst(c, w)'
  BY <1>5, LeaveStaysOne, TurnsStayFirst DEF LeaveIsLast
<1>12. ~open'[c] => LeaveFollows(c)'
  BY <1>5, LeaveStillFollows DEF LeaveIsLast
<1> QED
  BY <1>10, <1>11, <1>12 DEF LeaveIsLast

(* Members stay members, and nobody is queued that is none.                *)
LEMMA MembersStay ==
    ASSUME TurnQueuesInv, turn_queue_' \in [Vms -> Seq(Clients)], hasty => hasty',
           ~hasty' => \A v \in Vms, d \in Clients : Contains(turn_queue_'[v], d) =>
              \/ /\ Contains(turn_queue_[v], d)
                 /\ rejoined[d] => rejoined'[d]
                 /\ d \in users_[v] => d \in users_'[v]
              \/ rejoined'[d] \/ d \in users_'[v]
    PROVE  QueuedAreMembersUnlessRejoined'
<1> SUFFICES ASSUME ~hasty', NEW v \in Vms, NEW i \in 1..Len(turn_queue_'[v])
             PROVE  rejoined'[turn_queue_'[v][i]] \/ turn_queue_'[v][i] \in users_'[v]
  BY DEF QueuedAreMembersUnlessRejoined
<1> DEFINE d == turn_queue_'[v][i]
<1>1. d \in Clients /\ Contains(turn_queue_'[v], d)
  <2> turn_queue_'[v] \in Seq(Clients)
    OBVIOUS
  <2> QED
    BY ElementOfSeq DEF Contains
<1> HIDE DEF d
<1>2. Contains(turn_queue_[v], d) => rejoined[d] \/ d \in users_[v]
  BY DEF TurnQueuesInv, QueuedAreMembersUnlessRejoined, Contains
<1>3. rejoined'[d] \/ d \in users_'[v]
  BY <1>1, <1>2
<1> QED
  BY <1>3 DEF d

LEMMA RequestsStay ==
    ASSUME TurnQueuesInv, NEW n, NEW pushed, Moved(n, pushed),
           \A d \in Clients : <<VmList, Task("turn", d, NoVm)>> \in pushed =>
              connected_vm_id_'[d] # NoVm,
           \A d \in Clients : connected_vm_id_[d] # NoVm => connected_vm_id_'[d] # NoVm
    PROVE  RequestsAreOfMembers'
<1> SUFFICES ASSUME NEW d \in Clients, Contains(tasks[VmList], Task("turn", d, NoVm))'
             PROVE  connected_vm_id_'[d] # NoVm
  BY DEF RequestsAreOfMembers
<1> DEFINE T == Task("turn", d, NoVm)
<1>1. tasks \in [Strands -> Seq(Tasks)] /\ VmList \in Strands /\ T \in Tasks
  BY TaskIn, StrandsDiffer DEF TurnQueuesInv, ClientTurnsTypeOK
<1>2. Contains(tasks[VmList], T) \/ <<VmList, T>> \in pushed
  BY <1>1, PendingMoves
<1> QED
  BY <1>2 DEF TurnQueuesInv, RequestsAreOfMembers

(* A step that leaves the queues as they are.                              *)
LEMMA Untouched ==
    ASSUME TurnQueuesInv, UNCHANGED turnVars, NEW n, NEW pushed, Moved(n, pushed),
           hasty => hasty',
           \A s \in Strands : n[s] = 1 => Head(tasks[s]).do # "expired",
           ~hasty' => \A s \in Strands, c \in Clients, v \in Vms :
              <<s, Task("leave", c, v)>> \in pushed => ~QueuedElsewhere(c, v),
           \A s \in Strands, c \in Clients, v \in Vms :
              <<s, Task("expired", c, v)>> \notin pushed,
           \A d \in Clients : rejoined[d] => rejoined'[d],
           \A v \in Vms, d \in Clients : d \in users_[v] => d \in users_'[v],
           \A d \in Clients : <<VmList, Task("turn", d, NoVm)>> \in pushed =>
              connected_vm_id_'[d] # NoVm,
           \A d \in Clients : connected_vm_id_[d] # NoVm => connected_vm_id_'[d] # NoVm
    PROVE  /\ ~hasty' => ~crashed' /\ QueuesSound' /\ RemovalsSound'
           /\ CurrentTurnIsTimed' /\ RequestsAreOfMembers' /\ QueuedAreMembersUnlessRejoined'
<1>1. ASSUME ~hasty'
      PROVE  ~crashed' /\ QueuesSound' /\ RemovalsSound' /\ CurrentTurnIsTimed'
  BY <1>1, SameTurns
<1>2. hasty' => CurrentTurnIsTimed'
  BY DEF CurrentTurnIsTimed
<1>3. RequestsAreOfMembers'
  BY RequestsStay
<1>4. turn_queue_' = turn_queue_ /\ turn_queue_' \in [Vms -> Seq(Clients)]
  BY DEF turnVars, TurnQueuesInv, ClientTurnsTypeOK
<1>5. QueuedAreMembersUnlessRejoined'
  BY <1>4, MembersStay
<1>6. (~hasty' => ~crashed' /\ QueuesSound' /\ RemovalsSound') /\ CurrentTurnIsTimed'
  BY <1>1, <1>2
<1> QED
  BY <1>3, <1>5, <1>6

(* A step in which the client of the task that runs is removed.            *)
LEMMA Removed ==
    ASSUME TurnQueuesInv, NEW v \in Vms, NEW c \in Clients, RemoveTurn(v, c),
           NEW n, n = FirstOf({v}), NEW none, \A x : x \notin none, Moved(n, none),
           Head(tasks[v]).client = c, hasty => hasty',
           ~hasty' => (turn_queue_position_[c] # nullopt => Contains(turn_queue_[v], c)),
           \A d \in Clients : rejoined[d] => rejoined'[d],
           \A w \in Vms, d \in Clients : d # c /\ d \in users_[w] => d \in users_'[w],
           connected_vm_id_' = connected_vm_id_
    PROVE  /\ turn_queue_position_' \in [Clients -> Nat \cup {nullopt}]
           /\ turn_queue_' \in [Vms -> Seq(Clients)]
           /\ turn_timer_' \in [Vms -> Clients \cup {NoClient}]
           /\ crashed' \in BOOLEAN
           /\ ~hasty' => ~crashed' /\ QueuesSound' /\ RemovalsSound'
           /\ CurrentTurnIsTimed' /\ RequestsAreOfMembers' /\ QueuedAreMembersUnlessRejoined'
<1>1. /\ turn_queue_position_' \in [Clients -> Nat \cup {nullopt}]
      /\ turn_queue_' \in [Vms -> Seq(Clients)]
      /\ turn_timer_' \in [Vms -> Clients \cup {NoClient}]
      /\ crashed' \in BOOLEAN
  BY RemoveTurnTypes DEF TurnQueuesInv
<1>2. hasty' => CurrentTurnIsTimed'
  BY DEF CurrentTurnIsTimed
<1>3. ASSUME ~hasty'
      PROVE  /\ ~crashed' /\ QueuesSound' /\ RemovalsSound' /\ CurrentTurnIsTimed'
             /\ \A w \in Vms, d \in Clients :
                   Contains(turn_queue_[w], d)' <=> Contains(turn_queue_[w], d) /\ d # c
  BY <1>3, RemovedTurns
<1>4. RequestsAreOfMembers'
  BY RequestsStay
<1>5. ~hasty' => \A w \in Vms, d \in Clients : Contains(turn_queue_'[w], d) =>
                    Contains(turn_queue_[w], d) /\ d # c
  <2>1. ASSUME ~hasty', NEW w \in Vms, NEW d \in Clients, Contains(turn_queue_'[w], d)
        PROVE  Contains(turn_queue_[w], d) /\ d # c
    BY <1>3, <2>1 DEF Contains
  <2> QED
    BY <2>1
<1>6. QueuedAreMembersUnlessRejoined'
  BY <1>1, <1>5, MembersStay
<1>7. (~hasty' => ~crashed' /\ QueuesSound' /\ RemovalsSound') /\ CurrentTurnIsTimed'
  BY <1>2, <1>3
<1> QED
  BY <1>1, <1>4, <1>6, <1>7

(* What a step on behalf of one client means to the others.                *)
LEMMA OthersStay ==
    ASSUME TurnQueuesInv, NEW c \in Clients, NEW n, NEW pushed, Moved(n, pushed),
           \A s, t : <<s, t>> \in pushed => t.client = c,
           \A e \in Clients : e # c =>
              /\ rejoined[e] => rejoined'[e]
              /\ open'[e] = open[e] /\ connected_vm_id_'[e] = connected_vm_id_[e]
              /\ \A v \in Vms : e \in users_[v] => e \in users_'[v]
    PROVE  \A e \in Clients : e # c => LeaveIsLast(e)'
<1> SUFFICES ASSUME NEW e \in Clients, e # c PROVE LeaveIsLast(e)'
  OBVIOUS
<1>1. \A s, v : /\ <<s, Task("leave", e, v)>> \notin pushed
                /\ <<s, Task("turn", e, v)>> \notin pushed
  <2> SUFFICES ASSUME NEW s, NEW v
               PROVE  /\ <<s, Task("leave", e, v)>> \notin pushed
                      /\ <<s, Task("turn", e, v)>> \notin pushed
    OBVIOUS
  <2>1. Task("leave", e, v).client = e /\ Task("turn", e, v).client = e
    BY TaskFields
  <2> QED
    BY <2>1
<1>2. ClientTurnsTypeOK /\ LeaveIsLast(e)
  BY DEF TurnQueuesInv
<1> QED
  BY <1>1, <1>2, LeaveStaysLast

LEMMA StillMoves ==
    ASSUME tasks \in [Strands -> Seq(Tasks)], tasks' = tasks, NEW none, \A x : x \notin none
    PROVE  Moved(FirstOf({}), none)
<1> DEFINE n == FirstOf({})
<1>1. n \in [Strands -> {0, 1}] /\ \A x \in Strands : n[x] = 0
  BY DEF FirstOf
<1> HIDE DEF n
<1>2. \A x \in Strands : n[x] = 0 /\ tasks'[x] = tasks[x] /\ \A u : <<x, u>> \notin none
  BY <1>1
<1>3. Moved(n, none)
  BY <1>1, <1>2, StrandsMove
<1> QED
  BY <1>3 DEF n

LEMMA MessageKeeps ==
    ASSUME TurnQueuesInv, NEW c \in Clients, NEW task \in Tasks, Message(c, task),
           task.client = c, task.do \notin {"leave", "expired"},
           \A d \in Clients, v \in Vms : task # Task("turn", d, v),
           task.do = "turn" => connected_vm_id_[c] # NoVm
    PROVE  TurnQueuesInv'
<1> DEFINE n == FirstOf({})
           pushed == {<<VmList, task>>}
<1>1. /\ tasks \in [Strands -> Seq(Tasks)] /\ tasks' = Push(tasks, VmList, task)
      /\ VmList \in Strands /\ ClientTurnsTypeOK
  BY StrandsDiffer DEF TurnQueuesInv, ClientTurnsTypeOK, Message
<1>2. tasks' \in [Strands -> Seq(Tasks)] /\ Moved(n, pushed)
  BY <1>1, PushMoves
<1>3. \A s \in Strands : n[s] = 0
  BY DEF FirstOf
<1>4. \A s, t : <<s, t>> \in pushed => s = VmList /\ t = task
  OBVIOUS
<1> HIDE DEF n, pushed
<1>5. /\ open' = open /\ connected_vm_id_' = connected_vm_id_ /\ users_' = users_
      /\ UNCHANGED turnVars /\ hasty' = hasty /\ rejoined' = rejoined
      /\ sent < MaxMessages /\ sent' = sent + 1 /\ open[c]
  BY DEF Message
<1>6. ClientTurnsTypeOK'
  <2>1. sent' \in 0..MaxMessages
    BY <1>1, <1>5, ClientTurnsConstants DEF ClientTurnsTypeOK
  <2> QED
    BY <1>1, <1>2, <1>5, <2>1 DEF ClientTurnsTypeOK, turnVars
<1>7. \A d, v : /\ task # Task("leave", d, v) /\ task # Task("expired", d, v)
                /\ task = Task("turn", d, v) => d = c /\ connected_vm_id_[c] # NoVm
  <2> SUFFICES ASSUME NEW d, NEW v
               PROVE  /\ task # Task("leave", d, v) /\ task # Task("expired", d, v)
                      /\ task = Task("turn", d, v) => d = c /\ connected_vm_id_[c] # NoVm
    OBVIOUS
  <2>1. /\ Task("leave", d, v).do = "leave" /\ Task("expired", d, v).do = "expired"
        /\ Task("turn", d, v).do = "turn" /\ Task("turn", d, v).client = d
    BY TaskFields
  <2> QED
    BY <2>1
<1>8. /\ \A s \in Strands : n[s] = 1 => Head(tasks[s]).do # "expired"
      /\ \A s \in Strands, d \in Clients, v \in Vms :
            /\ <<s, Task("leave", d, v)>> \notin pushed
            /\ <<s, Task("expired", d, v)>> \notin pushed
            /\ <<s, Task("turn", d, v)>> \notin pushed
      /\ \A d \in Clients : <<VmList, Task("turn", d, NoVm)>> \in pushed =>
            d = c /\ connected_vm_id_'[d] # NoVm
  BY <1>3, <1>4, <1>5, <1>7
<1>9. /\ ~hasty' => ~crashed' /\ QueuesSound' /\ RemovalsSound'
      /\ CurrentTurnIsTimed' /\ RequestsAreOfMembers' /\ QueuedAreMembersUnlessRejoined'
  BY <1>2, <1>5, <1>8, Untouched
<1>10. ASSUME NEW e \in Clients PROVE LeaveIsLast(e)'
  <2>1. LeaveIsLast(e)
    BY DEF TurnQueuesInv
  <2>2. ~open[e] => <<VmList, Task("turn", e, NoVm)>> \notin pushed
    BY <1>5, <1>8
  <2> QED
    BY <1>1, <1>2, <1>5, <1>8, <2>1, <2>2, LeaveStaysLast
<1> QED
  BY <1>6, <1>9, <1>10 DEF TurnQueuesInv

LEMMA ClientSends ==
    ASSUME TurnQueuesInv, NEW c \in Clients
    PROVE  /\ \A v \in Vms : ConnectToChannel(c, v) => TurnQueuesInv'
           /\ TurnRequest(c) => TurnQueuesInv'
           /\ EndTurn(c) => TurnQueuesInv'
<1>1. connected_vm_id_[c] \in Vms \cup {NoVm} /\ NoVm \notin Vms
  BY ClientTurnsConstants DEF TurnQueuesInv, ClientTurnsTypeOK
<1>2. ASSUME NEW v \in Vms, ConnectToChannel(c, v) PROVE TurnQueuesInv'
  <2> DEFINE t == Task("join", c, v)
  <2>1. t \in Tasks /\ t.client = c /\ t.do = "join"
    BY TaskIn, TaskFields
  <2>2. \A d, w : t # Task("turn", d, w)
    BY TaskFields
  <2>3. Message(c, t)
    BY <1>2 DEF ConnectToChannel
  <2> HIDE DEF t
  <2> QED
    BY <2>1, <2>2, <2>3, MessageKeeps
<1>3. ASSUME TurnRequest(c) PROVE TurnQueuesInv'
  <2> DEFINE t == Task("turn", c, NoVm)
  <2>1. t \in Tasks /\ t.client = c /\ t.do = "turn"
    BY TaskIn, TaskFields
  <2>3. Message(c, t) /\ connected_vm_id_[c] # NoVm
    BY <1>3 DEF TurnRequest
  <2>4. \A d \in Clients, w \in Vms : t # Task("turn", d, w)
    BY <1>1, TaskFields
  <2> HIDE DEF t
  <2> QED
    BY <2>1, <2>3, <2>4, MessageKeeps
<1>4. ASSUME EndTurn(c) PROVE TurnQueuesInv'
  <2> DEFINE t == Task("end", c, connected_vm_id_[c])
  <2>1. t \in Tasks /\ t.client = c /\ t.do = "end"
    BY <1>1, TaskIn, TaskFields
  <2>2. \A d, w : t # Task("turn", d, w)
    BY TaskFields
  <2>3. Message(c, t)
    BY <1>4 DEF EndTurn
  <2> HIDE DEF t
  <2> QED
    BY <2>1, <2>2, <2>3, MessageKeeps
<1> QED
  BY <1>2, <1>3, <1>4

LEMMA DisconnectKeeps ==
    ASSUME TurnQueuesInv, NEW c \in Clients, Disconnect(c)
    PROVE  TurnQueuesInv'
<1> DEFINE v == connected_vm_id_[c]
           L == Task("leave", c, v)
           n == FirstOf({})
           pushed == IF v = NoVm THEN {} ELSE {<<VmList, L>>}
<1>1. /\ tasks \in [Strands -> Seq(Tasks)] /\ VmList \in Strands /\ ClientTurnsTypeOK
      /\ v \in Vms \cup {NoVm} /\ L \in Tasks /\ L.client = c /\ L.do = "leave"
      /\ NoVm \notin Vms
  <2>1. ClientTurnsTypeOK /\ v \in Vms \cup {NoVm}
    BY DEF TurnQueuesInv, ClientTurnsTypeOK
  <2> QED
    BY <2>1, ClientTurnsConstants, StrandsDiffer, TaskIn, TaskFields DEF ClientTurnsTypeOK
<1>2. /\ connected_vm_id_' = connected_vm_id_ /\ users_' = users_ /\ sent' = sent
      /\ UNCHANGED turnVars /\ open[c] /\ open' = [open EXCEPT ![c] = FALSE]
      /\ tasks' = IF v = NoVm THEN tasks ELSE Push(tasks, VmList, L)
      /\ rejoined' = [rejoined EXCEPT ![c] = @ \/ \E w \in Vms : Pending(Task("join", c, w))]
  BY DEF Disconnect
<1>3. hasty' = (hasty \/ QueuedElsewhere(c, v))
  BY DEF Disconnect
<1>4. /\ hasty' \in BOOLEAN
      /\ hasty => hasty'
      /\ ~hasty' => ~QueuedElsewhere(c, v)
  BY <1>3, Zenon
<1>5. /\ rejoined' \in [Clients -> BOOLEAN]
      /\ \A d \in Clients : rejoined[d] => rejoined'[d]
      /\ open' \in [Clients -> BOOLEAN] /\ ~open'[c]
      /\ \A d \in Clients : d # c => open'[d] = open[d]
  <2>1. rejoined \in [Clients -> BOOLEAN] /\ open \in [Clients -> BOOLEAN]
    BY <1>1 DEF ClientTurnsTypeOK
  <2> QED
    BY <1>2, <2>1
<1>6. tasks' \in [Strands -> Seq(Tasks)] /\ Moved(n, pushed)
  <2>1. CASE v = NoVm
    <3> DEFINE none == {}
    <3>1. \A x : x \notin none
      OBVIOUS
    <3>2. pushed = none
      BY <2>1
    <3> HIDE DEF none, pushed
    <3>3. tasks' = tasks
      BY <1>2, <2>1
    <3>4. Moved(n, none)
      BY <1>1, <3>1, <3>3, StillMoves
    <3> QED
      BY <1>1, <3>2, <3>3, <3>4
  <2>2. CASE v # NoVm
    <3>1. tasks' = Push(tasks, VmList, L) /\ pushed = {<<VmList, L>>}
      BY <1>2, <2>2
    <3> HIDE DEF L, pushed, v
    <3> QED
      BY <1>1, <3>1, PushMoves
  <2> QED
    BY <2>1, <2>2
<1>7. /\ \A s \in Strands : n[s] = 0
      /\ \A s, t : <<s, t>> \in pushed <=> v # NoVm /\ s = VmList /\ t = L
  BY DEF FirstOf
<1> HIDE DEF n, pushed, L
<1>8. /\ \A s \in Strands : n[s] = 1 => Head(tasks[s]).do # "expired"
      /\ \A s, t : <<s, t>> \in pushed => t.client = c
      /\ \A s, d, w : <<s, Task("leave", d, w)>> \in pushed => d = c /\ w = v
      /\ \A s, d, w : /\ <<s, Task("expired", d, w)>> \notin pushed
                      /\ <<s, Task("turn", d, w)>> \notin pushed
  <2>1. \A d, w : /\ L # Task("expired", d, w) /\ L # Task("turn", d, w)
                  /\ L = Task("leave", d, w) => d = c /\ w = v
    BY TaskFields DEF L
  <2> QED
    BY <1>1, <1>7, <2>1
<1>9. ClientTurnsTypeOK'
  <2>1. UNCHANGED <<connected_vm_id_, users_, sent, turnVars>>
    BY <1>2
  <2>2. {crashed', hasty'} \subseteq BOOLEAN
    <3>1. crashed' = crashed /\ crashed \in BOOLEAN
      BY <1>1, <2>1 DEF ClientTurnsTypeOK, turnVars
    <3>2. hasty' \in BOOLEAN
      BY <1>4
    <3> QED
      BY <3>1, <3>2, Zenon
  <2> QED
    BY <1>1, <1>5, <1>6, <2>1, <2>2 DEF ClientTurnsTypeOK, turnVars
<1>10. /\ ~hasty' => ~crashed' /\ QueuesSound' /\ RemovalsSound'
       /\ CurrentTurnIsTimed' /\ RequestsAreOfMembers' /\ QueuedAreMembersUnlessRejoined'
  <2>1. UNCHANGED turnVars /\ connected_vm_id_' = connected_vm_id_ /\ users_' = users_
    BY <1>2
  <2>2. ~hasty' => \A s \in Strands, d \in Clients, w \in Vms :
                      <<s, Task("leave", d, w)>> \in pushed => ~QueuedElsewhere(d, w)
    BY <1>4, <1>8
  <2>3. hasty => hasty'
    BY <1>4
  <2>4. \A d \in Clients : rejoined[d] => rejoined'[d]
    BY <1>5
  <2> HIDE DEF v
  <2> QED
    BY <1>6, <1>8, <2>1, <2>2, <2>3, <2>4, Untouched
<1>11. \A e \in Clients : e # c => LeaveIsLast(e)'
  BY <1>2, <1>5, <1>6, <1>8, OthersStay
<1>12. LeaveIsLast(c)'
  <2> SUFFICES ASSUME ~rejoined'[c] PROVE LeaveIsLast(c)'
    BY DEF LeaveIsLast
  <2>1. ~rejoined[c] /\ LeaveIsLast(c)
    BY <1>5 DEF TurnQueuesInv
  <2>2. CASE v = NoVm
    <3>1. tasks' = tasks
      BY <1>2, <2>2
    <3>2. LeaveFollows(c)'
      <4>1. ~Contains(tasks[VmList], Task("turn", c, NoVm))
        BY <2>2 DEF TurnQueuesInv, RequestsAreOfMembers
      <4> QED
        BY <3>1, <4>1 DEF LeaveFollows, Contains
    <3>3. \A w \in Vms : /\ Pending(Task("leave", c, w))' = Pending(Task("leave", c, w))
                         /\ Contains(tasks[w], Task("turn", c, w))' =
                               Contains(tasks[w], Task("turn", c, w))
                         /\ LeaveIsOne(c, w)' = LeaveIsOne(c, w)
                         /\ TurnsComeFirst(c, w)' = TurnsComeFirst(c, w)
      BY <3>1 DEF Pending, Contains, LeaveIsOne, TurnsComeFirst
    <3> QED
      BY <1>2, <1>5, <2>1, <3>2, <3>3 DEF LeaveIsLast
  <2>3. CASE v # NoVm
    <3>1. v \in Vms /\ \A s, t : <<s, t>> \in pushed <=> s = VmList /\ t = Task("leave", c, v)
      BY <1>1, <1>7, <2>3 DEF L
    <3> QED
      BY <1>1, <1>2, <1>5, <1>6, <2>1, <3>1, LeavePushed
  <2> QED
    BY <2>2, <2>3
<1> QED
  BY <1>9, <1>10, <1>11, <1>12 DEF TurnQueuesInv

LEMMA GetAdminVirtualMachineKeeps ==
    ASSUME TurnQueuesInv, NEW c \in Clients, GetAdminVirtualMachine(c)
    PROVE  TurnQueuesInv'
<1>1. PICK do \in {"join", "leave", "end"}, v \in Vms :
         /\ IsNext(VmList, Task(do, c, v))
         /\ tasks' = Push(Popped(VmList), v, Task(do, c, v))
         /\ UNCHANGED <<open, sent, connected_vm_id_, users_, turnVars, hasty, rejoined>>
  BY DEF GetAdminVirtualMachine
<1> DEFINE T == Task(do, c, v)
           n == FirstOf({VmList})
           pushed == {<<v, T>>}
<1>2. /\ tasks \in [Strands -> Seq(Tasks)] /\ VmList \in Strands /\ ClientTurnsTypeOK
      /\ v \in Strands /\ v # VmList /\ T \in Tasks /\ T.client = c /\ T.do = do
  BY StrandsDiffer, TaskIn, TaskFields DEF TurnQueuesInv, ClientTurnsTypeOK
<1>3. /\ open' = open /\ connected_vm_id_' = connected_vm_id_ /\ users_' = users_
      /\ sent' = sent /\ UNCHANGED turnVars /\ hasty' = hasty /\ rejoined' = rejoined
      /\ tasks' = Push(Popped(VmList), v, T) /\ tasks[VmList] # << >> /\ Head(tasks[VmList]) = T
  BY <1>1 DEF IsNext
<1>4. /\ \A s \in Strands : n[s] = 1 => s = VmList
      /\ \A s, t : <<s, t>> \in pushed <=> s = v /\ t = T
  BY DEF FirstOf
<1>5. tasks' \in [Strands -> Seq(Tasks)] /\ Moved(n, pushed)
  <2> HIDE DEF T
  <2> QED
    BY <1>2, <1>3, PopPushMoves
<1> HIDE DEF n, pushed, T
<1>6. Pending(T)
  <2>1. tasks[VmList] \in Seq(Tasks)
    BY <1>2
  <2>2. 1 \in 1..Len(tasks[VmList]) /\ tasks[VmList][1] = T
    BY <1>3, <2>1
  <2> QED
    BY <1>2, <2>2 DEF Pending, Contains
<1>7. /\ \A s \in Strands : n[s] = 1 => Head(tasks[s]).do # "expired"
      /\ \A s, t : <<s, t>> \in pushed => t.client = c
      /\ \A s, d, w : <<s, Task("leave", d, w)>> \in pushed =>
            d = c /\ w = v /\ do = "leave" /\ T = Task("leave", c, v)
      /\ \A s, d, w : /\ <<s, Task("expired", d, w)>> \notin pushed
                      /\ <<s, Task("turn", d, w)>> \notin pushed
  <2>1. \A d, w : /\ T # Task("expired", d, w) /\ T # Task("turn", d, w)
                  /\ T = Task("leave", d, w) => d = c /\ w = v /\ do = "leave"
    BY TaskFields DEF T
  <2> QED
    BY <1>2, <1>3, <1>4, <2>1
<1>8. ClientTurnsTypeOK'
  BY <1>2, <1>3, <1>5 DEF ClientTurnsTypeOK, turnVars
<1>9. ~hasty' => \A s \in Strands, d \in Clients, w \in Vms :
                    <<s, Task("leave", d, w)>> \in pushed => ~QueuedElsewhere(d, w)
  <2> SUFFICES ASSUME ~hasty, NEW s \in Strands, NEW d \in Clients, NEW w \in Vms,
                      <<s, Task("leave", d, w)>> \in pushed
               PROVE  ~QueuedElsewhere(d, w)
    BY <1>3
  <2>1. d = c /\ w = v /\ Pending(Task("leave", c, v))
    BY <1>6, <1>7
  <2>2. turn_queue_position_[c] # nullopt => Contains(turn_queue_[v], c)
    BY <2>1 DEF TurnQueuesInv, RemovalsSound
  <2> QED
    BY <2>1, <2>2 DEF QueuedElsewhere
<1>10. /\ ~hasty' => ~crashed' /\ QueuesSound' /\ RemovalsSound'
       /\ CurrentTurnIsTimed' /\ RequestsAreOfMembers' /\ QueuedAreMembersUnlessRejoined'
  BY <1>3, <1>5, <1>7, <1>9, Untouched
<1>11. \A e \in Clients : e # c => LeaveIsLast(e)'
  BY <1>3, <1>5, <1>7, OthersStay
<1>12. LeaveIsLast(c)'
  <2>1. LeaveIsLast(c)
    BY DEF TurnQueuesInv
  <2>2. CASE do = "leave"
    <3>1. /\ Head(tasks[VmList]) = Task("leave", c, v)
          /\ \A s, t : <<s, t>> \in pushed <=> s = v /\ t = Task("leave", c, v)
      BY <1>3, <1>4, <2>2 DEF T
    <3>2. n = FirstOf({VmList})
      BY DEF n
    <3> QED
      BY <1>2, <1>3, <1>5, <2>1, <3>1, <3>2, LeaveForwarded
  <2>3. CASE do # "leave"
    <3>1. \A s, w : <<s, Task("leave", c, w)>> \notin pushed
      BY <1>7, <2>3
    <3> QED
      BY <1>2, <1>3, <1>5, <1>7, <2>1, <3>1, LeaveStaysLast
  <2> QED
    BY <2>2, <2>3
<1> QED
  BY <1>8, <1>10, <1>11, <1>12 DEF TurnQueuesInv

LEMMA FindTurnRequestKeeps ==
    ASSUME TurnQueuesInv, NEW c \in Clients, FindTurnRequest(c)
    PROVE  TurnQueuesInv'
<1> DEFINE v == connected_vm_id_[c]
           T == Task("turn", c, v)
           R == Task("turn", c, NoVm)
           n == FirstOf({VmList})
           pushed == {<<v, T>>}
<1>1. /\ open' = open /\ connected_vm_id_' = connected_vm_id_ /\ users_' = users_
      /\ sent' = sent /\ UNCHANGED turnVars /\ hasty' = hasty /\ rejoined' = rejoined
      /\ tasks' = Push(Popped(VmList), v, T) /\ tasks[VmList] # << >> /\ Head(tasks[VmList]) = R
  BY DEF FindTurnRequest, IsNext
<1>2. /\ tasks \in [Strands -> Seq(Tasks)] /\ VmList \in Strands /\ ClientTurnsTypeOK
      /\ v \in Vms \cup {NoVm} /\ NoVm \notin Vms
  BY StrandsDiffer, ClientTurnsConstants DEF TurnQueuesInv, ClientTurnsTypeOK
<1>3. v \in Vms
  <2>1. tasks[VmList] \in Seq(Tasks)
    BY <1>2
  <2>2. 1 \in 1..Len(tasks[VmList]) /\ tasks[VmList][1] = R
    BY <1>1, <2>1
  <2>3. Contains(tasks[VmList], R)
    BY <2>2 DEF Contains
  <2> QED
    BY <1>2, <2>3 DEF TurnQueuesInv, RequestsAreOfMembers
<1>4. /\ v \in Strands /\ v # VmList /\ T \in Tasks /\ T.client = c /\ R.do = "turn"
  BY <1>3, StrandsDiffer, TaskIn, TaskFields
<1>5. /\ \A s \in Strands : n[s] = 1 => s = VmList
      /\ \A s, t : <<s, t>> \in pushed <=> s = v /\ t = T
  BY DEF FirstOf
<1>6. tasks' \in [Strands -> Seq(Tasks)] /\ Moved(n, pushed)
  <2> HIDE DEF T, v
  <2> QED
    BY <1>1, <1>2, <1>4, PopPushMoves
<1> HIDE DEF n, pushed, T, R
<1>7. /\ \A s \in Strands : n[s] = 1 => Head(tasks[s]).do # "expired"
      /\ \A s, t : <<s, t>> \in pushed => t.client = c
      /\ \A s, d, w : /\ <<s, Task("expired", d, w)>> \notin pushed
                      /\ <<s, Task("leave", d, w)>> \notin pushed
      /\ \A d : <<VmList, Task("turn", d, NoVm)>> \notin pushed
  <2>1. \A d, w : T # Task("expired", d, w) /\ T # Task("leave", d, w)
    BY TaskFields DEF T
  <2> QED
    BY <1>1, <1>4, <1>5, <2>1
<1>8. ClientTurnsTypeOK'
  BY <1>1, <1>2, <1>6 DEF ClientTurnsTypeOK, turnVars
<1>9. /\ ~hasty' => ~crashed' /\ QueuesSound' /\ RemovalsSound'
      /\ CurrentTurnIsTimed' /\ RequestsAreOfMembers' /\ QueuedAreMembersUnlessRejoined'
  BY <1>1, <1>6, <1>7, Untouched
<1>10. \A e \in Clients : e # c => LeaveIsLast(e)'
  BY <1>1, <1>6, <1>7, OthersStay
<1>11. LeaveIsLast(c)'
  <2>1. LeaveIsLast(c)
    BY DEF TurnQueuesInv
  <2>2. /\ Head(tasks[VmList]) = Task("turn", c, NoVm)
        /\ \A s, t : <<s, t>> \in pushed <=> s = v /\ t = Task("turn", c, v)
        /\ n = FirstOf({VmList})
    BY <1>1, <1>5 DEF T, R, n
  <2> QED
    BY <1>1, <1>2, <1>3, <1>6, <2>1, <2>2, TurnForwarded
<1> QED
  BY <1>8, <1>9, <1>10, <1>11 DEF TurnQueuesInv

(* The first task of a machine runs.                                       *)
LEMMA Runs ==
    ASSUME TurnQueuesInv, NEW v \in Vms, NEW task \in Tasks, IsNext(v, task),
           tasks' = Popped(v), NEW none, \A x : x \notin none
    PROVE  /\ tasks' \in [Strands -> Seq(Tasks)] /\ Moved(FirstOf({v}), none)
           /\ ~crashed /\ tasks[v] # << >> /\ Head(tasks[v]) = task
           /\ Contains(tasks[v], task) /\ Pending(task)
           /\ \A s \in Strands : FirstOf({v})[s] = 1 => s = v
<1>1. tasks \in [Strands -> Seq(Tasks)] /\ v \in Strands
  BY StrandsDiffer DEF TurnQueuesInv, ClientTurnsTypeOK
<1>2. ~crashed /\ tasks[v] # << >> /\ Head(tasks[v]) = task
  BY DEF IsNext
<1>3. tasks' \in [Strands -> Seq(Tasks)] /\ Moved(FirstOf({v}), none)
  BY <1>1, <1>2, PopMoves
<1>4. 1 \in 1..Len(tasks[v]) /\ tasks[v][1] = task
  <2> tasks[v] \in Seq(Tasks)
    BY <1>1
  <2> QED
    BY <1>2
<1>5. Contains(tasks[v], task) /\ Pending(task)
  BY <1>1, <1>4 DEF Contains, Pending
<1>6. \A s \in Strands : FirstOf({v})[s] = 1 => s = v
  BY DEF FirstOf
<1> QED
  BY <1>2, <1>3, <1>5, <1>6

LEMMA TurnExpiredKeeps ==
    ASSUME TurnQueuesInv, NEW c \in Clients, NEW v \in Vms, TurnExpired(c, v)
    PROVE  TurnQueuesInv'
<1> DEFINE T == Task("expired", c, v)
           n == FirstOf({v})
           none == {}
<1>1. /\ T \in Tasks /\ T.client = c /\ IsNext(v, T) /\ tasks' = Popped(v)
      /\ \A x : x \notin none
  BY TaskIn, TaskFields DEF TurnExpired
<1> HIDE DEF none, T
<1>2. /\ tasks' \in [Strands -> Seq(Tasks)] /\ Moved(n, none)
      /\ Head(tasks[v]) = T /\ Pending(T)
  BY <1>1, Runs
<1>3. /\ RemoveTurn(v, c) /\ open' = open /\ connected_vm_id_' = connected_vm_id_
      /\ users_' = users_ /\ sent' = sent /\ hasty' = hasty /\ rejoined' = rejoined
  BY DEF TurnExpired
<1>4. ~hasty' => (turn_queue_position_[c] # nullopt => Contains(turn_queue_[v], c))
  BY <1>2, <1>3 DEF TurnQueuesInv, RemovalsSound, T
<1>5. n = FirstOf({v})
  OBVIOUS
<1> HIDE DEF n
<1>6. /\ turn_queue_position_' \in [Clients -> Nat \cup {nullopt}]
      /\ turn_queue_' \in [Vms -> Seq(Clients)]
      /\ turn_timer_' \in [Vms -> Clients \cup {NoClient}]
      /\ crashed' \in BOOLEAN
      /\ ~hasty' => ~crashed' /\ QueuesSound' /\ RemovalsSound'
      /\ CurrentTurnIsTimed' /\ RequestsAreOfMembers' /\ QueuedAreMembersUnlessRejoined'
  BY <1>1, <1>2, <1>3, <1>4, <1>5, Removed
<1>7. ClientTurnsTypeOK'
  BY <1>2, <1>3, <1>6 DEF TurnQueuesInv, ClientTurnsTypeOK
<1>8. ASSUME NEW e \in Clients PROVE LeaveIsLast(e)'
  <2>1. ClientTurnsTypeOK /\ LeaveIsLast(e)
    BY DEF TurnQueuesInv
  <2> QED
    BY <1>1, <1>2, <1>3, <2>1, LeaveStaysLast
<1> QED
  BY <1>6, <1>7, <1>8 DEF TurnQueuesInv

LEMMA EndCurrentTurnKeeps ==
    ASSUME TurnQueuesInv, NEW c \in Clients, NEW v \in Vms, EndCurrentTurn(c, v)
    PROVE  TurnQueuesInv'
<1> DEFINE T == Task("end", c, v)
           n == FirstOf({v})
           none == {}
<1>1. /\ T \in Tasks /\ T.client = c /\ T.do = "end" /\ IsNext(v, T) /\ tasks' = Popped(v)
      /\ \A x : x \notin none
  BY TaskIn, TaskFields DEF EndCurrentTurn
<1> HIDE DEF none, T
<1>2. /\ tasks' \in [Strands -> Seq(Tasks)] /\ Moved(n, none) /\ Head(tasks[v]) = T
      /\ \A s \in Strands : n[s] = 1 => s = v
  BY <1>1, Runs
<1>3. /\ open' = open /\ connected_vm_id_' = connected_vm_id_
      /\ users_' = users_ /\ sent' = sent /\ hasty' = hasty /\ rejoined' = rejoined
  BY DEF EndCurrentTurn
<1>4. n = FirstOf({v})
  OBVIOUS
<1> HIDE DEF n
<1>5. /\ turn_queue_position_' \in [Clients -> Nat \cup {nullopt}]
      /\ turn_queue_' \in [Vms -> Seq(Clients)]
      /\ turn_timer_' \in [Vms -> Clients \cup {NoClient}]
      /\ crashed' \in BOOLEAN
      /\ ~hasty' => ~crashed' /\ QueuesSound' /\ RemovalsSound'
      /\ CurrentTurnIsTimed' /\ RequestsAreOfMembers' /\ QueuedAreMembersUnlessRejoined'
  <2>1. CASE turn_queue_[v] # << >> /\ Head(turn_queue_[v]) = c
    <3>1. RemoveTurn(v, c)
      BY <2>1 DEF EndCurrentTurn
    <3>2. Contains(turn_queue_[v], c)
      BY <2>1, TimedAt DEF TurnQueuesInv
    <3> QED
      BY <1>1, <1>2, <1>3, <1>4, <3>1, <3>2, Removed
  <2>2. CASE ~(turn_queue_[v] # << >> /\ Head(turn_queue_[v]) = c)
    <3>1. UNCHANGED turnVars
      BY <2>2 DEF EndCurrentTurn
    <3>2. /\ ~hasty' => ~crashed' /\ QueuesSound' /\ RemovalsSound'
          /\ CurrentTurnIsTimed' /\ RequestsAreOfMembers' /\ QueuedAreMembersUnlessRejoined'
      BY <1>1, <1>2, <1>3, <3>1, Untouched
    <3> QED
      BY <3>1, <3>2 DEF turnVars, TurnQueuesInv, ClientTurnsTypeOK
  <2> QED
    BY <2>1, <2>2
<1>6. ClientTurnsTypeOK'
  BY <1>2, <1>3, <1>5 DEF TurnQueuesInv, ClientTurnsTypeOK
<1>7. ASSUME NEW e \in Clients PROVE LeaveIsLast(e)'
  <2>1. ClientTurnsTypeOK /\ LeaveIsLast(e)
    BY DEF TurnQueuesInv
  <2> QED
    BY <1>1, <1>2, <1>3, <2>1, LeaveStaysLast
<1> QED
  BY <1>5, <1>6, <1>7 DEF TurnQueuesInv

LEMMA LeaveKeeps ==
    ASSUME TurnQueuesInv, NEW c \in Clients, NEW v \in Vms, Leave(c, v)
    PROVE  TurnQueuesInv'
<1> DEFINE T == Task("leave", c, v)
           n == FirstOf({v})
           none == {}
<1>1. /\ T \in Tasks /\ T.client = c /\ T.do = "leave" /\ IsNext(v, T) /\ tasks' = Popped(v)
      /\ \A x : x \notin none
  BY TaskIn, TaskFields DEF Leave
<1> HIDE DEF none, T
<1>2. /\ tasks' \in [Strands -> Seq(Tasks)] /\ Moved(n, none) /\ Head(tasks[v]) = T
      /\ tasks[v] # << >> /\ Pending(T)
      /\ \A s \in Strands : n[s] = 1 => s = v
  BY <1>1, Runs
<1>3. /\ open' = open /\ connected_vm_id_' = connected_vm_id_
      /\ sent' = sent /\ hasty' = hasty /\ rejoined' = rejoined
      /\ users_' = [users_ EXCEPT ![v] = @ \ {c}]
  BY DEF Leave
<1>4. /\ users_ \in [Vms -> SUBSET Clients] /\ users_' \in [Vms -> SUBSET Clients]
      /\ \A w \in Vms : \A d : d \in users_'[w] <=> d \in users_[w] /\ ~(w = v /\ d = c)
  <2>1. users_ \in [Vms -> SUBSET Clients]
    BY DEF TurnQueuesInv, ClientTurnsTypeOK
  <2> QED
    BY <1>3, <2>1
<1>5. n = FirstOf({v})
  OBVIOUS
<1> HIDE DEF n
<1>6. /\ turn_queue_position_' \in [Clients -> Nat \cup {nullopt}]
      /\ turn_queue_' \in [Vms -> Seq(Clients)]
      /\ turn_timer_' \in [Vms -> Clients \cup {NoClient}]
      /\ crashed' \in BOOLEAN
      /\ ~hasty' => ~crashed' /\ QueuesSound' /\ RemovalsSound'
      /\ CurrentTurnIsTimed' /\ RequestsAreOfMembers' /\ QueuedAreMembersUnlessRejoined'
  <2>1. CASE c \in users_[v]
    <3>1. RemoveTurn(v, c)
      BY <2>1 DEF Leave
    <3>2. ~hasty' => (turn_queue_position_[c] # nullopt => Contains(turn_queue_[v], c))
      BY <1>2, <1>3 DEF TurnQueuesInv, RemovalsSound, T
    <3>3. \A w \in Vms, d \in Clients : d # c /\ d \in users_[w] => d \in users_'[w]
      BY <1>4
    <3>4. hasty' = hasty /\ rejoined' = rejoined /\ connected_vm_id_' = connected_vm_id_
      BY <1>3
    <3> QED
      BY <1>1, <1>2, <1>5, <3>1, <3>2, <3>3, <3>4, Removed
  <2>2. CASE c \notin users_[v]
    <3>1. UNCHANGED turnVars
      BY <2>2 DEF Leave
    <3>2. \A w \in Vms, d \in Clients : d \in users_[w] => d \in users_'[w]
      BY <1>4, <2>2
    <3>3. hasty' = hasty /\ rejoined' = rejoined /\ connected_vm_id_' = connected_vm_id_
      BY <1>3
    <3>4. /\ ~hasty' => ~crashed' /\ QueuesSound' /\ RemovalsSound'
          /\ CurrentTurnIsTimed' /\ RequestsAreOfMembers' /\ QueuedAreMembersUnlessRejoined'
      BY <1>1, <1>2, <3>1, <3>2, <3>3, Untouched
    <3> QED
      BY <3>1, <3>4 DEF turnVars, TurnQueuesInv, ClientTurnsTypeOK
  <2> QED
    BY <2>1, <2>2
<1>7. ClientTurnsTypeOK'
  <2>1. UNCHANGED <<open, connected_vm_id_, sent, hasty, rejoined>>
    BY <1>3
  <2> QED
    BY <1>2, <1>4, <1>6, <2>1 DEF TurnQueuesInv, ClientTurnsTypeOK
<1>8. \A e \in Clients : e # c => LeaveIsLast(e)'
  BY <1>1, <1>2, <1>3, <1>4, OthersStay
<1>9. LeaveIsLast(c)'
  <2>1. ClientTurnsTypeOK /\ LeaveIsLast(c)
    BY DEF TurnQueuesInv
  <2>2. Head(tasks[v]) = Task("leave", c, v)
    BY <1>2 DEF T
  <2>3. UNCHANGED <<rejoined, open, connected_vm_id_>>
    BY <1>3
  <2>4. \A w \in Vms : w # v /\ c \in users_[w] => c \in users_'[w]
    BY <1>4
  <2> QED
    BY <1>1, <1>2, <1>5, <2>1, <2>2, <2>3, <2>4, LeaveRuns
<1> QED
  BY <1>6, <1>7, <1>8, <1>9 DEF TurnQueuesInv

LEMMA RejoinKeeps ==
    ASSUME TurnQueuesInv, NEW c \in Clients, NEW v \in Vms, Rejoin(c, v)
    PROVE  TurnQueuesInv'
<1> DEFINE T == Task("join", c, v)
           n == FirstOf({v})
           none == {}
<1>1. /\ T \in Tasks /\ T.client = c /\ T.do = "join" /\ IsNext(v, T) /\ tasks' = Popped(v)
      /\ \A x : x \notin none
  BY TaskIn, TaskFields DEF Rejoin
<1> HIDE DEF none, T
<1>2. /\ tasks' \in [Strands -> Seq(Tasks)] /\ Moved(n, none) /\ Head(tasks[v]) = T
      /\ \A s \in Strands : n[s] = 1 => s = v
  BY <1>1, Runs
<1>3. /\ open' = open /\ connected_vm_id_' = connected_vm_id_ /\ sent' = sent
      /\ rejoined' = [rejoined EXCEPT ![c] = TRUE]
      /\ users_' = [users_ EXCEPT ![v] = @ \cup {c}]
  BY DEF Rejoin
<1>4. hasty' = (hasty \/ QueuedElsewhere(c, v))
  BY DEF Rejoin
<1>5. /\ hasty' \in BOOLEAN
      /\ hasty => hasty'
      /\ ~hasty' => ~QueuedElsewhere(c, v)
  BY <1>4, Zenon
<1>6. /\ users_' \in [Vms -> SUBSET Clients] /\ rejoined' \in [Clients -> BOOLEAN]
      /\ \A w \in Vms, d \in Clients : d \in users_[w] => d \in users_'[w]
      /\ \A d \in Clients : rejoined[d] => rejoined'[d]
      /\ rejoined'[c]
  <2>1. users_ \in [Vms -> SUBSET Clients] /\ rejoined \in [Clients -> BOOLEAN]
    BY DEF TurnQueuesInv, ClientTurnsTypeOK
  <2> QED
    BY <1>3, <2>1
<1>7. n = FirstOf({v})
  OBVIOUS
<1> HIDE DEF n
<1>8. /\ turn_queue_position_' \in [Clients -> Nat \cup {nullopt}]
      /\ turn_queue_' \in [Vms -> Seq(Clients)]
      /\ turn_timer_' \in [Vms -> Clients \cup {NoClient}]
      /\ crashed' \in BOOLEAN
      /\ ~hasty' => ~crashed' /\ QueuesSound' /\ RemovalsSound'
      /\ CurrentTurnIsTimed' /\ RequestsAreOfMembers' /\ QueuedAreMembersUnlessRejoined'
  <2>1. connected_vm_id_' = connected_vm_id_
    BY <1>3
  <2>2. CASE c \in users_[v]
    <3>1. RemoveTurn(v, c)
      BY <2>2 DEF Rejoin
    <3>2. ~hasty' => (turn_queue_position_[c] # nullopt => Contains(turn_queue_[v], c))
      BY <1>5, ClientTurnsConstants DEF QueuedElsewhere
    <3> QED
      BY <1>1, <1>2, <1>5, <1>6, <1>7, <2>1, <3>1, <3>2, Removed
  <2>3. CASE c \notin users_[v]
    <3>1. UNCHANGED turnVars
      BY <2>3 DEF Rejoin
    <3>2. /\ ~hasty' => ~crashed' /\ QueuesSound' /\ RemovalsSound'
          /\ CurrentTurnIsTimed' /\ RequestsAreOfMembers' /\ QueuedAreMembersUnlessRejoined'
      BY <1>1, <1>2, <1>5, <1>6, <2>1, <3>1, Untouched
    <3> QED
      BY <3>1, <3>2 DEF turnVars, TurnQueuesInv, ClientTurnsTypeOK
  <2> QED
    BY <2>2, <2>3
<1>9. ClientTurnsTypeOK'
  <2>1. UNCHANGED <<open, connected_vm_id_, sent>>
    BY <1>3
  <2>2. {crashed', hasty'} \subseteq BOOLEAN
    BY <1>5, <1>8, Zenon
  <2> QED
    BY <1>2, <1>6, <1>8, <2>1, <2>2 DEF TurnQueuesInv, ClientTurnsTypeOK
<1>10. \A e \in Clients : e # c => LeaveIsLast(e)'
  <2>1. UNCHANGED <<open, connected_vm_id_>>
    BY <1>3
  <2> QED
    BY <1>1, <1>2, <1>6, <2>1, OthersStay
<1>11. LeaveIsLast(c)'
  BY <1>6 DEF LeaveIsLast
<1> QED
  BY <1>8, <1>9, <1>10, <1>11 DEF TurnQueuesInv

LEMMA JoinKeeps ==
    ASSUME TurnQueuesInv, NEW c \in Clients, NEW v \in Vms, Join(c, v)
    PROVE  TurnQueuesInv'
<1> DEFINE id == connected_vm_id_[c]
           T == Task("join", c, v)
           L == Task("leave", c, id)
           n == FirstOf({v})
           pushed == IF id = NoVm THEN {} ELSE {<<VmList, L>>}
<1>1. /\ ClientTurnsTypeOK /\ tasks \in [Strands -> Seq(Tasks)] /\ VmList \in Strands
      /\ v \in Strands /\ v # VmList /\ id \in Vms \cup {NoVm} /\ NoVm \notin Vms
  BY ClientTurnsConstants, StrandsDiffer DEF TurnQueuesInv, ClientTurnsTypeOK
<1>2. /\ T.do = "join" /\ L \in Tasks /\ L.client = c
  BY <1>1, TaskIn, TaskFields
<1>3. /\ open' = open /\ sent' = sent /\ UNCHANGED turnVars
      /\ tasks' = IF id = NoVm THEN Popped(v) ELSE Push(Popped(v), VmList, L)
      /\ connected_vm_id_' = [connected_vm_id_ EXCEPT ![c] = v]
      /\ users_' = [users_ EXCEPT ![v] = @ \cup {c}]
      /\ rejoined' = [rejoined EXCEPT ![c] = @ \/ id = v \/ c \in users_[v] \/ ~open[c]]
      /\ tasks[v] # << >> /\ Head(tasks[v]) = T
  BY DEF Join, IsNext
<1>4. hasty' = (hasty \/ QueuedElsewhere(c, id))
  BY DEF Join
<1>5. /\ hasty' \in BOOLEAN
      /\ hasty => hasty'
      /\ ~hasty' => ~QueuedElsewhere(c, id)
  BY <1>4, Zenon
<1>6. /\ users_' \in [Vms -> SUBSET Clients] /\ rejoined' \in [Clients -> BOOLEAN]
      /\ connected_vm_id_' \in [Clients -> Vms \cup {NoVm}]
      /\ \A w \in Vms, d \in Clients : d \in users_[w] => d \in users_'[w]
      /\ \A d \in Clients : rejoined[d] => rejoined'[d]
      /\ c \in users_'[v] /\ connected_vm_id_'[c] = v
      /\ \A d \in Clients : d # c => connected_vm_id_'[d] = connected_vm_id_[d]
      /\ ~rejoined'[c] => ~rejoined[c] /\ id # v /\ c \notin users_[v] /\ open[c]
  <2>1. /\ users_ \in [Vms -> SUBSET Clients] /\ rejoined \in [Clients -> BOOLEAN]
        /\ connected_vm_id_ \in [Clients -> Vms \cup {NoVm}]
    BY DEF TurnQueuesInv, ClientTurnsTypeOK
  <2> HIDE DEF id
  <2> QED
    BY <1>3, <2>1
<1>7. tasks' \in [Strands -> Seq(Tasks)] /\ Moved(n, pushed)
  <2>1. CASE id = NoVm
    <3> DEFINE none == {}
    <3>1. \A x : x \notin none
      OBVIOUS
    <3>2. pushed = none /\ tasks' = Popped(v)
      BY <1>3, <2>1
    <3> HIDE DEF none, pushed
    <3> QED
      BY <1>1, <1>3, <3>1, <3>2, PopMoves
  <2>2. CASE id # NoVm
    <3>1. tasks' = Push(Popped(v), VmList, L) /\ pushed = {<<VmList, L>>}
      BY <1>3, <2>2
    <3> HIDE DEF L, pushed, id
    <3> QED
      BY <1>1, <1>2, <1>3, <3>1, PopPushMoves
  <2> QED
    BY <2>1, <2>2
<1>8. /\ \A s \in Strands : n[s] = 1 => s = v
      /\ \A s, t : <<s, t>> \in pushed <=> id # NoVm /\ s = VmList /\ t = L
  BY DEF FirstOf
<1> HIDE DEF n, pushed, L, T
<1>9. /\ \A s \in Strands : n[s] = 1 => Head(tasks[s]).do # "expired"
      /\ \A s, t : <<s, t>> \in pushed => t.client = c
      /\ \A s, d, w : <<s, Task("leave", d, w)>> \in pushed => d = c /\ w = id /\ id # NoVm
      /\ \A s, d, w : /\ <<s, Task("expired", d, w)>> \notin pushed
                      /\ <<s, Task("turn", d, w)>> \notin pushed
  <2>1. \A d, w : /\ L # Task("expired", d, w) /\ L # Task("turn", d, w)
                  /\ L = Task("leave", d, w) => d = c /\ w = id
    BY TaskFields DEF L
  <2> HIDE DEF id
  <2> QED
    BY <1>2, <1>3, <1>8, <2>1
<1>10. ClientTurnsTypeOK'
  <2>1. UNCHANGED <<open, sent, turnVars>>
    BY <1>3
  <2>2. crashed' = crashed /\ crashed \in BOOLEAN
    BY <1>1, <2>1 DEF turnVars, ClientTurnsTypeOK
  <2>3. {crashed', hasty'} \subseteq BOOLEAN
    BY <1>5, <2>2, Zenon
  <2> QED
    BY <1>1, <1>6, <1>7, <2>1, <2>3 DEF turnVars, ClientTurnsTypeOK
<1>11. /\ ~hasty' => ~crashed' /\ QueuesSound' /\ RemovalsSound'
       /\ CurrentTurnIsTimed' /\ RequestsAreOfMembers' /\ QueuedAreMembersUnlessRejoined'
  <2>1. UNCHANGED turnVars
    BY <1>3
  <2>2. ~hasty' => \A s \in Strands, d \in Clients, w \in Vms :
                      <<s, Task("leave", d, w)>> \in pushed => ~QueuedElsewhere(d, w)
    BY <1>5, <1>9
  <2>3. \A d \in Clients : connected_vm_id_[d] # NoVm => connected_vm_id_'[d] # NoVm
    BY <1>1, <1>6
  <2> HIDE DEF id
  <2> QED
    BY <1>5, <1>6, <1>7, <1>9, <2>1, <2>2, <2>3, Untouched
<1>12. \A e \in Clients : e # c => LeaveIsLast(e)'
  <2>1. open' = open
    BY <1>3
  <2> QED
    BY <1>6, <1>7, <1>9, <2>1, OthersStay
<1>13. LeaveIsLast(c)'
  <2> SUFFICES ASSUME ~rejoined'[c] PROVE LeaveIsLast(c)'
    BY DEF LeaveIsLast
  <2>1. /\ ~rejoined[c] /\ id # v /\ c \notin users_[v] /\ open[c] /\ open'[c]
        /\ LeaveIsLast(c)
    BY <1>3, <1>6 DEF TurnQueuesInv
  <2>2. CASE id # NoVm
    <3>1. id \in Vms /\ \A s, t : <<s, t>> \in pushed <=> s = VmList /\ t = Task("leave", c, id)
      BY <1>1, <1>8, <2>2 DEF L
    <3> QED
      BY <1>1, <1>6, <1>7, <2>1, <3>1, LeavePushed
  <2>3. CASE id = NoVm
    <3>1. \A s, t : <<s, t>> \notin pushed
      BY <1>8, <2>3
    <3>2. ASSUME NEW w \in Vms
          PROVE  /\ Pending(Task("leave", c, w))' => Pending(Task("leave", c, w))
                 /\ Contains(tasks[w], Task("turn", c, w))' =>
                       Contains(tasks[w], Task("turn", c, w))
      <4>1. Task("leave", c, w) \in Tasks /\ Task("turn", c, w) \in Tasks /\ w \in Strands
        BY TaskIn, StrandsDiffer
      <4> QED
        BY <1>1, <1>7, <3>1, <4>1, PendingMoves
    <3>3. ASSUME NEW w \in Vms PROVE LeaveIsOne(c, w)' /\ TurnsComeFirst(c, w)'
      BY <1>7, <2>1, <3>1, LeaveStaysOne, TurnsStayFirst DEF LeaveIsLast
    <3>4. ASSUME NEW w \in Vms
          PROVE  /\ connected_vm_id_'[c] = w /\ open'[c] =>
                       c \in users_'[w] /\ ~Pending(Task("leave", c, w))'
                 /\ Pending(Task("leave", c, w))' \/ Contains(tasks[w], Task("turn", c, w))' =>
                       c \in users_'[w]
      BY <1>6, <2>1, <3>2 DEF LeaveIsLast
    <3> QED
      BY <2>1, <3>3, <3>4 DEF LeaveIsLast
  <2> QED
    BY <2>2, <2>3
<1> QED
  BY <1>10, <1>11, <1>12, <1>13 DEF TurnQueuesInv

LEMMA TurnExpiresKeeps ==
    ASSUME TurnQueuesInv, NEW v \in Vms, TurnExpires(v)
    PROVE  TurnQueuesInv'
<1> DEFINE c == turn_timer_[v]
           T == Task("expired", c, v)
           n == FirstOf({})
           pushed == {<<v, T>>}
<1>1. /\ ClientTurnsTypeOK /\ tasks \in [Strands -> Seq(Tasks)]
      /\ v \in Strands /\ v # VmList /\ c \in Clients \cup {NoClient} /\ NoClient \notin Clients
  BY ClientTurnsConstants, StrandsDiffer DEF TurnQueuesInv, ClientTurnsTypeOK
<1>2. /\ open' = open /\ connected_vm_id_' = connected_vm_id_ /\ users_' = users_
      /\ sent' = sent /\ hasty' = hasty /\ rejoined' = rejoined /\ crashed' = crashed
      /\ turn_queue_position_' = turn_queue_position_ /\ turn_queue_' = turn_queue_
      /\ turn_timer_' = [turn_timer_ EXCEPT ![v] = NoClient]
      /\ tasks' = Push(tasks, v, T) /\ c \in Clients
  BY <1>1 DEF TurnExpires
<1>3. T \in Tasks
  BY <1>2, TaskIn
<1>4. tasks' \in [Strands -> Seq(Tasks)] /\ Moved(n, pushed)
  <2> HIDE DEF T, c
  <2> QED
    BY <1>1, <1>2, <1>3, PushMoves
<1>5. /\ \A s \in Strands : n[s] = 0
      /\ \A s, t : <<s, t>> \in pushed <=> s = v /\ t = T
  BY DEF FirstOf
<1> HIDE DEF n, pushed, T
<1>6. /\ \A s, d, w : /\ <<s, Task("leave", d, w)>> \notin pushed
                      /\ <<s, Task("turn", d, w)>> \notin pushed
                      /\ <<s, Task("expired", d, w)>> \in pushed <=> s = v /\ d = c /\ w = v
  <2>1. \A d, w : /\ T # Task("leave", d, w) /\ T # Task("turn", d, w)
                  /\ T = Task("expired", d, w) <=> d = c /\ w = v
    BY TaskFields DEF T
  <2> HIDE DEF c
  <2> QED
    BY <1>5, <2>1
<1>7. /\ turn_timer_' \in [Vms -> Clients \cup {NoClient}]
      /\ \A w \in Vms : turn_timer_'[w] = IF w = v THEN NoClient ELSE turn_timer_[w]
  <2>1. turn_timer_ \in [Vms -> Clients \cup {NoClient}]
    BY <1>1 DEF ClientTurnsTypeOK
  <2> QED
    BY <1>2, <2>1
<1>8. ClientTurnsTypeOK'
  BY <1>1, <1>2, <1>4, <1>7 DEF ClientTurnsTypeOK
<1>9. ASSUME NEW d \in Clients, NEW w \in Vms
      PROVE  /\ Pending(Task("leave", d, w))' => Pending(Task("leave", d, w))
             /\ Pending(Task("expired", d, w))' <=>
                   Pending(Task("expired", d, w)) \/ (d = c /\ w = v)
  <2>1. Task("leave", d, w) \in Tasks /\ Task("expired", d, w) \in Tasks
    BY TaskIn
  <2> HIDE DEF c
  <2>2. Pending(Task("leave", d, w))' => Pending(Task("leave", d, w))
    <3>1. \A s \in Strands : <<s, Task("leave", d, w)>> \notin pushed
      BY <1>6
    <3> QED
      BY <1>1, <1>4, <2>1, <3>1, PendingMoves
  <2>3. Pending(Task("expired", d, w))' => Pending(Task("expired", d, w)) \/ (d = c /\ w = v)
    <3>1. ASSUME NEW s \in Strands, <<s, Task("expired", d, w)>> \in pushed
          PROVE  d = c /\ w = v
      <4>1. T = Task("expired", d, w)
        BY <1>5, <3>1
      <4> QED
        BY <4>1, TaskFields DEF T
    <3> QED
      BY <1>1, <1>4, <2>1, <3>1, PendingMoves
  <2>4. Pending(Task("expired", d, w)) => Pending(Task("expired", d, w))'
    <3>1. \A s \in Strands : n[s] = 1 => Head(tasks[s]) # Task("expired", d, w)
      BY <1>5
    <3> QED
      BY <1>1, <1>4, <2>1, <3>1, PendingMoves
  <2>5. d = c /\ w = v => Pending(Task("expired", d, w))'
    <3>1. d = c /\ w = v => \E s \in Strands : <<s, Task("expired", d, w)>> \in pushed
      BY <1>1, <1>6
    <3> QED
      BY <1>1, <1>4, <2>1, <3>1, PendingMoves
  <2> QED
    BY <2>2, <2>3, <2>4, <2>5
<1>10. QueuesSound' <=> QueuesSound
  BY <1>2 DEF QueuesSound, Contains
<1>11. ASSUME ~hasty PROVE RemovalsSound'
  <2> SUFFICES ASSUME NEW d \in Clients, NEW w \in Vms, turn_queue_position_'[d] # nullopt,
                      \/ turn_timer_'[w] = d
                      \/ Pending(Task("expired", d, w))' \/ Pending(Task("leave", d, w))'
               PROVE  Contains(turn_queue_[w], d)'
    BY DEF RemovalsSound
  <2>1. \/ turn_timer_[w] = d
        \/ Pending(Task("expired", d, w)) \/ Pending(Task("leave", d, w))
    BY <1>1, <1>7, <1>9
  <2>2. Contains(turn_queue_[w], d)
    BY <1>2, <1>11, <2>1 DEF TurnQueuesInv, RemovalsSound
  <2> QED
    BY <1>2, <2>2 DEF Contains
<1>12. CurrentTurnIsTimed'
  <2>1. CASE hasty
    BY <1>2, <2>1 DEF CurrentTurnIsTimed
  <2>2. CASE ~hasty
    <3>1. ASSUME NEW w \in Vms, NEW d \in Clients, turn_queue_'[w] # << >>,
                 d = Head(turn_queue_'[w]), turn_timer_'[w] # d
          PROVE  Pending(Task("expired", d, w))'
      <4>1. turn_timer_[w] = d \/ Pending(Task("expired", d, w))
        BY <1>2, <2>2, <3>1 DEF TurnQueuesInv, CurrentTurnIsTimed
      <4> QED
        BY <1>7, <1>9, <3>1, <4>1
    <3>2. turn_queue_' \in [Vms -> Seq(Clients)]
      BY <1>1, <1>2 DEF ClientTurnsTypeOK
    <3> QED
      BY <3>1, <3>2, TimedNext
  <2> QED
    BY <2>1, <2>2
<1>13. RequestsAreOfMembers'
  BY <1>2, <1>4, <1>6, RequestsStay
<1>14. QueuedAreMembersUnlessRejoined'
  <2>1. turn_queue_' \in [Vms -> Seq(Clients)]
    BY <1>1, <1>2 DEF ClientTurnsTypeOK
  <2>2. /\ turn_queue_' = turn_queue_ /\ hasty' = hasty /\ rejoined' = rejoined
        /\ users_' = users_
    BY <1>2
  <2> QED
    BY <2>1, <2>2, MembersStay
<1>15. ASSUME NEW e \in Clients PROVE LeaveIsLast(e)'
  <2>1. LeaveIsLast(e)
    BY DEF TurnQueuesInv
  <2>2. /\ open' = open /\ connected_vm_id_' = connected_vm_id_ /\ users_' = users_
        /\ rejoined' = rejoined
    BY <1>2
  <2> HIDE DEF c
  <2> QED
    BY <1>1, <1>4, <1>6, <2>1, <2>2, LeaveStaysLast
<1>16. ~hasty' => ~crashed' /\ QueuesSound' /\ RemovalsSound'
  BY <1>2, <1>10, <1>11 DEF TurnQueuesInv
<1> QED
  BY <1>8, <1>12, <1>13, <1>14, <1>15, <1>16 DEF TurnQueuesInv

(* RequestTurn of a client that is queued nowhere, and that no other       *)
(* machine is about to remove.                                             *)
LEMMA EnqueuedTurns ==
    ASSUME TurnQueuesInv, ~hasty, NEW v \in Vms, NEW c \in Clients,
           NEW q, q = Append(turn_queue_[v], c), turn_queue_position_[c] = nullopt,
           turn_queue_' = [turn_queue_ EXCEPT ![v] = q],
           turn_queue_position_' = [turn_queue_position_ EXCEPT ![c] = Len(q) - 1],
           turn_timer_' = IF Len(q) = 1 THEN Started(v, q) ELSE turn_timer_,
           crashed' = crashed, ~Elsewhere(c, v),
           NEW n, n = FirstOf({v}), NEW none, \A x : x \notin none, Moved(n, none),
           Head(tasks[v]).do = "turn"
    PROVE  ~crashed' /\ QueuesSound' /\ RemovalsSound' /\ CurrentTurnIsTimed'
<1>1. /\ ClientTurnsTypeOK /\ ~crashed /\ QueuesSound /\ RemovalsSound /\ CurrentTurnIsTimed
      /\ tasks \in [Strands -> Seq(Tasks)]
  BY DEF TurnQueuesInv, ClientTurnsTypeOK
<1>2. /\ turn_queue_' \in [Vms -> Seq(Clients)]
      /\ \A w \in Vms, d \in Clients : Contains(turn_queue_[w], d)' <=>
            Contains(turn_queue_[w], d) \/ (w = v /\ d = c)
      /\ QueuesSound'
      /\ \A d \in Clients : d # c => turn_queue_position_'[d] = turn_queue_position_[d]
      /\ \A w \in Vms : \/ turn_timer_'[w] = turn_timer_[w]
                        \/ w = v /\ turn_timer_'[w] = c
      /\ \A w \in Vms : turn_queue_'[w] # << >> =>
            \/ turn_timer_'[w] = Head(turn_queue_'[w])
            \/ /\ turn_queue_[w] # << >> /\ Head(turn_queue_'[w]) = Head(turn_queue_[w])
               /\ turn_timer_'[w] = turn_timer_[w]
  BY <1>1, EnqueueKeeps
<1>3. ASSUME NEW d \in Clients, NEW w \in Vms
      PROVE  /\ Pending(Task("leave", d, w))' => Pending(Task("leave", d, w))
             /\ Pending(Task("expired", d, w))' <=> Pending(Task("expired", d, w))
  <2>1. Task("leave", d, w) \in Tasks /\ Task("expired", d, w) \in Tasks
    BY TaskIn
  <2>2. \A s \in Strands : n[s] = 1 => Head(tasks[s]) # Task("expired", d, w)
    <3>1. \A s \in Strands : n[s] = 1 => s = v
      BY DEF FirstOf
    <3>2. Task("expired", d, w).do = "expired"
      BY TaskFields
    <3> QED
      BY <3>1, <3>2
  <2> QED
    BY <1>1, <2>1, <2>2, PendingMoves
<1>4. RemovalsSound'
  <2> SUFFICES ASSUME NEW d \in Clients, NEW w \in Vms, turn_queue_position_'[d] # nullopt,
                      \/ turn_timer_'[w] = d
                      \/ Pending(Task("expired", d, w))' \/ Pending(Task("leave", d, w))'
               PROVE  Contains(turn_queue_[w], d)'
    BY DEF RemovalsSound
  <2>1. CASE d = c /\ w = v
    BY <1>2, <2>1
  <2>2. CASE d = c /\ w # v
    BY <1>2, <1>3, <2>2 DEF Elsewhere
  <2>3. CASE d # c
    <3>1. \/ turn_timer_[w] = d
          \/ Pending(Task("expired", d, w)) \/ Pending(Task("leave", d, w))
      BY <1>2, <1>3, <2>3
    <3>2. Contains(turn_queue_[w], d)
      BY <1>1, <1>2, <2>3, <3>1 DEF RemovalsSound
    <3> QED
      BY <1>2, <3>2
  <2> QED
    BY <2>1, <2>2, <2>3
<1>5. CurrentTurnIsTimed'
  <2>1. ASSUME NEW w \in Vms, NEW d \in Clients, turn_queue_'[w] # << >>,
               d = Head(turn_queue_'[w]), turn_timer_'[w] # d
        PROVE  Pending(Task("expired", d, w))'
    <3>1. Pending(Task("expired", d, w))
      BY <1>1, <1>2, <2>1 DEF CurrentTurnIsTimed
    <3> QED
      BY <1>3, <3>1
  <2> QED
    BY <1>2, <2>1, TimedNext
<1> QED
  BY <1>1, <1>2, <1>4, <1>5

LEMMA RequestTurnKeeps ==
    ASSUME TurnQueuesInv, NEW c \in Clients, NEW v \in Vms, RequestTurn(c, v)
    PROVE  TurnQueuesInv'
<1> DEFINE T == Task("turn", c, v)
           n == FirstOf({v})
           none == {}
           q == Append(turn_queue_[v], c)
<1>1. /\ T \in Tasks /\ T.client = c /\ T.do = "turn" /\ IsNext(v, T) /\ tasks' = Popped(v)
      /\ \A x : x \notin none
  BY TaskIn, TaskFields DEF RequestTurn
<1> HIDE DEF none, T
<1>2. /\ tasks' \in [Strands -> Seq(Tasks)] /\ Moved(n, none) /\ Head(tasks[v]) = T
      /\ Contains(tasks[v], T)
      /\ \A s \in Strands : n[s] = 1 => s = v
  BY <1>1, Runs
<1>3. /\ open' = open /\ connected_vm_id_' = connected_vm_id_
      /\ users_' = users_ /\ sent' = sent /\ rejoined' = rejoined
  BY DEF RequestTurn
<1>4. n = FirstOf({v})
  OBVIOUS
<1> HIDE DEF n
<1>5. ClientTurnsTypeOK /\ {crashed, hasty} \subseteq BOOLEAN
  BY DEF TurnQueuesInv, ClientTurnsTypeOK
<1>6. RequestsAreOfMembers'
  BY <1>1, <1>2, <1>3, RequestsStay
<1>7. /\ turn_queue_position_' \in [Clients -> Nat \cup {nullopt}]
      /\ turn_queue_' \in [Vms -> Seq(Clients)]
      /\ turn_timer_' \in [Vms -> Clients \cup {NoClient}]
      /\ {crashed', hasty'} \subseteq BOOLEAN
      /\ ~hasty' => ~crashed' /\ QueuesSound' /\ RemovalsSound'
      /\ CurrentTurnIsTimed' /\ QueuedAreMembersUnlessRejoined'
  <2>1. CASE turn_queue_position_[c] # nullopt
    <3>1. UNCHANGED turnVars /\ hasty' = hasty
      BY <2>1 DEF RequestTurn
    <3>2. /\ ~hasty' => ~crashed' /\ QueuesSound' /\ RemovalsSound'
          /\ CurrentTurnIsTimed' /\ QueuedAreMembersUnlessRejoined'
      BY <1>1, <1>2, <1>3, <3>1, Untouched
    <3> QED
      BY <1>5, <3>1, <3>2 DEF turnVars, ClientTurnsTypeOK
  <2>2. CASE turn_queue_position_[c] = nullopt
    <3>1. /\ turn_queue_' = [turn_queue_ EXCEPT ![v] = q]
          /\ turn_queue_position_' = [turn_queue_position_ EXCEPT ![c] = Len(q) - 1]
          /\ turn_timer_' = IF Len(q) = 1 THEN Started(v, q) ELSE turn_timer_
          /\ crashed' = crashed /\ q = Append(turn_queue_[v], c)
      BY <2>2 DEF RequestTurn
    <3>2. hasty' = (hasty \/ Elsewhere(c, v))
      BY <2>2 DEF RequestTurn
    <3>3. /\ hasty' \in BOOLEAN
          /\ hasty => hasty'
          /\ ~hasty' => ~Elsewhere(c, v)
      BY <3>2, Zenon
    <3> HIDE DEF q
    <3>4. /\ turn_queue_position_' \in [Clients -> Nat \cup {nullopt}]
          /\ turn_queue_' \in [Vms -> Seq(Clients)]
          /\ turn_timer_' \in [Vms -> Clients \cup {NoClient}]
          /\ \A w \in Vms, d \in Clients : Contains(turn_queue_[w], d)' <=>
                Contains(turn_queue_[w], d) \/ (w = v /\ d = c)
      BY <1>5, <2>2, <3>1, EnqueueKeeps
    <3>5. crashed' \in BOOLEAN
      BY <1>5, <3>1
    <3>6. ASSUME ~hasty'
          PROVE  ~crashed' /\ QueuesSound' /\ RemovalsSound' /\ CurrentTurnIsTimed'
      BY <1>1, <1>2, <1>4, <2>2, <3>1, <3>3, <3>6, EnqueuedTurns
    <3>7. hasty' => CurrentTurnIsTimed'
      BY DEF CurrentTurnIsTimed
    <3>8. rejoined[c] \/ c \in users_[v]
      BY <1>2 DEF TurnQueuesInv, LeaveIsLast, T
    <3>9. \A w \in Vms, d \in Clients : Contains(turn_queue_'[w], d) =>
             Contains(turn_queue_[w], d) \/ rejoined'[d] \/ d \in users_'[w]
      <4>1. ASSUME NEW w \in Vms, NEW d \in Clients, Contains(turn_queue_'[w], d)
            PROVE  Contains(turn_queue_[w], d) \/ rejoined'[d] \/ d \in users_'[w]
        <5>1. Contains(turn_queue_[w], d)'
          BY <4>1 DEF Contains
        <5> QED
          BY <1>3, <3>4, <3>8, <5>1
      <4> QED
        BY <4>1
    <3>10. QueuedAreMembersUnlessRejoined'
      BY <1>3, <3>3, <3>4, <3>9, MembersStay
    <3>11. {crashed', hasty'} \subseteq BOOLEAN
      BY <3>3, <3>5, Zenon
    <3>12. (~hasty' => ~crashed' /\ QueuesSound' /\ RemovalsSound') /\ CurrentTurnIsTimed'
      BY <3>6, <3>7
    <3> QED
      BY <3>4, <3>10, <3>11, <3>12
  <2> QED
    BY <2>1, <2>2
<1>8. ClientTurnsTypeOK'
  BY <1>2, <1>3, <1>5, <1>7 DEF ClientTurnsTypeOK
<1>9. ASSUME NEW e \in Clients PROVE LeaveIsLast(e)'
  <2>1. LeaveIsLast(e)
    BY DEF TurnQueuesInv
  <2> QED
    BY <1>1, <1>2, <1>3, <1>5, <2>1, LeaveStaysLast
<1> QED
  BY <1>6, <1>7, <1>8, <1>9 DEF TurnQueuesInv
-----------------------------------------------------------------------------
LEMMA ClientTurnsStart == ClientTurnsInit => TurnQueuesInv
<1> SUFFICES ASSUME ClientTurnsInit PROVE TurnQueuesInv
  OBVIOUS
<1>1. /\ tasks = [s \in Strands |-> << >>] /\ turn_queue_ = [v \in Vms |-> << >>]
      /\ turn_queue_position_ = [c \in Clients |-> nullopt] /\ crashed = FALSE
      /\ connected_vm_id_ = [c \in Clients |-> NoVm] /\ open = [c \in Clients |-> TRUE]
  BY DEF ClientTurnsInit
<1>2. ClientTurnsTypeOK
  <2>1. MaxMessages \in Nat
    BY ClientTurnsConstants
  <2>2. tasks \in [Strands -> Seq(Tasks)] /\ turn_queue_ \in [Vms -> Seq(Clients)]
    BY <1>1
  <2>3. sent \in 0..MaxMessages
    BY <2>1 DEF ClientTurnsInit
  <2>4. /\ open \in [Clients -> BOOLEAN] /\ connected_vm_id_ \in [Clients -> Vms \cup {NoVm}]
        /\ turn_queue_position_ \in [Clients -> Nat \cup {nullopt}]
    BY <1>1
  <2>5. /\ users_ \in [Vms -> SUBSET Clients] /\ turn_timer_ \in [Vms -> Clients \cup {NoClient}]
        /\ {crashed, hasty} \subseteq BOOLEAN /\ rejoined \in [Clients -> BOOLEAN]
    BY DEF ClientTurnsInit
  <2> QED
    BY <2>2, <2>3, <2>4, <2>5 DEF ClientTurnsTypeOK
<1>3. /\ \A s \in Strands : tasks[s] = << >> /\ Len(tasks[s]) = 0
      /\ \A v \in Vms : turn_queue_[v] = << >> /\ Len(turn_queue_[v]) = 0
  BY <1>1
<1>4. \A task : ~Pending(task)
  BY <1>3 DEF Pending, Contains
<1>5. \A s \in Strands : \A task : ~Contains(tasks[s], task)
  BY <1>3 DEF Contains
<1>6. ~crashed /\ QueuesSound /\ RemovalsSound
  BY <1>1, <1>3 DEF QueuesSound, RemovalsSound, Contains
<1>7. CurrentTurnIsTimed /\ QueuedAreMembersUnlessRejoined
  BY <1>3 DEF CurrentTurnIsTimed, QueuedAreMembersUnlessRejoined
<1>8. VmList \in Strands /\ Vms \subseteq Strands /\ NoVm \notin Vms
  BY StrandsDiffer, ClientTurnsConstants
<1>9. RequestsAreOfMembers
  BY <1>5, <1>8 DEF RequestsAreOfMembers
<1>10. ASSUME NEW c \in Clients PROVE LeaveIsLast(c)
  <2>1. ASSUME NEW v \in Vms PROVE LeaveIsOne(c, v) /\ TurnsComeFirst(c, v)
    BY <1>3, <1>8 DEF LeaveIsOne, TurnsComeFirst
  <2>2. connected_vm_id_[c] = NoVm /\ open[c]
    BY <1>1
  <2> QED
    BY <1>4, <1>5, <1>8, <2>1, <2>2 DEF LeaveIsLast
<1> QED
  BY <1>2, <1>6, <1>7, <1>9, <1>10 DEF TurnQueuesInv

LEMMA ClientTurnsStep == TurnQueuesInv /\ [ClientTurnsNext]_clientTurnsVars => TurnQueuesInv'
<1> SUFFICES ASSUME TurnQueuesInv, [ClientTurnsNext]_clientTurnsVars PROVE TurnQueuesInv'
  OBVIOUS
<1>1. ASSUME NEW c \in Clients, ClientNext(c) PROVE TurnQueuesInv'
  BY <1>1, ClientSends, DisconnectKeeps DEF ClientNext
<1>2. ASSUME ListNext PROVE TurnQueuesInv'
  BY <1>2, GetAdminVirtualMachineKeeps, FindTurnRequestKeeps DEF ListNext
<1>3. ASSUME NEW v \in Vms, VmNext(v) PROVE TurnQueuesInv'
  BY <1>3, RequestTurnKeeps, TurnExpiredKeeps, EndCurrentTurnKeeps, JoinKeeps, RejoinKeeps,
     LeaveKeeps DEF VmNext
<1>4. ASSUME UNCHANGED clientTurnsVars PROVE TurnQueuesInv'
  BY <1>4 DEF clientTurnsVars, TurnQueuesInv, ClientTurnsTypeOK, QueuesSound, RemovalsSound,
     CurrentTurnIsTimed, LeaveIsLast, LeaveIsOne, TurnsComeFirst, LeaveFollows, Pending,
     Contains, RequestsAreOfMembers, QueuedAreMembersUnlessRejoined
<1> QED
  BY <1>1, <1>2, <1>3, <1>4, TurnExpiresKeeps DEF ClientTurnsNext

(* The places of a client are found by its one position.                   *)
LEMMA PlacesAreFound == TurnQueuesInv => ClientTurnsInv
<1> SUFFICES ASSUME TurnQueuesInv PROVE ClientTurnsInv
  OBVIOUS
<1>1. ClientTurnsTypeOK /\ CurrentTurnIsTimed
  BY DEF TurnQueuesInv
<1>2. ASSUME ~hasty PROVE ~crashed /\ QueuesSound
  BY <1>2 DEF TurnQueuesInv
<1>3. ASSUME ~hasty, NEW c \in Clients, turn_queue_position_[c] = nullopt, NEW v \in Vms
      PROVE  ~Contains(turn_queue_[v], c)
  <2> SUFFICES ASSUME NEW i \in 1..Len(turn_queue_[v]), turn_queue_[v][i] = c PROVE FALSE
    BY DEF Contains
  <2>1. turn_queue_position_[c] = i - 1
    BY <1>2, <1>3 DEF QueuesSound
  <2>2. i \in Nat /\ i >= 1
    OBVIOUS
  <2> QED
    BY <1>3, <2>1, <2>2 DEF nullopt
<1>4. ASSUME ~hasty, NEW c \in Clients, turn_queue_position_[c] # nullopt
      PROVE  \E v \in Vms : OnlyPlace(c, v, turn_queue_position_[c])
  <2>1. PICK v \in Vms : Contains(turn_queue_[v], c)
    BY <1>2, <1>4 DEF QueuesSound
  <2>2. PICK i \in 1..Len(turn_queue_[v]) : turn_queue_[v][i] = c
    BY <2>1 DEF Contains
  <2>3. turn_queue_position_[c] = i - 1
    BY <1>2, <1>4, <2>2 DEF QueuesSound
  <2>4. turn_queue_[v] \in Seq(Clients)
    BY <1>1 DEF ClientTurnsTypeOK
  <2>5. ASSUME NEW w \in Vms, NEW j \in 1..Len(turn_queue_[w]), turn_queue_[w][j] = c
        PROVE  w = v /\ j = i
    <3>1. w = v
      BY <1>2, <1>4, <2>1, <2>5 DEF QueuesSound, Contains
    <3>2. turn_queue_position_[c] = j - 1
      BY <1>2, <1>4, <2>5 DEF QueuesSound
    <3> QED
      BY <2>3, <3>1, <3>2
  <2>6. i - 1 < Len(turn_queue_[v]) /\ (i - 1) + 1 = i
    BY <2>4
  <2>7. \A w \in Vms : \A j \in 1..Len(turn_queue_[w]) :
           turn_queue_[w][j] = c <=> w = v /\ j = i
    BY <2>2, <2>5
  <2> QED
    BY <2>3, <2>6, <2>7 DEF OnlyPlace
<1>5. OnePlaceUnlessHasty
  BY <1>2, <1>3, <1>4 DEF OnePlaceUnlessHasty
<1> QED
  BY <1>1, <1>5 DEF ClientTurnsInv

LEMMA ClientTurnsInductive == ClientTurnsSpec => []TurnQueuesInv
  BY ClientTurnsStart, ClientTurnsStep, PTL DEF ClientTurnsSpec

(* For any clients, machines and number of messages: as long as nobody was *)
(* queued where another machine may still remove it, each client has one   *)
(* place over all the queues of src/TurnController.hpp, its one            *)
(* turn_queue_position_ says where, no erase goes past an end, and the     *)
(* first of every queue is timed.                                          *)
THEOREM OnePlaceOverAllMachines == ClientTurnsSpec => []ClientTurnsInv
  BY ClientTurnsInductive, PlacesAreFound, PTL

(* Whoever waits in the queue of a machine is in the channel of it, with   *)
(* the exceptions the property names: the task by which a client leaves is *)
(* one, and is behind all its requests on the strand of the machine.       *)
THEOREM WaitingAreMembers == ClientTurnsSpec => []QueuedAreMembersUnlessRejoined
<1>1. TurnQueuesInv => QueuedAreMembersUnlessRejoined
  BY DEF TurnQueuesInv
<1> QED
  BY <1>1, ClientTurnsInductive, PTL
=============================================================================
