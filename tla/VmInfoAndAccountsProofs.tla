---------------------- MODULE VmInfoAndAccountsProofs -----------------------
(***************************************************************************)
(* Proofs about what the server keeps in lists and in tables, for any      *)
(* values of the constants.  VmInfo: the count of pending requests is      *)
(* never below the answers that are missing, however the callbacks         *)
(* overlap, and it is exact while none do; between updates that nothing    *)
(* overtook both lists show the machines they should.  Accounts: rows and  *)
(* histories agree, an accepted invite makes an account, and an            *)
(* acknowledged password is the one in the table unless it was written     *)
(* between the statements of CreateSession.                                *)
(***************************************************************************)
EXTENDS VmInfo, Accounts, SequenceTheorems, FiniteSetTheorems,
        WellFoundedInduction, TLAPS

-----------------------------------------------------------------------------
(***************************************************************************)
(* VmInfo                                                                  *)
(***************************************************************************)

Entries == Vms \cup {Blank}

(* A list without an entry is a list. *)
LEMMA WithoutIsList ==
    ASSUME NEW list \in Seq(Entries), NEW v
    PROVE  Without(list, v) \in Seq(Entries)
<1>1. CASE ~Contains(list, v)
  BY <1>1 DEF Without
<1>2. CASE Contains(list, v)
  <2> DEFINE i == CHOOSE j \in 1..Len(list) : list[j] = v
  <2>1. i \in 1..Len(list)
    BY <1>2 DEF Contains
  <2> HIDE DEF i
  <2>2. /\ SubSeq(list, 1, i - 1) \in Seq(Entries)
        /\ SubSeq(list, i + 1, Len(list)) \in Seq(Entries)
    BY <2>1, SubSeqProperties
  <2>3. RemoveAt(list, i) \in Seq(Entries)
    BY <2>2, ConcatProperties DEF RemoveAt
  <2> QED
    BY <1>2, <2>3 DEF Without, i
<1> QED
  BY <1>1, <1>2

(* The elements of a finite set in some order are a list. *)
LEMMA SetToSeqIsList ==
    ASSUME NEW S \in SUBSET Vms
    PROVE  /\ SetToSeq(S) \in Seq(Entries)
           /\ Len(SetToSeq(S)) = Cardinality(S)
<1>1. IsFiniteSet(S)
  BY VmInfoConstants, FS_Subset
<1>2. Cardinality(S) \in Nat /\ ExistsBijection(1..Cardinality(S), S)
  BY <1>1, FS_CardinalityType
<1>3. \E f \in [1..Cardinality(S) -> S] : IsInjective(f)
  BY <1>2 DEF ExistsBijection, Bijection, Injection, IsInjective
<1>4. SetToSeq(S) \in [1..Cardinality(S) -> S]
  BY <1>3 DEF SetToSeq
<1>5. SetToSeq(S) \in [1..Cardinality(S) -> Entries]
  BY <1>4 DEF Entries
<1> QED
  BY <1>2, <1>5, SMT

(* A list that is padded to a size is a list. *)
LEMMA PaddedIsList ==
    ASSUME NEW list \in Seq(Entries), NEW size \in Nat
    PROVE  Padded(list, size) \in Seq(Entries)
<1> DEFINE pad == [i \in 1..(size - Len(list)) |-> Blank]
<1>1. pad \in Seq(Entries)
  <2>1. CASE size - Len(list) \in Nat
    BY <2>1 DEF Entries
  <2>2. CASE size - Len(list) \notin Nat
    <3>1. pad = << >>
      BY <2>2
    <3>2. << >> \in Seq(Entries)
      OBVIOUS
    <3> HIDE DEF pad
    <3> QED
      BY <3>1, <3>2
  <2> QED
    BY <2>1, <2>2
<1> HIDE DEF pad
<1>2. list \o pad \in Seq(Entries)
  BY <1>1, ConcatProperties
<1> QED
  BY <1>2 DEF Padded, pad

-----------------------------------------------------------------------------
(* The inductive invariant.  What a callback has copied is as good a bound *)
(* as the count itself, since it will be written back; and while nothing   *)
(* raced, the only callback there is has copied the count as it is.        *)
CallbackType ==
    [vm : Vms, kind : {"bulk", "single"}, active : BOOLEAN, requests : Nat,
     updates : Nat, list : Seq(Entries), admin_list : Seq(Entries)]

CallbacksAreTyped == running \subseteq CallbackType /\ IsFiniteSet(running)

OneForEachMachine == \A r, s \in running : r.vm = s.vm => r = s

CopiesSuffice == \A r \in running : r.kind = "bulk" => r.requests >= Outstanding

CopyIsExactUnlessRaced ==
    ~raced => \A r \in running : running = {r} /\ r.requests = pending_vm_info_requests_

VmInfoInv ==
    /\ RequestsInv
    /\ CallbacksAreTyped
    /\ OneForEachMachine
    /\ CopiesSuffice
    /\ CopyIsExactUnlessRaced

Bulks == {r \in running : r.kind = "bulk"}

(* The number of missing answers is a number. *)
LEMMA OutstandingIsNat ==
    ASSUME bulk \subseteq Vms, IsFiniteSet(running)
    PROVE  /\ IsFiniteSet(bulk) /\ Cardinality(bulk) \in Nat
           /\ IsFiniteSet(Bulks) /\ Cardinality(Bulks) \in Nat
           /\ Outstanding = Cardinality(bulk) + Cardinality(Bulks)
           /\ Outstanding \in Nat
<1>1. IsFiniteSet(bulk)
  BY VmInfoConstants, FS_Subset
<1>2. IsFiniteSet(Bulks)
  BY FS_Subset DEF Bulks
<1>3. Cardinality(bulk) \in Nat /\ Cardinality(Bulks) \in Nat
  BY <1>1, <1>2, FS_CardinalityType
<1> QED
  BY <1>1, <1>2, <1>3 DEF Outstanding, Bulks

(* A callback that begins is of its type. *)
LEMMA CallbackIsTyped ==
    ASSUME TypeOK, NEW v \in Vms, NEW kind \in {"bulk", "single"}
    PROVE  Callback(v, kind) \in CallbackType
  BY DEF TypeOK, Callback, CallbackType, Entries, counters, lists

(* Steps that leave the count and the callbacks alone. *)
LEMMA SameCount ==
    ASSUME VmInfoInv, UNCHANGED <<counters, bulk, running>>,
           raced' \in BOOLEAN, raced' = (raced \/ running # {}) \/ raced' = raced
    PROVE  /\ NoAnswerIsMissed'
           /\ CountIsExactUnlessRaced'
           /\ CallbacksAreTyped'
           /\ OneForEachMachine'
           /\ CopiesSuffice'
           /\ CopyIsExactUnlessRaced'
<1>1. Outstanding' = Outstanding
  BY DEF Outstanding
<1> QED
  BY <1>1 DEF VmInfoInv, RequestsInv, TypeOK, NoAnswerIsMissed, CountIsExactUnlessRaced,
     CallbacksAreTyped, OneForEachMachine, CopiesSuffice, CopyIsExactUnlessRaced, counters

(* A callback that begins. *)
LEMMA BeginSet ==
    ASSUME VmInfoInv, NEW v \in Vms, NEW kind \in {"bulk", "single"},
           SetVmInfo(v, kind)
    PROVE  /\ Callback(v, kind) \in CallbackType
           /\ Callback(v, kind) \notin running
           /\ Callback(v, kind).vm = v /\ Callback(v, kind).kind = kind
           /\ Callback(v, kind).requests = pending_vm_info_requests_
           /\ running' = running \cup {Callback(v, kind)}
           /\ CallbacksAreTyped'
           /\ OneForEachMachine'
           /\ Cardinality(running') <= Threads
<1> DEFINE cb == Callback(v, kind)
<1>1. cb \in CallbackType
  BY CallbackIsTyped DEF VmInfoInv, RequestsInv
<1>2. cb.vm = v /\ cb.kind = kind /\ cb.requests = pending_vm_info_requests_
  BY DEF Callback
<1>3. cb \notin running /\ running' = running \cup {cb}
  BY <1>2 DEF SetVmInfo
<1> HIDE DEF cb
<1>4. IsFiniteSet(running') /\ Cardinality(running') = Cardinality(running) + 1
  BY <1>3, FS_AddElement DEF VmInfoInv, CallbacksAreTyped
<1>5. Cardinality(running) \in Nat
  BY FS_CardinalityType DEF VmInfoInv, CallbacksAreTyped
<1>6. Cardinality(running') <= Threads
  BY <1>4, <1>5, VmInfoConstants DEF SetVmInfo
<1>7. CallbacksAreTyped'
  BY <1>1, <1>3, <1>4 DEF VmInfoInv, CallbacksAreTyped, CallbackType, Entries
<1>8. OneForEachMachine'
  BY <1>2, <1>3 DEF VmInfoInv, OneForEachMachine, SetVmInfo
<1> QED
  BY <1>1, <1>2, <1>3, <1>6, <1>7, <1>8 DEF cb

-----------------------------------------------------------------------------
LEMMA VmInfoInit == Init => VmInfoInv
<1> SUFFICES ASSUME Init
             PROVE  VmInfoInv
  OBVIOUS
<1>1. IsFiniteSet({}) /\ Cardinality({}) = 0
  BY FS_EmptySet
<1>2. {r \in running : r.kind = "bulk"} = {}
  BY DEF Init
<1>3. Outstanding = 0
  BY <1>1, <1>2 DEF Init, Outstanding
<1>4. SetToSeq(admin_virtual_machines_) \in Seq(Entries)
  BY SetToSeqIsList DEF Init
<1>5. << >> \in Seq(Entries)
  OBVIOUS
<1>6. lists \in Seq(Entries) \X Seq(Entries)
  BY <1>4, <1>5 DEF Init, lists
<1>7. TypeOK
  <2>1. {raced, overtaken, crashed} \subseteq BOOLEAN
    BY Zenon DEF Init
  <2>2. single \in [Vms -> 0..MaxUpdates] /\ 0 <= Threads
    BY VmInfoConstants DEF Init
  <2>3. counters \in Nat \X Nat /\ pending_info \in [Vms -> {"none", "stopped", "active"}]
    BY DEF Init, counters
  <2> QED
    BY <1>1, <1>6, <2>1, <2>2, <2>3 DEF Init, TypeOK, Entries
<1> QED
  BY <1>1, <1>3, <1>7 DEF Init, VmInfoInv, RequestsInv, NoAnswerIsMissed,
     CountIsExactUnlessRaced, CallbacksAreTyped, OneForEachMachine, CopiesSuffice,
     CopyIsExactUnlessRaced

(* Starts, stops, notifications, creations and deletions leave the count   *)
(* alone.                                                                  *)
LEMMA ChangeKeepsInv ==
    ASSUME VmInfoInv, NEW v \in Vms,
           \/ Start(v) \/ Stop(v) \/ Notify(v)
           \/ AddAdminVirtualMachine(v) \/ RemoveAdminVirtualMachine(v)
    PROVE  VmInfoInv'
<1> USE DEF VmInfoInv, RequestsInv
<1>1. TypeOK'
  <2>1. CASE Start(v)
    BY <2>1, VmInfoConstants DEF Start, UpdateVmInfo, TypeOK, infoVars, counters, lists
  <2>2. CASE Stop(v)
    BY <2>2 DEF Stop, TypeOK, infoVars, counters, lists
  <2>3. CASE Notify(v)
    BY <2>3, VmInfoConstants DEF Notify, UpdateVmInfo, TypeOK, infoVars, counters, lists
  <2>4. CASE AddAdminVirtualMachine(v)
    <3>1. Append(admin_vm_info_list_, v) \in Seq(Vms \cup {Blank})
      BY AppendProperties DEF TypeOK, lists
    <3> QED
      BY <2>4, <3>1 DEF AddAdminVirtualMachine, UsesTheList, BulkUnderWay, TypeOK, counters, lists
  <2>5. CASE RemoveAdminVirtualMachine(v)
    <3>1. Without(admin_vm_info_list_, v) \in Seq(Vms \cup {Blank})
      BY WithoutIsList DEF TypeOK, lists, Entries
    <3> QED
      BY <2>5, <3>1 DEF RemoveAdminVirtualMachine, UsesTheList, BulkUnderWay, TypeOK,
         infoVars, counters, lists
  <2> QED
    BY <2>1, <2>2, <2>3, <2>4, <2>5
<1>2. /\ UNCHANGED <<counters, bulk, running>>
      /\ raced' = (raced \/ running # {}) \/ raced' = raced
  BY DEF Start, Stop, Notify, AddAdminVirtualMachine, RemoveAdminVirtualMachine,
     UsesTheList, counters
<1>3. raced' \in BOOLEAN
  BY <1>1 DEF TypeOK
<1> QED
  BY <1>1, <1>2, <1>3, SameCount

(* A bulk update starts only when every answer to the last one has come.   *)
LEMMA UpdateKeepsInv ==
    ASSUME VmInfoInv, UpdateVirtualMachineInfoList
    PROVE  VmInfoInv'
<1> USE DEF VmInfoInv, RequestsInv
<1>1. /\ IsFiniteSet(bulk) /\ Cardinality(bulk) \in Nat
      /\ IsFiniteSet(Bulks) /\ Cardinality(Bulks) \in Nat
      /\ Outstanding = Cardinality(bulk) + Cardinality(Bulks)
  BY OutstandingIsNat DEF TypeOK, CallbacksAreTyped
<1>2. Outstanding <= 0
  BY DEF UpdateVirtualMachineInfoList, MayUpdate, NoAnswerIsMissed
<1>3. bulk = {} /\ Bulks = {}
  BY <1>1, <1>2, FS_EmptySet
<1>4. bulk' = admin_virtual_machines_ /\ running' = running
  BY <1>3 DEF UpdateVirtualMachineInfoList
<1>5. IsFiniteSet(admin_virtual_machines_) /\ Cardinality(admin_virtual_machines_) \in Nat
  BY VmInfoConstants, FS_Subset, FS_CardinalityType DEF TypeOK
<1>6. {r \in running' : r.kind = "bulk"} = {}
  BY <1>3, <1>4 DEF Bulks
<1>7. Outstanding' = pending_vm_info_requests_'
  BY <1>4, <1>5, <1>6, FS_EmptySet DEF Outstanding, UpdateVirtualMachineInfoList
<1>8. pending_vm_info_requests_' \in Nat
  BY <1>5 DEF UpdateVirtualMachineInfoList
<1>9. TypeOK'
  BY <1>4, <1>8 DEF UpdateVirtualMachineInfoList, UsesTheList, TypeOK, machineVars,
     infoVars, counters, lists
<1>10. NoAnswerIsMissed' /\ CountIsExactUnlessRaced'
  BY <1>7, <1>8 DEF NoAnswerIsMissed, CountIsExactUnlessRaced
<1>11. CallbacksAreTyped' /\ OneForEachMachine'
  BY <1>4 DEF CallbacksAreTyped, OneForEachMachine, CallbackType, Entries
<1>12. CopiesSuffice'
  BY <1>6 DEF CopiesSuffice
<1>13. CopyIsExactUnlessRaced'
  BY <1>4 DEF CopyIsExactUnlessRaced, UpdateVirtualMachineInfoList, UsesTheList
<1> QED
  BY <1>9, <1>10, <1>11, <1>12, <1>13

(* The begin of a callback: the number of missing answers stays the same.  *)
LEMMA BeginKeepsInv ==
    ASSUME VmInfoInv, NEW v \in Vms, NEW kind \in {"bulk", "single"},
           SetVmInfo(v, kind), TypeOK', UNCHANGED counters, Outstanding' = Outstanding
    PROVE  VmInfoInv'
<1> DEFINE cb == Callback(v, kind)
<1>1. /\ cb.requests = pending_vm_info_requests_
      /\ running' = running \cup {cb}
      /\ CallbacksAreTyped' /\ OneForEachMachine'
  BY BeginSet
<1> HIDE DEF cb
<1>2. NoAnswerIsMissed' /\ pending_vm_info_requests_' = pending_vm_info_requests_
  BY DEF VmInfoInv, RequestsInv, NoAnswerIsMissed, counters
<1>3. CopiesSuffice'
  BY <1>1, <1>2 DEF VmInfoInv, RequestsInv, NoAnswerIsMissed, CopiesSuffice
<1>4. raced' = (raced \/ running # {})
  BY DEF SetVmInfo, UsesTheList
<1>5. CountIsExactUnlessRaced'
  BY <1>2, <1>4 DEF VmInfoInv, RequestsInv, CountIsExactUnlessRaced
<1>6. CopyIsExactUnlessRaced'
  BY <1>1, <1>2, <1>4 DEF CopyIsExactUnlessRaced
<1> QED
  BY <1>1, <1>2, <1>3, <1>5, <1>6 DEF VmInfoInv, RequestsInv

LEMMA BeginBulkKeepsInv ==
    ASSUME VmInfoInv, NEW v \in Vms, BeginBulk(v)
    PROVE  VmInfoInv'
<1> DEFINE cb == Callback(v, "bulk")
<1>1. SetVmInfo(v, "bulk")
  BY DEF BeginBulk
<1>2. /\ cb \notin running /\ cb.kind = "bulk"
      /\ running' = running \cup {cb}
      /\ CallbacksAreTyped'
      /\ Cardinality(running') <= Threads
  BY <1>1, BeginSet
<1> HIDE DEF cb
<1>3. TypeOK'
  BY <1>1, <1>2 DEF VmInfoInv, RequestsInv, BeginBulk, SetVmInfo, UsesTheList, TypeOK,
     machineVars, infoVars, counters, lists
<1>4. /\ IsFiniteSet(bulk) /\ Cardinality(bulk) \in Nat
      /\ IsFiniteSet(Bulks) /\ Cardinality(Bulks) \in Nat
      /\ Outstanding = Cardinality(bulk) + Cardinality(Bulks)
  BY OutstandingIsNat DEF VmInfoInv, RequestsInv, TypeOK, CallbacksAreTyped
<1>5. Cardinality(bulk') = Cardinality(bulk) - 1
  BY <1>4, FS_RemoveElement DEF BeginBulk
<1>6. {r \in running' : r.kind = "bulk"} = Bulks \cup {cb} /\ cb \notin Bulks
  BY <1>2 DEF Bulks
<1>7. Cardinality(Bulks \cup {cb}) = Cardinality(Bulks) + 1
  BY <1>4, <1>6, FS_AddElement
<1>8. Outstanding' = Cardinality(bulk') + Cardinality(Bulks \cup {cb})
  BY <1>6, Zenon DEF Outstanding
<1>9. Outstanding' = Outstanding
  BY <1>4, <1>5, <1>7, <1>8
<1> QED
  BY <1>1, <1>3, <1>9, BeginKeepsInv DEF BeginBulk

LEMMA BeginSingleKeepsInv ==
    ASSUME VmInfoInv, NEW v \in Vms, BeginSingle(v)
    PROVE  VmInfoInv'
<1> DEFINE cb == Callback(v, "single")
<1>1. SetVmInfo(v, "single")
  BY DEF BeginSingle
<1>2. /\ cb.kind = "single"
      /\ running' = running \cup {cb}
      /\ Cardinality(running') <= Threads
  BY <1>1, BeginSet
<1> HIDE DEF cb
<1>3. single' \in [Vms -> 0..MaxUpdates]
  BY VmInfoConstants DEF VmInfoInv, RequestsInv, TypeOK, BeginSingle
<1>4. TypeOK'
  BY <1>1, <1>2, <1>3 DEF VmInfoInv, RequestsInv, BeginSingle, SetVmInfo, UsesTheList, TypeOK,
     machineVars, infoVars, counters, lists
<1>5. {r \in running' : r.kind = "bulk"} = {r \in running : r.kind = "bulk"}
  BY <1>2
<1>6. Outstanding' = Outstanding
  BY <1>5 DEF Outstanding, BeginSingle
<1> QED
  BY <1>1, <1>4, <1>6, BeginKeepsInv DEF BeginSingle

-----------------------------------------------------------------------------
(* A callback that ends is taken from the set. *)
LEMMA EndSet ==
    ASSUME VmInfoInv, NEW r \in running, running' = running \ {r}
    PROVE  /\ r \in CallbackType
           /\ CallbacksAreTyped'
           /\ OneForEachMachine'
           /\ Cardinality(running') <= Threads
           /\ ~raced => running' = {}
<1>1. IsFiniteSet(running') /\ Cardinality(running') = Cardinality(running) - 1
  BY FS_RemoveElement DEF VmInfoInv, CallbacksAreTyped
<1>2. Cardinality(running) \in Nat
  BY FS_CardinalityType DEF VmInfoInv, CallbacksAreTyped
<1>3. Cardinality(running') <= Threads
  BY <1>1, <1>2, VmInfoConstants DEF VmInfoInv, RequestsInv, TypeOK
<1>4. r \in CallbackType /\ CallbacksAreTyped'
  BY <1>1 DEF VmInfoInv, CallbacksAreTyped, CallbackType, Entries
<1>5. OneForEachMachine'
  BY DEF VmInfoInv, OneForEachMachine
<1>6. ~raced => running' = {}
  BY DEF VmInfoInv, CopyIsExactUnlessRaced
<1> QED
  BY <1>3, <1>4, <1>5, <1>6

(* The end of a single update: no answer to a bulk update is missing that  *)
(* was not missing before.                                                 *)
LEMMA EndSingleCount ==
    ASSUME VmInfoInv, NEW r \in running, r.kind = "single",
           running' = running \ {r}, UNCHANGED <<counters, bulk, raced>>, TypeOK'
    PROVE  VmInfoInv'
<1>1. /\ CallbacksAreTyped' /\ OneForEachMachine'
      /\ ~raced => running' = {}
  BY EndSet
<1>2. {s \in running' : s.kind = "bulk"} = {s \in running : s.kind = "bulk"}
  OBVIOUS
<1>3. Outstanding' = Outstanding
  BY <1>2 DEF Outstanding
<1>4. NoAnswerIsMissed' /\ CountIsExactUnlessRaced'
  BY <1>3 DEF VmInfoInv, RequestsInv, NoAnswerIsMissed, CountIsExactUnlessRaced, counters
<1>5. CopiesSuffice'
  BY <1>3 DEF VmInfoInv, CopiesSuffice
<1>6. CopyIsExactUnlessRaced'
  BY <1>1 DEF CopyIsExactUnlessRaced
<1> QED
  BY <1>1, <1>4, <1>5, <1>6 DEF VmInfoInv, RequestsInv

LEMMA EndSingleKeepsInv ==
    ASSUME VmInfoInv, NEW r \in running,
           EndSingleOfDeleted(r) \/ EndSingleInBulk(r) \/ EndSingle(r)
    PROVE  VmInfoInv'
<1> USE DEF VmInfoInv, RequestsInv
<1>1. /\ r.kind = "single" /\ running' = running \ {r}
      /\ UNCHANGED <<counters, bulk, raced>>
  BY DEF EndSingleOfDeleted, EndSingleInBulk, EndSingle
<1>2. r \in CallbackType /\ Cardinality(running') <= Threads
  BY <1>1, EndSet
<1>3. TypeOK'
  <2>1. CASE EndSingleOfDeleted(r)
    BY <1>2, <2>1 DEF EndSingleOfDeleted, TypeOK, machineVars, infoVars, counters, lists
  <2>2. CASE EndSingleInBulk(r)
    <3>1. pending_info' \in [Vms -> {"none", "stopped", "active"}]
      BY <1>2, <2>2 DEF EndSingleInBulk, Answer, TypeOK, CallbackType
    <3> QED
      BY <1>2, <2>2, <3>1 DEF EndSingleInBulk, TypeOK, machineVars, counters, lists
  <2>3. CASE EndSingle(r)
    <3>1. r.list \in Seq(Entries) /\ r.admin_list \in Seq(Entries) /\ r.vm \in Vms
      BY <1>2 DEF CallbackType
    <3>2. Without(r.list, r.vm) \in Seq(Entries) /\ Append(r.list, r.vm) \in Seq(Entries)
      BY <3>1, WithoutIsList, AppendProperties DEF Entries
    <3>3. lists' \in Seq(Entries) \X Seq(Entries)
      BY <2>3, <3>1, <3>2 DEF EndSingle, lists
    <3>4. has_vm_info' \subseteq Vms
      BY <2>3, <3>1 DEF EndSingle, HasVmInfo, TypeOK
    <3>5. crashed' \in BOOLEAN
      BY <2>3 DEF EndSingle
    <3> QED
      BY <1>2, <2>3, <3>3, <3>4, <3>5 DEF EndSingle, TypeOK, Entries, machineVars, counters
  <2> QED
    BY <2>1, <2>2, <2>3
<1> QED
  BY <1>1, <1>3, EndSingleCount

(* The lists that the last callback of a bulk update builds. *)
LEMMA PublishedAreLists ==
    ASSUME TypeOK, NEW pending \in [Vms -> {"none", "stopped", "active"}],
           NEW updates \in Nat, PublishLists(pending, updates)
    PROVE  /\ lists' \in Seq(Entries) \X Seq(Entries)
           /\ pending_info' \in [Vms -> {"none", "stopped", "active"}]
           /\ crashed' \in BOOLEAN
<1> DEFINE answered == {v \in admin_virtual_machines_ : pending[v] # "none"}
           listed == {v \in answered : pending[v] = "active"}
<1>1. answered \in SUBSET Vms /\ listed \in SUBSET Vms
  BY DEF TypeOK
<1>2. /\ admin_vm_info_list_' =
             Padded(SetToSeq(answered), Cardinality(admin_virtual_machines_))
      /\ vm_info_list_' = Padded(SetToSeq(listed), updates)
      /\ crashed' = (Cardinality(listed) > updates)
      /\ pending_info' = [v \in Vms |-> IF v \in answered THEN "none" ELSE pending[v]]
  BY DEF PublishLists
<1> HIDE DEF answered, listed
<1>3. SetToSeq(answered) \in Seq(Entries) /\ SetToSeq(listed) \in Seq(Entries)
  BY <1>1, SetToSeqIsList
<1>4. Cardinality(admin_virtual_machines_) \in Nat
  BY VmInfoConstants, FS_Subset, FS_CardinalityType DEF TypeOK
<1>5. admin_vm_info_list_' \in Seq(Entries) /\ vm_info_list_' \in Seq(Entries)
  BY <1>2, <1>3, <1>4, PaddedIsList
<1> QED
  BY <1>2, <1>5 DEF lists

(* The end of a callback of the bulk update: one answer less is missing,   *)
(* and the count that is written was enough for all of them before.        *)
LEMMA EndBulkKeepsInv ==
    ASSUME VmInfoInv, NEW r \in running, EndBulk(r)
    PROVE  VmInfoInv'
<1> USE DEF VmInfoInv, RequestsInv
<1>1. /\ r.kind = "bulk" /\ running' = running \ {r}
      /\ UNCHANGED <<bulk, raced>>
      /\ pending_vm_info_requests_' = r.requests - 1
  BY DEF EndBulk, RequestsLeft
<1>2. /\ r \in CallbackType /\ Cardinality(running') <= Threads
      /\ CallbacksAreTyped' /\ OneForEachMachine'
      /\ ~raced => running' = {}
  BY <1>1, EndSet
<1>3. r.requests \in Nat /\ r.updates \in Nat /\ r.vm \in Vms /\ r.active \in BOOLEAN
  BY <1>2 DEF CallbackType
<1>4. /\ IsFiniteSet(bulk) /\ Cardinality(bulk) \in Nat
      /\ IsFiniteSet(Bulks) /\ Cardinality(Bulks) \in Nat
      /\ Outstanding = Cardinality(bulk) + Cardinality(Bulks)
  BY OutstandingIsNat DEF TypeOK, CallbacksAreTyped
<1>5. {s \in running' : s.kind = "bulk"} = Bulks \ {r} /\ r \in Bulks
  BY <1>1 DEF Bulks
<1>6. Cardinality(Bulks \ {r}) = Cardinality(Bulks) - 1 /\ Cardinality(Bulks \ {r}) \in Nat
  BY <1>4, <1>5, FS_RemoveElement, FS_CardinalityType
<1>7. Outstanding' = Cardinality(bulk') + Cardinality(Bulks \ {r})
  BY <1>5, Zenon DEF Outstanding
<1>8. Outstanding' = Outstanding - 1 /\ Outstanding' \in Nat /\ Outstanding \in Nat
  BY <1>1, <1>4, <1>6, <1>7
<1>9. r.requests >= Outstanding
  BY <1>1 DEF CopiesSuffice
<1>10. pending_vm_info_requests_' \in Nat /\ NoAnswerIsMissed'
  BY <1>1, <1>3, <1>8, <1>9 DEF NoAnswerIsMissed
<1>11. CountIsExactUnlessRaced'
  BY <1>1, <1>8 DEF CountIsExactUnlessRaced, CopyIsExactUnlessRaced
<1>12. CopiesSuffice'
  <2> SUFFICES ASSUME NEW s \in running', s.kind = "bulk"
               PROVE  s.requests >= Outstanding'
    BY DEF CopiesSuffice
  <2>1. s \in running /\ s.requests >= Outstanding
    BY <1>1 DEF CopiesSuffice
  <2>2. s.requests \in Nat
    BY <2>1 DEF CallbacksAreTyped, CallbackType
  <2> QED
    BY <1>8, <2>1, <2>2
<1>13. CopyIsExactUnlessRaced'
  BY <1>1, <1>2 DEF CopyIsExactUnlessRaced
<1>14. TypeOK'
  <2> DEFINE pending == [pending_info EXCEPT ![r.vm] = Answer(r)]
             updates == IF r.active THEN r.updates + 1 ELSE pending_vm_info_updates_
  <2>1. pending \in [Vms -> {"none", "stopped", "active"}]
    BY <1>3 DEF Answer, TypeOK
  <2>2. updates \in Nat
    BY <1>3 DEF TypeOK, counters
  <2>3. /\ pending_vm_info_updates_' = updates
        /\ IF RequestsLeft(r) = 0 THEN PublishLists(pending, updates)
           ELSE pending_info' = pending /\ UNCHANGED <<lists, crashed>>
    BY DEF EndBulk
  <2> HIDE DEF pending, updates
  <2>4. /\ lists' \in Seq(Entries) \X Seq(Entries)
        /\ pending_info' \in [Vms -> {"none", "stopped", "active"}]
        /\ crashed' \in BOOLEAN
    <3>1. CASE RequestsLeft(r) = 0
      BY <2>1, <2>2, <2>3, <3>1, PublishedAreLists
    <3>2. CASE RequestsLeft(r) # 0
      BY <2>1, <2>3, <3>2 DEF TypeOK, Entries
    <3> QED
      BY <3>1, <3>2
  <2>5. has_vm_info' \subseteq Vms
    BY <1>3 DEF EndBulk, TypeOK
  <2>6. counters' \in Nat \X Nat
    BY <1>10, <2>2, <2>3 DEF counters
  <2>7. UNCHANGED <<machineVars, bulk, single, raced, overtaken>>
    BY DEF EndBulk
  <2> QED
    BY <1>2, <2>4, <2>5, <2>6, <2>7 DEF TypeOK, Entries, machineVars
<1> QED
  BY <1>2, <1>10, <1>11, <1>12, <1>13, <1>14

-----------------------------------------------------------------------------
LEMMA VmInfoNext == VmInfoInv /\ [Next]_vars => VmInfoInv'
<1> SUFFICES ASSUME VmInfoInv, [Next]_vars
             PROVE  VmInfoInv'
  OBVIOUS
<1>1. ASSUME NEW v \in Vms, \/ Start(v) \/ Stop(v) \/ Notify(v)
                            \/ AddAdminVirtualMachine(v) \/ RemoveAdminVirtualMachine(v)
      PROVE  VmInfoInv'
  BY <1>1, ChangeKeepsInv
<1>2. ASSUME NEW v \in Vms, BeginBulk(v) \/ BeginSingle(v)
      PROVE  VmInfoInv'
  BY <1>2, BeginBulkKeepsInv, BeginSingleKeepsInv
<1>3. CASE UpdateVirtualMachineInfoList
  BY <1>3, UpdateKeepsInv
<1>4. ASSUME NEW r \in running, End(r)
      PROVE  VmInfoInv'
  BY <1>4, EndBulkKeepsInv, EndSingleKeepsInv DEF End
<1>5. CASE UNCHANGED vars
  BY <1>5 DEF vars, VmInfoInv, RequestsInv, TypeOK, NoAnswerIsMissed, CountIsExactUnlessRaced,
     Outstanding, CallbacksAreTyped, OneForEachMachine, CopiesSuffice, CopyIsExactUnlessRaced,
     CallbackType, Entries, counters, lists
<1> QED
  BY <1>1, <1>2, <1>3, <1>4, <1>5 DEF Next

(* The inductive invariant. *)
THEOREM VmInfoInvariant == Spec => []VmInfoInv
<1>1. Init => VmInfoInv
  BY VmInfoInit
<1>2. VmInfoInv /\ [Next]_vars => VmInfoInv'
  BY VmInfoNext
<1> QED
  BY <1>1, <1>2, PTL DEF Spec

(* RequestsInv of VmInfo: whatever callbacks overlap on however many       *)
(* threads, and whatever machines are created and deleted meanwhile, no    *)
(* list is built before every machine that was asked has answered, and the *)
(* count of requests is exact as long as no two callbacks overlap.         *)
THEOREM VmInfoRequests == Spec => []RequestsInv
<1>1. VmInfoInv => RequestsInv
  BY DEF VmInfoInv
<1> QED
  BY <1>1, VmInfoInvariant, PTL
-----------------------------------------------------------------------------
(* The lists themselves.  Nowhere and OnlyOnce say where an entry is,      *)
(* which is easier to follow through a change than the number Count.       *)
Nowhere(list, v) == \A i \in 1..Len(list) : list[i] # v
OnlyOnce(list, v) == \E i \in 1..Len(list) : \A j \in 1..Len(list) : list[j] = v <=> j = i

(* The admins' list: each machine of S once, and nothing else. *)
ListsAll(list, S) ==
    /\ IsInjective(list)
    /\ ToSet(list) = S
    /\ Len(list) = Cardinality(S)

(* The clients' list: of the machines S those of T once, and no blanks. *)
ListsSome(list, S, T) ==
    /\ Nowhere(list, Blank)
    /\ \A v \in S : IF v \in T THEN OnlyOnce(list, v) ELSE Nowhere(list, v)

LEMMA CountsOf ==
    ASSUME NEW list \in Seq(Entries), NEW v
    PROVE  /\ Count(list, v) = 0 <=> Nowhere(list, v)
           /\ OnlyOnce(list, v) => Count(list, v) = 1
<1> DEFINE places == {i \in DOMAIN list : list[i] = v}
<1>1. DOMAIN list = 1..Len(list) /\ Len(list) \in Nat
  BY LenProperties
<1>2. IsFiniteSet(places)
  <2>1. IsFiniteSet(1..Len(list)) /\ places \in SUBSET (1..Len(list))
    BY <1>1, FS_Interval
  <2> QED
    BY <2>1, FS_Subset
<1>3. Cardinality(places) = 0 <=> places = {}
  BY <1>2, FS_EmptySet
<1>4. places = {} <=> Nowhere(list, v)
  BY <1>1 DEF Nowhere
<1>5. ASSUME OnlyOnce(list, v) PROVE Cardinality(places) = 1
  <2>1. PICK i \in 1..Len(list) : \A j \in 1..Len(list) : list[j] = v <=> j = i
    BY <1>5 DEF OnlyOnce
  <2>2. places = {i}
    BY <1>1, <2>1
  <2> QED
    BY <2>2, FS_Singleton
<1>6. Count(list, v) = Cardinality(places)
  BY DEF Count
<1> QED
  BY <1>3, <1>4, <1>5, <1>6

(* A machine is added at the end. *)
LEMMA AppendedList ==
    ASSUME NEW list \in Seq(Entries), NEW v \in Entries
    PROVE  /\ Append(list, v) \in Seq(Entries)
           /\ Len(Append(list, v)) = Len(list) + 1
           /\ Len(list) \in Nat
           /\ \A i \in 1..Len(list) : Append(list, v)[i] = list[i]
           /\ Append(list, v)[Len(list) + 1] = v
  BY AppendProperties, LenProperties

LEMMA AppendListsAll ==
    ASSUME NEW list \in Seq(Entries), NEW S \in SUBSET Vms, ListsAll(list, S),
           NEW v \in Vms, v \notin S
    PROVE  ListsAll(Append(list, v), S \cup {v})
<1> DEFINE new == Append(list, v)
           n == Len(list)
<1>1. /\ new \in Seq(Entries) /\ Len(new) = n + 1 /\ n \in Nat
      /\ \A i \in 1..n : new[i] = list[i]
      /\ new[n + 1] = v
  BY AppendedList DEF Entries
<1>2. DOMAIN new = 1..(n + 1) /\ DOMAIN list = 1..n
  BY <1>1
<1>3. \A i \in 1..n : list[i] \in S
  BY <1>2 DEF ListsAll, ToSet
<1> HIDE DEF new
<1>4. ASSUME NEW i \in 1..(n + 1), NEW j \in 1..(n + 1), new[i] = new[j] PROVE i = j
  <2>1. CASE i \in 1..n /\ j \in 1..n
    BY <1>1, <1>2, <1>4, <2>1 DEF ListsAll, IsInjective
  <2>2. CASE ~(i \in 1..n /\ j \in 1..n)
    BY <1>1, <1>3, <1>4, <2>2
  <2> QED
    BY <2>1, <2>2
<1>5. IsInjective(new)
  BY <1>2, <1>4 DEF IsInjective
<1>6. ToSet(new) = S \cup {v}
  <2>1. ASSUME NEW i \in 1..(n + 1) PROVE new[i] \in S \cup {v}
    BY <1>1, <1>3
  <2>2. ASSUME NEW x \in S PROVE \E i \in 1..(n + 1) : new[i] = x
    <3>1. PICK i \in 1..n : list[i] = x
      BY <1>2 DEF ListsAll, ToSet
    <3> QED
      BY <1>1, <3>1
  <2>3. n + 1 \in 1..(n + 1)
    BY <1>1
  <2> QED
    BY <1>1, <1>2, <2>1, <2>2, <2>3 DEF ToSet
<1>7. IsFiniteSet(S)
  BY VmInfoConstants, FS_Subset
<1>8. Cardinality(S \cup {v}) = Cardinality(S) + 1
  BY <1>7, FS_AddElement
<1> QED
  BY <1>1, <1>5, <1>6, <1>8 DEF ListsAll, new

LEMMA AppendListsSome ==
    ASSUME NEW list \in Seq(Entries), NEW S \in SUBSET Vms, NEW T, ListsSome(list, S, T),
           NEW v \in S, v \notin T
    PROVE  ListsSome(Append(list, v), S, T \cup {v})
<1> DEFINE new == Append(list, v)
           n == Len(list)
<1>1. /\ Len(new) = n + 1 /\ n \in Nat
      /\ \A i \in 1..n : new[i] = list[i]
      /\ new[n + 1] = v
  BY AppendedList DEF Entries
<1> HIDE DEF new
<1>2. v # Blank /\ Nowhere(list, v)
  BY VmInfoConstants DEF ListsSome
<1>3. \A i \in 1..(n + 1) : i \in 1..n \/ i = n + 1
  BY <1>1
<1>4. 1..n \subseteq 1..(n + 1) /\ n + 1 \in 1..(n + 1) /\ n + 1 \notin 1..n
  BY <1>1
<1>5. Nowhere(new, Blank)
  BY <1>1, <1>2, <1>3 DEF ListsSome, Nowhere
<1>6. OnlyOnce(new, v)
  BY <1>1, <1>2, <1>3, <1>4 DEF OnlyOnce, Nowhere
<1>7. ASSUME NEW w \in S, w # v, w \in T PROVE OnlyOnce(new, w)
  <2>1. PICK i \in 1..n : \A j \in 1..n : list[j] = w <=> j = i
    BY <1>7 DEF ListsSome, OnlyOnce
  <2>2. \A j \in 1..(n + 1) : new[j] = w <=> j = i
    BY <1>1, <1>3, <1>4, <1>7, <2>1
  <2> QED
    BY <1>1, <1>4, <2>2 DEF OnlyOnce
<1>8. ASSUME NEW w \in S, w # v, w \notin T PROVE Nowhere(new, w)
  BY <1>1, <1>3, <1>8 DEF ListsSome, Nowhere
<1> QED
  BY <1>5, <1>6, <1>7, <1>8 DEF ListsSome, new

(* A machine that is there once is taken out. *)
LEMMA ListWithout ==
    ASSUME NEW list \in Seq(Entries), NEW v, NEW k \in 1..Len(list),
           \A j \in 1..Len(list) : list[j] = v <=> j = k
    PROVE  /\ Len(list) \in Nat
           /\ Len(Without(list, v)) = Len(list) - 1
           /\ Without(list, v) \in Seq(Entries)
           /\ \A i \in 1..(Len(list) - 1) :
                  Without(list, v)[i] = IF i < k THEN list[i] ELSE list[i + 1]
<1> DEFINE n == Len(list)
           front == SubSeq(list, 1, k - 1)
           back == SubSeq(list, k + 1, n)
<1>1. n \in Nat /\ Contains(list, v)
  BY LenProperties DEF Contains
<1>2. (CHOOSE i \in 1..Len(list) : list[i] = v) = k
  OBVIOUS
<1>3. Without(list, v) = front \o back
  BY <1>1, <1>2 DEF Without, RemoveAt
<1>4. /\ front \in Seq(Entries) /\ Len(front) = k - 1
      /\ \A i \in 1..(k - 1) : front[i] = list[i]
  BY <1>1, SubSeqProperties
<1>5. /\ back \in Seq(Entries) /\ Len(back) = n - k
      /\ \A i \in 1..(n - k) : back[i] = list[i + k]
  BY <1>1, SubSeqProperties
<1> HIDE DEF front, back
<1>6. /\ front \o back \in Seq(Entries)
      /\ Len(front \o back) = n - 1
      /\ \A i \in 1..(n - 1) :
             (front \o back)[i] = IF i <= k - 1 THEN front[i] ELSE back[i - (k - 1)]
  <2>1. /\ front \o back \in Seq(Entries)
        /\ Len(front \o back) = Len(front) + Len(back)
        /\ \A i \in 1..(Len(front) + Len(back)) :
               (front \o back)[i] = IF i <= Len(front) THEN front[i] ELSE back[i - Len(front)]
    BY <1>4, <1>5, ConcatProperties
  <2>2. Len(front) = k - 1 /\ Len(front) + Len(back) = n - 1
    BY <1>1, <1>4, <1>5
  <2> QED
    BY <2>1, <2>2
<1>7. ASSUME NEW i \in 1..(n - 1)
      PROVE  (front \o back)[i] = IF i < k THEN list[i] ELSE list[i + 1]
  <2>1. CASE i < k
    BY <1>1, <1>4, <1>6, <2>1
  <2>2. CASE ~(i < k)
    <3>1. i - (k - 1) \in 1..(n - k) /\ (i - (k - 1)) + k = i + 1
      BY <1>1, <2>2
    <3> QED
      BY <1>1, <1>5, <1>6, <2>2, <3>1
  <2> QED
    BY <2>1, <2>2
<1> QED
  BY <1>1, <1>3, <1>6, <1>7

LEMMA WithoutListsAll ==
    ASSUME NEW list \in Seq(Entries), NEW S \in SUBSET Vms, ListsAll(list, S), NEW v \in S
    PROVE  ListsAll(Without(list, v), S \ {v})
<1> DEFINE new == Without(list, v)
           n == Len(list)
<1>1. DOMAIN list = 1..n /\ n \in Nat
  BY LenProperties
<1>2. PICK k \in 1..n : list[k] = v
  BY <1>1 DEF ListsAll, ToSet
<1>3. \A j \in 1..n : list[j] = v <=> j = k
  BY <1>1, <1>2 DEF ListsAll, IsInjective
<1>4. /\ Len(new) = n - 1 /\ new \in Seq(Entries)
      /\ \A i \in 1..(n - 1) : new[i] = IF i < k THEN list[i] ELSE list[i + 1]
  BY <1>3, ListWithout
<1>5. DOMAIN new = 1..(n - 1)
  BY <1>1, <1>4
<1> HIDE DEF new
<1>6. \A i \in 1..n, j \in 1..n : list[i] = list[j] => i = j
  BY <1>1 DEF ListsAll, IsInjective
<1>7. ASSUME NEW i \in 1..(n - 1), NEW j \in 1..(n - 1), new[i] = new[j] PROVE i = j
  <2> DEFINE a == IF i < k THEN i ELSE i + 1
             b == IF j < k THEN j ELSE j + 1
  <2>1. a \in 1..n /\ b \in 1..n
    BY <1>1
  <2>2. list[a] = new[i] /\ list[b] = new[j]
    BY <1>4
  <2>3. a = b
    BY <1>6, <1>7, <2>1, <2>2
  <2> QED
    BY <1>1, <2>3
<1>8. IsInjective(new)
  BY <1>5, <1>7 DEF IsInjective
<1>9. ToSet(new) = S \ {v}
  <2>1. ASSUME NEW i \in 1..(n - 1) PROVE new[i] \in S \ {v}
    <3> DEFINE a == IF i < k THEN i ELSE i + 1
    <3>1. a \in 1..n /\ a # k
      BY <1>1
    <3>2. new[i] = list[a]
      BY <1>4
    <3> QED
      BY <1>1, <1>3, <3>1, <3>2 DEF ListsAll, ToSet
  <2>2. ASSUME NEW x \in S \ {v} PROVE \E i \in 1..(n - 1) : new[i] = x
    <3>1. PICK a \in 1..n : list[a] = x
      BY <1>1 DEF ListsAll, ToSet
    <3>2. a # k
      BY <1>2, <3>1
    <3>3. CASE a < k
      <4>1. a \in 1..(n - 1)
        BY <1>1, <3>3
      <4> QED
        BY <1>4, <3>1, <3>3, <4>1
    <3>4. CASE a > k
      <4>1. a - 1 \in 1..(n - 1) /\ ~(a - 1 < k) /\ (a - 1) + 1 = a
        BY <1>1, <3>4
      <4> QED
        BY <1>4, <3>1, <4>1
    <3> QED
      BY <3>2, <3>3, <3>4
  <2> QED
    BY <1>5, <2>1, <2>2 DEF ToSet
<1>10. IsFiniteSet(S)
  BY VmInfoConstants, FS_Subset
<1>11. Cardinality(S \ {v}) = Cardinality(S) - 1
  BY <1>10, FS_RemoveElement
<1> QED
  BY <1>4, <1>8, <1>9, <1>11 DEF ListsAll, new

LEMMA WithoutListsSome ==
    ASSUME NEW list \in Seq(Entries), NEW S \in SUBSET Vms, NEW T, ListsSome(list, S, T),
           NEW v \in S, v \in T
    PROVE  ListsSome(Without(list, v), S, T \ {v})
<1> DEFINE new == Without(list, v)
           n == Len(list)
<1>1. n \in Nat
  BY LenProperties
<1>2. PICK k \in 1..n : \A j \in 1..n : list[j] = v <=> j = k
  BY DEF ListsSome, OnlyOnce
<1>3. /\ Len(new) = n - 1
      /\ \A i \in 1..(n - 1) : new[i] = IF i < k THEN list[i] ELSE list[i + 1]
  BY <1>2, ListWithout
<1> HIDE DEF new
<1>4. ASSUME NEW i \in 1..(n - 1)
      PROVE  \E a \in 1..n : a # k /\ new[i] = list[a] /\ a = IF i < k THEN i ELSE i + 1
  <2>1. CASE i < k
    BY <1>1, <1>3, <2>1
  <2>2. CASE ~(i < k)
    <3>1. i + 1 \in 1..n /\ i + 1 # k
      BY <1>1, <2>2
    <3> QED
      BY <1>3, <2>2, <3>1
  <2> QED
    BY <2>1, <2>2
<1>5. ASSUME NEW w, Nowhere(list, w) PROVE Nowhere(new, w)
  BY <1>3, <1>4, <1>5 DEF Nowhere
<1>6. Nowhere(new, v)
  BY <1>2, <1>3, <1>4 DEF Nowhere
<1>7. ASSUME NEW w \in S, w # v, w \in T PROVE OnlyOnce(new, w)
  <2>1. PICK a \in 1..n : \A j \in 1..n : list[j] = w <=> j = a
    BY <1>7 DEF ListsSome, OnlyOnce
  <2>2. a # k
    BY <1>2, <1>7, <2>1
  <2>3. PICK i \in 1..(n - 1) : a = IF i < k THEN i ELSE i + 1
    <3>1. CASE a < k
      <4>1. a \in 1..(n - 1)
        BY <1>1, <3>1
      <4> QED
        BY <3>1, <4>1
    <3>2. CASE a > k
      <4>1. a - 1 \in 1..(n - 1) /\ ~(a - 1 < k) /\ a = (a - 1) + 1
        BY <1>1, <3>2
      <4> QED
        BY <4>1
    <3> QED
      BY <2>2, <3>1, <3>2
  <2>4. ASSUME NEW j \in 1..(n - 1) PROVE new[j] = w <=> j = i
    <3>1. PICK b \in 1..n : new[j] = list[b] /\ b = IF j < k THEN j ELSE j + 1
      BY <1>4
    <3>2. new[j] = w <=> b = a
      BY <2>1, <3>1
    <3>3. b = a <=> j = i
      BY <1>1, <2>3, <3>1
    <3> QED
      BY <3>2, <3>3
  <2> QED
    BY <1>3, <2>4 DEF OnlyOnce
<1> QED
  BY <1>5, <1>6, <1>7 DEF ListsSome, new

(* The lists of a bulk update that are as long as they should be. *)
LEMMA PaddedToLength ==
    ASSUME NEW list \in Seq(Entries), NEW size, size = Len(list)
    PROVE  Padded(list, size) = list
<1>1. [i \in 1..(size - Len(list)) |-> Blank] = << >>
  <2>1. Len(list) \in Nat
    BY LenProperties
  <2>2. 1..(size - Len(list)) = {}
    BY <2>1
  <2> QED
    BY <2>2
<1>2. list \o << >> = list
  BY ConcatEmptySeq
<1> QED
  BY <1>1, <1>2 DEF Padded

LEMMA SetToSeqListsAll ==
    ASSUME NEW S \in SUBSET Vms
    PROVE  ListsAll(SetToSeq(S), S)
<1> DEFINE n == Cardinality(S)
           f == SetToSeq(S)
<1>1. IsFiniteSet(S)
  BY VmInfoConstants, FS_Subset
<1>2. n \in Nat /\ ExistsBijection(1..n, S)
  BY <1>1, FS_CardinalityType
<1>3. \E g \in [1..n -> S] : IsInjective(g)
  BY <1>2 DEF ExistsBijection, Bijection, Injection, IsInjective
<1>4. f \in [1..n -> S] /\ IsInjective(f)
  BY <1>3 DEF SetToSeq
<1> HIDE DEF f
<1>5. f \in Injection(1..n, S)
  BY <1>4 DEF Injection, IsInjective
<1>6. Cardinality(1..n) = n
  BY <1>2, FS_Interval
<1>7. f \in Surjection(1..n, S)
  BY <1>1, <1>5, <1>6, FS_Injection
<1>8. ToSet(f) = S
  BY <1>4, <1>7 DEF Surjection, ToSet
<1>9. Len(f) = n
  BY SetToSeqIsList DEF f
<1> QED
  BY <1>4, <1>8, <1>9 DEF ListsAll, f

LEMMA SetToSeqListsSome ==
    ASSUME NEW S \in SUBSET Vms, NEW L \in SUBSET S, NEW T, \A v \in S : v \in T <=> v \in L
    PROVE  ListsSome(SetToSeq(L), S, T)
<1> DEFINE f == SetToSeq(L)
<1>1. L \in SUBSET Vms
  OBVIOUS
<1>2. ListsAll(f, L) /\ f \in Seq(Entries)
  BY <1>1, SetToSeqListsAll, SetToSeqIsList
<1> HIDE DEF f
<1>3. DOMAIN f = 1..Len(f)
  BY <1>2
<1>4. ASSUME NEW w, w \notin L PROVE Nowhere(f, w)
  BY <1>2, <1>3, <1>4 DEF ListsAll, ToSet, Nowhere
<1>5. ASSUME NEW w \in L PROVE OnlyOnce(f, w)
  <2>1. PICK i \in 1..Len(f) : f[i] = w
    BY <1>2, <1>3 DEF ListsAll, ToSet
  <2>2. \A j \in 1..Len(f) : f[j] = w <=> j = i
    BY <1>2, <1>3, <2>1 DEF ListsAll, IsInjective
  <2> QED
    BY <2>2 DEF OnlyOnce
<1> QED
  BY <1>4, <1>5, VmInfoConstants DEF ListsSome, f
-----------------------------------------------------------------------------
(* The machine owes an answer to the bulk update. *)
Asked(v) == v \in bulk \/ \E r \in running : r.kind = "bulk" /\ r.vm = v

(* While nothing raced a callback has copied what is still there, and a    *)
(* machine is asked once.                                                  *)
CopiesAreCurrent ==
    ~raced => \A r \in running :
        /\ r.updates = pending_vm_info_updates_
        /\ r.list = vm_info_list_
        /\ r.admin_list = admin_vm_info_list_

AskedOnce == ~raced => \A r \in running : r.kind = "bulk" => r.vm \notin bulk

(* Publishing takes every answer with it. *)
NoAnswersLeft ==
    ~raced /\ ~BulkUnderWay => \A v \in admin_virtual_machines_ : pending_info[v] = "none"

(* During a bulk update that nothing overtook, the machines that have      *)
(* answered are those that were asked and owe no answer, those with an     *)
(* entry for clients are counted, and has_vm_info says which they are.     *)
Active(S, pending) == {v \in S : pending[v] = "active"}

AnswersMatch ==
    ~raced /\ ~overtaken /\ BulkUnderWay =>
        /\ \A v \in Vms : Asked(v) => v \in admin_virtual_machines_
        /\ \A v \in admin_virtual_machines_ :
               /\ pending_info[v] = "none" <=> Asked(v)
               /\ pending_info[v] # "none" => (v \in has_vm_info <=> pending_info[v] = "active")
        /\ pending_vm_info_updates_ = Cardinality(Active(admin_virtual_machines_, pending_info))

ListsMatch ==
    ~raced /\ ~overtaken /\ ~crashed /\ ~BulkUnderWay =>
        /\ ListsAll(admin_vm_info_list_, admin_virtual_machines_)
        /\ ListsSome(vm_info_list_, admin_virtual_machines_, has_vm_info)

ListsInv == CopiesAreCurrent /\ AskedOnce /\ NoAnswersLeft /\ AnswersMatch /\ ListsMatch

LEMMA ListsInit == Init => ListsInv
<1> SUFFICES ASSUME Init
             PROVE  ListsInv
  OBVIOUS
<1>1. CopiesAreCurrent /\ AskedOnce /\ NoAnswersLeft /\ AnswersMatch
  BY DEF Init, CopiesAreCurrent, AskedOnce, NoAnswersLeft, AnswersMatch, BulkUnderWay
<1>2. ListsAll(admin_vm_info_list_, admin_virtual_machines_)
  BY SetToSeqListsAll DEF Init
<1>3. ListsSome(vm_info_list_, admin_virtual_machines_, has_vm_info)
  BY DEF Init, ListsSome, Nowhere
<1> QED
  BY <1>1, <1>2, <1>3 DEF ListsInv, ListsMatch

(* Starts, stops and notifications leave the lists alone. *)
LEMMA ListsAlone ==
    ASSUME ListsInv,
           UNCHANGED <<admin_virtual_machines_, has_vm_info, pending_info,
                       pending_vm_info_requests_, pending_vm_info_updates_, vm_info_list_,
                       admin_vm_info_list_, bulk, running, raced, overtaken, crashed>>
    PROVE  ListsInv'
<1>1. CopiesAreCurrent' /\ AskedOnce' /\ NoAnswersLeft'
  BY DEF ListsInv, CopiesAreCurrent, AskedOnce, NoAnswersLeft, BulkUnderWay
<1>2. AnswersMatch'
  BY DEF ListsInv, AnswersMatch, Asked, BulkUnderWay
<1>3. ListsMatch'
  BY DEF ListsInv, ListsMatch, BulkUnderWay
<1> QED
  BY <1>1, <1>2, <1>3 DEF ListsInv

LEMMA AddKeepsLists ==
    ASSUME VmInfoInv, ListsInv, NEW v \in Vms, AddAdminVirtualMachine(v)
    PROVE  ListsInv'
<1> DEFINE S == admin_virtual_machines_
<1>1. /\ UNCHANGED <<pending_vm_info_requests_, pending_vm_info_updates_, vm_info_list_,
                     bulk, running, crashed>>
      /\ S' = S \cup {v} /\ v \notin S
      /\ has_vm_info' = has_vm_info \ {v}
      /\ pending_info' = [pending_info EXCEPT ![v] = "none"]
      /\ admin_vm_info_list_' = Append(admin_vm_info_list_, v)
      /\ ~raced' => ~raced /\ running = {}
      /\ ~overtaken' => ~overtaken /\ ~BulkUnderWay /\ Count(vm_info_list_, v) = 0
  BY DEF AddAdminVirtualMachine, UsesTheList, counters
<1>2. /\ S \in SUBSET Vms /\ vm_info_list_ \in Seq(Entries) /\ admin_vm_info_list_ \in Seq(Entries)
      /\ pending_info \in [Vms -> {"none", "stopped", "active"}]
  BY DEF VmInfoInv, RequestsInv, TypeOK, lists, Entries
<1>3. BulkUnderWay' <=> BulkUnderWay
  BY <1>1 DEF BulkUnderWay
<1>4. CopiesAreCurrent' /\ AskedOnce'
  BY <1>1 DEF CopiesAreCurrent, AskedOnce
<1>5. NoAnswersLeft'
  BY <1>1, <1>2, <1>3 DEF ListsInv, NoAnswersLeft
<1>6. AnswersMatch'
  BY <1>1, <1>3 DEF AnswersMatch
<1>7. ASSUME ~raced', ~overtaken', ~crashed'
      PROVE  /\ ListsAll(admin_vm_info_list_', S')
             /\ ListsSome(vm_info_list_', S', has_vm_info')
  <2>1. ListsAll(admin_vm_info_list_, S) /\ ListsSome(vm_info_list_, S, has_vm_info)
    BY <1>1, <1>7 DEF ListsInv, ListsMatch
  <2>2. ListsAll(Append(admin_vm_info_list_, v), S \cup {v})
    BY <1>1, <1>2, <2>1, AppendListsAll
  <2>3. Nowhere(vm_info_list_, v)
    BY <1>1, <1>2, <1>7, CountsOf
  <2>4. ListsSome(vm_info_list_, S \cup {v}, has_vm_info \ {v})
    BY <1>1, <2>1, <2>3 DEF ListsSome
  <2> QED
    BY <1>1, <2>2, <2>4
<1>8. ListsMatch'
  BY <1>7 DEF ListsMatch
<1> QED
  BY <1>4, <1>5, <1>6, <1>8 DEF ListsInv

LEMMA RemoveKeepsLists ==
    ASSUME VmInfoInv, ListsInv, NEW v \in Vms, RemoveAdminVirtualMachine(v)
    PROVE  ListsInv'
<1> DEFINE S == admin_virtual_machines_
<1>1. /\ UNCHANGED <<has_vm_info, pending_info, pending_vm_info_requests_,
                     pending_vm_info_updates_, vm_info_list_, bulk, running>>
      /\ S' = S \ {v} /\ v \in S /\ ~crashed
      /\ admin_vm_info_list_' = Without(admin_vm_info_list_, v)
      /\ ~raced' => ~raced /\ running = {}
      /\ ~overtaken' => ~overtaken /\ ~BulkUnderWay
  BY DEF RemoveAdminVirtualMachine, Change, UsesTheList, counters, infoVars
<1>2. S \in SUBSET Vms /\ admin_vm_info_list_ \in Seq(Entries)
  BY DEF VmInfoInv, RequestsInv, TypeOK, lists, Entries
<1>3. BulkUnderWay' <=> BulkUnderWay
  BY <1>1 DEF BulkUnderWay
<1>4. CopiesAreCurrent' /\ AskedOnce'
  BY <1>1 DEF CopiesAreCurrent, AskedOnce
<1>5. NoAnswersLeft'
  BY <1>1, <1>3 DEF ListsInv, NoAnswersLeft
<1>6. AnswersMatch'
  BY <1>1, <1>3 DEF AnswersMatch
<1>7. ASSUME ~raced', ~overtaken'
      PROVE  /\ ListsAll(admin_vm_info_list_', S')
             /\ ListsSome(vm_info_list_', S', has_vm_info')
  <2>1. ListsAll(admin_vm_info_list_, S) /\ ListsSome(vm_info_list_, S, has_vm_info)
    BY <1>1, <1>7 DEF ListsInv, ListsMatch
  <2>2. ListsAll(Without(admin_vm_info_list_, v), S \ {v})
    BY <1>1, <1>2, <2>1, WithoutListsAll
  <2>3. ListsSome(vm_info_list_, S \ {v}, has_vm_info)
    BY <2>1 DEF ListsSome
  <2> QED
    BY <1>1, <2>2, <2>3
<1>8. ListsMatch'
  BY <1>7 DEF ListsMatch
<1> QED
  BY <1>4, <1>5, <1>6, <1>8 DEF ListsInv

(* While nothing raced, no update is pending exactly if no answer is owed. *)
LEMMA NobodyAsked ==
    ASSUME VmInfoInv, ~BulkUnderWay
    PROVE  bulk = {} /\ \A r \in running : r.kind # "bulk"
<1>1. /\ IsFiniteSet(bulk) /\ Cardinality(bulk) \in Nat
      /\ IsFiniteSet(Bulks) /\ Cardinality(Bulks) \in Nat
      /\ Outstanding = Cardinality(bulk) + Cardinality(Bulks)
  BY OutstandingIsNat DEF VmInfoInv, RequestsInv, TypeOK, CallbacksAreTyped
<1>2. Outstanding <= 0
  BY DEF VmInfoInv, RequestsInv, NoAnswerIsMissed, BulkUnderWay
<1>3. bulk = {} /\ Bulks = {}
  BY <1>1, <1>2, FS_EmptySet
<1> QED
  BY <1>3 DEF Bulks

(* A bulk update begins with no answers and no entries counted. *)
LEMMA UpdateKeepsLists ==
    ASSUME VmInfoInv, ListsInv, UpdateVirtualMachineInfoList
    PROVE  ListsInv'
<1> DEFINE S == admin_virtual_machines_
<1>1. /\ UNCHANGED <<admin_virtual_machines_, has_vm_info, pending_info, vm_info_list_,
                     admin_vm_info_list_, running, crashed>>
      /\ ~BulkUnderWay
      /\ pending_vm_info_requests_' = Cardinality(S) /\ pending_vm_info_updates_' = 0
      /\ bulk' = bulk \cup S
      /\ ~raced' => ~raced /\ running = {}
      /\ overtaken' = (overtaken /\ S = {})
  BY DEF UpdateVirtualMachineInfoList, MayUpdate, BulkUnderWay, UsesTheList, machineVars,
     infoVars, lists
<1>2. IsFiniteSet(S)
  BY VmInfoConstants, FS_Subset DEF VmInfoInv, RequestsInv, TypeOK
<1>3. bulk' = S
  BY <1>1, NobodyAsked
<1>4. BulkUnderWay' <=> S # {}
  BY <1>1, <1>2, FS_EmptySet DEF BulkUnderWay
<1>5. ~raced' => \A v \in S : pending_info[v] = "none"
  BY <1>1 DEF ListsInv, NoAnswersLeft
<1>6. CopiesAreCurrent' /\ AskedOnce' /\ NoAnswersLeft'
  BY <1>1, <1>5 DEF CopiesAreCurrent, AskedOnce, NoAnswersLeft
<1>7. AnswersMatch'
  <2> SUFFICES ASSUME ~raced'
               PROVE  /\ \A v \in Vms : Asked(v)' => v \in S
                      /\ \A v \in S : pending_info[v] = "none" /\ Asked(v)'
                      /\ 0 = Cardinality(Active(S, pending_info))
    BY <1>1 DEF AnswersMatch
  <2>1. \A v \in Vms : Asked(v)' <=> v \in S
    BY <1>1, <1>3 DEF Asked
  <2>2. Active(S, pending_info) = {}
    BY <1>5 DEF Active
  <2>3. S \in SUBSET Vms
    BY DEF VmInfoInv, RequestsInv, TypeOK
  <2> QED
    BY <1>5, <2>1, <2>2, <2>3, FS_EmptySet
<1>8. ListsMatch'
  BY <1>1, <1>4 DEF ListsInv, ListsMatch
<1> QED
  BY <1>6, <1>7, <1>8 DEF ListsInv

(* A callback begins: it copies what is there. *)
LEMMA BeginKeepsLists ==
    ASSUME VmInfoInv, ListsInv, NEW v \in Vms, BeginBulk(v) \/ BeginSingle(v)
    PROVE  ListsInv'
<1>0. PICK kind \in {"bulk", "single"} :
        /\ SetVmInfo(v, kind)
        /\ kind = "bulk" => v \in bulk /\ bulk' = bulk \ {v}
        /\ kind = "single" => bulk' = bulk
  BY DEF BeginBulk, BeginSingle
<1>1. PICK cb : cb = Callback(v, kind)
  OBVIOUS
<1>2. /\ cb.vm = v /\ cb.kind = kind
      /\ cb.updates = pending_vm_info_updates_
      /\ cb.list = vm_info_list_ /\ cb.admin_list = admin_vm_info_list_
  BY <1>1 DEF Callback
<1>3. /\ running' = running \cup {cb}
      /\ ~raced' => ~raced /\ running = {}
  BY <1>0, <1>1 DEF SetVmInfo, UsesTheList
<1>4. UNCHANGED <<admin_virtual_machines_, has_vm_info, pending_info,
                  pending_vm_info_requests_, pending_vm_info_updates_, vm_info_list_,
                  admin_vm_info_list_, overtaken, crashed>>
  BY DEF BeginBulk, BeginSingle, machineVars, infoVars, counters, lists
<1>5. CopiesAreCurrent'
  BY <1>2, <1>3, <1>4 DEF CopiesAreCurrent
<1>6. AskedOnce'
  BY <1>0, <1>2, <1>3 DEF AskedOnce
<1>7. NoAnswersLeft' /\ ListsMatch'
  BY <1>3, <1>4 DEF ListsInv, NoAnswersLeft, ListsMatch, BulkUnderWay
<1>8. \A w \in Vms : Asked(w)' <=> Asked(w)
  BY <1>0, <1>2, <1>3 DEF Asked
<1>9. admin_virtual_machines_ \subseteq Vms
  BY DEF VmInfoInv, RequestsInv, TypeOK
<1>10. AnswersMatch'
  BY <1>3, <1>4, <1>8, <1>9 DEF ListsInv, AnswersMatch, BulkUnderWay
<1> QED
  BY <1>5, <1>6, <1>7, <1>10 DEF ListsInv

(* What is known of a callback that ends while nothing raced. *)
LEMMA EndingCallback ==
    ASSUME VmInfoInv, ListsInv, NEW r \in running, ~raced
    PROVE  /\ r \in CallbackType
           /\ running = {r}
           /\ r.requests = pending_vm_info_requests_
           /\ r.updates = pending_vm_info_updates_
           /\ r.list = vm_info_list_ /\ r.admin_list = admin_vm_info_list_
           /\ r.kind = "bulk" => r.vm \notin bulk
  BY DEF VmInfoInv, CopyIsExactUnlessRaced, CallbacksAreTyped, ListsInv, CopiesAreCurrent, AskedOnce

(* The end of a single update owes and answers nothing to a bulk one. *)
LEMMA EndSingleKeepsLists ==
    ASSUME VmInfoInv, ListsInv, NEW r \in running,
           EndSingleOfDeleted(r) \/ EndSingleInBulk(r) \/ EndSingle(r)
    PROVE  ListsInv'
<1> DEFINE S == admin_virtual_machines_
           v == r.vm
<1>1. /\ ~crashed /\ r.kind = "single" /\ running' = running \ {r}
      /\ UNCHANGED <<admin_virtual_machines_, pending_vm_info_requests_,
                     pending_vm_info_updates_, bulk, raced>>
  BY DEF EndSingleOfDeleted, EndSingleInBulk, EndSingle, machineVars, counters
<1>2. CASE raced
  BY <1>1, <1>2 DEF ListsInv, CopiesAreCurrent, AskedOnce, NoAnswersLeft, AnswersMatch, ListsMatch
<1>3. CASE ~raced
  <2>1. /\ r \in CallbackType /\ running = {r}
        /\ r.list = vm_info_list_ /\ r.admin_list = admin_vm_info_list_
    BY <1>3, EndingCallback
  <2>2. v \in Vms /\ r.active \in BOOLEAN
    BY <2>1 DEF CallbackType
  <2>3. running' = {}
    BY <1>1, <2>1
  <2>4. CopiesAreCurrent' /\ AskedOnce'
    BY <2>3 DEF CopiesAreCurrent, AskedOnce
  <2>5. \A w \in Vms : Asked(w)' <=> Asked(w)
    BY <1>1, <2>1, <2>3 DEF Asked
  <2>6. BulkUnderWay' <=> BulkUnderWay
    BY <1>1 DEF BulkUnderWay
  <2>7. /\ S \in SUBSET Vms /\ vm_info_list_ \in Seq(Entries)
        /\ pending_info \in [Vms -> {"none", "stopped", "active"}]
    BY DEF VmInfoInv, RequestsInv, TypeOK, lists, Entries
  <2>8. CASE EndSingleOfDeleted(r)
    <3>1. /\ UNCHANGED <<has_vm_info, pending_info, overtaken>>
          /\ crashed'
      BY <2>8 DEF EndSingleOfDeleted, infoVars
    <3>2. NoAnswersLeft' /\ ListsMatch'
      BY <1>1, <2>6, <3>1 DEF ListsInv, NoAnswersLeft, ListsMatch
    <3>3. AnswersMatch'
      BY <1>1, <2>5, <2>6, <2>7, <3>1 DEF ListsInv, AnswersMatch
    <3> QED
      BY <2>4, <3>2, <3>3 DEF ListsInv
  <2>9. CASE EndSingleInBulk(r)
    <3>1. overtaken' /\ v \in S /\ pending_info[v] # "none"
      BY <2>9 DEF EndSingleInBulk
    <3>2. BulkUnderWay
      BY <1>3, <3>1 DEF ListsInv, NoAnswersLeft
    <3> QED
      BY <2>4, <2>6, <3>1, <3>2 DEF ListsInv, NoAnswersLeft, AnswersMatch, ListsMatch
  <2>10. CASE EndSingle(r)
    <3>1. /\ v \in S /\ pending_info[v] = "none"
          /\ UNCHANGED <<pending_info, overtaken>>
          /\ admin_vm_info_list_' = admin_vm_info_list_
          /\ has_vm_info' = IF r.active THEN has_vm_info \cup {v} ELSE has_vm_info \ {v}
      BY <2>1, <2>10 DEF EndSingle, HasVmInfo
    <3>2. NoAnswersLeft'
      BY <1>1, <2>6, <3>1 DEF ListsInv, NoAnswersLeft
    <3>3. \A w \in S : w # v => (w \in has_vm_info' <=> w \in has_vm_info)
      BY <3>1
    <3>4. AnswersMatch'
      BY <1>1, <2>5, <2>6, <2>7, <3>1, <3>3 DEF ListsInv, AnswersMatch
    <3>5. ASSUME ~overtaken, ~BulkUnderWay
          PROVE  /\ ListsAll(admin_vm_info_list_', S)
                 /\ ListsSome(vm_info_list_', S, has_vm_info')
      <4>1. ListsAll(admin_vm_info_list_, S) /\ ListsSome(vm_info_list_, S, has_vm_info)
        BY <1>1, <1>3, <3>5 DEF ListsInv, ListsMatch
      <4>2. CASE v \in has_vm_info /\ ~r.active
        <5>1. vm_info_list_' = Without(vm_info_list_, v)
          BY <2>1, <2>10, <4>2, Zenon DEF EndSingle
        <5> QED
          BY <2>7, <3>1, <4>1, <4>2, <5>1, WithoutListsSome
      <4>3. CASE v \notin has_vm_info /\ r.active
        <5>1. vm_info_list_' = Append(vm_info_list_, v)
          BY <2>1, <2>10, <4>3, Zenon DEF EndSingle
        <5> QED
          BY <2>7, <3>1, <4>1, <4>3, <5>1, AppendListsSome
      <4>4. CASE v \in has_vm_info <=> r.active
        <5>1. vm_info_list_' = vm_info_list_
          BY <2>1, <2>10, <4>4, Zenon DEF EndSingle
        <5>2. has_vm_info' = has_vm_info
          BY <3>1, <4>4
        <5> QED
          BY <3>1, <4>1, <5>1, <5>2
      <4> QED
        BY <2>2, <4>2, <4>3, <4>4
    <3>6. ListsMatch'
      BY <1>1, <2>6, <3>1, <3>5 DEF ListsMatch
    <3> QED
      BY <2>4, <3>2, <3>4, <3>6 DEF ListsInv
  <2> QED
    BY <2>8, <2>9, <2>10
<1> QED
  BY <1>2, <1>3

(* The answer of one machine is added to those of the others. *)
LEMMA ActiveWithAnswer ==
    ASSUME NEW S \in SUBSET Vms, NEW pending \in [Vms -> {"none", "stopped", "active"}],
           NEW r, r.vm \in S, pending[r.vm] = "none", r.active \in BOOLEAN,
           NEW next, next = [pending EXCEPT ![r.vm] = Answer(r)]
    PROVE  /\ IsFiniteSet(Active(S, next))
           /\ Cardinality(Active(S, pending)) \in Nat
           /\ Cardinality(Active(S, next))
                  = Cardinality(Active(S, pending)) + (IF r.active THEN 1 ELSE 0)
<1> DEFINE A == Active(S, pending)
           B == Active(S, next)
<1>1. IsFiniteSet(A) /\ IsFiniteSet(B)
  <2>1. A \in SUBSET Vms /\ B \in SUBSET Vms
    BY DEF Active
  <2> QED
    BY <2>1, VmInfoConstants, FS_Subset
<1>2. Cardinality(A) \in Nat
  BY <1>1, FS_CardinalityType
<1>3. r.vm \notin A
  BY DEF Active
<1>4. CASE r.active
  <2>1. B = A \cup {r.vm}
    BY <1>4 DEF Active, Answer
  <2> QED
    BY <1>1, <1>2, <1>3, <1>4, <2>1, FS_AddElement
<1>5. CASE ~r.active
  <2>1. B = A
    BY <1>5 DEF Active, Answer
  <2> QED
    BY <1>1, <1>2, <1>5, <2>1
<1> QED
  BY <1>4, <1>5

LEMMA EndBulkKeepsLists ==
    ASSUME VmInfoInv, ListsInv, NEW r \in running, EndBulk(r)
    PROVE  ListsInv'
<1> DEFINE S == admin_virtual_machines_
           v == r.vm
<1>0. PICK pending, updates :
        /\ pending = [pending_info EXCEPT ![v] = Answer(r)]
        /\ updates = IF r.active THEN r.updates + 1 ELSE pending_vm_info_updates_
  OBVIOUS
<1>1. /\ ~crashed /\ r.kind = "bulk" /\ running' = running \ {r}
      /\ UNCHANGED <<admin_virtual_machines_, bulk, raced, overtaken>>
      /\ has_vm_info' = IF r.active THEN has_vm_info \cup {v} ELSE has_vm_info \ {v}
      /\ pending_vm_info_requests_' = r.requests - 1
      /\ pending_vm_info_updates_' = updates
  BY <1>0 DEF EndBulk, RequestsLeft, machineVars
<1>2. IF RequestsLeft(r) = 0 THEN PublishLists(pending, updates)
      ELSE pending_info' = pending /\ UNCHANGED <<lists, crashed>>
  BY <1>0 DEF EndBulk
<1>3. CASE raced
  BY <1>1, <1>3 DEF ListsInv, CopiesAreCurrent, AskedOnce, NoAnswersLeft, AnswersMatch, ListsMatch
<1>4. CASE ~raced
  <2>1. /\ r \in CallbackType /\ running = {r}
        /\ r.requests = pending_vm_info_requests_
        /\ r.updates = pending_vm_info_updates_
        /\ v \notin bulk
    BY <1>1, <1>4, EndingCallback
  <2>2. v \in Vms /\ r.active \in BOOLEAN /\ r.requests \in Nat /\ r.updates \in Nat
    BY <2>1 DEF CallbackType
  <2>3. running' = {}
    BY <1>1, <2>1
  <2>4. CopiesAreCurrent' /\ AskedOnce'
    BY <2>3 DEF CopiesAreCurrent, AskedOnce
  <2>5. /\ S \in SUBSET Vms
        /\ pending_info \in [Vms -> {"none", "stopped", "active"}]
    BY DEF VmInfoInv, RequestsInv, TypeOK
  <2>6. BulkUnderWay
    BY <1>1, NobodyAsked
  <2>7. /\ pending \in [Vms -> {"none", "stopped", "active"}]
        /\ pending[v] # "none" /\ (pending[v] = "active" <=> r.active)
        /\ \A w \in Vms : w # v => pending[w] = pending_info[w]
    BY <1>0, <2>2, <2>5 DEF Answer
  <2>8. \A w \in Vms : Asked(w) <=> w \in bulk \/ w = v
    BY <1>1, <2>1 DEF Asked
  <2>9. \A w \in Vms : Asked(w)' <=> w \in bulk
    BY <1>1, <2>3 DEF Asked
  <2>10. ASSUME ~overtaken
         PROVE  /\ bulk \subseteq S /\ v \in S
                /\ \A w \in S : /\ pending[w] = "none" <=> w \in bulk
                                /\ pending[w] # "none" =>
                                       (w \in has_vm_info' <=> pending[w] = "active")
                /\ updates = Cardinality(Active(S, pending))
    <3>1. /\ \A w \in Vms : Asked(w) => w \in S
          /\ \A w \in S :
                /\ pending_info[w] = "none" <=> Asked(w)
                /\ pending_info[w] # "none" => (w \in has_vm_info <=> pending_info[w] = "active")
          /\ pending_vm_info_updates_ = Cardinality(Active(S, pending_info))
      BY <1>4, <2>6, <2>10 DEF ListsInv, AnswersMatch
    <3>2. bulk \subseteq S /\ v \in S
      BY <2>2, <2>8, <3>1 DEF VmInfoInv, RequestsInv, TypeOK
    <3>3. pending_info[v] = "none"
      BY <2>2, <2>8, <3>1, <3>2
    <3>4. ASSUME NEW w \in S
          PROVE  /\ pending[w] = "none" <=> w \in bulk
                 /\ pending[w] # "none" => (w \in has_vm_info' <=> pending[w] = "active")
      <4>1. CASE w = v
        BY <1>1, <2>1, <2>2, <2>7, <4>1
      <4>2. CASE w # v
        BY <1>1, <2>5, <2>7, <2>8, <3>1, <4>2
      <4> QED
        BY <4>1, <4>2
    <3>5. /\ Cardinality(Active(S, pending_info)) \in Nat
          /\ Cardinality(Active(S, pending))
                 = Cardinality(Active(S, pending_info)) + (IF r.active THEN 1 ELSE 0)
      BY <1>0, <2>2, <2>5, <3>2, <3>3, ActiveWithAnswer
    <3>6. updates = Cardinality(Active(S, pending))
      BY <1>0, <2>1, <2>2, <3>1, <3>5
    <3> QED
      BY <3>2, <3>4, <3>6
  <2>11. CASE RequestsLeft(r) # 0
    <3>1. pending_info' = pending /\ BulkUnderWay'
      BY <1>1, <1>2, <2>11 DEF RequestsLeft, BulkUnderWay
    <3>2. NoAnswersLeft' /\ ListsMatch'
      BY <3>1 DEF NoAnswersLeft, ListsMatch
    <3>3. AnswersMatch'
      BY <1>1, <2>5, <2>9, <2>10, <3>1 DEF AnswersMatch
    <3> QED
      BY <2>4, <3>2, <3>3 DEF ListsInv
  <2>12. CASE RequestsLeft(r) = 0
    <3> DEFINE answered == {w \in S : pending[w] # "none"}
               listed == {w \in answered : pending[w] = "active"}
    <3>1. /\ admin_vm_info_list_' = Padded(SetToSeq(answered), Cardinality(S))
          /\ vm_info_list_' = Padded(SetToSeq(listed), updates)
          /\ pending_info' = [w \in Vms |-> IF w \in answered THEN "none" ELSE pending[w]]
      BY <1>2, <2>12 DEF PublishLists
    <3>2. ~BulkUnderWay'
      BY <1>1, <2>12 DEF RequestsLeft, BulkUnderWay
    <3>3. NoAnswersLeft'
      BY <1>1, <2>5, <3>1 DEF NoAnswersLeft
    <3>4. AnswersMatch'
      BY <3>2 DEF AnswersMatch
    <3>5. bulk = {}
      <4>1. /\ IsFiniteSet(bulk) /\ Cardinality(bulk) \in Nat
            /\ IsFiniteSet(Bulks) /\ Cardinality(Bulks) \in Nat
            /\ Outstanding = Cardinality(bulk) + Cardinality(Bulks)
        BY OutstandingIsNat DEF VmInfoInv, RequestsInv, TypeOK, CallbacksAreTyped
      <4>2. Bulks = {r}
        BY <1>1, <2>1 DEF Bulks
      <4>3. Cardinality(Bulks) = 1
        BY <4>2, FS_Singleton
      <4>4. Outstanding <= 1
        BY <2>1, <2>2, <2>12 DEF RequestsLeft, VmInfoInv, RequestsInv, NoAnswerIsMissed
      <4>5. Cardinality(bulk) = 0
        BY <4>1, <4>3, <4>4
      <4> QED
        BY <4>1, <4>5, FS_EmptySet
    <3>6. ASSUME ~overtaken
          PROVE  /\ ListsAll(admin_vm_info_list_', S)
                 /\ ListsSome(vm_info_list_', S, has_vm_info')
      <4>1. answered = S /\ listed = Active(S, pending)
        BY <2>10, <3>5, <3>6 DEF Active
      <4>2. SetToSeq(S) \in Seq(Entries) /\ Len(SetToSeq(S)) = Cardinality(S)
        BY <2>5, SetToSeqIsList
      <4>3. admin_vm_info_list_' = SetToSeq(S)
        BY <3>1, <4>1, <4>2, PaddedToLength
      <4>4. PICK L : L = Active(S, pending)
        OBVIOUS
      <4>5. L \in SUBSET S /\ L \in SUBSET Vms
        BY <2>5, <4>4 DEF Active
      <4>6. SetToSeq(L) \in Seq(Entries) /\ Len(SetToSeq(L)) = updates
        BY <2>10, <3>6, <4>4, <4>5, SetToSeqIsList
      <4>7. vm_info_list_' = SetToSeq(L)
        BY <3>1, <4>1, <4>4, <4>6, PaddedToLength
      <4>8. \A w \in S : w \in has_vm_info' <=> w \in L
        BY <2>10, <3>5, <3>6, <4>4 DEF Active
      <4>9. ListsSome(SetToSeq(L), S, has_vm_info')
        BY <2>5, <4>5, <4>8, SetToSeqListsSome
      <4>10. ListsAll(SetToSeq(S), S)
        BY <2>5, SetToSeqListsAll
      <4> QED
        BY <4>3, <4>7, <4>9, <4>10
    <3>7. ListsMatch'
      BY <1>1, <3>6 DEF ListsMatch
    <3> QED
      BY <2>4, <3>3, <3>4, <3>7 DEF ListsInv
  <2> QED
    BY <2>11, <2>12
<1> QED
  BY <1>3, <1>4

LEMMA ListsNext == VmInfoInv /\ ListsInv /\ [Next]_vars => ListsInv'
<1> SUFFICES ASSUME VmInfoInv, ListsInv, [Next]_vars
             PROVE  ListsInv'
  OBVIOUS
<1>1. ASSUME NEW v \in Vms, Start(v) \/ Stop(v) \/ Notify(v)
      PROVE  ListsInv'
  BY <1>1, ListsAlone DEF Start, Stop, Notify, infoVars, counters, lists
<1>2. ASSUME NEW v \in Vms, \/ AddAdminVirtualMachine(v) \/ RemoveAdminVirtualMachine(v)
                            \/ BeginBulk(v) \/ BeginSingle(v)
      PROVE  ListsInv'
  BY <1>2, AddKeepsLists, RemoveKeepsLists, BeginKeepsLists
<1>3. CASE UpdateVirtualMachineInfoList
  BY <1>3, UpdateKeepsLists
<1>4. ASSUME NEW r \in running, End(r)
      PROVE  ListsInv'
  BY <1>4, EndBulkKeepsLists, EndSingleKeepsLists DEF End
<1>5. CASE UNCHANGED vars
  BY <1>5, ListsAlone DEF vars
<1> QED
  BY <1>1, <1>2, <1>3, <1>4, <1>5 DEF Next

(* ListsMatchUnlessOvertaken of VmInfo: between bulk updates that no       *)
(* change met and no callback raced, admins are shown exactly the machines *)
(* there are and clients each machine that has_vm_info says, once.  The    *)
(* assertion in RemoveFirst holds then, for any machines and threads.      *)
THEOREM VmInfoListsMatch == Spec => []ListsMatchUnlessOvertaken
<1>1. Init => ListsInv
  BY ListsInit
<1>2. VmInfoInv /\ ListsInv /\ [Next]_vars => ListsInv'
  BY ListsNext
<1>3. VmInfoInv /\ ListsInv => ListsMatchUnlessOvertaken
  <2> SUFFICES ASSUME VmInfoInv, ListsInv, ~raced, ~overtaken, ~crashed, ~BulkUnderWay
               PROVE  /\ ToSet(admin_vm_info_list_) = admin_virtual_machines_
                      /\ Len(admin_vm_info_list_) = Cardinality(admin_virtual_machines_)
                      /\ Count(vm_info_list_, Blank) = 0
                      /\ \A v \in admin_virtual_machines_ :
                             Count(vm_info_list_, v) = IF v \in has_vm_info THEN 1 ELSE 0
    BY DEF ListsMatchUnlessOvertaken
  <2>1. /\ ListsAll(admin_vm_info_list_, admin_virtual_machines_)
        /\ ListsSome(vm_info_list_, admin_virtual_machines_, has_vm_info)
    BY DEF ListsInv, ListsMatch
  <2>2. vm_info_list_ \in Seq(Entries)
    BY DEF VmInfoInv, RequestsInv, TypeOK, lists, Entries
  <2> QED
    BY <2>1, <2>2, CountsOf DEF ListsAll, ListsSome
<1> QED
  BY <1>1, <1>2, <1>3, VmInfoInvariant, PTL DEF Spec
-----------------------------------------------------------------------------
(***************************************************************************)
(* Accounts                                                                *)
(***************************************************************************)

(* A row is made with its history. *)
LengthsAgree == Len(origin) = Len(User) /\ Len(acknowledged) = Len(User)

(* Calls between their statements have read a row that is still there,     *)
(* under the same name, and CreateSession with the same password unless it *)
(* was changed since.                                                      *)
CallsMatchRows ==
    /\ \A n \in 1..Len(session_tasks) : Rows(session_tasks[n]) # {}
    /\ session # None =>
        /\ session_tasks # << >>
        /\ session.row.username = User[session.id].username
        /\ session.id \in overlapped \/ session.row.password = User[session.id].password
    /\ password_change # None =>
        password_change.row.username = User[password_change.id].username

(* An invite is used once because it is open until the one registration    *)
(* that uses it closes it.  A registration without one has a name nobody   *)
(* has.                                                                    *)
Used(i) == \E k \in DOMAIN origin : origin[k] = i

OpenInvitesAreUnused == \A i \in Invites : IsOpen(i) => ~Used(i)

RegistrationIsSound ==
    registration # None =>
        LET i == registration.invite IN
        IF i = None THEN registration.step = "create" /\ Rows(registration.username) = {}
        ELSE /\ ~Used(i)
             /\ UserInvite[i] = None => i \in spoiled
             /\ UserInvite[i] # None => (UserInvite[i].accepted <=> registration.step # "accept")
             /\ registration.step = "accepted" /\ ~rows_modified => i \in spoiled

AccountsInv ==
    /\ AccountInv
    /\ LengthsAgree
    /\ CallsMatchRows
    /\ OpenInvitesAreUnused
    /\ RegistrationIsSound
    /\ AcceptedInviteMakesAccount
    /\ PasswordSticksUnlessOverlapped
-----------------------------------------------------------------------------
(* A set of positions has a last one ... *)
LEMMA MaximumExists ==
    ASSUME NEW n \in Nat, NEW S \in SUBSET (1..n), S # {}
    PROVE  \E i \in S : \A j \in S : j <= i
<1> DEFINE Above == {k \in Nat : \A j \in S : j <= k}
<1>1. n \in Above
  OBVIOUS
<1>2. \E k \in Above : \A l \in Above : ~(<<l, k>> \in OpToRel(<, Nat))
  <2> HIDE DEF Above
  <2>1. Above \subseteq Nat
    BY DEF Above
  <2> QED
    BY <1>1, <2>1, NatLessThanWellFounded, WFMin
<1>3. PICK k \in Above : \A l \in Above : ~(l < k)
  BY <1>2 DEF OpToRel
<1>4. k \in S
  <2> SUFFICES ASSUME k \notin S PROVE FALSE
    OBVIOUS
  <2>1. k \in Nat /\ \A j \in S : j \in Nat /\ j <= k /\ j # k /\ j >= 1
    BY <1>3
  <2>2. PICK m \in S : TRUE
    OBVIOUS
  <2>3. k - 1 \in Nat
    BY <2>1, <2>2
  <2>4. ASSUME NEW j \in S PROVE j <= k - 1
    BY <2>1
  <2>5. k - 1 \in Above
    BY <2>3, <2>4
  <2> QED
    BY <1>3, <2>1, <2>5
<1> QED
  BY <1>3, <1>4

(* ... so that GetUser finds a row of the name if there is one. *)
LEMMA GetUserFindsRow ==
    ASSUME User \in Seq(RowType), NEW name, Rows(name) # {} \/ GetUser(name) # 0
    PROVE  /\ GetUser(name) \in DOMAIN User
           /\ User[GetUser(name)].username = name
           /\ Rows(name) # {}
<1>1. Rows(name) # {}
  BY DEF GetUser
<1>2. Len(User) \in Nat /\ DOMAIN User = 1..Len(User)
  BY LenProperties
<1>3. Rows(name) \in SUBSET (1..Len(User))
  BY <1>2 DEF Rows
<1>4. \E i \in Rows(name) : \A j \in Rows(name) : j <= i
  BY <1>1, <1>2, <1>3, MaximumExists
<1>5. GetUser(name) \in Rows(name)
  BY <1>1, <1>4 DEF GetUser
<1> QED
  BY <1>1, <1>5 DEF Rows

(* Usernames stay when a row is updated. *)
LEMMA UpdatedRow ==
    ASSUME User \in Seq(RowType), NEW i \in DOMAIN User, NEW row \in RowType,
           row.username = User[i].username, User' = UpdateUser(i, row)
    PROVE  /\ User' \in Seq(RowType)
           /\ Len(User') = Len(User) /\ DOMAIN User' = DOMAIN User
           /\ User'[i] = row
           /\ \A j \in DOMAIN User : j # i => User'[j] = User[j]
           /\ \A j \in DOMAIN User : User'[j].username = User[j].username
           /\ \A name : Rows(name)' = Rows(name)
<1>1. /\ User' = [User EXCEPT ![i] = row]
      /\ Len(User) \in Nat /\ DOMAIN User = 1..Len(User)
  BY LenProperties DEF UpdateUser
<1>2. User' \in Seq(RowType) /\ Len(User') = Len(User) /\ DOMAIN User' = DOMAIN User
  BY <1>1, ExceptSeq
<1>3. User'[i] = row /\ \A j \in DOMAIN User : j # i => User'[j] = User[j]
  BY <1>1
<1>4. \A j \in DOMAIN User : User'[j].username = User[j].username
  BY <1>3
<1>5. \A name : Rows(name)' = Rows(name)
  BY <1>2, <1>4 DEF Rows
<1> QED
  BY <1>2, <1>3, <1>4, <1>5

(* A registration adds a row and its history. *)
LEMMA AddedRow ==
    ASSUME AccountsInv, CreateUser
    PROVE  /\ User' \in Seq(RowType) /\ Len(User') = Len(User) + 1
           /\ DOMAIN User' = DOMAIN User \cup {Len(User) + 1}
           /\ \A j \in DOMAIN User : User'[j] = User[j]
           /\ User'[Len(User) + 1].username = registration.username
           /\ User'[Len(User) + 1].password = registration.password
           /\ \A name : Rows(name) \subseteq Rows(name)'
           /\ \A name : name = registration.username => Rows(name)' # {}
           /\ origin' \in Seq(Invites \cup {None}) /\ Len(origin') = Len(User) + 1
           /\ DOMAIN origin' = DOMAIN User'
           /\ \A j \in DOMAIN User : origin'[j] = origin[j]
           /\ origin'[Len(User) + 1] = registration.invite
           /\ acknowledged' \in Seq(Passwords) /\ Len(acknowledged') = Len(User) + 1
           /\ \A j \in DOMAIN User : acknowledged'[j] = acknowledged[j]
           /\ acknowledged'[Len(User) + 1] = registration.password
<1> DEFINE row == User'[Len(User) + 1]
<1>1. /\ registration \in RegistrationType
      /\ registration.invite # None => UserInvite[registration.invite] \in InviteType
  BY DEF AccountsInv, AccountInv, AccountsTypeOK, CreateUser, RegistrationType
<1>2. PICK is_admin \in BOOLEAN :
        User' = Append(User, [username |-> registration.username,
                              password |-> registration.password,
                              session_id |-> None, is_admin |-> is_admin])
  BY <1>1 DEF CreateUser, InviteType
<1>3. [username |-> registration.username, password |-> registration.password,
       session_id |-> None, is_admin |-> is_admin] \in RowType
  BY <1>1 DEF RowType, RegistrationType
<1>4. /\ User \in Seq(RowType) /\ origin \in Seq(Invites \cup {None})
      /\ acknowledged \in Seq(Passwords)
      /\ Len(origin) = Len(User) /\ Len(acknowledged) = Len(User) /\ Len(User) \in Nat
      /\ DOMAIN User = 1..Len(User) /\ DOMAIN origin = 1..Len(User)
  BY LenProperties DEF AccountsInv, AccountInv, AccountsTypeOK, LengthsAgree
<1>5. /\ User' \in Seq(RowType) /\ Len(User') = Len(User) + 1
      /\ DOMAIN User' = DOMAIN User \cup {Len(User) + 1}
      /\ \A j \in DOMAIN User : User'[j] = User[j]
      /\ row.username = registration.username /\ row.password = registration.password
  BY <1>2, <1>3, <1>4, AppendProperties
<1>6. /\ origin' \in Seq(Invites \cup {None}) /\ Len(origin') = Len(User) + 1
      /\ DOMAIN origin' = 1..(Len(User) + 1)
      /\ \A j \in DOMAIN User : origin'[j] = origin[j]
      /\ origin'[Len(User) + 1] = registration.invite
  BY <1>1, <1>4, AppendProperties DEF CreateUser, RegistrationType
<1>7. /\ acknowledged' \in Seq(Passwords) /\ Len(acknowledged') = Len(User) + 1
      /\ \A j \in DOMAIN User : acknowledged'[j] = acknowledged[j]
      /\ acknowledged'[Len(User) + 1] = registration.password
  BY <1>1, <1>4, AppendProperties DEF CreateUser, RegistrationType
<1>8. \A name : Rows(name) \subseteq Rows(name)'
  BY <1>5 DEF Rows
<1>9. \A name : name = registration.username => Rows(name)' # {}
  BY <1>5 DEF Rows
<1> QED
  BY <1>4, <1>5, <1>6, <1>7, <1>8, <1>9
-----------------------------------------------------------------------------
(* What is known in every state, unfolded. *)
LEMMA AccountFacts ==
    ASSUME AccountsInv
    PROVE  /\ User \in Seq(RowType) /\ Len(User) \in Nat /\ DOMAIN User = 1..Len(User)
           /\ DOMAIN origin = DOMAIN User /\ DOMAIN acknowledged = DOMAIN User
           /\ \A i \in DOMAIN User : User[i] \in RowType
           /\ session_tasks \in Seq(Usernames)
           /\ registration # None => registration \in RegistrationType
           /\ \A i \in Invites : UserInvite[i] # None => UserInvite[i] \in InviteType
           /\ Disturbed \subseteq Invites
           /\ spoiled \subseteq Disturbed
           /\ registration # None /\ registration.step = "accepted" =>
                registration.invite \in Disturbed
  BY LenProperties DEF AccountsInv, AccountInv, AccountsTypeOK, LengthsAgree, Disturbed,
     RegistrationIsSound, RegistrationType

(* Registrations up to the new row leave accounts and sessions alone. *)
LEMMA RegisteringKeepsRows ==
    ASSUME AccountsInv,
           UNCHANGED <<User, password_change, session, session_tasks, origin, acknowledged,
                       overlapped>>
    PROVE  /\ InviteUsedOnce' /\ UninvitedNamesDiffer' /\ LengthsAgree'
           /\ CallsMatchRows' /\ PasswordSticksUnlessOverlapped'
           /\ \A name : Rows(name)' = Rows(name)
           /\ \A i : Used(i)' = Used(i)
  BY DEF AccountsInv, AccountInv, InviteUsedOnce, UninvitedNamesDiffer, LengthsAgree,
     CallsMatchRows, PasswordSticksUnlessOverlapped, Rows, Used

LEMMA RegisterKeepsInv ==
    ASSUME AccountsInv, NEW name \in Names, NEW password \in Passwords, Register(name, password)
    PROVE  AccountsInv'
<1>1. /\ InviteUsedOnce' /\ UninvitedNamesDiffer' /\ LengthsAgree'
      /\ CallsMatchRows' /\ PasswordSticksUnlessOverlapped'
      /\ \A n : Rows(n)' = Rows(n)
      /\ \A i : Used(i)' = Used(i)
  BY RegisteringKeepsRows DEF Register, tables, history
<1>2. registration' \in RegistrationType
  BY DEF Register, RegistrationType, Usernames
<1>3. AccountsTypeOK'
  BY <1>2 DEF AccountsInv, AccountInv, AccountsTypeOK, Register, tables, history
<1>4. OpenInvitesAreUnused' /\ AcceptedInviteMakesAccount'
  BY <1>1 DEF AccountsInv, OpenInvitesAreUnused, AcceptedInviteMakesAccount, IsOpen, Used,
     Register, tables, history
<1>5. RegistrationIsSound'
  BY <1>1 DEF RegistrationIsSound, Register, UsernameTaken
<1> QED
  BY <1>1, <1>3, <1>4, <1>5 DEF AccountsInv, AccountInv

LEMMA ValidateInviteKeepsInv ==
    ASSUME AccountsInv, NEW i \in Invites, NEW size \in 0..2, NEW password \in Passwords,
           ValidateInvite(i, size, password)
    PROVE  AccountsInv'
<1>1. /\ InviteUsedOnce' /\ UninvitedNamesDiffer' /\ LengthsAgree'
      /\ CallsMatchRows' /\ PasswordSticksUnlessOverlapped'
      /\ \A j : Used(j)' = Used(j)
  BY RegisteringKeepsRows DEF ValidateInvite, tables, history
<1>2. UserInvite[i] \in InviteType /\ UserInvite[i] # None /\ ~UserInvite[i].accepted
  BY AccountFacts DEF ValidateInvite, IsOpen
<1>3. registration' \in RegistrationType
  BY <1>2 DEF ValidateInvite, RegistrationType, InviteType
<1>4. AccountsTypeOK'
  BY <1>3 DEF AccountsInv, AccountInv, AccountsTypeOK, ValidateInvite, tables, history
<1>5. OpenInvitesAreUnused' /\ AcceptedInviteMakesAccount'
  BY <1>1 DEF AccountsInv, OpenInvitesAreUnused, AcceptedInviteMakesAccount, IsOpen, Used,
     ValidateInvite, tables, history
<1>6. ~Used(i)
  BY DEF AccountsInv, OpenInvitesAreUnused, ValidateInvite
<1>7. RegistrationIsSound'
  BY <1>1, <1>2, <1>6, AccountsConstants
  DEF RegistrationIsSound, ValidateInvite, tables
<1> QED
  BY <1>1, <1>4, <1>5, <1>7 DEF AccountsInv, AccountInv

LEMMA AcceptInviteKeepsInv ==
    ASSUME AccountsInv, AcceptInvite
    PROVE  AccountsInv'
<1> DEFINE i == registration.invite
<1>1. /\ InviteUsedOnce' /\ UninvitedNamesDiffer' /\ LengthsAgree'
      /\ CallsMatchRows' /\ PasswordSticksUnlessOverlapped'
      /\ \A j : Used(j)' = Used(j)
  BY RegisteringKeepsRows DEF AcceptInvite, history
<1>2. /\ registration # None /\ registration \in RegistrationType
      /\ registration.step = "accept" /\ i \in Invites /\ i # None
      /\ ~Used(i)
      /\ UserInvite[i] = None => i \in spoiled
      /\ UserInvite[i] # None => UserInvite[i] \in InviteType /\ ~UserInvite[i].accepted
  BY AccountFacts DEF AccountsInv, RegistrationIsSound, AcceptInvite, RegistrationType
<1>3. /\ registration' \in RegistrationType /\ registration' # None
      /\ registration'.step = "accepted" /\ registration'.invite = i
  BY <1>2, AccountsConstants DEF AcceptInvite, RegistrationType
<1>4. /\ UserInvite' \in [Invites -> InviteType \cup {None}]
      /\ \A j \in Invites : j # i => UserInvite'[j] = UserInvite[j]
      /\ UserInvite[i] = None => UserInvite'[i] = None
      /\ UserInvite[i] # None => UserInvite'[i] # None /\ UserInvite'[i].accepted
  BY <1>2, AccountsConstants
  DEF AcceptInvite, IsOpen, InviteType, AccountsInv, AccountInv, AccountsTypeOK
<1>5. AccountsTypeOK'
  BY <1>3, <1>4 DEF AccountsInv, AccountInv, AccountsTypeOK, AcceptInvite, IsOpen, history
<1>6. OpenInvitesAreUnused' /\ AcceptedInviteMakesAccount'
  BY <1>1, <1>2, <1>3, <1>4
  DEF AccountsInv, OpenInvitesAreUnused, AcceptedInviteMakesAccount, IsOpen, Used,
      AcceptInvite, history
<1>7. RegistrationIsSound'
  <2>1. ~Used(i)' /\ spoiled' = spoiled
    BY <1>1, <1>2 DEF AcceptInvite, history
  <2>2. UserInvite[i] # None => rows_modified'
    BY <1>2 DEF AcceptInvite, IsOpen
  <2> QED
    BY <1>2, <1>3, <1>4, <2>1, <2>2 DEF RegistrationIsSound, Used
<1> QED
  BY <1>1, <1>5, <1>6, <1>7 DEF AccountsInv, AccountInv

LEMMA CheckRowsModifiedKeepsInv ==
    ASSUME AccountsInv, CheckRowsModified
    PROVE  AccountsInv'
<1>1. /\ InviteUsedOnce' /\ UninvitedNamesDiffer' /\ LengthsAgree'
      /\ CallsMatchRows' /\ PasswordSticksUnlessOverlapped'
      /\ \A j : Used(j)' = Used(j)
  BY RegisteringKeepsRows DEF CheckRowsModified, tables, history
<1>2. /\ registration # None /\ registration \in RegistrationType
      /\ registration.step = "accepted" /\ registration.invite # None
  BY AccountFacts DEF AccountsInv, RegistrationIsSound, CheckRowsModified
<1>3. \/ ~rows_modified /\ registration' = None
      \/ /\ rows_modified /\ registration' \in RegistrationType /\ registration' # None
         /\ registration'.step = "create" /\ registration'.invite = registration.invite
  BY <1>2, AccountsConstants DEF CheckRowsModified, RegistrationType
<1>4. AccountsTypeOK'
  BY <1>3 DEF AccountsInv, AccountInv, AccountsTypeOK, CheckRowsModified, tables, history
<1>5. OpenInvitesAreUnused'
  BY <1>1 DEF AccountsInv, OpenInvitesAreUnused, IsOpen, CheckRowsModified, tables
<1>6. AcceptedInviteMakesAccount'
  BY <1>2, <1>3 DEF AccountsInv, AcceptedInviteMakesAccount, RegistrationIsSound,
     CheckRowsModified, tables, history
<1>7. RegistrationIsSound'
  BY <1>1, <1>2, <1>3 DEF AccountsInv, RegistrationIsSound, CheckRowsModified, tables, history
<1> QED
  BY <1>1, <1>4, <1>5, <1>6, <1>7 DEF AccountsInv, AccountInv

(* The new row belongs to the registration that ends. *)
LEMMA CreateUserKeepsInv ==
    ASSUME AccountsInv, CreateUser
    PROVE  AccountsInv'
<1> DEFINE n == Len(User) + 1
           i == registration.invite
<1>1. /\ User' \in Seq(RowType) /\ Len(User') = n /\ DOMAIN User' = DOMAIN User \cup {n}
      /\ \A j \in DOMAIN User : User'[j] = User[j]
      /\ User'[n].username = registration.username
      /\ User'[n].password = registration.password
      /\ origin' \in Seq(Invites \cup {None}) /\ Len(origin') = n
      /\ DOMAIN origin' = DOMAIN User'
      /\ \A j \in DOMAIN User : origin'[j] = origin[j]
      /\ origin'[n] = i
      /\ acknowledged' \in Seq(Passwords) /\ Len(acknowledged') = n
      /\ \A j \in DOMAIN User : acknowledged'[j] = acknowledged[j]
      /\ acknowledged'[n] = registration.password
  BY AddedRow
<1>2. /\ \A name : Rows(name) # {} => Rows(name)' # {}
      /\ \A name : name = registration.username => Rows(name)' # {}
  BY AddedRow
<1>3. /\ registration # None /\ registration \in RegistrationType
      /\ registration.step = "create"
      /\ i = None => Rows(registration.username) = {}
      /\ i # None => ~Used(i) /\ i \in Invites /\ UserInvite[i].accepted /\ UserInvite[i] # None
      /\ DOMAIN origin = DOMAIN User /\ DOMAIN User = 1..Len(User) /\ Len(User) \in Nat
      /\ session_tasks \in Seq(Usernames)
      /\ registration' = None
  BY AccountFacts DEF AccountsInv, RegistrationIsSound, CreateUser, RegistrationType
<1>4. /\ session_tasks' \in Seq(Usernames) /\ Len(session_tasks') = Len(session_tasks) + 1
      /\ Len(session_tasks) \in Nat
      /\ \A m \in 1..Len(session_tasks) : session_tasks'[m] = session_tasks[m]
      /\ session_tasks'[Len(session_tasks) + 1] = registration.username
  <2>1. registration.username \in Usernames
    BY <1>3 DEF RegistrationType
  <2> QED
    BY <1>3, <2>1, AppendProperties, LenProperties DEF CreateUser
<1>5. AccountsTypeOK'
  BY <1>1, <1>3, <1>4 DEF AccountsInv, AccountInv, AccountsTypeOK, CreateUser
<1>6. InviteUsedOnce'
  <2> SUFFICES ASSUME NEW j \in DOMAIN User', NEW k \in DOMAIN User',
                      origin'[j] = origin'[k], origin'[j] # None
               PROVE  j = k
    BY <1>1 DEF InviteUsedOnce
  <2>1. CASE j \in DOMAIN User /\ k \in DOMAIN User
    BY <1>1, <1>3, <2>1 DEF AccountsInv, AccountInv, InviteUsedOnce
  <2>2. CASE j = n /\ k # n
    BY <1>1, <1>3, <2>2 DEF Used
  <2>3. CASE k = n /\ j # n
    BY <1>1, <1>3, <2>3 DEF Used
  <2> QED
    BY <1>1, <2>1, <2>2, <2>3
<1>7. UninvitedNamesDiffer'
  <2> SUFFICES ASSUME NEW j \in DOMAIN User', NEW k \in DOMAIN User',
                      User'[j].username = User'[k].username,
                      origin'[j] = None, origin'[k] = None
               PROVE  j = k
    BY DEF UninvitedNamesDiffer
  <2>1. CASE j \in DOMAIN User /\ k \in DOMAIN User
    BY <1>1, <1>3, <2>1 DEF AccountsInv, AccountInv, UninvitedNamesDiffer
  <2>2. CASE j = n /\ k # n
    BY <1>1, <1>3, <2>2 DEF Rows
  <2>3. CASE k = n /\ j # n
    BY <1>1, <1>3, <2>3 DEF Rows
  <2> QED
    BY <1>1, <2>1, <2>2, <2>3
<1>8. LengthsAgree' /\ PasswordSticksUnlessOverlapped'
  BY <1>1, <1>3 DEF AccountsInv, LengthsAgree, PasswordSticksUnlessOverlapped, CreateUser
<1>9. CallsMatchRows'
  <2>1. ASSUME NEW m \in 1..Len(session_tasks') PROVE Rows(session_tasks[m])' # {}
    <3>1. m \in 1..Len(session_tasks) \/ m = Len(session_tasks) + 1
      BY <1>4
    <3>2. CASE m \in 1..Len(session_tasks)
      <4>1. Rows(session_tasks[m]) # {} /\ session_tasks'[m] = session_tasks[m]
        BY <1>4, <3>2 DEF AccountsInv, CallsMatchRows
      <4> QED
        BY <1>2, <4>1
    <3> QED
      BY <1>2, <1>4, <3>1, <3>2
  <2>2. session_tasks' # << >>
    BY <1>4
  <2>3. /\ session # None => session.id \in DOMAIN User
        /\ password_change # None => password_change.id \in DOMAIN User
    BY DEF AccountsInv, AccountInv, AccountsTypeOK
  <2> QED
    BY <1>1, <2>1, <2>2, <2>3 DEF AccountsInv, CallsMatchRows, CreateUser
<1>10. \A j : Used(j)' <=> Used(j) \/ j = i
  BY <1>1, <1>3 DEF Used
<1>11. OpenInvitesAreUnused' /\ AcceptedInviteMakesAccount'
  <2>1. UNCHANGED <<UserInvite, spoiled>>
    BY DEF CreateUser
  <2>2. OpenInvitesAreUnused'
    BY <1>3, <1>10, <2>1, AccountsConstants DEF AccountsInv, OpenInvitesAreUnused, IsOpen
  <2>3. ASSUME NEW j \in Invites, UserInvite[j] # None, UserInvite[j].accepted
        PROVE  Used(j)' \/ j \in spoiled
    BY <1>10, <2>3 DEF AccountsInv, AcceptedInviteMakesAccount, Used
  <2>4. AcceptedInviteMakesAccount'
    BY <2>1, <2>3 DEF AcceptedInviteMakesAccount, Used
  <2> QED
    BY <2>2, <2>4
<1>12. RegistrationIsSound'
  BY <1>3 DEF RegistrationIsSound
<1> QED
  BY <1>5, <1>6, <1>7, <1>8, <1>9, <1>11, <1>12 DEF AccountsInv, AccountInv

(* A crash spoils the invite of the registration it ends. *)
LEMMA CrashKeepsInv ==
    ASSUME AccountsInv, Crash
    PROVE  AccountsInv'
<1>1. /\ session_tasks' = << >> /\ registration' = None /\ session' = None
      /\ password_change' = None /\ invite_check' = None
      /\ UNCHANGED <<User, UserInvite, UnavailableUsername, origin, acknowledged, overlapped>>
      /\ spoiled \subseteq spoiled' /\ spoiled' \subseteq Invites
      /\ registration # None /\ registration.invite # None => registration.invite \in spoiled'
  BY AccountFacts DEF Crash, tables, RegistrationType, AccountsInv, AccountInv, AccountsTypeOK
<1>2. session_tasks' \in Seq(Usernames) /\ Len(session_tasks') = 0
  BY <1>1
<1>3. AccountsTypeOK'
  <2>1. rows_modified' \in BOOLEAN
    BY DEF Crash
  <2>2. sessions_' \in [SessionIds -> [username : Names, is_admin : BOOLEAN] \cup {None}]
    BY DEF Crash
  <2>3. crashes' \in 0..MaxCrashes /\ invalidated' = invalidated
    <3>1. crashes \in 0..MaxCrashes /\ MaxCrashes \in Nat
      BY AccountsConstants DEF AccountsInv, AccountInv, AccountsTypeOK
    <3> QED
      BY <3>1 DEF Crash
  <2> QED
    BY <1>1, <1>2, <2>1, <2>2, <2>3 DEF AccountsInv, AccountInv, AccountsTypeOK
<1>4. InviteUsedOnce' /\ UninvitedNamesDiffer' /\ LengthsAgree' /\ PasswordSticksUnlessOverlapped'
  BY <1>1 DEF AccountsInv, AccountInv, InviteUsedOnce, UninvitedNamesDiffer, LengthsAgree,
     PasswordSticksUnlessOverlapped
<1>5. CallsMatchRows' /\ RegistrationIsSound'
  BY <1>1, <1>2 DEF CallsMatchRows, RegistrationIsSound
<1>6. OpenInvitesAreUnused' /\ AcceptedInviteMakesAccount'
  BY <1>1, AccountsConstants DEF AccountsInv, OpenInvitesAreUnused, AcceptedInviteMakesAccount,
     IsOpen, Used
<1> QED
  BY <1>3, <1>4, <1>5, <1>6 DEF AccountsInv, AccountInv
-----------------------------------------------------------------------------
(* A statement of another strand leaves a registration sound: it changes   *)
(* rows_modified only for the better, or spoils the invite.                *)
LEMMA RegistrationKept ==
    ASSUME AccountsInv, UNCHANGED <<UserInvite, registration, origin>>,
           spoiled \subseteq spoiled',
           \/ rows_modified' = rows_modified
           \/ rows_modified'
           \/ registration # None /\ registration.step = "accepted" =>
                registration.invite \in spoiled',
           \A name : Rows(name)' = Rows(name)
    PROVE  OpenInvitesAreUnused' /\ AcceptedInviteMakesAccount' /\ RegistrationIsSound'
<1>1. \A j : Used(j)' = Used(j)
  BY DEF Used
<1>2. OpenInvitesAreUnused' /\ AcceptedInviteMakesAccount'
  BY <1>1 DEF AccountsInv, OpenInvitesAreUnused, AcceptedInviteMakesAccount, IsOpen, Used
<1>3. RegistrationIsSound'
  BY <1>1 DEF AccountsInv, RegistrationIsSound
<1> QED
  BY <1>2, <1>3

LEMMA LoginKeepsInv ==
    ASSUME AccountsInv, NEW name \in Names, NEW password \in Passwords, Login(name, password)
    PROVE  AccountsInv'
<1>1. /\ session_tasks' \in Seq(Usernames) /\ Len(session_tasks') = Len(session_tasks) + 1
      /\ Len(session_tasks) \in Nat
      /\ \A m \in 1..Len(session_tasks) : session_tasks'[m] = session_tasks[m]
      /\ session_tasks'[Len(session_tasks) + 1] = name
  <2>1. session_tasks \in Seq(Usernames) /\ name \in Usernames
    BY AccountFacts DEF Usernames
  <2>2. session_tasks' = Append(session_tasks, name)
    BY DEF Login
  <2> QED
    BY <2>1, <2>2, AppendProperties, LenProperties
<1>2. UNCHANGED <<User, UserInvite, registration, origin, acknowledged, overlapped, spoiled,
                  rows_modified, session, password_change>>
  BY DEF Login, tables, history
<1>3. \A n : Rows(n)' = Rows(n)
  BY <1>2 DEF Rows
<1>4. OpenInvitesAreUnused' /\ AcceptedInviteMakesAccount' /\ RegistrationIsSound'
  BY <1>2, <1>3, RegistrationKept
<1>5. InviteUsedOnce' /\ UninvitedNamesDiffer' /\ LengthsAgree' /\ PasswordSticksUnlessOverlapped'
  BY <1>2 DEF AccountsInv, AccountInv, InviteUsedOnce, UninvitedNamesDiffer, LengthsAgree,
     PasswordSticksUnlessOverlapped
<1>6. AccountsTypeOK'
  BY <1>1 DEF AccountsInv, AccountInv, AccountsTypeOK, Login, tables, history
<1>7. CallsMatchRows'
  <2>1. Rows(name) # {}
    BY AccountFacts, GetUserFindsRow DEF Login
  <2>2. \A m \in 1..Len(session_tasks') : Rows(session_tasks'[m]) # {}
    <3> SUFFICES ASSUME NEW m \in 1..Len(session_tasks') PROVE Rows(session_tasks'[m]) # {}
      OBVIOUS
    <3>1. m \in 1..Len(session_tasks) \/ m = Len(session_tasks) + 1
      BY <1>1
    <3> QED
      BY <1>1, <2>1, <3>1 DEF AccountsInv, CallsMatchRows
  <2>3. session_tasks' # << >>
    BY <1>1
  <2> QED
    BY <1>2, <1>3, <2>2, <2>3 DEF AccountsInv, CallsMatchRows
<1> QED
  BY <1>4, <1>5, <1>6, <1>7 DEF AccountsInv, AccountInv

LEMMA CreateSessionReadsKeepsInv ==
    ASSUME AccountsInv, NEW s \in SessionIds, CreateSessionReads(s)
    PROVE  AccountsInv'
<1> DEFINE name == Head(session_tasks)
<1>1. UNCHANGED <<User, UserInvite, registration, origin, acknowledged, overlapped, spoiled,
                  rows_modified, session_tasks, password_change>>
  BY DEF CreateSessionReads, tables, history
<1>2. \A n : Rows(n)' = Rows(n)
  BY <1>1 DEF Rows
<1>3. OpenInvitesAreUnused' /\ AcceptedInviteMakesAccount' /\ RegistrationIsSound'
  BY <1>1, <1>2, RegistrationKept
<1>4. InviteUsedOnce' /\ UninvitedNamesDiffer' /\ LengthsAgree' /\ PasswordSticksUnlessOverlapped'
  BY <1>1 DEF AccountsInv, AccountInv, InviteUsedOnce, UninvitedNamesDiffer, LengthsAgree,
     PasswordSticksUnlessOverlapped
<1>5. Rows(name) # {}
  <2>1. session_tasks \in Seq(Usernames) /\ session_tasks # << >>
    BY AccountFacts DEF CreateSessionReads
  <2>2. Len(session_tasks) >= 1 /\ name = session_tasks[1] /\ Len(session_tasks) \in Nat
    BY <2>1
  <2> QED
    BY <2>2 DEF AccountsInv, CallsMatchRows
<1>6. GetUser(name) \in DOMAIN User /\ User[GetUser(name)] \in RowType
  BY <1>5, AccountFacts, GetUserFindsRow
<1>7. session' = [id |-> GetUser(name), row |-> User[GetUser(name)], new |-> s]
  BY DEF CreateSessionReads
<1>8. AccountsTypeOK'
  BY <1>6, <1>7 DEF AccountsInv, AccountInv, AccountsTypeOK, CreateSessionReads, tables, history
<1>9. CallsMatchRows'
  <2>1. session'.id = GetUser(name) /\ session'.row = User[GetUser(name)]
    BY <1>7
  <2> QED
    BY <1>1, <1>2, <2>1 DEF AccountsInv, CallsMatchRows, CreateSessionReads
<1> QED
  BY <1>3, <1>4, <1>8, <1>9 DEF AccountsInv, AccountInv

LEMMA CreateSessionRetriesKeepsInv ==
    ASSUME AccountsInv, CreateSessionRetries
    PROVE  AccountsInv'
<1>1. UNCHANGED <<User, UserInvite, registration, origin, acknowledged, overlapped, spoiled,
                  rows_modified, session_tasks, password_change>> /\ session' = None
  BY DEF CreateSessionRetries, tables, history
<1>2. \A n : Rows(n)' = Rows(n)
  BY <1>1 DEF Rows
<1>3. OpenInvitesAreUnused' /\ AcceptedInviteMakesAccount' /\ RegistrationIsSound'
  BY <1>1, <1>2, RegistrationKept
<1>4. InviteUsedOnce' /\ UninvitedNamesDiffer' /\ LengthsAgree' /\ PasswordSticksUnlessOverlapped'
  BY <1>1 DEF AccountsInv, AccountInv, InviteUsedOnce, UninvitedNamesDiffer, LengthsAgree,
     PasswordSticksUnlessOverlapped
<1>5. AccountsTypeOK'
  BY <1>1 DEF AccountsInv, AccountInv, AccountsTypeOK, CreateSessionRetries, tables, history
<1>6. CallsMatchRows'
  BY <1>1, <1>2 DEF AccountsInv, CallsMatchRows
<1> QED
  BY <1>3, <1>4, <1>5, <1>6 DEF AccountsInv, AccountInv

LEMMA ChangePasswordKeepsInv ==
    ASSUME AccountsInv, NEW name \in Names, NEW old \in Passwords, NEW new \in Passwords,
           ChangePassword(name, old, new)
    PROVE  AccountsInv'
<1>1. UNCHANGED <<User, UserInvite, registration, origin, acknowledged, overlapped, spoiled,
                  rows_modified, session_tasks, session>>
  BY DEF ChangePassword, tables, history
<1>2. \A n : Rows(n)' = Rows(n)
  BY <1>1 DEF Rows
<1>3. OpenInvitesAreUnused' /\ AcceptedInviteMakesAccount' /\ RegistrationIsSound'
  BY <1>1, <1>2, RegistrationKept
<1>4. InviteUsedOnce' /\ UninvitedNamesDiffer' /\ LengthsAgree' /\ PasswordSticksUnlessOverlapped'
  BY <1>1 DEF AccountsInv, AccountInv, InviteUsedOnce, UninvitedNamesDiffer, LengthsAgree,
     PasswordSticksUnlessOverlapped
<1>5. GetUser(name) \in DOMAIN User /\ User[GetUser(name)] \in RowType
  BY AccountFacts, GetUserFindsRow DEF ChangePassword
<1>6. password_change' = [id |-> GetUser(name), row |-> User[GetUser(name)], new |-> new]
  BY DEF ChangePassword
<1>7. AccountsTypeOK'
  BY <1>5, <1>6 DEF AccountsInv, AccountInv, AccountsTypeOK, ChangePassword, tables, history
<1>8. CallsMatchRows'
  <2>1. password_change'.id = GetUser(name) /\ password_change'.row = User[GetUser(name)]
    BY <1>6
  <2> QED
    BY <1>1, <1>2, <2>1 DEF AccountsInv, CallsMatchRows
<1> QED
  BY <1>3, <1>4, <1>7, <1>8 DEF AccountsInv, AccountInv

(* The row of the account is written back as it was read, with the new     *)
(* session: a password changed meanwhile is overwritten.                   *)
LEMMA CreateSessionKeepsInv ==
    ASSUME AccountsInv, CreateSession
    PROVE  AccountsInv'
<1> DEFINE i == session.id
           row == [session.row EXCEPT !.session_id = session.new]
<1>1. /\ session # None /\ session \in [id : DOMAIN User, row : RowType, new : SessionIds]
      /\ session.row.username = User[i].username
      /\ i \in overlapped \/ session.row.password = User[i].password
  BY DEF AccountsInv, AccountInv, AccountsTypeOK, CallsMatchRows, CreateSession
<1>2. /\ i \in DOMAIN User /\ session.row \in RowType /\ session.new \in SessionIds
      /\ row \in RowType /\ row.username = User[i].username
      /\ row.password = session.row.password
  BY <1>1 DEF RowType
<1>3. User \in Seq(RowType) /\ User' = UpdateUser(i, row)
  BY AccountFacts DEF CreateSession
<1>4. /\ User' \in Seq(RowType)
      /\ Len(User') = Len(User) /\ DOMAIN User' = DOMAIN User
      /\ User'[i] = row
      /\ \A j \in DOMAIN User : j # i => User'[j] = User[j]
      /\ \A j \in DOMAIN User : User'[j].username = User[j].username
      /\ \A name : Rows(name)' = Rows(name)
  BY <1>2, <1>3, UpdatedRow
<1>5. /\ UNCHANGED <<UserInvite, registration, origin, acknowledged, overlapped,
                     password_change, UnavailableUsername, invite_check, crashes>>
      /\ rows_modified' /\ session' = None /\ session_tasks' = Tail(session_tasks)
      /\ spoiled' = Disturbed
  BY DEF CreateSession
<1>6. OpenInvitesAreUnused' /\ AcceptedInviteMakesAccount' /\ RegistrationIsSound'
  BY <1>4, <1>5, AccountFacts, RegistrationKept
<1>7. session_tasks \in Seq(Usernames) /\ session_tasks # << >>
  BY <1>1, AccountFacts DEF AccountsInv, CallsMatchRows
<1>8. /\ session_tasks' \in Seq(Usernames) /\ Len(session_tasks) \in Nat
      /\ Len(session_tasks') = Len(session_tasks) - 1
      /\ \A m \in 1..Len(session_tasks') : session_tasks'[m] = session_tasks[m + 1]
  BY <1>5, <1>7, HeadTailProperties, LenProperties
<1>9. /\ rows_modified' \in BOOLEAN
      /\ invalidated' \subseteq SessionIds
      /\ sessions_' \in [SessionIds -> [username : Names, is_admin : BOOLEAN] \cup {None}]
  BY <1>2 DEF CreateSession, AccountsInv, AccountInv, AccountsTypeOK, RowType, Usernames
<1>10. overlapped' \subseteq DOMAIN User'
  BY <1>2, <1>4, <1>5 DEF AccountsInv, AccountInv, AccountsTypeOK
<1>11. AccountsTypeOK'
  BY <1>4, <1>5, <1>8, <1>9, <1>10, AccountFacts
  DEF AccountsInv, AccountInv, AccountsTypeOK
<1>12. InviteUsedOnce' /\ UninvitedNamesDiffer' /\ LengthsAgree'
  BY <1>4, <1>5 DEF AccountsInv, AccountInv, InviteUsedOnce, UninvitedNamesDiffer, LengthsAgree
<1>13. PasswordSticksUnlessOverlapped'
  BY <1>1, <1>2, <1>4, <1>5 DEF AccountsInv, PasswordSticksUnlessOverlapped
<1>14. CallsMatchRows'
  <2>1. \A m \in 1..Len(session_tasks') : Rows(session_tasks'[m]) # {}
    <3> SUFFICES ASSUME NEW m \in 1..Len(session_tasks') PROVE Rows(session_tasks'[m]) # {}
      OBVIOUS
    <3>1. m + 1 \in 1..Len(session_tasks) /\ session_tasks'[m] = session_tasks[m + 1]
      BY <1>8
    <3> QED
      BY <3>1 DEF AccountsInv, CallsMatchRows
  <2>2. password_change # None => password_change.id \in DOMAIN User
    BY DEF AccountsInv, AccountInv, AccountsTypeOK
  <2> QED
    BY <1>4, <1>5, <2>1, <2>2 DEF AccountsInv, CallsMatchRows
<1> QED
  BY <1>6, <1>11, <1>12, <1>13, <1>14 DEF AccountsInv, AccountInv

LEMMA PasswordChangedKeepsInv ==
    ASSUME AccountsInv, PasswordChanged
    PROVE  AccountsInv'
<1> DEFINE i == password_change.id
           row == [password_change.row EXCEPT !.password = password_change.new]
<1>1. /\ password_change # None
      /\ password_change \in [id : DOMAIN User, row : RowType, new : Passwords]
      /\ password_change.row.username = User[i].username
  BY DEF AccountsInv, AccountInv, AccountsTypeOK, CallsMatchRows, PasswordChanged
<1>2. /\ i \in DOMAIN User /\ password_change.new \in Passwords
      /\ row \in RowType /\ row.username = User[i].username
      /\ row.password = password_change.new
  BY <1>1 DEF RowType
<1>3. User \in Seq(RowType) /\ User' = UpdateUser(i, row)
  BY AccountFacts DEF PasswordChanged
<1>4. /\ User' \in Seq(RowType)
      /\ Len(User') = Len(User) /\ DOMAIN User' = DOMAIN User
      /\ User'[i] = row
      /\ \A j \in DOMAIN User : j # i => User'[j] = User[j]
      /\ \A j \in DOMAIN User : User'[j].username = User[j].username
      /\ \A name : Rows(name)' = Rows(name)
  BY <1>2, <1>3, UpdatedRow
<1>5. /\ UNCHANGED <<UserInvite, registration, origin, session, session_tasks, sessions_,
                     invalidated, UnavailableUsername, invite_check, crashes>>
      /\ rows_modified' /\ rows_modified' \in BOOLEAN /\ password_change' = None
      /\ acknowledged' = [acknowledged EXCEPT ![i] = password_change.new]
      /\ overlapped' = IF session # None /\ session.id = i
                       THEN overlapped \cup {i} ELSE overlapped
      /\ spoiled' = Disturbed
  BY DEF PasswordChanged
<1>6. OpenInvitesAreUnused' /\ AcceptedInviteMakesAccount' /\ RegistrationIsSound'
  BY <1>4, <1>5, AccountFacts, RegistrationKept
<1>7. /\ acknowledged' \in Seq(Passwords) /\ Len(acknowledged') = Len(acknowledged)
      /\ acknowledged'[i] = password_change.new
      /\ \A j \in DOMAIN User : j # i => acknowledged'[j] = acknowledged[j]
  <2>1. /\ acknowledged \in Seq(Passwords) /\ DOMAIN acknowledged = DOMAIN User
        /\ DOMAIN acknowledged = 1..Len(acknowledged)
    BY AccountFacts, LenProperties DEF AccountsInv, AccountInv, AccountsTypeOK
  <2> QED
    BY <1>2, <1>5, <2>1, ExceptSeq
<1>8. overlapped' \subseteq DOMAIN User'
  BY <1>2, <1>4, <1>5 DEF AccountsInv, AccountInv, AccountsTypeOK
<1>9. AccountsTypeOK'
  BY <1>4, <1>5, <1>7, <1>8, AccountFacts
  DEF AccountsInv, AccountInv, AccountsTypeOK
<1>10. InviteUsedOnce' /\ UninvitedNamesDiffer' /\ LengthsAgree'
  BY <1>4, <1>5, <1>7
  DEF AccountsInv, AccountInv, InviteUsedOnce, UninvitedNamesDiffer, LengthsAgree
<1>11. PasswordSticksUnlessOverlapped'
  BY <1>2, <1>4, <1>5, <1>7 DEF AccountsInv, PasswordSticksUnlessOverlapped
<1>12. CallsMatchRows'
  <2>1. session # None => session.id \in DOMAIN User
    BY DEF AccountsInv, AccountInv, AccountsTypeOK
  <2>2. session # None =>
          session.id \in overlapped' \/ session.row.password = User'[session.id].password
    <3> SUFFICES ASSUME session # None, session.id \notin overlapped'
                 PROVE  session.row.password = User'[session.id].password
      OBVIOUS
    <3>1. session.id \notin overlapped /\ session.id # i
      BY <1>5
    <3> QED
      BY <1>4, <2>1, <3>1 DEF AccountsInv, CallsMatchRows
  <2> QED
    BY <1>4, <1>5, <2>1, <2>2 DEF AccountsInv, CallsMatchRows
<1> QED
  BY <1>6, <1>9, <1>10, <1>11, <1>12 DEF AccountsInv, AccountInv
-----------------------------------------------------------------------------
(* No statement of an administrator changes accounts or sessions. *)
LEMMA AdministeringKeepsRows ==
    ASSUME AccountsInv, UNCHANGED userVars
    PROVE  /\ InviteUsedOnce' /\ UninvitedNamesDiffer' /\ LengthsAgree'
           /\ CallsMatchRows' /\ PasswordSticksUnlessOverlapped'
           /\ \A name : Rows(name)' = Rows(name)
           /\ \A i : Used(i)' = Used(i)
           /\ UNCHANGED <<registration, origin>>
  BY DEF AccountsInv, AccountInv, InviteUsedOnce, UninvitedNamesDiffer, LengthsAgree,
     CallsMatchRows, PasswordSticksUnlessOverlapped, Rows, Used, userVars

LEMMA CheckInviteKeepsInv ==
    ASSUME AccountsInv, NEW username \in Usernames, NEW is_admin \in BOOLEAN,
           CheckInvite(username, is_admin)
    PROVE  AccountsInv'
<1>1. UNCHANGED userVars /\ UNCHANGED <<UserInvite, UnavailableUsername, rows_modified, spoiled>>
  BY DEF CheckInvite, userVars
<1>2. OpenInvitesAreUnused' /\ AcceptedInviteMakesAccount' /\ RegistrationIsSound'
  BY <1>1, AdministeringKeepsRows, RegistrationKept
<1>3. AccountsTypeOK'
  BY DEF AccountsInv, AccountInv, AccountsTypeOK, CheckInvite, userVars
<1> QED
  BY <1>1, <1>2, <1>3, AdministeringKeepsRows DEF AccountsInv, AccountInv

LEMMA ReservedUsernamesKeepInv ==
    ASSUME AccountsInv, NEW name \in Names,
           CreateReservedUsername(name) \/ DeleteReservedUsername(name)
    PROVE  AccountsInv'
<1>1. /\ UNCHANGED userVars /\ UNCHANGED <<UserInvite, invite_check>>
      /\ rows_modified' \in BOOLEAN /\ spoiled' = Disturbed
      /\ UnavailableUsername' \subseteq Names
  <2>1. CASE CreateReservedUsername(name)
    BY <2>1 DEF CreateReservedUsername, userVars, AccountsInv, AccountInv, AccountsTypeOK
  <2>2. CASE DeleteReservedUsername(name)
    <3>1. rows_modified' \in BOOLEAN
      BY <2>2 DEF DeleteReservedUsername
    <3> QED
      BY <2>2, <3>1
      DEF DeleteReservedUsername, userVars, AccountsInv, AccountInv, AccountsTypeOK
  <2> QED
    BY <2>1, <2>2
<1>2. OpenInvitesAreUnused' /\ AcceptedInviteMakesAccount' /\ RegistrationIsSound'
  BY <1>1, AccountFacts, AdministeringKeepsRows, RegistrationKept
<1>3. AccountsTypeOK'
  BY <1>1, AccountFacts DEF AccountsInv, AccountInv, AccountsTypeOK, userVars
<1> QED
  BY <1>1, <1>2, <1>3, AdministeringKeepsRows DEF AccountsInv, AccountInv

(* A new invite has an id that no registration has: it is unused. *)
LEMMA CreateInviteKeepsInv ==
    ASSUME AccountsInv, NEW i \in Invites, CreateInvite(i)
    PROVE  AccountsInv'
<1>1. UNCHANGED userVars /\ UNCHANGED UnavailableUsername /\ invite_check' = None
  BY DEF CreateInvite, userVars
<1>2. CASE IsInvited(invite_check.username, i)
  <2>1. UNCHANGED <<UserInvite, rows_modified, spoiled>>
    BY <1>2 DEF CreateInvite
  <2>2. OpenInvitesAreUnused' /\ AcceptedInviteMakesAccount' /\ RegistrationIsSound'
    BY <1>1, <2>1, AdministeringKeepsRows, RegistrationKept
  <2>3. AccountsTypeOK'
    BY <1>1, <2>1 DEF AccountsInv, AccountInv, AccountsTypeOK, userVars
  <2> QED
    BY <1>1, <2>2, <2>3, AdministeringKeepsRows DEF AccountsInv, AccountInv
<1>3. CASE ~IsInvited(invite_check.username, i)
  <2>1. /\ invite_check \in [username : Usernames, is_admin : BOOLEAN]
        /\ UserInvite[i] = None /\ i \notin spoiled /\ ~Used(i)
        /\ UserInvite' = [UserInvite EXCEPT ![i] = [username |-> invite_check.username,
                            is_admin |-> invite_check.is_admin, accepted |-> FALSE]]
        /\ rows_modified' /\ rows_modified' \in BOOLEAN /\ spoiled' = Disturbed
    BY <1>3 DEF CreateInvite, AccountsInv, AccountInv, AccountsTypeOK, Used
  <2>2. /\ UserInvite' \in [Invites -> InviteType \cup {None}]
        /\ UserInvite'[i] # None /\ ~UserInvite'[i].accepted
        /\ \A j \in Invites : j # i => UserInvite'[j] = UserInvite[j]
    <3> DEFINE r == [username |-> invite_check.username, is_admin |-> invite_check.is_admin,
                     accepted |-> FALSE]
    <3>1. r \in InviteType /\ UserInvite' = [UserInvite EXCEPT ![i] = r] /\ ~r.accepted
      BY <2>1 DEF InviteType
    <3> HIDE DEF r
    <3> QED
      BY <3>1, AccountsConstants DEF AccountsInv, AccountInv, AccountsTypeOK
  <2>3. registration # None => registration.invite # i
    BY <2>1, AccountsConstants DEF AccountsInv, RegistrationIsSound
  <2>4. OpenInvitesAreUnused' /\ AcceptedInviteMakesAccount'
    BY <1>1, <2>1, <2>2, <2>3, AccountFacts, AdministeringKeepsRows
    DEF AccountsInv, OpenInvitesAreUnused, AcceptedInviteMakesAccount, IsOpen, Used
  <2>5. RegistrationIsSound'
    <3>1. registration' = registration /\ spoiled \subseteq spoiled' /\ rows_modified'
      BY <1>1, <2>1, AccountFacts, AdministeringKeepsRows
    <3>2. registration # None /\ registration.invite # None => registration.invite \in Invites
      BY AccountFacts DEF RegistrationType
    <3>3. /\ \A name : Rows(name)' = Rows(name)
          /\ \A j : Used(j)' = Used(j)
      BY <1>1, AdministeringKeepsRows
    <3> QED
      BY <2>2, <2>3, <3>1, <3>2, <3>3 DEF AccountsInv, RegistrationIsSound
  <2>6. AccountsTypeOK'
    BY <1>1, <2>1, <2>2, AccountFacts DEF AccountsInv, AccountInv, AccountsTypeOK, userVars
  <2> QED
    BY <1>1, <2>4, <2>5, <2>6, AdministeringKeepsRows DEF AccountsInv, AccountInv
<1> QED
  BY <1>2, <1>3

LEMMA UpdateInviteKeepsInv ==
    ASSUME AccountsInv, NEW i \in Invites, NEW username \in Usernames, NEW is_admin \in BOOLEAN,
           UpdateInvite(i, username, is_admin)
    PROVE  AccountsInv'
<1>1. /\ UNCHANGED userVars /\ UNCHANGED <<UnavailableUsername, invite_check>>
      /\ rows_modified' \in BOOLEAN /\ spoiled' = Disturbed
  BY DEF UpdateInvite, userVars
<1>2. /\ UserInvite' \in [Invites -> InviteType \cup {None}]
      /\ \A j \in Invites : UserInvite'[j] = None <=> UserInvite[j] = None
      /\ \A j \in Invites : UserInvite[j] # None =>
            (UserInvite'[j].accepted <=> UserInvite[j].accepted)
  <2>1. CASE UserInvite[i] = None
    BY <2>1 DEF UpdateInvite, AccountsInv, AccountInv, AccountsTypeOK
  <2>2. CASE UserInvite[i] # None
    <3>1. UserInvite[i] \in InviteType /\ UserInvite \in [Invites -> InviteType \cup {None}]
      BY <2>2, AccountFacts DEF AccountsInv, AccountInv, AccountsTypeOK
    <3>2. UserInvite' = [UserInvite EXCEPT ![i] =
             [[UserInvite[i] EXCEPT !.username = username] EXCEPT !.is_admin = is_admin]]
      BY <2>2, <3>1 DEF UpdateInvite
    <3> DEFINE r == [[UserInvite[i] EXCEPT !.username = username] EXCEPT !.is_admin = is_admin]
    <3>3. /\ r \in InviteType /\ UserInvite' = [UserInvite EXCEPT ![i] = r]
          /\ r.accepted = UserInvite[i].accepted
      BY <3>1, <3>2 DEF InviteType
    <3> HIDE DEF r
    <3> QED
      BY <2>2, <3>1, <3>3, AccountsConstants
  <2> QED
    BY <2>1, <2>2
<1>3. OpenInvitesAreUnused' /\ AcceptedInviteMakesAccount'
  BY <1>1, <1>2, AccountFacts, AdministeringKeepsRows
  DEF AccountsInv, OpenInvitesAreUnused, AcceptedInviteMakesAccount, IsOpen, Used
<1>4. RegistrationIsSound'
  BY <1>1, <1>2, AccountFacts, AdministeringKeepsRows
  DEF AccountsInv, RegistrationIsSound, RegistrationType
<1>5. AccountsTypeOK'
  BY <1>1, <1>2, AccountFacts DEF AccountsInv, AccountInv, AccountsTypeOK, userVars
<1> QED
  BY <1>1, <1>3, <1>4, <1>5, AdministeringKeepsRows DEF AccountsInv, AccountInv

LEMMA DeleteInviteKeepsInv ==
    ASSUME AccountsInv, NEW i \in Invites, DeleteInvite(i)
    PROVE  AccountsInv'
<1>1. /\ UNCHANGED userVars /\ UNCHANGED <<UnavailableUsername, invite_check>>
      /\ rows_modified' \in BOOLEAN /\ spoiled' \subseteq Invites /\ spoiled \subseteq spoiled'
      /\ registration # None /\ registration.invite = i => i \in spoiled'
      /\ registration # None /\ registration.step = "accepted" => registration.invite \in spoiled'
  BY AccountFacts DEF DeleteInvite, userVars, AccountsInv, AccountInv, AccountsTypeOK
<1>2. /\ UserInvite' \in [Invites -> InviteType \cup {None}]
      /\ UserInvite'[i] = None
      /\ \A j \in Invites : j # i => UserInvite'[j] = UserInvite[j]
  BY DEF DeleteInvite, AccountsInv, AccountInv, AccountsTypeOK
<1>3. OpenInvitesAreUnused' /\ AcceptedInviteMakesAccount'
  BY <1>1, <1>2, AccountFacts, AdministeringKeepsRows
  DEF AccountsInv, OpenInvitesAreUnused, AcceptedInviteMakesAccount, IsOpen, Used
<1>4. RegistrationIsSound'
  BY <1>1, <1>2, AccountFacts, AdministeringKeepsRows
  DEF AccountsInv, RegistrationIsSound, RegistrationType
<1>5. AccountsTypeOK'
  BY <1>1, <1>2, AccountFacts DEF AccountsInv, AccountInv, AccountsTypeOK, userVars
<1> QED
  BY <1>1, <1>3, <1>4, <1>5, AdministeringKeepsRows DEF AccountsInv, AccountInv
-----------------------------------------------------------------------------
LEMMA AccountsInitEstablishes == AccountsInit => AccountsInv
<1> SUFFICES ASSUME AccountsInit PROVE AccountsInv
  OBVIOUS
<1>1. User \in Seq(RowType) /\ Len(User) = 0 /\ DOMAIN User = {} /\ DOMAIN origin = {}
  BY DEF AccountsInit
<1>2. AccountsTypeOK
  <2>1. /\ UserInvite \in [Invites -> InviteType \cup {None}]
        /\ sessions_ \in [SessionIds -> [username : Names, is_admin : BOOLEAN] \cup {None}]
        /\ rows_modified \in BOOLEAN
    BY DEF AccountsInit
  <2>2. crashes \in 0..MaxCrashes
    <3>1. MaxCrashes \in Nat
      BY AccountsConstants
    <3> QED
      BY <3>1 DEF AccountsInit
  <2>3. /\ session_tasks \in Seq(Usernames) /\ origin \in Seq(Invites \cup {None})
        /\ acknowledged \in Seq(Passwords)
    BY DEF AccountsInit
  <2> QED
    BY <1>1, <2>1, <2>2, <2>3 DEF AccountsTypeOK, AccountsInit
<1>3. AccountInv /\ LengthsAgree
  BY <1>1, <1>2 DEF AccountInv, InviteUsedOnce, UninvitedNamesDiffer, LengthsAgree, AccountsInit
<1>4. CallsMatchRows
  BY DEF CallsMatchRows, AccountsInit
<1> QED
  BY <1>1, <1>3, <1>4 DEF AccountsInv, OpenInvitesAreUnused, RegistrationIsSound, IsOpen, Used,
     AcceptedInviteMakesAccount, PasswordSticksUnlessOverlapped, AccountsInit

LEMMA AccountsStutterKeepsInv ==
    ASSUME AccountsInv, UNCHANGED accountsVars
    PROVE  AccountsInv'
<1>1. UNCHANGED userVars /\ UNCHANGED <<UserInvite, UnavailableUsername, rows_modified, spoiled,
                                        invite_check>>
  BY DEF accountsVars, userVars, tables, history
<1>2. OpenInvitesAreUnused' /\ AcceptedInviteMakesAccount' /\ RegistrationIsSound'
  BY <1>1, AdministeringKeepsRows, RegistrationKept
<1>3. AccountsTypeOK'
  BY <1>1 DEF AccountsInv, AccountInv, AccountsTypeOK, userVars
<1> QED
  BY <1>1, <1>2, <1>3, AdministeringKeepsRows DEF AccountsInv, AccountInv

LEMMA AccountsNextKeepsInv ==
    ASSUME AccountsInv, [AccountsNext]_accountsVars
    PROVE  AccountsInv'
<1>1. CASE Registering
  BY <1>1, RegisterKeepsInv, ValidateInviteKeepsInv, AcceptInviteKeepsInv,
     CheckRowsModifiedKeepsInv, CreateUserKeepsInv, CrashKeepsInv
  DEF Registering, CreateUserThrows
<1>2. CASE LoggingIn
  BY <1>2, LoginKeepsInv, CreateSessionReadsKeepsInv, CreateSessionRetriesKeepsInv,
     CreateSessionKeepsInv, ChangePasswordKeepsInv, PasswordChangedKeepsInv
  DEF LoggingIn
<1>3. CASE Administering
  BY <1>3, CheckInviteKeepsInv, CreateInviteKeepsInv, DeleteInviteKeepsInv,
     UpdateInviteKeepsInv, ReservedUsernamesKeepInv
  DEF Administering
<1> QED
  BY <1>1, <1>2, <1>3, CrashKeepsInv, AccountsStutterKeepsInv DEF AccountsNext

(* The tables stay well formed, an invite makes at most one account and    *)
(* accounts made without one have different names, for any interleaving of *)
(* the statements of the strands that share the database and any crash.    *)
THEOREM AccountsSafe == AccountsSpec => []AccountInv
<1>1. AccountsInv => AccountInv
  BY DEF AccountsInv
<1> QED
  BY <1>1, AccountsInitEstablishes, AccountsNextKeepsInv, PTL DEF AccountsSpec

(* An accepted invite has made an account or is about to, unless a crash,  *)
(* its deletion or another statement disturbed its registration.           *)
THEOREM AcceptedInvitesAreKept == AccountsSpec => []AcceptedInviteMakesAccount
<1>1. AccountsInv => AcceptedInviteMakesAccount
  BY DEF AccountsInv
<1> QED
  BY <1>1, AccountsInitEstablishes, AccountsNextKeepsInv, PTL DEF AccountsSpec

(* Only a CreateSession that had read the row before a change of password  *)
(* can undo it.                                                            *)
THEOREM AcknowledgedPasswordsStick == AccountsSpec => []PasswordSticksUnlessOverlapped
<1>1. AccountsInv => PasswordSticksUnlessOverlapped
  BY DEF AccountsInv
<1> QED
  BY <1>1, AccountsInitEstablishes, AccountsNextKeepsInv, PTL DEF AccountsSpec
=============================================================================
