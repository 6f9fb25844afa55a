------------------------------- MODULE VmInfo -------------------------------
(***************************************************************************)
(* The list of virtual machines that clients and admins are shown          *)
(* (VirtualMachinesList in src/CollabVmServer.hpp) and how it is kept up   *)
(* to date: a bulk update asks every machine on a timer, a single update   *)
(* follows the start, the end or a change of settings of one machine, and  *)
(* machines are created and deleted meanwhile.                             *)
(*                                                                         *)
(* Actors: the strand of virtual_machines_ and the strand of every         *)
(* machine.  A machine answers on its own strand: the callback is wrapped  *)
(* with the strand of virtual_machines_, but VmInfoProducer's destructor   *)
(* calls the wrapped function directly, which runs it where it is.  So     *)
(* callbacks of two machines, or of a machine and the list, may run at the *)
(* same time.  A callback begins by reading what it is going to replace    *)
(* and ends by writing it: one that overlaps another loses its updates.    *)
(*                                                                         *)
(* A list holds ids only, Blank for an entry that was allocated and never  *)
(* filled.  Left out: thumbnails, the number of viewers shown, and the     *)
(* creation of a machine under the id of a deleted one that still has      *)
(* handlers queued.                                                        *)
(***************************************************************************)
EXTENDS Integers, FiniteSets, SequencesExt

CONSTANTS
    Vms,         \* ids of virtual machines
    Blank,
    Threads,     \* threads that run handlers (option --threads)
    MaxUpdates,  \* bound: single updates of one machine queued
    MaxChanges   \* bound: starts, stops, creations and deletions

ASSUME VmInfoConstants ==
    /\ IsFiniteSet(Vms)
    /\ Blank \notin Vms
    /\ Threads \in Nat \ {0}
    /\ MaxUpdates \in Nat
    /\ MaxChanges \in Nat

VARIABLES
    admin_virtual_machines_,    \* ids of the machines there are
    active_,                    \* machines that are started
    has_vm_info,                \* machines with an entry in vm_info_list_
    pending_info,               \* what a machine has answered to the bulk update
    pending_vm_info_requests_,
    pending_vm_info_updates_,
    vm_info_list_,              \* shown to clients
    admin_vm_info_list_,        \* shown to admins
    bulk,                       \* machines with a bulk update queued
    single,                     \* number of single updates queued for each
    running,                    \* callbacks that have begun
    changes,                    \* number of changes so far
    raced,                      \* history: two threads used the list at once
    overtaken,                  \* history: a change met the current bulk update
    crashed                     \* an assertion failed or null was dereferenced

vars == <<admin_virtual_machines_, active_, has_vm_info, pending_info,
          pending_vm_info_requests_, pending_vm_info_updates_, vm_info_list_,
          admin_vm_info_list_, bulk, single, running, changes, raced, overtaken, crashed>>

machineVars == <<admin_virtual_machines_, active_, changes>>
infoVars == <<has_vm_info, pending_info>>
counters == <<pending_vm_info_requests_, pending_vm_info_updates_>>
lists == <<vm_info_list_, admin_vm_info_list_>>

(* The machines read from the database; none of them is started. *)
Init ==
    /\ admin_virtual_machines_ \in SUBSET Vms
    /\ active_ = {}
    /\ has_vm_info = {}
    /\ pending_info = [v \in Vms |-> "none"]
    /\ pending_vm_info_requests_ = 0
    /\ pending_vm_info_updates_ = 0
    /\ vm_info_list_ = << >>
    /\ admin_vm_info_list_ = SetToSeq(admin_virtual_machines_)
    /\ bulk = {}
    /\ single = [v \in Vms |-> 0]
    /\ running = {}
    /\ changes = 0
    /\ raced = FALSE
    /\ overtaken = FALSE
    /\ crashed = FALSE

-----------------------------------------------------------------------------
(* ResizableList.  RemoveFirst allocates one entry less and asserts that   *)
(* this is what remove_copy_if leaves; there is nothing to say of a list   *)
(* for which the assertion fails.                                          *)
Count(list, v) == Cardinality({i \in DOMAIN list : list[i] = v})
RemovesOne(list, v) == Count(list, v) = 1
Without(list, v) ==
    IF Contains(list, v)
    THEN RemoveAt(list, CHOOSE i \in 1..Len(list) : list[i] = v)
    ELSE list
Padded(list, size) == list \o [i \in 1..(size - Len(list)) |-> Blank]

-----------------------------------------------------------------------------
(* A handler of the list, or a callback, runs beside another callback. *)
UsesTheList == raced' = (raced \/ running # {})

BulkUnderWay == pending_vm_info_requests_ # 0

Change ==
    /\ ~crashed
    /\ changes < MaxChanges
    /\ changes' = changes + 1

(* UpdateVmInfo: a single update is on its way. *)
UpdateVmInfo(v) ==
    /\ single[v] < MaxUpdates
    /\ single' = [single EXCEPT ![v] = @ + 1]

Start(v) ==
    /\ Change
    /\ v \in admin_virtual_machines_ \ active_
    /\ active_' = active_ \cup {v}
    /\ UpdateVmInfo(v)
    /\ UNCHANGED <<admin_virtual_machines_, infoVars, counters, lists,
                   bulk, running, raced, overtaken, crashed>>

(* Stop alone updates nothing; OnStop does, later. *)
Stop(v) ==
    /\ Change
    /\ v \in active_
    /\ active_' = active_ \ {v}
    /\ UNCHANGED <<admin_virtual_machines_, infoVars, counters, lists,
                   bulk, single, running, raced, overtaken, crashed>>

(* OnStart, OnStop, and UPDATE_VM_CONFIG with valid settings. *)
Notify(v) ==
    /\ Change
    /\ v \in admin_virtual_machines_
    /\ UpdateVmInfo(v)
    /\ UNCHANGED <<admin_virtual_machines_, active_, infoVars, counters,
                   lists, bulk, running, raced, overtaken, crashed>>

(* CREATE_VM: the new machine has an entry for admins and none for clients. *)
AddAdminVirtualMachine(v) ==
    /\ Change
    /\ v \notin admin_virtual_machines_
    /\ v \notin bulk /\ single[v] = 0 /\ \A r \in running : r.vm # v
    /\ admin_virtual_machines_' = admin_virtual_machines_ \cup {v}
    /\ has_vm_info' = has_vm_info \ {v}
    /\ pending_info' = [pending_info EXCEPT ![v] = "none"]
    /\ admin_vm_info_list_' = Append(admin_vm_info_list_, v)
    /\ UsesTheList
    /\ overtaken' = (overtaken \/ BulkUnderWay \/ Count(vm_info_list_, v) # 0)
    /\ UNCHANGED <<active_, counters, vm_info_list_, bulk, single, running, crashed>>

(* DELETE_VM: the machine is stopped and taken from the admins' list only. *)
(* A bulk update that is queued keeps the object alive; a single one does  *)
(* not.                                                                    *)
RemoveAdminVirtualMachine(v) ==
    /\ Change
    /\ v \in admin_virtual_machines_
    /\ admin_virtual_machines_' = admin_virtual_machines_ \ {v}
    /\ active_' = active_ \ {v}
    /\ admin_vm_info_list_' = Without(admin_vm_info_list_, v)
    /\ crashed' = ~RemovesOne(admin_vm_info_list_, v)
    /\ UsesTheList
    /\ overtaken' = (overtaken \/ BulkUnderWay)
    /\ UNCHANGED <<infoVars, counters, vm_info_list_, bulk, single,
                   running>>

-----------------------------------------------------------------------------
(* Mutant of MayUpdate: a pending update is forgotten. *)
MayUpdateAlways == TRUE

(* An update that is pending is not started again. *)
MayUpdate == pending_vm_info_requests_ = 0

(* The handler of vm_info_timer_.  It asks for nothing while an update is  *)
(* pending, and without machines there is nothing to ask.                  *)
UpdateVirtualMachineInfoList ==
    /\ ~crashed
    /\ MayUpdate
    /\ pending_vm_info_requests_' = Cardinality(admin_virtual_machines_)
    /\ pending_vm_info_updates_' = 0
    /\ bulk' = bulk \cup admin_virtual_machines_
    /\ UsesTheList
    /\ overtaken' = (overtaken /\ admin_virtual_machines_ = {})
    /\ UNCHANGED <<machineVars, infoVars, lists, single, running, crashed>>

(* SetVmInfo on the strand of machine v, and the callback's reads. *)
Callback(v, kind) ==
    [vm |-> v, kind |-> kind, active |-> v \in active_,
     requests |-> pending_vm_info_requests_, updates |-> pending_vm_info_updates_,
     list |-> vm_info_list_, admin_list |-> admin_vm_info_list_]

SetVmInfo(v, kind) ==
    /\ ~crashed
    /\ Cardinality(running) < Threads
    /\ \A r \in running : r.vm # v
    /\ running' = running \cup {Callback(v, kind)}
    /\ UsesTheList

BeginBulk(v) ==
    /\ v \in bulk
    /\ SetVmInfo(v, "bulk")
    /\ bulk' = bulk \ {v}
    /\ UNCHANGED <<machineVars, infoVars, counters, lists, single,
                   overtaken, crashed>>

BeginSingle(v) ==
    /\ single[v] > 0
    /\ SetVmInfo(v, "single")
    /\ single' = [single EXCEPT ![v] = @ - 1]
    /\ UNCHANGED <<machineVars, infoVars, counters, lists, bulk,
                   overtaken, crashed>>

(* The answer of machine r.vm, with an entry for clients or without. *)
Answer(r) == IF r.active THEN "active" ELSE "stopped"

(* The last callback of a bulk update builds both lists from the answers:  *)
(* one entry for every machine there is now, and one for every answer that *)
(* was counted.  More entries than were counted are set past the end.      *)
PublishLists(pending, updates) ==
    LET answered == {v \in admin_virtual_machines_ : pending[v] # "none"}
        listed == {v \in answered : pending[v] = "active"}
    IN
    /\ admin_vm_info_list_' =
           Padded(SetToSeq(answered), Cardinality(admin_virtual_machines_))
    /\ vm_info_list_' = Padded(SetToSeq(listed), updates)
    /\ crashed' = (Cardinality(listed) > updates)
    /\ pending_info' = [v \in Vms |-> IF v \in answered THEN "none" ELSE pending[v]]

(* Mutant of RequestsLeft: a machine that is not started is not counted. *)
RequestsLeftOfStarted(r) == IF r.active THEN r.requests - 1 ELSE r.requests

RequestsLeft(r) == r.requests - 1

(* The callback of the bulk update. *)
EndBulk(r) ==
    LET pending == [pending_info EXCEPT ![r.vm] = Answer(r)]
        updates == IF r.active THEN r.updates + 1 ELSE pending_vm_info_updates_
    IN
    /\ ~crashed
    /\ r.kind = "bulk"
    /\ running' = running \ {r}
    /\ has_vm_info' = IF r.active THEN has_vm_info \cup {r.vm} ELSE has_vm_info \ {r.vm}
    /\ pending_vm_info_updates_' = updates
    /\ pending_vm_info_requests_' = RequestsLeft(r)
    /\ IF RequestsLeft(r) = 0 THEN PublishLists(pending, updates)
       ELSE pending_info' = pending /\ UNCHANGED <<lists, crashed>>
    /\ UNCHANGED <<machineVars, bulk, single, raced, overtaken>>

(* The callback of a single update.  admin_virtual_machines_[vm_id] of a   *)
(* machine that is gone is null.                                           *)
EndSingleOfDeleted(r) ==
    /\ ~crashed
    /\ r.kind = "single"
    /\ r.vm \notin admin_virtual_machines_
    /\ crashed' = TRUE
    /\ running' = running \ {r}
    /\ UNCHANGED <<machineVars, infoVars, counters, lists, bulk, single,
                   raced, overtaken>>

(* The machine has answered to the bulk update already: the answer is      *)
(* replaced.                                                               *)
EndSingleInBulk(r) ==
    /\ ~crashed
    /\ r.kind = "single"
    /\ r.vm \in admin_virtual_machines_
    /\ pending_info[r.vm] # "none"
    /\ pending_info' = [pending_info EXCEPT ![r.vm] = Answer(r)]
    /\ overtaken' = TRUE
    /\ running' = running \ {r}
    /\ UNCHANGED <<machineVars, has_vm_info, counters, lists, bulk, single, raced, crashed>>

(* Mutant of HasVmInfo: the entry is added and not remembered. *)
HasVmInfoForgotten(r) == IF r.active THEN has_vm_info ELSE has_vm_info \ {r.vm}

HasVmInfo(r) == IF r.active THEN has_vm_info \cup {r.vm} ELSE has_vm_info \ {r.vm}

(* The entry of the machine is updated, added or removed. *)
EndSingle(r) ==
    LET v == r.vm
        had == v \in has_vm_info
    IN
    /\ ~crashed
    /\ r.kind = "single"
    /\ v \in admin_virtual_machines_
    /\ pending_info[v] = "none"
    /\ running' = running \ {r}
    /\ admin_vm_info_list_' = r.admin_list
    /\ vm_info_list_' = CASE had /\ ~r.active -> Without(r.list, v)
                          [] ~had /\ r.active -> Append(r.list, v)
                          [] OTHER            -> r.list
    /\ has_vm_info' = HasVmInfo(r)
    /\ crashed' = (had /\ ~r.active /\ ~RemovesOne(r.list, v))
    /\ UNCHANGED <<machineVars, pending_info, counters, bulk, single, raced, overtaken>>

End(r) == EndBulk(r) \/ EndSingleOfDeleted(r) \/ EndSingleInBulk(r) \/ EndSingle(r)

Next ==
    \/ \E v \in Vms :
        \/ Start(v) \/ Stop(v) \/ Notify(v)
        \/ AddAdminVirtualMachine(v) \/ RemoveAdminVirtualMachine(v)
        \/ BeginBulk(v) \/ BeginSingle(v)
    \/ UpdateVirtualMachineInfoList
    \/ \E r \in running : End(r)

Spec == Init /\ [][Next]_vars

(* The timer starts itself again and the io_context runs what is queued. *)
Fairness ==
    /\ WF_vars(UpdateVirtualMachineInfoList)
    /\ WF_vars(\E r \in running : End(r))
    /\ \A v \in Vms : WF_vars(BeginBulk(v)) /\ WF_vars(BeginSingle(v))

FairSpec == Spec /\ Fairness
-----------------------------------------------------------------------------
TypeOK ==
    /\ admin_virtual_machines_ \subseteq Vms
    /\ active_ \subseteq admin_virtual_machines_
    /\ has_vm_info \subseteq Vms
    /\ pending_info \in [Vms -> {"none", "stopped", "active"}]
    /\ counters \in Nat \X Nat
    /\ lists \in Seq(Vms \cup {Blank}) \X Seq(Vms \cup {Blank})
    /\ bulk \subseteq Vms
    /\ single \in [Vms -> 0..MaxUpdates]
    /\ Cardinality(running) <= Threads
    /\ {raced, overtaken, crashed} \subseteq BOOLEAN

(* Callbacks of the bulk update that have not ended. *)
Outstanding == Cardinality(bulk) + Cardinality({r \in running : r.kind = "bulk"})

(* However callbacks overlap and whatever is created or deleted meanwhile, *)
(* the lists are not rebuilt before every machine asked has answered: the  *)
(* count of requests may lose decrements and never gains one.              *)
NoAnswerIsMissed == pending_vm_info_requests_ >= Outstanding

(* ... and while no two callbacks overlap it is exact, also when machines  *)
(* that were asked are deleted: the count reaches 0, without which no      *)
(* further update would ever start.                                        *)
CountIsExactUnlessRaced == ~raced => pending_vm_info_requests_ = Outstanding

(* The invariant of the count of pending requests. *)
RequestsInv == TypeOK /\ NoAnswerIsMissed /\ CountIsExactUnlessRaced

(* Between bulk updates that nothing overtook, admins are shown exactly    *)
(* the machines there are, and clients each machine that has_vm_info says  *)
(* is listed, once, with no blank entry: the assertion in RemoveFirst      *)
(* rests on it.  (An entry of a deleted machine stays.)                    *)
ListsMatchUnlessOvertaken ==
    ~raced /\ ~overtaken /\ ~crashed /\ ~BulkUnderWay =>
        /\ ToSet(admin_vm_info_list_) = admin_virtual_machines_
        /\ Len(admin_vm_info_list_) = Cardinality(admin_virtual_machines_)
        /\ Count(vm_info_list_, Blank) = 0
        /\ \A v \in admin_virtual_machines_ :
               Count(vm_info_list_, v) = IF v \in has_vm_info THEN 1 ELSE 0

(* After the last change clients come to see exactly the started machines, *)
(* whatever single updates were lost or overtook a bulk update: the timer  *)
(* repairs it.  Not if updates raced, nor if the last machine was deleted, *)
(* for then nothing rebuilds the list.                                     *)
ListSettles ==
    <>[]( \/ raced \/ crashed \/ admin_virtual_machines_ = {}
          \/ IsInjective(vm_info_list_) /\ ToSet(vm_info_list_) = active_ )

(* assert(copy_end == vm_list.end()) in RemoveFirst, and a single update   *)
(* finds its machine.                                                      *)
NothingCrashes == ~raced => ~crashed
=============================================================================
