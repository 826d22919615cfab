--------------------------- MODULE ExecutionRuntime ---------------------------
(***************************************************************************)
(* Where a job's tasks may run (pkg/executionruntime, the executionSession *)
(* of pkg/worker/compiler/execution_requirements.go, pkg/execution).       *)
(*                                                                         *)
(* One job is executed by invocations, each under one JobDB lease.  The    *)
(* recipe stages the demand of its current node; the guarded task worker   *)
(* compares it with the process's allocation and either runs the task or   *)
(* hands the job to another environment.  A process keeps one lease per    *)
(* job in a map that renewals refresh and endings clean up; JobDB may      *)
(* expire a lease, and give the job to the same process again, while a     *)
(* task of the old invocation is still running.  A demand is a quantity    *)
(* that an allocation must reach.                                          *)
(***************************************************************************)
EXTENDS Naturals, Sequences

CONSTANTS
    Worker,          \* processes
    Alloc,           \* a process's allocation
    Needs,           \* per task of the recipe: what its node requires
    Asks,            \* per task: what its extension asks for when it runs; 0: nothing
    NoDemand,        \* nothing staged, no demand in the payload
    MaxInvocations,  \* bound: leases acquired
    MaxCatches,      \* bound: failures a recipe catches in one invocation
    MaxUpdates       \* bound: payload updates by other clients

ASSUME RuntimeAssumption ==
    /\ Alloc \in [Worker -> Nat]
    /\ Needs \in Seq(Nat)
    /\ Asks \in Seq(Nat)
    /\ Len(Asks) = Len(Needs)
    /\ NoDemand \notin Nat
    /\ MaxInvocations \in Nat
    /\ MaxCatches \in Nat
    /\ MaxUpdates \in Nat

VARIABLES
    done,      \* JobDB: tasks with a recorded result
    over,      \* JobDB: the job has completed or failed
    owner,     \* JobDB: the invocation whose lease is valid; 0: none
    payload,   \* JobDB: the demand in the client payload, and the payload's revision
    inv,       \* the invocations, with their leaseState, in order of acquisition
    leases,    \* Runtime.leases per process: the invocation registered for the job
    updates,   \* payload updates by other clients
    handoff,   \* history: the last acknowledged environment handoff
    child      \* history: the last child job submitted: by whose task, on whose lease

vars == <<done, over, owner, payload, inv, leases, updates, handoff, child>>

None == 0
Task == 1..Len(Needs)
Demands == Nat \cup {NoDemand}
Payloads == [demand : Demands, rev : Nat]

Invocations ==
    [w : Worker,
     pc : {"stage", "guard", "running", "yield", "failed", "ended"},
     task : Nat,           \* the recipe's current task
     catches : Nat,
     lost : BOOLEAN,       \* the lost lease has been noticed: the context is done
     seen : Payloads,      \* the lease snapshot's client payload
     by : Nat,             \* the running task's lease (restrictedAccess's `original')
     read : Demands,       \* the demand its guard read
     demand : Demands,     \* leaseState.demand
     blocked : BOOLEAN,    \* leaseState.blocked
     refused : BOOLEAN]    \* history: a handoff of it was rejected or uncertain

-----------------------------------------------------------------------------
(* Mutant: a demand that just misses the allocation is taken to fit. *)
FitsAlmost(demand, w) == demand # NoDemand => Alloc[w] + 2 >= demand

(* Compare: the fields of the demand that the allocation does not reach. *)
Fits(demand, w) == demand # NoDemand => Alloc[w] >= demand

(* Mutant: the extension's request is reduced to what the recipe staged. *)
NegotiateLess(demand, needs) == IF needs < demand THEN needs ELSE demand

(* Negotiate: the extension's request never weakens what the recipe staged. *)
Negotiate(demand, needs) == IF needs > demand THEN needs ELSE demand

(* Stage writes to the lease that is registered, whoever stages. *)
Stage(s, w, demand) == IF leases[w] = None THEN s ELSE [s EXCEPT ![leases[w]].demand = demand]

(* Mutant: the registration is removed whoever it is of. *)
ForgetAny(i) == [leases EXCEPT ![inv[i].w] = None]

(* forget removes a registration only if it is of the same invocation. *)
Forget(i) == IF leases[inv[i].w] = i THEN [leases EXCEPT ![inv[i].w] = None] ELSE leases

(* prepareReschedule: a demand that differs from the one in the lease's     *)
(* payload snapshot is published, if the payload is still at that revision. *)
Publishes(l) == inv[l].demand # NoDemand /\ inv[l].seen.demand # inv[l].demand
Updated(l) == IF Publishes(l) THEN [demand |-> inv[l].demand, rev |-> payload.rev + 1] ELSE payload
Accepts(i, l) == owner = i /\ (Publishes(l) => payload.rev = inv[l].seen.rev)

Goto(i, pc) == [inv EXCEPT ![i].pc = pc]

-----------------------------------------------------------------------------
(* GetJobLease, PollWork, RunWithLease: a process acquires the job.  Its    *)
(* earlier invocation is over, or a task of it has not returned yet.        *)
Acquire(w) ==
    /\ ~over
    /\ owner = None
    /\ Len(inv) < MaxInvocations
    /\ \A j \in DOMAIN inv : inv[j].w = w => inv[j].pc \in {"running", "ended"}
    /\ inv' = Append(inv, [w |-> w, pc |-> "stage", task |-> done + 1, catches |-> 0, lost |-> FALSE,
                           seen |-> payload, by |-> None, read |-> NoDemand,
                           demand |-> NoDemand, blocked |-> FALSE, refused |-> FALSE])
    /\ owner' = Len(inv) + 1
    /\ leases' = [leases EXCEPT ![w] = Len(inv) + 1]
    /\ UNCHANGED <<done, over, payload, updates, handoff, child>>

(* JobDB expires the lease; the invocation does not know yet. *)
Expire ==
    /\ owner # None
    /\ owner' = None
    /\ UNCHANGED <<done, over, payload, inv, leases, updates, handoff, child>>

(* Mutant: a renewed lease starts with a fresh state. *)
RenewFresh(i) ==
    /\ inv[i].pc # "ended"
    /\ ~inv[i].lost
    /\ owner = i
    /\ inv' = [inv EXCEPT ![i] = [@ EXCEPT !.seen = payload, !.demand = NoDemand, !.blocked = FALSE]]
    /\ leases' = [leases EXCEPT ![inv[i].w] = i]
    /\ UNCHANGED <<done, over, owner, payload, updates, handoff, child>>

(* The heartbeat renews the lease: a new snapshot with the invocation's     *)
(* state; or learns that the lease is lost.                                 *)
Renew(i) ==
    /\ inv[i].pc # "ended"
    /\ ~inv[i].lost
    /\ \/ /\ owner = i
          /\ inv' = [inv EXCEPT ![i].seen = payload]
          /\ leases' = [leases EXCEPT ![inv[i].w] = i]
       \/ /\ owner # i
          /\ inv' = [inv EXCEPT ![i].lost = TRUE]
          /\ leases' = Forget(i)
    /\ UNCHANGED <<done, over, owner, payload, updates, handoff, child>>

(* Mutant: cleanup reaches for the next invocation's registration. *)
CleanupNext(i) ==
    /\ inv[i].pc = "ended"
    /\ leases' = [leases EXCEPT ![inv[i].w] = i + 1]
    /\ UNCHANGED <<done, over, owner, payload, inv, updates, handoff, child>>

(* StopKeepAlive and the deferred forget of an invocation that has ended.   *)
Cleanup(i) ==
    /\ inv[i].pc = "ended"
    /\ leases' = Forget(i)
    /\ UNCHANGED <<done, over, owner, payload, inv, updates, handoff, child>>

(* Another client rewrites the payload. *)
UpdatePayload ==
    /\ updates < MaxUpdates
    /\ updates' = updates + 1
    /\ payload' = [demand |-> NoDemand, rev |-> payload.rev + 1]
    /\ UNCHANGED <<done, over, owner, inv, leases, handoff, child>>

-----------------------------------------------------------------------------
(* stageCurrent: the recipe reaches its next unfinished task; finished ones *)
(* are replayed and never checked.                                          *)
StageNode(i) ==
    /\ inv[i].pc = "stage"
    /\ inv[i].task \in Task
    /\ inv' = [Stage(inv, inv[i].w, Needs[inv[i].task]) EXCEPT ![i].pc = "guard"]
    /\ UNCHANGED <<done, over, owner, payload, leases, updates, handoff, child>>

(* guardedTask.Run up to the task itself. *)
Guard(i) ==
    LET w == inv[i].w
        l == leases[w]
    IN  /\ inv[i].pc = "guard"
        /\ \/ /\ l # None => inv[l].blocked
              /\ inv' = Goto(i, "failed")
           \/ /\ l # None /\ ~inv[l].blocked /\ ~Fits(inv[l].demand, w)
              /\ inv' = [inv EXCEPT ![i] = [@ EXCEPT !.pc = "yield", !.by = l, !.read = inv[l].demand]]
           \/ /\ l # None /\ ~inv[l].blocked /\ Fits(inv[l].demand, w)
              /\ inv' = [inv EXCEPT ![i] = [@ EXCEPT !.pc = "running", !.by = l, !.read = inv[l].demand]]
        /\ UNCHANGED <<done, over, owner, payload, leases, updates, handoff, child>>

(* The task ends.  Its result counts only under a valid lease; an extension *)
(* that asks for another environment has its request added to the demand    *)
(* its guard read; a request that is met already, or that has no staged     *)
(* demand to add to, is a failure.                                          *)
TaskEnds(i) ==
    LET k == inv[i].task
    IN  /\ inv[i].pc = "running"
        /\ \/ /\ owner = i
              /\ done' = k
              /\ inv' = [inv EXCEPT ![i].pc = "stage", ![i].task = k + 1]
           \/ /\ owner # i
              /\ inv' = Goto(i, "ended")
              /\ UNCHANGED done
           \/ /\ inv' = Goto(i, "failed")
              /\ UNCHANGED done
           \/ /\ Asks[k] > Alloc[inv[i].w] /\ ~inv[i].lost /\ inv[i].read # NoDemand
              /\ inv' = [Stage(inv, inv[i].w, Negotiate(inv[i].read, Asks[k])) EXCEPT ![i].pc = "yield"]
              /\ UNCHANGED done
        /\ UNCHANGED <<over, owner, payload, leases, updates, handoff, child>>

(* yieldEnvironment: the handoff is acknowledged, or its outcome is an      *)
(* error (it may have been applied all the same) and the invocation is      *)
(* blocked.                                                                 *)
Yield(i) ==
    LET l == inv[i].by
    IN  /\ inv[i].pc = "yield"
        /\ \/ /\ Accepts(i, l)
              /\ owner' = None
              /\ payload' = Updated(l)
              /\ handoff' = [by |-> i, task |-> inv[i].task, demand |-> inv[l].demand]
              /\ inv' = Goto(i, "ended")
              /\ leases' = Forget(i)
           \/ /\ \/ Accepts(i, l) /\ owner' = None /\ payload' = Updated(l)
                 \/ UNCHANGED <<owner, payload>>
              /\ inv' = [Goto(i, "failed") EXCEPT ![l].blocked = TRUE, ![i].refused = TRUE]
              /\ leases' \in {leases, Forget(i)}
              /\ UNCHANGED handoff
        /\ UNCHANGED <<done, over, updates, child>>

(* An ordinary wait: the engine reschedules the job from the recipe's       *)
(* current position.                                                        *)
Reschedule(i) ==
    /\ inv[i].pc = "guard"
    /\ \/ Accepts(i, i) /\ owner' = None /\ payload' = Updated(i)
       \/ ~Accepts(i, i) /\ UNCHANGED <<owner, payload>>
    /\ inv' = Goto(i, "ended")
    /\ leases' = Forget(i)
    /\ UNCHANGED <<done, over, updates, handoff, child>>

(* The recipe catches the failure and dispatches a task again.  A recipe    *)
(* whose job this process has acquired anew is not continued.               *)
RecipeCatches(i) ==
    /\ inv[i].pc = "failed"
    /\ \A j \in DOMAIN inv : j > i => inv[j].w # inv[i].w
    /\ inv[i].catches < MaxCatches
    /\ inv' = [inv EXCEPT ![i].pc = "stage", ![i].catches = @ + 1]
    /\ UNCHANGED <<done, over, owner, payload, leases, updates, handoff, child>>

(* The recipe ends, in success or failure. *)
Complete(i) ==
    /\ \/ inv[i].pc = "failed"
       \/ inv[i].pc = "stage" /\ inv[i].task \notin Task
    /\ IF owner = i THEN over' = TRUE /\ owner' = None ELSE UNCHANGED <<over, owner>>
    /\ inv' = Goto(i, "ended")
    /\ leases' = Forget(i)
    /\ UNCHANGED <<done, payload, updates, handoff, child>>

(* Mutant: the registered lease is used without comparing it with the task's. *)
SubmitChildAny(i) ==
    LET l == leases[inv[i].w]
    IN  /\ inv[i].pc = "running"
        /\ l # None
        /\ ~inv[i].lost
        /\ owner = l
        /\ child' = [by |-> i, on |-> l]
        /\ UNCHANGED <<done, over, owner, payload, inv, leases, updates, handoff>>

(* submitOnCurrentLease: a running task submits a child job on the lease    *)
(* that is registered, if it is still the task's own.                       *)
SubmitChild(i) ==
    LET l == leases[inv[i].w]
    IN  /\ inv[i].pc = "running"
        /\ l # None
        /\ l = inv[i].by
        /\ ~inv[i].lost
        /\ owner = l
        /\ child' = [by |-> i, on |-> l]
        /\ UNCHANGED <<done, over, owner, payload, inv, leases, updates, handoff>>

-----------------------------------------------------------------------------
Init ==
    /\ done = 0
    /\ over = FALSE
    /\ owner = None
    /\ payload = [demand |-> NoDemand, rev |-> 0]
    /\ inv = <<>>
    /\ leases = [w \in Worker |-> None]
    /\ updates = 0
    /\ handoff = <<>>
    /\ child = [by |-> None, on |-> None]

Step(i) ==
    \/ Renew(i)
    \/ Cleanup(i)
    \/ StageNode(i)
    \/ Guard(i)
    \/ TaskEnds(i)
    \/ Yield(i)
    \/ Reschedule(i)
    \/ RecipeCatches(i)
    \/ Complete(i)
    \/ SubmitChild(i)

Next ==
    \/ \E w \in Worker : Acquire(w)
    \/ \E i \in DOMAIN inv : Step(i)
    \/ Expire
    \/ UpdatePayload

Spec == Init /\ [][Next]_vars

-----------------------------------------------------------------------------
(* Properties. *)

(* The runtime's state has the shape its code gives it. *)
TypeOK ==
    /\ done \in 0..Len(Needs)
    /\ over \in BOOLEAN
    /\ inv \in Seq(Invocations)
    /\ owner \in 0..Len(inv)
    /\ payload \in Payloads
    /\ leases \in [Worker -> 0..Len(inv)]
    /\ \A i \in DOMAIN inv : inv[i].by \in 0..Len(inv)
    /\ updates \in Nat

(* "Capability, resource, and base constraints require this guard": a task  *)
(* is only ever started by a process whose allocation reaches what its node *)
(* requires, whatever was staged, renewed, negotiated or lost before.       *)
TaskRunsWhereItFits ==
    \A i \in DOMAIN inv : inv[i].pc = "running" => Alloc[inv[i].w] >= Needs[inv[i].task]

(* "A rejected/uncertain handoff cannot be recovered by a recipe catch that *)
(* dispatches another task under the same execution invocation", and a      *)
(* renewal does not lose the block.                                         *)
BlockedRunsNothing == \A i \in DOMAIN inv : inv[i].refused => inv[i].pc # "running"

(* While JobDB holds an invocation's lease valid, and it has not ended or   *)
(* been blocked, the process has it registered: the late cleanup of an      *)
(* earlier invocation of the same job never takes it out.                   *)
ValidLeaseIsRegistered ==
    \A i \in DOMAIN inv :
        (owner = i /\ inv[i].pc # "ended" /\ ~inv[i].lost /\ ~inv[i].blocked) => leases[inv[i].w] = i

(* An acknowledged environment handoff names a demand that the process      *)
(* could not meet; and it covers the unfinished task, unless the process    *)
(* had an earlier invocation of the job, whose late task stages too.        *)
HandoffIsNeeded ==
    handoff # <<>> =>
        LET w == inv[handoff.by].w
        IN  /\ handoff.demand # NoDemand
            /\ handoff.demand > Alloc[w]
            /\ \/ handoff.demand >= Needs[handoff.task]
               \/ \E j \in 1..(handoff.by - 1) : inv[j].w = w

(* "A staged demand belongs to the recipe's current task": the demand an    *)
(* acknowledged handoff publishes covers the task that could not run.       *)
StagedDemandIsCurrent == handoff # <<>> => handoff.demand >= Needs[handoff.task]

(* A child job is submitted under the lease of the invocation that runs the *)
(* task, never under a later lease of the same process.                     *)
ChildrenBelongToTheirTask == child.by = child.on
=============================================================================
