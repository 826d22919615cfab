----------------------------- MODULE ChildGroup -----------------------------
(***************************************************************************)
(* The children an op starts, awaits and collects (pkg/ops/recipe), and    *)
(* the ones its command submits through the child broker                   *)
(* (pkg/childbroker).  An op is a chain of durable tasks:                  *)
(*                                                                         *)
(*   "group"    recipe.child_group: start, await, collect;                 *)
(*   "start"    recipe.child_group.start: start, and report what started;  *)
(*   "multi"    recipes.run_and_wait: start all or fail, then await all;   *)
(*   "command"  a command that submits children over the broker.           *)
(*                                                                         *)
(* A task is attempted again from the state its predecessor recorded; the  *)
(* jobs it created stay in JobDB.  A child's goal can be reached by        *)
(* another job, a restart of the child.                                    *)
(***************************************************************************)
EXTENDS Naturals, Sequences

CONSTANTS
    Plans,        \* the ops that may run: one is chosen
    MaxAttempts,  \* a task's retry policy
    MaxCrashes,   \* bound: crashes of the worker
    MaxRestarts,  \* bound: restarts of children by an operator
    Calls         \* the submissions a command makes, over all its attempts

ASSUME ChildAssumption ==
    /\ \A p \in Plans :
          /\ p \in [kind : {"group", "start", "multi", "command"},
                     wait : Seq({"goal", "job", "job_success"}),  \* effective wait policies
                     skipped : SUBSET Nat,   \* `when' evaluated false
                     unnamed : SUBSET Nat,   \* no recipe, or one that cannot be submitted
                     required : SUBSET Nat,
                     review : BOOLEAN]       \* the aggregate is a review_pack
          /\ p.skipped \cup p.unnamed \cup p.required \subseteq DOMAIN p.wait
          /\ p.kind = "multi" => p.skipped = {}   \* the recipes of run_and_wait have no `when'
    /\ MaxAttempts \in Nat \ {0}
    /\ MaxCrashes \in Nat
    /\ MaxRestarts \in Nat

VARIABLES
    plan,      \* the op that runs
    task,      \* its current task: a position in the chain; past the end: no task is left
    phase,     \* of the current attempt: "body", then "list", where started jobs are listed
    attempt,   \* attempts of the current task
    cursor,    \* the child the body has come to
    rec,       \* the body's child records
    saved,     \* the child records of the last recorded task
    jobs,      \* JobDB: the jobs below this op, in order of creation
    goals,     \* JobDB: per job, the state of the goal it created, and its winner
    broker,    \* the current broker's started jobs
    seen,      \* what the attempt read from its broker
    calls,     \* the command's submissions
    tracked,   \* the jobs recorded with the op's completed tasks
    outcome,   \* of the op: "none", "failed", or the output's `ok'
    crashes, restarts

vars == <<plan, task, phase, attempt, cursor, rec, saved, jobs, goals, broker, seen, calls, tracked,
          outcome, crashes, restarts>>

-----------------------------------------------------------------------------
Child == DOMAIN plan.wait
Chain == CASE plan.kind = "group" -> <<"start", "await", "collect">>
           [] plan.kind = "start" -> <<"start">>
           [] plan.kind = "multi" -> <<"start", "await">>
           [] OTHER -> <<"command">>
Running == outcome = "none"
In(step) == Running /\ phase = "body" /\ Chain[task] = step

NoJob == 0
Job == 1..Len(jobs)
Verdict == {"ok", "not_ok", "issues"}    \* of a job's outputs: `ok' false, `blocking_issues'
Fresh == <<0, 0>>                        \* a generated ID, never submitted again

NewRecord == [status |-> "pending", job |-> NoJob, result |-> NoJob, verdict |-> "ok"]
NoCall == [state |-> "idle", job |-> NoJob, waiting |-> FALSE, live |-> FALSE]

(***************************************************************************)
(* JobDB.  A submission under a known ID returns the existing job.         *)
(***************************************************************************)
(* Mutant: the ID of a child depends on the attempt that starts it. *)
ChildJobIDPerAttempt(c) == <<c, attempt>>

ChildJobID(c) == <<c, 1>>

(* `submitted' is what deduplicates; `child' is what the job is for. *)
NewJob(id, c, goal) == [submitted |-> id, child |-> c, goal |-> goal, status |-> "running", verdict |-> "ok"]

Known(id) == {j \in Job : id # Fresh /\ jobs[j].submitted = id}
JobFor(id) == IF Known(id) = {} THEN Len(jobs) + 1 ELSE CHOOSE j \in Known(id) : TRUE

SubmitJob(id, c) ==
    IF Known(id) # {} THEN UNCHANGED <<jobs, goals>>
    ELSE /\ jobs' = Append(jobs, NewJob(id, c, Len(jobs) + 1))
         /\ goals' = Append(goals, [state |-> "open", winner |-> NoJob])

(* Jobs that nobody awaits end too, which no step of the op can see. *)
Awaited == plan.kind \in {"group", "multi"}

JobSettles(j) ==
    /\ Awaited /\ jobs[j].status = "running"
    /\ \E s \in {"succeeded", "failed", "cancelled"}, v \in Verdict :
          /\ s # "succeeded" \/ plan.kind # "group" \/ jobs[j].child \notin plan.required => v = "ok"
          /\ v = "issues" => plan.review
          /\ s = "cancelled" => plan.kind = "group"
          /\ jobs' = [jobs EXCEPT ![j].status = s, ![j].verdict = v]
          /\ goals' = IF s = "succeeded" /\ goals[jobs[j].goal].state = "open"
                      THEN [goals EXCEPT ![jobs[j].goal] = [state |-> "succeeded", winner |-> j]]
                      ELSE goals
    /\ UNCHANGED <<plan, task, phase, attempt, cursor, rec, saved, broker, seen, calls, tracked, outcome,
                   crashes, restarts>>

(* A restart is a new candidate for the same, open goal. *)
RestartJob(j) ==
    /\ restarts < MaxRestarts
    /\ Awaited /\ jobs[j].status # "running"
    /\ goals[jobs[j].goal].state = "open"
    /\ restarts' = restarts + 1
    /\ jobs' = Append(jobs, NewJob(Fresh, jobs[j].child, jobs[j].goal))
    /\ goals' = Append(goals, [state |-> "unused", winner |-> NoJob])
    /\ UNCHANGED <<plan, task, phase, attempt, cursor, rec, saved, broker, seen, calls, tracked, outcome, crashes>>

FailGoal(g) ==
    /\ Awaited /\ goals[g].state = "open"
    /\ goals' = [goals EXCEPT ![g].state = "failed"]
    /\ UNCHANGED <<plan, task, phase, attempt, cursor, rec, saved, jobs, broker, seen, calls, tracked, outcome,
                   crashes, restarts>>

-----------------------------------------------------------------------------
(* Attempts. *)

(* A task has a broker of its own.  The clients of an attempt end with it;   *)
(* the handlers of its closed broker may still be waiting for JobDB.         *)
Begin(t, records) ==
    /\ task' = t
    /\ phase' = "body"
    /\ cursor' = 1
    /\ rec' = records
    /\ broker' = {}
    /\ seen' = {}

Abandon(call) == [call EXCEPT !.waiting = FALSE, !.live = FALSE]

(* Mutant: the retry policy counts retries, not attempts. *)
TaskFailsOnceMore ==
    /\ \/ attempt <= MaxAttempts /\ attempt' = attempt + 1 /\ outcome' = outcome
       \/ attempt' = attempt /\ outcome' = "failed"
    /\ Begin(task, saved)
    /\ calls' = [k \in Calls |-> Abandon(calls[k])]
    /\ UNCHANGED <<plan, saved, tracked>>

(* An attempt fails: the task runs again, or the op fails. *)
TaskFails ==
    /\ \/ attempt < MaxAttempts /\ attempt' = attempt + 1 /\ outcome' = outcome
       \/ attempt' = attempt /\ outcome' = "failed"
    /\ Begin(task, saved)
    /\ calls' = [k \in Calls |-> Abandon(calls[k])]
    /\ UNCHANGED <<plan, saved, tracked>>

(* The worker dies; JobDB runs the task again.  Handlers die with it. *)
Crash ==
    /\ Running
    /\ crashes < MaxCrashes
    /\ crashes' = crashes + 1
    /\ Begin(task, saved)
    /\ calls' = [k \in Calls |-> IF calls[k].state \in {"sent", "created", "recorded"}
                                 THEN [Abandon(calls[k]) EXCEPT !.state = "error"] ELSE Abandon(calls[k])]
    /\ UNCHANGED <<plan, attempt, saved, jobs, goals, tracked, outcome, restarts>>

(* The body returns: the started jobs of its broker are read.  *)
BodyEnds ==
    /\ phase' = "list"
    /\ seen' = broker
    /\ UNCHANGED <<plan, task, attempt, saved, broker, tracked, outcome>>

-----------------------------------------------------------------------------
(* The start task.  A child that cannot be started is data for a group and  *)
(* an error for recipes.run_and_wait.                                       *)

Record(c, r) == rec' = [rec EXCEPT ![c] = r] /\ cursor' = cursor + 1

MoveOn == UNCHANGED <<plan, task, phase, attempt, saved, broker, seen, tracked, outcome>>

SkipChild ==
    /\ In("start") /\ cursor \in Child
    /\ plan.kind # "multi"
    /\ \/ cursor \in plan.skipped /\ Record(cursor, [NewRecord EXCEPT !.status = "skipped"])
       \/ /\ cursor \in plan.unnamed \ plan.skipped
          /\ Record(cursor, [NewRecord EXCEPT !.status = "start_failed"])
    /\ MoveOn
    /\ UNCHANGED <<jobs, goals, calls, crashes, restarts>>

MayStart == cursor \in Child \ (plan.skipped \cup plan.unnamed) /\ (plan.kind = "multi" => plan.unnamed = {})

StartChild ==
    /\ In("start") /\ MayStart
    /\ SubmitJob(ChildJobID(cursor), cursor)
    /\ Record(cursor, [NewRecord EXCEPT !.status = "started", !.job = JobFor(ChildJobID(cursor))])
    /\ MoveOn
    /\ UNCHANGED <<calls, crashes, restarts>>

(* The submission reports an error; the job may exist nevertheless. *)
StartChildFails ==
    /\ In("start") /\ MayStart
    /\ \/ UNCHANGED <<jobs, goals>>
       \/ SubmitJob(ChildJobID(cursor), cursor)
    /\ IF plan.kind = "multi" THEN TaskFails
       ELSE Record(cursor, [NewRecord EXCEPT !.status = "start_failed"]) /\ MoveOn /\ UNCHANGED calls
    /\ UNCHANGED <<crashes, restarts>>

(* recipes.run_and_wait rejects the whole list before anything is started. *)
ListRejected ==
    /\ In("start") /\ plan.kind = "multi"
    /\ plan.unnamed # {}
    /\ TaskFails
    /\ UNCHANGED <<jobs, goals, crashes, restarts>>

-----------------------------------------------------------------------------
(* The await task: one child after the other; an unsettled one suspends it.  *)

Goal(c) == goals[jobs[rec[c].job].goal]
Terminal(j) == jobs[j].status # "running"

Satisfied(c) == CASE plan.wait[c] = "goal" -> Goal(c).state = "succeeded"
                  [] plan.wait[c] = "job" -> Terminal(rec[c].job)
                  [] OTHER -> jobs[rec[c].job].status = "succeeded"

(* Mutant: a goal that was explicitly failed is not an end of the wait. *)
RefusedByJob(c) == plan.wait[c] = "job_success" /\ jobs[rec[c].job].status \in {"failed", "cancelled"}

Refused(c) == CASE plan.wait[c] = "goal" -> Goal(c).state = "failed"
                [] plan.wait[c] = "job" -> FALSE
                [] OTHER -> jobs[rec[c].job].status \in {"failed", "cancelled"}

SatisfiedBy(c) == IF plan.wait[c] = "goal" THEN Goal(c).winner ELSE rec[c].job

(* Mutant: the first child that failed ends the wait for the others. *)
AwaitChildOrGiveUp ==
    /\ In("await") /\ cursor \in Child
    /\ \/ rec[cursor].status # "started" /\ Record(cursor, rec[cursor])
       \/ /\ rec[cursor].status = "started" /\ Satisfied(cursor)
          /\ Record(cursor, [rec[cursor] EXCEPT !.result = SatisfiedBy(cursor)])
       \/ /\ rec[cursor].status = "started" /\ Refused(cursor) /\ plan.kind # "multi"
          /\ rec' = [c \in Child |-> IF c >= cursor THEN [rec[c] EXCEPT !.status = "failed"] ELSE rec[c]]
          /\ cursor' = Len(plan.wait) + 1
    /\ MoveOn
    /\ UNCHANGED <<jobs, goals, calls, crashes, restarts>>

AwaitChild ==
    /\ In("await") /\ cursor \in Child
    /\ \/ rec[cursor].status # "started" /\ Record(cursor, rec[cursor])
       \/ /\ rec[cursor].status = "started" /\ Satisfied(cursor)
          /\ Record(cursor, [rec[cursor] EXCEPT !.result = SatisfiedBy(cursor)])
       \/ /\ rec[cursor].status = "started" /\ Refused(cursor) /\ plan.kind # "multi"
          /\ Record(cursor, [rec[cursor] EXCEPT !.status = "failed"])
    /\ MoveOn
    /\ UNCHANGED <<jobs, goals, calls, crashes, restarts>>

(* recipes.run_and_wait fails with the first child that fails. *)
AwaitRefused ==
    /\ In("await") /\ cursor \in Child
    /\ plan.kind = "multi" /\ Refused(cursor)
    /\ TaskFails
    /\ UNCHANGED <<jobs, goals, crashes, restarts>>

AwaitFails ==
    /\ In("await") /\ cursor \in Child
    /\ rec[cursor].status = "started"
    /\ TaskFails
    /\ UNCHANGED <<jobs, goals, crashes, restarts>>

-----------------------------------------------------------------------------
(* The collect task reads the result of the job each wait was bound to. *)

(* Mutant: the job that was submitted is read instead. *)
CollectSubmitted(c) == rec[c].job

ResultJob(c) == rec[c].result

CollectChild ==
    /\ In("collect") /\ cursor \in Child
    /\ IF rec[cursor].status # "started" THEN Record(cursor, rec[cursor])
       ELSE LET job == jobs[ResultJob(cursor)]
                status == IF job.status = "succeeded" THEN "completed" ELSE job.status
            IN  Record(cursor, [rec[cursor] EXCEPT !.status = status, !.verdict = job.verdict])
    /\ MoveOn
    /\ UNCHANGED <<jobs, goals, calls, crashes, restarts>>

CollectFails ==
    /\ In("collect") /\ cursor \in Child
    /\ rec[cursor].status = "started"
    /\ TaskFails
    /\ UNCHANGED <<jobs, goals, crashes, restarts>>

-----------------------------------------------------------------------------
(* The command and its broker.  The client of a call waits for the answer,  *)
(* or gives up; the handler goes on, although its context is cancelled.     *)

Step(k, state) == calls' = [calls EXCEPT ![k].state = state]
OnlyCalls == UNCHANGED <<plan, task, phase, attempt, cursor, rec, saved, seen, tracked, outcome, crashes, restarts>>

SendCall(k) ==
    /\ In("command") /\ calls[k].state = "idle"
    /\ calls' = [calls EXCEPT ![k] = [NoCall EXCEPT !.state = "sent", !.waiting = TRUE, !.live = TRUE]]
    /\ OnlyCalls /\ UNCHANGED <<jobs, goals, broker>>

(* JobDB creates the job under a generated ID. *)
BrokerSubmit(k) ==
    /\ calls[k].state = "sent"
    /\ SubmitJob(Fresh, NoJob)
    /\ calls' = [calls EXCEPT ![k].state = "created", ![k].job = Len(jobs) + 1]
    /\ OnlyCalls /\ UNCHANGED broker

(* JobDB's answer is an error: it refused, or the call was cancelled. *)
BrokerError(k) ==
    /\ \/ calls[k].state = "sent"
       \/ calls[k].state = "created" /\ ~calls[k].waiting
    /\ calls' = [calls EXCEPT ![k].state = "error", ![k].waiting = FALSE]
    /\ OnlyCalls /\ UNCHANGED <<jobs, goals, broker>>

BrokerRecord(k) ==
    /\ calls[k].state = "created"
    /\ Step(k, "recorded")
    /\ broker' = IF calls[k].live THEN broker \cup {calls[k].job} ELSE broker
    /\ OnlyCalls /\ UNCHANGED <<jobs, goals>>

BrokerAnswer(k) ==
    /\ calls[k].state = "recorded"
    /\ calls' = [calls EXCEPT ![k].state = IF calls[k].waiting THEN "acknowledged" ELSE "error",
                              ![k].waiting = FALSE]
    /\ OnlyCalls /\ UNCHANGED <<jobs, goals, broker>>

ClientGivesUp(k) ==
    /\ calls[k].waiting
    /\ calls' = [calls EXCEPT ![k].waiting = FALSE]
    /\ OnlyCalls /\ UNCHANGED <<jobs, goals, broker>>

CommandFails ==
    /\ In("command")
    /\ \A k \in Calls : ~calls[k].waiting
    /\ TaskFails
    /\ UNCHANGED <<jobs, goals, crashes, restarts>>

-----------------------------------------------------------------------------
(* The end of an attempt (doPrepared): the broker's jobs, then JobDB's jobs *)
(* below this invocation, in any state, are recorded with the result.       *)

FinishBody ==
    /\ Running /\ phase = "body"
    /\ IF plan.kind = "command" THEN \A k \in Calls : ~calls[k].waiting ELSE cursor = Len(plan.wait) + 1
    /\ BodyEnds
    /\ UNCHANGED <<cursor, rec, jobs, goals, calls, crashes, restarts>>

(* Mutant: only the jobs of this attempt's broker are kept. *)
MergeBrokerOnly(primary, secondary) == primary

MergeStartedJobs(primary, secondary) == primary \cup secondary

(* The jobs JobDB lists below this invocation; a restart is submitted        *)
(* without a parent.                                                         *)
ListedJobs == {j \in Job : jobs[j].goal = j}

(* buildChildGroupOutput: `ok' of the op's output. *)
Blocking(c) ==
    /\ c \in plan.required
    /\ \/ rec[c].status \in {"failed", "cancelled", "start_failed"}
       \/ /\ rec[c].status = "completed"
          /\ rec[c].verdict = "not_ok" \/ (plan.review /\ rec[c].verdict = "issues")

OutputOk == IF plan.kind \in {"group", "start"} THEN \A c \in Child : ~Blocking(c) ELSE TRUE

RecordTask ==
    /\ Running /\ phase = "list"
    /\ tracked' = tracked \cup MergeStartedJobs(seen, ListedJobs)
    /\ saved' = rec
    /\ attempt' = 1
    /\ IF task < Len(Chain)
       THEN Begin(task + 1, rec) /\ outcome' = outcome
       ELSE /\ outcome' = IF OutputOk THEN "ok" ELSE "not_ok"
            /\ UNCHANGED <<task, phase, cursor, rec, broker, seen>>
    /\ calls' = [k \in Calls |-> Abandon(calls[k])]
    /\ UNCHANGED <<plan, jobs, goals, crashes, restarts>>

ListFails ==
    /\ Running /\ phase = "list"
    /\ TaskFails
    /\ UNCHANGED <<jobs, goals, crashes, restarts>>

-----------------------------------------------------------------------------
Init ==
    /\ plan \in Plans
    /\ task = 1 /\ phase = "body" /\ attempt = 1 /\ cursor = 1
    /\ rec = [c \in Child |-> NewRecord]
    /\ saved = rec
    /\ jobs = <<>> /\ goals = <<>>
    /\ broker = {} /\ seen = {} /\ tracked = {}
    /\ calls = [k \in Calls |-> NoCall]
    /\ outcome = "none"
    /\ crashes = 0 /\ restarts = 0

(* What the worker that runs the op does. *)
OpStep ==
    \/ SkipChild \/ StartChild \/ ListRejected \/ AwaitChild \/ AwaitRefused \/ CollectChild \/ FinishBody \/ RecordTask
    \/ \E k \in Calls : SendCall(k) \/ BrokerSubmit(k) \/ BrokerError(k) \/ BrokerRecord(k) \/ BrokerAnswer(k)

OpFault ==
    \/ StartChildFails \/ AwaitFails \/ CollectFails \/ CommandFails \/ ListFails \/ Crash
    \/ \E k \in Calls : ClientGivesUp(k)

Jobs == \E j \in Job : JobSettles(j) \/ RestartJob(j) \/ FailGoal(j)

(* A finished op with settled children, or a goal nobody will reach. *)
Idle == (~Running \/ Chain[task] = "await") /\ UNCHANGED vars

Next == OpStep \/ OpFault \/ Jobs \/ Idle

Spec == Init /\ [][Next]_vars /\ WF_vars(OpStep)

-----------------------------------------------------------------------------
(* Typing of the state. *)
RecordType == [status : {"pending", "skipped", "started", "start_failed", "failed", "cancelled", "completed"},
               job : Nat, result : Nat, verdict : Verdict]

TypeOK ==
    /\ plan \in Plans
    /\ task \in 1..Len(Chain)
    /\ phase \in {"body", "list"}
    /\ attempt \in 1..MaxAttempts
    /\ cursor \in 1..(Len(plan.wait) + 1)
    /\ rec \in [Child -> RecordType] /\ saved \in [Child -> RecordType]
    /\ \A j \in Job : jobs[j].goal \in Job /\ goals[j].winner \in Job \cup {NoJob}
    /\ Len(goals) = Len(jobs)
    /\ broker \subseteq Job /\ seen \subseteq Job /\ tracked \subseteq Job
    /\ outcome \in {"none", "failed", "ok", "not_ok"}

(* However often a start is attempted, after an error half way, a lost      *)
(* response or a crash, a child is submitted under one ID and exists once:  *)
(* launcher.go:129, child_group.go:216.                                     *)
NativeChildExistsOnce ==
    \A i, j \in Job : jobs[i].child # NoJob /\ jobs[i].child = jobs[j].child
                          /\ jobs[i].submitted # Fresh /\ jobs[j].submitted # Fresh => i = j

(* A finished op's recorded jobs contain every submission the broker        *)
(* acknowledged, in this or an earlier attempt, and every job a native      *)
(* start created, even one whose submission reported an error               *)
(* (op_executor.go:610-622).                                                *)
ChildrenAreTracked ==
    outcome \in {"ok", "not_ok"} =>
        /\ \A k \in Calls : calls[k].state = "acknowledged" => calls[k].job \in tracked
        /\ \A j \in Job : jobs[j].submitted # Fresh => j \in tracked

(* A group's output describes JobDB: a completed child names a succeeded    *)
(* job of the goal it was started for, a failed one names a goal or job     *)
(* that did fail, and `ok' means that every required child that was not     *)
(* skipped completed with an acceptable verdict.                            *)
OutputMatchesJobs ==
    plan.kind = "group" /\ outcome \in {"ok", "not_ok"} =>
        /\ \A c \in Child :
              LET r == saved[c]
                  goal == jobs[r.job].goal
              IN  CASE r.status = "completed" -> /\ jobs[r.result].status = "succeeded"
                                                 /\ jobs[r.result].goal = goal
                                                 /\ jobs[r.result].verdict = r.verdict
                    [] r.status \in {"failed", "cancelled"} ->
                          IF plan.wait[c] = "goal" THEN goals[goal].state = "failed"
                          ELSE jobs[r.job].status \in {"failed", "cancelled"}
                    [] OTHER -> r.status \in {"skipped", "start_failed"}
        /\ outcome = "ok" =>
              \A c \in plan.required \ plan.skipped : saved[c].status = "completed" /\ saved[c].verdict # "not_ok"

(* A group or run_and_wait that delivers an output leaves no child          *)
(* unattended: each child it has a job for is settled as its wait asks.     *)
NoChildUnattended ==
    plan.kind \in {"group", "multi"} /\ outcome \in {"ok", "not_ok"} =>
        \A c \in Child : saved[c].job # NoJob =>
            LET j == saved[c].job
            IN  IF plan.wait[c] = "goal" THEN goals[jobs[j].goal].state # "open" ELSE Terminal(j)

(* An op ends when the goals and jobs of its children are settled: nobody   *)
(* waits on anything else.                                                  *)
AllSettled == \A j \in Job : Awaited => jobs[j].status # "running" /\ goals[j].state # "open"
OpEnds == (<>[]AllSettled) => <>(outcome # "none")
=============================================================================
