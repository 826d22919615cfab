------------------------- MODULE ChildGroup_proofs -------------------------
(***************************************************************************)
(* The safety of child groups and of the child broker, for every plan,     *)
(* retry policy, number of submissions, crashes and restarts.              *)
(*                                                                         *)
(* The properties speak of finished ops.  The invariant says what every    *)
(* task of the chain has established so far of each child, and that JobDB  *)
(* cannot take it back: a job that ended and a goal that is settled stay   *)
(* as they are, and every job but a restart has a goal of its own, which   *)
(* is how JobDB lists it below the op.                                     *)
(***************************************************************************)
EXTENDS ChildGroup, TLAPS

JobType == [submitted : Nat \X Nat, child : Nat, goal : Nat,
            status : {"running", "succeeded", "failed", "cancelled"}, verdict : Verdict]
GoalType == [state : {"open", "succeeded", "failed", "unused"}, winner : Nat]
CallType == [state : {"idle", "sent", "created", "recorded", "acknowledged", "error"},
             job : Nat, waiting : BOOLEAN, live : BOOLEAN]

Delivered == outcome \in {"ok", "not_ok"}

(* What is said of one job and of the goal it created: a known ID names one   *)
(* child, a job that is not a restart has its own goal, and a goal is won by  *)
(* a job that succeeded for it.                                               *)
JobOk(j) ==
    /\ jobs[j].goal \in Job
    /\ jobs[j].submitted # Fresh => /\ jobs[j].child \in Child /\ jobs[j].submitted = ChildJobID(jobs[j].child)
                                    /\ jobs[j].goal = j
    /\ goals[j].winner \in Job \cup {NoJob}
    /\ goals[j].state = "succeeded" => /\ goals[j].winner \in Job
                                       /\ jobs[goals[j].winner].status = "succeeded"
                                       /\ jobs[goals[j].winner].goal = j

JobsInv ==
    /\ jobs \in Seq(JobType) /\ goals \in Seq(GoalType) /\ Len(goals) = Len(jobs)
    /\ \A j \in Job : JobOk(j)
    /\ \A i, j \in Job : jobs[i].submitted # Fresh /\ jobs[i].submitted = jobs[j].submitted => i = j

(* What the tasks establish of a child, in terms of its record. *)
NotRun(c, r) ==
    /\ r.job = NoJob
    /\ r.status = "start_failed" \/ (r.status = "skipped" /\ c \in plan.skipped)

StartDone(c, r) == NotRun(c, r) \/ (r.status = "started" /\ r.job \in Job)

BoundTo(c, r) ==
    /\ r.job \in Job /\ r.result \in Job
    /\ jobs[r.result].goal = jobs[r.job].goal /\ Terminal(r.result)
    /\ IF plan.wait[c] = "goal"
       THEN jobs[r.result].status = "succeeded" /\ goals[jobs[r.job].goal].state = "succeeded"
       ELSE r.result = r.job

FailedFor(c, r) ==
    /\ r.job \in Job
    /\ IF plan.wait[c] = "goal" THEN goals[jobs[r.job].goal].state = "failed"
       ELSE jobs[r.job].status \in {"failed", "cancelled"}

AwaitDone(c, r) ==
    \/ NotRun(c, r)
    \/ r.status = "started" /\ BoundTo(c, r)
    \/ r.status = "failed" /\ FailedFor(c, r)

CollectDone(c, r) ==
    \/ NotRun(c, r)
    \/ /\ r.status = "completed" /\ BoundTo(c, r)
       /\ jobs[r.result].status = "succeeded" /\ jobs[r.result].verdict = r.verdict
    \/ r.status \in {"failed", "cancelled"} /\ FailedFor(c, r)

Before(step, c, r) ==
    /\ step = "start" => r = NewRecord
    /\ step = "await" => StartDone(c, r)
    /\ step = "collect" => AwaitDone(c, r)

After(step, c, r) ==
    /\ step = "start" => StartDone(c, r)
    /\ step = "await" => AwaitDone(c, r)
    /\ step = "collect" => CollectDone(c, r)

(* The current task's part of the children, and the recorded ones. *)
RecordsInv ==
    /\ Running => \A c \in Child : /\ Before(Chain[task], c, saved[c])
                                   /\ c < cursor => After(Chain[task], c, rec[c])
                                   /\ c >= cursor => rec[c] = saved[c]
    /\ phase = "list" /\ plan.kind # "command" => cursor = Len(plan.wait) + 1
    /\ Delivered => /\ saved = rec /\ task = Len(Chain)
                    /\ \A c \in Child : After(Chain[task], c, rec[c])
                    /\ outcome = "ok" => OutputOk

OpType ==
    /\ plan \in Plans
    /\ task \in 1..Len(Chain)
    /\ phase \in {"body", "list"}
    /\ attempt \in 1..MaxAttempts
    /\ cursor \in 1..(Len(plan.wait) + 1)
    /\ rec \in [Child -> RecordType] /\ saved \in [Child -> RecordType]
    /\ outcome \in {"none", "failed", "ok", "not_ok"}

(* A created job is listed below the op until the op is over. *)
CallsInv ==
    /\ calls \in [Calls -> CallType]
    /\ \A k \in Calls : calls[k].state \in {"created", "recorded", "acknowledged"} =>
                            calls[k].job \in Job /\ jobs[calls[k].job].goal = calls[k].job

TrackInv ==
    /\ broker \subseteq Job /\ seen \subseteq Job /\ tracked \subseteq Job
    /\ Delivered =>
          /\ \A k \in Calls : ~calls[k].waiting
          /\ \A k \in Calls : calls[k].state = "acknowledged" => calls[k].job \in tracked
          /\ \A j \in Job : jobs[j].submitted # Fresh => j \in tracked

GroupInv == OpType /\ JobsInv /\ RecordsInv /\ CallsInv /\ TrackInv

-----------------------------------------------------------------------------
(* Facts about the data. *)

(* What the assumption says of the op that was chosen. *)
LEMMA PlanFacts ==
  ASSUME plan \in Plans
  PROVE  /\ plan.kind \in {"group", "start", "multi", "command"}
         /\ Len(plan.wait) \in Nat /\ Child = 1..Len(plan.wait)
         /\ \A c \in Child : plan.wait[c] \in {"goal", "job", "job_success"}
         /\ plan.required \subseteq Child
<1>1. /\ plan \in [kind : {"group", "start", "multi", "command"}, wait : Seq({"goal", "job", "job_success"}),
                   skipped : SUBSET Nat, unnamed : SUBSET Nat, required : SUBSET Nat, review : BOOLEAN]
      /\ plan.skipped \cup plan.unnamed \cup plan.required \subseteq DOMAIN plan.wait
  BY ChildAssumption
<1>2. plan.kind \in {"group", "start", "multi", "command"} /\ plan.wait \in Seq({"goal", "job", "job_success"})
  BY <1>1
<1> QED
  BY <1>1, <1>2 DEF Child

(* The order of an op's tasks. *)
LEMMA ChainFacts ==
  ASSUME plan \in Plans
  PROVE  /\ Len(Chain) \in Nat /\ Len(Chain) > 0
         /\ \A t \in 1..Len(Chain) : Chain[t] \in {"start", "await", "collect", "command"}
         /\ \A t \in 1..Len(Chain) : Chain[t] = "command" => plan.kind = "command"
         /\ plan.kind = "command" => \A t \in 1..Len(Chain) : Chain[t] = "command"
         /\ Chain[1] \in {"start", "command"}
         /\ \A t \in 1..Len(Chain) : t < Len(Chain) =>
               t + 1 \in 1..Len(Chain) /\ <<Chain[t], Chain[t + 1]>> \in {<<"start", "await">>, <<"await", "collect">>}
         /\ plan.kind = "group" => Chain[Len(Chain)] = "collect"
         /\ plan.kind = "multi" => Chain[Len(Chain)] = "await"
<1>1. CASE plan.kind = "group"
  <2>1. Chain = <<"start", "await", "collect">>
    BY <1>1 DEF Chain
  <2> QED
    BY <1>1, <2>1
<1>2. CASE plan.kind = "start"
  <2>1. Chain = <<"start">>
    BY <1>2 DEF Chain
  <2> QED
    BY <1>2, <2>1
<1>3. CASE plan.kind = "multi"
  <2>1. Chain = <<"start", "await">>
    BY <1>3 DEF Chain
  <2> QED
    BY <1>3, <2>1
<1>4. CASE plan.kind = "command"
  <2>1. Chain = <<"command">>
    BY <1>4 DEF Chain
  <2> QED
    BY <1>4, <2>1
<1> QED
  BY <1>1, <1>2, <1>3, <1>4, PlanFacts

(* JobDB's jobs, and the goals they created, have the same numbers. *)
LEMMA JobFacts ==
  ASSUME JobsInv
  PROVE  /\ Len(jobs) \in Nat /\ Job = 1..Len(jobs)
         /\ \A j \in Job : jobs[j] \in JobType /\ goals[j] \in GoalType
         /\ jobs = [j \in Job |-> jobs[j]] /\ DOMAIN jobs = Job /\ DOMAIN goals = Job
  BY DEF JobsInv, Job

(* JobDB takes nothing back. *)
Grows ==
    /\ plan' = plan
    /\ Job \subseteq Job'
    /\ \A j \in Job : jobs'[j].goal = jobs[j].goal /\ (Terminal(j) => jobs'[j] = jobs[j])
    /\ \A j \in Job : goals[j].state # "open" => goals'[j] = goals[j]

(* So it is when nothing changes. *)
LEMMA SameJobs ==
  ASSUME GroupInv, UNCHANGED <<plan, jobs, goals>>
  PROVE  Grows /\ JobsInv'
<1>1. Grows
  BY DEF Grows, Job
<1>2. \A j \in Job : JobOk(j)'
  BY DEF GroupInv, JobsInv, JobOk, Job, Child, ChildJobID
<1> QED
  BY <1>1, <1>2 DEF GroupInv, JobsInv, Job

(* What a task has established of a child stays true, whatever JobDB does next. *)
LEMMA RecordKept ==
  ASSUME JobsInv, Grows, NEW c \in Child, NEW r
  PROVE  /\ StartDone(c, r) => StartDone(c, r)'
         /\ AwaitDone(c, r) => AwaitDone(c, r)'
         /\ CollectDone(c, r) => CollectDone(c, r)'
<1>1. NotRun(c, r) => NotRun(c, r)'
  BY DEF NotRun, Grows
<1>2. \A j \in Job : jobs[j].goal \in Job
  BY DEF JobsInv, JobOk
<1>3. ASSUME FailedFor(c, r) PROVE FailedFor(c, r)'
  <2>1. CASE plan.wait[c] = "goal"
    BY <1>2, <1>3, <2>1 DEF FailedFor, Grows
  <2>2. CASE plan.wait[c] # "goal"
    BY <1>2, <1>3, <2>2 DEF FailedFor, Grows, Terminal
  <2> QED
    BY <2>1, <2>2
<1>4. ASSUME BoundTo(c, r) PROVE BoundTo(c, r)' /\ jobs'[r.result] = jobs[r.result]
  <2>1. r.job \in Job /\ r.result \in Job /\ jobs'[r.result] = jobs[r.result] /\ jobs'[r.job].goal = jobs[r.job].goal
        /\ r.job \in Job' /\ r.result \in Job' /\ Terminal(r.result)'
    BY <1>4 DEF BoundTo, Grows, Terminal
  <2>2. plan.wait[c] = "goal" => goals'[jobs[r.job].goal] = goals[jobs[r.job].goal]
    BY <1>2, <1>4 DEF BoundTo, Grows
  <2> QED
    BY <1>4, <2>1, <2>2 DEF BoundTo, Grows
<1>5. StartDone(c, r) => StartDone(c, r)'
  BY <1>1 DEF StartDone, Grows
<1>6. AwaitDone(c, r) => AwaitDone(c, r)'
  BY <1>1, <1>3, <1>4 DEF AwaitDone
<1>7. CollectDone(c, r) => CollectDone(c, r)'
  BY <1>1, <1>3, <1>4 DEF CollectDone
<1> QED
  BY <1>5, <1>6, <1>7

(* The same for what a task requires and ensures. *)
LEMMA StageKept ==
  ASSUME JobsInv, Grows, NEW c \in Child, NEW r, NEW step
  PROVE  /\ Before(step, c, r) => Before(step, c, r)'
         /\ After(step, c, r) => After(step, c, r)'
  BY RecordKept DEF Before, After, NewRecord

(* The plan, and so the children and the chain, never change. *)
LEMMA SamePlan ==
  ASSUME plan' = plan
  PROVE  Child' = Child /\ Chain' = Chain
  BY DEF Child, Chain

(* A step that leaves the op's own state alone. *)
LEMMA OpKept ==
  ASSUME GroupInv, Grows, UNCHANGED <<task, phase, attempt, cursor, rec, saved, outcome>>
  PROVE  OpType' /\ RecordsInv'
<1>1. plan' = plan /\ Child' = Child /\ Chain' = Chain /\ JobsInv
  BY SamePlan DEF Grows, GroupInv
<1>2. OpType'
  BY <1>1 DEF GroupInv, OpType
<1>3. Running' = Running /\ Delivered' = Delivered /\ OutputOk' = OutputOk
  BY <1>1 DEF Running, Delivered, OutputOk, Blocking
<1>4. RecordsInv'
  BY <1>1, <1>3, StageKept DEF GroupInv, RecordsInv
<1> QED
  BY <1>2, <1>4

(* An attempt of the current task starts from what its predecessor recorded. *)
LEMMA AttemptAgain ==
  ASSUME GroupInv, Grows, Running, Begin(task, saved), saved' = saved,
         attempt' \in 1..MaxAttempts, outcome' \in {"none", "failed"}
  PROVE  OpType' /\ RecordsInv'
<1>1. plan' = plan /\ Child' = Child /\ Chain' = Chain /\ JobsInv /\ OpType
  BY SamePlan DEF Grows, GroupInv
<1>2. task' = task /\ phase' = "body" /\ cursor' = 1 /\ rec' = saved
  BY DEF Begin
<1>3. Len(plan.wait) \in Nat /\ Child = 1..Len(plan.wait)
  BY <1>1, PlanFacts DEF OpType
<1>4. 1 \in 1..(Len(plan.wait) + 1)
  BY <1>3
<1>5. OpType'
  BY <1>1, <1>2, <1>4 DEF OpType
<1>6. ~Delivered'
  BY DEF Delivered
<1>7. \A c \in Child : Before(Chain[task], c, saved[c])'
  <2>1. \A c \in Child : Before(Chain[task], c, saved[c])
    BY DEF GroupInv, RecordsInv
  <2> QED
    BY <1>1, <1>2, <2>1, StageKept
<1>8. RecordsInv'
  BY <1>1, <1>2, <1>3, <1>6, <1>7 DEF RecordsInv
<1> QED
  BY <1>5, <1>8

(* Abandoned calls keep their state, or end in an error. *)
LEMMA CallsKept ==
  ASSUME GroupInv, Grows, calls' \in [Calls -> CallType],
         \A k \in Calls : \/ calls'[k].state = calls[k].state /\ calls'[k].job = calls[k].job
                          \/ calls'[k].state \in {"idle", "sent", "error"}
                          \/ calls[k].state \in {"created", "recorded"} /\ calls'[k].job = calls[k].job
  PROVE  CallsInv'
<1>1. CallsInv
  BY DEF GroupInv
<1> QED
  BY <1>1 DEF CallsInv, Grows

(* Abandoning calls is such a step. *)
LEMMA AbandonCalls ==
  ASSUME GroupInv, Grows, calls' = [k \in Calls |-> Abandon(calls[k])]
  PROVE  CallsInv' /\ \A k \in Calls : ~calls'[k].waiting /\ calls'[k].state = calls[k].state /\ calls'[k].job = calls[k].job
<1>1. ASSUME NEW k \in Calls
      PROVE  /\ calls'[k] \in CallType /\ ~calls'[k].waiting
             /\ calls'[k].state = calls[k].state /\ calls'[k].job = calls[k].job
  <2>1. calls[k] \in CallType /\ calls'[k] = Abandon(calls[k])
    BY DEF GroupInv, CallsInv
  <2> QED
    BY <2>1 DEF Abandon, CallType
<1>2. calls' \in [Calls -> CallType]
  BY <1>1
<1> QED
  BY <1>1, <1>2, CallsKept

(* A failed attempt. *)
LEMMA FailStep ==
  ASSUME GroupInv, Grows, JobsInv', Running, TaskFails
  PROVE  GroupInv'
<1>1. attempt' \in 1..MaxAttempts /\ outcome' \in {"none", "failed"}
  BY ChildAssumption DEF TaskFails, Running, GroupInv, OpType
<1>2. OpType' /\ RecordsInv'
  BY <1>1, AttemptAgain DEF TaskFails
<1>3. CallsInv'
  BY AbandonCalls DEF TaskFails
<1>4. TrackInv'
  <2>1. ~Delivered'
    BY <1>1 DEF Delivered
  <2> QED
    BY <2>1 DEF TaskFails, Begin, TrackInv, Grows, GroupInv
<1> QED
  BY <1>2, <1>3, <1>4 DEF GroupInv

(* An attempt that goes on: nothing is delivered. *)
LEMMA TrackRunning ==
  ASSUME GroupInv, Grows, Running, outcome' = outcome, broker' \subseteq Job', seen' \subseteq Job', tracked' = tracked
  PROVE  TrackInv'
  BY DEF GroupInv, TrackInv, Grows, Running, Delivered

-----------------------------------------------------------------------------
(* JobDB. *)

(* A new job is the last one; nothing else changes. *)
LEMMA NewJobFacts ==
  ASSUME JobsInv, plan' = plan, NEW e \in JobType, NEW g \in GoalType,
         jobs' = Append(jobs, e), goals' = Append(goals, g)
  PROVE  /\ Grows /\ jobs' \in Seq(JobType) /\ goals' \in Seq(GoalType) /\ Len(goals') = Len(jobs')
         /\ Job' = Job \cup {Len(jobs) + 1} /\ Len(jobs) + 1 \notin Job
         /\ jobs'[Len(jobs) + 1] = e /\ goals'[Len(jobs) + 1] = g
         /\ \A j \in Job : jobs'[j] = jobs[j] /\ goals'[j] = goals[j]
<1> PICK n : n = Len(jobs)
  OBVIOUS
<1>1. jobs \in Seq(JobType) /\ goals \in Seq(GoalType) /\ Len(goals) = n /\ n \in Nat /\ Job = 1..n
  BY DEF JobsInv, Job
<1>2. jobs' \in Seq(JobType) /\ Len(jobs') = n + 1 /\ jobs'[n + 1] = e /\ \A j \in 1..n : jobs'[j] = jobs[j]
  BY <1>1
<1>3. goals' \in Seq(GoalType) /\ Len(goals') = n + 1 /\ goals'[n + 1] = g /\ \A j \in 1..n : goals'[j] = goals[j]
  BY <1>1
<1>4. Job' = 1..(n + 1) /\ Job' = Job \cup {n + 1} /\ n + 1 \notin Job
  BY <1>1, <1>2 DEF Job
<1>5. Grows
  BY <1>1, <1>2, <1>3, <1>4 DEF Grows
<1> QED
  BY <1>1, <1>2, <1>3, <1>4, <1>5

(* A new job with a new ID, for a goal of its own or, generated, for one there is. *)
LEMMA NewJobInv ==
  ASSUME JobsInv, plan \in Plans, plan' = plan, NEW e \in JobType, NEW g \in GoalType,
         jobs' = Append(jobs, e), goals' = Append(goals, g),
         e.goal \in Job \cup {Len(jobs) + 1},
         \/ e.submitted = Fresh
         \/ /\ e.child \in Child /\ e.submitted = ChildJobID(e.child) /\ e.goal = Len(jobs) + 1
            /\ \A j \in Job : jobs[j].submitted # e.submitted,
         g.winner = NoJob, g.state # "succeeded"
  PROVE  JobsInv'
<1> PICK n : n = Len(jobs) + 1
  OBVIOUS
<1>1. /\ Grows /\ jobs' \in Seq(JobType) /\ goals' \in Seq(GoalType) /\ Len(goals') = Len(jobs')
      /\ Job' = Job \cup {n} /\ n \notin Job
      /\ jobs'[n] = e /\ goals'[n] = g
      /\ \A j \in Job : jobs'[j] = jobs[j] /\ goals'[j] = goals[j]
  BY NewJobFacts
<1>2. Child' = Child /\ \A c : ChildJobID(c)' = ChildJobID(c)
  BY SamePlan DEF ChildJobID
<1>3. ASSUME NEW j \in Job PROVE JobOk(j)'
  <2>1. JobOk(j) /\ jobs'[j] = jobs[j] /\ goals'[j] = goals[j]
    BY <1>1 DEF JobsInv
  <2>2. goals[j].state = "succeeded" => jobs'[goals[j].winner] = jobs[goals[j].winner]
    BY <1>1, <2>1 DEF JobOk
  <2> QED
    BY <1>1, <1>2, <2>1, <2>2 DEF JobOk
<1>4. JobOk(n)'
  BY <1>1, <1>2 DEF JobOk
<1>5. ASSUME NEW i \in Job', NEW j \in Job', jobs'[i].submitted # Fresh, jobs'[i].submitted = jobs'[j].submitted
      PROVE  i = j
  BY <1>1, <1>5 DEF JobsInv
<1> QED
  BY <1>1, <1>3, <1>4, <1>5 DEF JobsInv

(* The identity of a child is not a generated one. *)
LEMMA ChildIDs ==
  ASSUME NEW c \in Nat \ {0}
  PROVE  ChildJobID(c) # Fresh /\ ChildJobID(c) \in Nat \X Nat /\ \A d : ChildJobID(d) = ChildJobID(c) => d = c
  BY DEF ChildJobID, Fresh

(* A submission under a child's ID finds or creates the child's one job. *)
LEMMA SubmitChildFacts ==
  ASSUME JobsInv, plan \in Plans, plan' = plan, NEW c \in Child, SubmitJob(ChildJobID(c), c)
  PROVE  JobsInv' /\ Grows /\ JobFor(ChildJobID(c)) \in Job'
<1> PICK n, id : n = Len(jobs) + 1 /\ id = ChildJobID(c)
  OBVIOUS
<1>1. c \in Nat \ {0} /\ Len(jobs) \in Nat
  BY PlanFacts, JobFacts
<1>2. id # Fresh /\ id \in Nat \X Nat /\ n \in Nat
  BY <1>1, ChildIDs
<1>3. CASE Known(id) # {}
  <2>1. UNCHANGED <<jobs, goals>> /\ JobFor(id) \in Known(id)
    BY <1>3 DEF SubmitJob, JobFor
  <2>2. JobFor(id) \in Job
    BY <2>1 DEF Known
  <2>3. Grows
    BY <2>1 DEF Grows, Job
  <2>4. \A j \in Job : JobOk(j)'
    BY <2>1 DEF JobsInv, JobOk, Job, Child, ChildJobID
  <2>5. JobsInv'
    BY <2>1, <2>4 DEF JobsInv, Job
  <2> QED
    BY <2>1, <2>2, <2>3, <2>5 DEF Job
<1>4. CASE Known(id) = {}
  <2> PICK e, g : e = NewJob(id, c, n) /\ g = [state |-> "open", winner |-> NoJob]
    OBVIOUS
  <2>1. jobs' = Append(jobs, e) /\ goals' = Append(goals, g) /\ JobFor(id) = n
    BY <1>4 DEF SubmitJob, JobFor
  <2>2. e \in JobType /\ e.submitted = id /\ e.child = c /\ e.goal = n
    BY <1>1, <1>2 DEF NewJob, JobType, Verdict
  <2>3. g \in GoalType /\ g.winner = NoJob /\ g.state = "open"
    BY DEF GoalType, NoJob
  <2>4. \A j \in Job : jobs[j].submitted # id
    BY <1>2, <1>4 DEF Known
  <2>5. JobsInv'
    BY <2>1, <2>2, <2>3, <2>4, NewJobInv
  <2>6. Grows /\ n \in Job'
    BY <2>1, <2>2, <2>3, NewJobFacts
  <2> QED
    BY <2>1, <2>5, <2>6
<1> QED
  BY <1>3, <1>4

(* A job ends, and may win its goal. *)
LEMMA SettleFacts ==
  ASSUME GroupInv, NEW j \in Job, JobSettles(j)
  PROVE  JobsInv' /\ Grows /\ Job' = Job /\ \A i \in Job : jobs'[i].submitted = jobs[i].submitted
<1>1. JobsInv /\ Job = 1..Len(jobs) /\ Len(jobs) \in Nat /\ jobs \in Seq(JobType) /\ goals \in Seq(GoalType)
      /\ Len(goals) = Len(jobs) /\ plan' = plan
  BY JobFacts DEF GroupInv, JobsInv, JobSettles
<1>2. PICK s \in {"succeeded", "failed", "cancelled"}, v \in Verdict :
          /\ jobs' = [jobs EXCEPT ![j].status = s, ![j].verdict = v]
          /\ goals' = IF s = "succeeded" /\ goals[jobs[j].goal].state = "open"
                      THEN [goals EXCEPT ![jobs[j].goal] = [state |-> "succeeded", winner |-> j]]
                      ELSE goals
  BY DEF JobSettles
<1> PICK e, g : e = [jobs[j] EXCEPT !.status = s, !.verdict = v] /\ g = jobs[j].goal
  OBVIOUS
<1>3. /\ e \in JobType /\ e.submitted = jobs[j].submitted /\ e.child = jobs[j].child /\ e.goal = g
      /\ e.status = s /\ g \in Job /\ jobs[j].status = "running"
  <2>1. jobs[j] \in JobType
    BY <1>1, JobFacts
  <2>2. e \in JobType /\ e.submitted = jobs[j].submitted /\ e.child = jobs[j].child /\ e.goal = g /\ e.status = s
    BY <2>1 DEF JobType
  <2>3. g \in Job
    BY <1>1 DEF JobsInv, JobOk
  <2>4. jobs[j].status = "running"
    BY DEF JobSettles
  <2> QED
    BY <2>2, <2>3, <2>4
<1>4. jobs' = [jobs EXCEPT ![j] = e]
  BY <1>1, <1>2
<1>5. /\ jobs' \in Seq(JobType) /\ Len(jobs') = Len(jobs) /\ jobs'[j] = e /\ \A i \in Job \ {j} : jobs'[i] = jobs[i]
  <2>1. e \in JobType /\ j \in 1..Len(jobs)
    BY <1>1, <1>3
  <2>2. jobs' \in Seq(JobType) /\ Len(jobs') = Len(jobs)
    BY <1>1, <1>4, <2>1
  <2>3. jobs'[j] = e
    <3>1. j \in DOMAIN jobs
      BY <1>1
    <3> QED
      BY <1>4, <3>1
  <2>4. \A i \in Job \ {j} : jobs'[i] = jobs[i]
    BY <1>1, <1>4
  <2> QED
    BY <2>2, <2>3, <2>4
<1>6. /\ goals' \in Seq(GoalType) /\ Len(goals') = Len(jobs)
      /\ \A i \in Job : \/ goals'[i] = goals[i]
                        \/ /\ i = g /\ goals[i].state = "open" /\ s = "succeeded"
                           /\ goals'[i].state = "succeeded" /\ goals'[i].winner = j
  <2>1. CASE s = "succeeded" /\ goals[g].state = "open"
    <3> PICK w : w = [state |-> "succeeded", winner |-> j]
      OBVIOUS
    <3>1. w \in GoalType /\ w.state = "succeeded" /\ w.winner = j /\ goals' = [goals EXCEPT ![g] = w]
      BY <1>1, <1>2, <2>1 DEF GoalType
    <3> QED
      BY <1>1, <1>3, <2>1, <3>1
  <2>2. CASE ~(s = "succeeded" /\ goals[g].state = "open")
    BY <1>1, <1>2, <2>2
  <2> QED
    BY <2>1, <2>2
<1>7. Job' = Job /\ Child' = Child
  BY <1>1, <1>5, SamePlan DEF Job
<1>8. Grows
  BY <1>1, <1>3, <1>5, <1>6, <1>7 DEF Grows, Terminal
<1>9. ASSUME NEW i \in Job PROVE JobOk(i)'
  <2>1. JobOk(i)
    BY <1>1 DEF JobsInv
  <2>2. jobs'[i].submitted = jobs[i].submitted /\ jobs'[i].child = jobs[i].child /\ jobs'[i].goal = jobs[i].goal
    BY <1>3, <1>5
  <2>3. CASE goals'[i] = goals[i]
    <3>1. goals[i].state = "succeeded" => jobs'[goals[i].winner] = jobs[goals[i].winner]
      BY <2>1, <1>3, <1>5 DEF JobOk
    <3> QED
      BY <1>7, <2>1, <2>2, <2>3, <3>1 DEF JobOk, ChildJobID
  <2>4. CASE i = g /\ s = "succeeded" /\ goals'[i].state = "succeeded" /\ goals'[i].winner = j
    BY <1>3, <1>5, <1>7, <2>1, <2>2, <2>4 DEF JobOk, ChildJobID
  <2> QED
    BY <1>6, <2>3, <2>4
<1>10. \A i \in Job : jobs'[i].submitted = jobs[i].submitted
  BY <1>3, <1>5
<1>11. JobsInv'
  BY <1>1, <1>5, <1>6, <1>7, <1>9, <1>10 DEF JobsInv
<1> QED
  BY <1>7, <1>8, <1>10, <1>11

(* A goal is failed explicitly. *)
LEMMA FailGoalFacts ==
  ASSUME GroupInv, NEW g \in Job, FailGoal(g)
  PROVE  JobsInv' /\ Grows /\ Job' = Job /\ jobs' = jobs
<1>1. /\ JobsInv /\ Job = 1..Len(jobs) /\ Len(jobs) \in Nat /\ goals \in Seq(GoalType) /\ Len(goals) = Len(jobs)
      /\ plan' = plan /\ jobs' = jobs /\ goals[g].state = "open" /\ goals' = [goals EXCEPT ![g].state = "failed"]
  BY JobFacts DEF GroupInv, JobsInv, FailGoal
<1> PICK w : w = [goals[g] EXCEPT !.state = "failed"]
  OBVIOUS
<1>2. w \in GoalType /\ w.state = "failed" /\ w.winner = goals[g].winner /\ goals' = [goals EXCEPT ![g] = w]
  BY <1>1, JobFacts DEF GoalType
<1>3. goals' \in Seq(GoalType) /\ Len(goals') = Len(jobs) /\ goals'[g] = w /\ \A i \in Job \ {g} : goals'[i] = goals[i]
  BY <1>1, <1>2
<1>4. Job' = Job /\ Child' = Child /\ Grows
  BY <1>1, <1>3, SamePlan DEF Job, Grows
<1>5. \A i \in Job : JobOk(i)'
  BY <1>1, <1>2, <1>3, <1>4 DEF JobsInv, JobOk, ChildJobID
<1> QED
  BY <1>1, <1>3, <1>4, <1>5 DEF JobsInv

(* A restart is a generated job for the goal of the one it restarts. *)
LEMMA RestartFacts ==
  ASSUME GroupInv, NEW j \in Job, RestartJob(j)
  PROVE  JobsInv' /\ Grows /\ \A i \in Job' : jobs'[i].submitted # Fresh => i \in Job /\ jobs[i].submitted # Fresh
<1> PICK e, g : e = NewJob(Fresh, jobs[j].child, jobs[j].goal) /\ g = [state |-> "unused", winner |-> NoJob]
  OBVIOUS
<1>1. JobsInv /\ plan \in Plans /\ plan' = plan /\ jobs' = Append(jobs, e) /\ goals' = Append(goals, g)
  BY DEF GroupInv, OpType, RestartJob
<1>2. jobs[j] \in JobType /\ jobs[j].goal \in Job /\ Fresh \in Nat \X Nat
  BY <1>1, JobFacts DEF JobsInv, JobOk, Fresh
<1>3. e \in JobType /\ e.submitted = Fresh /\ e.goal = jobs[j].goal
  BY <1>2 DEF NewJob, JobType, Verdict
<1>4. g \in GoalType /\ g.winner = NoJob /\ g.state = "unused"
  BY DEF GoalType, NoJob
<1>5. JobsInv'
  BY <1>1, <1>2, <1>3, <1>4, NewJobInv
<1>6. /\ Grows /\ Job' = Job \cup {Len(jobs) + 1} /\ jobs'[Len(jobs) + 1] = e
      /\ \A i \in Job : jobs'[i] = jobs[i]
  BY <1>1, <1>3, <1>4, NewJobFacts
<1> QED
  BY <1>3, <1>5, <1>6

(* Jobs end, are restarted, and goals are failed, before and after the op is over. *)
LEMMA JobsStep == ASSUME GroupInv, NEW j \in Job, JobSettles(j) \/ RestartJob(j) \/ FailGoal(j) PROVE GroupInv'
<1>1. JobsInv' /\ Grows
  BY SettleFacts, FailGoalFacts, RestartFacts
<1>2. \A i \in Job' : jobs'[i].submitted # Fresh => i \in Job /\ jobs[i].submitted # Fresh
  BY SettleFacts, FailGoalFacts, RestartFacts
<1>3. UNCHANGED <<plan, task, phase, attempt, cursor, rec, saved, broker, seen, calls, tracked, outcome>>
  BY DEF JobSettles, RestartJob, FailGoal
<1>4. OpType' /\ RecordsInv'
  BY <1>1, <1>3, OpKept
<1>5. CallsInv'
  BY <1>1, <1>3, CallsKept DEF GroupInv, CallsInv
<1>6. TrackInv'
  BY <1>1, <1>2, <1>3 DEF GroupInv, TrackInv, Grows, Delivered
<1> QED
  BY <1>1, <1>4, <1>5, <1>6 DEF GroupInv

-----------------------------------------------------------------------------
(* The tasks. *)

(* A task's step on the child it has come to, which has record r after it. *)
LEMMA ChildStep ==
  ASSUME GroupInv, Grows, JobsInv', Running, NEW d \in Child, NEW r \in RecordType, Record(d, r), MoveOn,
         phase = "body", UNCHANGED calls, NEW step, d = cursor, step = Chain[task], After(step, d, r)'
  PROVE  GroupInv'
<1>1. /\ plan' = plan /\ Child' = Child /\ Chain' = Chain /\ JobsInv /\ OpType /\ task' = task /\ saved' = saved
      /\ phase' = phase /\ attempt' = attempt /\ outcome' = outcome
  BY SamePlan DEF Grows, GroupInv, MoveOn
<1>2. Len(plan.wait) \in Nat /\ Child = 1..Len(plan.wait) /\ d \in Nat /\ d = cursor
  BY <1>1, PlanFacts DEF OpType
<1>3. rec' = [rec EXCEPT ![d] = r] /\ cursor' = d + 1 /\ rec \in [Child -> RecordType]
  BY <1>1 DEF Record, OpType
<1>4. rec' \in [Child -> RecordType] /\ rec'[d] = r /\ \A c \in Child \ {d} : rec'[c] = rec[c]
  BY <1>3
<1>5. cursor' \in 1..(Len(plan.wait) + 1)
  BY <1>2, <1>3
<1>6. OpType'
  BY <1>1, <1>4, <1>5 DEF OpType
<1>7. Running' /\ ~Delivered' /\ phase' # "list"
  BY <1>1 DEF Running, Delivered
<1>8. ASSUME NEW c \in Child
      PROVE  /\ Before(Chain[task], c, saved[c])'
             /\ c < cursor' => After(Chain[task], c, rec[c])'
             /\ c >= cursor' => rec'[c] = saved'[c]
  <2>1. /\ Before(Chain[task], c, saved[c])
        /\ c < cursor => After(Chain[task], c, rec[c])
        /\ c >= cursor => rec[c] = saved[c]
    BY DEF GroupInv, RecordsInv
  <2>2. Before(Chain[task], c, saved[c])'
    BY <1>1, <2>1, StageKept
  <2>3. c < cursor' => After(Chain[task], c, rec[c])'
    <3>1. CASE c = d
      <4>1. Chain'[task'] = step /\ rec'[c] = r
        BY <1>1, <1>4, <3>1
      <4> QED
        BY <3>1, <4>1
    <3>2. CASE c # d
      <4>1. c < cursor' => After(Chain[task], c, rec[c])
        BY <1>2, <1>3, <2>1, <3>2
      <4> QED
        BY <1>1, <1>4, <3>2, <4>1, StageKept
    <3> QED
      BY <3>1, <3>2
  <2>4. c >= cursor' => rec'[c] = saved'[c]
    BY <1>1, <1>2, <1>3, <1>4, <2>1
  <2> QED
    BY <2>2, <2>3, <2>4
<1>9. RecordsInv'
  BY <1>1, <1>7, <1>8 DEF RecordsInv
<1>10. CallsInv'
  BY CallsKept DEF GroupInv, CallsInv
<1>11. TrackInv'
  BY TrackRunning DEF MoveOn, GroupInv, TrackInv, Grows
<1> QED
  BY <1>6, <1>9, <1>10, <1>11 DEF GroupInv

(* The same where JobDB does nothing. *)
LEMMA QuietChildStep ==
  ASSUME GroupInv, Running, NEW d \in Child, NEW r \in RecordType, Record(d, r), MoveOn, phase = "body",
         UNCHANGED <<jobs, goals, calls>>, NEW step, d = cursor, step = Chain[task], After(step, d, r)
  PROVE  GroupInv'
<1>1. Grows /\ JobsInv'
  BY SameJobs DEF MoveOn
<1>2. After(step, d, r)'
  BY <1>1, StageKept DEF GroupInv
<1> QED
  BY <1>1, <1>2, ChildStep

(* A child that is skipped, or has no recipe that could be submitted. *)
LEMMA SkipChildStep == ASSUME GroupInv, SkipChild PROVE GroupInv'
<1> PICK d, r : d = cursor /\ r = rec'[d]
  OBVIOUS
<1>1. /\ d \in Child /\ Running /\ phase = "body" /\ Chain[task] = "start" /\ MoveOn /\ UNCHANGED <<jobs, goals, calls>>
      /\ rec \in [Child -> RecordType]
  BY DEF SkipChild, In, GroupInv, OpType
<1>2. \E s \in {"skipped", "start_failed"} :
         (s = "skipped" => d \in plan.skipped) /\ Record(d, [NewRecord EXCEPT !.status = s])
  BY DEF SkipChild
<1>3. PICK s \in {"skipped", "start_failed"} :
         (s = "skipped" => d \in plan.skipped) /\ Record(d, [NewRecord EXCEPT !.status = s])
  BY <1>2
<1>4. Record(d, r) /\ r = [NewRecord EXCEPT !.status = s]
  BY <1>1, <1>3 DEF Record
<1>5. r \in RecordType /\ r.status = s /\ r.job = NoJob
  BY <1>4 DEF NewRecord, RecordType, Verdict, NoJob
<1>6. After("start", d, r)
  BY <1>3, <1>5 DEF After, StartDone, NotRun
<1> QED
  BY <1>1, <1>4, <1>5, <1>6, QuietChildStep

(* A child is started: its job exists, perhaps since an earlier attempt. *)
LEMMA StartChildStep == ASSUME GroupInv, StartChild PROVE GroupInv'
<1> PICK d, j : d = cursor /\ j = JobFor(ChildJobID(d))
  OBVIOUS
<1> PICK r : r = [NewRecord EXCEPT !.status = "started", !.job = j]
  OBVIOUS
<1>1. /\ d \in Child /\ Running /\ phase = "body" /\ Chain[task] = "start" /\ MoveOn /\ UNCHANGED calls
      /\ SubmitJob(ChildJobID(d), d) /\ Record(d, r) /\ plan' = plan /\ plan \in Plans /\ JobsInv
  BY DEF StartChild, MayStart, In, GroupInv, OpType, MoveOn
<1>2. JobsInv' /\ Grows /\ j \in Job'
  BY <1>1, SubmitChildFacts
<1>3. j \in Nat
  BY <1>2 DEF JobsInv, Job
<1>4. r \in RecordType /\ r.status = "started" /\ r.job = j
  BY <1>3 DEF NewRecord, RecordType, Verdict, NoJob
<1>5. After("start", d, r)'
  BY <1>2, <1>4 DEF After, StartDone
<1> QED
  BY <1>1, <1>2, <1>4, <1>5, ChildStep

(* A submission reports an error, whether or not the job exists. *)
LEMMA StartChildFailsStep == ASSUME GroupInv, StartChildFails PROVE GroupInv'
<1> PICK d : d = cursor
  OBVIOUS
<1>1. /\ d \in Child /\ Running /\ phase = "body" /\ Chain[task] = "start" /\ plan \in Plans /\ JobsInv
      /\ UNCHANGED <<jobs, goals>> \/ SubmitJob(ChildJobID(d), d)
  BY DEF StartChildFails, MayStart, In, GroupInv, OpType
<1>2. plan' = plan
  BY DEF StartChildFails, TaskFails, MoveOn
<1>3. JobsInv' /\ Grows
  BY <1>1, <1>2, SameJobs, SubmitChildFacts
<1>4. CASE TaskFails
  BY <1>1, <1>3, <1>4, FailStep
<1>5. CASE ~TaskFails
  <2> PICK r : r = [NewRecord EXCEPT !.status = "start_failed"]
    OBVIOUS
  <2>1. Record(d, r) /\ MoveOn /\ UNCHANGED calls
    BY <1>5 DEF StartChildFails
  <2>2. r \in RecordType /\ r.status = "start_failed" /\ r.job = NoJob
    BY DEF NewRecord, RecordType, Verdict, NoJob
  <2>3. After("start", d, r)'
    BY <2>2 DEF After, StartDone, NotRun, NoJob
  <2> QED
    BY <1>1, <1>3, <2>1, <2>2, <2>3, ChildStep
<1> QED
  BY <1>4, <1>5

(* A task fails without touching JobDB. *)
LEMMA FailedTaskStep ==
  ASSUME GroupInv, ListRejected \/ AwaitRefused \/ AwaitFails \/ CollectFails \/ CommandFails \/ ListFails
  PROVE  GroupInv'
<1>1. Running /\ TaskFails /\ UNCHANGED <<plan, jobs, goals>>
  BY DEF ListRejected, AwaitRefused, AwaitFails, CollectFails, CommandFails, ListFails, In, TaskFails
<1> QED
  BY <1>1, SameJobs, FailStep

(* A settled child is bound to the job its wait asked for, or has failed. *)
LEMMA AwaitChildStep == ASSUME GroupInv, AwaitChild PROVE GroupInv'
<1> PICK d, q : d = cursor /\ q = rec[d]
  OBVIOUS
<1>1. /\ d \in Child /\ Running /\ phase = "body" /\ Chain[task] = "await" /\ MoveOn /\ UNCHANGED <<jobs, goals, calls>>
      /\ q \in RecordType /\ JobsInv
  BY DEF AwaitChild, In, GroupInv, OpType
<1>2. StartDone(d, q)
  <2>1. cursor \in Nat
    BY <1>1, PlanFacts DEF GroupInv, OpType
  <2>2. Before("await", d, saved[d]) /\ rec[d] = saved[d]
    BY <1>1, <2>1 DEF GroupInv, RecordsInv
  <2> QED
    BY <2>2 DEF Before
<1>3. \A j \in Job : jobs[j].goal \in Job /\ JobOk(j) /\ j \in Nat
  BY <1>1, JobFacts DEF JobsInv, JobOk
<1>4. CASE q.status # "started" /\ Record(d, q)
  <2>1. After("await", d, q)
    BY <1>2, <1>4 DEF After, StartDone, AwaitDone
  <2> QED
    BY <1>1, <1>4, <2>1, QuietChildStep
<1>5. CASE q.status = "started" /\ Satisfied(d) /\ Record(d, [q EXCEPT !.result = SatisfiedBy(d)])
  <2> PICK w, r : w = SatisfiedBy(d) /\ r = [q EXCEPT !.result = w]
    OBVIOUS
  <2>1. q.job \in Job
    BY <1>2, <1>5 DEF StartDone, NotRun
  <2>2. /\ w \in Job /\ jobs[w].goal = jobs[q.job].goal /\ Terminal(w)
        /\ IF plan.wait[d] = "goal"
           THEN jobs[w].status = "succeeded" /\ goals[jobs[q.job].goal].state = "succeeded"
           ELSE w = q.job
    <3>1. CASE plan.wait[d] = "goal"
      <4> PICK g : g = jobs[q.job].goal
        OBVIOUS
      <4>1. goals[g].state = "succeeded" /\ w = goals[g].winner /\ JobOk(g)
        BY <1>3, <1>5, <2>1, <3>1 DEF Satisfied, SatisfiedBy, Goal
      <4> QED
        BY <3>1, <4>1 DEF JobOk, Terminal
    <3>2. CASE plan.wait[d] # "goal"
      BY <1>5, <2>1, <3>2 DEF Satisfied, SatisfiedBy, Terminal
    <3> QED
      BY <3>1, <3>2
  <2>3. r \in RecordType /\ r.status = "started" /\ r.job = q.job /\ r.result = w
    BY <1>1, <1>3, <1>5, <2>2 DEF RecordType
  <2>4. After("await", d, r)
    BY <2>1, <2>2, <2>3 DEF After, AwaitDone, BoundTo
  <2> QED
    BY <1>1, <1>5, <2>3, <2>4, QuietChildStep
<1>6. CASE q.status = "started" /\ Refused(d) /\ Record(d, [q EXCEPT !.status = "failed"])
  <2> PICK r : r = [q EXCEPT !.status = "failed"]
    OBVIOUS
  <2>1. q.job \in Job
    BY <1>2, <1>6 DEF StartDone, NotRun
  <2>2. IF plan.wait[d] = "goal" THEN goals[jobs[q.job].goal].state = "failed"
        ELSE jobs[q.job].status \in {"failed", "cancelled"}
    BY <1>6 DEF Refused, Goal
  <2>3. r \in RecordType /\ r.status = "failed" /\ r.job = q.job
    BY <1>1 DEF RecordType
  <2>4. After("await", d, r)
    BY <2>1, <2>2, <2>3 DEF After, AwaitDone, FailedFor
  <2> QED
    BY <1>1, <1>6, <2>3, <2>4, QuietChildStep
<1> QED
  BY <1>4, <1>5, <1>6 DEF AwaitChild

(* What is collected is what the job the wait was bound to delivered. *)
LEMMA CollectChildStep == ASSUME GroupInv, CollectChild PROVE GroupInv'
<1> PICK d, q : d = cursor /\ q = rec[d]
  OBVIOUS
<1>1. /\ d \in Child /\ Running /\ phase = "body" /\ Chain[task] = "collect" /\ MoveOn
      /\ UNCHANGED <<jobs, goals, calls>> /\ q \in RecordType /\ JobsInv
  BY DEF CollectChild, In, GroupInv, OpType
<1>2. AwaitDone(d, q)
  <2>1. cursor \in Nat
    BY <1>1, PlanFacts DEF GroupInv, OpType
  <2>2. Before("collect", d, saved[d]) /\ rec[d] = saved[d]
    BY <1>1, <2>1 DEF GroupInv, RecordsInv
  <2> QED
    BY <2>2 DEF Before
<1>3. CASE q.status # "started"
  <2>1. Record(d, q)
    BY <1>3 DEF CollectChild
  <2>2. After("collect", d, q)
    BY <1>2, <1>3 DEF After, AwaitDone, CollectDone
  <2> QED
    BY <1>1, <2>1, <2>2, QuietChildStep
<1>4. CASE q.status = "started"
  <2> PICK job : job = jobs[q.result]
    OBVIOUS
  <2> PICK s : s = IF job.status = "succeeded" THEN "completed" ELSE job.status
    OBVIOUS
  <2> PICK r : r = [q EXCEPT !.status = s, !.verdict = job.verdict]
    OBVIOUS
  <2>1. Record(d, r)
    BY <1>4 DEF CollectChild, ResultJob
  <2>2. BoundTo(d, q)
    BY <1>2, <1>4 DEF AwaitDone, NotRun
  <2>3. job \in JobType /\ job.status # "running"
    BY <1>1, <2>2, JobFacts DEF BoundTo, Terminal
  <2>4. job.status \in {"succeeded", "failed", "cancelled"} /\ job.verdict \in Verdict
    BY <2>3 DEF JobType
  <2>5. r \in RecordType /\ r.status = s /\ r.job = q.job /\ r.result = q.result /\ r.verdict = job.verdict
    BY <1>1, <2>4 DEF RecordType
  <2>6. BoundTo(d, r)
    BY <2>2, <2>5 DEF BoundTo
  <2>7. CASE job.status = "succeeded"
    <3>1. After("collect", d, r)
      BY <2>5, <2>6, <2>7 DEF After, CollectDone
    <3> QED
      BY <1>1, <2>1, <2>5, <3>1, QuietChildStep
  <2>8. CASE job.status # "succeeded"
    <3>1. FailedFor(d, r)
      BY <2>4, <2>5, <2>6, <2>8 DEF BoundTo, FailedFor
    <3>2. After("collect", d, r)
      BY <2>4, <2>5, <2>8, <3>1 DEF After, CollectDone
    <3> QED
      BY <1>1, <2>1, <2>5, <3>2, QuietChildStep
  <2> QED
    BY <2>7, <2>8
<1> QED
  BY <1>3, <1>4

-----------------------------------------------------------------------------
(* The command, its broker, and the end of an attempt. *)

(* A step of one call, which is x after it, and of JobDB. *)
LEMMA CallStep ==
  ASSUME GroupInv, Grows, JobsInv', NEW k \in Calls, NEW x \in CallType,
         calls' = [calls EXCEPT ![k] = x],
         UNCHANGED <<task, phase, attempt, cursor, rec, saved, seen, tracked, outcome>>, broker' \subseteq Job',
         x.state \in {"created", "recorded", "acknowledged"} => x.job \in Job' /\ jobs'[x.job].goal = x.job,
         x.waiting => calls[k].waiting \/ Running,
         x.state = "acknowledged" => x.job = calls[k].job /\ (calls[k].state = "acknowledged" \/ calls[k].waiting),
         \A j \in Job' : jobs'[j].submitted # Fresh => j \in Job /\ jobs[j].submitted # Fresh
  PROVE  GroupInv'
<1>1. OpType' /\ RecordsInv'
  BY OpKept
<1>2. CallsInv /\ TrackInv
  BY DEF GroupInv
<1>3. calls' \in [Calls -> CallType] /\ calls'[k] = x /\ \A i \in Calls \ {k} : calls'[i] = calls[i]
  BY <1>2 DEF CallsInv
<1>4. CallsInv'
  <2>1. \A i \in Calls \ {k} : calls[i].state \in {"created", "recorded", "acknowledged"} =>
                            calls[i].job \in Job' /\ jobs'[calls[i].job].goal = calls[i].job
    BY <1>2 DEF CallsInv, Grows
  <2> QED
    BY <1>3, <2>1 DEF CallsInv
<1>5. TrackInv'
  <2>1. broker' \subseteq Job' /\ seen' \subseteq Job' /\ tracked' \subseteq Job'
    BY <1>2 DEF TrackInv, Grows
  <2>2. Delivered' = Delivered /\ tracked' = tracked
    BY DEF Delivered
  <2>3. ASSUME Delivered PROVE \A i \in Calls : ~calls'[i].waiting
    <3>1. \A i \in Calls : ~calls[i].waiting
      BY <1>2, <2>3 DEF TrackInv
    <3>2. ~Running
      BY <2>3 DEF Running, Delivered
    <3> QED
      BY <1>3, <3>1, <3>2
  <2>4. ASSUME Delivered PROVE \A i \in Calls : calls'[i].state = "acknowledged" => calls'[i].job \in tracked
    <3>1. \A i \in Calls : ~calls[i].waiting /\ (calls[i].state = "acknowledged" => calls[i].job \in tracked)
      BY <1>2, <2>4 DEF TrackInv
    <3> QED
      BY <1>3, <3>1
  <2>5. ASSUME Delivered PROVE \A j \in Job' : jobs'[j].submitted # Fresh => j \in tracked
    BY <1>2, <2>5 DEF TrackInv
  <2> QED
    BY <2>1, <2>2, <2>3, <2>4, <2>5 DEF TrackInv
<1> QED
  BY <1>1, <1>4, <1>5 DEF GroupInv

(* A step of one call that creates no job. *)
LEMMA QuietCallStep ==
  ASSUME GroupInv, NEW k \in Calls, NEW x \in CallType,
         calls' = [calls EXCEPT ![k] = x], OnlyCalls, UNCHANGED <<jobs, goals>>, broker' \subseteq Job,
         \/ x.state \in {"idle", "sent", "error"}
         \/ /\ x.state \in {"recorded", "acknowledged"} \/ x.state = calls[k].state
            /\ calls[k].state \in {"created", "recorded", "acknowledged"} /\ x.job = calls[k].job,
         x.waiting => calls[k].waiting \/ Running,
         x.state = "acknowledged" => calls[k].state = "acknowledged" \/ calls[k].waiting
  PROVE  GroupInv'
<1>1. Grows /\ JobsInv' /\ Job' = Job
  BY SameJobs DEF OnlyCalls, Job
<1>2. x.state \in {"created", "recorded", "acknowledged"} => x.job \in Job' /\ jobs'[x.job].goal = x.job /\ x.job = calls[k].job
  BY <1>1 DEF GroupInv, CallsInv
<1>3. \A j \in Job' : jobs'[j].submitted # Fresh => j \in Job /\ jobs[j].submitted # Fresh
  BY <1>1
<1>4. /\ UNCHANGED <<task, phase, attempt, cursor, rec, saved, seen, tracked, outcome>>
      /\ x.state = "acknowledged" => x.job = calls[k].job /\ (calls[k].state = "acknowledged" \/ calls[k].waiting)
      /\ broker' \subseteq Job'
      /\ x.state \in {"created", "recorded", "acknowledged"} => x.job \in Job' /\ jobs'[x.job].goal = x.job
  BY <1>1, <1>2 DEF OnlyCalls
<1> QED
  BY <1>1, <1>3, <1>4, CallStep

(* The client sends, or gives up; the handler records, answers, or has an error to report. *)
LEMMA BrokerStep ==
  ASSUME GroupInv, NEW k \in Calls,
         SendCall(k) \/ BrokerError(k) \/ BrokerRecord(k) \/ BrokerAnswer(k) \/ ClientGivesUp(k)
  PROVE  GroupInv'
<1> PICK m : m = calls[k]
  OBVIOUS
<1>1. m \in CallType /\ calls \in [Calls -> CallType] /\ OnlyCalls /\ UNCHANGED <<jobs, goals>> /\ broker \subseteq Job
  BY DEF GroupInv, CallsInv, TrackInv, SendCall, BrokerError, BrokerRecord, BrokerAnswer, ClientGivesUp
<1>2. CASE SendCall(k)
  <2> PICK x : x = [NoCall EXCEPT !.state = "sent", !.waiting = TRUE, !.live = TRUE]
    OBVIOUS
  <2>1. x \in CallType /\ x.state = "sent"
    BY DEF NoCall, CallType, NoJob
  <2>2. calls' = [calls EXCEPT ![k] = x] /\ Running /\ broker' \subseteq Job
    BY <1>1, <1>2 DEF SendCall, In
  <2> QED
    BY <1>1, <2>1, <2>2, QuietCallStep
<1>3. CASE BrokerError(k)
  <2> PICK x : x = [m EXCEPT !.state = "error", !.waiting = FALSE]
    OBVIOUS
  <2>1. x \in CallType /\ x.state = "error" /\ ~x.waiting
    BY <1>1 DEF CallType
  <2>2. calls' = [calls EXCEPT ![k] = x] /\ broker' \subseteq Job
    BY <1>1, <1>3 DEF BrokerError
  <2> QED
    BY <1>1, <2>1, <2>2, QuietCallStep
<1>4. CASE BrokerRecord(k)
  <2> PICK x : x = [m EXCEPT !.state = "recorded"]
    OBVIOUS
  <2>1. x \in CallType /\ x.state = "recorded" /\ x.waiting = m.waiting /\ x.job = m.job
    BY <1>1 DEF CallType
  <2>2. calls' = [calls EXCEPT ![k] = x] /\ m.state = "created"
    BY <1>1, <1>4 DEF BrokerRecord, Step
  <2>3. m.job \in Job
    BY <2>2 DEF GroupInv, CallsInv
  <2>4. broker' \subseteq Job
    BY <1>1, <1>4, <2>3 DEF BrokerRecord
  <2> QED
    BY <1>1, <2>1, <2>2, <2>4, QuietCallStep
<1>5. CASE BrokerAnswer(k)
  <2> PICK s : s = IF m.waiting THEN "acknowledged" ELSE "error"
    OBVIOUS
  <2> PICK x : x = [m EXCEPT !.state = s, !.waiting = FALSE]
    OBVIOUS
  <2>1. x \in CallType /\ x.state = s /\ ~x.waiting /\ x.job = m.job
    BY <1>1 DEF CallType
  <2>2. calls' = [calls EXCEPT ![k] = x] /\ m.state = "recorded" /\ broker' \subseteq Job
    BY <1>1, <1>5 DEF BrokerAnswer
  <2>3. s = "error" \/ (s = "acknowledged" /\ m.waiting)
    BY <1>1 DEF CallType
  <2> QED
    BY <1>1, <2>1, <2>2, <2>3, QuietCallStep
<1>6. CASE ClientGivesUp(k)
  <2> PICK x : x = [m EXCEPT !.waiting = FALSE]
    OBVIOUS
  <2>1. x \in CallType /\ x.state = m.state /\ ~x.waiting /\ x.job = m.job
    BY <1>1 DEF CallType
  <2>2. calls' = [calls EXCEPT ![k] = x] /\ broker' \subseteq Job
    BY <1>1, <1>6 DEF ClientGivesUp
  <2>3. m.state \in {"idle", "sent", "error", "created", "recorded", "acknowledged"}
    BY <1>1 DEF CallType
  <2> QED
    BY <1>1, <2>1, <2>2, <2>3, QuietCallStep
<1> QED
  BY <1>2, <1>3, <1>4, <1>5, <1>6

(* JobDB creates the job of a call under a generated ID, with a goal of its own. *)
LEMMA BrokerSubmitStep == ASSUME GroupInv, NEW k \in Calls, BrokerSubmit(k) PROVE GroupInv'
<1> PICK m, n : m = calls[k] /\ n = Len(jobs) + 1
  OBVIOUS
<1> PICK e, g, x : /\ e = NewJob(Fresh, NoJob, n) /\ g = [state |-> "open", winner |-> NoJob]
                   /\ x = [m EXCEPT !.state = "created", !.job = n]
  OBVIOUS
<1>1. /\ m \in CallType /\ calls \in [Calls -> CallType] /\ OnlyCalls /\ broker' = broker /\ broker \subseteq Job
      /\ JobsInv /\ plan \in Plans /\ plan' = plan
  BY DEF GroupInv, CallsInv, TrackInv, OpType, BrokerSubmit, OnlyCalls
<1>2. Len(jobs) \in Nat /\ n \in Nat
  BY <1>1, JobFacts
<1>3. jobs' = Append(jobs, e) /\ goals' = Append(goals, g)
  BY DEF BrokerSubmit, SubmitJob, Known
<1>4. e \in JobType /\ e.submitted = Fresh /\ e.goal = n
  BY <1>2 DEF NewJob, JobType, Verdict, Fresh, NoJob
<1>5. g \in GoalType /\ g.winner = NoJob /\ g.state = "open"
  BY DEF GoalType, NoJob
<1>6. JobsInv'
  BY <1>1, <1>3, <1>4, <1>5, NewJobInv
<1>7. /\ Grows /\ Job' = Job \cup {n} /\ jobs'[n] = e /\ \A j \in Job : jobs'[j] = jobs[j]
  BY <1>1, <1>3, <1>4, <1>5, NewJobFacts
<1>8. x \in CallType /\ x.state = "created" /\ x.job = n /\ x.waiting = m.waiting
  BY <1>1, <1>2 DEF CallType
<1>9. calls' = [calls EXCEPT ![k] = x]
  BY <1>1 DEF BrokerSubmit
<1>10. broker' \subseteq Job' /\ UNCHANGED <<task, phase, attempt, cursor, rec, saved, seen, tracked, outcome>>
  BY <1>1, <1>7 DEF OnlyCalls
<1>11. \A j \in Job' : jobs'[j].submitted # Fresh => j \in Job /\ jobs[j].submitted # Fresh
  BY <1>4, <1>7
<1>12. x.state \in {"created", "recorded", "acknowledged"} => x.job \in Job' /\ jobs'[x.job].goal = x.job
  BY <1>4, <1>7, <1>8
<1> QED
  BY <1>6, <1>7, <1>8, <1>9, <1>10, <1>11, <1>12, CallStep

(* The worker dies: its handlers die with it, and the task runs again. *)
LEMMA CrashStep == ASSUME GroupInv, Crash PROVE GroupInv'
<1>1. Running /\ Begin(task, saved) /\ UNCHANGED <<plan, attempt, saved, jobs, goals, tracked, outcome>>
  BY DEF Crash
<1>2. Grows /\ JobsInv'
  BY <1>1, SameJobs
<1>3. attempt' \in 1..MaxAttempts /\ outcome' \in {"none", "failed"}
  BY <1>1 DEF GroupInv, OpType, Running
<1>4. OpType' /\ RecordsInv'
  BY <1>1, <1>2, <1>3, AttemptAgain
<1>5. ASSUME NEW k \in Calls
      PROVE  /\ calls'[k] \in CallType
             /\ \/ calls'[k].state = "error"
                \/ calls'[k].state = calls[k].state /\ calls'[k].job = calls[k].job
  <2> PICK m, x : m = calls[k] /\ x = Abandon(m)
    OBVIOUS
  <2>1. m \in CallType
    BY DEF GroupInv, CallsInv
  <2>2. x \in CallType /\ x.state = m.state /\ x.job = m.job
    BY <2>1 DEF Abandon, CallType
  <2>3. calls'[k] = IF m.state \in {"sent", "created", "recorded"} THEN [x EXCEPT !.state = "error"] ELSE x
    BY DEF Crash
  <2>4. [x EXCEPT !.state = "error"] \in CallType /\ [x EXCEPT !.state = "error"].state = "error"
    BY <2>2 DEF CallType
  <2> QED
    BY <2>2, <2>3, <2>4
<1>6. calls' \in [Calls -> CallType]
  <2>1. calls' = [k \in Calls |-> calls'[k]]
    BY DEF Crash
  <2> QED
    BY <1>5, <2>1
<1>7. CallsInv'
  BY <1>2, <1>5, <1>6, CallsKept
<1>8. TrackInv'
  BY <1>1, <1>2, TrackRunning DEF Begin, GroupInv, TrackInv, Grows
<1> QED
  BY <1>2, <1>4, <1>7, <1>8 DEF GroupInv

(* The body returns with every child treated. *)
LEMMA FinishBodyStep == ASSUME GroupInv, FinishBody PROVE GroupInv'
<1>1. /\ Running /\ phase' = "list" /\ seen' = broker
      /\ UNCHANGED <<plan, task, attempt, cursor, rec, saved, broker, tracked, outcome, jobs, goals, calls>>
      /\ plan.kind # "command" => cursor = Len(plan.wait) + 1
  BY DEF FinishBody, BodyEnds
<1>2. Grows /\ JobsInv' /\ Child' = Child /\ Chain' = Chain
  BY <1>1, SameJobs, SamePlan
<1>3. OpType'
  BY <1>1, <1>2 DEF GroupInv, OpType
<1>4. Running' /\ ~Delivered'
  BY <1>1 DEF Running, Delivered
<1>5. RecordsInv'
  BY <1>1, <1>2, <1>4, StageKept DEF GroupInv, RecordsInv
<1>6. CallsInv'
  BY <1>1, <1>2, CallsKept DEF GroupInv, CallsInv
<1>7. TrackInv'
  BY <1>1, <1>2, TrackRunning DEF GroupInv, TrackInv, Grows
<1> QED
  BY <1>2, <1>3, <1>5, <1>6, <1>7 DEF GroupInv

(* What a task ensures is what the next one requires. *)
LEMMA NextTask ==
  ASSUME plan \in Plans, NEW t \in 1..Len(Chain), t < Len(Chain), NEW c, NEW r, After(Chain[t], c, r)
  PROVE  Before(Chain[t + 1], c, r)
<1>1. <<Chain[t], Chain[t + 1]>> \in {<<"start", "await">>, <<"await", "collect">>}
  BY ChainFacts
<1> QED
  BY <1>1 DEF After, Before

(* The task's result is recorded, with every job JobDB lists below the op. *)
LEMMA RecordTaskStep == ASSUME GroupInv, RecordTask PROVE GroupInv'
<1>1. /\ Running /\ phase = "list" /\ saved' = rec /\ attempt' = 1 /\ UNCHANGED <<plan, jobs, goals>>
      /\ calls' = [k \in Calls |-> Abandon(calls[k])] /\ tracked' = tracked \cup (seen \cup ListedJobs)
  BY DEF RecordTask, MergeStartedJobs
<1>2. Grows /\ JobsInv' /\ Job' = Job /\ Child' = Child /\ Chain' = Chain /\ OpType /\ plan \in Plans /\ JobsInv
  BY <1>1, SameJobs, SamePlan DEF Job, GroupInv, OpType
<1>3. /\ CallsInv'
      /\ \A k \in Calls : ~calls'[k].waiting /\ calls'[k].state = calls[k].state /\ calls'[k].job = calls[k].job
  BY <1>1, <1>2, AbandonCalls
<1>4. /\ Len(plan.wait) \in Nat /\ Child = 1..Len(plan.wait) /\ Len(Chain) \in Nat /\ task \in 1..Len(Chain) /\ task \in Nat
      /\ 1 \in 1..MaxAttempts /\ 1 \in 1..(Len(plan.wait) + 1)
  BY <1>2, PlanFacts, ChainFacts, ChildAssumption DEF OpType
<1>5. \A c \in Child : After(Chain[task], c, rec[c])
  <2>1. CASE plan.kind = "command"
    <3>1. Chain[task] = "command"
      BY <1>2, <1>4, <2>1, ChainFacts
    <3> QED
      BY <3>1 DEF After
  <2>2. CASE plan.kind # "command"
    <3>1. cursor = Len(plan.wait) + 1
      BY <1>1, <2>2 DEF GroupInv, RecordsInv
    <3>2. \A c \in Child : c < cursor
      BY <1>4, <3>1
    <3> QED
      BY <1>1, <3>2 DEF GroupInv, RecordsInv
  <2> QED
    BY <2>1, <2>2
<1>6. tracked' \subseteq Job' /\ ListedJobs \subseteq tracked'
  BY <1>1, <1>2 DEF GroupInv, TrackInv, ListedJobs
<1>7. CASE task < Len(Chain)
  <2>1. Begin(task + 1, rec) /\ outcome' = outcome
    BY <1>7 DEF RecordTask
  <2>2. task' = task + 1 /\ phase' = "body" /\ cursor' = 1 /\ rec' = rec /\ broker' = {} /\ seen' = {} /\ task + 1 \in 1..Len(Chain)
    BY <1>4, <1>7, <2>1 DEF Begin
  <2>3. OpType'
    BY <1>1, <1>2, <1>4, <2>1, <2>2 DEF OpType
  <2>4. Running' /\ ~Delivered'
    BY <1>1, <2>1 DEF Running, Delivered
  <2>5. \A c \in Child : Before(Chain[task + 1], c, rec[c])
    BY <1>2, <1>4, <1>5, <1>7, NextTask
  <2>6. \A c \in Child : Before(Chain[task], c, saved[c])'
    <3> TAKE c \in Child
    <3> PICK step, r : step = Chain[task + 1] /\ r = rec[c]
      OBVIOUS
    <3>1. Before(step, c, r)'
      BY <1>2, <2>5, StageKept
    <3>2. Chain'[task'] = step /\ saved'[c] = r
      BY <1>1, <1>2, <2>2
    <3> QED
      BY <3>1, <3>2
  <2>7. \A c \in Child : ~(c < cursor')
    BY <1>4, <2>2
  <2>8. RecordsInv'
    BY <1>1, <1>2, <2>2, <2>4, <2>6, <2>7 DEF RecordsInv
  <2>9. TrackInv'
    BY <1>6, <2>2, <2>4 DEF TrackInv
  <2> QED
    BY <1>2, <1>3, <2>3, <2>8, <2>9 DEF GroupInv
<1>8. CASE ~(task < Len(Chain))
  <2>1. /\ outcome' = IF OutputOk THEN "ok" ELSE "not_ok"
        /\ UNCHANGED <<task, phase, cursor, rec, broker, seen>>
    BY <1>8 DEF RecordTask
  <2>2. outcome' \in {"ok", "not_ok"} /\ (outcome' = "ok" => OutputOk) /\ ~Running'
    BY <2>1 DEF Running
  <2>3. OpType'
    BY <1>1, <1>2, <1>4, <2>1, <2>2 DEF OpType
  <2>4. OutputOk' = OutputOk
    BY <1>1, <1>2, <2>1 DEF OutputOk, Blocking
  <2>5. \A c \in Child : After(Chain[task], c, rec[c])'
    <3> TAKE c \in Child
    <3> PICK step, r : step = Chain[task] /\ r = rec[c]
      OBVIOUS
    <3>1. After(step, c, r)'
      BY <1>2, <1>5, StageKept
    <3>2. Chain'[task'] = step /\ rec'[c] = r
      BY <1>2, <2>1
    <3> QED
      BY <3>1, <3>2
  <2>6. task = Len(Chain)
    BY <1>4, <1>8
  <2>7. phase' = "list" /\ plan'.kind # "command" => cursor' = Len(plan'.wait) + 1
    BY <1>1, <2>1 DEF GroupInv, RecordsInv
  <2>8. RecordsInv'
    BY <1>1, <1>2, <2>1, <2>2, <2>4, <2>5, <2>6, <2>7 DEF RecordsInv
  <2>9. \A k \in Calls : calls'[k].state = "acknowledged" => calls'[k].job \in tracked'
    BY <1>3, <1>6 DEF GroupInv, CallsInv, ListedJobs
  <2>10. \A j \in Job' : jobs'[j].submitted # Fresh => j \in tracked'
    BY <1>1, <1>2, <1>6 DEF JobsInv, JobOk, ListedJobs
  <2>11. broker' \subseteq Job' /\ seen' \subseteq Job'
    BY <1>2, <2>1 DEF GroupInv, TrackInv
  <2>12. TrackInv'
    BY <1>3, <1>6, <2>9, <2>10, <2>11 DEF TrackInv
  <2> QED
    BY <1>2, <1>3, <2>3, <2>8, <2>12 DEF GroupInv
<1> QED
  BY <1>7, <1>8

-----------------------------------------------------------------------------
(* The theorems. *)

(* An op starts with no child started and nothing submitted. *)
LEMMA GroupInit == Init => GroupInv
<1> SUFFICES ASSUME Init PROVE GroupInv
  OBVIOUS
<1>1. /\ plan \in Plans /\ Len(plan.wait) \in Nat /\ Child = 1..Len(plan.wait)
      /\ Len(Chain) \in Nat /\ Len(Chain) > 0 /\ Chain[1] \in {"start", "command"} /\ MaxAttempts \in Nat \ {0}
  BY PlanFacts, ChainFacts, ChildAssumption DEF Init
<1>2. 1 \in 1..Len(Chain) /\ 1 \in 1..MaxAttempts /\ 1 \in 1..(Len(plan.wait) + 1)
  BY <1>1
<1>3. NewRecord \in RecordType
  BY DEF NewRecord, RecordType, Verdict, NoJob
<1>4. rec \in [Child -> RecordType] /\ saved = rec /\ \A c \in Child : rec[c] = NewRecord
  BY <1>3 DEF Init
<1>5. OpType
  BY <1>1, <1>2, <1>4 DEF Init, OpType
<1>6. JobsInv /\ Job = {}
  BY DEF Init, JobsInv, Job
<1>7. ~Delivered /\ \A c \in Child : ~(c < cursor) /\ Before(Chain[task], c, saved[c])
  BY <1>1, <1>4 DEF Init, Delivered, Before
<1>8. RecordsInv
  BY <1>4, <1>7 DEF Init, RecordsInv
<1>9. NoCall \in CallType /\ NoCall.state = "idle"
  BY DEF NoCall, CallType, NoJob
<1>10. CallsInv
  BY <1>9 DEF Init, CallsInv
<1>11. TrackInv
  BY <1>7 DEF Init, TrackInv
<1> QED
  BY <1>5, <1>6, <1>8, <1>10, <1>11 DEF GroupInv

(* Every step of the worker, the broker, JobDB and its operators keeps the invariant. *)
LEMMA GroupStep == GroupInv /\ [Next]_vars => GroupInv'
<1> SUFFICES ASSUME GroupInv, [Next]_vars PROVE GroupInv'
  OBVIOUS
<1>1. CASE OpStep
  BY <1>1, SkipChildStep, StartChildStep, FailedTaskStep, AwaitChildStep, CollectChildStep, FinishBodyStep,
     RecordTaskStep, BrokerStep, BrokerSubmitStep DEF OpStep
<1>2. CASE OpFault
  BY <1>2, StartChildFailsStep, FailedTaskStep, CrashStep, BrokerStep DEF OpFault
<1>3. CASE Jobs
  BY <1>3, JobsStep DEF Jobs
<1>4. CASE UNCHANGED vars
  <2>1. UNCHANGED <<plan, task, phase, attempt, cursor, rec, saved, jobs, goals, broker, seen, calls, tracked, outcome>>
    BY <1>4 DEF vars
  <2>2. Grows /\ JobsInv' /\ Job' = Job
    BY <2>1, SameJobs DEF Job
  <2>3. OpType' /\ RecordsInv'
    BY <2>1, <2>2, OpKept
  <2>4. CallsInv'
    BY <2>1, <2>2, CallsKept DEF GroupInv, CallsInv
  <2>5. TrackInv'
    BY <2>1, <2>2 DEF GroupInv, TrackInv, Delivered
  <2> QED
    BY <2>2, <2>3, <2>4, <2>5 DEF GroupInv
<1> QED
  BY <1>1, <1>2, <1>3, <1>4 DEF Next, Idle

(* The inductive invariant holds in every reachable state. *)
THEOREM GroupInvariant == Spec => []GroupInv
  BY GroupInit, GroupStep, PTL DEF Spec

(* The op's tasks, records and jobs keep their shape: no attempt beyond the *)
(* retry policy, and no job recorded that JobDB does not hold.              *)
THEOREM GroupTypeCorrect == Spec => []TypeOK
<1>1. GroupInv => TypeOK
  <2> SUFFICES ASSUME GroupInv PROVE TypeOK
    OBVIOUS
  <2>1. \A j \in Job : jobs[j].goal \in Job /\ goals[j].winner \in Job \cup {NoJob}
    BY DEF GroupInv, JobsInv, JobOk
  <2>2. Len(goals) = Len(jobs)
    BY DEF GroupInv, JobsInv
  <2> QED
    BY <2>1, <2>2 DEF GroupInv, OpType, TrackInv, TypeOK
<1> QED
  BY <1>1, GroupInvariant, PTL

(* However often its start is attempted, a native child has one job         *)
(* (launcher.go, child_group.go): its ID is a function of the child alone.  *)
THEOREM EveryNativeChildExistsOnce == Spec => []NativeChildExistsOnce
<1>1. GroupInv => NativeChildExistsOnce
  <2> SUFFICES ASSUME GroupInv, NEW i \in Job, NEW j \in Job, jobs[i].child = jobs[j].child,
                      jobs[i].submitted # Fresh, jobs[j].submitted # Fresh
               PROVE  i = j
    BY DEF NativeChildExistsOnce
  <2>1. jobs[i].submitted = ChildJobID(jobs[i].child) /\ jobs[j].submitted = ChildJobID(jobs[j].child)
    BY DEF GroupInv, JobsInv, JobOk
  <2> QED
    BY <2>1 DEF GroupInv, JobsInv
<1> QED
  BY <1>1, GroupInvariant, PTL

(* The result of a finished op tracks every acknowledged submission and     *)
(* every native child, of all its attempts (doPrepared, MergeStartedJobs).  *)
THEOREM EveryChildIsTracked == Spec => []ChildrenAreTracked
<1>1. GroupInv => ChildrenAreTracked
  BY DEF GroupInv, TrackInv, Delivered, ChildrenAreTracked
<1> QED
  BY <1>1, GroupInvariant, PTL

(* The output of a group describes what JobDB holds, and goes on to, and    *)
(* its `ok' means what it says (buildChildGroupOutput).                     *)
THEOREM EveryOutputMatchesJobs == Spec => []OutputMatchesJobs
<1>1. GroupInv => OutputMatchesJobs
  <2> SUFFICES ASSUME GroupInv, plan.kind = "group", Delivered
               PROVE  OutputMatchesJobs
    BY DEF OutputMatchesJobs, Delivered
  <2>1. plan \in Plans /\ plan.required \subseteq Child
    BY PlanFacts DEF GroupInv, OpType
  <2>2. saved = rec /\ \A c \in Child : CollectDone(c, saved[c])
    BY <2>1, ChainFacts DEF GroupInv, RecordsInv, After
  <2>3. outcome = "ok" => \A c \in Child : ~Blocking(c)
    BY DEF GroupInv, RecordsInv, OutputOk
  <2>4. ASSUME NEW c \in Child
        PROVE  LET r == saved[c]
                   goal == jobs[r.job].goal
               IN  CASE r.status = "completed" -> /\ jobs[r.result].status = "succeeded"
                                                  /\ jobs[r.result].goal = goal
                                                  /\ jobs[r.result].verdict = r.verdict
                     [] r.status \in {"failed", "cancelled"} ->
                           IF plan.wait[c] = "goal" THEN goals[goal].state = "failed"
                           ELSE jobs[r.job].status \in {"failed", "cancelled"}
                     [] OTHER -> r.status \in {"skipped", "start_failed"}
    <3> PICK r : r = saved[c]
      OBVIOUS
    <3>1. CollectDone(c, r)
      BY <2>2
    <3>2. CASE NotRun(c, r)
      BY <3>2 DEF NotRun
    <3>3. CASE /\ r.status = "completed" /\ BoundTo(c, r)
               /\ jobs[r.result].status = "succeeded" /\ jobs[r.result].verdict = r.verdict
      BY <3>3 DEF BoundTo
    <3>4. CASE r.status \in {"failed", "cancelled"} /\ FailedFor(c, r)
      BY <3>4 DEF FailedFor
    <3> QED
      BY <3>1, <3>2, <3>3, <3>4 DEF CollectDone
  <2>5. ASSUME outcome = "ok", NEW c \in plan.required \ plan.skipped
        PROVE  saved[c].status = "completed" /\ saved[c].verdict # "not_ok"
    <3>1. c \in Child /\ CollectDone(c, saved[c]) /\ ~Blocking(c)
      BY <2>1, <2>2, <2>3, <2>5
    <3> QED
      BY <2>2, <2>5, <3>1 DEF CollectDone, NotRun, Blocking
  <2> QED
    BY <2>4, <2>5 DEF OutputMatchesJobs
<1> QED
  BY <1>1, GroupInvariant, PTL

(* An op that awaits its children delivers no output while a child it has a *)
(* job for is still open in the sense of its wait policy.                   *)
THEOREM NoChildIsLeftUnattended == Spec => []NoChildUnattended
<1>1. GroupInv => NoChildUnattended
  <2> SUFFICES ASSUME GroupInv, plan.kind \in {"group", "multi"}, Delivered, NEW c \in Child, saved[c].job # NoJob
               PROVE  IF plan.wait[c] = "goal" THEN goals[jobs[saved[c].job].goal].state # "open"
                      ELSE Terminal(saved[c].job)
    BY DEF NoChildUnattended, Delivered
  <2> PICK r : r = saved[c]
    OBVIOUS
  <2>1. plan \in Plans /\ After(Chain[Len(Chain)], c, r)
    BY DEF GroupInv, OpType, RecordsInv
  <2>2. AwaitDone(c, r) \/ CollectDone(c, r)
    BY <2>1, ChainFacts DEF After
  <2>3. BoundTo(c, r) \/ FailedFor(c, r)
    BY <2>2 DEF AwaitDone, CollectDone, NotRun
  <2>4. CASE BoundTo(c, r)
    BY <2>4 DEF BoundTo
  <2>5. CASE FailedFor(c, r)
    BY <2>5 DEF FailedFor, Terminal
  <2> QED
    BY <2>3, <2>4, <2>5
<1> QED
  BY <1>1, GroupInvariant, PTL
=============================================================================
