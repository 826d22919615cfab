----------------------------- MODULE WorkerHost -----------------------------
(* A host: worker processes, and the tasks that run in them side by side. *)
CONSTANTS Task, Process

VARIABLE home    \* the process that runs each task

Nowhere == "nowhere"

TasksOf(p) == {t \in Task : home[t] = p}

HostInit == home = [t \in Task |-> Nowhere]

(* A process claims a task; it leaves when the attempt or the process ends. *)
Claim(t, p) == home' = [home EXCEPT ![t] = p]
Leave(ts) == home' = [t \in Task |-> IF t \in ts THEN Nowhere ELSE home[t]]
=============================================================================
