---------------------------- MODULE SelectorCache ----------------------------
(***************************************************************************)
(* The cache of git sources (pkg/git/selectorcache).  A task resolves a    *)
(* ref, or a pinned commit, of one repository to a directory that holds    *)
(* the commit's files.  The tasks of one worker process share a Cache and  *)
(* its in-flight calls; all processes of a host share the directories.     *)
(* Refs move at any time.                                                  *)
(***************************************************************************)
EXTENDS Naturals, WorkerHost

CONSTANT Commit    \* the repository's commits: numbers from 1

ASSUME CacheAssumption == Commit \subseteq Nat \ {0}

VARIABLES
    remote,   \* the commit the ref points to
    source,   \* per commit: the files in its directory, by commit; 0: there is no directory
    flight,   \* per process and commit: the in-flight call
    res       \* per task: its call of Resolve

cacheVars == <<remote, source, flight, res>>

None == 0
NoCall == [leader |-> FALSE, done |-> FALSE, ok |-> FALSE]
NoResolve == [pc |-> "off", commit |-> None, byRef |-> FALSE, got |-> None, ok |-> FALSE]

CacheInit ==
    /\ remote \in Commit
    /\ source = [k \in Commit |-> None]
    /\ flight = [p \in Process, k \in Commit |-> NoCall]
    /\ res = [t \in Task |-> NoResolve]

-----------------------------------------------------------------------------
Resolving(t, pc) == res[t].pc = pc
Call(t) == <<home[t], res[t].commit>>
Resolved(ok) == IF ok THEN "ok" ELSE "err"
DirExists(k) == source[k] # None

(* A pinned commit, a full hash, or what the ref is on the remote now. *)
StartResolve(t, pin) ==
    /\ res' = [res EXCEPT ![t] = IF pin # None THEN [NoResolve EXCEPT !.pc = "look", !.commit = pin]
                                 ELSE [NoResolve EXCEPT !.pc = "ls"]]
    /\ UNCHANGED <<remote, source, flight>>

LsRemote(t) ==
    /\ Resolving(t, "ls")
    /\ res' = [res EXCEPT ![t] = [@ EXCEPT !.pc = "look", !.commit = remote, !.byRef = TRUE]]
    /\ UNCHANGED <<remote, source, flight>>

LsRemoteFails(t) ==
    /\ Resolving(t, "ls")
    /\ res' = [res EXCEPT ![t].pc = "err"]
    /\ UNCHANGED <<remote, source, flight>>

LookUp(t) ==
    /\ Resolving(t, "look")
    /\ res' = [res EXCEPT ![t].pc = IF DirExists(res[t].commit) THEN "ok" ELSE "join"]
    /\ UNCHANGED <<remote, source, flight>>

(* One call per process and commit.  A call whose result is announced but   *)
(* that is not removed yet hands that result to whoever comes.              *)
Join(t) ==
    /\ Resolving(t, "join")
    /\ LET call == flight[Call(t)] IN
       IF call.leader
       THEN /\ res' = [res EXCEPT ![t].pc = IF call.done THEN Resolved(call.ok) ELSE "wait"]
            /\ UNCHANGED flight
       ELSE /\ res' = [res EXCEPT ![t].pc = "fetch"]
            /\ flight' = [flight EXCEPT ![Call(t)] = [NoCall EXCEPT !.leader = TRUE]]
    /\ UNCHANGED <<remote, source>>

FetchedTheCommit(t, got) == got = res[t].commit

(* Fetch and check out into a temporary directory, and compare its HEAD. *)
Fetch(t) ==
    /\ Resolving(t, "fetch")
    /\ LET got == IF res[t].byRef THEN remote ELSE res[t].commit IN
       res' = [res EXCEPT ![t] =
                 IF DirExists(res[t].commit) THEN [@ EXCEPT !.pc = "announce", !.ok = TRUE]
                 ELSE IF FetchedTheCommit(t, got) THEN [@ EXCEPT !.pc = "publish", !.got = got]
                 ELSE [@ EXCEPT !.pc = "announce", !.ok = FALSE]]
    /\ UNCHANGED <<remote, source, flight>>

(* The network, git or the caller's own context ends the fetch. *)
FetchFails(t) ==
    /\ Resolving(t, "fetch")
    /\ res' = [res EXCEPT ![t].pc = "announce", ![t].ok = FALSE]
    /\ UNCHANGED <<remote, source, flight>>

(* The rename publishes the directory, unless another process has done so. *)
PublishSource(t) ==
    /\ Resolving(t, "publish")
    /\ source' = [source EXCEPT ![res[t].commit] = IF @ = None THEN res[t].got ELSE @]
    /\ res' = [res EXCEPT ![t].pc = "announce", ![t].ok = TRUE]
    /\ UNCHANGED <<remote, flight>>

(* Closing the call's channel releases everyone who waits on it. *)
Announce(t) ==
    /\ Resolving(t, "announce")
    /\ flight' = [flight EXCEPT ![Call(t)].done = TRUE, ![Call(t)].ok = res[t].ok]
    /\ res' = [u \in Task |->
                 IF u = t THEN [res[u] EXCEPT !.pc = "remove"]
                 ELSE IF Resolving(u, "wait") /\ Call(u) = Call(t) THEN [res[u] EXCEPT !.pc = Resolved(res[t].ok)]
                 ELSE res[u]]
    /\ UNCHANGED <<remote, source>>

RemoveCall(t) ==
    /\ Resolving(t, "remove")
    /\ flight' = [flight EXCEPT ![Call(t)] = NoCall]
    /\ res' = [res EXCEPT ![t].pc = Resolved(res[t].ok)]
    /\ UNCHANGED <<remote, source>>

CacheStep(t) ==
    \/ LsRemote(t) \/ LookUp(t) \/ Join(t) \/ Fetch(t) \/ PublishSource(t) \/ Announce(t) \/ RemoveCall(t)

(* Somebody pushes to the ref; somebody cleans the cache. *)
MoveRef ==
    /\ \E k \in Commit \ {remote} : remote' = k
    /\ UNCHANGED <<source, flight, res>>

EvictSource(k) ==
    /\ DirExists(k)
    /\ source' = [source EXCEPT ![k] = None]
    /\ UNCHANGED <<remote, flight, res>>

(* A process dies with its calls; its temporary directories are never read again. *)
CacheCrash(p) ==
    /\ flight' = [c \in Process \X Commit |-> IF c[1] = p THEN NoCall ELSE flight[c]]
    /\ res' = [t \in Task |-> IF t \in TasksOf(p) THEN NoResolve ELSE res[t]]
    /\ UNCHANGED <<remote, source>>
=============================================================================
