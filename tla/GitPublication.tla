--------------------------- MODULE GitPublication ---------------------------
(***************************************************************************)
(* Publishing a job's change to a shared branch                            *)
(* (pkg/git/squashrebasemerge).  A publisher is one op of one job:         *)
(*                                                                         *)
(*   "chain"  squashrebasemerge: three durable tasks, squash, rebase and   *)
(*            merge, which hand a pinned candidate to each other;          *)
(*   "merge"  squash followed by the standalone merge op;                  *)
(*   "empty"  squashrebasemerge of a workspace created empty: it creates   *)
(*            the branch and insists that the branch is absent.            *)
(*                                                                         *)
(* A task's effects on the remote happen before its outcome is recorded:   *)
(* it can fail, time out or crash in between, and is then run again.  The  *)
(* branch is shared with the other publishers and with writers outside.    *)
(***************************************************************************)
EXTENDS Naturals, Sequences, FiniteSets, FiniteSetsExt

CONSTANTS
    Publisher,    \* the ops that publish to the branch
    Setups,       \* what they publish, how, and to which branch: one is chosen
    Outside,      \* the writers outside this system
    MaxAttempts,  \* a task's retry policy
    MaxCrashes,   \* bound: worker crashes
    MaxOutside,   \* bound: commits pushed from outside
    MaxRewrites   \* bound: history rewrites from outside

ASSUME PublicationAssumption ==
    /\ Setups \subseteq [mode : [Publisher -> {"chain", "merge", "empty"}],
                          rebases : SUBSET Publisher,  \* whose `rebase' input is not false
                          idle : SUBSET Publisher,     \* whose workspace has no changes
                          branch : BOOLEAN]            \* the branch exists
    /\ Outside \notin Publisher
    /\ MaxAttempts \in Nat \ {0}
    /\ MaxCrashes \in Nat
    /\ MaxOutside \in Nat
    /\ MaxRewrites \in Nat

VARIABLES
    commits,   \* every commit made: its ancestors, itself included, and whose change it is
    tip,       \* the branch on the remote; 0: absent
    setup,     \* the chosen setup
    start,     \* the commit the publishers' workspaces were checked out at; 0: empty
    pub,       \* per publisher: the publicationState recorded by its last task
    pc,        \* per publisher: where its current task is
    attempt,   \* per publisher: attempts of the current task
    outcome,   \* per publisher: the op's recorded outcome
    crashes, outsiders, rewrites,
    landed     \* history: every commit the branch has ever contained

vars == <<commits, tip, setup, start, pub, pc, attempt, outcome, crashes, outsiders, rewrites, landed>>

-----------------------------------------------------------------------------
Mode(p) == setup.mode[p]

(* Commits. *)

Absent == 0
Ids == 1..Len(commits)
History(c) == IF c = Absent THEN {} ELSE commits[c].anc
IsAncestor(a, d) == a \in History(d)

(* Mutant: a commit is given its predecessor's identity. *)
CommitOverPrevious(base, by) == [anc |-> History(base) \cup {Len(commits)}, by |-> by]

Commit(base, by) == [anc |-> History(base) \cup {Len(commits) + 1}, by |-> by]
NewId == Len(commits) + 1

(* git merge-base: the latest common ancestor; parents precede children. *)
MergeBase(a, b) ==
    LET common == History(a) \cap History(b)
    IN  IF common = {} THEN Absent ELSE Max(common)

-----------------------------------------------------------------------------
(* Task outcomes.  An error is retried by the task's policy, or ends the op *)
(* when it is not retryable or the policy is exhausted.  A task that runs   *)
(* again starts over from the state recorded by the task before it.         *)

(* Mutant: a task that runs again starts the whole op over. *)
StartOver(p) == "squash"

TaskStart(p) ==
    IF pc[p] \in {"squash", "rebase"} THEN pc[p] ELSE IF Mode(p) = "empty" THEN "push_initial" ELSE "merge"

Finish(p, what) ==
    /\ outcome' = [outcome EXCEPT ![p] = what]
    /\ pc' = [pc EXCEPT ![p] = "done"]
    /\ UNCHANGED attempt

Fail(p, what) ==
    \/ /\ attempt[p] < MaxAttempts
       /\ attempt' = [attempt EXCEPT ![p] = @ + 1]
       /\ pc' = [pc EXCEPT ![p] = TaskStart(p)]
       /\ UNCHANGED outcome
    \/ Finish(p, what)

Advance(p, step) ==
    /\ pc' = [pc EXCEPT ![p] = step]
    /\ attempt' = [attempt EXCEPT ![p] = 1]
    /\ UNCHANGED outcome

-----------------------------------------------------------------------------
(* The squash task (preparePublicationFrom; executeSquash for "merge").      *)
(* The destination is resolved once and its tip pinned.                      *)
Prepare(p) ==
    LET target == IF Mode(p) = "chain" THEN tip ELSE Absent
        base == CASE Mode(p) = "chain" -> MergeBase(start, tip)
                  [] Mode(p) = "merge" -> start
                  [] OTHER -> Absent
        unchanged == p \in setup.idle /\ Mode(p) # "empty" /\ base = start
        next == IF Mode(p) = "merge" THEN "merge" ELSE "rebase"
    IN  /\ pc[p] = "squash"
        /\ Mode(p) # "empty" => base # Absent
        /\ Mode(p) = "chain" /\ p \notin setup.rebases => IsAncestor(tip, start)
        /\ commits' = IF unchanged THEN commits ELSE Append(commits, Commit(base, p))
        /\ pub' = [pub EXCEPT ![p] = [target |-> target, base |-> base, noChanges |-> unchanged,
                                      candidate |-> IF unchanged THEN base ELSE NewId]]
        /\ Advance(p, next)
        /\ UNCHANGED <<tip, setup, start, crashes, outsiders, rewrites, landed>>

PrepareFails(p) ==
    /\ pc[p] = "squash"
    /\ \/ Fail(p, "failed")
       \/ /\ Mode(p) = "chain" /\ p \notin setup.rebases /\ ~IsAncestor(tip, start)
          /\ Fail(p, "diverged")
    /\ UNCHANGED <<commits, tip, setup, start, pub, crashes, outsiders, rewrites, landed>>

(* The rebase task (rebasePublication): the candidate is replayed on the     *)
(* pinned target; without local commits the workspace fast-forwards to it.   *)
Rebase(p) ==
    LET s == pub[p]
        moves == Mode(p) = "chain" /\ p \in setup.rebases
        replays == moves /\ ~s.noChanges /\ s.base # s.target
        next == IF Mode(p) = "empty" THEN "push_initial" ELSE "merge"
    IN  /\ pc[p] = "rebase"
        /\ commits' = IF replays THEN Append(commits, Commit(s.target, p)) ELSE commits
        /\ pub' = [pub EXCEPT ![p].candidate = IF replays THEN NewId
                                               ELSE IF moves /\ s.noChanges THEN s.target ELSE @]
        /\ Advance(p, next)
        /\ UNCHANGED <<tip, setup, start, crashes, outsiders, rewrites, landed>>

RebaseFails(p) ==
    /\ pc[p] = "rebase"
    /\ Fail(p, "failed")
    /\ UNCHANGED <<commits, tip, setup, start, pub, crashes, outsiders, rewrites, landed>>

-----------------------------------------------------------------------------
(* The merge task (mergePublication, mergeFrom). *)

Candidate(p) == pub[p].candidate

(* Mutants: the ancestry is read the wrong way round, or not at all. *)
PublishedSwapped(p) == tip # Absent /\ IsAncestor(tip, Candidate(p))
PublishedAsTip(p) == tip # Absent /\ tip = Candidate(p)

(* verifyMergeAncestry reads the branch: already published, or a fast       *)
(* forward, or neither.                                                     *)
Published(p) == tip # Absent /\ (tip = Candidate(p) \/ (~IsAncestor(tip, Candidate(p)) /\ IsAncestor(Candidate(p), tip)))
FastForward(p) == tip # Absent /\ tip # Candidate(p) /\ IsAncestor(tip, Candidate(p))

(* classifyMergeAdvancement: only the standalone op knows its prepared base. *)
Advanced(p) ==
    /\ Mode(p) = "merge"
    /\ pub[p].base # tip
    /\ IsAncestor(pub[p].base, Candidate(p))
    /\ IsAncestor(pub[p].base, tip)

Classify(p) == IF Advanced(p) THEN "advanced" ELSE "diverged"

SkipUnchanged(p) ==
    /\ pc[p] = "merge"
    /\ Mode(p) = "chain"
    /\ pub[p].noChanges
    /\ Finish(p, "success")
    /\ UNCHANGED <<commits, tip, setup, start, pub, crashes, outsiders, rewrites, landed>>

Preflight(p) ==
    /\ pc[p] = "merge"
    /\ ~(Mode(p) = "chain" /\ pub[p].noChanges)
    /\ \/ Published(p) /\ Finish(p, "success")
       \/ FastForward(p) /\ pc' = [pc EXCEPT ![p] = "push"] /\ UNCHANGED <<attempt, outcome>>
       \/ tip # Absent /\ ~Published(p) /\ ~FastForward(p) /\ Fail(p, Classify(p))
       \/ Fail(p, "failed")
    /\ UNCHANGED <<commits, tip, setup, start, pub, crashes, outsiders, rewrites, landed>>

(* Mutant: the push is forced. *)
PushForced(p) == Candidate(p) # Absent

(* The remote's receive-pack: a fast forward, or the creation of an absent  *)
(* branch; anything else is refused.                                        *)
PushAllowed(p) ==
    IF Mode(p) = "empty" THEN tip \in {Absent, Candidate(p)} ELSE tip # Absent /\ IsAncestor(tip, Candidate(p))

(* The remote takes the push, and the response arrives or is lost. *)
PushLands(p) ==
    /\ pc[p] \in {"push", "push_initial"}
    /\ PushAllowed(p)
    /\ tip' = Candidate(p)
    /\ landed' = landed \cup History(Candidate(p))
    /\ \/ Finish(p, "success")
       \/ pc' = [pc EXCEPT ![p] = "probe"] /\ UNCHANGED <<attempt, outcome>>
    /\ UNCHANGED <<commits, setup, start, pub, crashes, outsiders, rewrites>>

(* The push is refused, or never reaches the remote. *)
PushFails(p) ==
    /\ pc[p] \in {"push", "push_initial"}
    /\ \/ pc' = [pc EXCEPT ![p] = "probe"] /\ UNCHANGED <<attempt, outcome>>
       \/ Fail(p, "failed")     \* the context is done: nothing is probed
    /\ UNCHANGED <<commits, tip, setup, start, pub, crashes, outsiders, rewrites, landed>>

(* Mutant: a push error that the probe does not explain is dropped. *)
ProbeSilent(p) ==
    /\ pc[p] = "probe"
    /\ IF Mode(p) = "empty" THEN IsAncestor(Candidate(p), tip) ELSE Published(p)
    /\ Finish(p, "success")
    /\ UNCHANGED <<commits, tip, setup, start, pub, crashes, outsiders, rewrites, landed>>

(* After a failed push the branch is read again: the candidate may be there *)
(* already, or the branch may have advanced; otherwise, and when the probe  *)
(* itself fails, the push error stands.                                     *)
Probe(p) ==
    /\ pc[p] = "probe"
    /\ \/ /\ IF Mode(p) = "empty" THEN IsAncestor(Candidate(p), tip) ELSE Published(p)
          /\ Finish(p, "success")
       \/ /\ Mode(p) # "empty"
          /\ ~Published(p) /\ ~FastForward(p) /\ Advanced(p)
          /\ Fail(p, "advanced")
       \/ Fail(p, "failed")
    /\ UNCHANGED <<commits, tip, setup, start, pub, crashes, outsiders, rewrites, landed>>

-----------------------------------------------------------------------------
(* The worker dies before the task's outcome is recorded; the task runs     *)
(* again from its recorded input.                                           *)
Crash(p) ==
    /\ pc[p] # "done"
    /\ crashes < MaxCrashes
    /\ crashes' = crashes + 1
    /\ pc' = [pc EXCEPT ![p] = TaskStart(p)]
    /\ UNCHANGED <<commits, tip, setup, start, pub, attempt, outcome, outsiders, rewrites, landed>>

(* Somebody else pushes to the branch, or rewrites it. *)
OutsidePush ==
    /\ tip # Absent
    /\ outsiders < MaxOutside
    /\ outsiders' = outsiders + 1
    /\ commits' = Append(commits, Commit(tip, Outside))
    /\ tip' = NewId
    /\ landed' = landed \cup {NewId}
    /\ UNCHANGED <<setup, start, pub, pc, attempt, outcome, crashes, rewrites>>

OutsideRewrite ==
    /\ tip # Absent
    /\ rewrites < MaxRewrites
    /\ rewrites' = rewrites + 1
    /\ \E c \in History(tip) \ {tip} : tip' = c
    /\ UNCHANGED <<commits, setup, start, pub, pc, attempt, outcome, crashes, outsiders, landed>>

Init ==
    /\ setup \in Setups
    /\ commits = IF setup.branch THEN <<[anc |-> {1}, by |-> Outside], [anc |-> {1, 2}, by |-> Outside]>> ELSE <<>>
    /\ tip = IF setup.branch THEN 2 ELSE Absent
    /\ start = tip
    /\ pub = [p \in Publisher |-> [target |-> Absent, base |-> Absent, noChanges |-> FALSE, candidate |-> Absent]]
    /\ pc = [p \in Publisher |-> "squash"]
    /\ attempt = [p \in Publisher |-> 1]
    /\ outcome = [p \in Publisher |-> "none"]
    /\ crashes = 0
    /\ outsiders = 0
    /\ rewrites = 0
    /\ landed = History(tip)

Step(p) ==
    \/ Prepare(p)
    \/ PrepareFails(p)
    \/ Rebase(p)
    \/ RebaseFails(p)
    \/ SkipUnchanged(p)
    \/ Preflight(p)
    \/ PushLands(p)
    \/ PushFails(p)
    \/ Probe(p)

AllDone == (\A p \in Publisher : pc[p] = "done") /\ UNCHANGED vars

Next ==
    \/ \E p \in Publisher : Step(p) \/ Crash(p)
    \/ OutsidePush
    \/ OutsideRewrite
    \/ AllDone

(* JobDB re-leases an unfinished task until it has an outcome. *)
Fairness == \A p \in Publisher : WF_vars(Step(p))

Spec == Init /\ [][Next]_vars /\ Fairness

-----------------------------------------------------------------------------
(* Properties. *)

Outcomes == {"none", "success", "advanced", "diverged", "failed"}

(* The publication state has the shape its code gives it. *)
TypeOK ==
    /\ \A c \in Ids : commits[c].anc \subseteq 1..c /\ c \in commits[c].anc
                      /\ commits[c].by \in Publisher \cup {Outside}
    /\ tip \in Ids \cup {Absent}
    /\ setup \in Setups
    /\ start \in Ids \cup {Absent}
    /\ pub \in [Publisher -> [target : Ids \cup {Absent}, base : Ids \cup {Absent},
                              noChanges : BOOLEAN, candidate : Ids \cup {Absent}]]
    /\ pc \in [Publisher -> {"squash", "rebase", "merge", "push", "push_initial", "probe", "done"}]
    /\ attempt \in [Publisher -> 1..MaxAttempts]
    /\ outcome \in [Publisher -> Outcomes]
    /\ landed \subseteq Ids

(* A reported success is real: the reported merged hash has been in the     *)
(* branch, whatever became of the push's response.                          *)
SuccessWasPublished ==
    \A p \in Publisher : outcome[p] = "success" => Candidate(p) \in landed

(* "It cannot recreate the commit": lost responses, crashes and retries     *)
(* never land the change of one op twice.                                   *)
ChangeLandsOnce ==
    \A p \in Publisher : Cardinality({c \in landed : commits[c].by = p}) <= 1

(* MERGE_UPSTREAM_ADVANCED tells the recipe to rebase and publish again: it *)
(* is reported only when the candidate has not reached the branch, unless   *)
(* somebody outside took it out again.                                      *)
AdvancedMeansUnpublished ==
    \A p \in Publisher : outcome[p] = "advanced" /\ rewrites = 0 => Candidate(p) \notin landed

(* The tasks, retries and lost responses amount to what the ops promise: to *)
(* the branch they do nothing but add one commit of their own, once ("later *)
(* commits are preserved"), and to their recipe they report no success      *)
(* without it, whatever outsiders do between the steps.                     *)
Authored(cs) == {<<c, commits[c].by>> : c \in cs}
Branch == INSTANCE SharedBranch WITH Op <- Publisher, branch <- Authored(History(tip)), ever <- Authored(landed),
                                     idle <- setup.idle
ImplementsBranch == Branch!Spec

(* Every publication reaches an outcome. *)
PublicationsEnd == \A p \in Publisher : <>(outcome[p] # "none")
=============================================================================
