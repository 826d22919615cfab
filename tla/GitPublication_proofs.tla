------------------------ MODULE GitPublication_proofs ------------------------
(***************************************************************************)
(* What the run of GitPublication shows for two publishers, proved for any *)
(* publishers, setups, retry policy, and any number of crashes and of      *)
(* pushes and rewrites from outside.                                       *)
(*                                                                         *)
(* The argument: a candidate rests on commits that the branch has held, so *)
(* a push adds the candidate and nothing else; and a publisher's earlier   *)
(* candidate is below none of those, so only its last one can ever land.   *)
(***************************************************************************)
EXTENDS GitPublication, FiniteSetTheorems, WellFoundedInduction, TLAPS

Commits == [anc : SUBSET Nat, by : Publisher \cup {Outside}]

(* The ancestors of an ancestor are ancestors. *)
HistoryInv ==
    /\ commits \in Seq(Commits)
    /\ \A c \in Ids : \A a \in commits[c].anc : commits[a].anc \subseteq commits[c].anc

(* What the branch has held includes its own histories, and is the branch   *)
(* while nobody has rewritten it.                                           *)
LandedInv ==
    /\ \A c \in landed : commits[c].anc \subseteq landed
    /\ tip # Absent => tip \in landed
    /\ start # Absent => start \in landed
    /\ rewrites \in Nat
    /\ rewrites = 0 => landed = History(tip)

(* What a task has recorded rests on commits the branch has held. *)
RecordInv(p) ==
    /\ pub[p].target # Absent => pub[p].target \in landed
    /\ pub[p].base # Absent => pub[p].base \in landed
    /\ pc[p] = "rebase" /\ Mode(p) = "chain" => pub[p].target # Absent
    /\ pc[p] \notin {"squash", "done"} => Candidate(p) # Absent

(* A candidate is the publisher's own commit on top of such commits, or one of them. *)
CandidateInv(p) ==
    Candidate(p) # Absent =>
        /\ commits[Candidate(p)].anc \subseteq landed \cup {Candidate(p)}
        /\ pub[p].noChanges => Candidate(p) \in landed /\ p \in setup.idle
        /\ ~pub[p].noChanges => commits[Candidate(p)].by = p

(* Of a publisher's commits only its last candidate can have landed. *)
OnlyCandidateLands(p) ==
    \A c \in landed : commits[c].by = p =>
        c = Candidate(p) /\ ~pub[p].noChanges /\ pc[p] \notin {"squash", "rebase"}

OutcomeInv(p) ==
    /\ pc[p] = "done" <=> outcome[p] # "none"
    /\ outcome[p] = "success" => Candidate(p) \in landed
    /\ outcome[p] = "advanced" /\ rewrites = 0 => Candidate(p) \notin landed

PublisherInv(p) == RecordInv(p) /\ CandidateInv(p) /\ OnlyCandidateLands(p) /\ OutcomeInv(p)

PublicationInv ==
    /\ TypeOK
    /\ HistoryInv
    /\ LandedInv
    /\ \A p \in Publisher : PublisherInv(p)

-----------------------------------------------------------------------------
(* Facts about the data. *)

(* A nonempty set of numbers has a smallest one. *)
LEMMA SmallestOf ==
  ASSUME NEW T \in SUBSET Nat, T # {}
  PROVE  \E x \in T : \A y \in T : x <= y
<1> DEFINE Less == {s \in Nat \X Nat : s[1] < s[2]}
<1>1. OpToRel(<, Nat) = Less
  BY DEF OpToRel
<1>2. IsWellFoundedOn(Less, Nat)
  BY <1>1, NatLessThanWellFounded
<1>3. PICK x \in T : \A y \in T : ~ (<<y, x>> \in Less)
  BY <1>2, WFMin
<1>4. ASSUME NEW y \in T PROVE x <= y
  <2>1. <<y, x>> \in Nat \X Nat /\ <<y, x>>[1] = y /\ <<y, x>>[2] = x
    OBVIOUS
  <2>2. ~(y < x)
    BY <1>3, <2>1
  <2> QED
    BY <2>2
<1> QED
  BY <1>4

(* A nonempty set of commits has a latest one. *)
LEMMA LatestOf ==
  ASSUME NEW n \in Nat, NEW T \in SUBSET (1..n), T # {}
  PROVE  Max(T) \in T
<1> DEFINE D == {m \in Nat : n - m \in T}
<1>1. D \in SUBSET Nat /\ D # {}
  <2>1. PICK x \in T : TRUE
    OBVIOUS
  <2>2. n - x \in Nat /\ n - (n - x) = x
    OBVIOUS
  <2> QED
    BY <2>1, <2>2
<1>2. PICK d \in D : \A y \in D : d <= y
  BY <1>1, SmallestOf
<1>3. ASSUME NEW y \in T PROVE n - d >= y
  <2>1. n - y \in Nat /\ n - (n - y) = y
    OBVIOUS
  <2>2. d <= n - y
    BY <1>2, <2>1
  <2> QED
    BY <2>1, <2>2
<1> QED
  BY <1>3 DEF Max

(* Commits, their ancestors and histories are well formed. *)
LEMMA CommitFacts ==
  ASSUME TypeOK, HistoryInv
  PROVE  /\ Len(commits) \in Nat /\ DOMAIN commits = Ids
         /\ \A c \in Ids : c \in Nat /\ c # Absent /\ commits[c] \in Commits /\ commits[c].anc \subseteq Ids /\ c \in commits[c].anc
         /\ \A c \in Ids \cup {Absent} : History(c) \subseteq Ids /\ (c # Absent => History(c) = commits[c].anc)
<1>1. commits \in Seq(Commits) /\ Len(commits) \in Nat /\ DOMAIN commits = Ids
  BY DEF HistoryInv, Ids
<1>2. \A c \in Ids : c \in Nat /\ c # Absent /\ commits[c] \in Commits /\ 1..c \subseteq Ids
  BY <1>1 DEF Ids, Absent
<1>3. \A c \in Ids : commits[c].anc \subseteq Ids /\ c \in commits[c].anc
  BY <1>2 DEF TypeOK
<1> QED
  BY <1>1, <1>2, <1>3 DEF History

(* The merge base of two commits is in both histories. *)
LEMMA MergeBaseIn ==
  ASSUME TypeOK, HistoryInv, NEW a \in Ids \cup {Absent}, NEW b \in Ids \cup {Absent}, MergeBase(a, b) # Absent
  PROVE  MergeBase(a, b) \in History(a) /\ MergeBase(a, b) \in History(b)
<1> DEFINE common == History(a) \cap History(b)
<1>1. common \in SUBSET (1..Len(commits)) /\ Len(commits) \in Nat
  BY CommitFacts DEF Ids
<1>2. common # {} /\ MergeBase(a, b) = Max(common)
  BY DEF MergeBase
<1>3. Max(common) \in common
  BY <1>1, <1>2, LatestOf
<1> QED
  BY <1>2, <1>3

(* What no step does to the commits there are. *)
Keeps ==
    /\ HistoryInv'
    /\ \A c \in Ids' : commits'[c].anc \subseteq 1..c /\ c \in commits'[c].anc /\ commits'[c].by \in Publisher \cup {Outside}
    /\ Ids \subseteq Ids'
    /\ \A c \in Ids : commits'[c] = commits[c]

(* A step that makes no commit keeps every history. *)
LEMMA SameCommits == ASSUME TypeOK, HistoryInv, UNCHANGED commits PROVE Keeps
  BY DEF Keeps, TypeOK, HistoryInv, Ids

(* A new commit on top of another is the only new one, with the history of that one and itself. *)
LEMMA NewCommit ==
  ASSUME TypeOK, HistoryInv, NEW base \in Ids \cup {Absent}, NEW by \in Publisher \cup {Outside},
         commits' = Append(commits, Commit(base, by)), NEW n, n = NewId
  PROVE  /\ Keeps
         /\ n \notin Ids /\ n # Absent /\ Ids' = Ids \cup {n}
         /\ commits'[n].anc = History(base) \cup {n} /\ commits'[n].by = by
<1> DEFINE e == Commit(base, by)
<1>1. Len(commits) \in Nat /\ Ids = 1..Len(commits) /\ commits \in Seq(Commits) /\ n = Len(commits) + 1
  BY CommitFacts DEF HistoryInv, Ids, NewId
<1>2. History(base) \subseteq Ids /\ n \in Nat /\ n \notin Ids /\ n # Absent
  BY <1>1, CommitFacts DEF Absent
<1>3. History(base) \cup {n} \in SUBSET Nat
  BY <1>1, <1>2
<1>4. e \in Commits /\ e.anc = History(base) \cup {n} /\ e.by = by
  BY <1>1, <1>3 DEF Commit, Commits
<1>5. commits' \in Seq(Commits) /\ Ids' = Ids \cup {n} /\ commits'[n] = e /\ \A c \in Ids : commits'[c] = commits[c]
  <2> HIDE DEF e
  <2>1. commits' = Append(commits, e)
    BY DEF e
  <2>2. Len(commits') = n /\ commits' \in Seq(Commits) /\ commits'[n] = e /\ \A c \in 1..Len(commits) : commits'[c] = commits[c]
    BY <1>1, <1>4, <2>1
  <2>3. 1..n = (1..Len(commits)) \cup {n}
    BY <1>1
  <2> QED
    BY <1>1, <2>2, <2>3 DEF Ids
<1>6. \A a \in History(base) : commits[a].anc \subseteq History(base)
  BY CommitFacts DEF HistoryInv, History
<1>7. \A c \in Ids' : \A a \in commits'[c].anc : commits'[a].anc \subseteq commits'[c].anc
  <2> SUFFICES ASSUME NEW c \in Ids', NEW a \in commits'[c].anc PROVE commits'[a].anc \subseteq commits'[c].anc
    OBVIOUS
  <2>1. CASE c \in Ids
    BY <1>5, <2>1, CommitFacts DEF HistoryInv
  <2>2. CASE c = n /\ a \in History(base)
    BY <1>2, <1>4, <1>5, <1>6, <2>2
  <2> QED
    BY <1>4, <1>5, <2>1, <2>2
<1>8. \A c \in Ids' : commits'[c].anc \subseteq 1..c /\ c \in commits'[c].anc /\ commits'[c].by \in Publisher \cup {Outside}
  <2> SUFFICES ASSUME NEW c \in Ids'
               PROVE  commits'[c].anc \subseteq 1..c /\ c \in commits'[c].anc /\ commits'[c].by \in Publisher \cup {Outside}
    OBVIOUS
  <2>1. CASE c \in Ids
    BY <1>5, <2>1 DEF TypeOK
  <2>2. CASE c = n
    <3>1. Ids \cup {n} \subseteq 1..n
      BY <1>1
    <3> QED
      BY <1>2, <1>4, <1>5, <2>2, <3>1
  <2> QED
    BY <1>5, <2>1, <2>2
<1> QED
  BY <1>2, <1>4, <1>5, <1>7, <1>8 DEF Keeps, HistoryInv

-----------------------------------------------------------------------------
(* What a step leaves alone. *)

Steps == {"squash", "rebase", "merge", "push", "push_initial", "probe", "done"}
Records(ids) == [target : ids, base : ids, noChanges : BOOLEAN, candidate : ids]

(* A publisher that does not take the step, and no commit of which lands in it, keeps its invariant. *)
LEMMA OthersKept ==
  ASSUME PublicationInv, Keeps, NEW q \in Publisher, pub'[q] = pub[q], pc'[q] = pc[q], outcome'[q] = outcome[q],
         UNCHANGED setup, landed \subseteq landed', landed' \subseteq Ids', rewrites' = rewrites \/ rewrites' # 0,
         \A c \in landed' : c \notin landed => commits'[c].by # q
  PROVE  PublisherInv(q)'
<1>1. /\ PublisherInv(q) /\ landed \subseteq Ids /\ Candidate(q) \in Ids \cup {Absent} /\ Candidate(q)' = Candidate(q)
      /\ \A c \in Ids : commits'[c] = commits[c]
  BY DEF PublicationInv, TypeOK, Keeps, Candidate
<1>2. RecordInv(q)'
  BY <1>1 DEF PublisherInv, RecordInv, Mode
<1>3. CandidateInv(q)'
  BY <1>1 DEF PublisherInv, CandidateInv
<1>4. OnlyCandidateLands(q)'
  BY <1>1 DEF PublisherInv, OnlyCandidateLands
<1>5. OutcomeInv(q)'
  <2>1. ASSUME Candidate(q) \notin landed PROVE Candidate(q) \notin landed'
    <3>1. CASE Candidate(q) = Absent
      BY <3>1 DEF Ids, Absent
    <3>2. CASE Candidate(q) # Absent
      BY <1>1, <2>1, <3>2 DEF PublisherInv, CandidateInv
    <3> QED
      BY <3>1, <3>2
  <2> QED
    BY <1>1, <2>1 DEF PublisherInv, OutcomeInv
<1> QED
  BY <1>2, <1>3, <1>4, <1>5 DEF PublisherInv

(* A step that changes neither the branch nor the record of a publisher,   *)
(* only where its task is and what it reports.                              *)
LEMMA QuietStep ==
  ASSUME PublicationInv, NEW p \in Publisher, NEW x \in Steps, NEW o \in Outcomes,
         pc' = [pc EXCEPT ![p] = x], outcome' = [outcome EXCEPT ![p] = o], attempt' \in [Publisher -> 1..MaxAttempts],
         UNCHANGED <<commits, tip, setup, start, pub, rewrites, landed>>,
         x = "done" <=> o # "none", x \in {"squash", "rebase"} => x = pc[p],
         x \notin {"squash", "done"} => pc[p] \notin {"squash", "done"},
         o = "success" => Candidate(p) \in landed,
         o = "advanced" /\ rewrites = 0 => Candidate(p) \notin landed
  PROVE  PublicationInv'
<1>1. /\ TypeOK /\ HistoryInv /\ LandedInv /\ PublisherInv(p) /\ landed' \subseteq Ids'
      /\ pc \in [Publisher -> Steps] /\ outcome \in [Publisher -> Outcomes]
  BY DEF PublicationInv, TypeOK, Steps, Ids
<1>2. TypeOK'
  BY <1>1 DEF TypeOK, Ids, Steps
<1>3. HistoryInv' /\ LandedInv' /\ Keeps
  BY <1>1, SameCommits DEF HistoryInv, LandedInv, Ids, History
<1>4. ASSUME NEW q \in Publisher, q # p PROVE PublisherInv(q)'
  BY <1>1, <1>3, <1>4, OthersKept
<1>5. PublisherInv(p)'
  <2>1. pc'[p] = x /\ outcome'[p] = o /\ Candidate(p)' = Candidate(p)
    BY <1>1 DEF Candidate
  <2>2. RecordInv(p)' /\ CandidateInv(p)'
    BY <1>1, <2>1 DEF PublisherInv, RecordInv, CandidateInv, Mode
  <2>3. OnlyCandidateLands(p)' /\ OutcomeInv(p)'
    BY <1>1, <2>1 DEF PublisherInv, OnlyCandidateLands, OutcomeInv
  <2> QED
    BY <2>2, <2>3 DEF PublisherInv
<1> QED
  BY <1>2, <1>3, <1>4, <1>5 DEF PublicationInv

(* A task runs again from its own start. *)
LEMMA TaskStartIs ==
  ASSUME NEW p \in Publisher
  PROVE  IF pc[p] \in {"squash", "rebase"} THEN TaskStart(p) = pc[p] ELSE TaskStart(p) \in {"push_initial", "merge"}
  BY DEF TaskStart

(* A task's retry and its op's end are such steps. *)
LEMMA FinishQuiet ==
  ASSUME PublicationInv, NEW p \in Publisher, NEW what \in Outcomes \ {"none"}, Finish(p, what),
         UNCHANGED <<commits, tip, setup, start, pub, rewrites, landed>>,
         what = "success" => Candidate(p) \in landed,
         what = "advanced" /\ rewrites = 0 => Candidate(p) \notin landed
  PROVE  PublicationInv'
<1>1. "done" \in Steps /\ attempt' \in [Publisher -> 1..MaxAttempts]
  BY DEF Steps, Finish, PublicationInv, TypeOK
<1> QED
  BY <1>1, QuietStep DEF Finish

(* So are a task that fails and is attempted again, and one that has no attempt left. *)
LEMMA FailQuiet ==
  ASSUME PublicationInv, NEW p \in Publisher, NEW what \in {"failed", "diverged", "advanced"}, Fail(p, what), pc[p] # "done",
         UNCHANGED <<commits, tip, setup, start, pub, rewrites, landed>>,
         what = "advanced" /\ rewrites = 0 => Candidate(p) \notin landed
  PROVE  PublicationInv'
<1>1. CASE Finish(p, what)
  BY <1>1, FinishQuiet DEF Outcomes
<1>2. CASE /\ attempt[p] < MaxAttempts /\ attempt' = [attempt EXCEPT ![p] = @ + 1]
           /\ pc' = [pc EXCEPT ![p] = TaskStart(p)] /\ UNCHANGED outcome
  <2>1. pc[p] \in Steps /\ outcome \in [Publisher -> Outcomes] /\ attempt \in [Publisher -> 1..MaxAttempts] /\ OutcomeInv(p)
    BY DEF PublicationInv, TypeOK, Steps, PublisherInv
  <2>2. attempt' \in [Publisher -> 1..MaxAttempts]
    BY <1>2, <2>1, PublicationAssumption
  <2>3. outcome[p] = "none" /\ outcome' = [outcome EXCEPT ![p] = "none"] /\ "none" \in Outcomes
    BY <1>2, <2>1 DEF OutcomeInv, Outcomes
  <2>4. /\ TaskStart(p) \in Steps \ {"done"} /\ (TaskStart(p) \in {"squash", "rebase"} => TaskStart(p) = pc[p])
        /\ TaskStart(p) # "squash" => pc[p] # "squash"
    BY <2>1, TaskStartIs DEF Steps
  <2> QED
    BY <1>2, <2>2, <2>3, <2>4, QuietStep
<1> QED
  BY <1>1, <1>2 DEF Fail

(* A step that records a new state of a publisher's publication. *)
LEMMA RecordStep ==
  ASSUME PublicationInv, NEW p \in Publisher, NEW s \in Records(Ids' \cup {Absent}), NEW x \in Steps, Keeps,
         pub' = [pub EXCEPT ![p] = s], pc' = [pc EXCEPT ![p] = x], attempt' \in [Publisher -> 1..MaxAttempts],
         UNCHANGED <<outcome, tip, setup, start, rewrites, landed>>, PublisherInv(p)'
  PROVE  PublicationInv'
<1>1. TypeOK /\ HistoryInv /\ LandedInv /\ Ids \subseteq Ids' /\ landed \subseteq Ids
  BY DEF PublicationInv, Keeps, TypeOK
<1>2. pub' \in [Publisher -> Records(Ids' \cup {Absent})]
  <2>1. pub \in [Publisher -> Records(Ids \cup {Absent})] /\ Records(Ids \cup {Absent}) \subseteq Records(Ids' \cup {Absent})
    BY <1>1 DEF TypeOK, Records
  <2> QED
    BY <2>1
<1>3. TypeOK'
  BY <1>1, <1>2 DEF TypeOK, Keeps, Records, Steps
<1>4. LandedInv'
  BY <1>1 DEF LandedInv, Keeps, History, TypeOK
<1>5. ASSUME NEW q \in Publisher, q # p PROVE PublisherInv(q)'
  <2>1. pub'[q] = pub[q] /\ pc'[q] = pc[q] /\ landed' \subseteq Ids'
    BY <1>1, <1>5 DEF TypeOK
  <2> QED
    BY <2>1, OthersKept
<1> QED
  BY <1>3, <1>4, <1>5 DEF PublicationInv, Keeps

-----------------------------------------------------------------------------
(* One lemma per action. *)

(* The squash task's commit rests on the merge base or the checkout, which the branch has held. *)
LEMMA PrepareStep == ASSUME PublicationInv, NEW p \in Publisher, Prepare(p) PROVE PublicationInv'
<1> DEFINE target == IF Mode(p) = "chain" THEN tip ELSE Absent
           base == CASE Mode(p) = "chain" -> MergeBase(start, tip)
                     [] Mode(p) = "merge" -> start
                     [] OTHER -> Absent
           unchanged == p \in setup.idle /\ Mode(p) # "empty" /\ base = start
           next == IF Mode(p) = "merge" THEN "merge" ELSE "rebase"
           s == [target |-> target, base |-> base, noChanges |-> unchanged, candidate |-> IF unchanged THEN base ELSE NewId]
<1>1. /\ pc[p] = "squash" /\ (Mode(p) # "empty" => base # Absent)
      /\ commits' = IF unchanged THEN commits ELSE Append(commits, Commit(base, p))
      /\ pub' = [pub EXCEPT ![p] = s] /\ pc' = [pc EXCEPT ![p] = next] /\ attempt' = [attempt EXCEPT ![p] = 1]
      /\ UNCHANGED <<outcome, tip, setup, start, rewrites, landed>>
  BY DEF Prepare, Advance
<1>2. /\ TypeOK /\ HistoryInv /\ LandedInv /\ PublisherInv(p) /\ tip \in Ids \cup {Absent} /\ start \in Ids \cup {Absent}
      /\ landed \subseteq Ids /\ \A c \in landed : History(c) \subseteq landed
  BY DEF PublicationInv, TypeOK, LandedInv, History, Ids
<1>3. base \in Ids \cup {Absent} /\ (base # Absent => base \in landed) /\ (target # Absent => target \in landed)
      /\ target \in Ids \cup {Absent} /\ (Mode(p) = "chain" /\ base # Absent => target # Absent)
  <2>1. CASE Mode(p) = "chain"
    <3>1. base = MergeBase(start, tip) /\ target = tip
      BY <2>1
    <3>2. ASSUME base # Absent PROVE base \in landed /\ tip # Absent
      <4>1. base \in History(start) /\ base \in History(tip)
        BY <1>2, <3>1, <3>2, MergeBaseIn
      <4>2. start # Absent /\ tip # Absent
        BY <4>1 DEF History
      <4> QED
        BY <1>2, <4>1, <4>2 DEF LandedInv
    <3> HIDE DEF base, target
    <3> QED
      BY <1>2, <2>1, <3>1, <3>2 DEF LandedInv
  <2>2. CASE Mode(p) = "merge"
    BY <1>2, <2>2 DEF LandedInv
  <2>3. CASE Mode(p) \notin {"chain", "merge"}
    <3>1. base = Absent /\ target = Absent
      BY <2>3
    <3> QED
      BY <2>3, <3>1
  <2> QED
    BY <2>1, <2>2, <2>3
<1> HIDE DEF base, target
<1>4. unchanged \in BOOLEAN /\ next \in Steps /\ attempt' \in [Publisher -> 1..MaxAttempts]
  BY <1>1, <1>2, PublicationAssumption DEF TypeOK, Steps
<1>5. \A c \in landed : commits[c].by # p
  BY <1>1, <1>2 DEF PublisherInv, OnlyCandidateLands
<1>6. pc'[p] = next /\ pub'[p] = s
  BY <1>1, <1>2 DEF TypeOK
<1>7. CASE unchanged
  <2>1. /\ Keeps /\ Ids' = Ids /\ base # Absent /\ s.candidate = base /\ s.noChanges /\ s.base = base /\ s.target = target
        /\ UNCHANGED commits /\ Mode(p) # "empty" /\ p \in setup.idle
    BY <1>1, <1>2, <1>7, SameCommits DEF Ids
  <2>2. s \in Records(Ids' \cup {Absent})
    BY <1>3, <1>4, <1>7, <2>1 DEF Records
  <2>3. RecordInv(p)'
    BY <1>1, <1>3, <1>6, <2>1 DEF RecordInv, Mode, Candidate
  <2>4. CandidateInv(p)'
    BY <1>1, <1>2, <1>3, <1>6, <2>1 DEF CandidateInv, Candidate, LandedInv
  <2>5. OnlyCandidateLands(p)'
    BY <1>1, <1>5, <2>1 DEF OnlyCandidateLands
  <2>6. OutcomeInv(p)'
    BY <1>1, <1>2, <1>6 DEF OutcomeInv, PublisherInv
  <2> QED
    BY <1>1, <1>4, <2>1, <2>2, <2>3, <2>4, <2>5, <2>6, RecordStep DEF PublisherInv
<1>8. CASE ~unchanged
  <2> PICK n : n = NewId
    OBVIOUS
  <2>1. /\ Keeps /\ n \notin Ids /\ n # Absent /\ Ids' = Ids \cup {n}
        /\ commits'[n].anc = History(base) \cup {n} /\ commits'[n].by = p
    <3>1. commits' = Append(commits, Commit(base, p))
      BY <1>1, <1>8
    <3> QED
      BY <1>2, <1>3, <3>1, NewCommit
  <2>2. s.candidate = n /\ ~s.noChanges /\ s.base = base /\ s.target = target
    BY <1>8
  <2>3. s \in Records(Ids' \cup {Absent})
    BY <1>3, <1>4, <1>8, <2>1, <2>2 DEF Records
  <2>4. RecordInv(p)'
    BY <1>1, <1>3, <1>6, <2>1, <2>2 DEF RecordInv, Mode, Candidate
  <2>5. History(base) \subseteq landed
    BY <1>2, <1>3 DEF History
  <2>6. CandidateInv(p)'
    BY <1>1, <1>6, <2>1, <2>2, <2>5 DEF CandidateInv, Candidate
  <2>7. OnlyCandidateLands(p)'
    BY <1>1, <1>2, <1>5, <2>1 DEF OnlyCandidateLands, Keeps
  <2>8. OutcomeInv(p)'
    BY <1>1, <1>2, <1>6 DEF OutcomeInv, PublisherInv
  <2> QED
    BY <1>1, <1>4, <2>1, <2>3, <2>4, <2>6, <2>7, <2>8, RecordStep DEF PublisherInv
<1> QED
  BY <1>7, <1>8

(* The rebase task's commit rests on the pinned target. *)
LEMMA RebaseStep == ASSUME PublicationInv, NEW p \in Publisher, Rebase(p) PROVE PublicationInv'
<1> DEFINE r == pub[p]
           moves == Mode(p) = "chain" /\ p \in setup.rebases
           replays == moves /\ ~r.noChanges /\ r.base # r.target
           next == IF Mode(p) = "empty" THEN "push_initial" ELSE "merge"
           c == IF replays THEN NewId ELSE IF moves /\ r.noChanges THEN r.target ELSE r.candidate
           s == [r EXCEPT !.candidate = c]
<1>1. /\ pc[p] = "rebase" /\ commits' = IF replays THEN Append(commits, Commit(r.target, p)) ELSE commits
      /\ pub' = [pub EXCEPT ![p] = s] /\ pc' = [pc EXCEPT ![p] = next] /\ attempt' = [attempt EXCEPT ![p] = 1]
      /\ UNCHANGED <<outcome, tip, setup, start, rewrites, landed>>
  BY DEF Rebase, Advance
<1>2. /\ TypeOK /\ HistoryInv /\ LandedInv /\ PublisherInv(p) /\ r \in Records(Ids \cup {Absent})
      /\ landed \subseteq Ids /\ \A d \in landed : History(d) \subseteq landed
  BY DEF PublicationInv, TypeOK, LandedInv, History, Ids, Records
<1>3. /\ r.candidate # Absent /\ (Mode(p) = "chain" => r.target # Absent) /\ (r.target # Absent => r.target \in landed)
      /\ (r.base # Absent => r.base \in landed)
  BY <1>1, <1>2 DEF PublisherInv, RecordInv, Candidate
<1>4. next \in Steps \ {"squash", "rebase", "done"} /\ attempt' \in [Publisher -> 1..MaxAttempts]
  BY <1>1, <1>2, PublicationAssumption DEF TypeOK, Steps
<1>5. \A d \in landed : commits[d].by # p
  BY <1>1, <1>2 DEF PublisherInv, OnlyCandidateLands
<1>6. pc'[p] = next /\ pub'[p] = s
  BY <1>1, <1>2 DEF TypeOK
<1>7. s.candidate = c /\ s.noChanges = r.noChanges /\ s.base = r.base /\ s.target = r.target
  BY <1>2 DEF Records
<1>8. OutcomeInv(p)'
  BY <1>1, <1>2, <1>4, <1>6 DEF OutcomeInv, PublisherInv
<1>9. CASE ~replays
  <2>1. Keeps /\ Ids' = Ids /\ UNCHANGED commits
    BY <1>1, <1>2, <1>9, SameCommits DEF Ids
  <2>2. c # Absent /\ c \in Ids \cup {Absent}
    BY <1>2, <1>3, <1>9 DEF Records
  <2>3. s \in Records(Ids' \cup {Absent})
    BY <1>2, <2>1, <2>2 DEF Records
  <2>4. RecordInv(p)'
    BY <1>1, <1>3, <1>4, <1>6, <1>7, <2>2 DEF RecordInv, Mode, Candidate
  <2>5. CandidateInv(p)'
    <3>1. CASE moves /\ r.noChanges
      BY <1>1, <1>2, <1>3, <1>6, <1>7, <1>9, <2>1, <3>1 DEF CandidateInv, Candidate, LandedInv, PublisherInv
    <3>2. CASE ~(moves /\ r.noChanges)
      <4>1. c = r.candidate
        BY <1>9, <3>2
      <4> HIDE DEF c
      <4> QED
        BY <1>1, <1>2, <1>6, <1>7, <2>1, <4>1 DEF CandidateInv, Candidate, PublisherInv
    <3> QED
      BY <3>1, <3>2
  <2>6. OnlyCandidateLands(p)'
    BY <1>1, <1>5, <2>1 DEF OnlyCandidateLands
  <2> QED
    BY <1>1, <1>4, <1>8, <2>1, <2>3, <2>4, <2>5, <2>6, RecordStep DEF PublisherInv
<1>10. CASE replays
  <2> PICK n : n = NewId
    OBVIOUS
  <2>1. /\ Keeps /\ n \notin Ids /\ n # Absent /\ Ids' = Ids \cup {n}
        /\ commits'[n].anc = History(r.target) \cup {n} /\ commits'[n].by = p
    <3>1. commits' = Append(commits, Commit(r.target, p)) /\ r.target \in Ids \cup {Absent}
      BY <1>1, <1>2, <1>10 DEF Records
    <3> QED
      BY <1>2, <3>1, NewCommit
  <2>2. c = n /\ ~r.noChanges
    BY <1>10
  <2>3. s \in Records(Ids' \cup {Absent})
    BY <1>2, <2>1, <2>2 DEF Records
  <2> HIDE DEF c, s
  <2>4. RecordInv(p)'
    BY <1>1, <1>3, <1>4, <1>6, <1>7, <2>1, <2>2 DEF RecordInv, Mode, Candidate
  <2>5. History(r.target) \subseteq landed
    BY <1>2, <1>3 DEF History
  <2>6. CandidateInv(p)'
    BY <1>1, <1>6, <1>7, <2>1, <2>2, <2>5 DEF CandidateInv, Candidate
  <2>7. OnlyCandidateLands(p)'
    BY <1>1, <1>2, <1>5, <2>1 DEF OnlyCandidateLands, Keeps
  <2> QED
    BY <1>1, <1>4, <1>8, <2>1, <2>3, <2>4, <2>6, <2>7, RecordStep DEF PublisherInv
<1> QED
  BY <1>9, <1>10

(* Where the remote takes a push, the branch grows by the candidate alone. *)
LEMMA PushFacts ==
  ASSUME PublicationInv, NEW p \in Publisher, pc[p] \in {"push", "push_initial"}, PushAllowed(p)
  PROVE  /\ Candidate(p) \in Ids /\ Candidate(p) # Absent /\ Candidate(p) \in History(Candidate(p))
         /\ History(Candidate(p)) = commits[Candidate(p)].anc
         /\ History(tip) \subseteq History(Candidate(p)) /\ History(Candidate(p)) \subseteq landed \cup {Candidate(p)}
         /\ pub[p].noChanges => Candidate(p) \in landed /\ p \in setup.idle
         /\ ~pub[p].noChanges => commits[Candidate(p)].by = p
<1>1. TypeOK /\ HistoryInv /\ LandedInv /\ PublisherInv(p) /\ Candidate(p) \in Ids \cup {Absent} /\ tip \in Ids \cup {Absent}
  BY DEF PublicationInv, TypeOK, Candidate
<1>2. Candidate(p) # Absent /\ CandidateInv(p)
  BY <1>1 DEF PublisherInv, RecordInv
<1>3. Candidate(p) \in Ids /\ Candidate(p) \in History(Candidate(p)) /\ History(Candidate(p)) = commits[Candidate(p)].anc
  BY <1>1, <1>2, CommitFacts
<1>4. History(tip) \subseteq History(Candidate(p))
  <2>1. CASE tip \in {Absent, Candidate(p)}
    BY <1>3, <2>1 DEF History
  <2>2. CASE tip # Absent /\ tip \in History(Candidate(p))
    BY <1>1, <1>3, <2>2, CommitFacts DEF HistoryInv
  <2> QED
    BY <2>1, <2>2 DEF PushAllowed, IsAncestor
<1> QED
  BY <1>2, <1>3, <1>4 DEF CandidateInv

(* The push lands. *)
LEMMA PushLandsStep == ASSUME PublicationInv, NEW p \in Publisher, PushLands(p) PROVE PublicationInv'
<1> PICK c : c = Candidate(p)
  OBVIOUS
<1>1. /\ c \in Ids /\ c # Absent /\ c \in commits[c].anc /\ History(tip) \subseteq commits[c].anc /\ History(c) = commits[c].anc
      /\ commits[c].anc \subseteq landed \cup {c} /\ (c \notin landed => ~pub[p].noChanges /\ commits[c].by = p)
  BY PushFacts DEF PushLands
<1>2. /\ tip' = c /\ landed' = landed \cup {c} /\ UNCHANGED <<commits, setup, start, pub, rewrites>>
      /\ pc[p] \in {"push", "push_initial"}
  BY <1>1 DEF PushLands
<1>3. /\ TypeOK /\ HistoryInv /\ LandedInv /\ PublisherInv(p) /\ pc \in [Publisher -> Steps] /\ outcome \in [Publisher -> Outcomes]
      /\ landed \subseteq Ids
  BY DEF PublicationInv, TypeOK, Steps
<1>4. PICK x \in {"done", "probe"}, o \in {"success", "none"} :
         /\ pc' = [pc EXCEPT ![p] = x] /\ outcome' = [outcome EXCEPT ![p] = o] /\ UNCHANGED attempt
         /\ x = "done" <=> o # "none"
  <2>1. outcome[p] = "none"
    BY <1>2, <1>3 DEF PublisherInv, OutcomeInv
  <2>2. CASE Finish(p, "success")
    BY <2>2 DEF Finish
  <2>3. CASE pc' = [pc EXCEPT ![p] = "probe"] /\ UNCHANGED <<attempt, outcome>>
    <3>1. outcome' = [outcome EXCEPT ![p] = "none"]
      BY <1>3, <2>1, <2>3
    <3> QED
      BY <2>3, <3>1
  <2> QED
    BY <2>2, <2>3 DEF PushLands
<1>5. Keeps /\ Ids' = Ids
  BY <1>2, <1>3, SameCommits DEF Ids
<1>6. TypeOK'
  <2>1. pc' \in [Publisher -> Steps] /\ outcome' \in [Publisher -> Outcomes]
    BY <1>3, <1>4 DEF Steps, Outcomes
  <2>2. landed' \subseteq Ids' /\ tip' \in Ids' \cup {Absent}
    BY <1>1, <1>2, <1>3, <1>5
  <2> QED
    BY <1>2, <1>3, <1>4, <1>5, <2>1, <2>2 DEF TypeOK, Steps
<1>7. LandedInv'
  <2>1. History(tip)' = commits[c].anc
    BY <1>1, <1>2 DEF History
  <2>2. rewrites = 0 => landed' = commits[c].anc
    BY <1>1, <1>2, <1>3 DEF LandedInv
  <2>3. \A d \in landed' : commits[d].anc \subseteq landed'
    BY <1>1, <1>2, <1>3 DEF LandedInv
  <2> QED
    BY <1>2, <1>3, <2>1, <2>2, <2>3 DEF LandedInv
<1>8. ASSUME NEW q \in Publisher, q # p PROVE PublisherInv(q)'
  <2>1. pc'[q] = pc[q] /\ outcome'[q] = outcome[q] /\ landed' \subseteq Ids'
    BY <1>1, <1>2, <1>3, <1>4, <1>5, <1>8
  <2> QED
    BY <1>1, <1>2, <1>5, <1>8, <2>1, OthersKept
<1>9. PublisherInv(p)'
  <2>1. pc'[p] = x /\ outcome'[p] = o /\ Candidate(p)' = c /\ Candidate(p) = c
    BY <1>2, <1>3, <1>4 DEF Candidate
  <2>2. RecordInv(p)' /\ CandidateInv(p)'
    BY <1>1, <1>2, <1>3, <2>1 DEF PublisherInv, RecordInv, CandidateInv, Mode
  <2>3. OnlyCandidateLands(p)' /\ OutcomeInv(p)'
    BY <1>1, <1>2, <1>3, <1>4, <2>1 DEF PublisherInv, OnlyCandidateLands, OutcomeInv
  <2> QED
    BY <2>2, <2>3 DEF PublisherInv
<1> QED
  BY <1>5, <1>6, <1>7, <1>8, <1>9 DEF PublicationInv, Keeps

(* What reading the branch tells of the candidate. *)
LEMMA PublishedLanded ==
  ASSUME PublicationInv, NEW p \in Publisher, IsAncestor(Candidate(p), tip) \/ Published(p)
  PROVE  Candidate(p) \in landed
  BY DEF PublicationInv, LandedInv, Published, IsAncestor, History

(* A candidate the tip does not contain has not landed while nobody rewrote the branch. *)
LEMMA UnpublishedNotLanded ==
  ASSUME PublicationInv, NEW p \in Publisher, tip # Absent, ~Published(p), ~FastForward(p), rewrites = 0
  PROVE  Candidate(p) \notin landed
  BY DEF PublicationInv, LandedInv, Published, FastForward, IsAncestor

(* The steps of a publisher's tasks that only read the branch. *)
LEMMA ReadingStep ==
  ASSUME PublicationInv, NEW p \in Publisher,
         PrepareFails(p) \/ RebaseFails(p) \/ SkipUnchanged(p) \/ Preflight(p) \/ PushFails(p) \/ Probe(p)
  PROVE  PublicationInv'
<1>1. UNCHANGED <<commits, tip, setup, start, pub, rewrites, landed>> /\ pc[p] # "done"
  BY DEF PrepareFails, RebaseFails, SkipUnchanged, Preflight, PushFails, Probe
<1>2. CASE Fail(p, "failed") \/ Fail(p, "diverged")
  BY <1>1, <1>2, FailQuiet
<1>3. CASE Finish(p, "success") /\ Candidate(p) \in landed
  BY <1>1, <1>3, FinishQuiet DEF Outcomes
<1>4. CASE Fail(p, "advanced") /\ (rewrites = 0 => Candidate(p) \notin landed)
  BY <1>1, <1>4, FailQuiet
<1>5. ASSUME NEW x \in {"push", "probe"}, pc' = [pc EXCEPT ![p] = x], UNCHANGED <<attempt, outcome>>,
             pc[p] \notin {"squash", "done"}
      PROVE  PublicationInv'
  <2>1. outcome \in [Publisher -> Outcomes] /\ attempt \in [Publisher -> 1..MaxAttempts] /\ PublisherInv(p)
    BY DEF PublicationInv, TypeOK
  <2>2. outcome[p] = "none" /\ x \in Steps /\ "none" \in Outcomes
    BY <1>5, <2>1 DEF PublisherInv, OutcomeInv, Steps, Outcomes
  <2>3. outcome' = [outcome EXCEPT ![p] = "none"]
    BY <1>5, <2>1, <2>2
  <2> QED
    BY <1>1, <1>5, <2>1, <2>2, <2>3, QuietStep
<1>6. CASE PrepareFails(p) \/ RebaseFails(p)
  BY <1>2, <1>6 DEF PrepareFails, RebaseFails
<1>7. CASE SkipUnchanged(p)
  <2>1. PublisherInv(p) /\ pc[p] = "merge" /\ pub[p].noChanges /\ Finish(p, "success")
    BY <1>7 DEF SkipUnchanged, PublicationInv
  <2>2. Candidate(p) \in landed
    BY <2>1 DEF PublisherInv, RecordInv, CandidateInv
  <2> QED
    BY <1>3, <2>1, <2>2
<1>8. CASE Preflight(p)
  <2>1. CASE Published(p) /\ Finish(p, "success")
    BY <1>3, <2>1, PublishedLanded
  <2>2. CASE FastForward(p) /\ pc' = [pc EXCEPT ![p] = "push"] /\ UNCHANGED <<attempt, outcome>>
    BY <1>5, <1>8, <2>2 DEF Preflight
  <2>3. CASE tip # Absent /\ ~Published(p) /\ ~FastForward(p) /\ Fail(p, Classify(p))
    BY <1>2, <1>4, <2>3, UnpublishedNotLanded DEF Classify
  <2> QED
    BY <1>2, <1>8, <2>1, <2>2, <2>3 DEF Preflight
<1>9. CASE PushFails(p)
  BY <1>2, <1>5, <1>9 DEF PushFails
<1>10. CASE Probe(p)
  <2>1. CASE (IF Mode(p) = "empty" THEN IsAncestor(Candidate(p), tip) ELSE Published(p)) /\ Finish(p, "success")
    BY <1>3, <2>1, PublishedLanded
  <2>2. CASE ~Published(p) /\ ~FastForward(p) /\ Advanced(p) /\ Fail(p, "advanced")
    <3>1. tip # Absent
      BY <2>2 DEF Advanced, IsAncestor, History
    <3> QED
      BY <1>4, <2>2, <3>1, UnpublishedNotLanded
  <2> QED
    BY <1>2, <1>10, <2>1, <2>2 DEF Probe
<1> QED
  BY <1>6, <1>7, <1>8, <1>9, <1>10

(* A crash runs the task again. *)
LEMMA CrashStep == ASSUME PublicationInv, NEW p \in Publisher, Crash(p) PROVE PublicationInv'
<1>1. /\ outcome \in [Publisher -> Outcomes] /\ attempt \in [Publisher -> 1..MaxAttempts] /\ PublisherInv(p)
      /\ pc[p] \in Steps \ {"done"}
  BY DEF PublicationInv, TypeOK, Crash, Steps
<1>2. outcome[p] = "none" /\ "none" \in Outcomes
  BY <1>1 DEF PublisherInv, OutcomeInv, Outcomes
<1>3. outcome' = [outcome EXCEPT ![p] = "none"]
  BY <1>1, <1>2 DEF Crash
<1>4. /\ TaskStart(p) \in Steps \ {"done"} /\ (TaskStart(p) \in {"squash", "rebase"} => TaskStart(p) = pc[p])
      /\ TaskStart(p) # "squash" => pc[p] # "squash"
  BY <1>1, TaskStartIs DEF Steps
<1> QED
  BY <1>1, <1>2, <1>3, <1>4, QuietStep DEF Crash

(* Somebody outside pushes a commit, or takes commits out. *)
LEMMA OutsideStep ==
  ASSUME PublicationInv, OutsidePush \/ OutsideRewrite
  PROVE  PublicationInv'
<1>1. TypeOK /\ HistoryInv /\ LandedInv /\ tip \in Ids /\ landed \subseteq Ids
  BY DEF PublicationInv, TypeOK, OutsidePush, OutsideRewrite
<1>2. CASE OutsidePush
  <2> PICK n : n = NewId
    OBVIOUS
  <2>1. /\ tip' = n /\ landed' = landed \cup {n} /\ commits' = Append(commits, Commit(tip, Outside))
        /\ UNCHANGED <<setup, start, pub, pc, attempt, outcome, rewrites>>
    BY <1>2 DEF OutsidePush
  <2>2. /\ Keeps /\ n \notin Ids /\ n # Absent /\ Ids' = Ids \cup {n}
        /\ commits'[n].anc = History(tip) \cup {n} /\ commits'[n].by = Outside
    BY <1>1, <2>1, NewCommit
  <2>3. History(tip) \subseteq landed /\ History(tip)' = History(tip) \cup {n}
    BY <1>1, <2>1, <2>2 DEF LandedInv, History
  <2>4. LandedInv'
    BY <1>1, <2>1, <2>2, <2>3 DEF LandedInv, Keeps
  <2>5. TypeOK'
    BY <1>1, <2>1, <2>2 DEF TypeOK, Keeps
  <2>6. ASSUME NEW q \in Publisher PROVE PublisherInv(q)'
    <3>1. Outside # q /\ landed' \subseteq Ids'
      BY <1>1, <2>1, <2>2, PublicationAssumption
    <3> QED
      BY <2>1, <2>2, <3>1, OthersKept
  <2> QED
    BY <2>2, <2>4, <2>5, <2>6 DEF PublicationInv, Keeps
<1>3. CASE OutsideRewrite
  <2>1. PICK c \in History(tip) : tip' = c
    BY <1>3 DEF OutsideRewrite
  <2>2. UNCHANGED <<commits, setup, start, pub, pc, attempt, outcome, landed>> /\ rewrites' = rewrites + 1
    BY <1>3 DEF OutsideRewrite
  <2>3. History(tip) \subseteq landed /\ c \in landed /\ c \in Ids
    BY <1>1, <2>1, CommitFacts DEF LandedInv
  <2>4. rewrites' \in Nat /\ rewrites' # 0
    BY <1>1, <2>2 DEF LandedInv
  <2>5. LandedInv'
    BY <1>1, <2>1, <2>2, <2>3, <2>4 DEF LandedInv
  <2>6. TypeOK' /\ Keeps /\ landed' \subseteq Ids'
    BY <1>1, <2>1, <2>2, <2>3, SameCommits DEF TypeOK, Ids
  <2>7. ASSUME NEW q \in Publisher PROVE PublisherInv(q)'
    BY <2>2, <2>4, <2>6, OthersKept
  <2> QED
    BY <2>5, <2>6, <2>7 DEF PublicationInv, Keeps
<1> QED
  BY <1>2, <1>3

-----------------------------------------------------------------------------
(* The invariant. *)

(* The workspaces are checked out at the tip of a branch nobody has published to. *)
LEMMA PublicationInit == Init => PublicationInv
<1> SUFFICES ASSUME Init PROVE PublicationInv
  OBVIOUS
<1>1. /\ setup \in Setups /\ start = tip /\ landed = History(tip) /\ rewrites = 0
      /\ pub = [p \in Publisher |-> [target |-> Absent, base |-> Absent, noChanges |-> FALSE, candidate |-> Absent]]
      /\ pc = [p \in Publisher |-> "squash"] /\ attempt = [p \in Publisher |-> 1] /\ outcome = [p \in Publisher |-> "none"]
  BY DEF Init
<1>2. /\ HistoryInv /\ tip \in Ids \cup {Absent} /\ \A c \in Ids : commits[c].by = Outside
      /\ \A c \in Ids : commits[c].anc \subseteq 1..c /\ c \in commits[c].anc /\ commits[c].by \in Publisher \cup {Outside}
  <2>1. CASE setup.branch
    <3> DEFINE a == [anc |-> {1}, by |-> Outside]
               b == [anc |-> {1, 2}, by |-> Outside]
    <3>1. commits = <<a, b>> /\ tip = 2
      BY <2>1 DEF Init
    <3>2. a \in Commits /\ b \in Commits /\ a.anc = {1} /\ b.anc = {1, 2} /\ a.by = Outside /\ b.by = Outside
      BY DEF Commits
    <3> HIDE DEF a, b
    <3>3. commits \in Seq(Commits) /\ Len(commits) = 2 /\ commits[1] = a /\ commits[2] = b
      BY <3>1, <3>2
    <3>4. Ids = {1, 2}
      BY <3>3 DEF Ids
    <3> QED
      BY <3>1, <3>2, <3>3, <3>4 DEF HistoryInv, Absent
  <2>2. CASE ~setup.branch
    <3>1. commits = <<>> /\ tip = Absent /\ Ids = {}
      BY <2>2 DEF Init, Ids
    <3> QED
      BY <3>1 DEF HistoryInv, Ids
  <2> QED
    BY <2>1, <2>2
<1>3. landed \subseteq Ids /\ (tip # Absent => tip \in landed) /\ \A c \in landed : commits[c].anc \subseteq landed
  BY <1>1, <1>2 DEF History, HistoryInv, Ids
<1>4. TypeOK
  <2>1. attempt \in [Publisher -> 1..MaxAttempts]
    BY <1>1, PublicationAssumption
  <2>2. outcome \in [Publisher -> Outcomes] /\ pc \in [Publisher -> Steps]
    BY <1>1 DEF Outcomes, Steps
  <2>3. pub \in [Publisher -> Records(Ids \cup {Absent})]
    BY <1>1 DEF Records
  <2> QED
    BY <1>1, <1>2, <1>3, <2>1, <2>2, <2>3 DEF TypeOK, Steps, Records
<1>5. LandedInv
  BY <1>1, <1>3 DEF LandedInv
<1>6. ASSUME NEW p \in Publisher PROVE PublisherInv(p)
  <2>1. \A c \in landed : commits[c].by # p
    BY <1>2, <1>3, PublicationAssumption
  <2> QED
    BY <1>1, <2>1 DEF PublisherInv, RecordInv, CandidateInv, OnlyCandidateLands, OutcomeInv, Candidate
<1> QED
  BY <1>2, <1>4, <1>5, <1>6 DEF PublicationInv

(* Every step of the ops and of outsiders keeps the invariant. *)
LEMMA PublicationStep == PublicationInv /\ [Next]_vars => PublicationInv'
<1> SUFFICES ASSUME PublicationInv, [Next]_vars PROVE PublicationInv'
  OBVIOUS
<1>1. CASE UNCHANGED vars
  BY <1>1
  DEF vars, PublicationInv, TypeOK, HistoryInv, LandedInv, PublisherInv, RecordInv, CandidateInv, OnlyCandidateLands, OutcomeInv,
      Candidate, Mode, Ids, History
<1>2. ASSUME NEW p \in Publisher, Step(p) PROVE PublicationInv'
  BY <1>2, PrepareStep, RebaseStep, PushLandsStep, ReadingStep DEF Step
<1>3. ASSUME NEW p \in Publisher, Crash(p) PROVE PublicationInv'
  BY <1>3, CrashStep
<1> QED
  BY <1>1, <1>2, <1>3, OutsideStep DEF Next, AllDone

(* The inductive invariant holds in every reachable state. *)
THEOREM PublicationInvariant == Spec => []PublicationInv
  BY PublicationInit, PublicationStep, PTL DEF Spec

(* The recorded publication states, and the commits they name, keep the    *)
(* shape that publicationState and the repository give them.               *)
THEOREM PublicationTypeCorrect == Spec => []TypeOK
<1>1. PublicationInv => TypeOK
  BY DEF PublicationInv
<1> QED
  BY <1>1, PublicationInvariant, PTL

(* mergePublication reports success only for a hash the branch has held,   *)
(* whatever became of the push's response.                                  *)
THEOREM EverySuccessWasPublished == Spec => []SuccessWasPublished
<1>1. PublicationInv => SuccessWasPublished
  BY DEF PublicationInv, SuccessWasPublished, PublisherInv, OutcomeInv
<1> QED
  BY <1>1, PublicationInvariant, PTL

(* Lost responses, crashes and retries never land one op's change twice:    *)
(* of the commits squash and rebase make, only the last can reach it.       *)
THEOREM EveryChangeLandsOnce == Spec => []ChangeLandsOnce
<1>1. PublicationInv => ChangeLandsOnce
  <2> SUFFICES ASSUME PublicationInv, NEW p \in Publisher
               PROVE  Cardinality({c \in landed : commits[c].by = p}) <= 1
    BY DEF ChangeLandsOnce
  <2>1. {c \in landed : commits[c].by = p} \in SUBSET {Candidate(p)}
    BY DEF PublicationInv, PublisherInv, OnlyCandidateLands
  <2>2. IsFiniteSet({Candidate(p)}) /\ Cardinality({Candidate(p)}) = 1
    BY FS_Singleton
  <2> QED
    BY <2>1, <2>2, FS_Subset
<1> QED
  BY <1>1, PublicationInvariant, PTL

(* classifyMergeAdvancement asks for another rebase only when the candidate *)
(* has not reached the branch, unless its history was rewritten.            *)
THEOREM AdvancementMeansUnpublished == Spec => []AdvancedMeansUnpublished
<1>1. PublicationInv => AdvancedMeansUnpublished
  BY DEF PublicationInv, AdvancedMeansUnpublished, PublisherInv, OutcomeInv
<1> QED
  BY <1>1, PublicationInvariant, PTL

-----------------------------------------------------------------------------
(* The refinement. *)

(* The commits there are keep their authors. *)
LEMMA SameAuthors ==
  ASSUME Keeps, NEW S \in SUBSET Ids
  PROVE  {<<c, commits'[c].by>> : c \in S} = {<<c, commits[c].by>> : c \in S}
  BY DEF Keeps

(* A step that leaves the branch alone leaves the abstract one alone. *)
LEMMA SameBranch ==
  ASSUME PublicationInv, Keeps, UNCHANGED <<tip, landed, setup>>
  PROVE  Authored(History(tip))' = Authored(History(tip)) /\ Authored(landed)' = Authored(landed)
<1>1. tip \in Ids \cup {Absent} /\ History(tip) \in SUBSET Ids /\ landed \in SUBSET Ids
  BY CommitFacts DEF PublicationInv, TypeOK
<1>2. History(tip)' = History(tip)
  BY <1>1 DEF History, Keeps
<1>3. {<<c, commits'[c].by>> : c \in History(tip)} = {<<c, commits[c].by>> : c \in History(tip)}
  BY <1>1, SameAuthors
<1>4. {<<c, commits'[c].by>> : c \in landed} = {<<c, commits[c].by>> : c \in landed}
  BY <1>1, SameAuthors
<1> QED
  BY <1>2, <1>3, <1>4 DEF Authored

(* A reported outcome is a report of the abstract op, and a retry is nothing to it. *)
LEMMA FinishReports ==
  ASSUME PublicationInv, NEW p \in Publisher, pc[p] # "done", NEW what \in Outcomes \ {"none"}, Finish(p, what),
         UNCHANGED <<commits, tip, landed, setup>>, what = "success" => Candidate(p) \in landed
  PROVE  [Branch!Next]_(Branch!vars)
<1>1. TypeOK /\ HistoryInv /\ PublisherInv(p) /\ landed \subseteq Ids
  BY DEF PublicationInv, TypeOK
<1>2. Authored(History(tip))' = Authored(History(tip)) /\ Authored(landed)' = Authored(landed)
  BY <1>1, SameCommits, SameBranch
<1>3. outcome[p] = "none" /\ outcome' = [outcome EXCEPT ![p] = what]
  BY <1>1 DEF PublisherInv, OutcomeInv, Finish
<1>4. what = "success" => Branch!Of(p) # {} \/ p \in setup.idle
  <2> SUFFICES ASSUME Candidate(p) \in landed, p \notin setup.idle PROVE Branch!Of(p) # {}
    OBVIOUS
  <2>1. Candidate(p) # Absent
    BY <1>1 DEF Ids, Absent
  <2>2. commits[Candidate(p)].by = p
    BY <1>1, <2>1 DEF PublisherInv, CandidateInv
  <2>3. <<Candidate(p), p>> \in Authored(landed)
    BY <2>2 DEF Authored
  <2> QED
    BY <2>3 DEF Branch!Of
<1>5. Branch!Report(p, what)
  BY <1>2, <1>3, <1>4 DEF Branch!Report
<1> QED
  BY <1>5 DEF Branch!Next, Outcomes

(* A failed attempt is nothing to the abstract op; the last one reports the failure. *)
LEMMA FailReports ==
  ASSUME PublicationInv, NEW p \in Publisher, pc[p] # "done", NEW what \in {"failed", "diverged", "advanced"}, Fail(p, what),
         UNCHANGED <<commits, tip, landed, setup>>
  PROVE  [Branch!Next]_(Branch!vars)
<1>1. CASE Finish(p, what)
  BY <1>1, FinishReports DEF Outcomes
<1>2. CASE UNCHANGED outcome
  BY <1>2, SameCommits, SameBranch DEF Branch!vars, PublicationInv
<1> QED
  BY <1>1, <1>2 DEF Fail

(* A push that lands publishes the op's one commit, or puts back what was there. *)
LEMMA PushPublishes ==
  ASSUME PublicationInv, NEW p \in Publisher, PushLands(p)
  PROVE  [Branch!Next]_(Branch!vars)
<1> PICK c : c = Candidate(p)
  OBVIOUS
<1>1. /\ c \in Ids /\ c # Absent /\ c \in commits[c].anc /\ History(tip) \subseteq commits[c].anc /\ History(c) = commits[c].anc
      /\ commits[c].anc \subseteq landed \cup {c}
      /\ (pub[p].noChanges => c \in landed /\ p \in setup.idle) /\ (~pub[p].noChanges => commits[c].by = p)
  BY PushFacts DEF PushLands
<1>2. tip' = c /\ landed' = landed \cup {c} /\ UNCHANGED <<commits, setup>> /\ History(tip)' = commits[c].anc
  BY <1>1 DEF PushLands, History
<1>3. outcome[p] = "none" /\ outcome' \in {outcome, [outcome EXCEPT ![p] = "success"]}
  BY DEF PublicationInv, PublisherInv, OutcomeInv, PushLands, Finish
<1>4. /\ Authored(History(tip))' = {<<d, commits[d].by>> : d \in commits[c].anc}
      /\ Authored(landed)' = {<<d, commits[d].by>> : d \in landed \cup {c}}
  BY <1>2 DEF Authored
<1>5. CASE pub[p].noChanges
  <2>1. Authored(landed)' = Authored(landed) /\ Authored(History(tip))' \subseteq Authored(landed)
    BY <1>1, <1>2, <1>4, <1>5 DEF Authored
  <2>2. Authored(History(tip)) \subseteq Authored(History(tip))'
    BY <1>1, <1>4 DEF Authored
  <2>3. Branch!PutBack(p)
    BY <1>1, <1>2, <1>3, <1>5, <2>1, <2>2 DEF Branch!PutBack
  <2> QED
    BY <2>3 DEF Branch!Next
<1>6. CASE ~pub[p].noChanges
  <2> DEFINE a == <<c, p>>
  <2>1. a \in Authored(History(tip))' /\ a[2] = p
    BY <1>1, <1>4, <1>6
  <2>2. Authored(History(tip)) \subseteq Authored(History(tip))'
    BY <1>1, <1>4 DEF Authored
  <2>3. Authored(History(tip))' \subseteq Authored(landed) \cup {a} /\ Authored(landed)' = Authored(landed) \cup {a}
    BY <1>1, <1>4, <1>6 DEF Authored
  <2>4. Branch!Of(p) \subseteq {a}
    <3>1. \A d \in landed : commits[d].by = p => d = c
      BY DEF PublicationInv, PublisherInv, OnlyCandidateLands
    <3> QED
      BY <3>1 DEF Branch!Of, Authored
  <2>5. Authored(landed)' = Authored(landed) \cup Authored(History(tip))'
    BY <2>1, <2>3
  <2>6. Branch!Publish(p)
    BY <1>2, <1>3, <2>1, <2>2, <2>3, <2>4, <2>5 DEF Branch!Publish
  <2> QED
    BY <2>6 DEF Branch!Next
<1> QED
  BY <1>5, <1>6

(* A push or a rewrite from outside is one of the abstract branch. *)
LEMMA OutsideWrites ==
  ASSUME PublicationInv, OutsidePush \/ OutsideRewrite
  PROVE  [Branch!Next]_(Branch!vars)
<1>1. TypeOK /\ HistoryInv /\ LandedInv /\ tip \in Ids /\ landed \in SUBSET Ids /\ History(tip) \in SUBSET Ids
  BY CommitFacts DEF PublicationInv, TypeOK, OutsidePush, OutsideRewrite
<1>2. History(tip) \subseteq landed
  BY <1>1 DEF LandedInv, History
<1>3. CASE OutsidePush
  <2> PICK n : n = NewId
    OBVIOUS
  <2>1. /\ tip' = n /\ landed' = landed \cup {n} /\ commits' = Append(commits, Commit(tip, Outside))
        /\ UNCHANGED <<setup, outcome>>
    BY <1>3 DEF OutsidePush
  <2>2. /\ Keeps /\ n \notin Ids /\ n # Absent /\ Ids' = Ids \cup {n}
        /\ commits'[n].anc = History(tip) \cup {n} /\ commits'[n].by = Outside
    BY <1>1, <2>1, NewCommit
  <2>3. History(tip)' = History(tip) \cup {n}
    BY <2>1, <2>2 DEF History
  <2>4. /\ {<<c, commits'[c].by>> : c \in History(tip)} = {<<c, commits[c].by>> : c \in History(tip)}
        /\ {<<c, commits'[c].by>> : c \in landed} = {<<c, commits[c].by>> : c \in landed}
    BY <1>1, <2>2, SameAuthors
  <2>5. /\ Authored(History(tip))' = Authored(History(tip)) \cup {<<n, Outside>>}
        /\ Authored(landed)' = Authored(landed) \cup {<<n, Outside>>}
    BY <2>1, <2>2, <2>3, <2>4 DEF Authored
  <2>6. Authored(History(tip)) \subseteq Authored(landed)
    BY <1>2 DEF Authored
  <2>7. \A c \in Authored(History(tip))' \ Authored(History(tip)) : c[2] = Outside
    BY <2>5
  <2>8. Authored(landed)' = Authored(landed) \cup Authored(History(tip))'
    BY <2>5, <2>6
  <2>9. Branch!WriteOutside
    BY <2>1, <2>7, <2>8 DEF Branch!WriteOutside
  <2> QED
    BY <2>9 DEF Branch!Next
<1>4. CASE OutsideRewrite
  <2>1. PICK c \in History(tip) : tip' = c
    BY <1>4 DEF OutsideRewrite
  <2>2. UNCHANGED <<commits, setup, outcome, landed>>
    BY <1>4 DEF OutsideRewrite
  <2>3. History(tip)' \subseteq History(tip)
    BY <1>1, <2>1, <2>2, CommitFacts DEF History, HistoryInv
  <2>4. Authored(History(tip))' \subseteq Authored(History(tip)) /\ Authored(landed)' = Authored(landed)
    BY <2>2, <2>3 DEF Authored
  <2>5. Authored(History(tip)) \subseteq Authored(landed)
    BY <1>2 DEF Authored
  <2>6. Branch!WriteOutside
    BY <2>2, <2>4, <2>5 DEF Branch!WriteOutside
  <2> QED
    BY <2>6 DEF Branch!Next
<1> QED
  BY <1>3, <1>4

(* Every step of the ops and of outsiders is a step of the shared branch or nothing to it. *)
LEMMA BranchStep == PublicationInv /\ [Next]_vars => [Branch!Next]_(Branch!vars)
<1> SUFFICES ASSUME PublicationInv, [Next]_vars PROVE [Branch!Next]_(Branch!vars)
  OBVIOUS
<1>1. TypeOK /\ HistoryInv
  BY DEF PublicationInv
<1>2. ASSUME UNCHANGED <<tip, landed, setup, outcome>>, Keeps PROVE [Branch!Next]_(Branch!vars)
  BY <1>2, SameBranch DEF Branch!vars
<1>3. CASE UNCHANGED vars
  BY <1>1, <1>2, <1>3, SameCommits DEF vars
<1>4. ASSUME NEW p \in Publisher, Crash(p) PROVE [Branch!Next]_(Branch!vars)
  BY <1>1, <1>2, <1>4, SameCommits DEF Crash
<1>5. ASSUME NEW p \in Publisher, Prepare(p) \/ Rebase(p) PROVE [Branch!Next]_(Branch!vars)
  <2>1. UNCHANGED <<tip, landed, setup, outcome>>
    BY <1>5 DEF Prepare, Rebase, Advance
  <2>2. PublicationInv'
    BY <1>5, PrepareStep, RebaseStep
  <2>3. Keeps
    <3>1. HistoryInv' /\ TypeOK'
      BY <2>2 DEF PublicationInv
    <3>2. UNCHANGED commits \/ \E e : commits' = Append(commits, e)
      BY <1>5 DEF Prepare, Rebase
    <3>3. Ids \subseteq Ids' /\ \A c \in Ids : commits'[c] = commits[c]
      <4>1. commits \in Seq(Commits) /\ Len(commits) \in Nat
        BY <1>1 DEF HistoryInv
      <4>2. CASE UNCHANGED commits
        BY <4>2 DEF Ids
      <4>3. ASSUME NEW e, commits' = Append(commits, e) PROVE Ids \subseteq Ids' /\ \A c \in Ids : commits'[c] = commits[c]
        BY <4>1, <4>3 DEF Ids
      <4> QED
        BY <3>2, <4>2, <4>3
    <3> QED
      BY <3>1, <3>3 DEF Keeps, TypeOK
  <2> QED
    BY <1>2, <2>1, <2>3
<1>6. ASSUME NEW p \in Publisher,
             PrepareFails(p) \/ RebaseFails(p) \/ SkipUnchanged(p) \/ Preflight(p) \/ PushFails(p) \/ Probe(p)
      PROVE  [Branch!Next]_(Branch!vars)
  <2>1. UNCHANGED <<commits, tip, landed, setup>> /\ pc[p] # "done"
    BY <1>6 DEF PrepareFails, RebaseFails, SkipUnchanged, Preflight, PushFails, Probe
  <2>2. CASE UNCHANGED outcome
    BY <1>1, <1>2, <2>1, <2>2, SameCommits
  <2>3. CASE Fail(p, "failed") \/ Fail(p, "diverged") \/ Fail(p, "advanced")
    BY <2>1, <2>3, FailReports
  <2>4. CASE Finish(p, "success")
    <3>1. PublicationInv' /\ "success" \in Outcomes \ {"none"}
      BY <1>6, ReadingStep DEF Outcomes
    <3>2. outcome'[p] = "success" /\ pub' = pub
      BY <1>6, <2>4 DEF Finish, PublicationInv, TypeOK, PrepareFails, RebaseFails, SkipUnchanged, Preflight, PushFails, Probe
    <3>3. Candidate(p) \in landed
      BY <2>1, <3>1, <3>2 DEF PublicationInv, PublisherInv, OutcomeInv, Candidate
    <3> QED
      BY <2>1, <2>4, <3>1, <3>3, FinishReports
  <2> QED
    BY <1>6, <2>2, <2>3, <2>4 DEF PrepareFails, RebaseFails, SkipUnchanged, Preflight, PushFails, Probe, Classify
<1> QED
  BY <1>3, <1>4, <1>5, <1>6, PushPublishes, OutsideWrites DEF Next, Step, AllDone

(* The abstract branch starts with what the remote holds, and no op has reported. *)
LEMMA BranchInit == Init => Branch!Init
<1> SUFFICES ASSUME Init PROVE Branch!Init
  OBVIOUS
<1>1. PublicationInv /\ landed = History(tip) /\ outcome = [p \in Publisher |-> "none"] /\ setup \in Setups
  BY PublicationInit DEF Init
<1>2. setup.idle \subseteq Publisher
  BY <1>1, PublicationAssumption
<1>3. \A c \in landed : commits[c].by = Outside
  <2>1. landed \subseteq Ids /\ \A c \in Ids : commits[c].by \in Publisher \cup {Outside}
    BY <1>1 DEF PublicationInv, TypeOK
  <2>2. \A p \in Publisher : \A c \in landed : commits[c].by # p
    BY <1>1 DEF Init, PublicationInv, PublisherInv, OnlyCandidateLands
  <2> QED
    BY <2>1, <2>2
<1> QED
  BY <1>1, <1>2, <1>3 DEF Branch!Init, Authored

(* The durable tasks of squashrebasemerge and the standalone merge, with    *)
(* their retries, crashes and lost responses, implement the shared branch:  *)
(* an op adds one commit, once, never takes any out, and reports no success *)
(* without it.                                                              *)
THEOREM PublicationImplementsBranch == Spec => ImplementsBranch
<1>1. ImplementsBranch <=> Branch!Init /\ [][Branch!Next]_(Branch!vars)
  BY DEF ImplementsBranch, Branch!Spec
<1> QED
  BY <1>1, BranchInit, BranchStep, PublicationInvariant, PTL DEF Spec
=============================================================================
