----------------------------- MODULE InputForms -----------------------------
(***************************************************************************)
(* Input ops of one job (pkg/input): a form is prepared, waits, and is     *)
(* answered by a person, by autofill, or by the if_unanswered alternate.   *)
(* The job asks several inputs in turn; each is one occurrence, known by   *)
(* the ordinal of its waiting task.  People list, look and answer at their *)
(* own pace, so an answer can arrive for an occurrence that is over.       *)
(* Subscribers follow the pending inputs on an event stream.               *)
(***************************************************************************)
EXTENDS Naturals, Sequences

CONSTANTS
    Scripts,      \* the sequences of forms a job may ask: one is chosen
    Clients,      \* people and programs that answer
    Streams,      \* connections to the event stream
    ChannelSize,  \* events a subscriber's channel holds
    MaxTries,     \* bound: submissions
    MaxCrashes,   \* bound: crashes of the worker that runs the alternate
    MaxCancels    \* bound: cancellations

Kind == {"ordinary", "review", "structured"}
Answers == {"none", "fit", "unfit"}      \* configured answers, and whether they pass the form's checks

ASSUME InputAssumption ==
    /\ \A f \in Scripts : f # <<>> /\ f \in Seq([kind : Kind, autofill : Answers, fallback : Answers])
    /\ "fallback" \notin Clients   \* answers of people are told from the alternate's
    /\ ChannelSize \in Nat \ {0}
    /\ MaxTries \in Nat /\ MaxCrashes \in Nat /\ MaxCancels \in Nat

VARIABLES
    forms,     \* the inputs this job asks, in order
    round,     \* the occurrence it has come to
    state,     \* of the job
    alternate, \* the waiting task has an alternate
    due,       \* the alternate's delay has elapsed
    answer,    \* the recorded answer of each occurrence
    client,    \* what each client is doing
    buffer,    \* the stream manager's recent events
    stream,    \* each connection
    tries,     \* submissions made so far
    crashes, cancels

vars == <<forms, round, state, alternate, due, answer, client, buffer, stream, tries, crashes, cancels>>
jobVars == <<round, state, alternate, due, answer>>

-----------------------------------------------------------------------------
Round == DOMAIN forms
Occurrence == UNION {DOMAIN f : f \in Scripts}
Form == forms[round]
NoAnswer == [by |-> "none", try |-> 0, shown |-> 0, fit |-> TRUE]
Pending == state = "pending"
Over(r) == r < round \/ state \in {"done", "failed", "cancelled"}
Identified(f) == f.kind \in {"review", "structured"}   \* a submission names the request it answers

Idle == [pc |-> "idle", shown |-> 0, handle |-> 0, try |-> 0, fit |-> TRUE, reply |-> "none"]
Closed == [open |-> FALSE, sent |-> FALSE, announced |-> {}, queue |-> <<>>]

(***************************************************************************)
(* The op's tasks.                                                         *)
(***************************************************************************)
(* Mutant: a form that already has a request ID gets no alternate. *)
PrepareUnansweredNew(f) == f.fallback # "none" /\ ~Identified(f)

PrepareUnanswered(f) == f.fallback # "none"

(* Mutant: fallback answers are taken as they are. *)
AcceptAny(f, fit) == TRUE

(* acceptForm and acceptStructured check the answers against the form. *)
AcceptForm(f, fit) == fit

(* Refused before anyone is asked. *)
Unpreparable(f) ==
    \/ f.fallback # "none" /\ f.autofill # "none"
    \/ f.fallback # "none" /\ ~AcceptForm(f, f.fallback = "fit")

BuildForm ==
    /\ state = "preparing"
    /\ state' = IF Unpreparable(Form) THEN "failed"
                ELSE IF Form.autofill # "none" THEN "autofill" ELSE "pending"
    /\ alternate' = (state' = "pending" /\ PrepareUnanswered(Form))
    /\ due' = FALSE
    /\ UNCHANGED <<forms, round, answer, client, buffer, stream, tries, crashes, cancels>>

(* The recorded answer ends the op, which normalises it: an ordinary form's *)
(* answer may lack a required field.                                        *)
Record(a) ==
    /\ answer' = [answer EXCEPT ![round] = a]
    /\ LET last == round = Len(forms) IN
       /\ state' = IF ~a.fit THEN "failed" ELSE IF last THEN "done" ELSE "preparing"
       /\ round' = IF ~a.fit \/ last THEN round ELSE round + 1
    /\ alternate' = FALSE /\ due' = FALSE

(* Mutant: a failed task leaves its alternate armed. *)
TaskFailsArmed ==
    /\ state' = "failed"
    /\ UNCHANGED <<round, answer, alternate, due>>

TaskFails ==
    /\ state' = "failed" /\ alternate' = FALSE /\ due' = FALSE
    /\ UNCHANGED <<round, answer>>

(* An ordinary form's autofill is echoed, the others' are accepted like a submission. *)
AutoFill ==
    /\ state = "autofill"
    /\ LET fit == Form.autofill = "fit" IN
       IF Identified(Form) /\ ~AcceptForm(Form, fit) THEN TaskFails
       ELSE Record([by |-> "autofill", try |-> 0, shown |-> round, fit |-> fit])
    /\ UNCHANGED <<forms, client, buffer, stream, tries, crashes, cancels>>

(* JobDB offers the alternate once its delay has elapsed. *)
Elapse ==
    /\ Pending /\ alternate /\ ~due
    /\ due' = TRUE
    /\ UNCHANGED <<forms, round, state, alternate, answer, client, buffer, stream, tries, crashes, cancels>>

AcquireAlternate ==
    /\ Pending /\ due
    /\ state' = "acquired"
    /\ UNCHANGED <<forms, round, alternate, due, answer, client, buffer, stream, tries, crashes, cancels>>

(* A stored document of the answers may have become unavailable. *)
CompleteUnanswered ==
    /\ state = "acquired"
    /\ \/ Record([by |-> "fallback", try |-> 0, shown |-> round, fit |-> Form.fallback = "fit"])
       \/ TaskFails
    /\ UNCHANGED <<forms, client, buffer, stream, tries, crashes, cancels>>

(* The worker dies with the alternate: its lease lapses and the input waits again. *)
AlternateCrash ==
    /\ state = "acquired" /\ crashes < MaxCrashes
    /\ state' = "pending"
    /\ crashes' = crashes + 1
    /\ UNCHANGED <<forms, round, alternate, due, answer, client, buffer, stream, tries, cancels>>

(* A worker claims the waiting job to apply an elapsed timeout. *)
Timeout ==
    /\ Pending
    /\ TaskFails
    /\ UNCHANGED <<forms, client, buffer, stream, tries, crashes, cancels>>

-----------------------------------------------------------------------------
(***************************************************************************)
(* A client lists the pending inputs, reads one, and submits an answer.    *)
(***************************************************************************)
At(c, pc) == client[c].pc = pc
Told(c, reply) == client' = [client EXCEPT ![c].pc = "told", ![c].fit = TRUE, ![c].reply = reply]

ListPendingInputs(c) ==
    /\ At(c, "idle") /\ Pending
    /\ client' = [client EXCEPT ![c].pc = "listed"]
    /\ UNCHANGED <<forms, jobVars, buffer, stream, tries, crashes, cancels>>

(* Inputs that were answered since the listing are skipped. *)
GetForm(c) ==
    /\ At(c, "listed")
    /\ IF Pending THEN client' = [client EXCEPT ![c].pc = "shown", ![c].shown = round]
                  ELSE client' = [client EXCEPT ![c].pc = "idle"]
    /\ UNCHANGED <<forms, jobVars, buffer, stream, tries, crashes, cancels>>

(* Mutant: the request identity is not compared. *)
AnyRequest(asked, shown) == TRUE

SameRequest(asked, shown) == asked = shown

(* What the operation that the shown form called for says of the form that waits now. *)
Check(shown, fit) ==
    LET asked == forms[shown].kind IN
    IF \/ asked = "structured" /\ Form.kind # "structured"
       \/ asked = "ordinary" /\ Identified(Form) THEN "invalid"
    ELSE IF asked # "ordinary" /\ ~SameRequest(round, shown) THEN "stale"
    ELSE IF asked # "ordinary" /\ ~AcceptForm(Form, fit) THEN "invalid" ELSE "ok"

(* The waiting task is read, and its form checks the submission. *)
Submit(c) ==
    /\ At(c, "shown") /\ tries < MaxTries
    /\ tries' = tries + 1
    /\ \E fit \in BOOLEAN :
          LET result == IF Pending THEN Check(client[c].shown, fit) ELSE "not_pending"
              tried == [client EXCEPT ![c].try = tries + 1]
          IN \/ /\ result = "ok"
                /\ client' = [tried EXCEPT ![c].pc = "captured", ![c].handle = round, ![c].fit = fit]
             \/ \E reply \in {result, "storage"} \ {"ok"} :
                   client' = [tried EXCEPT ![c].pc = "told", ![c].reply = reply]
    /\ UNCHANGED <<forms, jobVars, buffer, stream, crashes, cancels>>

(* Mutant: every error of Finish is taken for a conflict. *)
LostIsConflict(c) == client' = [client EXCEPT ![c].pc = "conflict"]

(* A lost response is not a conflict: whether the answer was recorded is not known. *)
ResponseLost(c) == Told(c, "storage")

(* task.Finish of the captured occurrence.  JobDB takes it, and the response  *)
(* may be lost; or it conflicts with what happened since; or storage fails.   *)
Finish(c) ==
    /\ At(c, "captured")
    /\ \/ /\ Pending /\ round = client[c].handle
          /\ Record([by |-> c, try |-> client[c].try, shown |-> client[c].shown, fit |-> client[c].fit])
          /\ \/ client' = [client EXCEPT ![c].pc = "finished"]
             \/ ResponseLost(c)
       \/ /\ ~(Pending /\ round = client[c].handle)
          /\ client' = [client EXCEPT ![c].pc = "conflict"]
          /\ UNCHANGED jobVars
       \/ Told(c, "storage") /\ UNCHANGED jobVars
    /\ UNCHANGED <<forms, buffer, stream, tries, crashes, cancels>>

(* A conflict is told apart by what is waiting now. *)
ConflictReply(c) ==
    IF ~Pending THEN "not_pending" ELSE IF round # client[c].handle THEN "stale" ELSE "storage"

LookupConflict(c) ==
    /\ At(c, "conflict")
    /\ Told(c, ConflictReply(c))
    /\ UNCHANGED <<forms, jobVars, buffer, stream, tries, crashes, cancels>>

Emit(event) ==
    /\ buffer' = Append(buffer, event)
    /\ stream' = [s \in Streams |-> IF stream[s].open /\ Len(stream[s].queue) < ChannelSize
                                    THEN [stream[s] EXCEPT !.queue = Append(@, event)] ELSE stream[s]]

BroadcastCompleted(c) ==
    /\ At(c, "finished")
    /\ Emit("input_completed")
    /\ Told(c, "ok")
    /\ UNCHANGED <<forms, jobVars, tries, crashes, cancels>>

(* The client goes back to the inputs, or submits the same answer again. *)
TryAgain(c) ==
    /\ At(c, "told")
    /\ \E pc \in {"idle", "shown"} :
          client' = [client EXCEPT ![c] = [Idle EXCEPT !.pc = pc, !.shown = IF pc = "shown" THEN client[c].shown ELSE 0]]
    /\ UNCHANGED <<forms, jobVars, buffer, stream, tries, crashes, cancels>>

Cancel ==
    /\ cancels < MaxCancels
    /\ state \notin {"done", "failed", "cancelled"}
    /\ state' = "cancelled" /\ alternate' = FALSE /\ due' = FALSE
    /\ cancels' = cancels + 1
    /\ Emit("input_cancelled")
    /\ UNCHANGED <<forms, round, answer, client, tries, crashes>>

-----------------------------------------------------------------------------
(***************************************************************************)
(* The event stream.  `sent' is the handler's sentPending set: it holds    *)
(* job IDs, and there is one job.                                          *)
(***************************************************************************)
Announce(st) == IF Pending /\ ~st.sent THEN [st EXCEPT !.sent = TRUE, !.announced = @ \cup {round}] ELSE st

(* Subscribing replays the buffer as far as the channel takes it; then the snapshot is sent. *)
Connect(s) ==
    /\ ~stream[s].open
    /\ LET held == IF Len(buffer) < ChannelSize THEN Len(buffer) ELSE ChannelSize IN
       stream' = [stream EXCEPT ![s] = Announce([Closed EXCEPT !.open = TRUE, !.queue = SubSeq(buffer, 1, held)])]
    /\ UNCHANGED <<forms, jobVars, client, buffer, tries, crashes, cancels>>

PollPending(s) ==
    /\ stream[s].open
    /\ stream' = [stream EXCEPT ![s] = Announce(@)]
    /\ UNCHANGED <<forms, jobVars, client, buffer, tries, crashes, cancels>>

SendEvent(s) ==
    /\ stream[s].open /\ stream[s].queue # <<>>
    /\ stream' = [stream EXCEPT ![s].queue = Tail(@)]
    /\ UNCHANGED <<forms, jobVars, client, buffer, tries, crashes, cancels>>

Disconnect(s) ==
    /\ stream[s].open
    /\ stream' = [stream EXCEPT ![s] = Closed]
    /\ UNCHANGED <<forms, jobVars, client, buffer, tries, crashes, cancels>>

-----------------------------------------------------------------------------
Init ==
    /\ forms \in Scripts
    /\ round = 1 /\ state = "preparing" /\ alternate = FALSE /\ due = FALSE
    /\ answer = [r \in DOMAIN forms |-> NoAnswer]
    /\ client = [c \in Clients |-> Idle]
    /\ buffer = <<>>
    /\ stream = [s \in Streams |-> Closed]
    /\ tries = 0 /\ crashes = 0 /\ cancels = 0

WorkerStep == BuildForm \/ AutoFill \/ AcquireAlternate \/ CompleteUnanswered

Next ==
    \/ WorkerStep \/ Elapse \/ AlternateCrash \/ Timeout \/ Cancel
    \/ \E c \in Clients : \/ ListPendingInputs(c) \/ GetForm(c) \/ Submit(c) \/ Finish(c)
                          \/ LookupConflict(c) \/ BroadcastCompleted(c) \/ TryAgain(c)
    \/ \E s \in Streams : Connect(s) \/ PollPending(s) \/ SendEvent(s) \/ Disconnect(s)

(* A running worker polls for work, JobDB's clock advances, and a handler polls as long as it is connected. *)
Fairness ==
    /\ WF_vars(WorkerStep) /\ WF_vars(Elapse)
    /\ \A s \in Streams : WF_vars(PollPending(s))

Spec == Init /\ [][Next]_vars /\ Fairness

-----------------------------------------------------------------------------
(* Every variable has its type, an occurrence that was never reached has no answer, and the alternate *)
(* is armed only for a waiting task: each completion of the task takes it down.                        *)
TypeOK ==
    /\ forms \in Scripts /\ round \in Round
    /\ state \in {"preparing", "autofill", "pending", "acquired", "done", "failed", "cancelled"}
    /\ alternate \in BOOLEAN /\ due \in BOOLEAN
    /\ due => alternate
    /\ alternate => state \in {"pending", "acquired"}
    /\ \A r \in Round : r > round => answer[r] = NoAnswer
    /\ \A c \in Clients :
          /\ client[c].pc \in {"idle", "listed", "shown", "captured", "conflict", "finished", "told"}
          /\ client[c].shown \in Round \cup {0} /\ client[c].handle \in Round \cup {0}
          /\ client[c].try \in 0..MaxTries
    /\ \A s \in Streams : stream[s].announced \subseteq Round /\ Len(stream[s].queue) <= ChannelSize

(* An answer to a review or a structured input was written for that very occurrence, however long the *)
(* client took and whatever happened in between (acceptReview, acceptStructured, task.Finish).        *)
AnswerWasMeantForIt ==
    \A r \in Round : answer[r].by # "none" /\ Identified(forms[r]) => answer[r].shown = r

(* Answers that were checked against the form do not fail the op: what the op cannot use was given to *)
(* an ordinary form, which SubmitResponse and autofill do not check (NormalizeOutputMap finds out).   *)
CheckedAnswerIsUsable ==
    \A r \in Round : ~answer[r].fit => forms[r].kind = "ordinary" /\ answer[r].by # "fallback"

(* What a submission is told is true: "ok" and the answer of that occurrence is the client's; refused *)
(* and it was not recorded anywhere; "stale" and the occurrence it was written for is over            *)
(* (finishInput's reading of a conflict while other clients, the alternate and timeouts race).        *)
RepliesAreTrue ==
    \A c \in Clients : At(c, "told") =>
        LET m == client[c]
            Recorded(r) == answer[r].by = c /\ answer[r].try = m.try IN
        /\ m.reply = "ok" => Recorded(m.handle)
        /\ m.reply \in {"stale", "invalid", "not_pending"} => \A r \in Round : ~Recorded(r)
        /\ m.reply = "stale" => Over(m.shown)

(* An input with if_unanswered does not wait forever, even if nobody answers and the worker that took *)
(* the alternate dies (prepareUnanswered, JobDB's alternates).                                        *)
UnansweredMovesOn ==
    \A r \in Occurrence : (round = r /\ Pending /\ Form.fallback # "none") ~> Over(r)

(* What the stream's description promises: an input that stays pending is announced to a subscriber *)
(* that stays connected.                                                                            *)
PendingIsAnnounced ==
    \A s \in Streams, r \in Occurrence :
        <>[](round = r /\ Pending /\ stream[s].open) => <>(r \in stream[s].announced)
=============================================================================
