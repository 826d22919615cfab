------------------------- MODULE InputForms_proofs -------------------------
(***************************************************************************)
(* The safety of input ops, for every job, number of people, submissions,  *)
(* crashes and cancellations.                                              *)
(*                                                                         *)
(* What a submission is told is about answers that were recorded steps     *)
(* ago, while other clients, the alternate and timeouts went on.  The      *)
(* invariant says why it stays true: a submission has a number of its own, *)
(* larger than that of any answer recorded before it; an occurrence is     *)
(* answered once, as it ends; and what a client holds for an occurrence    *)
(* that checks its answers was written for that occurrence and fits it.    *)
(***************************************************************************)
EXTENDS InputForms, TLAPS

FormType == [kind : Kind, autofill : Answers, fallback : Answers]
AnswerType == [by : Clients \cup {"none", "autofill", "fallback"}, try : Nat, shown : Nat, fit : BOOLEAN]
ClientType == [pc : {"idle", "listed", "shown", "captured", "conflict", "finished", "told"},
               shown : Nat, handle : Nat, try : Nat, fit : BOOLEAN,
               reply : {"none", "ok", "storage", "invalid", "stale", "not_pending"}]
StreamType == [open : BOOLEAN, sent : BOOLEAN, announced : SUBSET Nat,
               queue : Seq({"input_completed", "input_cancelled"})]

(* An armed alternate has answers that fit the form, which prepareUnanswered checked. *)
JobInv ==
    /\ forms \in Scripts /\ round \in Round
    /\ state \in {"preparing", "autofill", "pending", "acquired", "done", "failed", "cancelled"}
    /\ alternate \in BOOLEAN /\ due \in BOOLEAN
    /\ due => alternate
    /\ alternate => state \in {"pending", "acquired"} /\ Form.fallback = "fit"
    /\ state = "acquired" => due

(* What is said of one answer. *)
AnswerOk(r) ==
    /\ answer[r].try <= tries
    /\ answer[r].by # "none" /\ Identified(forms[r]) => answer[r].shown = r
    /\ ~answer[r].fit => forms[r].kind = "ordinary" /\ answer[r].by # "fallback"

(* The occurrence the job has come to is answered as it ends, the later ones are not. *)
AnswerInv ==
    /\ answer \in [Round -> AnswerType]
    /\ \A r \in Round : r > round => answer[r] = NoAnswer
    /\ state \notin {"done", "failed"} => answer[round] = NoAnswer
    /\ \A r \in Round : AnswerOk(r)

RecordedFor(c, r) == answer[r].by = c /\ answer[r].try = client[c].try

(* What a client that was told its reply may rely on. *)
ToldOk(c) ==
    /\ client[c].reply = "ok" => client[c].handle > 0 /\ RecordedFor(c, client[c].handle)
    /\ client[c].reply \in {"stale", "invalid", "not_pending"} => \A r \in Round : ~RecordedFor(c, r)
    /\ client[c].reply = "stale" => Over(client[c].shown)

(* What is said of one client. *)
ClientOk(c) ==
    /\ client[c].shown <= round /\ client[c].handle <= round /\ client[c].try <= tries
    /\ client[c].pc \notin {"idle", "listed"} => client[c].shown > 0
    /\ client[c].pc \in {"captured", "conflict", "finished", "told"} => client[c].try > 0
    /\ client[c].pc \in {"captured", "conflict", "finished"} =>
          client[c].handle > 0 /\ client[c].shown <= client[c].handle
    /\ client[c].pc = "captured" /\ Identified(forms[client[c].handle]) =>
          client[c].shown = client[c].handle /\ client[c].fit
    /\ client[c].pc \in {"captured", "conflict"} => \A r \in Round : ~RecordedFor(c, r)
    /\ client[c].pc = "finished" => RecordedFor(c, client[c].handle)
    /\ client[c].pc = "told" => ToldOk(c)

ClientInv == client \in [Clients -> ClientType] /\ \A c \in Clients : ClientOk(c)

(* A channel never holds more than it has room for. *)
StreamInv ==
    /\ buffer \in Seq({"input_completed", "input_cancelled"})
    /\ stream \in [Streams -> StreamType]
    /\ \A s \in Streams : stream[s].announced \subseteq Round /\ Len(stream[s].queue) <= ChannelSize

InputInv == JobInv /\ AnswerInv /\ ClientInv /\ StreamInv /\ tries \in 0..MaxTries /\ crashes \in Nat /\ cancels \in Nat

-----------------------------------------------------------------------------
(* Facts about the data. *)

(* A job's script is a nonempty sequence of forms. *)
LEMMA FormFacts ==
  ASSUME JobInv
  PROVE  /\ Len(forms) \in Nat /\ Round = 1..Len(forms) /\ round \in 1..Len(forms)
         /\ \A r \in Round : forms[r] \in FormType
         /\ Form \in FormType
<1>1. forms \in Seq(FormType) /\ forms # <<>> /\ round \in Round
  BY InputAssumption DEF JobInv, FormType
<1>2. Len(forms) \in Nat /\ Round = 1..Len(forms) /\ \A r \in Round : forms[r] \in FormType
  BY <1>1 DEF Round
<1> QED
  BY <1>1, <1>2 DEF Form

(* The types of a client's fields and of an answer's. *)
LEMMA Fields ==
  ASSUME InputInv
  PROVE  /\ \A c \in Clients :
               /\ client[c].shown \in Nat /\ client[c].handle \in Nat /\ client[c].try \in Nat /\ client[c].fit \in BOOLEAN
               /\ client[c] \in ClientType
         /\ \A r \in Round : answer[r].try \in Nat /\ answer[r].shown \in Nat /\ answer[r] \in AnswerType
         /\ tries \in Nat /\ round \in Nat
         /\ NoAnswer \in AnswerType /\ NoAnswer.try = 0 /\ NoAnswer.by = "none" /\ NoAnswer.fit
<1>1. \A m \in ClientType : m.shown \in Nat /\ m.handle \in Nat /\ m.try \in Nat /\ m.fit \in BOOLEAN
  BY DEF ClientType
<1>2. \A a \in AnswerType : a.try \in Nat /\ a.shown \in Nat
  BY DEF AnswerType
<1>3. NoAnswer \in AnswerType /\ NoAnswer.try = 0 /\ NoAnswer.by = "none" /\ NoAnswer.fit
  BY DEF NoAnswer, AnswerType
<1>4. JobInv /\ AnswerInv /\ ClientInv /\ tries \in Nat
  BY DEF InputInv
<1>5. round \in Nat
  BY <1>4, FormFacts
<1>6. \A c \in Clients : client[c] \in ClientType
  BY <1>4 DEF ClientInv
<1>7. \A r \in Round : answer[r] \in AnswerType
  BY <1>4 DEF AnswerInv
<1> QED
  BY <1>1, <1>2, <1>3, <1>4, <1>5, <1>6, <1>7

(* What the job and its answers may do while a client waits: occurrences end,  *)
(* and one that is not answered yet is answered by somebody else.              *)
Onward(d) ==
    /\ forms' = forms /\ round' \in Nat /\ round <= round'
    /\ tries' \in Nat /\ tries <= tries'
    /\ \A r \in Round : Over(r) => Over(r)'
    /\ \A r \in Round : \/ answer'[r] = answer[r]
                        \/ answer[r] = NoAnswer /\ (answer'[r].by # d \/ answer'[r].try = 0)

(* A client that does not take the step keeps what is said of it. *)
LEMMA ClientKept ==
  ASSUME InputInv, NEW d \in Clients, client'[d] = client[d], Onward(d)
  PROVE  ClientOk(d)'
<1> PICK m : m = client[d]
  OBVIOUS
<1>1. m.shown \in Nat /\ m.handle \in Nat /\ m.try \in Nat /\ round \in Nat /\ tries \in Nat /\ client'[d] = m
  BY Fields
<1>2. ClientOk(d)
  BY DEF InputInv, ClientInv
<1>3. Round = 1..Len(forms) /\ Len(forms) \in Nat /\ round \in 1..Len(forms) /\ Round' = Round
  BY FormFacts DEF InputInv, Round, Onward
<1>4. ASSUME m.try > 0, NEW r \in Round PROVE RecordedFor(d, r)' <=> RecordedFor(d, r)
  <2>1. answer[r].try = 0 \/ answer'[r] = answer[r]
    BY Fields DEF Onward
  <2>2. CASE answer'[r] = answer[r]
    BY <1>1, <2>2 DEF RecordedFor
  <2>3. CASE answer[r] = NoAnswer /\ (answer'[r].by # d \/ answer'[r].try = 0)
    BY <1>1, <1>4, <2>3, Fields DEF RecordedFor
  <2> QED
    BY <2>2, <2>3 DEF Onward
<1>5. m.pc \in {"captured", "conflict", "finished", "told"} => m.try > 0 /\ m.shown > 0
  BY <1>2 DEF ClientOk
<1>6. m.shown <= round' /\ m.handle <= round' /\ m.try <= tries'
  BY <1>1, <1>2 DEF ClientOk, Onward
<1>7. m.pc \in {"captured", "conflict"} => \A r \in Round : ~RecordedFor(d, r)'
  BY <1>2, <1>4, <1>5 DEF ClientOk
<1>8. m.pc = "finished" => RecordedFor(d, m.handle)'
  <2>1. m.pc = "finished" => m.handle \in Round
    BY <1>1, <1>2, <1>3 DEF ClientOk
  <2> QED
    BY <2>1, <1>2, <1>4, <1>5 DEF ClientOk
<1>9. m.pc = "told" => ToldOk(d)'
  <2> SUFFICES ASSUME m.pc = "told" PROVE ToldOk(d)'
    OBVIOUS
  <2>1. ToldOk(d) /\ m.shown \in Round
    BY <1>1, <1>2, <1>3, <1>5 DEF ClientOk
  <2>2. m.reply = "ok" => m.handle > 0 /\ RecordedFor(d, m.handle)'
    <3>1. m.reply = "ok" => m.handle \in Round
      BY <1>1, <1>2, <1>3, <2>1 DEF ClientOk, ToldOk
    <3> QED
      BY <3>1, <2>1, <1>4, <1>5 DEF ToldOk
  <2>3. m.reply \in {"stale", "invalid", "not_pending"} => \A r \in Round : ~RecordedFor(d, r)'
    BY <2>1, <1>4, <1>5 DEF ToldOk
  <2>4. m.reply = "stale" => Over(m.shown)'
    BY <2>1 DEF ToldOk, Onward
  <2> QED
    BY <2>2, <2>3, <2>4, <1>1, <1>3 DEF ToldOk
<1>10. forms' = forms
  BY DEF Onward
<1>11. m.pc = "captured" /\ Identified(forms'[m.handle]) => m.shown = m.handle /\ m.fit
  BY <1>2, <1>10 DEF ClientOk
<1> QED
  BY <1>1, <1>2, <1>3, <1>6, <1>7, <1>8, <1>9, <1>11 DEF ClientOk

(* A step of the job alone. *)
LEMMA JobStep ==
  ASSUME InputInv, UNCHANGED client, \A d \in Clients : Onward(d)
  PROVE  ClientInv'
  BY ClientKept DEF InputInv, ClientInv

(* A step of client c, which has state e after it. *)
LEMMA ClientStep ==
  ASSUME InputInv, NEW c \in Clients, NEW e \in ClientType,
         client' = [client EXCEPT ![c] = e],
         \A d \in Clients \ {c} : Onward(d),
         ClientOk(c)'
  PROVE  ClientInv'
<1>1. client \in [Clients -> ClientType]
  BY DEF InputInv, ClientInv
<1>2. client' \in [Clients -> ClientType] /\ \A d \in Clients \ {c} : client'[d] = client[d]
  BY <1>1
<1> QED
  BY <1>2, ClientKept DEF ClientInv

(* A job that stands still goes onward. *)
LEMMA StandsStill ==
  ASSUME InputInv, UNCHANGED <<forms, jobVars>>, tries' \in Nat, tries <= tries', NEW d
  PROVE  Onward(d)
<1>1. round \in Nat
  BY Fields
<1> QED
  BY <1>1 DEF Onward, jobVars, Over

(* Nothing is said of the job and its answers that a later submission could disturb. *)
LEMMA SameJob ==
  ASSUME InputInv, UNCHANGED <<forms, jobVars>>, tries' \in Nat, tries <= tries'
  PROVE  JobInv' /\ AnswerInv'
<1>1. JobInv'
  BY DEF InputInv, JobInv, jobVars, Round, Form
<1>2. \A r \in Round : AnswerOk(r)'
  <2> TAKE r \in Round
  <2>1. answer[r].try \in Nat /\ tries \in Nat /\ AnswerOk(r)
    BY Fields DEF InputInv, AnswerInv
  <2> QED
    BY <2>1 DEF AnswerOk, jobVars
<1>3. AnswerInv'
  BY <1>2 DEF InputInv, AnswerInv, jobVars, Round
<1> QED
  BY <1>1, <1>3

(* The stream is not touched. *)
LEMMA SameStream ==
  ASSUME InputInv, UNCHANGED <<forms, buffer, stream>>
  PROVE  StreamInv'
  BY DEF InputInv, StreamInv, Round

(* An event is sent to the subscribers whose channels have room. *)
LEMMA EmitStream ==
  ASSUME InputInv, NEW event \in {"input_completed", "input_cancelled"}, Emit(event), UNCHANGED forms
  PROVE  StreamInv'
<1>1. StreamInv /\ ChannelSize \in Nat
  BY InputAssumption DEF InputInv
<1>2. buffer' \in Seq({"input_completed", "input_cancelled"})
  BY <1>1 DEF Emit, StreamInv
<1>3. ASSUME NEW s \in Streams
      PROVE  stream'[s] \in StreamType /\ stream'[s].announced \subseteq Round /\ Len(stream'[s].queue) <= ChannelSize
  <2>1. stream[s] \in StreamType /\ stream[s].announced \subseteq Round /\ Len(stream[s].queue) <= ChannelSize
    BY <1>1 DEF StreamInv
  <2>2. stream'[s] = IF stream[s].open /\ Len(stream[s].queue) < ChannelSize
                     THEN [stream[s] EXCEPT !.queue = Append(@, event)] ELSE stream[s]
    BY DEF Emit
  <2>3. CASE stream[s].open /\ Len(stream[s].queue) < ChannelSize
    <3> PICK q : q = stream[s].queue
      OBVIOUS
    <3>1. q \in Seq({"input_completed", "input_cancelled"}) /\ Len(q) \in Nat /\ Len(q) < ChannelSize
      BY <2>1, <2>3 DEF StreamType
    <3>2. Append(q, event) \in Seq({"input_completed", "input_cancelled"}) /\ Len(Append(q, event)) = Len(q) + 1
      BY <3>1
    <3>3. stream'[s] = [stream[s] EXCEPT !.queue = Append(q, event)]
      BY <2>2, <2>3
    <3>4. /\ stream'[s] \in StreamType
          /\ stream'[s].announced = stream[s].announced /\ stream'[s].queue = Append(q, event)
      BY <2>1, <3>2, <3>3 DEF StreamType
    <3> QED
      BY <3>1, <3>2, <3>4, <2>1, <1>1
  <2>4. CASE ~(stream[s].open /\ Len(stream[s].queue) < ChannelSize)
    BY <2>1, <2>2, <2>4
  <2> QED
    BY <2>3, <2>4
<1>4. stream' \in [Streams -> StreamType]
  <2>1. stream' = [s \in Streams |-> stream'[s]]
    BY DEF Emit
  <2> QED
    BY <2>1, <1>3
<1> QED
  BY <1>2, <1>3, <1>4 DEF StreamInv, Round

-----------------------------------------------------------------------------
(* The op's tasks. *)

(* The answer of the occurrence that waits is recorded, and ends it. *)
LEMMA RecordStep ==
  ASSUME InputInv, NEW a \in AnswerType, Record(a), UNCHANGED <<forms, tries>>,
         state \in {"autofill", "pending", "acquired"},
         a.try <= tries, Identified(Form) => a.shown = round,
         ~a.fit => Form.kind = "ordinary" /\ a.by # "fallback"
  PROVE  /\ JobInv' /\ AnswerInv'
         /\ answer'[round] = a
         /\ \A d : a.by # d \/ a.try = 0 => Onward(d)
<1>1. JobInv /\ AnswerInv /\ tries \in Nat
  BY DEF InputInv
<1>2. Len(forms) \in Nat /\ Round = 1..Len(forms) /\ round \in 1..Len(forms) /\ round \in Nat /\ Round' = Round
  BY <1>1, FormFacts DEF Round
<1>3. answer' = [answer EXCEPT ![round] = a] /\ answer \in [Round -> AnswerType] /\ answer[round] = NoAnswer
  BY <1>1 DEF Record, AnswerInv
<1>4. answer' \in [Round -> AnswerType] /\ answer'[round] = a /\ \A r \in Round \ {round} : answer'[r] = answer[r]
  BY <1>2, <1>3
<1>5. /\ alternate' = FALSE /\ due' = FALSE
      /\ \/ state' \in {"failed", "done"} /\ round' = round
         \/ state' = "preparing" /\ round' = round + 1 /\ round < Len(forms)
  BY <1>2 DEF Record
<1>6. JobInv'
  <2>1. round' \in Round'
    BY <1>2, <1>5
  <2>2. state' \in {"preparing", "failed", "done"} /\ forms' \in Scripts
    BY <1>1, <1>5 DEF JobInv
  <2> QED
    BY <2>1, <2>2, <1>5 DEF JobInv
<1>7. \A r \in Round : AnswerOk(r)'
  <2> TAKE r \in Round
  <2>1. CASE r = round
    BY <2>1, <1>4 DEF AnswerOk, Form
  <2>2. CASE r # round
    BY <2>2, <1>1, <1>4 DEF AnswerInv, AnswerOk
  <2> QED
    BY <2>1, <2>2
<1>8. \A r \in Round : r > round' => answer'[r] = NoAnswer
  BY <1>1, <1>2, <1>4, <1>5 DEF AnswerInv
<1>9. state' \notin {"done", "failed"} => answer'[round'] = NoAnswer
  <2>1. round < Len(forms) => round + 1 \in Round \ {round} /\ round + 1 > round
    BY <1>2
  <2> QED
    BY <2>1, <1>1, <1>4, <1>5 DEF AnswerInv
<1>10. AnswerInv'
  BY <1>2, <1>4, <1>7, <1>8, <1>9 DEF AnswerInv
<1>11. \A r \in Round : Over(r) => Over(r)'
  BY <1>2, <1>5 DEF Over
<1>12. ASSUME NEW d, a.by # d \/ a.try = 0 PROVE Onward(d)
  BY <1>1, <1>2, <1>3, <1>4, <1>5, <1>11, <1>12 DEF Onward
<1> QED
  BY <1>4, <1>6, <1>10, <1>12

(* A step of the job that records no answer. *)
LEMMA MoveStep ==
  ASSUME InputInv, UNCHANGED <<forms, round, answer, tries>>,
         state \notin {"done", "failed", "cancelled"},
         JobInv'
  PROVE  AnswerInv' /\ \A d : Onward(d)
<1>1. AnswerInv /\ tries \in Nat /\ round \in Nat /\ Round' = Round
  BY Fields DEF InputInv, Round
<1>2. \A r \in Round : AnswerOk(r)'
  BY <1>1 DEF AnswerInv, AnswerOk
<1>3. answer[round] = NoAnswer
  BY <1>1 DEF AnswerInv
<1>4. AnswerInv'
  BY <1>1, <1>2, <1>3 DEF AnswerInv
<1>5. \A r \in Round : Over(r) => Over(r)'
  BY DEF Over
<1> QED
  BY <1>1, <1>4, <1>5 DEF Onward

(* A failed task ends the op, and its alternate. *)
LEMMA FailStep ==
  ASSUME InputInv, TaskFails, UNCHANGED <<forms, tries>>, state \notin {"done", "failed", "cancelled"}
  PROVE  JobInv' /\ AnswerInv' /\ \A d : Onward(d)
<1>1. JobInv'
  BY DEF InputInv, JobInv, TaskFails, Round, Form
<1> QED
  BY <1>1, MoveStep DEF TaskFails

(* The form is prepared: whoever waits for an alternate has one that fits. *)
LEMMA BuildFormStep == ASSUME InputInv, BuildForm PROVE InputInv'
<1>1. Form \in FormType /\ JobInv
  BY FormFacts DEF InputInv
<1>2. state' \in {"failed", "autofill", "pending"} /\ (state' = "pending" => ~Unpreparable(Form))
  BY DEF BuildForm
<1>3. alternate' = (state' = "pending" /\ PrepareUnanswered(Form)) /\ due' = FALSE
  BY DEF BuildForm
<1>4. alternate' \in BOOLEAN /\ (alternate' => state' = "pending" /\ Form.fallback = "fit")
  BY <1>2, <1>3 DEF PrepareUnanswered, Unpreparable, AcceptForm
<1>5. UNCHANGED <<forms, round, answer, client, buffer, stream, tries, crashes, cancels>> /\ state = "preparing"
  BY DEF BuildForm
<1>6. JobInv'
  BY <1>1, <1>2, <1>3, <1>4, <1>5 DEF JobInv, Round, Form
<1>7. AnswerInv' /\ ClientInv'
  BY <1>5, <1>6, MoveStep, JobStep
<1>8. StreamInv'
  BY <1>5, SameStream
<1> QED
  BY <1>5, <1>6, <1>7, <1>8 DEF InputInv

(* An autofilled answer is recorded: unchecked only for an ordinary form. *)
LEMMA AutoFillStep == ASSUME InputInv, AutoFill PROVE InputInv'
<1>1. UNCHANGED <<forms, client, buffer, stream, tries, crashes, cancels>> /\ state = "autofill"
  BY DEF AutoFill
<1>2. CASE Identified(Form) /\ Form.autofill # "fit"
  <2>1. TaskFails
    BY <1>2 DEF AutoFill, AcceptForm
  <2>2. JobInv' /\ AnswerInv' /\ ClientInv' /\ StreamInv'
    BY <2>1, <1>1, FailStep, JobStep, SameStream
  <2> QED
    BY <2>2, <1>1 DEF InputInv
<1>3. CASE ~(Identified(Form) /\ Form.autofill # "fit")
  <2> PICK a : a = [by |-> "autofill", try |-> 0, shown |-> round, fit |-> Form.autofill = "fit"]
    OBVIOUS
  <2>1. Record(a)
    BY <1>3 DEF AutoFill, AcceptForm
  <2>2. /\ a \in AnswerType /\ a.try = 0 /\ a.shown = round /\ a.by = "autofill"
        /\ a.fit <=> Form.autofill = "fit"
    BY Fields DEF AnswerType
  <2>3. Form.kind \in Kind
    BY FormFacts DEF InputInv, FormType
  <2>4. ~a.fit => Form.kind = "ordinary"
    BY <1>3, <2>2, <2>3 DEF Identified, Kind
  <2>5. tries \in Nat /\ 0 <= tries
    BY Fields
  <2>6. JobInv' /\ AnswerInv' /\ \A d : Onward(d)
    BY <1>1, <2>1, <2>2, <2>4, <2>5, RecordStep
  <2>7. ClientInv' /\ StreamInv'
    BY <2>6, <1>1, JobStep, SameStream
  <2> QED
    BY <2>6, <2>7, <1>1 DEF InputInv
<1> QED
  BY <1>2, <1>3

(* The alternate's delay elapses, a worker takes it, or dies with it. *)
LEMMA AlternateStep == ASSUME InputInv, Elapse \/ AcquireAlternate \/ AlternateCrash PROVE InputInv'
<1>1. /\ UNCHANGED <<forms, round, answer, client, buffer, stream, tries, cancels, alternate>>
      /\ state \in {"pending", "acquired"} /\ crashes' \in Nat
  BY DEF Elapse, AcquireAlternate, AlternateCrash, Pending, InputInv
<1>2. JobInv'
  BY <1>1 DEF InputInv, JobInv, Elapse, AcquireAlternate, AlternateCrash, Pending, Round, Form
<1>3. AnswerInv' /\ ClientInv'
  BY <1>1, <1>2, MoveStep, JobStep
<1>4. StreamInv'
  BY <1>1, SameStream
<1> QED
  BY <1>1, <1>2, <1>3, <1>4 DEF InputInv

(* The alternate records answers that were checked before anyone was asked. *)
LEMMA CompleteUnansweredStep == ASSUME InputInv, CompleteUnanswered PROVE InputInv'
<1>1. UNCHANGED <<forms, client, buffer, stream, tries, crashes, cancels>> /\ state = "acquired"
  BY DEF CompleteUnanswered
<1>2. CASE TaskFails
  <2>1. JobInv' /\ AnswerInv' /\ ClientInv' /\ StreamInv'
    BY <1>1, <1>2, FailStep, JobStep, SameStream
  <2> QED
    BY <2>1, <1>1 DEF InputInv
<1>3. CASE ~TaskFails
  <2> PICK a : a = [by |-> "fallback", try |-> 0, shown |-> round, fit |-> Form.fallback = "fit"]
    OBVIOUS
  <2>1. Record(a)
    BY <1>3 DEF CompleteUnanswered
  <2>2. Form.fallback = "fit"
    BY <1>1 DEF InputInv, JobInv
  <2>3. a \in AnswerType /\ a.try = 0 /\ a.shown = round /\ a.by = "fallback" /\ a.fit
    BY <2>2, Fields DEF AnswerType
  <2>4. tries \in Nat /\ 0 <= tries
    BY Fields
  <2>5. JobInv' /\ AnswerInv' /\ \A d : Onward(d)
    BY <1>1, <2>1, <2>3, <2>4, RecordStep
  <2>6. ClientInv' /\ StreamInv'
    BY <2>5, <1>1, JobStep, SameStream
  <2> QED
    BY <2>5, <2>6, <1>1 DEF InputInv
<1> QED
  BY <1>2, <1>3

(* A worker applies an elapsed timeout. *)
LEMMA TimeoutStep == ASSUME InputInv, Timeout PROVE InputInv'
<1>1. UNCHANGED <<forms, client, buffer, stream, tries, crashes, cancels>> /\ state = "pending" /\ TaskFails
  BY DEF Timeout, Pending
<1>2. JobInv' /\ AnswerInv' /\ ClientInv' /\ StreamInv'
  BY <1>1, FailStep, JobStep, SameStream
<1> QED
  BY <1>1, <1>2 DEF InputInv

(* The job is cancelled, and the subscribers are told. *)
LEMMA CancelStep == ASSUME InputInv, Cancel PROVE InputInv'
<1>1. /\ UNCHANGED <<forms, round, answer, client, tries, crashes>> /\ state \notin {"done", "failed", "cancelled"}
      /\ state' = "cancelled" /\ alternate' = FALSE /\ due' = FALSE /\ cancels' \in Nat /\ Emit("input_cancelled")
  BY DEF Cancel, InputInv
<1>2. JobInv'
  BY <1>1 DEF InputInv, JobInv, Round, Form
<1>3. AnswerInv' /\ ClientInv' /\ StreamInv'
  BY <1>1, <1>2, MoveStep, JobStep, EmitStream
<1> QED
  BY <1>1, <1>2, <1>3 DEF InputInv

-----------------------------------------------------------------------------
(* The clients. *)

(* A step of client c alone, to state e. *)
LEMMA OnlyClientStep ==
  ASSUME InputInv, NEW c \in Clients, NEW e \in ClientType,
         client' = [client EXCEPT ![c] = e],
         UNCHANGED <<forms, jobVars, crashes, cancels>>, StreamInv',
         tries' \in 0..MaxTries, tries <= tries',
         ClientOk(c)'
  PROVE  InputInv'
<1>1. tries' \in Nat
  BY InputAssumption
<1>2. JobInv' /\ AnswerInv'
  BY <1>1, SameJob
<1>3. \A d \in Clients : Onward(d)
  BY <1>1, StandsStill
<1>4. ClientInv'
  BY <1>3, ClientStep
<1> QED
  BY <1>2, <1>4 DEF InputInv

(* The pending inputs are listed, and one is read. *)
LEMMA ListStep == ASSUME InputInv, NEW c \in Clients, ListPendingInputs(c) \/ GetForm(c) PROVE InputInv'
<1> PICK m : m = client[c]
  OBVIOUS
<1>1. m \in ClientType /\ m.shown \in Nat /\ m.handle \in Nat /\ m.try \in Nat /\ client \in [Clients -> ClientType]
  BY Fields DEF InputInv, ClientInv
<1>2. UNCHANGED <<forms, jobVars, buffer, stream, tries, crashes, cancels>> /\ m.pc \in {"idle", "listed"}
  BY DEF ListPendingInputs, GetForm, At
<1>3. \E e \in ClientType : /\ client' = [client EXCEPT ![c] = e]
                            /\ e.handle = m.handle /\ e.try = m.try
                            /\ \/ e.pc \in {"idle", "listed"} /\ e.shown = m.shown
                               \/ e.pc = "shown" /\ e.shown = round
  <2>1. round \in Nat
    BY Fields
  <2>2. CASE ListPendingInputs(c)
    <3>1. [m EXCEPT !.pc = "listed"] \in ClientType /\ client' = [client EXCEPT ![c] = [m EXCEPT !.pc = "listed"]]
      BY <1>1, <2>2 DEF ListPendingInputs, ClientType
    <3> QED
      BY <3>1, <1>1 DEF ClientType
  <2>3. CASE GetForm(c) /\ Pending
    <3>1. /\ [m EXCEPT !.pc = "shown", !.shown = round] \in ClientType
          /\ client' = [client EXCEPT ![c] = [m EXCEPT !.pc = "shown", !.shown = round]]
      BY <1>1, <2>1, <2>3 DEF GetForm, ClientType
    <3> QED
      BY <3>1, <1>1 DEF ClientType
  <2>4. CASE GetForm(c) /\ ~Pending
    <3>1. [m EXCEPT !.pc = "idle"] \in ClientType /\ client' = [client EXCEPT ![c] = [m EXCEPT !.pc = "idle"]]
      BY <1>1, <2>4 DEF GetForm, ClientType
    <3> QED
      BY <3>1, <1>1 DEF ClientType
  <2> QED
    BY <2>2, <2>3, <2>4
<1>4. PICK e \in ClientType : /\ client' = [client EXCEPT ![c] = e]
                              /\ e.handle = m.handle /\ e.try = m.try
                              /\ \/ e.pc \in {"idle", "listed"} /\ e.shown = m.shown
                                 \/ e.pc = "shown" /\ e.shown = round
  BY <1>3
<1>5. client'[c] = e /\ round' = round /\ tries' = tries /\ round \in Nat /\ round > 0
  BY <1>1, <1>2, <1>4, FormFacts DEF jobVars, InputInv
<1>6. m.shown <= round /\ m.handle <= round /\ m.try <= tries
  BY DEF InputInv, ClientInv, ClientOk
<1>7. ClientOk(c)'
  BY <1>4, <1>5, <1>6 DEF ClientOk
<1>8. tries' \in 0..MaxTries /\ tries <= tries'
  BY <1>2, InputAssumption DEF InputInv
<1> QED
  BY <1>2, <1>4, <1>7, <1>8, SameStream, OnlyClientStep

(* A refused submission is told why; its number is new, so nothing is recorded under it. *)
LEMMA SubmitStep == ASSUME InputInv, NEW c \in Clients, Submit(c) PROVE InputInv'
<1> PICK m, n : m = client[c] /\ n = tries + 1
  OBVIOUS
<1>1. m \in ClientType /\ m.shown \in Nat /\ m.handle \in Nat /\ m.try \in Nat /\ client \in [Clients -> ClientType]
  BY Fields DEF InputInv, ClientInv
<1>2. /\ UNCHANGED <<forms, jobVars, buffer, stream, crashes, cancels>> /\ m.pc = "shown"
      /\ tries' = n /\ n \in 0..MaxTries /\ tries \in Nat /\ n \in Nat /\ n = tries + 1
  BY InputAssumption DEF Submit, At, InputInv
<1>3. /\ m.shown > 0 /\ m.shown <= round /\ m.handle <= round
      /\ m.shown \in Round /\ Round = 1..Len(forms) /\ round \in Round /\ round \in Nat /\ round > 0
  <2>1. m.shown > 0 /\ m.shown <= round /\ m.handle <= round
    BY <1>2 DEF InputInv, ClientInv, ClientOk
  <2>2. Len(forms) \in Nat /\ Round = 1..Len(forms) /\ round \in 1..Len(forms)
    BY FormFacts DEF InputInv
  <2> QED
    BY <2>1, <2>2, <1>1
<1>4. PICK fit \in BOOLEAN :
         LET result == IF Pending THEN Check(m.shown, fit) ELSE "not_pending"
             tried == [client EXCEPT ![c].try = n]
         IN \/ /\ result = "ok"
               /\ client' = [tried EXCEPT ![c].pc = "captured", ![c].handle = round, ![c].fit = fit]
            \/ \E reply \in {result, "storage"} \ {"ok"} :
                  client' = [tried EXCEPT ![c].pc = "told", ![c].reply = reply]
  BY DEF Submit
<1> DEFINE result == IF Pending THEN Check(m.shown, fit) ELSE "not_pending"
<1>5. /\ result \in {"ok", "invalid", "stale", "not_pending"}
      /\ result = "stale" => m.shown # round
      /\ result = "ok" /\ Identified(Form) => m.shown = round /\ fit
  <2>1. Form \in FormType /\ forms[m.shown] \in FormType
    BY <1>3, FormFacts DEF InputInv
  <2> QED
    BY <2>1 DEF Check, Identified, SameRequest, AcceptForm, FormType, Kind
<1>6. \A r \in Round : answer[r].try # n /\ answer'[r] = answer[r]
  <2>1. \A r \in Round : answer[r].try <= tries /\ answer[r].try \in Nat
    BY Fields DEF InputInv, AnswerInv, AnswerOk
  <2> QED
    BY <2>1, <1>2 DEF jobVars
<1>7. /\ round' = round /\ forms' = forms /\ Round' = Round /\ Form' = Form /\ Form = forms[round]
      /\ \A r : Over(r)' = Over(r)
  BY <1>2 DEF jobVars, Round, Form, Over
<1>8. tries <= tries' /\ StreamInv'
  BY <1>2, SameStream
<1>9. CASE result = "ok" /\ client' = [[client EXCEPT ![c].try = n] EXCEPT ![c].pc = "captured", ![c].handle = round, ![c].fit = fit]
  <2> PICK e : e = [m EXCEPT !.try = n, !.pc = "captured", !.handle = round, !.fit = fit]
    OBVIOUS
  <2>1. /\ e \in ClientType /\ e.pc = "captured" /\ e.try = n /\ e.handle = round /\ e.fit = fit /\ e.shown = m.shown
    BY <1>1, <1>2, <1>3 DEF ClientType
  <2>2. client' = [client EXCEPT ![c] = e] /\ client'[c] = e
    BY <1>1, <1>9
  <2>3. \A r \in Round : ~RecordedFor(c, r)'
    BY <1>6, <2>1, <2>2 DEF RecordedFor
  <2>4. ClientOk(c)'
    BY <1>1, <1>2, <1>3, <1>5, <1>7, <1>9, <2>1, <2>2, <2>3 DEF ClientOk
  <2> QED
    BY <1>2, <1>8, <2>1, <2>2, <2>4, OnlyClientStep
<1>10. ASSUME NEW reply \in {result, "storage"} \ {"ok"},
              client' = [[client EXCEPT ![c].try = n] EXCEPT ![c].pc = "told", ![c].reply = reply]
       PROVE  InputInv'
  <2> PICK e : e = [m EXCEPT !.try = n, !.pc = "told", !.reply = reply]
    OBVIOUS
  <2>1. reply \in {"invalid", "stale", "not_pending", "storage"} /\ (reply = "stale" => m.shown # round)
    BY <1>5, <1>10
  <2>2. /\ e \in ClientType /\ e.pc = "told" /\ e.try = n /\ e.handle = m.handle /\ e.shown = m.shown /\ e.reply = reply
    BY <1>1, <1>2, <2>1 DEF ClientType
  <2>3. client' = [client EXCEPT ![c] = e] /\ client'[c] = e
    BY <1>1, <1>10
  <2>4. \A r \in Round : ~RecordedFor(c, r)'
    BY <1>6, <2>2, <2>3 DEF RecordedFor
  <2>5. reply = "stale" => Over(m.shown)
    BY <2>1, <1>1, <1>3 DEF Over
  <2>6. ToldOk(c)'
    BY <1>7, <2>1, <2>2, <2>3, <2>4, <2>5 DEF ToldOk
  <2>7. ClientOk(c)'
    BY <1>1, <1>2, <1>3, <1>7, <2>2, <2>3, <2>6 DEF ClientOk
  <2> QED
    BY <1>2, <1>8, <2>2, <2>3, <2>7, OnlyClientStep
<1> QED
  BY <1>4, <1>9, <1>10

(* A reply that claims nothing. *)
LEMMA ToldIs ==
  ASSUME InputInv, NEW c \in Clients, NEW reply \in {"ok", "storage", "invalid", "stale", "not_pending"}, Told(c, reply)
  PROVE  \E e \in ClientType :
            /\ client' = [client EXCEPT ![c] = e] /\ client'[c] = e
            /\ e.pc = "told" /\ e.reply = reply /\ e.fit = TRUE
            /\ e.shown = client[c].shown /\ e.handle = client[c].handle /\ e.try = client[c].try
<1> PICK m : m = client[c]
  OBVIOUS
<1>1. m \in ClientType /\ client \in [Clients -> ClientType]
  BY Fields DEF InputInv, ClientInv
<1> PICK e : e = [m EXCEPT !.pc = "told", !.fit = TRUE, !.reply = reply]
  OBVIOUS
<1>2. /\ e \in ClientType /\ e.pc = "told" /\ e.reply = reply /\ e.fit = TRUE
      /\ e.shown = m.shown /\ e.handle = m.handle /\ e.try = m.try
  BY <1>1 DEF ClientType
<1>3. client' = [client EXCEPT ![c] = e] /\ client'[c] = e
  BY <1>1 DEF Told
<1> QED
  BY <1>2, <1>3

(* What Finish records, or does not. *)
LEMMA FinishStep == ASSUME InputInv, NEW c \in Clients, Finish(c) PROVE InputInv'
<1> PICK m : m = client[c]
  OBVIOUS
<1>1. m \in ClientType /\ m.shown \in Nat /\ m.handle \in Nat /\ m.try \in Nat /\ m.fit \in BOOLEAN
      /\ client \in [Clients -> ClientType]
  BY Fields DEF InputInv, ClientInv
<1>2. UNCHANGED <<forms, buffer, stream, tries, crashes, cancels>> /\ m.pc = "captured"
  BY DEF Finish, At
<1>3. /\ m.shown > 0 /\ m.try > 0 /\ m.handle > 0 /\ m.shown <= m.handle /\ m.handle <= round /\ m.try <= tries
      /\ Identified(forms[m.handle]) => m.shown = m.handle /\ m.fit
      /\ \A r \in Round : ~RecordedFor(c, r)
  BY <1>2 DEF InputInv, ClientInv, ClientOk
<1>4. Len(forms) \in Nat /\ Round = 1..Len(forms) /\ round \in 1..Len(forms) /\ Form \in FormType /\ round \in Nat
  BY FormFacts DEF InputInv
<1>5. tries' \in 0..MaxTries /\ tries' \in Nat /\ tries <= tries' /\ StreamInv' /\ tries \in Nat
  BY <1>2, SameStream, InputAssumption DEF InputInv
<1>6. CASE /\ Pending /\ round = m.handle
           /\ Record([by |-> c, try |-> m.try, shown |-> m.shown, fit |-> m.fit])
           /\ client' = [client EXCEPT ![c].pc = "finished"] \/ ResponseLost(c)
  <2> PICK a : a = [by |-> c, try |-> m.try, shown |-> m.shown, fit |-> m.fit]
    OBVIOUS
  <2>1. a \in AnswerType /\ a.by = c /\ a.try = m.try /\ a.shown = m.shown /\ a.fit = m.fit /\ Record(a)
    BY <1>1, <1>6 DEF AnswerType
  <2>2. (Identified(Form) => a.shown = round) /\ (~a.fit => Form.kind = "ordinary" /\ a.by # "fallback")
    BY <1>3, <1>4, <1>6, <2>1, InputAssumption DEF Identified, Form, FormType, Kind
  <2>3. /\ JobInv' /\ AnswerInv' /\ answer'[round] = a /\ \A d \in Clients \ {c} : Onward(d)
        /\ round' \in Nat /\ round <= round'
    <3>1. JobInv' /\ AnswerInv' /\ answer'[round] = a /\ \A d : a.by # d \/ a.try = 0 => Onward(d)
      BY <1>2, <1>3, <1>6, <2>1, <2>2, RecordStep DEF Pending
    <3>2. \E d : a.by # d
      <4>1. a.by # IF a.by = "x" THEN "y" ELSE "x"
        OBVIOUS
      <4> QED
        BY <4>1
    <3> QED
      BY <3>1, <3>2, <2>1 DEF Onward
  <2>4. \E e \in ClientType :
           /\ client' = [client EXCEPT ![c] = e] /\ client'[c] = e
           /\ e.pc = "finished" \/ (e.pc = "told" /\ e.reply = "storage")
           /\ e.shown = m.shown /\ e.handle = m.handle /\ e.try = m.try
    <3>1. CASE ResponseLost(c)
      BY <3>1, ToldIs DEF ResponseLost
    <3>2. CASE client' = [client EXCEPT ![c].pc = "finished"]
      <4> PICK e : e = [m EXCEPT !.pc = "finished"]
        OBVIOUS
      <4>1. e \in ClientType /\ e.pc = "finished" /\ e.shown = m.shown /\ e.handle = m.handle /\ e.try = m.try
        BY <1>1 DEF ClientType
      <4>2. client' = [client EXCEPT ![c] = e] /\ client'[c] = e
        BY <1>1, <3>2
      <4> QED
        BY <4>1, <4>2
    <3> QED
      BY <3>1, <3>2, <1>6
  <2>5. PICK e \in ClientType :
           /\ client' = [client EXCEPT ![c] = e] /\ client'[c] = e
           /\ e.pc = "finished" \/ (e.pc = "told" /\ e.reply = "storage")
           /\ e.shown = m.shown /\ e.handle = m.handle /\ e.try = m.try
    BY <2>4
  <2>6. ClientOk(c)'
    <3>1. RecordedFor(c, e.handle)'
      BY <1>6, <2>1, <2>3, <2>5 DEF RecordedFor
    <3>2. e.pc = "told" => ToldOk(c)'
      BY <2>5 DEF ToldOk
    <3>3. e.shown <= round' /\ e.handle <= round' /\ e.try <= tries'
      BY <1>1, <1>2, <1>3, <1>4, <2>3, <2>5
    <3> QED
      BY <3>1, <3>2, <3>3, <1>3, <2>5 DEF ClientOk
  <2>7. ClientInv'
    BY <2>3, <2>5, <2>6, ClientStep
  <2> QED
    BY <1>2, <1>5, <2>3, <2>7 DEF InputInv
<1>7. CASE client' = [client EXCEPT ![c].pc = "conflict"] /\ UNCHANGED jobVars
  <2> PICK e : e = [m EXCEPT !.pc = "conflict"]
    OBVIOUS
  <2>1. e \in ClientType /\ e.pc = "conflict" /\ e.shown = m.shown /\ e.handle = m.handle /\ e.try = m.try
    BY <1>1 DEF ClientType
  <2>2. client' = [client EXCEPT ![c] = e] /\ client'[c] = e
    BY <1>1, <1>7
  <2>3. round' = round /\ tries' = tries /\ Round' = Round /\ \A r \in Round : ~RecordedFor(c, r)'
    BY <1>2, <1>3, <1>7, <2>1, <2>2 DEF jobVars, Round, RecordedFor
  <2>4. ClientOk(c)'
    BY <1>1, <1>3, <1>4, <2>1, <2>2, <2>3 DEF ClientOk
  <2> QED
    BY <1>2, <1>5, <1>7, <2>1, <2>2, <2>4, OnlyClientStep
<1>8. CASE Told(c, "storage") /\ UNCHANGED jobVars
  <2>1. PICK e \in ClientType :
            /\ client' = [client EXCEPT ![c] = e] /\ client'[c] = e
            /\ e.pc = "told" /\ e.reply = "storage"
            /\ e.shown = m.shown /\ e.handle = m.handle /\ e.try = m.try
    BY <1>8, ToldIs
  <2>2. round' = round /\ tries' = tries
    BY <1>2, <1>8 DEF jobVars
  <2>3. ToldOk(c)'
    BY <2>1 DEF ToldOk
  <2>4. ClientOk(c)'
    BY <1>1, <1>3, <1>4, <2>1, <2>2, <2>3 DEF ClientOk
  <2> QED
    BY <1>2, <1>5, <1>8, <2>1, <2>4, OnlyClientStep
<1> QED
  BY <1>6, <1>7, <1>8 DEF Finish

(* A conflict is told apart: "stale" only once the handle's occurrence, and so the shown one, is over. *)
LEMMA LookupStep == ASSUME InputInv, NEW c \in Clients, LookupConflict(c) PROVE InputInv'
<1> PICK m, reply : m = client[c] /\ reply = ConflictReply(c)
  OBVIOUS
<1>1. m \in ClientType /\ m.shown \in Nat /\ m.handle \in Nat /\ m.try \in Nat /\ round \in Nat /\ tries \in Nat
  BY Fields DEF InputInv
<1>2. UNCHANGED <<forms, jobVars, buffer, stream, tries, crashes, cancels>> /\ m.pc = "conflict" /\ Told(c, reply)
  BY DEF LookupConflict, At
<1>3. /\ m.shown > 0 /\ m.try > 0 /\ m.handle > 0 /\ m.shown <= m.handle /\ m.handle <= round /\ m.try <= tries
      /\ \A r \in Round : ~RecordedFor(c, r)
  BY <1>2 DEF InputInv, ClientInv, ClientOk
<1>4. reply \in {"not_pending", "stale", "storage"} /\ (reply = "stale" => round # m.handle)
  BY DEF ConflictReply
<1>5. PICK e \in ClientType :
            /\ client' = [client EXCEPT ![c] = e] /\ client'[c] = e
            /\ e.pc = "told" /\ e.reply = reply
            /\ e.shown = m.shown /\ e.handle = m.handle /\ e.try = m.try
  <2>1. reply \in {"ok", "storage", "invalid", "stale", "not_pending"}
    BY <1>4
  <2>2. \E e \in ClientType :
            /\ client' = [client EXCEPT ![c] = e] /\ client'[c] = e
            /\ e.pc = "told" /\ e.reply = reply /\ e.fit = TRUE
            /\ e.shown = client[c].shown /\ e.handle = client[c].handle /\ e.try = client[c].try
    BY <1>2, <2>1, ToldIs
  <2> QED
    BY <2>2
<1>6. round' = round /\ tries' = tries /\ Round' = Round /\ \A r \in Round : ~RecordedFor(c, r)'
  BY <1>2, <1>3, <1>5 DEF jobVars, Round, RecordedFor
<1>7. reply = "stale" => Over(m.shown)'
  BY <1>1, <1>3, <1>4, <1>6 DEF Over
<1>8. ToldOk(c)'
  BY <1>4, <1>5, <1>6, <1>7 DEF ToldOk
<1>9. ClientOk(c)'
  BY <1>1, <1>3, <1>5, <1>6, <1>8 DEF ClientOk
<1>10. tries' \in 0..MaxTries /\ tries <= tries' /\ StreamInv'
  BY <1>1, <1>2, SameStream DEF InputInv
<1> QED
  BY <1>2, <1>5, <1>9, <1>10, OnlyClientStep

(* A recorded submission is announced and acknowledged. *)
LEMMA BroadcastStep == ASSUME InputInv, NEW c \in Clients, BroadcastCompleted(c) PROVE InputInv'
<1> PICK m : m = client[c]
  OBVIOUS
<1>1. m \in ClientType /\ m.shown \in Nat /\ m.handle \in Nat /\ m.try \in Nat /\ round \in Nat /\ tries \in Nat
  BY Fields DEF InputInv
<1>2. /\ UNCHANGED <<forms, jobVars, tries, crashes, cancels>> /\ m.pc = "finished" /\ Told(c, "ok")
      /\ Emit("input_completed")
  BY DEF BroadcastCompleted, At
<1>3. /\ m.shown > 0 /\ m.try > 0 /\ m.handle > 0 /\ m.shown <= m.handle /\ m.handle <= round /\ m.try <= tries
      /\ RecordedFor(c, m.handle)
  BY <1>2 DEF InputInv, ClientInv, ClientOk
<1>4. PICK e \in ClientType :
            /\ client' = [client EXCEPT ![c] = e] /\ client'[c] = e
            /\ e.pc = "told" /\ e.reply = "ok"
            /\ e.shown = m.shown /\ e.handle = m.handle /\ e.try = m.try
  BY <1>2, ToldIs
<1>5. round' = round /\ tries' = tries /\ RecordedFor(c, m.handle)'
  BY <1>2, <1>3, <1>4 DEF jobVars, RecordedFor
<1>6. ToldOk(c)'
  BY <1>3, <1>4, <1>5 DEF ToldOk
<1>7. ClientOk(c)'
  BY <1>1, <1>3, <1>4, <1>5, <1>6 DEF ClientOk
<1>8. tries' \in 0..MaxTries /\ tries <= tries' /\ StreamInv'
  BY <1>1, <1>2, EmitStream DEF InputInv
<1> QED
  BY <1>2, <1>4, <1>7, <1>8, OnlyClientStep

(* The client goes back to the list, or to the form it was shown. *)
LEMMA TryAgainStep == ASSUME InputInv, NEW c \in Clients, TryAgain(c) PROVE InputInv'
<1> PICK m : m = client[c]
  OBVIOUS
<1>1. m \in ClientType /\ m.shown \in Nat /\ round \in Nat /\ tries \in Nat /\ client \in [Clients -> ClientType]
  BY Fields DEF InputInv, ClientInv
<1>2. UNCHANGED <<forms, jobVars, buffer, stream, tries, crashes, cancels>> /\ m.pc = "told"
  BY DEF TryAgain, At
<1>3. m.shown > 0 /\ m.shown <= round
  BY <1>2 DEF InputInv, ClientInv, ClientOk
<1>4. PICK pc \in {"idle", "shown"} :
          client' = [client EXCEPT ![c] = [Idle EXCEPT !.pc = pc, !.shown = IF pc = "shown" THEN m.shown ELSE 0]]
  BY DEF TryAgain
<1> PICK e : e = [Idle EXCEPT !.pc = pc, !.shown = IF pc = "shown" THEN m.shown ELSE 0]
  OBVIOUS
<1>5. /\ e \in ClientType /\ e.pc = pc /\ e.handle = 0 /\ e.try = 0
      /\ e.shown = IF pc = "shown" THEN m.shown ELSE 0
  BY <1>1 DEF Idle, ClientType
<1>6. client' = [client EXCEPT ![c] = e] /\ client'[c] = e /\ round' = round /\ tries' = tries
  BY <1>1, <1>2, <1>4 DEF jobVars
<1>7. ClientOk(c)'
  BY <1>1, <1>3, <1>5, <1>6 DEF ClientOk
<1>8. tries' \in 0..MaxTries /\ tries <= tries' /\ StreamInv'
  BY <1>1, <1>2, SameStream DEF InputInv
<1> QED
  BY <1>2, <1>5, <1>6, <1>7, <1>8, OnlyClientStep

-----------------------------------------------------------------------------
(* The event stream. *)

(* A step of one connection, to state e. *)
LEMMA ConnectionStep ==
  ASSUME InputInv, NEW s \in Streams, NEW e \in StreamType,
         stream' = [stream EXCEPT ![s] = e], e.announced \subseteq Round, Len(e.queue) <= ChannelSize,
         UNCHANGED <<forms, jobVars, client, buffer, tries, crashes, cancels>>
  PROVE  InputInv'
<1>1. StreamInv /\ tries \in Nat
  BY Fields DEF InputInv
<1>2. StreamInv'
  <2>1. stream' \in [Streams -> StreamType] /\ stream'[s] = e /\ \A o \in Streams \ {s} : stream'[o] = stream[o]
    BY <1>1 DEF StreamInv
  <2> QED
    BY <2>1, <1>1 DEF StreamInv, Round
<1>3. JobInv' /\ AnswerInv'
  BY <1>1, SameJob
<1>4. ClientInv'
  BY <1>1, StandsStill, JobStep
<1> QED
  BY <1>2, <1>3, <1>4 DEF InputInv

(* Announcing the pending input touches no queue. *)
LEMMA AnnounceFacts ==
  ASSUME InputInv, NEW st \in StreamType, st.announced \subseteq Round
  PROVE  /\ Announce(st) \in StreamType /\ Announce(st).announced \subseteq Round
         /\ Announce(st).queue = st.queue
<1>1. round \in Round /\ round \in Nat
  BY Fields DEF InputInv, JobInv
<1>2. CASE Pending /\ ~st.sent
  <2> PICK ann : ann = st.announced \cup {round}
    OBVIOUS
  <2>1. ann \subseteq Round /\ ann \in SUBSET Nat
    BY <1>1 DEF StreamType
  <2>2. Announce(st) = [st EXCEPT !.sent = TRUE, !.announced = ann]
    BY <1>2 DEF Announce
  <2> QED
    BY <2>1, <2>2 DEF StreamType
<1>3. CASE ~(Pending /\ ~st.sent)
  BY <1>3 DEF Announce
<1> QED
  BY <1>2, <1>3

(* A new connection: as much of the buffer as the channel takes, then the snapshot. *)
LEMMA ConnectStep == ASSUME InputInv, NEW s \in Streams, Connect(s) PROVE InputInv'
<1> PICK held : held = IF Len(buffer) < ChannelSize THEN Len(buffer) ELSE ChannelSize
  OBVIOUS
<1> PICK q : q = SubSeq(buffer, 1, held)
  OBVIOUS
<1>1. /\ buffer \in Seq({"input_completed", "input_cancelled"}) /\ Len(buffer) \in Nat
      /\ held \in Nat /\ held <= ChannelSize /\ held <= Len(buffer) /\ ChannelSize \in Nat
  BY InputAssumption DEF InputInv, StreamInv
<1>2. q \in Seq({"input_completed", "input_cancelled"}) /\ Len(q) = held
  BY <1>1
<1> PICK st : st = [Closed EXCEPT !.open = TRUE, !.queue = q]
  OBVIOUS
<1>3. st \in StreamType /\ st.announced \subseteq Round /\ st.queue = q
  BY <1>2 DEF Closed, StreamType
<1>4. stream' = [stream EXCEPT ![s] = Announce(st)] /\ UNCHANGED <<forms, jobVars, client, buffer, tries, crashes, cancels>>
  BY DEF Connect
<1>5. Announce(st) \in StreamType /\ Announce(st).announced \subseteq Round /\ Announce(st).queue = q
  BY <1>3, AnnounceFacts
<1>6. Len(Announce(st).queue) <= ChannelSize
  BY <1>1, <1>2, <1>5
<1> QED
  BY <1>4, <1>5, <1>6, ConnectionStep

(* A connection is polled, takes an event from its channel, or ends. *)
LEMMA StreamStep == ASSUME InputInv, NEW s \in Streams, PollPending(s) \/ SendEvent(s) \/ Disconnect(s) PROVE InputInv'
<1> PICK st : st = stream[s]
  OBVIOUS
<1>1. /\ st \in StreamType /\ st.announced \subseteq Round /\ Len(st.queue) <= ChannelSize
      /\ stream \in [Streams -> StreamType] /\ ChannelSize \in Nat
  BY InputAssumption DEF InputInv, StreamInv
<1>2. UNCHANGED <<forms, jobVars, client, buffer, tries, crashes, cancels>>
  BY DEF PollPending, SendEvent, Disconnect
<1>3. CASE PollPending(s)
  <2>1. stream' = [stream EXCEPT ![s] = Announce(st)]
    BY <1>1, <1>3 DEF PollPending
  <2> QED
    BY <1>1, <1>2, <2>1, AnnounceFacts, ConnectionStep
<1>4. CASE SendEvent(s)
  <2> PICK q, e : q = st.queue /\ e = [st EXCEPT !.queue = Tail(q)]
    OBVIOUS
  <2>1. q \in Seq({"input_completed", "input_cancelled"}) /\ q # <<>> /\ Len(q) <= ChannelSize
    BY <1>1, <1>4 DEF SendEvent, StreamType
  <2>2. Tail(q) \in Seq({"input_completed", "input_cancelled"}) /\ Len(Tail(q)) = Len(q) - 1 /\ Len(q) \in Nat
    BY <2>1
  <2>3. e \in StreamType /\ e.announced = st.announced /\ e.queue = Tail(q)
    BY <1>1, <2>2 DEF StreamType
  <2>4. stream' = [stream EXCEPT ![s] = e]
    BY <1>1, <1>4 DEF SendEvent
  <2>5. Len(e.queue) <= ChannelSize
    BY <1>1, <2>1, <2>2, <2>3
  <2> QED
    BY <1>1, <1>2, <2>3, <2>4, <2>5, ConnectionStep
<1>5. CASE Disconnect(s)
  <2>1. Closed \in StreamType /\ Closed.announced \subseteq Round /\ Len(Closed.queue) = 0
    BY DEF Closed, StreamType
  <2>2. stream' = [stream EXCEPT ![s] = Closed] /\ Len(Closed.queue) <= ChannelSize
    BY <1>1, <1>5, <2>1 DEF Disconnect
  <2> QED
    BY <1>2, <2>1, <2>2, ConnectionStep
<1> QED
  BY <1>3, <1>4, <1>5

-----------------------------------------------------------------------------
(* The theorems. *)

(* The job starts with the first form of its script, nobody looking and nothing answered. *)
LEMMA InputInit == Init => InputInv
<1> SUFFICES ASSUME Init PROVE InputInv
  OBVIOUS
<1>1. forms \in Seq(FormType) /\ forms # <<>> /\ forms \in Scripts
  BY InputAssumption DEF Init, FormType
<1>2. Len(forms) \in Nat /\ Len(forms) > 0 /\ Round = 1..Len(forms)
  BY <1>1 DEF Round
<1>3. JobInv
  <2>1. round \in Round
    BY <1>2 DEF Init
  <2> QED
    BY <1>1, <2>1 DEF Init, JobInv
<1>4. NoAnswer \in AnswerType /\ NoAnswer.try = 0 /\ NoAnswer.by = "none" /\ NoAnswer.fit
  BY DEF NoAnswer, AnswerType
<1>5. answer \in [Round -> AnswerType] /\ \A r \in Round : answer[r] = NoAnswer
  BY <1>4 DEF Init, Round
<1>6. AnswerInv
  BY <1>3, <1>4, <1>5 DEF Init, AnswerInv, AnswerOk, JobInv
<1>7. /\ Idle \in ClientType /\ Idle.pc = "idle" /\ Idle.shown = 0 /\ Idle.handle = 0 /\ Idle.try = 0
  BY DEF Idle, ClientType
<1>8. client \in [Clients -> ClientType] /\ \A c \in Clients : client[c] = Idle
  BY <1>7 DEF Init
<1>9. ClientInv
  BY <1>7, <1>8 DEF Init, ClientInv, ClientOk
<1>10. Closed \in StreamType /\ Closed.announced = {} /\ Len(Closed.queue) = 0
  BY DEF Closed, StreamType
<1>11. StreamInv
  <2>1. stream \in [Streams -> StreamType] /\ \A s \in Streams : stream[s] = Closed
    BY <1>10 DEF Init
  <2>2. buffer \in Seq({"input_completed", "input_cancelled"})
    BY DEF Init
  <2> QED
    BY <1>10, <2>1, <2>2, InputAssumption DEF StreamInv
<1>12. tries \in 0..MaxTries /\ crashes \in Nat /\ cancels \in Nat
  BY InputAssumption DEF Init
<1> QED
  BY <1>3, <1>6, <1>9, <1>11, <1>12 DEF InputInv

(* Every step of the worker, the clients and the connections keeps the invariant. *)
LEMMA InputStep == InputInv /\ [Next]_vars => InputInv'
<1> SUFFICES ASSUME InputInv, [Next]_vars PROVE InputInv'
  OBVIOUS
<1>1. CASE WorkerStep
  BY <1>1, BuildFormStep, AutoFillStep, AlternateStep, CompleteUnansweredStep DEF WorkerStep
<1>2. CASE Elapse \/ AlternateCrash
  BY <1>2, AlternateStep
<1>3. CASE Timeout \/ Cancel
  BY <1>3, TimeoutStep, CancelStep
<1>4. ASSUME NEW c \in Clients,
             \/ ListPendingInputs(c) \/ GetForm(c) \/ Submit(c) \/ Finish(c)
             \/ LookupConflict(c) \/ BroadcastCompleted(c) \/ TryAgain(c)
      PROVE  InputInv'
  BY <1>4, ListStep, SubmitStep, FinishStep, LookupStep, BroadcastStep, TryAgainStep
<1>5. ASSUME NEW s \in Streams, Connect(s) \/ PollPending(s) \/ SendEvent(s) \/ Disconnect(s)
      PROVE  InputInv'
  BY <1>5, ConnectStep, StreamStep
<1>6. CASE UNCHANGED vars
  <2>1. UNCHANGED <<forms, jobVars, client, buffer, stream, tries, crashes, cancels>> /\ tries \in Nat
    BY <1>6, Fields DEF vars, jobVars
  <2>2. JobInv' /\ AnswerInv' /\ ClientInv' /\ StreamInv'
    BY <2>1, SameJob, StandsStill, JobStep, SameStream
  <2> QED
    BY <2>1, <2>2 DEF InputInv
<1> QED
  BY <1>1, <1>2, <1>3, <1>4, <1>5, <1>6 DEF Next

(* The inductive invariant holds in every reachable state. *)
THEOREM InputInvariant == Spec => []InputInv
  BY InputInit, InputStep, PTL DEF Spec

(* The input ops keep their state's shape: the alternate is armed only for  *)
(* a waiting task, an occurrence the job has not come to has no answer, and *)
(* a subscriber's channel never holds more than its size.                   *)
THEOREM InputTypeCorrect == Spec => []TypeOK
<1>1. InputInv => TypeOK
  <2> SUFFICES ASSUME InputInv PROVE TypeOK
    OBVIOUS
  <2>1. Len(forms) \in Nat /\ Round = 1..Len(forms) /\ round \in 1..Len(forms)
    BY FormFacts DEF InputInv
  <2>2. ASSUME NEW c \in Clients
        PROVE  /\ client[c].pc \in {"idle", "listed", "shown", "captured", "conflict", "finished", "told"}
               /\ client[c].shown \in Round \cup {0} /\ client[c].handle \in Round \cup {0}
               /\ client[c].try \in 0..MaxTries
    <3>1. client[c].shown <= round /\ client[c].handle <= round /\ client[c].try <= tries /\ tries \in 0..MaxTries
      BY DEF InputInv, ClientInv, ClientOk
    <3>2. client[c] \in ClientType /\ client[c].shown \in Nat /\ client[c].handle \in Nat /\ client[c].try \in Nat
      BY Fields
    <3>3. client[c].pc \in {"idle", "listed", "shown", "captured", "conflict", "finished", "told"}
      BY <3>2 DEF ClientType
    <3> QED
      BY <2>1, <3>1, <3>2, <3>3, InputAssumption
  <2> QED
    BY <2>2 DEF InputInv, JobInv, AnswerInv, StreamInv, TypeOK
<1> QED
  BY <1>1, InputInvariant, PTL

(* A review or a structured input is only ever answered by what was written *)
(* for that occurrence (acceptReview, acceptStructured), however many       *)
(* submissions for earlier ones are still under way.                        *)
THEOREM EveryAnswerWasMeantForIt == Spec => []AnswerWasMeantForIt
<1>1. InputInv => AnswerWasMeantForIt
  BY DEF InputInv, AnswerInv, AnswerOk, AnswerWasMeantForIt
<1> QED
  BY <1>1, InputInvariant, PTL

(* An answer that fails its op was given, unchecked, to an ordinary form,   *)
(* and not by the alternate (prepareUnanswered, NormalizeOutputMap).        *)
THEOREM EveryCheckedAnswerIsUsable == Spec => []CheckedAnswerIsUsable
<1>1. InputInv => CheckedAnswerIsUsable
  BY DEF InputInv, AnswerInv, AnswerOk, CheckedAnswerIsUsable
<1> QED
  BY <1>1, InputInvariant, PTL

(* What finishInput tells a submission is true, and stays true, whatever    *)
(* other clients, the alternate, timeouts and cancellations do meanwhile.   *)
THEOREM EveryReplyIsTrue == Spec => []RepliesAreTrue
<1>1. InputInv => RepliesAreTrue
  <2> SUFFICES ASSUME InputInv, NEW c \in Clients, client[c].pc = "told"
               PROVE  LET m == client[c]
                          Recorded(r) == answer[r].by = c /\ answer[r].try = m.try IN
                      /\ m.reply = "ok" => Recorded(m.handle)
                      /\ m.reply \in {"stale", "invalid", "not_pending"} => \A r \in Round : ~Recorded(r)
                      /\ m.reply = "stale" => Over(m.shown)
    BY DEF RepliesAreTrue, At
  <2>1. ToldOk(c)
    BY DEF InputInv, ClientInv, ClientOk
  <2> QED
    BY <2>1 DEF ToldOk, RecordedFor
<1> QED
  BY <1>1, InputInvariant, PTL
=============================================================================
