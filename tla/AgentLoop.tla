------------------------------ MODULE AgentLoop ------------------------------
(***************************************************************************)
(* One run of the agent (agent.py): requests to the provider, rounds of    *)
(* tool calls, their approval (approvals.py, terminal_authorizer.py), the  *)
(* checkpoints the run asks for and the events it emits.                   *)
(*                                                                         *)
(* The provider, the user and the tools may answer anything; a tool may    *)
(* fail, a checkpoint may fail, the user may interrupt at any time.        *)
(***************************************************************************)
EXTENDS ContextBudget, FiniteSets

CONSTANTS
  Read,            \* tools of category read
  Guarded,         \* tools of category write or execute
  Call,            \* calls a model may make: [id, tool, prepared]
  MaxCalls,        \* bound: calls in one response
  MaxResponses,    \* MAX_MODEL_RESPONSES
  MaxAttempts,     \* MAX_APPROVAL_ATTEMPTS
  MaxChars,        \* DEFAULT_MAX_CONTEXT_CHARS
  ResultSize,      \* sizes of tool results
  Initial          \* histories a run may start with: the resume window, or <<>>

ASSUME LimitAssumption ==
  /\ MaxCalls \in Nat \ {0} /\ MaxResponses \in Nat \ {0} /\ MaxAttempts \in Nat \ {0}
  /\ MaxChars \in Nat \ {0} /\ ResultSize \subseteq Nat /\ ResultSize # {}

ASSUME ToolAssumption ==
  /\ Read \cap Guarded = {}
  /\ \A call \in Call : call.tool \in Read \cup Guarded /\ call.prepared \in BOOLEAN

\* What load_replay_messages returns: FilesCarryTheHistory, in HistoryBounds.
ASSUME ResumeAssumption ==
  \A initial \in Initial : initial \in Seq(Range(initial)) /\ IsReplaySafe(initial)

VARIABLES
  pc,          \* where the run is
  mode,        \* the approval policy: [name, approved]
  messages,    \* the conversation
  response,    \* response_number
  calls,       \* the validated calls of the response
  answers,     \* decisions of the authorizer for the pending requests, so far
  attempt,     \* prompts of the current request that were not understood
  decisions,   \* what ApprovalSession.authorize returned
  drawn,       \* decisions taken from the iterator
  results,     \* tool messages of the round so far
  disabled,    \* ApprovalSession._disabled_tools
  records,     \* ApprovalSession._records, each with the response it belongs to
  events,      \* EventCollector._events
  durable,     \* the messages of the last checkpoint
  effects      \* what tools were run, for which call of which response

session == <<mode, disabled, records>>
round == <<calls, answers, attempt, decisions, drawn, results>>
vars == <<pc, session, messages, response, round, events, durable, effects>>

Decisions == {"allow", "deny", "disable", "disabled"}
Ended == {"done", "failed", "stopped"}

-----------------------------------------------------------------------------
(* Messages and events                                                     *)

Message(role, asked, id, size) == [role |-> role, calls |-> asked, id |-> id, size |-> size]

SystemPrompt == Message("system", {}, NoId, 1)
Prompt == Message("user", {}, NoId, 1)
Answer == Message("assistant", {}, NoId, 1)
Request(batch) == Message("assistant", {batch[i].id : i \in DOMAIN batch}, NoId, 1)

StartingMessages(initial) ==
  <<SystemPrompt>> \o StripSystemMessages(initial) \o <<Prompt>>

\* response, id and status are there for every event; NoId where it has none.
Event(type, id, status) == [type |-> type, response |-> response, id |-> id, status |-> status]

\* An exception: run_agent emits two events and raises.
Fail ==
  /\ pc' = "failed"
  /\ events' = events \o <<Event("error", NoId, "error"), Event("completed", NoId, "error")>>

\* on_messages_update.  A checkpoint that fails may have reached the disk.
Checkpointed_Behind == durable' = ReplaySafePrefix(Front(messages))

Checkpointed == durable' = messages

CheckpointFailed == durable' \in {durable, messages}

-----------------------------------------------------------------------------
(* Approval                                                                *)

\* _prepare_calls: a call with an unknown tool, bad arguments or a protected
\* target is answered by its error and asks for no approval.
Requests == Only(calls, {call \in Call : call.prepared})

\* Requests for tools the user has not disabled so far.
Open == {call \in Call : call.tool \notin disabled}
Pending == Only(Requests, Open)

\* Tools the user has disabled while answering this batch.
DisabledInBatch == {Pending[k].tool : k \in {j \in DOMAIN answers : answers[j] = "disable"}}

\* _authorize_read_only and _authorize_pre_approved.
ByPolicy(request) ==
  IF request.tool \in Read \/ (mode.name = "pre-approved" /\ request.tool \in mode.approved)
  THEN "allow" ELSE "deny"

\* The position in Pending of the i-th request: zip(pending_indexes, decisions).
Candidate(i) == answers[Len(Only(SubSeq(Requests, 1, i), Open))]

\* The tools disabled when _apply_policy comes to the i-th request.
DisabledBefore_Forgets(i) == disabled

DisabledBefore(i) ==
  disabled \cup {Requests[k].tool : k \in {j \in 1..i - 1 :
                   Requests[j] \in Open /\ Candidate(j) = "disable"}}

ApplyPolicy(i) ==
  IF Requests[i].tool \in DisabledBefore(i) THEN "disabled" ELSE Candidate(i)

Disposition(decision) ==
  CASE decision = "allow" -> "allowed"
    [] decision = "deny" -> "denied"
    [] OTHER -> "disabled"

-----------------------------------------------------------------------------
(* Start of the run and its requests                                       *)

Init ==
  /\ pc = "start"
  /\ mode \in [name : {"confirm", "read-only"}, approved : {{}}]
                \cup [name : {"pre-approved"}, approved : SUBSET Guarded \ {{}}]
  /\ \E initial \in Initial : messages = StartingMessages(initial) /\ durable = initial
  /\ response = 0
  /\ calls = <<>> /\ answers = <<>> /\ attempt = 0
  /\ decisions = <<>> /\ drawn = 0 /\ results = <<>>
  /\ disabled = {} /\ records = <<>> /\ events = <<>> /\ effects = <<>>

\* run_agent hands the prompt to the checkpoint before its try statement.
Start ==
  /\ pc = "start"
  /\ \/ pc' = "request" /\ Checkpointed
     \/ pc' = "failed" /\ CheckpointFailed
  /\ UNCHANGED <<session, messages, response, round, events, effects>>

\* The history does not fit the budget, or the provider raises.
RequestFails ==
  /\ pc = "request"
  /\ Fail
  /\ UNCHANGED <<session, messages, response, round, durable, effects>>

Receive ==
  /\ pc = "request" /\ response < MaxResponses
  /\ ~ApplyContextBudget(messages, MaxChars).refused
  /\ response' = response + 1
  /\ pc' = "received"
  /\ events' = Append(events, [Event("usage", NoId, "ok") EXCEPT !.response = response + 1])
  /\ UNCHANGED <<session, messages, round, durable, effects>>

\* No choices, no text, calls that do not validate, or calls at the limit.
ResponseFails ==
  /\ pc = "received"
  /\ Fail
  /\ UNCHANGED <<session, messages, response, round, durable, effects>>

\* A text ends the run: it is added to a copy of the list for the last checkpoint.
FinalAnswer ==
  /\ pc = "received"
  /\ pc' = "final"
  /\ events' = Append(events, Event("completed", NoId, "completed"))
  /\ messages' = Append(messages, Answer)
  /\ UNCHANGED <<session, response, round, durable, effects>>

Finish ==
  /\ pc = "final"
  /\ \/ pc' = "done" /\ Checkpointed
     \/ pc' = "failed" /\ CheckpointFailed
  /\ UNCHANGED <<session, messages, response, round, events, effects>>

-----------------------------------------------------------------------------
(* A round of tool calls                                                   *)

\* _tool_round_messages up to the authorisation.
AtLimit == response = MaxResponses

ToolRound ==
  /\ pc = "received"
  /\ ~AtLimit
  /\ \E n \in 1..MaxCalls : \E batch \in [1..n -> Call] :
       /\ \A i, j \in 1..n : i # j => batch[i].id # batch[j].id
       /\ calls' = batch
       /\ events' = events \o [i \in 1..n |-> Event("requested", batch[i].id, "ok")]
  /\ pc' = "authorize"
  /\ UNCHANGED <<session, messages, response, answers, attempt, decisions, drawn, results,
                 durable, effects>>

\* The terminal is asked for one request after the other.
Asked == Pending[Len(answers) + 1]

Decide(decision) == answers' = Append(answers, decision) /\ attempt' = 0

\* An answer that is not understood; after the last attempt it is a refusal.
NotUnderstood_Forever ==
  attempt' = (attempt + 1) % MaxAttempts /\ UNCHANGED answers

NotUnderstood ==
  IF attempt + 1 < MaxAttempts
  THEN attempt' = attempt + 1 /\ UNCHANGED answers
  ELSE Decide("deny")

\* "deny" stands for no, end of input, a timeout and an input that is no terminal.
Ask ==
  /\ pc = "authorize" /\ mode.name = "confirm"
  /\ Len(answers) < Len(Pending)
  /\ \/ Asked.tool \in DisabledInBatch /\ Decide("disabled")
     \/ Asked.tool \in Read \ DisabledInBatch /\ Decide("allow")
     \/ /\ Asked.tool \in Guarded \ DisabledInBatch
        /\ (\E decision \in {"allow", "deny", "disable"} : Decide(decision)) \/ NotUnderstood
  /\ UNCHANGED <<pc, session, messages, response, calls, decisions, drawn, results,
                 events, durable, effects>>

AnswerByPolicy ==
  /\ pc = "authorize" /\ mode.name # "confirm"
  /\ Len(answers) < Len(Pending)
  /\ answers' = [k \in 1..Len(Pending) |-> ByPolicy(Pending[k])]
  /\ UNCHANGED <<pc, session, messages, response, calls, attempt, decisions, drawn, results,
                 events, durable, effects>>

\* ApprovalSession.authorize returns; the records and their events follow.
Authorized ==
  /\ pc = "authorize"
  /\ Len(answers) = Len(Pending)
  /\ decisions' = [i \in 1..Len(Requests) |-> ApplyPolicy(i)]
  /\ disabled' = DisabledBefore(Len(Requests) + 1)
  /\ LET Recorded(i) == [response |-> response, id |-> Requests[i].id, tool |-> Requests[i].tool,
                         disposition |-> Disposition(ApplyPolicy(i))]
         Decided(i) ==
           <<Event("decided", Requests[i].id, Recorded(i).disposition)>>
             \o (IF Recorded(i).disposition = "allowed"
                 THEN <<Event("executing", Requests[i].id, "ok")>> ELSE <<>>)
     IN  /\ records' = records \o [i \in 1..Len(Requests) |-> Recorded(i)]
         /\ events' = events \o FlattenSeq([i \in 1..Len(Requests) |-> Decided(i)])
  /\ pc' = "execute"
  /\ UNCHANGED <<mode, messages, response, calls, answers, attempt, drawn, results,
                 durable, effects>>

Current == calls[Len(results) + 1]

\* _tool_result_messages appends the result of a call and emits its event.
Result_NotDenied(status, size) ==
  /\ results' = Append(results, Message("tool", {}, Current.id, size))
  /\ events' = IF status = "denied" THEN events ELSE Append(events, Event("result", Current.id, status))

Result(status, size) ==
  /\ results' = Append(results, Message("tool", {}, Current.id, size))
  /\ events' = Append(events, Event("result", Current.id, status))

\* The decision of a prepared call is the next of the iterator.
Draw_First == 1

Draw == drawn + 1

ExecuteNext ==
  /\ pc = "execute" /\ Len(results) < Len(calls)
  /\ IF ~Current.prepared
     THEN Result("error", 1) /\ UNCHANGED <<drawn, effects>>
     ELSE /\ drawn' = drawn + 1
          /\ IF decisions[Draw] = "allow"
             THEN /\ effects' = Append(effects, [response |-> response, id |-> Current.id,
                                                 tool |-> Current.tool])
                  /\ \E size \in ResultSize, status \in {"ok", "error"} : Result(status, size)
             ELSE Result("denied", 1) /\ UNCHANGED effects
  /\ UNCHANGED <<pc, session, messages, response, calls, answers, attempt, decisions, durable>>

\* The assistant message and the results join the conversation.
Record_ResultsOfRun == messages' = Append(messages, Request(calls)) \o
  SelectSeq(results, LAMBDA m : \E e \in DOMAIN effects : effects[e].id = m.id)

Record == messages' = Append(messages, Request(calls)) \o results

RoundDone ==
  /\ pc = "execute" /\ Len(results) = Len(calls)
  /\ pc' = "update"
  /\ Record
  /\ calls' = <<>> /\ answers' = <<>> /\ attempt' = 0
  /\ decisions' = <<>> /\ drawn' = 0 /\ results' = <<>>
  /\ UNCHANGED <<session, response, events, durable, effects>>

\* The assistant message cannot be serialized: noticed only after the tools ran.
RoundFails ==
  /\ pc = "execute" /\ Len(results) = Len(calls)
  /\ Fail
  /\ UNCHANGED <<session, messages, response, round, durable, effects>>

\* The checkpoint after a round.
Update ==
  /\ pc = "update"
  /\ \/ pc' = "request" /\ Checkpointed /\ UNCHANGED events
     \/ Fail /\ CheckpointFailed
  /\ UNCHANGED <<session, messages, response, round, effects>>

-----------------------------------------------------------------------------
(* Interruption                                                            *)

\* KeyboardInterrupt, a signal, a crash: no handler of run_agent sees it.  A tool may
\* be interrupted after it had its effect.
Interrupt ==
  /\ pc \notin Ended
  /\ pc' = "stopped"
  /\ \/ UNCHANGED effects
     \/ /\ pc = "execute" /\ Len(results) < Len(calls)
        /\ Current.prepared /\ decisions[Draw] = "allow"
        /\ effects' = Append(effects, [response |-> response, id |-> Current.id,
                                       tool |-> Current.tool])
  /\ UNCHANGED <<session, messages, response, round, events, durable>>

Step ==
  \/ Start \/ RequestFails \/ Receive \/ ResponseFails \/ FinalAnswer \/ Finish
  \/ ToolRound \/ Ask \/ AnswerByPolicy \/ Authorized
  \/ ExecuteNext \/ RoundDone \/ RoundFails \/ Update

Next == Step \/ Interrupt

\* The provider's answers, the user's and the tools' come or time out.
Spec == Init /\ [][Next]_vars /\ WF_vars(Step)
-----------------------------------------------------------------------------
(* summarize_run: counts over the events                                   *)

Count(type) == Len(Only(events, {e \in Range(events) : e.type = type}))
CountOf(type, status) == Len(Only(events, {e \in Range(events) : e.type = type /\ e.status = status}))

SummaryRequested == Count("requested")
SummaryError == CountOf("result", "error")
\* Whatever is not an error: results of denied calls too.
SummaryOk == Count("result") - SummaryError
SummaryApprovals(disposition) == CountOf("decided", disposition)

-----------------------------------------------------------------------------
(* Properties                                                              *)

\* The state of a run keeps its shape: no more calls than one response may hold, no more
\* unanswered prompts than attempts, no decision drawn that was not made, and only tools
\* that ask for approval are ever disabled.
TypeOK ==
  /\ pc \in {"start", "request", "received", "authorize", "execute", "update", "final"} \cup Ended
  /\ response \in 0..MaxResponses
  /\ calls \in Seq(Call) /\ Len(calls) <= MaxCalls
  /\ answers \in Seq(Decisions) /\ attempt \in 0..MaxAttempts - 1
  /\ decisions \in Seq(Decisions) /\ drawn \in 0..Len(decisions)
  /\ Len(results) <= Len(calls)
  /\ disabled \subseteq Guarded

\* The messages of this run: what follows its prompt.
Own(history) ==
  LET prompts == {i \in DOMAIN history : history[i].role = "user"}
  IN  SubSeq(history, (CHOOSE i \in prompts : \A j \in prompts : j <= i) + 1, Len(history))

Asking(history) == Only(Own(history), {m \in Range(history) : Asks(m) # {}})

\* Tools run for exactly the calls that were recorded as allowed, in the order of their
\* records: none else, none twice, none of the last response, which is one too many, and in
\* a run that ends by itself all of them.
RunsExactlyTheAllowed ==
  LET allowed == Only(records, {r \in Range(records) : r.disposition = "allowed"})
      Same(r, e) == r.response = e.response /\ r.id = e.id /\ r.tool = e.tool
  IN  /\ Len(effects) <= Len(allowed)
      /\ \A k \in DOMAIN effects : Same(allowed[k], effects[k]) /\ effects[k].response < MaxResponses
      /\ pc \in {"update", "request", "final", "done"} => Len(effects) = Len(allowed)

\* Once a tool was disabled, every later request for it is refused as disabled, in the
\* same batch or in a later round.
DisabledStaysDisabled ==
  \A i, j \in DOMAIN records :
    i < j /\ records[i].tool = records[j].tool /\ records[i].disposition = "disabled"
      => records[j].disposition = "disabled"

\* Whatever a run hands to the store is a history that commit_checkpoint accepts and a
\* provider can be sent: every call of it is answered once, the refused ones too.
CheckpointsAreReplaySafe == IsReplaySafe(durable) /\ (pc = "update" => IsReplaySafe(messages))

\* When the provider is asked again, the checkpoint tells of every effect so far; a
\* run that fails or is stopped has forgotten those of its last round at most.
EffectsAreRemembered ==
  \A k \in DOMAIN effects :
    LET e == effects[k] IN
    e.response < response \/ pc \in {"request", "done"} =>
      /\ e.response <= Len(Asking(durable))
      /\ e.id \in Asking(durable)[e.response].calls

\* The summary of a completed run agrees with the history and the effects: every requested
\* call has an outcome and a message that answers it, what was allowed was run, and what is
\* counted as ok are all the calls that were refused and runs of tools, no other.
SummaryAgrees ==
  pc = "done" =>
    LET refused == SummaryApprovals("denied") + SummaryApprovals("disabled") IN
    /\ SummaryRequested = SummaryOk + SummaryError
    /\ SummaryRequested = Len(Only(Own(durable), {m \in Range(durable) : m.role = "tool"}))
    /\ SummaryApprovals("allowed") = Len(effects)
    /\ SummaryOk \in refused..refused + Len(effects)

\* What the specification of denials says: every observer reports a denied call as denied.  The
\* summary does not: it counts it as ok.
DeniedIsNotOk == pc = "done" => SummaryOk <= SummaryApprovals("allowed")

\* Every run ends, whatever the provider asks for and the user types.
RunEnds == <>(pc \in Ended)
=============================================================================
