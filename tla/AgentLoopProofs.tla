--------------------------- MODULE AgentLoopProofs ---------------------------
(***************************************************************************)
(* What tools run in an agent's run, what the user has disabled, what the  *)
(* checkpoints tell of it and what the summary counts, for any tools,      *)
(* calls, limits and histories.                                            *)
(***************************************************************************)
EXTENDS AgentLoop, ContextBudgetProofs

-----------------------------------------------------------------------------
(* The invariant                                                           *)

Prepared == {call \in Call : call.prepared}

Tools == Read \cup Guarded
Ids == {call.id : call \in Call}
Outcome == [response : Nat, id : Ids, tool : Tools,
            disposition : {"allowed", "denied", "disabled"}]
Effect == [response : Nat, id : Ids, tool : Tools]
ToolMessage == [role : {"tool"}, calls : {{}}, id : Ids, size : ResultSize \cup {1}]

\* The shape of the state.
LoopType ==
  /\ pc \in {"start", "request", "received", "authorize", "execute", "update", "final"} \cup Ended
  /\ response \in 0..MaxResponses
  /\ calls \in Seq(Call) /\ Len(calls) <= MaxCalls
  /\ answers \in Seq(Decisions) /\ attempt \in 0..MaxAttempts - 1
  /\ decisions \in Seq(Decisions) /\ drawn \in Nat
  /\ results \in Seq(ToolMessage) /\ Len(results) <= Len(calls)
  /\ disabled \subseteq Guarded
  /\ records \in Seq(Outcome) /\ effects \in Seq(Effect)

\* A round holds something only while it is under way or when it ended the run, and a run
\* is in a round only for a response before the last.
RoundInv ==
  /\ pc = "authorize" => decisions = <<>> /\ results = <<>> /\ drawn = 0
  /\ pc \notin {"authorize", "execute"} \cup Ended =>
       calls = <<>> /\ answers = <<>> /\ decisions = <<>> /\ results = <<>> /\ drawn = 0
  /\ pc \in {"authorize", "execute"} => response < MaxResponses

\* As many decisions are drawn as prepared calls have a result.
DrawnInv ==
  /\ drawn = Len(Upto(calls, Prepared, Len(results)))
  /\ drawn <= Len(decisions)
  /\ pc = "execute" => Len(decisions) = Len(Requests)

\* The user disables tools that ask, and a request is answered as disabled only after that.
AnswersInv ==
  pc = "authorize" =>
    /\ Len(answers) <= Len(Pending)
    /\ \A k \in 1..Len(answers) :
         /\ answers[k] = "disable" => Pending[k].tool \in Guarded
         /\ answers[k] = "disabled" =>
              \E j \in 1..k - 1 : answers[j] = "disable" /\ Pending[j].tool = Pending[k].tool

DisabledInv ==
  \A i \in DOMAIN records : records[i].disposition = "disabled" => records[i].tool \in disabled

\* While a round is executed its records are the last ones, in the order of the requests.
Base == Len(records) - Len(decisions)

RecordsInv ==
  pc = "execute" =>
    /\ Base \in Nat
    /\ \A i \in 1..Len(decisions) :
         records[Base + i] = [response |-> response, id |-> Requests[i].id,
                              tool |-> Requests[i].tool, disposition |-> Disposition(decisions[i])]

\* The tools run are those of the allowed ones among the first n records; all of the records,
\* unless the round is being executed or the run was stopped in it.
Allowed == {r \in Outcome : r.disposition = "allowed"}

Same(r, e) == r.response = e.response /\ r.id = e.id /\ r.tool = e.tool

RunUpTo(n) ==
  /\ Len(effects) = Len(Upto(records, Allowed, n))
  /\ \A k \in 1..Len(effects) : Same(Upto(records, Allowed, n)[k], effects[k])

EffectsInv ==
  /\ \A k \in 1..Len(effects) : effects[k].response < MaxResponses
  /\ \E n \in 0..Len(records) :
       /\ RunUpTo(n)
       /\ pc \notin {"execute", "stopped"} => n = Len(records)
       /\ pc = "execute" => n = Base + drawn

LoopInv ==
  /\ LoopType /\ RoundInv /\ DrawnInv /\ AnswersInv
  /\ DisabledInv /\ DisabledStaysDisabled /\ RecordsInv /\ EffectsInv

-----------------------------------------------------------------------------
(* Requests and their answers                                              *)

LEMMA RequestsType ==
  ASSUME calls \in Seq(Call)
  PROVE  /\ Requests \in Seq(Prepared) /\ Pending \in Seq(Prepared)
         /\ Len(Requests) \in Nat /\ Len(Pending) \in Nat
         /\ \A call \in Prepared : call \in Call /\ call.tool \in Tools /\ call.id \in Ids
<1>1. Requests \in Seq(Prepared)
  <2>1. Only(calls, Prepared) \in Seq(Call \cap Prepared)
    BY OnlyType
  <2>2. Call \cap Prepared = Prepared
    BY DEF Prepared
  <2> QED BY <2>1, <2>2 DEF Requests, Prepared
<1>2. Pending \in Seq(Prepared)
  <2>1. Only(Requests, Open) \in Seq(Prepared \cap Open)
    BY <1>1, OnlyType
  <2>2. Prepared \cap Open \subseteq Prepared
    OBVIOUS
  <2> DEFINE P == Prepared \cap Open
  <2>3. P \subseteq Prepared
    OBVIOUS
  <2> HIDE DEF P
  <2>4. Seq(P) \subseteq Seq(Prepared)
    BY <2>3
  <2> QED BY <2>1, <2>4 DEF Pending, P
<1>3. \A call \in Prepared : call \in Call /\ call.tool \in Tools /\ call.id \in Ids
  BY ToolAssumption DEF Prepared, Tools, Ids
<1> QED BY <1>1, <1>2, <1>3

\* Once all pending requests are answered, the candidate of an open one is its answer.
LEMMA CandidateIsAnswer ==
  ASSUME calls \in Seq(Call), Len(answers) = Len(Pending),
         NEW i \in 1..Len(Requests), Requests[i] \in Open
  PROVE  /\ Len(Upto(Requests, Open, i)) \in 1..Len(answers)
         /\ Candidate(i) = answers[Len(Upto(Requests, Open, i))]
         /\ Pending[Len(Upto(Requests, Open, i))] = Requests[i]
<1>1. Requests \in Seq(Prepared)
  BY RequestsType
<1>2. /\ Len(Upto(Requests, Open, i)) \in 1..Len(Only(Requests, Open))
      /\ Only(Requests, Open)[Len(Upto(Requests, Open, i))] = Requests[i]
  BY <1>1, SelectedAt
<1>3. Candidate(i) = answers[Len(Upto(Requests, Open, i))]
  BY DEF Candidate, Upto
<1> QED BY <1>2, <1>3 DEF Pending

\* What was decided with "disable" or "disabled" is a tool that is disabled from then on.
LEMMA DisabledLater ==
  ASSUME LoopType, AnswersInv, pc = "authorize", Len(answers) = Len(Pending),
         NEW i \in 1..Len(Requests), ApplyPolicy(i) \in {"disable", "disabled"},
         NEW j \in Nat, i < j
  PROVE  Requests[i].tool \in DisabledBefore(j)
<1>1. calls \in Seq(Call) /\ Requests \in Seq(Prepared) /\ Len(Requests) \in Nat
  BY RequestsType DEF LoopType
<1>2. DisabledBefore(i) \subseteq DisabledBefore(j)
  BY <1>1 DEF DisabledBefore
<1>3. CASE Requests[i].tool \in DisabledBefore(i)
  BY <1>2, <1>3
<1>4. CASE Requests[i].tool \notin DisabledBefore(i)
  <2>1. ApplyPolicy(i) = Candidate(i) /\ Requests[i].tool \notin disabled
    BY <1>4 DEF ApplyPolicy, DisabledBefore
  <2>2. Requests[i] \in Call
    BY <1>1 DEF Prepared
  <2>3. Requests[i] \in Open
    BY <2>1, <2>2 DEF Open
  <2>4. CASE Candidate(i) = "disable"
    BY <1>1, <2>3, <2>4 DEF DisabledBefore
  <2>5. CASE Candidate(i) = "disabled"
    <3>1. PICK p : /\ p = Len(Upto(Requests, Open, i)) /\ p \in 1..Len(answers)
                   /\ answers[p] = "disabled" /\ Pending[p] = Requests[i]
      BY <1>1, <2>3, <2>5, CandidateIsAnswer
    <3>2. PICK q \in 1..p - 1 : answers[q] = "disable" /\ Pending[q].tool = Pending[p].tool
      BY <3>1 DEF AnswersInv
    <3>3. q \in 1..Len(Only(Requests, Open))
      BY <3>1, <3>2, RequestsType, <1>1 DEF Pending
    <3>4. PICK k \in 1..Len(Requests) : Requests[k] \in Open /\ Len(Upto(Requests, Open, k)) = q
      BY <1>1, <3>3, SelectedFrom
    <3>5. Candidate(k) = "disable" /\ Requests[k].tool = Requests[i].tool
      BY <1>1, <3>1, <3>2, <3>4, CandidateIsAnswer
    <3>6. k < i
      <4> SUFFICES ASSUME i <= k PROVE FALSE
        BY <1>1
      <4>1. i \in 0..Len(Requests) /\ k \in 0..Len(Requests)
        BY <1>1
      <4>2. Len(Upto(Requests, Open, i)) <= Len(Upto(Requests, Open, k))
        BY <1>1, <4>1, UptoGrows
      <4> QED BY <3>1, <3>2, <3>4, <4>2
    <3> QED BY <1>1, <1>4, <3>4, <3>5, <3>6 DEF DisabledBefore
  <2> QED BY <2>1, <2>4, <2>5
<1> QED BY <1>3, <1>4

\* Every decision is one of the four, and only tools that ask are disabled by it.
LEMMA PolicyType ==
  ASSUME LoopType, AnswersInv, pc = "authorize", Len(answers) = Len(Pending)
  PROVE  /\ \A i \in 1..Len(Requests) : ApplyPolicy(i) \in Decisions
         /\ DisabledBefore(Len(Requests) + 1) \subseteq Guarded
         /\ disabled \subseteq DisabledBefore(Len(Requests) + 1)
<1>1. calls \in Seq(Call) /\ Requests \in Seq(Prepared) /\ Len(Requests) \in Nat
  BY RequestsType DEF LoopType
<1>2. ASSUME NEW i \in 1..Len(Requests), Requests[i] \in Open
      PROVE  /\ Candidate(i) \in Decisions
             /\ Candidate(i) = "disable" => Requests[i].tool \in Guarded
  <2>1. PICK p : /\ p \in 1..Len(answers) /\ Candidate(i) = answers[p] /\ Pending[p] = Requests[i]
    BY <1>1, <1>2, CandidateIsAnswer
  <2>2. answers[p] \in Decisions
    BY <2>1 DEF LoopType
  <2>3. answers[p] = "disable" => Pending[p].tool \in Guarded
    BY <2>1 DEF AnswersInv
  <2> QED BY <2>1, <2>2, <2>3
<1>3. ASSUME NEW i \in 1..Len(Requests) PROVE ApplyPolicy(i) \in Decisions
  <2>1. CASE Requests[i].tool \in DisabledBefore(i)
    BY <2>1 DEF ApplyPolicy, Decisions
  <2>2. CASE Requests[i].tool \notin DisabledBefore(i)
    <3>1. Requests[i] \in Call /\ Requests[i].tool \notin disabled
      BY <1>1, <2>2 DEF Prepared, DisabledBefore
    <3>2. Requests[i] \in Open
      BY <3>1 DEF Open
    <3> QED BY <1>2, <2>2, <3>2 DEF ApplyPolicy
  <2> QED BY <2>1, <2>2
<1>4. DisabledBefore(Len(Requests) + 1) \subseteq Guarded
  <2> SUFFICES ASSUME NEW k \in 1..(Len(Requests) + 1) - 1, Requests[k] \in Open,
                      Candidate(k) = "disable"
               PROVE  Requests[k].tool \in Guarded
    BY DEF DisabledBefore, LoopType
  <2>1. k \in 1..Len(Requests)
    BY <1>1
  <2> QED BY <1>2, <2>1
<1>5. disabled \subseteq DisabledBefore(Len(Requests) + 1)
  BY DEF DisabledBefore
<1> QED BY <1>3, <1>4, <1>5
-----------------------------------------------------------------------------
(* The invariant holds initially and is kept                               *)

\* The steps that leave the round as it is.
Quietly ==
  /\ Start \/ RequestFails \/ Receive \/ ResponseFails \/ FinalAnswer \/ Finish \/ Update
  /\ pc' \notin {"authorize", "execute"} /\ pc \notin {"authorize", "execute"}

LEMMA InitInv == ASSUME Init PROVE LoopInv
<1> USE DEF Init
<1>1. LoopType
  BY LimitAssumption DEF LoopType, Ended
<1>2. RoundInv
  BY LimitAssumption DEF RoundInv
<1>3. DrawnInv
  <2>1. calls \in Seq(Call) /\ Len(results) = 0 /\ Len(decisions) = 0
    BY <1>1 DEF LoopType
  <2>2. Upto(calls, Prepared, 0) = <<>>
    BY <2>1, UptoNext
  <2> QED BY <2>1, <2>2 DEF DrawnInv
<1>4. AnswersInv /\ DisabledInv /\ DisabledStaysDisabled /\ RecordsInv
  BY DEF AnswersInv, DisabledInv, DisabledStaysDisabled, RecordsInv
<1>5. EffectsInv
  <2>1. records \in Seq(Outcome) /\ Len(records) = 0 /\ Len(effects) = 0
    BY <1>1 DEF LoopType
  <2>2. Upto(records, Allowed, 0) = <<>>
    BY <2>1, UptoNext
  <2> QED BY <2>1, <2>2 DEF EffectsInv, RunUpTo
<1> QED BY <1>1, <1>2, <1>3, <1>4, <1>5 DEF LoopInv

\* The next call of a round, and its decision if it is prepared.
LEMMA CurrentCall ==
  ASSUME LoopType, DrawnInv, pc = "execute", Len(results) < Len(calls)
  PROVE  /\ Current \in Call
         /\ Current.prepared =>
              /\ Draw \in 1..Len(decisions) /\ Requests[Draw] = Current
              /\ Draw = Len(Upto(calls, Prepared, Len(results) + 1))
         /\ ~Current.prepared => drawn = Len(Upto(calls, Prepared, Len(results) + 1))
<1>1. calls \in Seq(Call) /\ Len(results) \in Nat /\ Len(results) + 1 \in 1..Len(calls)
  BY DEF LoopType
<1>2. Current \in Call /\ (Current \in Prepared <=> Current.prepared)
  BY <1>1 DEF Current, Prepared
<1> DEFINE i == Len(results) + 1
<1>3. i \in 1..Len(calls) /\ i - 1 = Len(results) /\ calls[i] = Current
  BY <1>1 DEF Current
<1> HIDE DEF i
<1>4. CASE Current.prepared
  <2>1. /\ Len(Upto(calls, Prepared, i)) = Len(Upto(calls, Prepared, i - 1)) + 1
        /\ Len(Upto(calls, Prepared, i)) \in 1..Len(Only(calls, Prepared))
        /\ Only(calls, Prepared)[Len(Upto(calls, Prepared, i))] = calls[i]
    BY <1>1, <1>2, <1>3, <1>4, SelectedAt
  <2>2. Requests = Only(calls, Prepared)
    BY DEF Requests, Prepared
  <2>3. Draw = Len(Upto(calls, Prepared, i))
    BY <1>3, <2>1 DEF Draw, DrawnInv
  <2> QED BY <1>2, <1>3, <1>4, <2>1, <2>2, <2>3 DEF DrawnInv, i
<1>5. CASE ~Current.prepared
  <2>1. Upto(calls, Prepared, i) = Upto(calls, Prepared, i - 1)
    BY <1>1, <1>2, <1>3, <1>5, UptoStep
  <2> QED BY <1>2, <1>3, <1>5, <2>1 DEF DrawnInv, i
<1> QED BY <1>4, <1>5

LEMMA TypeKept ==
  ASSUME LoopInv, [Next]_vars
  PROVE  LoopType'
<1> USE LimitAssumption
<1>0. LoopType
  BY DEF LoopInv
<1>1. CASE Start \/ RequestFails \/ Receive \/ ResponseFails \/ FinalAnswer \/ Finish
           \/ Update \/ RoundFails
  <2>1. UNCHANGED <<calls, answers, attempt, decisions, drawn, results, disabled, records, effects>>
    BY <1>1 DEF Start, RequestFails, Receive, ResponseFails, FinalAnswer, Finish, Update, RoundFails,
       session, round
  <2>2. pc' \in {"request", "received", "final"} \cup Ended
    BY <1>1 DEF Start, RequestFails, Receive, ResponseFails, FinalAnswer, Finish, Update, RoundFails,
       Fail, Ended
  <2>3. response' = response \/ (response < MaxResponses /\ response' = response + 1)
    BY <1>1 DEF Start, RequestFails, Receive, ResponseFails, FinalAnswer, Finish, Update, RoundFails
  <2>4. response' \in 0..MaxResponses
    BY <1>0, <2>3 DEF LoopType
  <2> QED BY <1>0, <2>1, <2>2, <2>4 DEF LoopType
<1>2. CASE ToolRound
  <2>1. calls' \in Seq(Call) /\ Len(calls') <= MaxCalls
    <3>1. PICK n \in 1..MaxCalls : \E batch \in [1..n -> Call] : calls' = batch
      BY <1>2 DEF ToolRound
    <3>2. calls' \in [1..n -> Call] /\ n \in Nat
      BY <3>1
    <3> QED BY <3>1, <3>2
  <2>2. results = <<>>
    BY <1>2 DEF LoopInv, RoundInv, ToolRound, Ended
  <2>3. Len(results') <= Len(calls')
    BY <1>2, <2>1, <2>2 DEF ToolRound
  <2> QED BY <1>0, <1>2, <2>1, <2>3 DEF LoopType, ToolRound, session, Ended
<1>3. CASE Ask
  <2>1. answers' \in Seq(Decisions) /\ attempt' \in 0..MaxAttempts - 1
    <3>1. CASE \E decision \in Decisions : Decide(decision)
      BY <1>0, <3>1 DEF LoopType, Decide
    <3>2. CASE attempt + 1 < MaxAttempts /\ attempt' = attempt + 1 /\ UNCHANGED answers
      BY <1>0, <3>2 DEF LoopType
    <3>3. (\E decision \in Decisions : Decide(decision))
          \/ (attempt + 1 < MaxAttempts /\ attempt' = attempt + 1 /\ UNCHANGED answers)
      <4>1. Decisions = {"allow", "deny", "disable", "disabled"}
        BY DEF Decisions
      <4> QED BY <1>3, <4>1 DEF Ask, NotUnderstood
    <3> QED BY <3>1, <3>2, <3>3
  <2> QED BY <1>0, <1>3, <2>1 DEF LoopType, Ask, session
<1>4. CASE AnswerByPolicy
  <2>1. Len(Pending) \in Nat
    BY <1>0, RequestsType DEF LoopType
  <2>2. answers' \in [1..Len(Pending) -> Decisions]
    BY <1>4 DEF AnswerByPolicy, ByPolicy, Decisions
  <2>3. answers' \in Seq(Decisions)
    BY <2>1, <2>2
  <2> QED BY <1>0, <1>4, <2>3 DEF LoopType, AnswerByPolicy, session
<1>5. CASE Authorized
  <2>0. AnswersInv /\ pc = "authorize" /\ Len(answers) = Len(Pending)
    BY <1>5 DEF LoopInv, Authorized
  <2>1. /\ \A i \in 1..Len(Requests) : ApplyPolicy(i) \in Decisions
        /\ DisabledBefore(Len(Requests) + 1) \subseteq Guarded
    BY <1>0, <2>0, PolicyType
  <2>2. /\ Requests \in Seq(Prepared) /\ Len(Requests) \in Nat
        /\ \A call \in Prepared : call.tool \in Tools /\ call.id \in Ids
    BY <1>0, RequestsType DEF LoopType
  <2>3. decisions' \in [1..Len(Requests) -> Decisions]
    BY <1>5, <2>1 DEF Authorized
  <2>4. decisions' \in Seq(Decisions)
    BY <2>2, <2>3
  <2>5. records' \in Seq(Outcome)
    <3> DEFINE added == [i \in 1..Len(Requests) |->
                           [response |-> response, id |-> Requests[i].id,
                            tool |-> Requests[i].tool,
                            disposition |-> Disposition(ApplyPolicy(i))]]
    <3>1. records' = records \o added
      BY <1>5 DEF Authorized
    <3>2. \A i \in 1..Len(Requests) : Requests[i].id \in Ids /\ Requests[i].tool \in Tools
      BY <2>2
    <3>3. \A i \in 1..Len(Requests) : Disposition(ApplyPolicy(i)) \in {"allowed", "denied", "disabled"}
      BY DEF Disposition
    <3>4. response \in Nat
      BY <1>0 DEF LoopType
    <3>5. added \in [1..Len(Requests) -> Outcome]
      BY <3>2, <3>3, <3>4 DEF Outcome
    <3> HIDE DEF added
    <3>6. added \in Seq(Outcome)
      BY <2>2, <3>5
    <3>7. records \in Seq(Outcome)
      BY <1>0 DEF LoopType
    <3> QED BY <3>1, <3>6, <3>7
  <2> QED BY <1>0, <1>5, <2>1, <2>4, <2>5 DEF LoopType, Authorized, Ended
<1>6. CASE ExecuteNext
  <2>1. pc = "execute" /\ Len(results) < Len(calls) /\ Current \in Call
    BY <1>0, <1>6, CurrentCall DEF ExecuteNext, LoopInv
  <2>2. PICK size \in ResultSize \cup {1} : results' = Append(results, Message("tool", {}, Current.id, size))
    BY <1>6 DEF ExecuteNext, Result
  <2>3. Message("tool", {}, Current.id, size) \in ToolMessage
    BY <2>1, <2>2 DEF Message, ToolMessage, Ids
  <2>4. results' \in Seq(ToolMessage) /\ Len(results') <= Len(calls)
    BY <1>0, <2>1, <2>2, <2>3 DEF LoopType
  <2>5. effects' \in Seq(Effect)
    <3>1. [response |-> response, id |-> Current.id, tool |-> Current.tool] \in Effect
      BY <1>0, <2>1, ToolAssumption DEF LoopType, Effect, Ids, Tools
    <3>2. effects' = effects \/ effects' = Append(effects, [response |-> response, id |-> Current.id,
                                                            tool |-> Current.tool])
      <4>1. CASE Current.prepared
        BY <1>6, <4>1 DEF ExecuteNext
      <4>2. CASE ~Current.prepared
        BY <1>6, <4>2 DEF ExecuteNext
      <4> QED BY <4>1, <4>2
    <3>3. effects \in Seq(Effect)
      BY <1>0 DEF LoopType
    <3> QED BY <3>1, <3>2, <3>3
  <2>6. drawn' \in Nat
    BY <1>0, <1>6 DEF LoopType, ExecuteNext
  <2> QED BY <1>0, <1>6, <2>4, <2>5, <2>6 DEF LoopType, ExecuteNext, session
<1>7. CASE RoundDone
  BY <1>0, <1>7 DEF LoopType, RoundDone, session
<1>8. CASE Interrupt
  <2>1. effects' \in Seq(Effect)
    <3>1. CASE UNCHANGED effects
      BY <1>0, <3>1 DEF LoopType
    <3>2. CASE pc = "execute" /\ Len(results) < Len(calls)
               /\ effects' = Append(effects, [response |-> response, id |-> Current.id,
                                              tool |-> Current.tool])
      <4>1. Current \in Call
        BY <1>0, <3>2, CurrentCall DEF LoopInv
      <4>2. [response |-> response, id |-> Current.id, tool |-> Current.tool] \in Effect
        BY <1>0, <4>1, ToolAssumption DEF LoopType, Effect, Ids, Tools
      <4> QED BY <1>0, <3>2, <4>2 DEF LoopType
    <3> QED BY <1>8, <3>1, <3>2 DEF Interrupt
  <2> QED BY <1>0, <1>8, <2>1 DEF LoopType, Interrupt, session, round, Ended
<1>9. CASE UNCHANGED vars
  BY <1>0, <1>9 DEF LoopType, vars, session, round
<1> QED BY <1>1, <1>2, <1>3, <1>4, <1>5, <1>6, <1>7, <1>8, <1>9 DEF Next, Step
LEMMA RoundKept ==
  ASSUME LoopInv, [Next]_vars
  PROVE  RoundInv'
<1>0. LoopType /\ RoundInv
  BY DEF LoopInv
<1>1. CASE Start \/ RequestFails \/ ResponseFails \/ FinalAnswer \/ Finish \/ Update
  BY <1>0, <1>1 DEF RoundInv, Start, RequestFails, ResponseFails, FinalAnswer, Finish, Update,
     Fail, session, round, Ended
<1>2. CASE Receive
  BY <1>0, <1>2 DEF RoundInv, Receive, session, round, Ended
<1>3. CASE ToolRound
  <2>1. response < MaxResponses
    BY <1>0, <1>3, LimitAssumption DEF ToolRound, AtLimit, LoopType
  <2> QED BY <1>0, <1>3, <2>1 DEF RoundInv, ToolRound, session, Ended
<1>4. CASE Ask \/ AnswerByPolicy
  BY <1>0, <1>4 DEF RoundInv, Ask, AnswerByPolicy, session, Ended
<1>5. CASE Authorized
  BY <1>0, <1>5 DEF RoundInv, Authorized, Ended
<1>6. CASE ExecuteNext
  BY <1>0, <1>6 DEF RoundInv, ExecuteNext, session, Ended
<1>7. CASE RoundDone
  BY <1>0, <1>7 DEF RoundInv, RoundDone, session, Ended
<1>8. CASE RoundFails \/ Interrupt
  BY <1>0, <1>8 DEF RoundInv, RoundFails, Interrupt, Fail, session, round, Ended
<1>9. CASE UNCHANGED vars
  BY <1>0, <1>9 DEF RoundInv, vars, session, round
<1> QED BY <1>1, <1>2, <1>3, <1>4, <1>5, <1>6, <1>7, <1>8, <1>9 DEF Next, Step

LEMMA DrawnKept ==
  ASSUME LoopInv, [Next]_vars
  PROVE  DrawnInv'
<1>0. LoopType /\ RoundInv /\ DrawnInv
  BY DEF LoopInv
<1>1. ASSUME UNCHANGED <<calls, results, decisions, drawn>>, pc' = "execute" => pc = "execute"
      PROVE  DrawnInv'
  <2>1. Upto(calls, Prepared, Len(results))' = Upto(calls, Prepared, Len(results))
        /\ Requests' = Requests
    BY <1>1 DEF Requests, Upto, Prepared
  <2> QED BY <1>0, <1>1, <2>1 DEF DrawnInv
<1>2. CASE Start \/ RequestFails \/ Receive \/ ResponseFails \/ FinalAnswer \/ Finish
           \/ Update \/ RoundFails
  <2>1. UNCHANGED <<calls, results, decisions, drawn>> /\ (pc' = "execute" => pc = "execute")
    BY <1>2 DEF Start, RequestFails, Receive, ResponseFails, FinalAnswer, Finish, Update, RoundFails,
       Fail, session, round
  <2> QED BY <1>1, <2>1
<1>3. CASE ToolRound
  <2>1. calls' \in Seq(Call)
    BY TypeKept DEF LoopType
  <2>2. results' = <<>> /\ decisions' = <<>> /\ drawn' = 0 /\ pc' = "authorize"
    BY <1>0, <1>3 DEF RoundInv, ToolRound, Ended
  <2>3. Upto(calls', Prepared, 0) = <<>>
    BY <2>1, UptoNext
  <2>4. Len(<<>>) = 0
    OBVIOUS
  <2> QED BY <2>2, <2>3, <2>4 DEF DrawnInv, Prepared
<1>4. CASE Ask \/ AnswerByPolicy
  <2>1. UNCHANGED <<calls, results, decisions, drawn>> /\ pc' = pc
    BY <1>4 DEF Ask, AnswerByPolicy
  <2> QED BY <1>1, <2>1
<1>5. CASE Authorized
  <2>1. UNCHANGED <<calls, results, drawn>> /\ drawn = 0
    BY <1>0, <1>5 DEF Authorized, RoundInv
  <2>2. Upto(calls, Prepared, Len(results))' = Upto(calls, Prepared, Len(results))
        /\ Requests' = Requests
    BY <2>1 DEF Requests, Upto, Prepared
  <2>3. decisions' = [i \in 1..Len(Requests) |-> ApplyPolicy(i)] /\ Len(Requests) \in Nat
    BY <1>0, <1>5, RequestsType DEF Authorized, LoopType
  <2>4. Len(decisions') = Len(Requests)
    BY <2>3
  <2> QED BY <1>0, <2>1, <2>2, <2>3, <2>4 DEF DrawnInv
<1>6. CASE ExecuteNext
  <2>1. /\ pc = "execute" /\ pc' = "execute" /\ Len(results) < Len(calls)
        /\ UNCHANGED <<calls, decisions>>
    BY <1>6 DEF ExecuteNext, session
  <2>2. Requests' = Requests
    BY <2>1 DEF Requests
  <2>3. Len(results') = Len(results) + 1
    <3>1. \E m : results' = Append(results, m)
      BY <1>6 DEF ExecuteNext, Result
    <3> QED BY <1>0, <3>1 DEF LoopType
  <2>4. Upto(calls, Prepared, Len(results))' = Upto(calls, Prepared, Len(results) + 1)
    BY <2>1, <2>3 DEF Upto, Prepared
  <2>5. CASE Current.prepared
    <3>1. /\ Draw \in 1..Len(decisions)
          /\ Draw = Len(Upto(calls, Prepared, Len(results) + 1))
      BY <1>0, <2>1, <2>5, CurrentCall
    <3>2. drawn' = Draw
      BY <1>6, <2>5 DEF ExecuteNext, Draw
    <3> QED BY <1>0, <2>1, <2>2, <2>4, <3>1, <3>2 DEF DrawnInv
  <2>6. CASE ~Current.prepared
    <3>1. drawn = Len(Upto(calls, Prepared, Len(results) + 1))
      BY <1>0, <2>1, <2>6, CurrentCall
    <3>2. drawn' = drawn
      BY <1>6, <2>6 DEF ExecuteNext
    <3> QED BY <1>0, <2>1, <2>2, <2>4, <3>1, <3>2 DEF DrawnInv
  <2> QED BY <2>5, <2>6
<1>7. CASE RoundDone
  <2>1. calls' \in Seq(Call) /\ results' = <<>> /\ decisions' = <<>> /\ drawn' = 0 /\ pc' = "update"
    BY <1>7, TypeKept DEF RoundDone, LoopType
  <2>2. Upto(calls', Prepared, 0) = <<>>
    BY <2>1, UptoNext
  <2>3. Len(<<>>) = 0
    OBVIOUS
  <2> QED BY <2>1, <2>2, <2>3 DEF DrawnInv, Prepared
<1>8. CASE Interrupt
  <2>1. UNCHANGED <<calls, results, decisions, drawn>> /\ pc' # "execute"
    BY <1>8 DEF Interrupt, round
  <2> QED BY <1>1, <2>1
<1>9. CASE UNCHANGED vars
  <2>1. UNCHANGED <<calls, results, decisions, drawn>> /\ pc' = pc
    BY <1>9 DEF vars, round
  <2> QED BY <1>1, <2>1
<1> QED BY <1>2, <1>3, <1>4, <1>5, <1>6, <1>7, <1>8, <1>9 DEF Next, Step

LEMMA AnswersKept ==
  ASSUME LoopInv, [Next]_vars
  PROVE  AnswersInv'
<1>0. LoopType /\ RoundInv /\ AnswersInv
  BY DEF LoopInv
<1>1. CASE pc' # "authorize"
  BY <1>1 DEF AnswersInv
<1>2. CASE ToolRound
  <2>1. calls' \in Seq(Call) /\ answers' = <<>>
    BY <1>0, <1>2, TypeKept DEF RoundInv, ToolRound, LoopType, Ended
  <2>2. Len(Pending') \in Nat
    <3>1. Only(calls', Prepared) \in Seq(Call \cap Prepared)
      BY <2>1, OnlyType
    <3>2. Only(Only(calls', Prepared), Open') \in Seq((Call \cap Prepared) \cap Open')
      BY <3>1, OnlyType
    <3> QED BY <3>2 DEF Pending, Requests, Prepared
  <2> QED BY <2>1, <2>2 DEF AnswersInv
<1>3. CASE Ask
  <2>1. Pending' = Pending /\ pc' = pc /\ pc = "authorize" /\ Len(answers) < Len(Pending)
    BY <1>3 DEF Ask, Pending, Requests, Open, session
  <2>2. answers \in Seq(Decisions) /\ Len(answers) \in Nat /\ Len(Pending) \in Nat
    BY <1>0, RequestsType DEF LoopType
  <2>3. CASE UNCHANGED answers
    BY <1>0, <2>1, <2>3 DEF AnswersInv
  <2>4. ASSUME NEW decision \in Decisions, answers' = Append(answers, decision),
               decision = "disable" => Asked.tool \in Guarded,
               decision = "disabled" => Asked.tool \in DisabledInBatch
        PROVE  AnswersInv'
    <3>1. /\ Len(answers') = Len(answers) + 1 /\ answers'[Len(answers) + 1] = decision
          /\ \A k \in 1..Len(answers) : answers'[k] = answers[k]
      BY <2>2, <2>4
    <3>2. Len(answers') <= Len(Pending')
      BY <2>1, <2>2, <3>1
    <3>3. ASSUME NEW k \in 1..Len(answers')
          PROVE  /\ answers'[k] = "disable" => Pending'[k].tool \in Guarded
                 /\ answers'[k] = "disabled" =>
                      \E j \in 1..k - 1 : answers'[j] = "disable"
                                          /\ Pending'[j].tool = Pending'[k].tool
      <4>1. CASE k \in 1..Len(answers)
        BY <1>0, <2>1, <2>2, <3>1, <4>1 DEF AnswersInv
      <4>2. CASE k = Len(answers) + 1
        <5>1. DisabledInBatch = {Pending[j].tool : j \in {n \in 1..Len(answers) : answers[n] = "disable"}}
          BY <2>2 DEF DisabledInBatch
        <5> QED BY <2>1, <2>2, <2>4, <3>1, <4>2, <5>1 DEF Asked
      <4> QED BY <2>2, <3>1, <4>1, <4>2
    <3> QED BY <3>2, <3>3 DEF AnswersInv
  <2>5. \/ UNCHANGED answers
        \/ \E decision \in Decisions :
             /\ answers' = Append(answers, decision)
             /\ decision = "disable" => Asked.tool \in Guarded
             /\ decision = "disabled" => Asked.tool \in DisabledInBatch
    <3>1. Decisions = {"allow", "deny", "disable", "disabled"}
      BY DEF Decisions
    <3> QED BY <1>3, <3>1 DEF Ask, Decide, NotUnderstood
  <2> QED BY <2>3, <2>4, <2>5
<1>4. CASE AnswerByPolicy
  <2>1. Pending' = Pending
    BY <1>4 DEF AnswerByPolicy, Pending, Requests, Open, session
  <2>2. Len(Pending) \in Nat /\ answers' = [k \in 1..Len(Pending) |-> ByPolicy(Pending[k])]
    BY <1>0, <1>4, RequestsType DEF LoopType, AnswerByPolicy
  <2>3. Len(answers') = Len(Pending)
    BY <2>2
  <2>4. \A k \in 1..Len(answers') : answers'[k] \in {"allow", "deny"}
    BY <2>2, <2>3 DEF ByPolicy
  <2> QED BY <2>1, <2>2, <2>3, <2>4 DEF AnswersInv
<1>5. CASE UNCHANGED vars
  <2>1. Pending' = Pending /\ pc' = pc /\ answers' = answers
    BY <1>5 DEF vars, Pending, Requests, Open, session, round
  <2> QED BY <1>0, <2>1 DEF AnswersInv
<1>6. pc' # "authorize" \/ ToolRound \/ Ask \/ AnswerByPolicy \/ UNCHANGED vars
  BY DEF Next, Step, Start, RequestFails, Receive, ResponseFails, FinalAnswer, Finish, Update,
     RoundFails, Authorized, ExecuteNext, RoundDone, Interrupt, Fail
<1> QED BY <1>1, <1>2, <1>3, <1>4, <1>5, <1>6
\* The records that authorisation adds.
LEMMA RecordsAdded ==
  ASSUME LoopType, Authorized
  PROVE  /\ Len(records) \in Nat /\ Len(Requests) \in Nat
         /\ Len(records') = Len(records) + Len(Requests)
         /\ \A i \in 1..Len(records) : records'[i] = records[i]
         /\ \A i \in 1..Len(Requests) :
              records'[Len(records) + i] =
                [response |-> response, id |-> Requests[i].id, tool |-> Requests[i].tool,
                 disposition |-> Disposition(ApplyPolicy(i))]
<1> DEFINE New(i) == [response |-> response, id |-> Requests[i].id, tool |-> Requests[i].tool,
                      disposition |-> Disposition(ApplyPolicy(i))]
           added == [i \in 1..Len(Requests) |-> New(i)]
<1>1. records' = records \o added
  BY DEF Authorized
<1>2. records \in Seq(Outcome) /\ Len(Requests) \in Nat
  BY RequestsType DEF LoopType
<1> HIDE DEF New
<1> DEFINE X == {New(i) : i \in 1..Len(Requests)}
<1>3. added \in Seq(X) /\ Len(added) = Len(Requests)
      /\ \A i \in 1..Len(Requests) : added[i] = New(i)
  BY <1>2
<1> HIDE DEF X
<1> HIDE DEF added
<1>4. /\ Len(records') = Len(records) + Len(Requests)
      /\ \A i \in 1..Len(records) : records'[i] = records[i]
  <2>1. /\ Len(records \o added) = Len(records) + Len(added)
        /\ \A i \in 1..Len(records) : (records \o added)[i] = records[i]
    BY <1>2, <1>3
  <2> QED BY <1>1, <1>3, <2>1
<1>5. ASSUME NEW i \in 1..Len(Requests)
      PROVE  records'[Len(records) + i] = New(i)
  <2>1. Len(records) \in Nat /\ Len(records) + i \in 1..Len(records) + Len(added)
        /\ Len(records) + i > Len(records) /\ (Len(records) + i) - Len(records) = i
    BY <1>2, <1>3
  <2>2. (records \o added)[Len(records) + i] = added[i]
    BY <1>2, <1>3, <2>1
  <2> QED BY <1>1, <1>3, <2>2
<1> QED BY <1>2, <1>4, <1>5 DEF New

LEMMA DisabledKept ==
  ASSUME LoopInv, [Next]_vars
  PROVE  DisabledInv' /\ DisabledStaysDisabled'
<1>0. LoopType /\ DisabledInv /\ DisabledStaysDisabled /\ AnswersInv /\ records \in Seq(Outcome)
  BY DEF LoopInv, LoopType
<1>1. CASE UNCHANGED <<records, disabled>>
  BY <1>0, <1>1 DEF DisabledInv, DisabledStaysDisabled
<1>2. CASE Authorized
  <2>1. pc = "authorize" /\ Len(answers) = Len(Pending)
        /\ disabled' = DisabledBefore(Len(Requests) + 1)
    BY <1>2 DEF Authorized
  <2>2. /\ Len(records) \in Nat /\ Len(Requests) \in Nat
        /\ Len(records') = Len(records) + Len(Requests)
        /\ \A i \in 1..Len(records) : records'[i] = records[i]
        /\ \A i \in 1..Len(Requests) :
             /\ records'[Len(records) + i].tool = Requests[i].tool
             /\ records'[Len(records) + i].disposition = Disposition(ApplyPolicy(i))
    <3>1. /\ Len(records) \in Nat /\ Len(Requests) \in Nat
          /\ Len(records') = Len(records) + Len(Requests)
          /\ \A i \in 1..Len(records) : records'[i] = records[i]
      BY <1>0, <1>2, RecordsAdded
    <3>2. \A i \in 1..Len(Requests) :
            records'[Len(records) + i] =
              [response |-> response, id |-> Requests[i].id, tool |-> Requests[i].tool,
               disposition |-> Disposition(ApplyPolicy(i))]
      BY <1>0, <1>2, RecordsAdded
    <3>3. ASSUME NEW i \in 1..Len(Requests)
          PROVE  /\ records'[Len(records) + i].tool = Requests[i].tool
                 /\ records'[Len(records) + i].disposition = Disposition(ApplyPolicy(i))
      <4>1. PICK tool, disposition : tool = Requests[i].tool /\ disposition = Disposition(ApplyPolicy(i))
        OBVIOUS
      <4>2. records'[Len(records) + i] = [response |-> response, id |-> Requests[i].id, tool |-> tool,
                                          disposition |-> disposition]
        BY <3>2, <4>1
      <4> QED BY <4>1, <4>2
    <3> QED BY <3>1, <3>3
  <2>3. DOMAIN records' = 1..Len(records') /\ DOMAIN records = 1..Len(records)
    <3>1. records' \in Seq(Outcome)
      BY TypeKept DEF LoopType
    <3> QED BY <1>0, <3>1
  <2>4. disabled \subseteq disabled'
    BY <1>0, <2>1, PolicyType
  <2>5. ASSUME NEW i \in 1..Len(Requests)
        PROVE  Disposition(ApplyPolicy(i)) = "disabled" <=> ApplyPolicy(i) \in {"disable", "disabled"}
    <3>1. ApplyPolicy(i) \in {"allow", "deny", "disable", "disabled"}
      BY <1>0, <2>1, PolicyType DEF Decisions
    <3> QED BY <3>1 DEF Disposition
  <2>6. ASSUME NEW i \in 1..Len(Requests), Disposition(ApplyPolicy(i)) = "disabled", NEW j \in Nat, i < j
        PROVE  Requests[i].tool \in DisabledBefore(j)
    BY <1>0, <2>1, <2>5, <2>6, DisabledLater
  <2>7. DisabledInv'
    <3> SUFFICES ASSUME NEW i \in 1..Len(records'), records'[i].disposition = "disabled"
                 PROVE  records'[i].tool \in disabled'
      BY <2>3 DEF DisabledInv
    <3>1. CASE i \in 1..Len(records)
      BY <1>0, <2>2, <2>3, <2>4, <3>1 DEF DisabledInv
    <3>2. CASE i \notin 1..Len(records)
      <4>1. PICK k \in 1..Len(Requests) : i = Len(records) + k
        <5>1. i - Len(records) \in 1..Len(Requests) /\ i = Len(records) + (i - Len(records))
          BY <2>2, <3>2
        <5> QED BY <5>1
      <4>2. k < Len(Requests) + 1 /\ Len(Requests) + 1 \in Nat
        BY <2>2
      <4> QED BY <2>1, <2>2, <2>6, <4>1, <4>2
    <3> QED BY <3>1, <3>2
  <2>8. DisabledStaysDisabled'
    <3> SUFFICES ASSUME NEW i \in 1..Len(records'), NEW j \in 1..Len(records'), i < j,
                        records'[i].tool = records'[j].tool, records'[i].disposition = "disabled"
                 PROVE  records'[j].disposition = "disabled"
      BY <2>3 DEF DisabledStaysDisabled
    <3>1. CASE j \in 1..Len(records)
      <4>1. i \in 1..Len(records)
        BY <2>2, <3>1
      <4> QED BY <1>0, <2>2, <2>3, <3>1, <4>1 DEF DisabledStaysDisabled
    <3>2. CASE j \notin 1..Len(records)
      <4>1. PICK k \in 1..Len(Requests) : j = Len(records) + k
        <5>1. j - Len(records) \in 1..Len(Requests) /\ j = Len(records) + (j - Len(records))
          BY <2>2, <3>2
        <5> QED BY <5>1
      <4>2. records'[j].tool = Requests[k].tool
            /\ records'[j].disposition = Disposition(ApplyPolicy(k))
        BY <2>2, <4>1
      <4>3. Requests[k].tool \in DisabledBefore(k)
        <5>1. CASE i \in 1..Len(records)
          <6>1. records'[i].tool \in disabled
            BY <1>0, <2>2, <2>3, <5>1 DEF DisabledInv
          <6> QED BY <4>2, <6>1 DEF DisabledBefore
        <5>2. CASE i \notin 1..Len(records)
          <6>1. PICK n \in 1..Len(Requests) : i = Len(records) + n
            <7>1. i - Len(records) \in 1..Len(Requests) /\ i = Len(records) + (i - Len(records))
              BY <2>2, <5>2
            <7> QED BY <7>1
          <6>2. n < k /\ k \in Nat
            BY <2>2, <4>1, <6>1
          <6>3. records'[i].tool = Requests[n].tool
                /\ records'[i].disposition = Disposition(ApplyPolicy(n))
            BY <2>2, <6>1
          <6>4. Requests[n].tool \in DisabledBefore(k)
            BY <2>6, <6>2, <6>3
          <6> QED BY <4>2, <6>3, <6>4
        <5> QED BY <5>1, <5>2
      <4> QED BY <4>2, <4>3 DEF ApplyPolicy, Disposition
    <3> QED BY <3>1, <3>2
  <2> QED BY <2>7, <2>8
<1>3. UNCHANGED <<records, disabled>> \/ Authorized
  BY DEF Next, Step, Start, RequestFails, Receive, ResponseFails, FinalAnswer, Finish, Update,
     RoundFails, ToolRound, Ask, AnswerByPolicy, ExecuteNext, RoundDone, Interrupt, vars, session
<1> QED BY <1>1, <1>2, <1>3

LEMMA RecordsKept ==
  ASSUME LoopInv, [Next]_vars
  PROVE  RecordsInv'
<1>0. LoopType /\ RecordsInv
  BY DEF LoopInv
<1>1. CASE pc' # "execute"
  BY <1>1 DEF RecordsInv
<1>2. CASE Authorized
  <2>1. /\ Len(records) \in Nat /\ Len(Requests) \in Nat
        /\ Len(records') = Len(records) + Len(Requests)
        /\ \A i \in 1..Len(Requests) :
             records'[Len(records) + i] =
               [response |-> response, id |-> Requests[i].id, tool |-> Requests[i].tool,
                disposition |-> Disposition(ApplyPolicy(i))]
    BY <1>0, <1>2, RecordsAdded
  <2>2. decisions' = [i \in 1..Len(Requests) |-> ApplyPolicy(i)] /\ Requests' = Requests
        /\ response' = response
    BY <1>2 DEF Authorized, Requests
  <2>3. Len(decisions') = Len(Requests) /\ \A i \in 1..Len(Requests) : decisions'[i] = ApplyPolicy(i)
    BY <2>1, <2>2
  <2>4. Base' = Len(records)
    BY <2>1, <2>3 DEF Base
  <2> QED BY <2>1, <2>2, <2>3, <2>4 DEF RecordsInv
<1>3. CASE pc = "execute" /\ UNCHANGED <<records, decisions, calls, response>>
  <2>1. Requests' = Requests /\ Base' = Base
    BY <1>3 DEF Requests, Base
  <2> QED BY <1>0, <1>3, <2>1 DEF RecordsInv
<1>4. pc' # "execute" \/ Authorized \/ (pc = "execute" /\ UNCHANGED <<records, decisions, calls, response>>)
  BY <1>0 DEF Next, Step, Start, RequestFails, Receive, ResponseFails, FinalAnswer, Finish, Update,
     RoundFails, ToolRound, Ask, AnswerByPolicy, ExecuteNext, RoundDone, Interrupt, Fail, vars,
     session, round
<1> QED BY <1>1, <1>2, <1>3, <1>4
\* The tool of the next allowed record is run,
LEMMA NextIsRun ==
  ASSUME records \in Seq(Outcome), effects \in Seq(Effect), NEW n \in Nat, n + 1 <= Len(records),
         RunUpTo(n), records[n + 1].disposition = "allowed",
         NEW e, Same(records[n + 1], e), UNCHANGED records, effects' = Append(effects, e)
  PROVE  RunUpTo(n + 1)'
<1>1. records[n + 1] \in Allowed
  BY DEF Allowed
<1>2. Upto(records, Allowed, n + 1) = Append(Upto(records, Allowed, n), records[n + 1])
  BY <1>1, UptoNext
<1>3. Upto(records, Allowed, n) \in Seq(Outcome \cap Allowed)
  <2>1. n \in 0..Len(records)
    OBVIOUS
  <2> QED BY <2>1, UptoType
<1>4. PICK last, next, r : /\ last = Upto(records, Allowed, n) /\ next = Append(last, r)
                           /\ next = Upto(records, Allowed, n + 1) /\ r = records[n + 1]
  BY <1>2
<1>5. /\ Len(last) = Len(effects) /\ Len(effects) \in Nat
      /\ Len(next) = Len(last) + 1 /\ next[Len(last) + 1] = r
      /\ \A k \in 1..Len(last) : next[k] = last[k]
  <2>1. Len(last) = Len(effects) /\ Len(effects) \in Nat
    BY <1>4 DEF RunUpTo
  <2>2. PICK S : last \in Seq(S)
    BY <1>3, <1>4
  <2>3. next = Append(last, r)
    BY <1>4
  <2>4. Len(next) = Len(last) + 1 /\ next[Len(last) + 1] = r
        /\ \A k \in 1..Len(last) : next[k] = last[k]
    BY <2>2, <2>3
  <2> QED BY <2>1, <2>4
<1>6. /\ Len(effects') = Len(effects) + 1 /\ effects'[Len(effects) + 1] = e
      /\ \A k \in 1..Len(effects) : effects'[k] = effects[k]
  OBVIOUS
<1>7. Upto(records', Allowed, n + 1) = next
  BY <1>4
<1>8. ASSUME NEW k \in 1..Len(effects') PROVE Same(next[k], effects'[k])
  <2>1. CASE k \in 1..Len(effects)
    <3>1. Same(last[k], effects[k])
      BY <1>4, <2>1 DEF RunUpTo
    <3> QED BY <1>5, <1>6, <2>1, <3>1
  <2>2. CASE k = Len(effects) + 1
    BY <1>4, <1>5, <1>6, <2>2
  <2> QED BY <1>5, <1>6, <2>1, <2>2
<1> QED BY <1>5, <1>6, <1>7, <1>8 DEF RunUpTo

\* and that of a record that is not allowed is passed by.
LEMMA NextIsPassed ==
  ASSUME records \in Seq(Outcome), NEW n \in Nat, n + 1 <= Len(records),
         RunUpTo(n), records[n + 1].disposition # "allowed", UNCHANGED <<records, effects>>
  PROVE  RunUpTo(n + 1)'
<1>1. records[n + 1] \notin Allowed
  BY DEF Allowed
<1>2. Upto(records, Allowed, n + 1) = Upto(records, Allowed, n)
  <2>1. PICK i : i = n + 1 /\ i \in 1..Len(records) /\ i - 1 = n
    OBVIOUS
  <2>2. Upto(records, Allowed, i) = Upto(records, Allowed, i - 1)
    BY <1>1, <2>1, UptoStep
  <2> QED BY <2>1, <2>2
<1> QED BY <1>2 DEF RunUpTo

\* The record of the next call, when it is prepared.
LEMMA CurrentRecord ==
  ASSUME LoopInv, pc = "execute", Len(results) < Len(calls), Current.prepared,
         NEW n \in 0..Len(records), n = Base + drawn
  PROVE  /\ n + 1 <= Len(records)
         /\ Same(records[n + 1], [response |-> response, id |-> Current.id, tool |-> Current.tool])
         /\ records[n + 1].disposition = "allowed" <=> decisions[Draw] = "allow"
<1>1. LoopType /\ DrawnInv /\ RecordsInv
  BY DEF LoopInv
<1>2. Draw \in 1..Len(decisions) /\ Requests[Draw] = Current /\ Draw = drawn + 1
  BY <1>1, CurrentCall DEF Draw
<1>3. Len(decisions) \in Nat /\ Len(records) \in Nat /\ drawn \in Nat /\ decisions[Draw] \in Decisions
  BY <1>1, <1>2 DEF LoopType
<1>4. n + 1 = Base + Draw /\ n + 1 <= Len(records)
  BY <1>2, <1>3 DEF Base
<1>5. records[n + 1] = [response |-> response, id |-> Current.id, tool |-> Current.tool,
                        disposition |-> Disposition(decisions[Draw])]
  BY <1>1, <1>2, <1>4 DEF RecordsInv
<1>6. Disposition(decisions[Draw]) = "allowed" <=> decisions[Draw] = "allow"
  BY <1>3 DEF Disposition, Decisions
<1>7. PICK disposition : disposition = Disposition(decisions[Draw])
  OBVIOUS
<1> QED BY <1>4, <1>5, <1>6, <1>7 DEF Same

LEMMA EffectsKept ==
  ASSUME LoopInv, [Next]_vars
  PROVE  EffectsInv'
<1>0. /\ LoopType /\ RoundInv /\ DrawnInv /\ EffectsInv
      /\ records \in Seq(Outcome) /\ effects \in Seq(Effect)
      /\ Len(records) \in Nat /\ Len(effects) \in Nat
  BY DEF LoopInv, LoopType
<1>1. PICK n \in 0..Len(records) :
        /\ RunUpTo(n)
        /\ pc \notin {"execute", "stopped"} => n = Len(records)
        /\ pc = "execute" => n = Base + drawn
  BY <1>0 DEF EffectsInv
<1>2. n \in Nat
  BY <1>0
<1>3. ASSUME NEW m \in 0..Len(records), UNCHANGED records, RunUpTo(m)',
             \/ UNCHANGED effects
             \/ /\ response < MaxResponses
                /\ \E e : effects' = Append(effects, e) /\ e.response = response,
             pc' \notin {"execute", "stopped"} => m = Len(records),
             pc' = "execute" => m = (Base + drawn)'
      PROVE  EffectsInv'
  <2>1. \A k \in 1..Len(effects') : effects'[k].response < MaxResponses
    <3>1. CASE UNCHANGED effects
      BY <1>0, <3>1 DEF EffectsInv
    <3>2. ASSUME NEW e, effects' = Append(effects, e), e.response = response, response < MaxResponses
          PROVE  \A k \in 1..Len(effects') : effects'[k].response < MaxResponses
      <4>1. /\ Len(effects') = Len(effects) + 1 /\ effects'[Len(effects) + 1] = e
            /\ \A k \in 1..Len(effects) : effects'[k] = effects[k]
        BY <1>0, <3>2
      <4> QED BY <1>0, <3>2, <4>1 DEF EffectsInv
    <3> QED BY <1>3, <3>1, <3>2
  <2>2. /\ RunUpTo(m)'
        /\ pc' \notin {"execute", "stopped"} => m = Len(records')
        /\ pc' = "execute" => m = (Base + drawn)'
    BY <1>3
  <2>3. m \in 0..Len(records')
    BY <1>3
  <2> QED BY <2>1, <2>2, <2>3 DEF EffectsInv
<1>4. ASSUME UNCHANGED <<records, effects>> PROVE RunUpTo(n)'
  BY <1>1, <1>4 DEF RunUpTo
<1>5. CASE /\ UNCHANGED <<records, effects>>
           /\ \/ pc' = "stopped"
              \/ pc \notin {"execute", "stopped"} /\ pc' # "execute"
              \/ pc' = pc /\ UNCHANGED <<decisions, drawn>>
  <2>1. pc' \notin {"execute", "stopped"} => n = Len(records)
    BY <1>1, <1>5
  <2>2. pc' = "execute" => n = (Base + drawn)'
    BY <1>1, <1>5 DEF Base
  <2> QED BY <1>3, <1>4, <1>5, <2>1, <2>2
<1>6. CASE Authorized
  <2>1. pc = "authorize" /\ n = Len(records) /\ drawn = 0 /\ drawn' = 0 /\ pc' = "execute"
        /\ UNCHANGED effects
    BY <1>0, <1>1, <1>6 DEF RoundInv, Authorized
  <2>2. /\ Len(Requests) \in Nat /\ Len(records') = Len(records) + Len(Requests)
        /\ \A i \in 1..Len(records) : records'[i] = records[i]
    BY <1>0, <1>6, RecordsAdded
  <2>3. records' \in Seq(Outcome)
    BY TypeKept DEF LoopType
  <2>4. SubSeq(records', 1, n) = SubSeq(records, 1, n)
    BY <1>0, <2>1, <2>2, <2>3
  <2>5. RunUpTo(n)'
    BY <1>1, <2>1, <2>4 DEF RunUpTo, Upto
  <2>6. Base' = Len(records)
    <3>1. decisions' = [i \in 1..Len(Requests) |-> ApplyPolicy(i)]
      BY <1>6 DEF Authorized
    <3>2. Len(decisions') = Len(Requests)
      BY <2>2, <3>1
    <3> QED BY <1>0, <2>2, <3>2 DEF Base
  <2>7. n \in 0..Len(records') /\ n = (Base + drawn)'
    BY <1>0, <2>1, <2>2, <2>6
  <2>8. \A k \in 1..Len(effects') : effects'[k].response < MaxResponses
    BY <1>0, <2>1 DEF EffectsInv
  <2> QED BY <2>1, <2>5, <2>7, <2>8 DEF EffectsInv
<1>7. CASE ExecuteNext
  <2>1. /\ pc = "execute" /\ pc' = "execute" /\ Len(results) < Len(calls)
        /\ UNCHANGED <<records, decisions>> /\ n = Base + drawn /\ Base' = Base
    BY <1>1, <1>7 DEF ExecuteNext, session, Base
  <2>2. CASE ~Current.prepared
    BY <1>5, <1>7, <2>1, <2>2 DEF ExecuteNext
  <2>3. CASE Current.prepared
    <3> DEFINE e == [response |-> response, id |-> Current.id, tool |-> Current.tool]
    <3>1. /\ n + 1 <= Len(records) /\ Same(records[n + 1], e)
          /\ records[n + 1].disposition = "allowed" <=> decisions[Draw] = "allow"
      BY <2>1, <2>3, CurrentRecord
    <3>2. n + 1 \in 0..Len(records) /\ (Base + drawn)' = n + 1
      <4>1. drawn' = drawn + 1
        BY <1>7, <2>3 DEF ExecuteNext
      <4>2. Base \in Int /\ drawn \in Nat
        BY <1>0 DEF Base, LoopType
      <4> QED BY <1>2, <2>1, <3>1, <4>1, <4>2
    <3>3. e.response = response /\ response < MaxResponses
      BY <1>0, <2>1 DEF RoundInv
    <3>4. CASE decisions[Draw] = "allow"
      <4>1. effects' = Append(effects, e)
        BY <1>7, <2>3, <3>4 DEF ExecuteNext
      <4> HIDE DEF e
      <4>2. RunUpTo(n + 1)'
        BY <1>0, <1>1, <1>2, <2>1, <3>1, <3>4, <4>1, NextIsRun
      <4> QED BY <1>3, <2>1, <3>2, <3>3, <4>1, <4>2
    <3>5. CASE decisions[Draw] # "allow"
      <4>1. UNCHANGED effects
        BY <1>7, <2>3, <3>5 DEF ExecuteNext
      <4>2. RunUpTo(n + 1)'
        BY <1>0, <1>1, <1>2, <2>1, <3>1, <3>5, <4>1, NextIsPassed
      <4> QED BY <1>3, <2>1, <3>2, <4>1, <4>2
    <3> QED BY <3>4, <3>5
  <2> QED BY <2>2, <2>3
<1>8. CASE RoundDone \/ RoundFails
  <2>1. /\ pc = "execute" /\ Len(results) = Len(calls) /\ UNCHANGED <<records, effects>>
        /\ pc' \notin {"execute", "stopped"}
    BY <1>8 DEF RoundDone, RoundFails, Fail, session
  <2>2. drawn = Len(decisions)
    <3>1. calls \in Seq(Call)
      BY <1>0 DEF LoopType
    <3>2. Upto(calls, Prepared, Len(calls)) = Requests
      BY <3>1, UptoNext DEF Requests, Prepared
    <3> QED BY <1>0, <2>1, <3>2 DEF DrawnInv
  <2>3. n = Len(records)
    <3>1. Len(decisions) \in Nat
      BY <1>0 DEF LoopType
    <3> QED BY <1>0, <1>1, <2>1, <2>2, <3>1 DEF Base
  <2> QED BY <1>3, <1>4, <2>1, <2>3
<1>9. CASE Interrupt
  <2>1. pc' = "stopped" /\ UNCHANGED records
    BY <1>9 DEF Interrupt, session
  <2>2. CASE UNCHANGED effects
    BY <1>5, <2>1, <2>2
  <2>3. CASE /\ pc = "execute" /\ Len(results) < Len(calls)
             /\ Current.prepared /\ decisions[Draw] = "allow"
             /\ effects' = Append(effects, [response |-> response, id |-> Current.id,
                                            tool |-> Current.tool])
    <3> DEFINE e == [response |-> response, id |-> Current.id, tool |-> Current.tool]
    <3>1. /\ n + 1 <= Len(records) /\ Same(records[n + 1], e)
          /\ records[n + 1].disposition = "allowed"
      BY <1>1, <2>3, CurrentRecord
    <3>2. n + 1 \in 0..Len(records)
      BY <1>0, <1>2, <3>1
    <3>3. e.response = response /\ response < MaxResponses
      BY <1>0, <2>3 DEF RoundInv
    <3>4. effects' = Append(effects, e)
      BY <2>3
    <3> HIDE DEF e
    <3>5. RunUpTo(n + 1)'
      BY <1>0, <1>1, <1>2, <2>1, <3>1, <3>4, NextIsRun
    <3> QED BY <1>3, <2>1, <3>2, <3>3, <3>4, <3>5
  <2> QED BY <1>9, <2>2, <2>3 DEF Interrupt
<1>10. Authorized \/ ExecuteNext \/ RoundDone \/ RoundFails \/ Interrupt
       \/ /\ UNCHANGED <<records, effects>>
          /\ \/ pc \notin {"execute", "stopped"} /\ pc' # "execute"
             \/ pc' = pc /\ UNCHANGED <<decisions, drawn>>
  BY DEF Next, Step, Start, RequestFails, Receive, ResponseFails, FinalAnswer, Finish, Update,
     ToolRound, Ask, AnswerByPolicy, Fail, vars, session, round
<1> QED BY <1>5, <1>6, <1>7, <1>8, <1>9, <1>10

LEMMA LoopKept ==
  ASSUME LoopInv, [Next]_vars
  PROVE  LoopInv'
BY TypeKept, RoundKept, DrawnKept, AnswersKept, DisabledKept, RecordsKept, EffectsKept DEF LoopInv

\* The invariant holds in every state of a run.
LEMMA LoopInvariant == Spec => []LoopInv
<1>1. Init => LoopInv
  BY InitInv
<1>2. LoopInv /\ [Next]_vars => LoopInv'
  BY LoopKept
<1> QED BY <1>1, <1>2, PTL DEF Spec
-----------------------------------------------------------------------------
(* Theorems                                                                *)

\* No more calls than a response may hold, no more unanswered prompts than attempts, no
\* decision drawn that was not made, and only tools that ask are ever disabled.
THEOREM TypeCorrect == Spec => []TypeOK
<1>1. LoopInv => TypeOK
  BY DEF LoopInv, LoopType, DrawnInv, TypeOK
<1> QED BY <1>1, LoopInvariant, PTL

\* What the user disabled stays disabled: ApprovalSession.authorize refuses every later
\* request for the tool, of the same batch or a later round.
THEOREM DisabledForGood == Spec => []DisabledStaysDisabled
<1>1. LoopInv => DisabledStaysDisabled
  BY DEF LoopInv
<1> QED BY <1>1, LoopInvariant, PTL

\* Tools run for exactly the calls recorded as allowed, in that order, never twice and never
\* for the last response; unless the run is stopped in a round, for all of them.
THEOREM AllowedAreRun == Spec => []RunsExactlyTheAllowed
<1>1. ASSUME LoopInv PROVE RunsExactlyTheAllowed
  <2> DEFINE allowed == Only(records, {r \in Range(records) : r.disposition = "allowed"})
  <2>0. /\ records \in Seq(Outcome) /\ effects \in Seq(Effect)
        /\ Len(records) \in Nat /\ Len(effects) \in Nat /\ DOMAIN effects = 1..Len(effects)
    BY <1>1 DEF LoopInv, LoopType
  <2>1. allowed = Only(records, Allowed)
    <3> DEFINE S == {r \in Range(records) : r.disposition = "allowed"}
    <3>1. \A n \in 1..Len(records) : records[n] \in Range(records) /\ records[n] \in Outcome
      BY <2>0 DEF Range
    <3>2. \A n \in 1..Len(records) : records[n] \in S <=> records[n] \in Allowed
      BY <3>1 DEF Allowed
    <3> HIDE DEF S
    <3>3. Only(records, S) = Only(records, Allowed)
      BY <2>0, <3>2, OnlyAgree
    <3> QED BY <3>3 DEF S
  <2> HIDE DEF allowed
  <2>2. PICK n \in 0..Len(records) :
          RunUpTo(n) /\ (pc \notin {"execute", "stopped"} => n = Len(records))
    BY <1>1 DEF LoopInv, EffectsInv
  <2>3. Upto(records, Allowed, Len(records)) = allowed
    BY <2>0, <2>1, UptoNext
  <2>4. /\ Len(effects) <= Len(allowed)
        /\ \A k \in 1..Len(effects) : allowed[k] = Upto(records, Allowed, n)[k]
    <3>1. Len(records) \in 0..Len(records) /\ n <= Len(records)
      BY <2>0
    <3>2. /\ Len(Upto(records, Allowed, n)) <= Len(Upto(records, Allowed, Len(records)))
          /\ \A k \in 1..Len(Upto(records, Allowed, n)) :
               Upto(records, Allowed, Len(records))[k] = Upto(records, Allowed, n)[k]
      BY <2>0, <3>1, UptoGrows
    <3> QED BY <2>2, <2>3, <3>2 DEF RunUpTo
  <2>5. \A k \in 1..Len(effects) : Same(allowed[k], effects[k]) /\ effects[k].response < MaxResponses
    BY <1>1, <2>2, <2>4 DEF RunUpTo, LoopInv, EffectsInv
  <2>6. pc \in {"update", "request", "final", "done"} => Len(effects) = Len(allowed)
    BY <2>2, <2>3 DEF RunUpTo
  <2> QED BY <2>0, <2>4, <2>5, <2>6 DEF RunsExactlyTheAllowed, Same, allowed
<1>2. LoopInv => RunsExactlyTheAllowed
  BY <1>1
<1> QED BY <1>2, LoopInvariant, PTL
-----------------------------------------------------------------------------
(* The conversation and its checkpoints                                    *)

\* The messages there may be.
Resumed == UNION {Range(initial) : initial \in Initial}
RequestMessage == {Message("assistant", ids, NoId, 1) : ids \in SUBSET Ids}
AnyMessage == Resumed \cup {SystemPrompt, Prompt, Answer} \cup ToolMessage \cup RequestMessage

\* The results of a round answer its calls in their order, and the calls have different ids.
CallsInv ==
  /\ \A i, j \in 1..Len(calls) : i # j => calls[i].id # calls[j].id
  /\ \A k \in 1..Len(results) : results[k].id = calls[k].id

\* Rounds join the conversation whole: it may be replayed at any time, not only when it is
\* handed to the store.
HistoryInv ==
  /\ CallsInv
  /\ messages \in Seq(AnyMessage)
  /\ IsReplaySafe(messages) /\ IsReplaySafe(durable)

LEMMA MessageTypes ==
  /\ SystemPrompt \in AnyMessage /\ SystemPrompt.role = "system"
  /\ Prompt \in AnyMessage /\ Prompt.role = "user"
  /\ Answer \in AnyMessage /\ Answer.role = "assistant" /\ Asks(Answer) = {}
  /\ \A m \in ToolMessage : m \in AnyMessage /\ m.role = "tool" /\ Asks(m) = {}
<1>1. SystemPrompt \in AnyMessage /\ Prompt \in AnyMessage /\ Answer \in AnyMessage
  BY DEF AnyMessage
<1>2. SystemPrompt.role = "system" /\ Prompt.role = "user" /\ Answer.role = "assistant"
  BY DEF SystemPrompt, Prompt, Answer, Message
<1>3. Asks(Answer) = {}
  BY DEF Answer, Message, Asks
<1>4. ASSUME NEW m \in ToolMessage PROVE m \in AnyMessage /\ m.role = "tool" /\ Asks(m) = {}
  <2>1. m \in AnyMessage
    BY DEF AnyMessage
  <2>2. m.role = "tool"
    BY DEF ToolMessage
  <2> QED BY <2>1, <2>2 DEF Asks
<1> QED BY <1>1, <1>2, <1>3, <1>4

LEMMA InitHistory == ASSUME Init PROVE HistoryInv
<1>1. PICK initial \in Initial : messages = StartingMessages(initial) /\ durable = initial
  BY DEF Init
<1>2. initial \in Seq(Range(initial)) /\ IsReplaySafe(initial)
  BY ResumeAssumption
<1>3. initial \in Seq(AnyMessage)
  <2>1. Range(initial) \subseteq AnyMessage
    BY DEF AnyMessage, Resumed
  <2> QED BY <1>2, <2>1
<1>4. IsReplaySafe(messages)
  BY <1>1, <1>2, <1>3, MessageTypes, StrippedIsSafe DEF StartingMessages
<1>5. messages \in Seq(AnyMessage)
  <2> DEFINE stripped == StripSystemMessages(initial)
  <2>1. stripped \in Seq(AnyMessage)
    <3> DEFINE S == {m \in Range(initial) : m.role # "system"}
    <3> HIDE DEF S
    <3>1. Only(initial, S) \in Seq(AnyMessage \cap S)
      BY <1>3, OnlyType
    <3>2. Only(initial, S) \in Seq(AnyMessage)
      BY <3>1
    <3> QED BY <3>2 DEF StripSystemMessages, S
  <2>2. messages = <<SystemPrompt>> \o stripped \o <<Prompt>>
    BY <1>1 DEF StartingMessages
  <2> HIDE DEF stripped
  <2>3. <<SystemPrompt>> \in Seq(AnyMessage) /\ <<Prompt>> \in Seq(AnyMessage)
    BY MessageTypes
  <2> QED BY <2>1, <2>2, <2>3
<1>6. CallsInv
  BY DEF Init, CallsInv
<1> QED BY <1>1, <1>2, <1>4, <1>5, <1>6 DEF HistoryInv

\* The message that asks for a round.
LEMMA RequestIsMessage ==
  ASSUME calls \in Seq(Call)
  PROVE  LET ids == {calls[i].id : i \in 1..Len(calls)}
         IN  /\ Request(calls) \in AnyMessage /\ Request(calls).role = "assistant"
             /\ Request(calls).calls = ids /\ Asks(Request(calls)) = ids
<1> DEFINE ids == {calls[i].id : i \in 1..Len(calls)}
<1>1. ids \in SUBSET Ids
  BY DEF Ids
<1>2. Request(calls) = Message("assistant", ids, NoId, 1)
  BY DEF Request
<1> HIDE DEF ids
<1>3. Request(calls) \in RequestMessage
  BY <1>1, <1>2 DEF RequestMessage
<1>4. Request(calls).role = "assistant" /\ Request(calls).calls = ids
  BY <1>2 DEF Message
<1> QED BY <1>3, <1>4 DEF AnyMessage, Asks, ids

\* A round that joins a conversation which may be replayed leaves one that may.
LEMMA RoundIsSafe ==
  ASSUME LoopType, HistoryInv, Len(results) = Len(calls)
  PROVE  LET whole == Append(messages, Request(calls)) \o results
         IN  whole \in Seq(AnyMessage) /\ IsReplaySafe(whole)
<1> DEFINE first == Append(messages, Request(calls))
           Acc(n) == Scanned(first \o SubSeq(results, 1, n))
           ids == {calls[i].id : i \in 1..Len(calls)}
           Answered(n) == /\ Acc(n).safe /\ Acc(n).calls = ids
                          /\ Acc(n).seen = {calls[i].id : i \in 1..n}
           M == {n \in Nat : n <= Len(results) => Answered(n)}
<1>1. /\ messages \in Seq(AnyMessage) /\ calls \in Seq(Call) /\ results \in Seq(AnyMessage)
      /\ Len(results) \in Nat /\ DOMAIN calls = 1..Len(calls)
  <2>1. ToolMessage \subseteq AnyMessage
    BY DEF AnyMessage
  <2> QED BY <2>1 DEF LoopType, HistoryInv
<1>2. /\ Request(calls) \in AnyMessage /\ Request(calls).role = "assistant"
      /\ Asks(Request(calls)) = ids
  BY <1>1, RequestIsMessage
<1>3. first \in Seq(AnyMessage)
  BY <1>1, <1>2
<1>4. Scanned(first) = Follow(Scanned(messages), Request(calls))
  BY <1>1, <1>2, ScannedAppend
<1>5. ASSUME NEW k \in 1..Len(results)
      PROVE  results[k].role = "tool" /\ results[k].id = calls[k].id /\ results[k].id \in ids
  <2>1. results[k] \in ToolMessage /\ k \in 1..Len(calls)
    BY <1>5 DEF LoopType
  <2>2. results[k].id = calls[k].id
    BY <1>5 DEF HistoryInv, CallsInv
  <2> QED BY <2>1, <2>2, MessageTypes
<1> HIDE DEF first
<1>6. 0 \in M
  <2>1. first \o SubSeq(results, 1, 0) = first
    <3>1. SubSeq(results, 1, 0) = <<>>
      OBVIOUS
    <3> QED BY <1>3, <3>1
  <2>2. Scanned(messages).safe /\ Scanned(messages).seen = Scanned(messages).calls
    BY SafeIsScanned DEF HistoryInv
  <2>3. Acc(0) = Follow(Scanned(messages), Request(calls))
    BY <1>4, <2>1
  <2> HIDE DEF Acc, ids
  <2>4. /\ Follow(Scanned(messages), Request(calls)).safe
        /\ Follow(Scanned(messages), Request(calls)).calls = ids
        /\ Follow(Scanned(messages), Request(calls)).seen = {}
    BY <1>2, <2>2, FollowOther
  <2>5. {calls[i].id : i \in 1..0} = {}
    OBVIOUS
  <2> QED BY <2>3, <2>4, <2>5
<1>7. ASSUME NEW n \in M PROVE n + 1 \in M
  <2> SUFFICES ASSUME n + 1 <= Len(results) PROVE Answered(n + 1)
    OBVIOUS
  <2>1. Answered(n) /\ n \in Nat /\ n + 1 \in 1..Len(results)
    OBVIOUS
  <2>2. Acc(n + 1) = Follow(Acc(n), results[n + 1])
    BY <1>1, <1>3, <2>1, ScannedNext
  <2>3. results[n + 1].role = "tool" /\ results[n + 1].id = calls[n + 1].id /\ results[n + 1].id \in ids
    BY <1>5, <2>1
  <2>4. results[n + 1].id \notin {calls[i].id : i \in 1..n}
    BY <2>1, <2>3 DEF HistoryInv, CallsInv
  <2>5. {calls[i].id : i \in 1..n + 1} = {calls[i].id : i \in 1..n} \cup {results[n + 1].id}
    BY <2>1, <2>3
  <2> HIDE DEF Acc, ids
  <2>6. /\ Acc(n + 1).safe <=> Acc(n).safe /\ results[n + 1].id \in Acc(n).calls \ Acc(n).seen
        /\ Acc(n + 1).calls = Acc(n).calls
        /\ Acc(n + 1).seen = Acc(n).seen \cup {results[n + 1].id}
    BY <2>2, <2>3, FollowResult
  <2> QED BY <2>1, <2>3, <2>4, <2>5, <2>6
<1>8. Answered(Len(results))
  <2> HIDE DEF M
  <2>1. M \in SUBSET Nat
    BY DEF M
  <2>2. M = Nat
    BY <1>6, <1>7, <2>1, SetInduction
  <2> QED BY <1>1, <2>2 DEF M
<1>9. first \o results \in Seq(AnyMessage) /\ SubSeq(results, 1, Len(results)) = results
  BY <1>1, <1>3
<1>10. IsReplaySafe(first \o results)
  BY <1>8, <1>9, SafeIsScanned
<1> QED BY <1>9, <1>10 DEF first

LEMMA HistoryKept ==
  ASSUME LoopInv, HistoryInv, [Next]_vars
  PROVE  HistoryInv'
<1>0. LoopType /\ RoundInv /\ CallsInv /\ messages \in Seq(AnyMessage)
      /\ IsReplaySafe(messages) /\ IsReplaySafe(durable)
  BY DEF LoopInv, HistoryInv
<1>1. CASE /\ UNCHANGED <<messages, calls, results>>
           /\ durable' \in {durable, messages}
  BY <1>0, <1>1 DEF HistoryInv, CallsInv
<1>2. CASE ToolRound
  <2>1. results = <<>> /\ UNCHANGED <<results, messages, durable>>
    BY <1>0, <1>2 DEF RoundInv, ToolRound, Ended
  <2>2. \A i, j \in 1..Len(calls') : i # j => calls'[i].id # calls'[j].id
    <3>1. PICK n \in 1..MaxCalls : \E batch \in [1..n -> Call] :
            /\ \A i, j \in 1..n : i # j => batch[i].id # batch[j].id
            /\ calls' = batch
      BY <1>2 DEF ToolRound
    <3>2. n \in Nat /\ Len(calls') = n
      BY <3>1, LimitAssumption
    <3> QED BY <3>1, <3>2
  <2>3. Len(results') = 0
    BY <2>1
  <2> QED BY <1>0, <2>1, <2>2, <2>3 DEF HistoryInv, CallsInv
<1>3. CASE FinalAnswer
  <2>1. messages' = Append(messages, Answer) /\ UNCHANGED <<calls, results, durable>>
    BY <1>3 DEF FinalAnswer, round
  <2>2. messages' \in Seq(AnyMessage) /\ Scanned(messages') = Follow(Scanned(messages), Answer)
    BY <1>0, <2>1, MessageTypes, ScannedAppend
  <2>3. Scanned(messages).safe /\ Scanned(messages).seen = Scanned(messages).calls
    BY <1>0, SafeIsScanned
  <2>4. Scanned(messages').safe /\ Scanned(messages').seen = {} /\ Scanned(messages').calls = {}
    <3>1. /\ Follow(Scanned(messages), Answer).safe
          /\ Follow(Scanned(messages), Answer).seen = {}
          /\ Follow(Scanned(messages), Answer).calls = {}
      BY <2>3, MessageTypes, FollowOther
    <3> QED BY <2>2, <3>1
  <2>5. IsReplaySafe(messages')
    BY <2>4, SafeIsScanned
  <2> QED BY <1>0, <2>1, <2>2, <2>5 DEF HistoryInv, CallsInv
<1>4. CASE ExecuteNext
  <2>1. UNCHANGED <<calls, messages, durable>> /\ Len(results) < Len(calls)
    BY <1>4 DEF ExecuteNext
  <2>2. PICK size : results' = Append(results, Message("tool", {}, Current.id, size))
    BY <1>4 DEF ExecuteNext, Result
  <2>3. PICK m : m.id = Current.id /\ results' = Append(results, m)
    BY <2>2 DEF Message
  <2>4. /\ Len(results') = Len(results) + 1 /\ results'[Len(results) + 1] = m
        /\ \A k \in 1..Len(results) : results'[k] = results[k]
    BY <1>0, <2>3 DEF LoopType
  <2>5. Len(results) \in Nat
    BY <1>0 DEF LoopType
  <2>6. \A k \in 1..Len(results') : results'[k].id = calls'[k].id
    BY <1>0, <2>1, <2>3, <2>4, <2>5 DEF CallsInv, Current
  <2> QED BY <1>0, <2>1, <2>6 DEF HistoryInv, CallsInv
<1>5. CASE RoundDone
  <2>1. messages' = Append(messages, Request(calls)) \o results /\ Len(results) = Len(calls)
        /\ calls' = <<>> /\ results' = <<>> /\ UNCHANGED durable
    BY <1>5 DEF RoundDone, Record
  <2>2. messages' \in Seq(AnyMessage) /\ IsReplaySafe(messages')
    BY <1>0, <2>1, RoundIsSafe
  <2>3. CallsInv'
    BY <2>1 DEF CallsInv
  <2> QED BY <1>0, <2>1, <2>2, <2>3 DEF HistoryInv
<1>6. \/ UNCHANGED <<messages, calls, results>> /\ durable' \in {durable, messages}
      \/ ToolRound \/ FinalAnswer \/ ExecuteNext \/ RoundDone
  BY DEF Next, Step, Start, RequestFails, Receive, ResponseFails, Finish, Update, RoundFails,
     Ask, AnswerByPolicy, Authorized, Interrupt, Checkpointed, CheckpointFailed, vars, round
<1> QED BY <1>1, <1>2, <1>3, <1>4, <1>5, <1>6

LEMMA HistoryInvariant == Spec => []HistoryInv
<1>1. Init => HistoryInv
  BY InitHistory
<1>2. LoopInv /\ HistoryInv /\ [Next]_vars => HistoryInv'
  BY HistoryKept
<1> QED BY <1>1, <1>2, LoopInvariant, PTL DEF Spec

\* Whatever run_agent hands to the store may be replayed: commit_checkpoint accepts it and a
\* provider can be sent it.
THEOREM CheckpointsReplay == Spec => []CheckpointsAreReplaySafe
<1>1. HistoryInv => CheckpointsAreReplaySafe
  BY DEF HistoryInv, CheckpointsAreReplaySafe
<1> QED BY <1>1, HistoryInvariant, PTL
-----------------------------------------------------------------------------
(* What the conversation tells of the effects                              *)

\* A history that holds the prompt of this run.
HasPrompt(h) ==
  /\ h \in Seq(AnyMessage)
  /\ \E p \in 1..Len(h) : h[p].role = "user" /\ \A q \in p + 1..Len(h) : h[q].role # "user"

NoPrompt == {m \in AnyMessage : m.role # "user"}

Askers == {m \in AnyMessage : Asks(m) # {}}

LEMMA OwnFrom ==
  ASSUME NEW h \in Seq(AnyMessage), NEW p \in 1..Len(h), h[p].role = "user",
         \A q \in p + 1..Len(h) : h[q].role # "user"
  PROVE  Own(h) = SubSeq(h, p + 1, Len(h))
<1> DEFINE prompts == {i \in DOMAIN h : h[i].role = "user"}
<1>1. p \in prompts /\ \A j \in prompts : j <= p
  OBVIOUS
<1>2. \A i \in prompts : (\A j \in prompts : j <= i) => i = p
  BY <1>1
<1> HIDE DEF prompts
<1>3. (CHOOSE i \in prompts : \A j \in prompts : j <= i) = p
  BY <1>1, <1>2
<1> QED BY <1>3 DEF Own, prompts

LEMMA SuffixConcat ==
  ASSUME NEW T, NEW a \in Seq(T), NEW b \in Seq(T), NEW p \in 1..Len(a)
  PROVE  SubSeq(a \o b, p + 1, Len(a \o b)) = SubSeq(a, p + 1, Len(a)) \o b
<1>1. PICK whole : whole = a \o b
  OBVIOUS
<1>2. whole \in Seq(T) /\ Len(whole) = Len(a) + Len(b) /\ Len(a) \in Nat /\ Len(b) \in Nat
  BY <1>1
<1>3. PICK left : left = SubSeq(whole, p + 1, Len(whole))
  OBVIOUS
<1>4. PICK rest : rest = SubSeq(a, p + 1, Len(a))
  OBVIOUS
<1>5. PICK right : right = rest \o b
  OBVIOUS
<1>6. left \in Seq(T) /\ Len(left) = Len(whole) - p
      /\ \A n \in 1..Len(left) : left[n] = whole[n + p]
  BY <1>2, <1>3
<1>7. rest \in Seq(T) /\ Len(rest) = Len(a) - p /\ \A n \in 1..Len(rest) : rest[n] = a[n + p]
  BY <1>2, <1>4
<1>8. right \in Seq(T) /\ Len(right) = Len(rest) + Len(b)
  <2>1. rest \in Seq(T)
    BY <1>7
  <2> QED BY <2>1, <1>5
<1>9. Len(left) = Len(right)
  BY <1>2, <1>6, <1>7, <1>8
<1>10. ASSUME NEW n \in 1..Len(left) PROVE left[n] = right[n]
  <2>1. CASE n <= Len(rest)
    <3>1. whole[n + p] = a[n + p]
      BY <2>1, <1>1, <1>2, <1>7
    <3>2. right[n] = rest[n]
      BY <2>1, <1>5, <1>7
    <3> QED BY <2>1, <3>1, <3>2, <1>6, <1>7
  <2>2. CASE n > Len(rest)
    <3>1. whole[n + p] = b[n + p - Len(a)]
      BY <2>2, <1>1, <1>2, <1>6, <1>7
    <3>2. right[n] = b[n - Len(rest)]
      BY <2>2, <1>2, <1>5, <1>6, <1>7, <1>8, <1>9
    <3>3. n + p - Len(a) = n - Len(rest)
      BY <1>2, <1>7, <1>6
    <3>4. left[n] = whole[n + p]
      BY <1>6
    <3> QED BY <3>1, <3>2, <3>3, <3>4
  <2> QED BY <2>1, <2>2, <1>2, <1>6, <1>7
<1>11. left = right
  BY <1>6, <1>8, <1>9, <1>10
<1> QED BY <1>1, <1>3, <1>4, <1>5, <1>11

\* The messages of this run grow with the conversation.
LEMMA OwnConcat ==
  ASSUME NEW h, HasPrompt(h), NEW more \in Seq(NoPrompt)
  PROVE  /\ HasPrompt(h \o more)
         /\ Own(h) \in Seq(AnyMessage) /\ Own(h \o more) = Own(h) \o more
<1>1. /\ h \in Seq(AnyMessage) /\ more \in Seq(AnyMessage) /\ h \o more \in Seq(AnyMessage)
      /\ Len(h) \in Nat /\ Len(more) \in Nat /\ Len(h \o more) = Len(h) + Len(more)
  BY DEF HasPrompt, NoPrompt
<1>2. PICK p \in 1..Len(h) : h[p].role = "user" /\ \A q \in p + 1..Len(h) : h[q].role # "user"
  BY DEF HasPrompt
<1>3. \A q \in 1..Len(h) : (h \o more)[q] = h[q]
  BY <1>1
<1>4. ASSUME NEW q \in Len(h) + 1..Len(h) + Len(more)
      PROVE  (h \o more)[q].role # "user"
  <2>1. (h \o more)[q] = more[q - Len(h)] /\ q - Len(h) \in 1..Len(more)
    BY <1>1, <1>4
  <2> QED BY <2>1 DEF NoPrompt
<1>5. /\ p \in 1..Len(h \o more) /\ (h \o more)[p].role = "user"
      /\ \A q \in p + 1..Len(h \o more) : (h \o more)[q].role # "user"
  BY <1>1, <1>2, <1>3, <1>4
<1>6. Own(h) = SubSeq(h, p + 1, Len(h))
  BY <1>1, <1>2, OwnFrom
<1>7. Own(h \o more) = SubSeq(h \o more, p + 1, Len(h \o more))
  BY <1>1, <1>5, OwnFrom
<1>8. SubSeq(h \o more, p + 1, Len(h \o more)) = SubSeq(h, p + 1, Len(h)) \o more
  BY <1>1, SuffixConcat
<1>9. SubSeq(h, p + 1, Len(h)) \in Seq(AnyMessage)
  BY <1>1
<1> QED BY <1>1, <1>5, <1>6, <1>7, <1>8, <1>9 DEF HasPrompt

\* A selection from them is the same for two sets that agree on the messages there are.
LEMMA OwnSelects ==
  ASSUME NEW h, HasPrompt(h), NEW S, NEW R,
         \A m \in Range(h) : m \in AnyMessage => (m \in S <=> m \in R)
  PROVE  Own(h) \in Seq(AnyMessage) /\ Only(Own(h), S) = Only(Own(h), R)
<1>1. h \in Seq(AnyMessage) /\ Own(h) \in Seq(AnyMessage)
  <2>1. <<>> \in Seq(NoPrompt)
    OBVIOUS
  <2> QED BY <2>1, OwnConcat DEF HasPrompt
<1>2. PICK p \in 1..Len(h) : Own(h) = SubSeq(h, p + 1, Len(h))
  BY OwnFrom DEF HasPrompt
<1>3. ASSUME NEW n \in 1..Len(Own(h)) PROVE Own(h)[n] \in S <=> Own(h)[n] \in R
  <2>1. Own(h)[n] = h[p + n] /\ p + n \in 1..Len(h)
    BY <1>1, <1>2
  <2>2. Own(h)[n] \in Range(h) /\ Own(h)[n] \in AnyMessage
    BY <1>1, <2>1 DEF Range
  <2> QED BY <2>2
<1>4. Len(Own(h)) \in Nat
  BY <1>1
<1>5. Only(Own(h), S) = Only(Own(h), R)
  BY <1>3, <1>4, OnlyAgree
<1> QED BY <1>1, <1>5

LEMMA AskingSelects ==
  ASSUME NEW h, HasPrompt(h)
  PROVE  Asking(h) = Only(Own(h), Askers) /\ Asking(h) \in Seq(AnyMessage)
<1> DEFINE S == {m \in Range(h) : Asks(m) # {}}
<1>1. \A m \in Range(h) : m \in AnyMessage => (m \in S <=> m \in Askers)
  BY DEF Askers
<1> HIDE DEF S
<1>2. Own(h) \in Seq(AnyMessage) /\ Only(Own(h), S) = Only(Own(h), Askers)
  BY <1>1, OwnSelects
<1>3. Only(Own(h), Askers) \in Seq(AnyMessage)
  <2>1. Only(Own(h), Askers) \in Seq(AnyMessage \cap Askers)
    BY <1>2, OnlyType
  <2> QED BY <2>1
<1> QED BY <1>2, <1>3 DEF Asking, S

\* A message of this run that asks for tools is one more, any other changes nothing.
LEMMA AskingConcat ==
  ASSUME NEW h, HasPrompt(h), NEW more \in Seq(NoPrompt)
  PROVE  Asking(h \o more) = Asking(h) \o Only(more, Askers)
<1>1. HasPrompt(h \o more) /\ Own(h) \in Seq(AnyMessage) /\ Own(h \o more) = Own(h) \o more
  BY OwnConcat
<1>2. more \in Seq(AnyMessage)
  BY DEF NoPrompt
<1>3. Only(Own(h) \o more, Askers) = Only(Own(h), Askers) \o Only(more, Askers)
  BY <1>1, <1>2, OnlyConcat
<1> QED BY <1>1, <1>3, AskingSelects

\* A history that tells of an effect: the calls of the response are in it.
Remembered(history, e) ==
  e.response <= Len(Asking(history)) /\ e.id \in Asking(history)[e.response].calls

\* The conversation holds the rounds of all responses before the current one, and of the
\* current one once its round is done.
TellsInv ==
  /\ HasPrompt(messages)
  /\ pc = "start" => response = 0 /\ effects = <<>>
  /\ pc \in {"received", "authorize", "execute", "final"} => response \in Nat \ {0}
  /\ pc \in {"authorize", "execute"} => calls # <<>>
  /\ pc \in {"start", "request", "update"} => Len(Asking(messages)) = response
  /\ pc \in {"received", "authorize", "execute", "final"} => Len(Asking(messages)) = response - 1

\* An effect is of one of those responses and for a call in it.
Recalled(e) ==
  /\ e.response \in 1..response
  /\ pc \in {"received", "authorize", "final"} => e.response < response
  /\ (pc = "execute" /\ e.response = response) => \E i \in 1..Len(calls) : calls[i].id = e.id
  /\ (e.response < response \/ pc \in {"request", "update"}) => Remembered(messages, e)
  /\ (e.response < response \/ pc \in {"request", "done"}) => Remembered(durable, e)

Effects == {effects[k] : k \in 1..Len(effects)}

RecallInv == TellsInv /\ \A e \in Effects : Recalled(e)

LEMMA InitOwn == ASSUME Init PROVE HasPrompt(messages) /\ Own(messages) = <<>>
<1>1. messages \in Seq(AnyMessage)
  BY InitHistory DEF HistoryInv
<1>2. PICK initial \in Initial : messages = StartingMessages(initial)
  BY DEF Init
<1> DEFINE stripped == StripSystemMessages(initial)
<1>3. stripped \in Seq(AnyMessage)
  <2>1. initial \in Seq(Range(initial)) /\ Range(initial) \subseteq AnyMessage
    BY ResumeAssumption DEF AnyMessage, Resumed
  <2>2. initial \in Seq(AnyMessage)
    BY <2>1
  <2> DEFINE S == {m \in Range(initial) : m.role # "system"}
  <2> HIDE DEF S
  <2>3. Only(initial, S) \in Seq(AnyMessage \cap S)
    BY <2>2, OnlyType
  <2>4. Only(initial, S) \in Seq(AnyMessage)
    BY <2>3
  <2> QED BY <2>4 DEF StripSystemMessages, S
<1>4. messages = <<SystemPrompt>> \o stripped \o <<Prompt>>
  BY <1>2 DEF StartingMessages
<1> HIDE DEF stripped
<1>5. Len(messages) \in Nat \ {0} /\ messages[Len(messages)] = Prompt
  <2>1. PICK first : first = <<SystemPrompt>> \o stripped
    OBVIOUS
  <2>2. first \in Seq(AnyMessage)
    <3>1. <<SystemPrompt>> \in Seq(AnyMessage)
      BY MessageTypes
    <3> QED BY <1>3, <2>1, <3>1
  <2>3. messages = first \o <<Prompt>>
    BY <1>4, <2>1
  <2> QED BY <2>2, <2>3
<1>6. PICK p : p = Len(messages) /\ p \in 1..Len(messages) /\ messages[p].role = "user"
               /\ \A q \in p + 1..Len(messages) : messages[q].role # "user"
  BY <1>5, MessageTypes
<1>7. HasPrompt(messages)
  BY <1>1, <1>6 DEF HasPrompt
<1>8. Own(messages) = <<>>
  <2>1. Own(messages) = SubSeq(messages, p + 1, Len(messages))
    BY <1>1, <1>6, OwnFrom
  <2> QED BY <1>1, <1>5, <1>6, <2>1
<1> QED BY <1>7, <1>8

LEMMA InitRecall == ASSUME Init PROVE RecallInv
<1>1. HasPrompt(messages) /\ Own(messages) = <<>>
  BY InitOwn
<1>2. Asking(messages) = <<>>
  BY <1>1, AskingSelects, OnlyEmpty
<1>3. Len(Asking(messages)) = 0 /\ Effects = {}
  BY <1>2 DEF Init, Effects
<1> QED BY <1>1, <1>3 DEF Init, RecallInv, TellsInv
\* A round that joins the conversation adds the message that asked for it, the answer none.
LEMMA RoundTells ==
  ASSUME LoopType, HasPrompt(messages), calls # <<>>
  PROVE  LET whole == Append(messages, Request(calls)) \o results
         IN  HasPrompt(whole) /\ Asking(whole) = Append(Asking(messages), Request(calls))
<1> DEFINE ids == {calls[i].id : i \in 1..Len(calls)}
           R == Request(calls)
           first == messages \o <<R>>
<1>1. /\ messages \in Seq(AnyMessage) /\ calls \in Seq(Call) /\ results \in Seq(ToolMessage)
      /\ Len(calls) \in Nat \ {0} /\ DOMAIN calls = 1..Len(calls)
  BY DEF HasPrompt, LoopType
<1>2. ids # {} /\ ids \in SUBSET Ids
  BY <1>1 DEF Ids
<1>3. R = Message("assistant", ids, NoId, 1)
  BY <1>1 DEF Request
<1> HIDE DEF ids, R
<1>4. R \in AnyMessage /\ R.role = "assistant" /\ Asks(R) = ids
  <2>1. R \in RequestMessage
    BY <1>2, <1>3 DEF RequestMessage
  <2>2. R.role = "assistant" /\ R.calls = ids
    BY <1>3 DEF Message
  <2> QED BY <2>1, <2>2 DEF AnyMessage, Asks
<1>5. R \in NoPrompt /\ R \in Askers
  BY <1>2, <1>4 DEF NoPrompt, Askers
<1>6. HasPrompt(first) /\ Asking(first) = Asking(messages) \o <<R>>
  <2>1. <<R>> \in Seq(NoPrompt)
    BY <1>5
  <2>2. Only(<<R>>, Askers) = <<R>>
    <3>1. PICK T : T = {R}
      OBVIOUS
    <3>2. T \subseteq Askers /\ R \in T
      BY <1>5, <3>1
    <3>3. <<R>> \in Seq(T)
      BY <3>2
    <3> QED BY <3>2, <3>3, OnlyAll
  <2> QED BY <2>1, <2>2, OwnConcat, AskingConcat
<1>7. results \in Seq(NoPrompt) /\ Only(results, Askers) = <<>>
  <2>1. ToolMessage \subseteq NoPrompt /\ ToolMessage \cap Askers = {}
    BY MessageTypes DEF NoPrompt, Askers
  <2>2. results \in Seq(NoPrompt)
    BY <1>1, <2>1
  <2> QED BY <1>1, <2>1, <2>2, OnlyNone
<1>8. HasPrompt(first \o results) /\ Asking(first \o results) = Asking(first) \o <<>>
  BY <1>6, <1>7, OwnConcat, AskingConcat
<1>9. Asking(messages) \in Seq(AnyMessage)
  BY AskingSelects
<1>10. first = Append(messages, R) /\ Asking(messages) \o <<R>> = Append(Asking(messages), R)
  BY <1>1, <1>4, <1>9
<1>11. Append(Asking(messages), R) \o <<>> = Append(Asking(messages), R)
  BY <1>4, <1>9
<1> QED BY <1>6, <1>8, <1>10, <1>11 DEF R

LEMMA AnswerTells ==
  ASSUME HasPrompt(messages)
  PROVE  HasPrompt(Append(messages, Answer)) /\ Asking(Append(messages, Answer)) = Asking(messages)
<1>1. /\ messages \in Seq(AnyMessage) /\ Answer \in AnyMessage /\ Answer.role = "assistant"
      /\ Asks(Answer) = {}
  BY MessageTypes DEF HasPrompt
<1>2. Answer \in NoPrompt /\ {Answer} \cap Askers = {}
  BY <1>1 DEF NoPrompt, Askers
<1>3. <<Answer>> \in Seq(NoPrompt) /\ <<Answer>> \in Seq({Answer})
  BY <1>2
<1>4. Only(<<Answer>>, Askers) = <<>>
  BY <1>2, <1>3, OnlyNone
<1>5. HasPrompt(messages \o <<Answer>>) /\ Asking(messages \o <<Answer>>) = Asking(messages) \o <<>>
  BY <1>3, <1>4, OwnConcat, AskingConcat
<1>6. Asking(messages) \in Seq(AnyMessage)
  BY AskingSelects
<1>7. messages \o <<Answer>> = Append(messages, Answer) /\ Asking(messages) \o <<>> = Asking(messages)
  BY <1>1, <1>6
<1> QED BY <1>5, <1>7

LEMMA TellsKept ==
  ASSUME LoopInv, TellsInv, [Next]_vars
  PROVE  TellsInv'
<1>0. LoopType /\ RoundInv /\ HasPrompt(messages) /\ response \in Nat
  BY LimitAssumption DEF LoopInv, TellsInv, LoopType
<1>1. CASE UNCHANGED <<pc, messages, response, calls>> /\ pc # "start"
  BY <1>1 DEF TellsInv
<1>2. CASE UNCHANGED messages /\ pc' \in Ended
  BY <1>2 DEF TellsInv, Ended
<1>3. CASE UNCHANGED <<messages, response>> /\ pc \in {"start", "update"} /\ pc' = "request"
  BY <1>3 DEF TellsInv
<1>4. CASE Receive
  BY <1>0, <1>4 DEF TellsInv, Receive
<1>5. CASE FinalAnswer
  <2>1. /\ messages' = Append(messages, Answer) /\ response' = response
        /\ pc = "received" /\ pc' = "final"
    BY <1>5 DEF FinalAnswer
  <2>2. HasPrompt(messages') /\ Asking(messages') = Asking(messages)
    BY <1>0, <2>1, AnswerTells
  <2> QED BY <2>1, <2>2 DEF TellsInv
<1>6. CASE ToolRound
  <2>1. pc = "received" /\ pc' = "authorize" /\ UNCHANGED <<messages, response>>
    BY <1>6 DEF ToolRound
  <2>2. calls' # <<>>
    <3>1. PICK n \in 1..MaxCalls : \E batch \in [1..n -> Call] : calls' = batch
      BY <1>6 DEF ToolRound
    <3>2. n \in Nat \ {0} /\ calls' \in [1..n -> Call] /\ DOMAIN calls' = 1..n
      BY <3>1, LimitAssumption
    <3> QED BY <3>2
  <2> QED BY <2>1, <2>2 DEF TellsInv
<1>7. CASE Authorized
  BY <1>7 DEF TellsInv, Authorized
<1>8. CASE RoundDone
  <2>1. /\ messages' = Append(messages, Request(calls)) \o results /\ response' = response
        /\ pc = "execute" /\ pc' = "update"
    BY <1>8 DEF RoundDone, Record
  <2>2. calls # <<>> /\ Len(Asking(messages)) = response - 1
    BY <2>1 DEF TellsInv
  <2>3. HasPrompt(messages') /\ Asking(messages') = Append(Asking(messages), Request(calls))
    BY <1>0, <2>1, <2>2, RoundTells
  <2>4. Asking(messages) \in Seq(AnyMessage)
    BY <1>0, AskingSelects
  <2>5. Len(Asking(messages')) = response
    <3>1. PICK told, r : told = Asking(messages) /\ r = Request(calls)
      OBVIOUS
    <3>2. Len(Append(told, r)) = Len(told) + 1
      BY <2>4, <3>1
    <3> QED BY <1>0, <2>2, <2>3, <3>1, <3>2
  <2> QED BY <1>0, <2>1, <2>3, <2>5 DEF TellsInv
<1>9. CASE UNCHANGED vars
  BY <1>9 DEF TellsInv, vars, round
<1>10. \/ UNCHANGED <<pc, messages, response, calls>> /\ pc # "start"
       \/ UNCHANGED messages /\ pc' \in Ended
       \/ UNCHANGED <<messages, response>> /\ pc \in {"start", "update"} /\ pc' = "request"
       \/ Receive \/ FinalAnswer \/ ToolRound \/ Authorized \/ RoundDone \/ UNCHANGED vars
  BY DEF Next, Step, Start, RequestFails, ResponseFails, Finish, Update, RoundFails, Fail,
     Ask, AnswerByPolicy, ExecuteNext, Interrupt, round, Ended
<1> QED BY <1>1, <1>2, <1>3, <1>4, <1>5, <1>6, <1>7, <1>8, <1>9, <1>10
\* What a history tells of stays told when the run goes on, and a round tells of its calls.
LEMMA RememberedLater ==
  ASSUME NEW h, HasPrompt(h), NEW later, NEW e, e.response \in Nat \ {0}, Remembered(h, e),
         \/ Asking(later) = Asking(h)
         \/ \E m : Asking(later) = Append(Asking(h), m)
  PROVE  Remembered(later, e)
<1>1. PICK told : told = Asking(h) /\ told \in Seq(AnyMessage)
  BY AskingSelects
<1>2. e.response \in 1..Len(told) /\ e.id \in told[e.response].calls
  BY <1>1 DEF Remembered
<1>3. CASE Asking(later) = told
  BY <1>2, <1>3 DEF Remembered
<1>4. CASE \E m : Asking(later) = Append(told, m)
  <2>1. PICK m : Asking(later) = Append(told, m)
    BY <1>4
  <2>2. PICK more : more = Append(told, m)
    OBVIOUS
  <2>3. Len(more) = Len(told) + 1 /\ more[e.response] = told[e.response] /\ Len(told) \in Nat
    BY <1>1, <1>2, <2>2
  <2>4. e.response <= Len(more) /\ e.id \in more[e.response].calls
    BY <1>2, <2>3
  <2> QED BY <2>1, <2>2, <2>4 DEF Remembered
<1> QED BY <1>1, <1>3, <1>4

\* The only step that tells of the current response is the end of its round.
LEMMA RecalledLater ==
  ASSUME LoopInv, TellsInv, [Next]_vars, NEW e, Recalled(e)
  PROVE  Recalled(e)'
<1>0. LoopType /\ HasPrompt(messages) /\ response \in Nat /\ e.response \in Nat \ {0}
      /\ e.response <= response
  BY LimitAssumption DEF LoopInv, TellsInv, LoopType, Recalled
<1>1. CASE UNCHANGED <<pc, messages, response, calls, durable>>
  BY <1>1 DEF Recalled, Remembered
<1>2. CASE UNCHANGED <<messages, response, durable>> /\ pc' \in {"failed", "stopped"}
  BY <1>2 DEF Recalled, Remembered
<1>3. CASE UNCHANGED <<messages, response, calls>> /\ durable' \in {durable, messages}
           /\ pc \in {"update", "final"} /\ pc' = "failed"
  BY <1>3 DEF Recalled, Remembered
<1>4. CASE UNCHANGED <<messages, response>> /\ durable' = messages
           /\ \/ pc = "update" /\ pc' = "request"
              \/ pc = "final" /\ pc' = "done"
  BY <1>4 DEF Recalled, Remembered
<1>5. CASE Receive
  BY <1>0, <1>5 DEF Recalled, Remembered, Receive
<1>6. CASE ToolRound \/ Authorized
  BY <1>6 DEF Recalled, Remembered, ToolRound, Authorized
<1>7. CASE FinalAnswer
  <2>1. /\ messages' = Append(messages, Answer) /\ response' = response /\ durable' = durable
        /\ pc = "received" /\ pc' = "final"
    BY <1>7 DEF FinalAnswer
  <2>2. e.response < response /\ Remembered(messages, e) /\ Remembered(durable, e)
    BY <2>1 DEF Recalled
  <2>3. Remembered(messages', e)
    BY <1>0, <2>1, <2>2, AnswerTells, RememberedLater
  <2> QED BY <1>0, <2>1, <2>2, <2>3 DEF Recalled, Remembered
<1>8. CASE RoundDone
  <2>1. /\ messages' = Append(messages, Request(calls)) \o results
        /\ response' = response /\ durable' = durable /\ pc = "execute" /\ pc' = "update"
    BY <1>8 DEF RoundDone, Record
  <2>2. calls # <<>> /\ Len(Asking(messages)) = response - 1
    BY <2>1 DEF TellsInv
  <2>3. Asking(messages') = Append(Asking(messages), Request(calls))
    BY <1>0, <2>1, <2>2, RoundTells
  <2>4. Remembered(messages', e)
    <3>1. CASE e.response < response
      <4>1. Remembered(messages, e)
        BY <3>1 DEF Recalled
      <4> QED BY <1>0, <2>3, <4>1, RememberedLater
    <3>2. CASE e.response = response
      <4>1. PICK told, r : told = Asking(messages) /\ r = Request(calls)
        OBVIOUS
      <4>2. told \in Seq(AnyMessage)
        BY <1>0, <4>1, AskingSelects
      <4>3. Len(Append(told, r)) = response /\ Append(told, r)[response] = r
        BY <1>0, <2>2, <4>1, <4>2
      <4>4. e.id \in r.calls
        <5>1. r.calls = {calls[i].id : i \in DOMAIN calls}
          BY <4>1 DEF Request, Message
        <5>2. DOMAIN calls = 1..Len(calls)
          BY <1>0 DEF LoopType
        <5> QED BY <2>1, <3>2, <5>1, <5>2 DEF Recalled
      <4>5. Asking(messages') = Append(told, r)
        BY <2>3, <4>1
      <4>6. e.response <= Len(Append(told, r)) /\ e.id \in Append(told, r)[e.response].calls
        BY <1>0, <3>2, <4>3, <4>4
      <4> QED BY <4>5, <4>6 DEF Remembered
    <3> QED BY <1>0, <3>1, <3>2
  <2> QED BY <1>0, <2>1, <2>4 DEF Recalled, Remembered
<1>9. CASE UNCHANGED vars
  BY <1>1, <1>9 DEF vars, round
<1>10. CASE Start
  BY <1>0, <1>10 DEF TellsInv, Start
<1>11. CASE Finish \/ Update
  <2>1. /\ UNCHANGED <<messages, response, calls>>
        /\ \/ pc = "update" /\ pc' = "request" /\ durable' = messages
           \/ pc = "final" /\ pc' = "done" /\ durable' = messages
           \/ pc \in {"update", "final"} /\ pc' = "failed" /\ durable' \in {durable, messages}
    BY <1>11 DEF Finish, Update, Fail, Checkpointed, CheckpointFailed, round
  <2> QED BY <1>3, <1>4, <2>1
<1>12. CASE RequestFails \/ ResponseFails \/ RoundFails \/ Interrupt
  BY <1>2, <1>12 DEF RequestFails, ResponseFails, RoundFails, Interrupt, Fail
<1>13. CASE Ask \/ AnswerByPolicy \/ ExecuteNext
  BY <1>1, <1>13 DEF Ask, AnswerByPolicy, ExecuteNext
<1> QED BY <1>5, <1>6, <1>7, <1>8, <1>9, <1>10, <1>11, <1>12, <1>13 DEF Next, Step

\* A tool is run for a call of the response that is being executed.
LEMMA EffectIsRecalled ==
  ASSUME LoopInv, TellsInv, [Next]_vars, NEW e, e \in Effects', e \notin Effects
  PROVE  Recalled(e)'
<1>0. LoopType /\ RoundInv /\ response \in Nat
  BY LimitAssumption DEF LoopInv, LoopType
<1> DEFINE new == [response |-> response, id |-> Current.id, tool |-> Current.tool]
<1>1. effects' = Append(effects, new) /\ pc = "execute" /\ Len(results) < Len(calls)
      /\ pc' \in {"execute", "stopped"} /\ UNCHANGED <<messages, response, calls, durable>>
  <2>1. effects' # effects
    BY DEF Effects
  <2>2. ExecuteNext \/ Interrupt
    BY <2>1 DEF Next, Step, Start, RequestFails, Receive, ResponseFails, FinalAnswer, Finish,
       ToolRound, Ask, AnswerByPolicy, Authorized, RoundDone, RoundFails, Update, vars, round
  <2>3. CASE ExecuteNext
    BY <2>1, <2>3 DEF ExecuteNext
  <2>4. CASE Interrupt
    BY <2>1, <2>4 DEF Interrupt, round
  <2> QED BY <2>2, <2>3, <2>4
<1>2. e = new
  <2>1. effects \in Seq(Effect)
    BY <1>0 DEF LoopType
  <2> HIDE DEF new
  <2>2. Len(effects') = Len(effects) + 1 /\ effects'[Len(effects) + 1] = new /\ Len(effects) \in Nat
        /\ \A k \in 1..Len(effects) : effects'[k] = effects[k]
    BY <1>1, <2>1
  <2> QED BY <2>2 DEF Effects
<1>3. e.response = response /\ \E i \in 1..Len(calls) : calls[i].id = e.id
  <2>1. e.response = response /\ e.id = Current.id
    BY <1>2
  <2>2. Len(results) + 1 \in 1..Len(calls)
    BY <1>0, <1>1 DEF LoopType
  <2> QED BY <2>1, <2>2 DEF Current
<1>4. response \in Nat \ {0}
  BY <1>1 DEF TellsInv
<1> HIDE DEF new
<1> QED BY <1>1, <1>3, <1>4 DEF Recalled

LEMMA RecallKept ==
  ASSUME LoopInv, RecallInv, [Next]_vars
  PROVE  RecallInv'
<1>1. TellsInv'
  BY TellsKept DEF RecallInv
<1>2. ASSUME NEW e \in Effects' PROVE Recalled(e)'
  BY RecalledLater, EffectIsRecalled DEF RecallInv
<1> QED BY <1>1, <1>2 DEF RecallInv

LEMMA RecallInvariant == Spec => []RecallInv
<1>1. Init => RecallInv
  BY InitRecall
<1>2. LoopInv /\ RecallInv /\ [Next]_vars => RecallInv'
  BY RecallKept
<1> QED BY <1>1, <1>2, LoopInvariant, PTL DEF Spec

\* When the provider is asked again the checkpoint tells of every effect so far, and at any
\* time of all but those of the current round.
THEOREM EffectsRemembered == Spec => []EffectsAreRemembered
<1>1. LoopInv /\ RecallInv => EffectsAreRemembered
  <2> SUFFICES ASSUME LoopInv, RecallInv, NEW k \in DOMAIN effects,
                      effects[k].response < response \/ pc \in {"request", "done"}
               PROVE  Remembered(durable, effects[k])
    BY DEF EffectsAreRemembered, Remembered
  <2>1. effects[k] \in Effects
    BY DEF LoopInv, LoopType, Effects
  <2> QED BY <2>1 DEF RecallInv, Recalled
<1> QED BY <1>1, LoopInvariant, RecallInvariant, PTL
-----------------------------------------------------------------------------
(* The summary                                                             *)

AnyEvent ==
  [type : {"usage", "requested", "decided", "executing", "result", "completed", "error"},
   response : Nat, id : Ids \cup {NoId},
   status : {"ok", "error", "denied", "allowed", "disabled", "completed"}]

RequestEvents == {e \in AnyEvent : e.type = "requested"}
ResultEvents == {e \in AnyEvent : e.type = "result"}
DecidedAs(disposition) == {e \in AnyEvent : e.type = "decided" /\ e.status = disposition}
AllowedEvents == DecidedAs("allowed")
DecidedEvents == AllowedEvents \cup (DecidedAs("denied") \cup DecidedAs("disabled"))
ErrorResults == {e \in ResultEvents : e.status = "error"}
DeniedResults == {e \in ResultEvents : e.status = "denied"}
FineResults == {e \in ResultEvents : e.status \notin {"error", "denied"}}
Answering == {m \in AnyMessage : m.role = "tool"}

\* As long as the run goes on every requested call has its result event, but for those of the
\* round that are still to be executed; every result event has its message, but for
\* those that have not joined the conversation; every allowed decision has its record.
CountInv ==
  /\ events \in Seq(AnyEvent)
  /\ pc \notin {"failed", "stopped"} =>
       /\ Len(Only(events, RequestEvents)) =
            Len(Only(events, ResultEvents)) + Len(calls) - Len(results)
       /\ Len(Only(Own(messages), Answering)) = Len(Only(events, ResultEvents)) - Len(results)
       /\ Len(Only(events, AllowedEvents)) = Len(Only(records, Allowed))
  /\ pc = "done" => durable = messages /\ calls = <<>> /\ results = <<>>

LEMMA InitCount == ASSUME Init PROVE CountInv
<1>1. events = <<>> /\ calls = <<>> /\ results = <<>> /\ records = <<>> /\ pc = "start"
  BY DEF Init
<1>2. HasPrompt(messages) /\ Own(messages) = <<>>
  BY InitOwn
<1>3. /\ Len(Only(events, RequestEvents)) = 0 /\ Len(Only(events, ResultEvents)) = 0
      /\ Len(Only(events, AllowedEvents)) = 0 /\ Len(Only(records, Allowed)) = 0
      /\ Len(Only(Own(messages), Answering)) = 0
  BY <1>1, <1>2, OnlyEmpty
<1> QED BY <1>1, <1>3 DEF CountInv

\* Events that are added are counted with those before.
Adds(more, requests, outcomes, allowances) ==
  /\ more \in Seq(AnyEvent)
  /\ Len(Only(more, RequestEvents)) = requests
  /\ Len(Only(more, ResultEvents)) = outcomes
  /\ Len(Only(more, AllowedEvents)) = allowances

LEMMA EventsAdd ==
  ASSUME events \in Seq(AnyEvent), NEW more, NEW q \in Nat, NEW r \in Nat, NEW a \in Nat,
         Adds(more, q, r, a), events' = events \o more
  PROVE  /\ events' \in Seq(AnyEvent)
         /\ Len(Only(events', RequestEvents)) = Len(Only(events, RequestEvents)) + q
         /\ Len(Only(events', ResultEvents)) = Len(Only(events, ResultEvents)) + r
         /\ Len(Only(events', AllowedEvents)) = Len(Only(events, AllowedEvents)) + a
<1>1. more \in Seq(AnyEvent)
  BY DEF Adds
<1>2. /\ Len(Only(events \o more, RequestEvents))
           = Len(Only(events, RequestEvents)) + Len(Only(more, RequestEvents))
      /\ Len(Only(events \o more, ResultEvents))
           = Len(Only(events, ResultEvents)) + Len(Only(more, ResultEvents))
      /\ Len(Only(events \o more, AllowedEvents))
           = Len(Only(events, AllowedEvents)) + Len(Only(more, AllowedEvents))
  BY <1>1, CountConcat
<1>3. events \o more \in Seq(AnyEvent)
  BY <1>1
<1> QED BY <1>2, <1>3 DEF Adds

LEMMA CountTypes ==
  ASSUME events \in Seq(AnyEvent)
  PROVE  /\ Len(Only(events, RequestEvents)) \in Nat
         /\ Len(Only(events, ResultEvents)) \in Nat
         /\ Len(Only(events, AllowedEvents)) \in Nat
<1>1. <<>> \in Seq(AnyEvent)
  OBVIOUS
<1> QED BY <1>1, CountConcat

LEMMA OneEvent ==
  ASSUME NEW e \in AnyEvent
  PROVE  Adds(<<e>>, IF e \in RequestEvents THEN 1 ELSE 0, IF e \in ResultEvents THEN 1 ELSE 0,
              IF e \in AllowedEvents THEN 1 ELSE 0)
<1>1. <<e>> \in Seq(AnyEvent)
  OBVIOUS
<1>2. /\ Len(Only(<<e>>, RequestEvents)) = IF e \in RequestEvents THEN 1 ELSE 0
      /\ Len(Only(<<e>>, ResultEvents)) = IF e \in ResultEvents THEN 1 ELSE 0
      /\ Len(Only(<<e>>, AllowedEvents)) = IF e \in AllowedEvents THEN 1 ELSE 0
  BY CountOne
<1> QED BY <1>1, <1>2 DEF Adds

LEMMA EventTypes ==
  ASSUME LoopType
  PROVE  /\ \A id \in Ids \cup {NoId}, status \in {"ok", "error", "denied", "allowed", "disabled"} :
              /\ Event("requested", id, status) \in RequestEvents
              /\ Event("result", id, status) \in ResultEvents
              /\ Event("decided", id, status) \in AnyEvent
              /\ Event("decided", id, status) \in AllowedEvents <=> status = "allowed"
              /\ status \in {"allowed", "denied", "disabled"} =>
                   Event("decided", id, status) \in DecidedEvents
              /\ Event("result", id, status) \in DeniedResults <=> status = "denied"
              /\ Event("result", id, status) \in FineResults <=> status \notin {"error", "denied"}
              /\ Event("executing", id, status) \in AnyEvent
              /\ Event("executing", id, status).type = "executing"
              /\ Event("decided", id, status).type = "decided"
         /\ Event("error", NoId, "error") \in AnyEvent
         /\ Event("completed", NoId, "error") \in AnyEvent
         /\ Event("completed", NoId, "completed") \in AnyEvent
         /\ Event("completed", NoId, "completed").type = "completed"
         /\ [Event("usage", NoId, "ok") EXCEPT !.response = response + 1] \in AnyEvent
         /\ [Event("usage", NoId, "ok") EXCEPT !.response = response + 1].type = "usage"
<1>1. response \in Nat /\ response + 1 \in Nat /\ NoId \in Ids \cup {NoId}
  BY LimitAssumption DEF LoopType
<1>2. ASSUME NEW id \in Ids \cup {NoId},
             NEW status \in {"ok", "error", "denied", "allowed", "disabled"}
      PROVE  /\ Event("requested", id, status) \in RequestEvents
             /\ Event("result", id, status) \in ResultEvents
             /\ Event("decided", id, status) \in AnyEvent
             /\ Event("decided", id, status) \in AllowedEvents <=> status = "allowed"
             /\ status \in {"allowed", "denied", "disabled"} =>
                  Event("decided", id, status) \in DecidedEvents
             /\ Event("result", id, status) \in DeniedResults <=> status = "denied"
             /\ Event("result", id, status) \in FineResults <=> status \notin {"error", "denied"}
             /\ Event("executing", id, status) \in AnyEvent
             /\ Event("executing", id, status).type = "executing"
             /\ Event("decided", id, status).type = "decided"
  BY <1>1 DEF Event, AnyEvent, RequestEvents, ResultEvents, DecidedAs, AllowedEvents, DecidedEvents,
              DeniedResults, FineResults
<1>3. /\ Event("error", NoId, "error") \in AnyEvent
      /\ Event("completed", NoId, "error") \in AnyEvent
      /\ Event("completed", NoId, "completed") \in AnyEvent
      /\ Event("completed", NoId, "completed").type = "completed"
  BY <1>1 DEF Event, AnyEvent
<1>4. /\ [Event("usage", NoId, "ok") EXCEPT !.response = response + 1] \in AnyEvent
      /\ [Event("usage", NoId, "ok") EXCEPT !.response = response + 1].type = "usage"
  BY <1>1 DEF Event, AnyEvent
<1> QED BY <1>2, <1>3, <1>4

\* The answers of a round are counted when it joins the conversation, the last answer is none.
LEMMA OwnCount ==
  ASSUME NEW h, HasPrompt(h), NEW more \in Seq(NoPrompt)
  PROVE  /\ HasPrompt(h \o more) /\ Len(Only(Own(h), Answering)) \in Nat
         /\ Len(Only(Own(h \o more), Answering))
              = Len(Only(Own(h), Answering)) + Len(Only(more, Answering))
<1>1. HasPrompt(h \o more) /\ Own(h) \in Seq(AnyMessage) /\ Own(h \o more) = Own(h) \o more
  BY OwnConcat
<1>2. more \in Seq(AnyMessage)
  BY DEF NoPrompt
<1> QED BY <1>1, <1>2, CountConcat

LEMMA RoundCounts ==
  ASSUME LoopType, HasPrompt(messages)
  PROVE  Len(Only(Own(Append(messages, Request(calls)) \o results), Answering))
           = Len(Only(Own(messages), Answering)) + Len(results)
<1>1. messages \in Seq(AnyMessage) /\ calls \in Seq(Call) /\ results \in Seq(ToolMessage)
  BY DEF HasPrompt, LoopType
<1>2. Request(calls) \in AnyMessage /\ Request(calls).role = "assistant"
  BY <1>1, RequestIsMessage
<1>3. <<Request(calls)>> \in Seq(NoPrompt) /\ Request(calls) \notin Answering
  BY <1>2 DEF NoPrompt, Answering
<1>4. Len(Only(<<Request(calls)>>, Answering)) = 0
  BY <1>3, CountOne
<1>5. PICK first : first = messages \o <<Request(calls)>>
  OBVIOUS
<1>6. HasPrompt(first) /\ Len(Only(Own(first), Answering)) = Len(Only(Own(messages), Answering))
  <2>1. /\ HasPrompt(messages \o <<Request(calls)>>) /\ Len(Only(Own(messages), Answering)) \in Nat
        /\ Len(Only(Own(messages \o <<Request(calls)>>), Answering))
             = Len(Only(Own(messages), Answering)) + Len(Only(<<Request(calls)>>, Answering))
    BY <1>3, OwnCount
  <2> QED BY <1>4, <1>5, <2>1
<1>7. results \in Seq(NoPrompt) /\ Only(results, Answering) = results
  <2>1. ToolMessage \subseteq NoPrompt /\ ToolMessage \subseteq Answering
    BY MessageTypes DEF NoPrompt, Answering
  <2>2. results \in Seq(NoPrompt)
    BY <1>1, <2>1
  <2> QED BY <1>1, <2>1, <2>2, OnlyAll
<1>8. Len(Only(Own(first \o results), Answering)) = Len(Only(Own(first), Answering)) + Len(results)
  BY <1>6, <1>7, OwnCount
<1>9. first = Append(messages, Request(calls))
  BY <1>1, <1>2, <1>5
<1> QED BY <1>6, <1>8, <1>9

LEMMA AnswerCounts ==
  ASSUME HasPrompt(messages)
  PROVE  Len(Only(Own(Append(messages, Answer)), Answering)) = Len(Only(Own(messages), Answering))
<1>1. /\ messages \in Seq(AnyMessage) /\ Answer \in AnyMessage /\ Answer.role = "assistant"
  BY MessageTypes DEF HasPrompt
<1>2. <<Answer>> \in Seq(NoPrompt) /\ Answer \notin Answering
  BY <1>1 DEF NoPrompt, Answering
<1>3. Len(Only(<<Answer>>, Answering)) = 0
  BY <1>2, CountOne
<1>4. Len(Only(Own(messages \o <<Answer>>), Answering)) = Len(Only(Own(messages), Answering))
  <2>1. /\ Len(Only(Own(messages), Answering)) \in Nat
        /\ Len(Only(Own(messages \o <<Answer>>), Answering))
             = Len(Only(Own(messages), Answering)) + Len(Only(<<Answer>>, Answering))
    BY <1>2, OwnCount
  <2> QED BY <1>3, <2>1
<1>5. messages \o <<Answer>> = Append(messages, Answer)
  BY <1>1
<1> QED BY <1>4, <1>5
\* What the authorisation of a batch emits: an allowed decision for each allowed record.
LEMMA DecidedCounts ==
  ASSUME LoopInv, Authorized
  PROVE  \E more, added :
           /\ events' = events \o more /\ records' = records \o added /\ added \in Seq(Outcome)
           /\ Adds(more, 0, 0, Len(Only(added, Allowed)))
           /\ Len(Only(more, DecidedEvents)) = Len(added) /\ Len(added) = Len(Requests)
<1> DEFINE n == Len(Requests)
           Recorded(i) == [response |-> response, id |-> Requests[i].id, tool |-> Requests[i].tool,
                           disposition |-> Disposition(ApplyPolicy(i))]
           Decided(i) ==
             <<Event("decided", Requests[i].id, Recorded(i).disposition)>>
               \o (IF Recorded(i).disposition = "allowed"
                   THEN <<Event("executing", Requests[i].id, "ok")>> ELSE <<>>)
           seqs == [i \in 1..n |-> Decided(i)]
           added == [i \in 1..n |-> Recorded(i)]
<1>1. events' = events \o FlattenSeq(seqs) /\ records' = records \o added
  BY DEF Authorized
<1>2. /\ LoopType /\ AnswersInv /\ pc = "authorize" /\ Len(answers) = Len(Pending)
      /\ response \in Nat
  BY LimitAssumption DEF LoopInv, LoopType, Authorized
<1>3. Requests \in Seq(Prepared) /\ n \in Nat
      /\ \A call \in Prepared : call.tool \in Tools /\ call.id \in Ids
  BY <1>2, RequestsType DEF LoopType
<1>4. ASSUME NEW i \in 1..n
      PROVE  /\ Recorded(i) \in Outcome
             /\ Recorded(i).disposition \in {"allowed", "denied", "disabled"}
             /\ Recorded(i) \in Allowed <=> Recorded(i).disposition = "allowed"
             /\ Requests[i].id \in Ids
  <2>1. Requests[i].tool \in Tools /\ Requests[i].id \in Ids
    BY <1>3
  <2>2. Disposition(ApplyPolicy(i)) \in {"allowed", "denied", "disabled"}
    BY <1>2, PolicyType DEF Disposition, Decisions
  <2>3. Recorded(i) \in Outcome
    BY <1>2, <2>1, <2>2 DEF Outcome
  <2>4. Recorded(i).disposition = Disposition(ApplyPolicy(i))
    OBVIOUS
  <2> HIDE DEF Recorded
  <2> QED BY <2>1, <2>2, <2>3, <2>4 DEF Allowed
<1>5. ASSUME NEW i \in 1..n
      PROVE  /\ Decided(i) \in Seq(AnyEvent)
             /\ Len(Only(Decided(i), RequestEvents)) = 0 /\ Len(Only(Decided(i), ResultEvents)) = 0
             /\ Len(Only(Decided(i), AllowedEvents)) = IF Recorded(i) \in Allowed THEN 1 ELSE 0
             /\ Len(Only(Decided(i), DecidedEvents)) = IF Recorded(i) \in Outcome THEN 1 ELSE 0
  <2>1. PICK d, x, disposition :
          /\ d = Event("decided", Requests[i].id, Recorded(i).disposition)
          /\ x = Event("executing", Requests[i].id, "ok") /\ disposition = Recorded(i).disposition
    OBVIOUS
  <2>2. /\ d \in AnyEvent /\ d \notin RequestEvents /\ d \notin ResultEvents
        /\ d \in AllowedEvents <=> disposition = "allowed"
        /\ d \in DecidedEvents
    <3>1. /\ d \in AnyEvent /\ d.type = "decided" /\ (d \in AllowedEvents <=> disposition = "allowed")
          /\ d \in DecidedEvents
      <4>1. PICK id : id = Requests[i].id /\ id \in Ids \cup {NoId}
        BY <1>4
      <4>2. disposition \in {"ok", "error", "denied", "allowed", "disabled"}
        BY <1>4, <2>1
      <4>3. d = Event("decided", id, disposition)
        BY <2>1, <4>1
      <4>4. /\ Event("decided", id, disposition) \in AnyEvent
            /\ Event("decided", id, disposition).type = "decided"
            /\ Event("decided", id, disposition) \in AllowedEvents <=> disposition = "allowed"
            /\ disposition \in {"allowed", "denied", "disabled"} =>
                 Event("decided", id, disposition) \in DecidedEvents
        BY <1>2, <4>1, <4>2, EventTypes
      <4>5. disposition \in {"allowed", "denied", "disabled"}
        BY <1>4, <2>1
      <4> QED BY <4>3, <4>4, <4>5
    <3> QED BY <3>1 DEF RequestEvents, ResultEvents
  <2>3. /\ x \in AnyEvent /\ x \notin RequestEvents /\ x \notin ResultEvents /\ x \notin AllowedEvents
        /\ x \notin DecidedEvents
    <3>1. x \in AnyEvent /\ x.type = "executing"
      BY <1>2, <1>4, <2>1, EventTypes
    <3> QED BY <3>1 DEF RequestEvents, ResultEvents, AllowedEvents, DecidedEvents, DecidedAs
  <2>4. Decided(i) = <<d>> \o (IF disposition = "allowed" THEN <<x>> ELSE <<>>)
    BY <2>1
  <2>5. /\ <<d>> \in Seq(AnyEvent) /\ <<x>> \in Seq(AnyEvent)
    BY <2>2, <2>3
  <2>6. /\ Len(Only(<<d>>, RequestEvents)) = 0 /\ Len(Only(<<d>>, ResultEvents)) = 0
        /\ Len(Only(<<d>>, AllowedEvents)) = IF disposition = "allowed" THEN 1 ELSE 0
        /\ Len(Only(<<x>>, RequestEvents)) = 0 /\ Len(Only(<<x>>, ResultEvents)) = 0
        /\ Len(Only(<<x>>, AllowedEvents)) = 0
        /\ Len(Only(<<d>>, DecidedEvents)) = 1 /\ Len(Only(<<x>>, DecidedEvents)) = 0
    BY <2>2, <2>3, CountOne
  <2>7. (Recorded(i) \in Allowed <=> disposition = "allowed") /\ Recorded(i) \in Outcome
    BY <1>4, <2>1
  <2>8. CASE disposition = "allowed"
    <3>1. Decided(i) = <<d>> \o <<x>> /\ <<d>> \o <<x>> \in Seq(AnyEvent)
      BY <2>4, <2>5, <2>8
    <3>2. /\ Len(Only(<<d>> \o <<x>>, RequestEvents)) = 0
          /\ Len(Only(<<d>> \o <<x>>, ResultEvents)) = 0
          /\ Len(Only(<<d>> \o <<x>>, AllowedEvents)) = 1
          /\ Len(Only(<<d>> \o <<x>>, DecidedEvents)) = 1
      <4>1. /\ Len(Only(<<d>> \o <<x>>, RequestEvents))
                 = Len(Only(<<d>>, RequestEvents)) + Len(Only(<<x>>, RequestEvents))
            /\ Len(Only(<<d>> \o <<x>>, ResultEvents))
                 = Len(Only(<<d>>, ResultEvents)) + Len(Only(<<x>>, ResultEvents))
            /\ Len(Only(<<d>> \o <<x>>, AllowedEvents))
                 = Len(Only(<<d>>, AllowedEvents)) + Len(Only(<<x>>, AllowedEvents))
            /\ Len(Only(<<d>> \o <<x>>, DecidedEvents))
                 = Len(Only(<<d>>, DecidedEvents)) + Len(Only(<<x>>, DecidedEvents))
        BY <2>5, CountConcat
      <4> QED BY <2>6, <2>8, <4>1
    <3> HIDE DEF Decided, Recorded
    <3> QED BY <2>7, <2>8, <3>1, <3>2
  <2>9. CASE disposition # "allowed"
    <3>1. Decided(i) = <<d>>
      <4>1. Decided(i) = <<d>> \o <<>>
        BY <2>4, <2>9
      <4>2. <<d>> \o <<>> = <<d>>
        OBVIOUS
      <4> QED BY <4>1, <4>2
    <3> HIDE DEF Decided, Recorded
    <3> QED BY <2>5, <2>6, <2>7, <2>9, <3>1
  <2> QED BY <2>8, <2>9
<1> HIDE DEF Recorded, Decided
<1>6. added \in Seq(Outcome) /\ Len(added) = n /\ \A i \in 1..n : added[i] = Recorded(i)
  BY <1>3, <1>4
<1>7. /\ Len(seqs) = n /\ DOMAIN seqs = 1..n /\ (n = 0 => seqs = <<>>)
      /\ \A i \in 1..n : seqs[i] = Decided(i)
  BY <1>3
<1> HIDE DEF added, seqs
<1>8. /\ Contributes(seqs, AnyEvent, AllowedEvents, added, Allowed)
      /\ Contributes(seqs, AnyEvent, DecidedEvents, added, Outcome)
  BY <1>5, <1>6, <1>7 DEF Contributes
<1>9. PICK none : none = {}
  OBVIOUS
<1>10. Contributes(seqs, AnyEvent, RequestEvents, added, none)
      /\ Contributes(seqs, AnyEvent, ResultEvents, added, none)
  BY <1>5, <1>6, <1>7, <1>9 DEF Contributes
<1>11. Only(added, none) = <<>>
  BY <1>6, <1>9, OnlyNone
<1>12. /\ FlattenSeq(seqs) \in Seq(AnyEvent)
       /\ Len(Only(FlattenSeq(seqs), AllowedEvents)) = Len(Only(added, Allowed))
       /\ Len(Only(FlattenSeq(seqs), RequestEvents)) = Len(Only(added, none))
       /\ Len(Only(FlattenSeq(seqs), ResultEvents)) = Len(Only(added, none))
  <2>1. added \in Seq(Outcome)
    BY <1>6
  <2>2. /\ FlattenSeq(seqs) \in Seq(AnyEvent)
        /\ Len(Only(FlattenSeq(seqs), AllowedEvents)) = Len(Only(added, Allowed))
    BY <1>8, <2>1, CountFlatten
  <2>3. Len(Only(FlattenSeq(seqs), RequestEvents)) = Len(Only(added, none))
    <3>1. Contributes(seqs, AnyEvent, RequestEvents, added, none)
      BY <1>10
    <3>2. /\ FlattenSeq(seqs) \in Seq(AnyEvent)
          /\ Len(Only(FlattenSeq(seqs), RequestEvents)) = Len(Only(added, none))
      BY <2>1, <3>1, CountFlatten
    <3> QED BY <3>2
  <2>4. Len(Only(FlattenSeq(seqs), ResultEvents)) = Len(Only(added, none))
    <3>1. Contributes(seqs, AnyEvent, ResultEvents, added, none)
      BY <1>10
    <3>2. /\ FlattenSeq(seqs) \in Seq(AnyEvent)
          /\ Len(Only(FlattenSeq(seqs), ResultEvents)) = Len(Only(added, none))
      BY <2>1, <3>1, CountFlatten
    <3> QED BY <3>2
  <2> QED BY <2>2, <2>3, <2>4
<1>13. Adds(FlattenSeq(seqs), 0, 0, Len(Only(added, Allowed)))
  BY <1>11, <1>12 DEF Adds
<1>14. Len(Only(FlattenSeq(seqs), DecidedEvents)) = Len(added)
  <2>1. added \in Seq(Outcome) /\ Only(added, Outcome) = added
    BY <1>6, OnlyAll
  <2>2. Len(Only(FlattenSeq(seqs), DecidedEvents)) = Len(Only(added, Outcome))
    <3>1. Contributes(seqs, AnyEvent, DecidedEvents, added, Outcome)
      BY <1>8
    <3>2. /\ FlattenSeq(seqs) \in Seq(AnyEvent)
          /\ Len(Only(FlattenSeq(seqs), DecidedEvents)) = Len(Only(added, Outcome))
      BY <2>1, <3>1, CountFlatten
    <3> QED BY <3>2
  <2> QED BY <2>1, <2>2
<1> QED BY <1>1, <1>6, <1>13, <1>14

\* The last line of the step that ends in a failure or a stop: only the type is left to show.
LEMMA CountEnds ==
  ASSUME CountInv, events' \in Seq(AnyEvent), pc' \in {"failed", "stopped"}
  PROVE  CountInv'
BY DEF CountInv

LEMMA CountKept ==
  ASSUME LoopInv, TellsInv, CountInv, [Next]_vars
  PROVE  CountInv'
<1>0. /\ LoopType /\ RoundInv /\ HasPrompt(messages) /\ events \in Seq(AnyEvent)
      /\ Len(Only(events, RequestEvents)) \in Nat /\ Len(Only(events, ResultEvents)) \in Nat
      /\ Len(Only(events, AllowedEvents)) \in Nat
  BY CountTypes DEF LoopInv, TellsInv, CountInv
<1>1. Len(calls) \in Nat /\ Len(results) \in Nat /\ Len(results) <= Len(calls)
      /\ calls \in Seq(Call) /\ results \in Seq(ToolMessage)
  BY <1>0 DEF LoopType
<1>2. ASSUME pc \notin {"failed", "stopped"}
      PROVE  /\ Len(Only(events, RequestEvents)) =
                  Len(Only(events, ResultEvents)) + Len(calls) - Len(results)
             /\ Len(Only(Own(messages), Answering)) = Len(Only(events, ResultEvents)) - Len(results)
             /\ Len(Only(events, AllowedEvents)) = Len(Only(records, Allowed))
  BY <1>2 DEF CountInv
<1>3. CASE UNCHANGED <<pc, messages, calls, results, records, events, durable>>
  BY <1>3 DEF CountInv
<1>4. CASE /\ UNCHANGED <<messages, calls, results, records, events>>
           /\ \/ pc \in {"start", "update"} /\ pc' = "request"
              \/ pc = "final" /\ pc' = "done" /\ durable' = messages
  <2>1. pc = "final" => calls = <<>> /\ results = <<>>
    BY <1>0 DEF RoundInv, Ended
  <2> QED BY <1>4, <2>1 DEF CountInv
<1>5. CASE pc' \in {"failed", "stopped"} /\ events' = events
  BY <1>0, <1>5, CountEnds
<1>6. CASE Fail
  <2>1. PICK a, b : /\ a = Event("error", NoId, "error") /\ b = Event("completed", NoId, "error")
                    /\ a \in AnyEvent /\ b \in AnyEvent
    BY <1>0, EventTypes
  <2>2. pc' = "failed" /\ events' = events \o <<a, b>>
    BY <1>6, <2>1 DEF Fail
  <2>3. events' \in Seq(AnyEvent)
    BY <1>0, <2>1, <2>2
  <2> QED BY <2>2, <2>3, CountEnds
<1>7. CASE Receive
  <2>1. PICK e : e = [Event("usage", NoId, "ok") EXCEPT !.response = response + 1]
                 /\ e \in AnyEvent /\ e.type = "usage"
    BY <1>0, EventTypes
  <2>2. /\ pc = "request" /\ pc' = "received" /\ events' = Append(events, e)
        /\ UNCHANGED <<messages, calls, results, records>>
    BY <1>7, <2>1 DEF Receive, round, session
  <2>3. Adds(<<e>>, 0, 0, 0)
    BY <2>1, OneEvent DEF RequestEvents, ResultEvents, AllowedEvents, DecidedAs
  <2>4. events' = events \o <<e>>
    <3>1. events' = Append(events, e) /\ e \in AnyEvent /\ events \in Seq(AnyEvent)
      BY <1>0, <2>1, <2>2
    <3> QED BY <3>1
  <2>5. /\ events' \in Seq(AnyEvent)
        /\ Len(Only(events', RequestEvents)) = Len(Only(events, RequestEvents)) + 0
        /\ Len(Only(events', ResultEvents)) = Len(Only(events, ResultEvents)) + 0
        /\ Len(Only(events', AllowedEvents)) = Len(Only(events, AllowedEvents)) + 0
    BY <1>0, <2>3, <2>4, EventsAdd
  <2> QED BY <1>0, <1>1, <1>2, <2>2, <2>5 DEF CountInv
<1>8. CASE FinalAnswer
  <2>1. PICK e : e = Event("completed", NoId, "completed") /\ e \in AnyEvent /\ e.type = "completed"
    BY <1>0, EventTypes
  <2>2. /\ pc = "received" /\ pc' = "final" /\ events' = Append(events, e)
        /\ messages' = Append(messages, Answer) /\ UNCHANGED <<calls, results, records>>
    BY <1>8, <2>1 DEF FinalAnswer, round, session
  <2>3. Adds(<<e>>, 0, 0, 0)
    BY <2>1, OneEvent DEF RequestEvents, ResultEvents, AllowedEvents, DecidedAs
  <2>4. events' = events \o <<e>>
    BY <1>0, <2>1, <2>2
  <2>5. /\ events' \in Seq(AnyEvent)
        /\ Len(Only(events', RequestEvents)) = Len(Only(events, RequestEvents)) + 0
        /\ Len(Only(events', ResultEvents)) = Len(Only(events, ResultEvents)) + 0
        /\ Len(Only(events', AllowedEvents)) = Len(Only(events, AllowedEvents)) + 0
    BY <1>0, <2>3, <2>4, EventsAdd
  <2>6. Len(Only(Own(messages'), Answering)) = Len(Only(Own(messages), Answering))
    BY <1>0, <2>2, AnswerCounts
  <2> QED BY <1>0, <1>1, <1>2, <2>2, <2>5, <2>6 DEF CountInv
<1>9. CASE ToolRound
  <2>1. pc = "received" /\ pc' = "authorize" /\ UNCHANGED <<messages, results, records>>
        /\ calls = <<>> /\ results = <<>>
    BY <1>0, <1>9 DEF ToolRound, RoundInv, Ended, session
  <2>10. PICK n \in 1..MaxCalls :
           \E batch \in [1..n -> Call] :
             /\ calls' = batch
             /\ events' = events \o [i \in 1..n |-> Event("requested", batch[i].id, "ok")]
    BY <1>9 DEF ToolRound
  <2>2. PICK batch \in [1..n -> Call] :
          calls' = batch /\ events' = events \o [i \in 1..n |-> Event("requested", batch[i].id, "ok")]
    BY <2>10
  <2>3. n \in Nat /\ Len(calls') = n
    BY <2>2, LimitAssumption
  <2>4. PICK more : more = [i \in 1..n |-> Event("requested", batch[i].id, "ok")]
    OBVIOUS
  <2>5. more \in Seq(RequestEvents) /\ Len(more) = n
    <3>1. ASSUME NEW i \in 1..n PROVE Event("requested", batch[i].id, "ok") \in RequestEvents
      <4>1. batch[i].id \in Ids
        BY DEF Ids
      <4> QED BY <1>0, <4>1, EventTypes
    <3> QED BY <2>3, <2>4, <3>1
  <2>6. /\ Only(more, RequestEvents) = more /\ Only(more, ResultEvents) = <<>>
        /\ Only(more, AllowedEvents) = <<>>
    <3>1. RequestEvents \cap ResultEvents = {} /\ RequestEvents \cap AllowedEvents = {}
      BY DEF RequestEvents, ResultEvents, AllowedEvents, DecidedAs
    <3> QED BY <2>5, <3>1, OnlyAll, OnlyNone
  <2>7. Adds(more, n, 0, 0)
    <3>1. more \in Seq(AnyEvent)
      BY <2>5 DEF RequestEvents
    <3> QED BY <2>5, <2>6, <3>1 DEF Adds
  <2>8. /\ events' \in Seq(AnyEvent)
        /\ Len(Only(events', RequestEvents)) = Len(Only(events, RequestEvents)) + n
        /\ Len(Only(events', ResultEvents)) = Len(Only(events, ResultEvents)) + 0
        /\ Len(Only(events', AllowedEvents)) = Len(Only(events, AllowedEvents)) + 0
    <3>1. events' = events \o more /\ n \in Nat /\ events \in Seq(AnyEvent)
      BY <1>0, <2>2, <2>3, <2>4
    <3>2. PICK z : z = 0 /\ z \in Nat /\ Adds(more, n, z, z)
      BY <2>7
    <3>3. /\ events' \in Seq(AnyEvent)
          /\ Len(Only(events', RequestEvents)) = Len(Only(events, RequestEvents)) + n
          /\ Len(Only(events', ResultEvents)) = Len(Only(events, ResultEvents)) + z
          /\ Len(Only(events', AllowedEvents)) = Len(Only(events, AllowedEvents)) + z
      BY <3>1, <3>2, EventsAdd
    <3> QED BY <3>2, <3>3
  <2>9. Len(calls) = 0 /\ Len(results) = 0
    BY <2>1
  <2>11. Len(results') = 0 /\ messages' = messages /\ records' = records
    BY <2>1
  <2>12. Len(Only(events', RequestEvents)) = Len(Only(events', ResultEvents)) + Len(calls') - Len(results')
    <3>1. Len(Only(events, RequestEvents)) = Len(Only(events, ResultEvents)) + 0 - 0
      BY <1>2, <2>1, <2>9
    <3>2. PICK q, b : /\ q = Len(Only(events, RequestEvents)) /\ q \in Nat
                      /\ b = Len(Only(events, ResultEvents)) /\ b \in Nat
      BY <1>0
    <3>3. q = b + 0 - 0 /\ Len(Only(events', RequestEvents)) = q + n
          /\ Len(Only(events', ResultEvents)) = b + 0
      BY <2>8, <3>1, <3>2
    <3> QED BY <2>3, <2>11, <3>2, <3>3
  <2>13. /\ Len(Only(Own(messages'), Answering)) = Len(Only(events', ResultEvents)) - Len(results')
         /\ Len(Only(events', AllowedEvents)) = Len(Only(records', Allowed))
    BY <1>0, <1>2, <2>1, <2>8, <2>9, <2>11
  <2> QED BY <2>1, <2>8, <2>12, <2>13 DEF CountInv
<1>10. CASE Authorized
  <2>1. pc = "authorize" /\ pc' = "execute" /\ UNCHANGED <<messages, calls, results>>
    BY <1>10 DEF Authorized
  <2>2. PICK more, added :
          /\ events' = events \o more /\ records' = records \o added /\ added \in Seq(Outcome)
          /\ Adds(more, 0, 0, Len(Only(added, Allowed)))
    BY <1>10, DecidedCounts
  <2>3. /\ Len(Only(records, Allowed)) \in Nat /\ Len(Only(added, Allowed)) \in Nat
        /\ Len(Only(records \o added, Allowed))
             = Len(Only(records, Allowed)) + Len(Only(added, Allowed))
    BY <1>0, <2>2, CountConcat DEF LoopType
  <2>4. /\ events' \in Seq(AnyEvent)
        /\ Len(Only(events', RequestEvents)) = Len(Only(events, RequestEvents)) + 0
        /\ Len(Only(events', ResultEvents)) = Len(Only(events, ResultEvents)) + 0
        /\ Len(Only(events', AllowedEvents))
             = Len(Only(events, AllowedEvents)) + Len(Only(added, Allowed))
    BY <1>0, <2>2, <2>3, EventsAdd
  <2>5. Len(Only(records', Allowed)) = Len(Only(records, Allowed)) + Len(Only(added, Allowed))
    BY <2>2, <2>3
  <2>6. Len(Only(events', AllowedEvents)) = Len(Only(records', Allowed))
    BY <1>2, <2>1, <2>4, <2>5
  <2>7. calls' = calls /\ results' = results /\ messages' = messages
    BY <2>1
  <2>8. /\ Len(Only(events', RequestEvents)) =
              Len(Only(events', ResultEvents)) + Len(calls') - Len(results')
        /\ Len(Only(Own(messages'), Answering)) = Len(Only(events', ResultEvents)) - Len(results')
    BY <1>0, <1>2, <2>1, <2>4, <2>7
  <2> QED BY <2>1, <2>4, <2>6, <2>8 DEF CountInv
<1>11. CASE ExecuteNext
  <2>1. pc = "execute" /\ pc' = "execute" /\ Len(results) < Len(calls)
        /\ UNCHANGED <<messages, calls, records>>
    BY <1>11 DEF ExecuteNext, session
  <2>2. PICK status, size : status \in {"ok", "error", "denied"} /\ Result(status, size)
    BY <1>11 DEF ExecuteNext
  <2>3. Current.id \in Ids
    <3>1. Current \in Call
      BY <1>0, <1>11, <2>1, CurrentCall DEF LoopInv
    <3> QED BY <3>1 DEF Ids
  <2>4. PICK e : e = Event("result", Current.id, status) /\ e \in ResultEvents
    BY <1>0, <2>2, <2>3, EventTypes
  <2>5. e \in AnyEvent /\ Adds(<<e>>, 0, 1, 0)
    BY <2>4, OneEvent DEF RequestEvents, ResultEvents, AllowedEvents, DecidedAs
  <2>6. events' = events \o <<e>>
    <3>1. events' = Append(events, e)
      BY <2>2, <2>4 DEF Result
    <3> QED BY <1>0, <2>5, <3>1
  <2>7. /\ events' \in Seq(AnyEvent)
        /\ Len(Only(events', RequestEvents)) = Len(Only(events, RequestEvents)) + 0
        /\ Len(Only(events', ResultEvents)) = Len(Only(events, ResultEvents)) + 1
        /\ Len(Only(events', AllowedEvents)) = Len(Only(events, AllowedEvents)) + 0
    BY <1>0, <2>5, <2>6, EventsAdd
  <2>8. Len(results') = Len(results) + 1
    <3>1. PICK m : results' = Append(results, m)
      BY <2>2 DEF Result
    <3> QED BY <1>1, <3>1
  <2>9. calls' = calls /\ messages' = messages /\ records' = records
    BY <2>1
  <2>10. PICK q, b, c, d : /\ q = Len(Only(events, RequestEvents)) /\ q \in Nat
                           /\ b = Len(Only(events, ResultEvents)) /\ b \in Nat
                           /\ c = Len(calls) /\ c \in Nat /\ d = Len(results) /\ d \in Nat
    BY <1>0, <1>1
  <2>11. q = b + c - d /\ Len(Only(Own(messages), Answering)) = b - d
         /\ Len(Only(events, AllowedEvents)) = Len(Only(records, Allowed))
    BY <1>2, <2>1, <2>10
  <2>12. /\ Len(Only(events', RequestEvents)) = q + 0 /\ Len(Only(events', ResultEvents)) = b + 1
         /\ Len(results') = d + 1 /\ Len(calls') = c
    BY <2>7, <2>8, <2>9, <2>10
  <2>13. Len(Only(events', RequestEvents)) = Len(Only(events', ResultEvents)) + Len(calls') - Len(results')
    BY <2>10, <2>11, <2>12
  <2>14. Len(Only(Own(messages'), Answering)) = Len(Only(events', ResultEvents)) - Len(results')
    <3>1. Len(Only(Own(messages'), Answering)) = b - d
      BY <2>9, <2>11
    <3> QED BY <2>10, <2>12, <3>1
  <2>15. Len(Only(events', AllowedEvents)) = Len(Only(records', Allowed))
    <3>1. Len(Only(events', AllowedEvents)) = Len(Only(events, AllowedEvents))
      BY <1>0, <2>7
    <3> QED BY <2>9, <2>11, <3>1
  <2> QED BY <2>1, <2>7, <2>13, <2>14, <2>15 DEF CountInv
<1>12. CASE RoundDone
  <2>1. /\ messages' = Append(messages, Request(calls)) \o results
        /\ pc = "execute" /\ pc' = "update" /\ Len(results) = Len(calls)
        /\ calls' = <<>> /\ results' = <<>> /\ UNCHANGED <<events, records>>
    BY <1>12 DEF RoundDone, Record, session
  <2>2. Len(Only(Own(messages'), Answering)) = Len(Only(Own(messages), Answering)) + Len(results)
    BY <1>0, <2>1, RoundCounts
  <2>3. Len(calls') = 0 /\ Len(results') = 0
    BY <2>1
  <2> QED BY <1>0, <1>1, <1>2, <2>1, <2>2, <2>3 DEF CountInv
<1>13. CASE Start \/ Finish \/ Update
  <2>1. \/ pc' = "failed" /\ events' = events
        \/ Fail
        \/ /\ UNCHANGED <<messages, calls, results, records, events>>
           /\ \/ pc \in {"start", "update"} /\ pc' = "request"
              \/ pc = "final" /\ pc' = "done" /\ durable' = messages
    BY <1>13 DEF Start, Finish, Update, Checkpointed, round, session
  <2> QED BY <1>4, <1>5, <1>6, <2>1
<1>14. CASE RequestFails \/ ResponseFails \/ RoundFails \/ Interrupt
  BY <1>5, <1>6, <1>14 DEF RequestFails, ResponseFails, RoundFails, Interrupt
<1>15. CASE Ask \/ AnswerByPolicy \/ UNCHANGED vars
  BY <1>3, <1>15 DEF Ask, AnswerByPolicy, vars, round, session
<1> QED BY <1>7, <1>8, <1>9, <1>10, <1>11, <1>12, <1>13, <1>14, <1>15 DEF Next, Step

-----------------------------------------------------------------------------
(* Refusals and their results                                              *)

\* Elements of two sets without a common one are counted apart.
LEMMA CountSplit ==
  ASSUME NEW T, NEW seq \in Seq(T), NEW A, NEW B, A \cap B = {}
  PROVE  /\ Len(Only(seq, A)) \in Nat /\ Len(Only(seq, B)) \in Nat
         /\ Len(Only(seq, A \cup B)) = Len(Only(seq, A)) + Len(Only(seq, B))
<1> DEFINE U == A \cup B
           M == {n \in Nat : n <= Len(seq) =>
                   Len(Upto(seq, U, n)) = Len(Upto(seq, A, n)) + Len(Upto(seq, B, n))}
<1>1. 0 \in M
  <2>1. Len(Upto(seq, U, 0)) = 0 /\ Len(Upto(seq, A, 0)) = 0 /\ Len(Upto(seq, B, 0)) = 0
    BY UptoCounts
  <2> QED BY <2>1
<1>2. ASSUME NEW n \in M PROVE n + 1 \in M
  <2> SUFFICES ASSUME n + 1 <= Len(seq)
               PROVE  Len(Upto(seq, U, n + 1)) = Len(Upto(seq, A, n + 1)) + Len(Upto(seq, B, n + 1))
    OBVIOUS
  <2>1. PICK k : k = n + 1 /\ k \in 1..Len(seq) /\ k - 1 = n
    OBVIOUS
  <2>2. \A S \in {U, A, B} :
          /\ Len(Upto(seq, S, k - 1)) \in Nat
          /\ Len(Upto(seq, S, k)) = Len(Upto(seq, S, k - 1)) + (IF seq[k] \in S THEN 1 ELSE 0)
    BY <2>1, UptoCounts
  <2>3. Len(Upto(seq, U, n)) = Len(Upto(seq, A, n)) + Len(Upto(seq, B, n))
    OBVIOUS
  <2>4. ~(seq[k] \in A /\ seq[k] \in B)
    OBVIOUS
  <2> QED BY <2>1, <2>2, <2>3, <2>4
<1>3. Len(seq) \in Nat /\ \A S \in {U, A, B} : Upto(seq, S, Len(seq)) = Only(seq, S)
  BY UptoNext
<1>4. Len(Only(seq, A)) \in Nat /\ Len(Only(seq, B)) \in Nat
  <2>1. <<>> \in Seq(T)
    OBVIOUS
  <2> QED BY <2>1, CountConcat
<1> HIDE DEF M
<1>5. M = Nat
  <2>1. M \in SUBSET Nat
    BY DEF M
  <2> QED BY <1>1, <1>2, <2>1, SetInduction
<1>6. Len(Upto(seq, U, Len(seq))) = Len(Upto(seq, A, Len(seq))) + Len(Upto(seq, B, Len(seq)))
  <2>1. Len(seq) \in M
    BY <1>3, <1>5
  <2> QED BY <1>3, <2>1 DEF M
<1> QED BY <1>3, <1>4, <1>6

\* and what is in a set is in a larger one.
LEMMA CountWithin ==
  ASSUME NEW T, NEW seq \in Seq(T), NEW A, NEW B, A \subseteq B
  PROVE  Len(Only(seq, A)) <= Len(Only(seq, B))
<1>1. PICK C : C = B \ A
  OBVIOUS
<1>2. A \cap C = {} /\ A \cup C = B
  BY <1>1
<1>3. /\ Len(Only(seq, A)) \in Nat /\ Len(Only(seq, C)) \in Nat
      /\ Len(Only(seq, A \cup C)) = Len(Only(seq, A)) + Len(Only(seq, C))
  BY <1>2, CountSplit
<1>4. PICK a, c : a = Len(Only(seq, A)) /\ c = Len(Only(seq, C)) /\ a \in Nat /\ c \in Nat
  BY <1>3
<1>5. Len(Only(seq, B)) = a + c
  BY <1>2, <1>3, <1>4
<1> QED BY <1>4, <1>5

\* Every record has its event; every decision that is drawn has become a denial or an effect, and
\* what is neither an error nor a denial is the result of an effect.
OutcomeInv ==
  pc \notin {"failed", "stopped"} =>
    /\ Len(Only(events, DecidedEvents)) = Len(records)
    /\ Len(Only(events, DeniedResults)) + Len(effects) = Len(records) - Len(decisions) + drawn
    /\ Len(Only(events, FineResults)) <= Len(effects)
    /\ pc = "done" => decisions = <<>> /\ drawn = 0

LEMMA InitOutcome == ASSUME Init PROVE OutcomeInv
<1>1. events = <<>> /\ records = <<>> /\ effects = <<>> /\ decisions = <<>> /\ drawn = 0
  BY DEF Init
<1>2. /\ Len(Only(events, DecidedEvents)) = 0 /\ Len(Only(events, DeniedResults)) = 0
      /\ Len(Only(events, FineResults)) = 0
  BY <1>1, OnlyEmpty
<1> QED BY <1>1, <1>2 DEF OutcomeInv

\* Events of no such kind count for nothing.
LEMMA OthersPass ==
  ASSUME OutcomeInv, events \in Seq(AnyEvent), NEW more \in Seq(AnyEvent), events' = events \o more,
         Only(more, DecidedEvents) = <<>>, Only(more, ResultEvents) = <<>>,
         pc \notin {"failed", "stopped"}, pc' # "done",
         UNCHANGED <<records, effects, decisions, drawn>>
  PROVE  OutcomeInv'
<1>1. DeniedResults \subseteq ResultEvents /\ FineResults \subseteq ResultEvents
  BY DEF DeniedResults, FineResults
<1>2. \A S : /\ Len(Only(events, S)) \in Nat /\ Len(Only(more, S)) \in Nat
             /\ Len(Only(events', S)) = Len(Only(events, S)) + Len(Only(more, S))
  BY CountConcat
<1>3. Len(Only(more, DeniedResults)) <= 0 /\ Len(Only(more, FineResults)) <= 0
  <2>1. Len(Only(more, ResultEvents)) = 0
    OBVIOUS
  <2> QED BY <1>1, <2>1, CountWithin
<1>4. Len(Only(more, DecidedEvents)) = 0
  OBVIOUS
<1>5. /\ Len(Only(events', DecidedEvents)) = Len(Only(events, DecidedEvents))
      /\ Len(Only(events', DeniedResults)) = Len(Only(events, DeniedResults))
      /\ Len(Only(events', FineResults)) = Len(Only(events, FineResults))
  BY <1>2, <1>3, <1>4
<1> QED BY <1>5 DEF OutcomeInv

LEMMA OnePasses ==
  ASSUME OutcomeInv, events \in Seq(AnyEvent), NEW e \in AnyEvent,
         events' = Append(events, e), e.type \notin {"decided", "result"},
         pc \notin {"failed", "stopped"}, pc' # "done",
         UNCHANGED <<records, effects, decisions, drawn>>
  PROVE  OutcomeInv'
<1>1. PICK T : T = {e}
  OBVIOUS
<1>2. T \cap DecidedEvents = {} /\ T \cap ResultEvents = {} /\ <<e>> \in Seq(T)
  BY <1>1 DEF DecidedEvents, AllowedEvents, DecidedAs, ResultEvents
<1>3. Only(<<e>>, DecidedEvents) = <<>> /\ Only(<<e>>, ResultEvents) = <<>>
  BY <1>2, OnlyNone
<1>4. events' = events \o <<e>> /\ <<e>> \in Seq(AnyEvent)
  OBVIOUS
<1> QED BY <1>3, <1>4, OthersPass

LEMMA ExecuteOutcome ==
  ASSUME LoopInv, OutcomeInv, events \in Seq(AnyEvent), ExecuteNext
  PROVE  OutcomeInv'
<1>0. LoopType /\ DrawnInv
  BY DEF LoopInv
<1>1. /\ pc = "execute" /\ pc' = pc /\ Len(results) < Len(calls)
      /\ UNCHANGED <<records, decisions>>
  BY DEF ExecuteNext, session
<1>2. Current \in Call /\ Current.id \in Ids
  <2>1. Current \in Call
    BY <1>0, <1>1, CurrentCall
  <2> QED BY <2>1 DEF Ids
<1>3. /\ Len(records) \in Nat /\ Len(decisions) \in Nat /\ drawn \in Nat /\ Len(effects) \in Nat
      /\ effects \in Seq(Effect)
  BY <1>0 DEF LoopType
<1>4. ASSUME NEW status \in {"ok", "error", "denied"}, NEW size, Result(status, size)
      PROVE  /\ Len(Only(events, DecidedEvents)) \in Nat /\ Len(Only(events, DeniedResults)) \in Nat
             /\ Len(Only(events, FineResults)) \in Nat
             /\ Len(Only(events', DecidedEvents)) = Len(Only(events, DecidedEvents))
             /\ Len(Only(events', DeniedResults)) =
                  Len(Only(events, DeniedResults)) + (IF status = "denied" THEN 1 ELSE 0)
             /\ Len(Only(events', FineResults)) =
                  Len(Only(events, FineResults)) + (IF status = "ok" THEN 1 ELSE 0)
  <2>1. PICK e : /\ e = Event("result", Current.id, status) /\ e \in ResultEvents
                 /\ e \in DeniedResults <=> status = "denied"
                 /\ e \in FineResults <=> status \notin {"error", "denied"}
    BY <1>0, <1>2, <1>4, EventTypes
  <2>2. e \in AnyEvent /\ e \notin DecidedEvents /\ <<e>> \in Seq(AnyEvent)
    BY <2>1 DEF ResultEvents, DecidedEvents, AllowedEvents, DecidedAs
  <2>3. events' = events \o <<e>>
    <3>1. events' = Append(events, e)
      BY <1>4, <2>1 DEF Result
    <3> QED BY <2>2, <3>1
  <2>4. \A S : /\ Len(Only(events, S)) \in Nat
               /\ Len(Only(events \o <<e>>, S)) = Len(Only(events, S)) + Len(Only(<<e>>, S))
    BY <2>2, CountConcat
  <2>5. \A S : Len(Only(<<e>>, S)) = IF e \in S THEN 1 ELSE 0
    BY CountOne
  <2>6. /\ Len(Only(<<e>>, DecidedEvents)) = 0
        /\ Len(Only(<<e>>, DeniedResults)) = IF status = "denied" THEN 1 ELSE 0
        /\ Len(Only(<<e>>, FineResults)) = IF status = "ok" THEN 1 ELSE 0
    BY <1>4, <2>1, <2>2, <2>5
  <2>7. \A S : /\ Len(Only(events, S)) \in Nat
               /\ Len(Only(events', S)) = Len(Only(events, S)) + Len(Only(<<e>>, S))
    BY <2>3, <2>4
  <2>8. /\ Len(Only(events, DecidedEvents)) \in Nat
        /\ Len(Only(events', DecidedEvents)) = Len(Only(events, DecidedEvents)) + 0
    BY <2>6, <2>7
  <2>9. /\ Len(Only(events, DeniedResults)) \in Nat
        /\ Len(Only(events', DeniedResults)) =
             Len(Only(events, DeniedResults)) + (IF status = "denied" THEN 1 ELSE 0)
    BY <2>6, <2>7
  <2>10. /\ Len(Only(events, FineResults)) \in Nat
         /\ Len(Only(events', FineResults)) =
              Len(Only(events, FineResults)) + (IF status = "ok" THEN 1 ELSE 0)
    BY <2>6, <2>7
  <2> QED BY <2>8, <2>9, <2>10
<1>5. CASE ~Current.prepared
  <2>1. Result("error", 1) /\ UNCHANGED <<drawn, effects>>
    BY <1>5 DEF ExecuteNext
  <2> QED BY <1>1, <1>3, <1>4, <2>1 DEF OutcomeInv
<1>6. CASE Current.prepared /\ decisions[Draw] = "allow"
  <2>1. PICK x : effects' = Append(effects, x)
    BY <1>6 DEF ExecuteNext
  <2>2. PICK status \in {"ok", "error"}, size \in ResultSize : Result(status, size)
    BY <1>6 DEF ExecuteNext
  <2>3. drawn' = drawn + 1 /\ Len(effects') = Len(effects) + 1
    BY <1>3, <1>6, <2>1 DEF ExecuteNext
  <2>4. status \in {"ok", "error", "denied"} /\ status # "denied"
    BY <2>2
  <2> QED BY <1>1, <1>3, <1>4, <2>2, <2>3, <2>4 DEF OutcomeInv
<1>7. CASE Current.prepared /\ decisions[Draw] # "allow"
  <2>1. Result("denied", 1) /\ UNCHANGED effects /\ drawn' = drawn + 1
    BY <1>7 DEF ExecuteNext
  <2>2. PICK status : status = "denied" /\ status \in {"ok", "error", "denied"}
    OBVIOUS
  <2>3. Result(status, 1)
    BY <2>1, <2>2
  <2>4. /\ Len(Only(events, DeniedResults)) \in Nat
        /\ Len(Only(events', DecidedEvents)) = Len(Only(events, DecidedEvents))
        /\ Len(Only(events', DeniedResults)) = Len(Only(events, DeniedResults)) + 1
        /\ Len(Only(events', FineResults)) = Len(Only(events, FineResults)) + 0
        /\ Len(Only(events, FineResults)) \in Nat
    BY <1>4, <2>2, <2>3
  <2>5. /\ Len(Only(events, DecidedEvents)) = Len(records)
        /\ Len(Only(events, DeniedResults)) + Len(effects) = Len(records) - Len(decisions) + drawn
        /\ Len(Only(events, FineResults)) <= Len(effects)
    BY <1>1 DEF OutcomeInv
  <2>6. PICK b, x, r, d : /\ b = Len(Only(events, DeniedResults)) /\ x = Len(effects) /\ r = Len(records)
                          /\ d = Len(decisions) /\ b \in Nat /\ x \in Nat /\ r \in Nat /\ d \in Nat
    BY <1>3, <2>4
  <2>7. (b + 1) + x = r - d + (drawn + 1)
    <3>1. b + x = r - d + drawn
      BY <2>5, <2>6
    <3>2. b \in Int /\ x \in Int /\ r \in Int /\ d \in Int /\ drawn \in Int
      BY <1>3, <2>6
    <3> QED BY <3>1, <3>2
  <2>8. /\ Len(Only(events', DeniedResults)) = b + 1 /\ Len(effects') = x /\ Len(records') = r
        /\ Len(decisions') = d
    BY <1>1, <2>1, <2>4, <2>6
  <2>9. Len(Only(events', FineResults)) <= Len(effects')
    BY <2>1, <2>4, <2>5
  <2> QED BY <1>1, <2>1, <2>4, <2>5, <2>7, <2>8, <2>9 DEF OutcomeInv
<1> QED BY <1>5, <1>6, <1>7

LEMMA OutcomeKept ==
  ASSUME LoopInv, CountInv, OutcomeInv, [Next]_vars
  PROVE  OutcomeInv'
<1>0. /\ LoopType /\ RoundInv /\ DrawnInv /\ events \in Seq(AnyEvent)
      /\ Len(records) \in Nat /\ Len(decisions) \in Nat /\ drawn \in Nat /\ Len(effects) \in Nat
  BY DEF LoopInv, CountInv, LoopType
<1>1. CASE /\ UNCHANGED <<events, records, effects, decisions, drawn>> /\ pc \notin {"failed", "stopped"}
           /\ pc' = "done" => pc \in {"final", "done"}
  BY <1>0, <1>1 DEF OutcomeInv, RoundInv, Ended
<1>2. CASE pc' \in {"failed", "stopped"}
  BY <1>2 DEF OutcomeInv
<1>3. CASE Receive
  <2>1. PICK e : e = [Event("usage", NoId, "ok") EXCEPT !.response = response + 1]
                 /\ e \in AnyEvent /\ e.type = "usage"
    BY <1>0, EventTypes
  <2>2. /\ pc = "request" /\ pc' = "received" /\ events' = Append(events, e)
        /\ UNCHANGED <<records, effects, decisions, drawn>>
    BY <1>3, <2>1 DEF Receive, round, session
  <2> QED BY <1>0, <2>1, <2>2, OnePasses
<1>4. CASE FinalAnswer
  <2>1. PICK e : e = Event("completed", NoId, "completed") /\ e \in AnyEvent /\ e.type = "completed"
    BY <1>0, EventTypes
  <2>2. /\ pc = "received" /\ pc' = "final" /\ events' = Append(events, e)
        /\ UNCHANGED <<records, effects, decisions, drawn>>
    BY <1>4, <2>1 DEF FinalAnswer, round, session
  <2> QED BY <1>0, <2>1, <2>2, OnePasses
<1>5. CASE ToolRound
  <2>1. pc = "received" /\ pc' = "authorize" /\ UNCHANGED <<records, effects, decisions, drawn>>
    BY <1>5 DEF ToolRound, session
  <2>2. PICK n \in 1..MaxCalls :
          \E batch \in [1..n -> Call] :
            events' = events \o [i \in 1..n |-> Event("requested", batch[i].id, "ok")]
    BY <1>5 DEF ToolRound
  <2>3. PICK batch \in [1..n -> Call] :
          events' = events \o [i \in 1..n |-> Event("requested", batch[i].id, "ok")]
    BY <2>2
  <2>4. PICK more : more = [i \in 1..n |-> Event("requested", batch[i].id, "ok")]
    OBVIOUS
  <2>5. more \in Seq(RequestEvents)
    <3>1. ASSUME NEW i \in 1..n PROVE Event("requested", batch[i].id, "ok") \in RequestEvents
      <4>1. batch[i].id \in Ids
        BY DEF Ids
      <4> QED BY <1>0, <4>1, EventTypes
    <3>2. n \in Nat
      BY LimitAssumption
    <3> QED BY <2>4, <3>1, <3>2
  <2>6. /\ Only(more, ResultEvents) = <<>> /\ Only(more, DecidedEvents) = <<>>
        /\ more \in Seq(AnyEvent)
    <3>1. /\ RequestEvents \cap ResultEvents = {} /\ RequestEvents \cap DecidedEvents = {}
          /\ RequestEvents \subseteq AnyEvent
      BY DEF RequestEvents, ResultEvents, DecidedEvents, AllowedEvents, DecidedAs
    <3> QED BY <2>5, <3>1, OnlyNone
  <2> QED BY <1>0, <2>1, <2>3, <2>4, <2>6, OthersPass
<1>6. CASE Authorized
  <2>1. pc = "authorize" /\ pc' = "execute"
        /\ UNCHANGED <<effects, drawn>> /\ decisions = <<>> /\ drawn = 0
        /\ Len(decisions') = Len(Requests)
    <3>1. Len(Requests) \in Nat
      BY <1>0, RequestsType DEF LoopType
    <3> QED BY <1>0, <1>6, <3>1 DEF Authorized, RoundInv
  <2>2. PICK more, added :
          /\ events' = events \o more /\ records' = records \o added /\ added \in Seq(Outcome)
          /\ Adds(more, 0, 0, Len(Only(added, Allowed)))
          /\ Len(Only(more, DecidedEvents)) = Len(added) /\ Len(added) = Len(Requests)
    BY <1>6, DecidedCounts
  <2>3. more \in Seq(AnyEvent) /\ Len(Only(more, ResultEvents)) = 0
    BY <2>2 DEF Adds
  <2>4. \A S : /\ Len(Only(events, S)) \in Nat /\ Len(Only(more, S)) \in Nat
               /\ Len(Only(events \o more, S)) = Len(Only(events, S)) + Len(Only(more, S))
    BY <1>0, <2>3, CountConcat
  <2>5. Len(Only(more, DeniedResults)) <= 0 /\ Len(Only(more, FineResults)) <= 0
    <3>1. DeniedResults \subseteq ResultEvents /\ FineResults \subseteq ResultEvents
      BY DEF DeniedResults, FineResults
    <3> QED BY <2>3, <3>1, CountWithin
  <2>6. /\ Len(Only(events', DecidedEvents)) = Len(Only(events, DecidedEvents)) + Len(added)
        /\ Len(Only(events', DeniedResults)) = Len(Only(events, DeniedResults))
        /\ Len(Only(events', FineResults)) = Len(Only(events, FineResults))
    BY <2>2, <2>4, <2>5
  <2>7. Len(records') = Len(records) + Len(added) /\ Len(added) \in Nat
    <3>1. records \in Seq(Outcome)
      BY <1>0 DEF LoopType
    <3>2. PICK a, b : a = records /\ b = added /\ a \in Seq(Outcome) /\ b \in Seq(Outcome)
      BY <2>2, <3>1
    <3>3. Len(a \o b) = Len(a) + Len(b) /\ Len(b) \in Nat
      BY <3>2
    <3> QED BY <2>2, <3>2, <3>3
  <2>8. Len(decisions) = 0
    BY <2>1
  <2>9. /\ Len(Only(events, DecidedEvents)) = Len(records)
        /\ Len(Only(events, DeniedResults)) + Len(effects) = Len(records) - 0 + 0
        /\ Len(Only(events, FineResults)) <= Len(effects)
    BY <2>1, <2>8 DEF OutcomeInv
  <2>10. PICK r, a, x, b : /\ r = Len(records) /\ a = Len(added) /\ x = Len(effects)
                           /\ b = Len(Only(events, DeniedResults))
                           /\ r \in Nat /\ a \in Nat /\ x \in Nat /\ b \in Nat
    BY <1>0, <2>4, <2>7
  <2>11. /\ Len(Only(events', DecidedEvents)) = Len(records')
         /\ Len(Only(events', FineResults)) <= Len(effects')
    BY <2>1, <2>6, <2>7, <2>9
  <2>12. Len(Only(events', DeniedResults)) + Len(effects') = Len(records') - Len(decisions') + drawn'
    <3>1. /\ Len(Only(events', DeniedResults)) = b /\ Len(effects') = x /\ Len(records') = r + a
          /\ Len(decisions') = a /\ drawn' = 0 /\ b + x = r - 0 + 0
      BY <2>1, <2>2, <2>6, <2>7, <2>9, <2>10
    <3>2. b + x = (r + a) - a + 0
      BY <2>10, <3>1
    <3> QED BY <3>1, <3>2
  <2> QED BY <2>1, <2>11, <2>12 DEF OutcomeInv
<1>7. CASE ExecuteNext
  BY <1>0, <1>7, ExecuteOutcome
<1>8. CASE RoundDone
  <2>1. /\ pc = "execute" /\ Len(results) = Len(calls) /\ UNCHANGED <<records, effects, events>>
        /\ pc' = "update" /\ decisions' = <<>> /\ drawn' = 0
    BY <1>8 DEF RoundDone, session
  <2>2. drawn = Len(decisions)
    <3>1. calls \in Seq(Call)
      BY <1>0 DEF LoopType
    <3>2. Upto(calls, Prepared, Len(calls)) = Requests
      BY <3>1, UptoNext DEF Requests, Prepared
    <3> QED BY <1>0, <2>1, <3>2 DEF DrawnInv
  <2>3. Len(decisions') = 0
    BY <2>1
  <2> QED BY <1>0, <2>1, <2>2, <2>3 DEF OutcomeInv
<1>9. CASE Start \/ Finish \/ Update
  <2>1. \/ pc' = "failed"
        \/ /\ UNCHANGED <<events, records, effects, decisions, drawn>> /\ pc \notin {"failed", "stopped"}
           /\ pc' = "done" => pc = "final"
    BY <1>9 DEF Start, Finish, Update, Fail, round, session
  <2> QED BY <1>1, <1>2, <2>1
<1>10. CASE RequestFails \/ ResponseFails \/ RoundFails \/ Interrupt
  BY <1>2, <1>10 DEF RequestFails, ResponseFails, RoundFails, Interrupt, Fail
<1>11. CASE Ask \/ AnswerByPolicy \/ UNCHANGED vars
  BY <1>1, <1>2, <1>11 DEF Ask, AnswerByPolicy, vars, round, session
<1> QED BY <1>3, <1>4, <1>5, <1>6, <1>7, <1>8, <1>9, <1>10, <1>11 DEF Next, Step

\* The messages of this run that answer a call.
LEMMA AnsweringSelects ==
  ASSUME NEW h, HasPrompt(h)
  PROVE  Only(Own(h), {m \in Range(h) : m.role = "tool"}) = Only(Own(h), Answering)
<1> DEFINE S == {m \in Range(h) : m.role = "tool"}
<1>1. \A m \in Range(h) : m \in AnyMessage => (m \in S <=> m \in Answering)
  BY DEF Answering
<1> HIDE DEF S
<1>2. Only(Own(h), S) = Only(Own(h), Answering)
  BY <1>1, OwnSelects
<1> QED BY <1>2 DEF S

\* At the end of a run its summary agrees with its history and its effects: every requested call
\* has an outcome and a message that answers it, what was allowed was run, and what is counted
\* as ok are all the refused calls and runs of tools.
THEOREM SummaryCorrect == Spec => []SummaryAgrees
<1>1. Init => CountInv /\ OutcomeInv
  BY InitCount, InitOutcome
<1>2. LoopInv /\ RecallInv /\ CountInv /\ OutcomeInv /\ [Next]_vars => CountInv' /\ OutcomeInv'
  BY CountKept, OutcomeKept DEF RecallInv
<1>3. LoopInv /\ RecallInv /\ CountInv /\ OutcomeInv => SummaryAgrees
  <2> SUFFICES ASSUME LoopInv, RecallInv, CountInv, OutcomeInv, pc = "done"
               PROVE  SummaryAgrees
    BY DEF SummaryAgrees
  <2>1. events \in Seq(AnyEvent) /\ Len(events) \in Nat /\ DOMAIN events = 1..Len(events)
        /\ durable = messages /\ Len(calls) = 0 /\ Len(results) = 0
        /\ HasPrompt(messages) /\ records \in Seq(Outcome)
    BY DEF CountInv, RecallInv, TellsInv, LoopInv, LoopType
  <2>2. \A k \in 1..Len(events) : events[k] \in Range(events) /\ events[k] \in AnyEvent
    BY <2>1 DEF Range
  <2>3. Count("requested") = Len(Only(events, RequestEvents))
    <3> DEFINE S == {e \in Range(events) : e.type = "requested"}
    <3>1. \A k \in 1..Len(events) : events[k] \in S <=> events[k] \in RequestEvents
      BY <2>2 DEF RequestEvents
    <3> HIDE DEF S
    <3>2. Only(events, S) = Only(events, RequestEvents)
      BY <2>1, <3>1, OnlyAgree
    <3> QED BY <3>2 DEF Count, S
  <2>4. Count("result") = Len(Only(events, ResultEvents))
    <3> DEFINE S == {e \in Range(events) : e.type = "result"}
    <3>1. \A k \in 1..Len(events) : events[k] \in S <=> events[k] \in ResultEvents
      BY <2>2 DEF ResultEvents
    <3> HIDE DEF S
    <3>2. Only(events, S) = Only(events, ResultEvents)
      BY <2>1, <3>1, OnlyAgree
    <3> QED BY <3>2 DEF Count, S
  <2>5. ASSUME NEW disposition
        PROVE  SummaryApprovals(disposition) = Len(Only(events, DecidedAs(disposition)))
    <3> DEFINE S == {e \in Range(events) : e.type = "decided" /\ e.status = disposition}
    <3>1. \A k \in 1..Len(events) : events[k] \in S <=> events[k] \in DecidedAs(disposition)
      BY <2>2 DEF DecidedAs
    <3> HIDE DEF S
    <3>2. Only(events, S) = Only(events, DecidedAs(disposition))
      BY <2>1, <3>1, OnlyAgree
    <3> QED BY <3>2 DEF CountOf, SummaryApprovals, S
  <2>6. SummaryError = Len(Only(events, ErrorResults))
    <3> DEFINE S == {e \in Range(events) : e.type = "result" /\ e.status = "error"}
    <3>1. \A k \in 1..Len(events) : events[k] \in S <=> events[k] \in ErrorResults
      BY <2>2 DEF ErrorResults, ResultEvents
    <3> HIDE DEF S
    <3>2. Only(events, S) = Only(events, ErrorResults)
      BY <2>1, <3>1, OnlyAgree
    <3> QED BY <3>2 DEF CountOf, SummaryError, S
  <2>7. Len(effects) = Len(Only(records, Allowed))
    <3>1. PICK n \in 0..Len(records) : RunUpTo(n) /\ n = Len(records)
      BY DEF LoopInv, EffectsInv
    <3>2. Upto(records, Allowed, Len(records)) = Only(records, Allowed)
      BY <2>1, UptoNext
    <3> QED BY <3>1, <3>2 DEF RunUpTo
  <2>8. /\ Len(Only(events, RequestEvents)) \in Nat /\ Len(Only(events, ResultEvents)) \in Nat
        /\ Len(Only(events, RequestEvents)) = Len(Only(events, ResultEvents)) + 0 - 0
        /\ Len(Only(Own(messages), Answering)) = Len(Only(events, ResultEvents)) - 0
        /\ Len(Only(events, AllowedEvents)) = Len(Only(records, Allowed))
    BY <2>1, CountTypes DEF CountInv
  <2>9. Len(Only(Own(durable), {m \in Range(durable) : m.role = "tool"}))
          = Len(Only(Own(messages), Answering))
    BY <2>1, AnsweringSelects
  <2>10. PICK allowed, denied, switchedOff, refused :
           /\ allowed = SummaryApprovals("allowed") /\ denied = SummaryApprovals("denied")
           /\ switchedOff = SummaryApprovals("disabled") /\ refused = denied + switchedOff
           /\ allowed \in Nat /\ denied \in Nat /\ switchedOff \in Nat
           /\ Len(Only(events, DecidedEvents)) = allowed + refused
    <3>1. AllowedEvents \cap (DecidedAs("denied") \cup DecidedAs("disabled")) = {}
          /\ DecidedAs("denied") \cap DecidedAs("disabled") = {}
      BY DEF AllowedEvents, DecidedAs
    <3>2. /\ Len(Only(events, DecidedAs("denied"))) \in Nat /\ Len(Only(events, DecidedAs("disabled"))) \in Nat
          /\ Len(Only(events, DecidedAs("denied") \cup DecidedAs("disabled")))
               = Len(Only(events, DecidedAs("denied"))) + Len(Only(events, DecidedAs("disabled")))
      BY <2>1, <3>1, CountSplit
    <3>3. /\ Len(Only(events, AllowedEvents)) \in Nat
          /\ Len(Only(events, DecidedEvents)) = Len(Only(events, AllowedEvents))
               + Len(Only(events, DecidedAs("denied") \cup DecidedAs("disabled")))
      BY <2>1, <3>1, CountSplit DEF DecidedEvents
    <3>4. Len(Only(events, AllowedEvents)) = SummaryApprovals("allowed")
      BY <2>5 DEF AllowedEvents
    <3> QED BY <2>5, <3>2, <3>3, <3>4
  <2>11. PICK wrong, no, fine :
           /\ wrong = SummaryError /\ no = Len(Only(events, DeniedResults))
           /\ fine = Len(Only(events, FineResults))
           /\ wrong \in Nat /\ no \in Nat /\ fine \in Nat
           /\ Len(Only(events, ResultEvents)) = wrong + (no + fine)
    <3>1. PICK others : others = DeniedResults \cup FineResults
      OBVIOUS
    <3>2. /\ DeniedResults \cap FineResults = {} /\ ErrorResults \cap others = {}
          /\ ErrorResults \cup others = ResultEvents
      BY <3>1 DEF ErrorResults, DeniedResults, FineResults
    <3>3. /\ Len(Only(events, DeniedResults)) \in Nat /\ Len(Only(events, FineResults)) \in Nat
          /\ Len(Only(events, others)) = Len(Only(events, DeniedResults)) + Len(Only(events, FineResults))
      BY <2>1, <3>1, <3>2, CountSplit
    <3>4. /\ Len(Only(events, ErrorResults)) \in Nat
          /\ Len(Only(events, ResultEvents)) = Len(Only(events, ErrorResults)) + Len(Only(events, others))
      BY <2>1, <3>2, CountSplit
    <3> QED BY <2>6, <3>3, <3>4
  <2>12. SummaryApprovals("allowed") = Len(effects)
    BY <2>5, <2>7, <2>8 DEF AllowedEvents
  <2>13. SummaryOk = no + fine
    <3>1. SummaryOk = wrong + (no + fine) - wrong
      BY <2>4, <2>11 DEF SummaryOk
    <3> QED BY <2>11, <3>1
  <2>14. no = refused /\ fine <= allowed
    <3>1. /\ Len(Only(events, DecidedEvents)) = Len(records)
          /\ Len(Only(events, DeniedResults)) + Len(effects) = Len(records) - Len(decisions) + drawn
          /\ Len(Only(events, FineResults)) <= Len(effects)
      BY DEF OutcomeInv
    <3>2. Len(decisions) = drawn
      <4>1. decisions = <<>> /\ drawn = 0
        BY DEF OutcomeInv
      <4> QED BY <4>1
    <3>3. Len(effects) = allowed
      BY <2>10, <2>12
    <3>4. PICK d : d = Len(decisions) /\ d \in Nat
      <4>1. decisions = <<>>
        BY DEF OutcomeInv
      <4> QED BY <4>1
    <3>5. no + allowed = (allowed + refused) - d + d
      <4>1. no + Len(effects) = Len(records) - d + d
        BY <2>11, <3>1, <3>2, <3>4
      <4>2. Len(effects) = allowed /\ Len(records) = allowed + refused
        BY <2>10, <3>1, <3>3
      <4> QED BY <4>1, <4>2
    <3>6. refused \in Nat
      BY <2>10
    <3>7. no = refused
      <4>1. no \in Nat /\ allowed \in Nat /\ d \in Nat
        BY <2>10, <2>11, <3>4
      <4> QED BY <3>5, <3>6, <4>1
    <3>8. fine <= allowed
      BY <2>11, <3>1, <3>3
    <3> QED BY <3>7, <3>8
  <2>15. SummaryOk \in refused..refused + Len(effects)
    <3>1. refused \in Nat /\ Len(effects) = allowed
      BY <2>10, <2>12
    <3>2. SummaryOk = refused + fine /\ fine \in Nat /\ fine <= allowed /\ allowed \in Nat
      BY <2>10, <2>11, <2>13, <2>14
    <3>3. refused + fine \in refused..refused + allowed
      BY <3>1, <3>2
    <3> QED BY <3>1, <3>2, <3>3
  <2>16. SummaryRequested = SummaryOk + SummaryError
    <3>1. Len(Only(events, RequestEvents)) = wrong + (no + fine)
      BY <2>8, <2>11
    <3> QED BY <2>3, <2>11, <2>13, <3>1 DEF SummaryRequested
  <2>17. SummaryRequested = Len(Only(Own(durable), {m \in Range(durable) : m.role = "tool"}))
    BY <2>3, <2>8, <2>9 DEF SummaryRequested
  <2> QED BY <2>10, <2>12, <2>15, <2>16, <2>17 DEF SummaryAgrees
<1> QED BY <1>1, <1>2, <1>3, LoopInvariant, RecallInvariant, PTL DEF Spec
=============================================================================
