------------------------------ MODULE AiRouting ------------------------------
(***************************************************************************)
(* The AI router of one Organization: a call of a member of staff is       *)
(* judged, admitted against its model's quota under the Organization's     *)
(* advisory lock, sent to the provider with a time limit, and recorded.    *)
(* Calls run at once in several processes; a commit may take effect while  *)
(* its report is lost, and a process may die at any step.                  *)
(*                                                                         *)
(* A usage row and its audit events are written by one transaction, so     *)
(* `usage` keeps them together, one row per request id. A quota counts the *)
(* accepted rows since the start of its period: `day` is the database's    *)
(* clock in days of one month.                                             *)
(***************************************************************************)
EXTENDS Naturals, FiniteSets

CONSTANTS
  Calls,       \* calls, each with the request id of its HTTP request
  Members,     \* staff with access to the AI workspace
  Models,      \* the models of the registry
  ModelOf(_),  \* the model a call asks for
  ProviderOf(_),  \* the provider of a model
  RulesOf(_),  \* the rules of a model's quota policy, [scope, period, limit]
  Nothing      \* no value

CONSTANTS
  Judged,      \* what a call can be refused for before it is counted: malformed_request,
               \* ai_disabled, unknown_model, model_disabled, model_policy_denied,
               \* quota_unconfigured, execution_disabled
  Statuses,    \* what a provider's response reports: completed, limited, blocked
  Failures,    \* or what it comes to: provider_timeout, provider_failed, invalid_response
  MaxDay       \* bound: the last day

ASSUME AiAssumption ==
  /\ IsFiniteSet(Calls) /\ Nothing \notin Members \cup Models \cup Calls /\ MaxDay \in Nat
  /\ Statuses \cap {"pending", "failed", "denied"} = {}
  /\ \A c \in Calls : ModelOf(c) \in Models
  /\ \A m \in Models : \A r \in RulesOf(m) :
       /\ r.scope \in {"user", "organization", "model", "provider"} /\ r.period \in {"daily", "monthly"}
       /\ r.limit \in Nat

VARIABLES
  calls,   \* where each call is, whose it is, for which model, what it is about to record
  usage,   \* the usage row of each call, with its audit events
  lock,    \* the call whose admission holds the Organization's advisory lock
  held,    \* the row that admission is about to commit
  day

aiVars == <<calls, usage, lock, held, day>>

Internal == "internal_failure"
Categories == Judged \cup Failures \cup {"provider_unavailable", "quota_exceeded", Internal}

(* `place` says how many rows were accepted before this one: the order the property is about. *)
UsageRows ==
  [user : Members, model : Models \cup {Nothing}, day : 0..MaxDay, place : 0..Cardinality(Calls),
   decision : {"accepted", "denied"}, outcome : {"pending", "failed", "denied"} \cup Statuses,
   category : Categories \cup {Nothing}, events : SUBSET {"accepted", "denied", "completed", "failed"}]

ASSUME NoRowIsNothing == Nothing \notin UsageRows

AiTypeOK ==
  /\ calls \in [Calls -> [step : {"idle", "admit", "deny", "send", "sent", "settle", "fail",
                                  "answered", "refused", "unavailable"},
                          user : Members \cup {Nothing}, model : Models \cup {Nothing},
                          result : Categories \cup Statuses \cup {Nothing}]]
  /\ usage \in [Calls -> UsageRows \cup {Nothing}]
  /\ lock \in Calls \cup {Nothing} /\ held \in UsageRows \cup {Nothing} /\ day \in 0..MaxDay

AiInit ==
  /\ calls = [c \in Calls |-> [step |-> "idle", user |-> Nothing, model |-> Nothing, result |-> Nothing]]
  /\ usage = [c \in Calls |-> Nothing] /\ lock = Nothing /\ held = Nothing /\ day = 0

-----------------------------------------------------------------------------
\* Mutant: what came to nothing is not counted.
AcceptedAndServed(r) == r # Nothing /\ r.decision = "accepted" /\ r.outcome # "failed"

(* A row a quota counts, whatever became of its call. *)
Accepted(r) == r # Nothing /\ r.decision = "accepted"

InScope(rule, r, user, model) ==
  /\ rule.scope = "user" => r.user = user
  /\ rule.scope = "model" => r.model = model
  /\ rule.scope = "provider" => ProviderOf(r.model) = ProviderOf(model)
WindowStart(rule) == IF rule.period = "monthly" THEN 0 ELSE day
Used(rule, user, model) ==
  Cardinality({c \in Calls : /\ Accepted(usage[c]) /\ usage[c].day >= WindowStart(rule)
                             /\ InScope(rule, usage[c], user, model)})
HasCapacity(user, model) == \A rule \in RulesOf(model) : Used(rule, user, model) < rule.limit

(* No admission of the Organization is under way. *)
Serialized == lock = Nothing

-----------------------------------------------------------------------------
To(c, step, result) == calls' = [calls EXCEPT ![c].step = step, ![c].result = result]
End(c, step, result) ==
  calls' = [calls EXCEPT ![c] = [step |-> step, user |-> Nothing, model |-> Nothing, result |-> result]]
Same == UNCHANGED <<usage, lock, held, day>>

(* generate is called: an identity without access to the workspace is refused before anything is
   recorded and is left out. The gates judge the request by settings and a registry that are fixed
   at start, so which of them refuses is the request's own. An unknown model is never named. *)
Verdicts == {"admissible"} \cup Judged
NamedModel(c, v) == IF v \in {"malformed_request", "unknown_model"} THEN Nothing ELSE ModelOf(c)
Generate(c) ==
  /\ calls[c].step = "idle" /\ Same
  /\ \E u \in Members, v \in Verdicts :
       calls' = [calls EXCEPT ![c] =
         [step |-> IF v = "admissible" THEN "admit" ELSE "deny", user |-> u, model |-> NamedModel(c, v),
          result |-> IF v = "admissible" THEN Nothing ELSE v]]

(* begin for an admissible call: the lock, the clock, the counts, the row. Without capacity the
   transaction is rolled back and the refusal is recorded by another. *)
Admit(c) ==
  /\ calls[c].step = "admit" /\ Serialized
  /\ LET q == calls[c] IN
       \/ /\ HasCapacity(q.user, q.model)
          /\ lock' = c
          /\ held' = [user |-> q.user, model |-> q.model, day |-> day,
                      place |-> Cardinality({d \in Calls : Accepted(usage[d])}), decision |-> "accepted",
                      outcome |-> "pending", category |-> Nothing, events |-> {"accepted"}]
          /\ UNCHANGED <<calls, usage, day>>
       \/ /\ ~HasCapacity(q.user, q.model)
          /\ To(c, "deny", "quota_exceeded") /\ Same

(* The commit of the admission, which may fail and may take effect with its report lost: then the
   call goes on as one that was never admitted. *)
CommitAdmission(c) ==
  /\ lock = c
  /\ lock' = Nothing /\ held' = Nothing /\ UNCHANGED day
  /\ \/ usage' = [usage EXCEPT ![c] = held] /\ To(c, "send", Nothing)
     \/ usage' = [usage EXCEPT ![c] = held] /\ To(c, "deny", Internal)
     \/ usage' = usage /\ To(c, "deny", Internal)

(* begin for a refused call: one row per request id, so that a call whose admission was committed
   after all is answered as unavailable, as is one whose refusal cannot be recorded. *)
HasUsageRow(c) == usage[c] # Nothing
Deny(c) ==
  /\ calls[c].step = "deny" /\ Serialized
  /\ UNCHANGED <<lock, held, day>>
  /\ LET row == [user |-> calls[c].user, model |-> calls[c].model, day |-> day, place |-> 0,
                 decision |-> "denied", outcome |-> "denied", category |-> calls[c].result,
                 events |-> {"denied"}] IN
       \/ ~HasUsageRow(c) /\ usage' = [usage EXCEPT ![c] = row] /\ End(c, "refused", calls[c].result)
       \/ ~HasUsageRow(c) /\ usage' = [usage EXCEPT ![c] = row] /\ End(c, "unavailable", Nothing)
       \/ usage' = usage /\ End(c, "unavailable", Nothing)

(* The provider is resolved and called. *)
Send(c) ==
  /\ calls[c].step = "send" /\ Same
  /\ \/ To(c, "sent", Nothing)
     \/ To(c, "fail", "provider_unavailable")

(* It answers, fails or answers what is not a response, or five seconds pass; an answer after that
   is not looked at. *)
Responses == [step : {"settle"}, result : Statuses] \cup [step : {"fail"}, result : Failures]
Provided(c) ==
  /\ calls[c].step = "sent" /\ Same
  /\ \E r \in Responses : To(c, r.step, r.result)

-----------------------------------------------------------------------------
PendingUsage(c) == usage[c] # Nothing /\ usage[c].outcome = "pending"
\* Mutant: the row is found by its id alone.
AnyOf(c) == usage[c] # Nothing
UnsettledYet(c) == PendingUsage(c)

Finished(c, outcome, category, event) ==
  [usage EXCEPT ![c].outcome = outcome, ![c].category = category, ![c].events = @ \cup {event}]

(* finish with the provider's response, which is given to the caller only when its record is known to
   be committed; otherwise the call is recorded as failed. *)
Settle(c) ==
  /\ calls[c].step = "settle" /\ UNCHANGED <<lock, held, day>>
  /\ LET done == Finished(c, calls[c].result, Nothing, "completed") IN
       \/ UnsettledYet(c) /\ usage' = done /\ End(c, "answered", calls[c].result)
       \/ UnsettledYet(c) /\ usage' = done /\ To(c, "fail", Internal)
       \/ usage' = usage /\ To(c, "fail", Internal)

(* finish with a failure. Only a pending row is finished. *)
Fail(c) ==
  /\ calls[c].step = "fail" /\ UNCHANGED <<lock, held, day>>
  /\ LET done == Finished(c, "failed", calls[c].result, "failed") IN
       \/ UnsettledYet(c) /\ usage' = done /\ End(c, "refused", calls[c].result)
       \/ UnsettledYet(c) /\ usage' = done /\ End(c, "unavailable", Nothing)
       \/ usage' = usage /\ End(c, "unavailable", Nothing)

-----------------------------------------------------------------------------
Ended == {"idle", "answered", "refused", "unavailable"}

(* The process of a call dies: nobody is answered, what it has not committed is rolled back and the
   lock released. What was pending stays so: nothing in the repository takes it up again. *)
Die(c) ==
  /\ calls[c].step \notin Ended
  /\ End(c, "unavailable", Nothing)
  /\ IF lock = c THEN lock' = Nothing /\ held' = Nothing ELSE UNCHANGED <<lock, held>>
  /\ UNCHANGED <<usage, day>>

NewDay == day < MaxDay /\ day' = day + 1 /\ UNCHANGED <<calls, usage, lock, held>>

AiNext ==
  \/ \E c \in Calls :
       \/ Generate(c) \/ Admit(c) \/ CommitAdmission(c) \/ Deny(c) \/ Send(c) \/ Provided(c)
       \/ Settle(c) \/ Fail(c) \/ Die(c)
  \/ NewDay

AiSpec == AiInit /\ [][AiNext]_aiVars

-----------------------------------------------------------------------------
(* However calls overlap, and whatever became of the earlier ones, no call is admitted beyond a rule
   of its model's policy: up to each accepted row, the accepted rows in the rule's window and scope
   are within its limit (ai-usage.service.ts:25, "including overlapping quotas"). *)
AdmittedWithinQuota ==
  \A c \in Calls : usage[c] # Nothing /\ usage[c].decision = "accepted" => \A rule \in RulesOf(usage[c].model) :
    Cardinality({d \in Calls :
      /\ usage[d] # Nothing /\ usage[d].decision = "accepted" /\ usage[d].place <= usage[c].place
      /\ rule.period = "daily" => usage[d].day = usage[c].day
      /\ rule.scope = "user" => usage[d].user = usage[c].user
      /\ rule.scope = "model" => usage[d].model = usage[c].model
      /\ rule.scope = "provider" => ProviderOf(usage[d].model) = ProviderOf(usage[c].model)})
    <= rule.limit

(* What a caller was told is what the record says, and each row has had exactly one decision and at
   most one end: a response is given only with a completed record, a refusal with its category, and
   the provider is called only for an accepted row (ai-router.service.ts:168). *)
EndsOf(r) == IF r.outcome = "pending" THEN {"accepted"}
             ELSE IF r.outcome = "denied" THEN {"denied"}
             ELSE IF r.outcome = "failed" THEN {"accepted", "failed"} ELSE {"accepted", "completed"}
AnswersMatchRecords ==
  \A c \in Calls :
    /\ usage[c] # Nothing => usage[c].events = EndsOf(usage[c])
    /\ calls[c].step = "answered" => usage[c] # Nothing /\ usage[c].outcome = calls[c].result
    /\ calls[c].step = "refused" => usage[c] # Nothing /\ usage[c].category = calls[c].result
    /\ calls[c].step \in {"send", "sent"} => PendingUsage(c)

CallsAccounted == AdmittedWithinQuota /\ AnswersMatchRecords
=============================================================================
