------------------------------ MODULE Gateways ------------------------------
(***************************************************************************)
(* Tool calls through the two agent doors: MCP (mcp/protocol.py, mcp/http) *)
(* and A2A (a2a/server.py), which wraps a call in a task of a table that   *)
(* forgets by age and by size.  Both end in MCPToolService.call            *)
(* (mcp/tools.py): scope, authentication level, enterprise policy          *)
(* (enterprise/policy.py), the explicit approval of high-impact tools, the *)
(* handler, and the envelope that tells the agent what came of it          *)
(* (ux/envelope.py).  What a handler does is the other modules' business:  *)
(* here it acts once or it does not.                                       *)
(***************************************************************************)
EXTENDS Naturals, FiniteSets

CONSTANTS Asked,        \* pairs of a principal and the tool it asks for; of its
                        \* token: [tenant, scopes, roles, level, strong]
          Models,       \* model and search providers a call can name
          Allowed,      \* tenant -> providers its policy lists, {} for any
          MfaTenants,   \* tenants that demand phishing-resistant MFA
          Unnamed,      \* no provider named
          MaxCalls,     \* calls made (bound)
          MaxTasks      \* _MAX_TASKS

VARIABLES calls,        \* id -> the call; ids are given in the order of arrival
          taskTable,    \* ids of the A2A tasks in the table
          aged,         \* tasks up to this id have outlived _TASK_TTL
          cancelled,    \* calls whose asyncio task has been cancelled
          activeTenants, \* tenants whose status is ACTIVE
          ownFlight,    \* calls whose handler ran when their tenant was last suspended
          answer        \* the last answer given: tool, result, and what was told

taskVars == <<calls, taskTable, aged, cancelled>>
gatewayVars == <<taskVars, activeTenants, ownFlight, answer>>

CallIds == 1..MaxCalls
Principals == {r[1] : r \in Asked}
CallTenants == {p.tenant : p \in Principals}
NoCall  == [stage |-> "none"]

-----------------------------------------------------------------------------
(* The tables of mcp/tools.py and enterprise/policy.py.                    *)

Researching == {"search_hot_notes", "search_trending_topics", "analyze_hot_notes"}
Experimenting == {"create_abn_experiment", "assign_experiment_variant",
                  "record_experiment_outcome", "choose_content_bandit",
                  "update_content_bandit"}
EnterpriseReads == {"get_enterprise_controls", "get_enterprise_budget",
                    "verify_enterprise_audit"}
ApprovalTools == {"create_enterprise_approval", "decide_enterprise_approval"}

Under == [research_read  |-> Researching,
          content_generate |->
            {"generate_xhs_note", "generate_xhs_note_variants", "generate_from_hot",
             "plan_content_outline", "rewrite_xhs_note", "diagnose_xhs_note",
             "verify_claims", "check_originality", "check_compliance",
             "enterprise_dlp_scan", "draft_comment_reply"},
          account_read |->
            {"query_account_weight", "query_content_health", "diagnose_account",
             "suggest_topics_by_health", "get_performance_attribution",
             "get_account_weight_trend", "generate_retrospective",
             "analyze_performance", "get_publish_windows"},
          account_sync |-> {"sync_account_analytics", "sync_published_metrics"},
          auth_manage |-> {"start_account_login", "check_account_login", "logout_account"},
          publish_draft |-> {"create_publish_draft", "preview_publish_draft"},
          publish_approve |-> {"approve_publish_draft"} \cup ApprovalTools,
          publish_execute |-> {"publish_note", "schedule_note"},
          enterprise_admin |-> {"get_enterprise_controls"},
          billing_read |-> {"get_enterprise_budget"},
          audit_read |-> {"verify_enterprise_audit"},
          content_plan |-> {"create_content_calendar", "create_content_series"},
          experiments_write |-> Experimenting,
          experiments_read |-> {"analyze_abn_experiment"},
          assets_read |-> {"search_asset_library"},
          jobs_admin |-> {"list_job_dead_letters", "replay_job_dead_letter"}]

ScopeOf(tool) == CHOOSE s \in DOMAIN Under : tool \in Under[s]

StepUp == {"start_account_login", "logout_account", "approve_publish_draft",
           "publish_note", "schedule_note", "replay_job_dead_letter"} \cup ApprovalTools

HighImpact == {"logout_account", "publish_note", "schedule_note", "replay_job_dead_letter"}

\* The operation a tool is evaluated as; the other tools are not evaluated.
OperationOf ==
    [search_hot_notes |-> "research.search", search_trending_topics |-> "research.search",
     analyze_hot_notes |-> "research.search", generate_xhs_note |-> "content.generate",
     query_account_weight |-> "account.read", analyze_performance |-> "account.read",
     sync_account_analytics |-> "account.sync", create_publish_draft |-> "publish.draft",
     approve_publish_draft |-> "publish.approve", publish_note |-> "publish.execute",
     schedule_note |-> "publish.execute", get_enterprise_controls |-> "tenant.read",
     get_enterprise_budget |-> "budget.read", verify_enterprise_audit |-> "audit.verify",
     create_enterprise_approval |-> "approval.create",
     decide_enterprise_approval |-> "approval.decide"]

Evaluated(tool) == tool \in DOMAIN OperationOf

\* OPERATIONS: the roles, one of which is needed (the scope is the tool's).
RolesFor(operation) ==
    CASE operation = "research.search"  -> {"creator", "analyst", "publisher", "tenant-admin"}
      [] operation = "content.generate" -> {"creator", "publisher", "tenant-admin"}
      [] operation = "account.read"     -> {"analyst", "publisher", "tenant-admin"}
      [] operation = "account.sync"     -> {"analyst", "tenant-admin"}
      [] operation = "approval.create"  -> {"publisher", "approver", "tenant-admin"}
      [] operation = "tenant.read"      -> {"tenant-admin", "security-admin"}
      [] operation = "budget.read"      -> {"billing-admin", "tenant-admin"}
      [] operation = "audit.verify"     -> {"auditor", "security-admin"}
      [] operation \in {"publish.draft", "publish.execute"}    -> {"publisher", "tenant-admin"}
      [] operation \in {"publish.approve", "approval.decide"}  -> {"approver", "tenant-admin"}

MfaFor == {"publish.approve", "approval.decide", "publish.execute"}

\* Handlers that only read and compute; every other one stores something, the
\* research tools in the cache, the generating ones in the asset store.
ContentReads == {"plan_content_outline", "rewrite_xhs_note", "diagnose_xhs_note",
                 "verify_claims", "check_originality", "check_compliance",
                 "enterprise_dlp_scan", "draft_comment_reply"}
AccountReads == {"query_content_health", "get_publish_windows"}
OperationReads == {"get_performance_attribution", "get_account_weight_trend",
                   "analyze_abn_experiment", "search_asset_library",
                   "list_job_dead_letters", "analyze_performance"}
ReadOnly == ContentReads \cup AccountReads \cup EnterpriseReads \cup OperationReads

HasScope(who, scope) == "*" \in who.scopes \/ scope \in who.scopes

\* An engine that never looks at the tenant's status.
EvaluateStatusless(who, operation, provider) ==
    /\ "*" \in who.scopes \/ who.roles \cap RolesFor(operation) # {}
    /\ operation \in MfaFor /\ who.tenant \in MfaTenants => who.strong
    /\ operation \in {"content.generate", "research.search"} /\ Allowed[who.tenant] # {} =>
         provider \in Allowed[who.tenant]

\* EnterprisePolicyEngine.evaluate, for the principal's own tenant.
Evaluate(who, operation, provider) ==
    /\ who.tenant \in activeTenants
    /\ "*" \in who.scopes \/ who.roles \cap RolesFor(operation) # {}
    /\ operation \in MfaFor /\ who.tenant \in MfaTenants => who.strong
    /\ operation \in {"content.generate", "research.search"} /\ Allowed[who.tenant] # {} =>
         provider \in Allowed[who.tenant]

\* What stands before the handler in _call_impl.
Permitted(who, tool, provider, approved) ==
    /\ HasScope(who, ScopeOf(tool))
    /\ tool \in StepUp => who.level >= 2
    /\ Evaluated(tool) => Evaluate(who, OperationOf[tool], provider)
    /\ tool \in HighImpact => approved

-----------------------------------------------------------------------------
(* What the agent is told: the ux status of a result, which may be flagged *)
(* (a check in it did not pass) or a request for the agent's own search.   *)

AsksWeb == Researching \cup {"generate_xhs_note", "generate_xhs_note_variants",
                             "generate_from_hot", "suggest_topics_by_health"}
Flaggable == {"generate_xhs_note", "generate_xhs_note_variants", "generate_from_hot",
              "rewrite_xhs_note", "diagnose_xhs_note", "verify_claims",
              "check_originality", "check_compliance", "enterprise_dlp_scan",
              "verify_enterprise_audit"}

FlaggedAs(tool) ==
    CASE tool \in {"generate_xhs_note", "check_originality", "check_compliance",
                   "enterprise_dlp_scan"}                  -> "blocked"
      [] tool \in {"rewrite_xhs_note", "diagnose_xhs_note",
                   "verify_claims"}                        -> "needs_human_review"
      [] tool \in {"generate_xhs_note_variants",
                   "generate_from_hot"}                    -> "generated"
      [] OTHER                                             -> "ok"

PlainAs(tool) ==
    CASE tool \in {"generate_xhs_note", "preview_publish_draft",
                   "draft_comment_reply"}                  -> "needs_human_review"
      [] tool \in {"generate_xhs_note_variants",
                   "generate_from_hot"}                    -> "generated"
      [] tool = "suggest_topics_by_health"                 -> "suggestions_ready"
      [] OTHER                                             -> "ok"

UxStatus(tool, result) ==
    CASE result = "asksWeb" -> "needs_web_search"
      [] result = "flagged" -> FlaggedAs(tool)
      [] OTHER              -> PlainAs(tool)

-----------------------------------------------------------------------------
Unfinished(id) == calls[id].stage \in {"asked", "running", "acted"}
OfA2A(id) == calls[id].stage # "none" /\ calls[id].door = "a2a"

(* The table of A2A tasks: what a request finds expired it drops, and then *)
(* the oldest ones above the limit; a task dropped at work is cancelled.   *)

Oldest(ids, n) == {id \in ids : Cardinality({j \in ids : j <= id}) <= n}

Expired == {id \in taskTable : id <= aged}
Surplus(ids) == IF Cardinality(ids) > MaxTasks
                  THEN Oldest(ids, Cardinality(ids) - MaxTasks) ELSE {}
Kept == (taskTable \ Expired) \ Surplus(taskTable \ Expired)

ForgetsRunning(kept) == cancelled
\* Tasks that a clean-up drops stop if they still run.
Stops(kept) == cancelled \cup {id \in taskTable \ kept : Unfinished(id)}

GatewayInit ==
    /\ calls = [id \in CallIds |-> NoCall]
    /\ taskTable = {} /\ aged = 0 /\ cancelled = {}
    /\ activeTenants = CallTenants
    /\ ownFlight = {}
    /\ answer = <<"none", "none", "nothing">>

NextId == 1 + Cardinality({id \in CallIds : calls[id].stage # "none"})

NewCall(door, who, tool) == [stage |-> "asked", door |-> door, who |-> who, tool |-> tool]
\* What is left of a call that has ended.
EndedCall(id) == [stage |-> "done", door |-> calls[id].door]

\* tools/call: the tool service is entered at once.
AskMcp(who, tool) ==
    /\ NextId \in CallIds
    /\ HasScope(who, "mcp_invoke")
    /\ calls' = [calls EXCEPT ![NextId] = NewCall("mcp", who, tool)]
    /\ UNCHANGED <<taskTable, aged, cancelled, activeTenants, ownFlight, answer>>

\* message/send: clean-up, record and asyncio task without a suspension point
\* between them.  The sender learns the id with the answer, not before.
AskA2A(who, tool) ==
    /\ NextId \in CallIds
    /\ HasScope(who, "a2a_invoke")
    /\ calls' = [calls EXCEPT ![NextId] = NewCall("a2a", who, tool)]
    /\ taskTable' = Kept \cup {NextId}
    /\ cancelled' = Stops(Kept)
    /\ UNCHANGED <<aged, activeTenants, ownFlight, answer>>

\* Every other request at the door cleans up, whatever it asks for.  tasks/get and
\* tasks/cancel change nothing more: a client knows the ids of answered tasks
\* only, and an answered task has ended.
TasksRequest(who) ==
    /\ HasScope(who, "a2a_invoke")
    /\ taskTable' = Kept
    /\ cancelled' = Stops(Kept)
    /\ UNCHANGED <<calls, aged, activeTenants, ownFlight, answer>>

Answer(id, result, told) ==
    /\ calls' = [calls EXCEPT ![id] = EndedCall(id)]
    /\ answer' = <<calls[id].tool, result, told>>

\* The checks and the start of the handler are one step: nothing is awaited.
PassChecks(id) ==
    /\ calls[id].stage = "asked" /\ id \notin cancelled
    /\ \E provider \in Models \cup {Unnamed}, approved \in BOOLEAN :
         IF Permitted(calls[id].who, calls[id].tool, provider, approved)
           THEN /\ calls' = [calls EXCEPT ![id].stage = "running"]
                /\ UNCHANGED answer
           ELSE Answer(id, "denied", "error")
    /\ UNCHANGED <<taskTable, aged, cancelled, activeTenants, ownFlight>>

Act(id) ==
    /\ calls[id].stage = "running" /\ id \notin cancelled
    /\ calls[id].tool \notin ReadOnly
    /\ calls' = [calls EXCEPT ![id].stage = "acted"]
    /\ UNCHANGED <<taskTable, aged, cancelled, activeTenants, ownFlight, answer>>

Return(id) ==
    /\ id \notin cancelled
    /\ \/ /\ calls[id].stage \in {"running", "acted"}
          /\ calls[id].stage = "running" <=> calls[id].tool \in ReadOnly
          /\ \E result \in {"value", "flagged"} :
               /\ result = "flagged" => calls[id].tool \in Flaggable
               /\ Answer(id, result, UxStatus(calls[id].tool, result))
       \/ /\ calls[id].stage = "running" /\ calls[id].tool \in AsksWeb
          /\ Answer(id, "asksWeb", UxStatus(calls[id].tool, "asksWeb"))
       \/ /\ calls[id].stage \in {"running", "acted"}
          /\ Answer(id, "raised", "error")
    /\ UNCHANGED <<taskTable, aged, cancelled, activeTenants, ownFlight>>

\* The cancellation arrives at the await; the sender's request dies with it.
Interrupted(id) ==
    /\ id \in cancelled
    /\ calls' = [calls EXCEPT ![id] = EndedCall(id)]
    /\ cancelled' = cancelled \ {id}
    /\ UNCHANGED <<taskTable, aged, activeTenants, ownFlight, answer>>

\* The client of a2a/stream goes away: the awaited task is cancelled with it.
Disconnect(id) ==
    /\ OfA2A(id) /\ Unfinished(id) /\ id \notin cancelled
    /\ cancelled' = cancelled \cup {id}
    /\ UNCHANGED <<calls, taskTable, aged, activeTenants, ownFlight, answer>>

TasksAge ==
    /\ aged < NextId - 1
    /\ aged' = aged + 1
    /\ UNCHANGED <<calls, taskTable, cancelled, activeTenants, ownFlight, answer>>

InFlight(t) == {id \in CallIds : calls[id].stage = "running" /\ calls[id].who.tenant = t}

Suspend(t) ==
    /\ t \in activeTenants
    /\ activeTenants' = activeTenants \ {t}
    /\ ownFlight' = ownFlight \cup InFlight(t)
    /\ UNCHANGED <<taskVars, answer>>

Reinstate(t) ==
    /\ t \notin activeTenants
    /\ activeTenants' = activeTenants \cup {t}
    /\ ownFlight' = {id \in ownFlight : \E u \in CallTenants \ {t} : id \in InFlight(u)}
    /\ UNCHANGED <<taskVars, answer>>

GatewayNext ==
    \/ \E r \in Asked : AskMcp(r[1], r[2]) \/ AskA2A(r[1], r[2])
    \/ \E who \in Principals : TasksRequest(who)
    \/ \E id \in CallIds : \/ PassChecks(id) \/ Act(id) \/ Return(id)
                           \/ Interrupted(id) \/ Disconnect(id)
    \/ TasksAge
    \/ \E t \in CallTenants : Suspend(t) \/ Reinstate(t)

GatewaySpec == GatewayInit /\ [][GatewayNext]_gatewayVars

-----------------------------------------------------------------------------
(* Properties.                                                             *)

\* A task the table has forgotten does not go on working unseen: it has ended
\* or its cancellation is under way.
ForgottenTasksStop ==
    \A id \in CallIds : OfA2A(id) /\ Unfinished(id) => id \in taskTable \cup cancelled

\* For a suspended tenant an evaluated tool acts only if the handler of that
\* call had started when the tenant was suspended.
SuspensionStopsNewWork ==
    [][\A id \in CallIds :
         calls[id].stage = "running" /\ calls'[id].stage = "acted"
           /\ Evaluated(calls[id].tool) /\ calls[id].who.tenant \notin activeTenants
         => id \in ownFlight]_gatewayVars
=============================================================================
