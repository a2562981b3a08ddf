------------------------------- MODULE AgentRun -------------------------------
(***************************************************************************)
(* One agent run under one ResourceBudgetGovernor: PlannerOrchestrator has *)
(* a model propose a plan, checks it and selects its tools; PlanExecutor   *)
(* executes it; if it fails, a replacement is asked for, possibly several  *)
(* times.  The model is behind ModelGateway and OllamaAdapter.             *)
(*                                                                         *)
(* Abstracted: prompts and texts; a proposal has dependencies over the     *)
(* steps and at most one other flaw.  What becomes of a replacement is up  *)
(* to the caller, and src/app has none yet: it is not executed here.       *)
(***************************************************************************)
EXTENDS PlanExecution, FiniteSetsExt

CONSTANTS Stranger,      \* a step id that is in no plan
          Reasoners,     \* registered reasoning models that fit the hardware
          MaxLlmCalls, MaxTokens, MaxRepairs,   \* the governor's limits
          Requested,     \* num_predict of a call
          MaxAttempts,   \* of the Replanner
          MaxReplans     \* bound on the calls of replan

\* The default registry has one model per capability, so that no
\* FallbackModelAdapter is made.
ASSUME AgentAssumption ==
  /\ Stranger \notin Steps
  /\ Cardinality(Reasoners) <= 1
  /\ {MaxLlmCalls, MaxTokens, MaxRepairs, Requested, MaxReplans} \subseteq Nat
  /\ MaxAttempts \in Nat \ {0}

VARIABLES stage,       \* of the run
          point,       \* in create_plan or replan, or "none"
          available,   \* the gateway's _available_model_names
          usage,       \* the governor's llm_calls, generated_tokens, repair_attempts
          attempt,     \* calls of replan so far
          posts,       \* history: requests sent to the model
          cyclic       \* history: dependencies create_plan refused as cyclic

planningVars == <<stage, point, available, usage, attempt, posts, cyclic>>
agentVars == <<vars, planningVars>>

Unprobed == {"unprobed"}
NoPlan == [s \in Steps |-> {}]
Returns == pc \in {"returned", "raised"}

\* That an accepted plan has no cycle is for ValidatorIsExact to say.
AgentTypeOK ==
  /\ ExecutionTypeOK
  /\ stage \in {"planning", "executing", "replanning", "over"}
  /\ point \in {"none", "resolve", "call", "parse"}
  /\ available \in {Unprobed} \cup SUBSET Reasoners
  /\ usage \in [llm : 0 .. MaxLlmCalls, tokens : 0 .. MaxTokens, repairs : 0 .. MaxRepairs]
  /\ attempt \in 0 .. MaxReplans /\ posts \in Nat
  /\ cyclic \in [Steps -> SUBSET Steps]

AgentInit ==
  /\ Init /\ deps = NoPlan
  /\ stage = "planning" /\ point = "resolve"
  /\ available = Unprobed
  /\ usage = [llm |-> 0, tokens |-> 0, repairs |-> 0]
  /\ attempt = 0 /\ posts = 0 /\ cyclic = NoPlan

-----------------------------------------------------------------------------
(***************************************************************************)
(* The gateway and the model.                                              *)
(***************************************************************************)

\* create_plan lets every exception through and ends the run; after a failed
\* replan the caller still has the failed plan.
Fail ==
  /\ stage' = IF stage = "planning" THEN "over" ELSE "executing"
  /\ point' = "none"

\* Ollama is asked once which models it has.  A probe that fails counts as
\* "none", and that answer is kept as well.
Refreshed == IF available = Unprobed THEN SUBSET Reasoners ELSE {available}

\* ModelGateway.resolve raises if no candidate is available.
Resolve ==
  /\ point = "resolve"
  /\ available' \in Refreshed
  /\ \/ available' # {} /\ point' = "call" /\ UNCHANGED stage
     \/ available' = {} /\ Fail
  /\ UNCHANGED <<vars, usage, attempt, posts, cyclic>>

NoLlmCall == usage.llm >= MaxLlmCalls
NoTokens == Requested > MaxTokens - usage.tokens

\* Mutant: a call refused for its tokens keeps its reservation.
DeniedUnreleased ==
  /\ NoLlmCall \/ NoTokens
  /\ usage' = [usage EXCEPT !.llm = IF NoLlmCall THEN @ ELSE @ + 1]
  /\ Fail
  /\ UNCHANGED posts

\* BudgetExceededError.  A call refused for the tokens it might generate gives
\* the call it has reserved back.
Denied ==
  /\ NoLlmCall \/ NoTokens
  /\ Fail
  /\ UNCHANGED <<usage, posts>>

\* The request is sent.  One that fails stays counted; one that is answered is
\* charged with the tokens that were generated.
Posted ==
  /\ ~NoLlmCall /\ ~NoTokens
  /\ posts' = posts + 1
  /\ \/ usage' = [usage EXCEPT !.llm = @ + 1] /\ Fail
     \/ \E generated \in 0 .. Requested :
          /\ usage' = [usage EXCEPT !.llm = @ + 1, !.tokens = @ + generated]
          /\ point' = "parse" /\ UNCHANGED stage

CallModel ==
  /\ point = "call"
  /\ Denied \/ Posted
  /\ UNCHANGED <<vars, available, attempt, cyclic>>

-----------------------------------------------------------------------------
(***************************************************************************)
(* A proposal, and what is checked of it.                                  *)
(***************************************************************************)

\* "malformed": no JSON, no object, no list of steps, a step without an id or
\* a tool.  "unfit": the tool is disabled, or not for this type of task.
Proposals ==
  [depends_on : [Steps -> SUBSET (Steps \cup {Stranger})],
   flaw : {"none", "malformed", "no_goal", "no_steps", "duplicate_id", "blank_id",
           "blank_tool", "unknown_tool", "unfit"}]

\* PlanValidator.validate, except for cycles.
Errors(p) ==
  \/ p.flaw \in {"no_goal", "no_steps", "duplicate_id", "blank_id", "blank_tool", "unknown_tool"}
  \/ \E s \in Steps : s \in p.depends_on[s] \/ Stranger \in p.depends_on[s]

\* _has_cycle: a depth-first search whose state is threaded through the visits
\* and which stops at the first cycle found.
Searches == [cycle : BOOLEAN, visiting : SUBSET Steps, visited : SUBSET Steps]
Unvisited == [cycle |-> FALSE, visiting |-> {}, visited |-> {}]

\* Mutant: a step that is done is not taken off those being visited.
VisitForever(search, s) == [search EXCEPT !.visited = @ \cup {s}]

\* visit() begins with a step, is done with it, or meets one it has begun with.
Enter(search, s) == [search EXCEPT !.visiting = @ \cup {s}]
Leave(search, s) == [search EXCEPT !.visiting = @ \ {s}, !.visited = @ \cup {s}]
Found(search) == [search EXCEPT !.cycle = TRUE]

\* The steps of a set are visited one after the other.
VisitAll(visit, search, set) == FoldSet(LAMBDA s, sofar : visit[s][sofar], search, set)

\* The body of visit(), which calls itself for each dependency.
Explore(d, visit, s, search) ==
  IF search.cycle \/ s \in search.visiting THEN Found(search)
  ELSE IF s \in search.visited THEN search
  ELSE Leave(VisitAll(visit, Enter(search, s), d[s]), s)

HasCycle(d) ==
  LET visit[s \in Steps] == [search \in Searches |-> Explore(d, visit, s, search)]
  IN  VisitAll(visit, Unvisited, Steps).cycle

WellFormed == {p \in Proposals : p.flaw # "malformed" /\ ~Errors(p)}
Cyclic == {p \in WellFormed : HasCycle(p.depends_on)}
Selectable == {p \in WellFormed \ Cyclic : p.flaw # "unfit"}
Refusable == Proposals \ Selectable
UnrelatedRefusal == Refusable \ Cyclic # {}

\* create_plan: what passes the parser, the validator and the tool selector is
\* executed, by a task made for it.
AcceptPlan ==
  /\ point = "parse" /\ stage = "planning"
  /\ \E p \in Selectable : deps' = p.depends_on
  /\ stage' = "executing" /\ point' = "none"
  /\ UNCHANGED <<manager, task, plan, sets, pc, at, copy, error, worker, budget>>
  /\ UNCHANGED <<available, usage, attempt, posts, cyclic>>

\* The error of the validator that names the cycle is kept apart.
RefusePlan ==
  /\ point = "parse" /\ stage = "planning"
  /\ Fail
  /\ \/ \E p \in Cyclic : cyclic' = p.depends_on
     \/ UnrelatedRefusal /\ UNCHANGED cyclic
  /\ UNCHANGED <<vars, available, usage, attempt, posts>>

-----------------------------------------------------------------------------
(***************************************************************************)
(* Replanning.                                                             *)
(***************************************************************************)

\* The caller passes a step that failed and the number of the attempt.
CanReplan ==
  /\ stage = "executing" /\ pc = "returned" /\ plan = "failed" /\ failed # {}
  /\ attempt < MaxReplans

\* Mutant: the attempt is not counted.
ReplanUncounted ==
  /\ CanReplan
  /\ attempt' = attempt + 1
  /\ attempt < MaxAttempts /\ usage.repairs < MaxRepairs
  /\ stage' = "replanning" /\ point' = "resolve"
  /\ UNCHANGED <<vars, available, usage, posts, cyclic>>

\* The attempts of the Replanner, and then those of the governor: an attempt is
\* counted before a model is resolved and is never given back.
Replan ==
  /\ CanReplan
  /\ attempt' = attempt + 1
  /\ \/ /\ attempt < MaxAttempts /\ usage.repairs < MaxRepairs
        /\ usage' = [usage EXCEPT !.repairs = @ + 1]
        /\ stage' = "replanning" /\ point' = "resolve"
     \/ /\ attempt >= MaxAttempts \/ usage.repairs >= MaxRepairs
        /\ UNCHANGED <<usage, stage, point>>
  /\ UNCHANGED <<vars, available, posts, cyclic>>

\* The replacement is checked like a first plan.
ParseReplacement ==
  /\ point = "parse" /\ stage = "replanning"
  /\ \/ Selectable # {} /\ stage' = "over" /\ point' = "none"
     \/ Refusable # {} /\ Fail
  /\ UNCHANGED <<vars, available, usage, attempt, posts, cyclic>>

Planning == Resolve \/ CallModel \/ AcceptPlan \/ RefusePlan \/ ParseReplacement

Execute(A) == stage = "executing" /\ A /\ UNCHANGED planningVars

\* The governor's clock runs from the start; replanning does not look at it.
AgentNext ==
  \/ Planning \/ Replan
  \/ Execute(Executor \/ \E s \in Steps : Worker(s))
  \/ Execute(Cancel)
  \/ stage \in {"planning", "executing"} /\ TimeExpires /\ UNCHANGED planningVars

AgentSpec == AgentInit /\ [][AgentNext]_agentVars

\* The thread of the run is never suspended for ever, and every request to the
\* model and every tool call ends: model calls and the sandbox have timeouts.
FairAgentSpec ==
  /\ AgentSpec
  /\ WF_agentVars(Planning)
  /\ WF_agentVars(Execute(Executor)) /\ \A s \in Steps : WF_agentVars(Execute(Worker(s)))

-----------------------------------------------------------------------------
(***************************************************************************)
(* Properties.                                                             *)
(***************************************************************************)

\* The depth-first search of the validator is exact: what reaches the executor
\* has no cycle, and no plan without one is refused for having one.
ValidatorIsExact ==
  /\ stage = "executing" => deps \in [Steps -> SUBSET Steps] /\ Acyclic(deps)
  /\ cyclic # NoPlan => ~Acyclic(cyclic)

\* Over planning, execution and replanning the governor's counters tell what
\* was done: the calls of the model are the requests sent, one for the plan
\* and at most one per counted repair attempt, and the tool calls and slots
\* cover the steps.
BudgetIsKept ==
  /\ WithinBudget
  /\ usage.llm = posts /\ posts <= MaxLlmCalls
  /\ posts <= 1 + usage.repairs
  /\ usage.repairs <= attempt
  /\ attempt > 0 => Returns

\* Whatever the model answers, the run comes to rest again and again: planning
\* and replanning end, and no accepted plan keeps the executor waiting for
\* ever.
RunsComeToRest == []<>(stage = "over" \/ (stage = "executing" /\ Returns))
=============================================================================
