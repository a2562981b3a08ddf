# A verification of SOVARA's backend in TLA+

SOVARA answers questions about uploaded documents, tables and images with local
language models. These modules model the parts of its Python backend (`src/app`) in
which the order of things matters: the durable task state, an agent run from its plan
to its end, human approval and the execution of tools behind it, the HTTP layer that
runs an analysis, the workflow graph, and the knowledge vault with the retrieval over
it. TLC checks them on small instances; TLAPS proves every safety property of these runs
for every value of the constants. Liveness is left to TLC.

## The system

| Component | State it keeps | Operations | Interacts with |
|---|---|---|---|
| Task state (`state/`) | one SQLite row per task (version, status, steps, metadata), checkpoints | create, add/start/complete/fail step, start/complete/fail/cancel task, resume, metadata, checkpoint, recover, delete | called by the API, the executor and its workers; no lock across read and save, only a version check in the store |
| Plan executor (`planner/executor.py`, `evaluation/integration.py`, `governance/budget.py`) | sets of pending, completed, failed, skipped steps, futures, budget counters | `execute` | thread pool; task state from two sides (executor and worker); broker |
| Human approval (`hitl/`) | one row per approval request | create, get, list, approve, reject, cancel, expire, approve-and-execute | API routes and execution gate, a manager each; broker |
| HTTP API (`api/routes.py`, `report/`, `services/conversation_service.py`) | `analysis_store`, conversations, reports | analyze, stream, replay, reconnect, get analysis, create report | event loop and worker threads; task state; workflow |
| Workflow (`workflow/`) | one `WorkflowState` per run | nodes of a LangGraph graph | models, retriever, sandbox, vault |
| Planner, replanner, tool selection (`planner/`) | none | `create_plan`, `replan` | model gateway, budget governor, executor |
| Model gateway and adapters (`models/`) | which models are available; the governor's counters | `resolve`, `generate_structured` | Ollama |
| Execution broker, governance (`execution/`, `governance/`) | audit events | `execute` | gate, executor, sandbox, two policies |
| Knowledge vault, vector store (`services/`) | a file, a row and a set of vectors per document | add, search, reindex, delete | API, workflow, retrieval |
| Retrieval (`rag/`, `services/ttl_cache.py`) | cache, the governor's counters | `search` | vector store |
| Memory, report composition, telemetry, tools, UI | logs | | |
| Frontend server (`frontend/server`) | sessions, users, memberships (PostgreSQL) | sign-in, organisation management | browser, Keycloak |

The planner, the plan executor, the broker, the approval gate and the retrieval engine
are complete and tested but the API does not call them yet; it runs the workflow graph
directly and serves the approval requests and the vault. They share the task row, the
approval table and the vector store by design, and the models compose them as their
constructors allow: one governor for a run, one manager for gate and API, one store for
vault and engine.

What is hard about it: read-edit-save races on a row, results that arrive after a
cancellation, two threads that settle one step, expiry against approval, a crash
between the writes of one analysis, clients that disconnect and come back, and a graph
with short cuts and a repair cycle, three stores that are changed one after the other,
a cache without a lock, counters that several callers look at before they reserve.
`PROJECT.json` lists
these hazards with their lines and the properties that would notice them.

## Modules

    TaskRecord ── the row and its operations, pure     (TaskRecordProofs: lemmas)
      ├── TaskLifecycle      what the store promises: atomic operations
      ├── TaskState          several callers race on it      ── implements TaskLifecycle
      │     └── TaskStateProofs   (and the refinement)
      ├── PlanExecution      executor, workers and budget over the same row
      │     │                                               ── implements PlanPromise
      │     └── AgentRun     planner, model, executor, replanner under one governor
      │           └── AgentRunProofs   (of PlanExecution and of AgentRun)
      └── AnalysisRun        HTTP requests over many rows
            └── AnalysisRunProofs
    PlanPromise              what execute() promises: steps that end once and in order
    Approvals                                               ── implements ApprovalPromise
      └── ExecutionGate      gate, API and broker over the manager
            └── ExecutionGateProofs   (of Approvals and of ExecutionGate)
    ApprovalPromise          what the manager promises: decisions and grants at an instant
    KnowledgeVault           files, rows and vectors
      └── Retrieval          the engine, its cache and budget over the vault's store
            └── RetrievalProofs       (of KnowledgeVault and of Retrieval)
    WorkflowGraph ── WorkflowGraphProofs
    FiniteInduction ── induction and folds over finite sets, for the proofs

The `MC` modules add what the runs need: symmetry, the set of all plans, who calls which
manager, tools and policies.

**TaskRecord** has for each operation of `AgentStateManager` a guard (`CanStartStep`)
and a result (`StepStarted`). Three modules use them, so the executor and the API are
checked against the same guards as the store. Of observations only their number per
step is kept, of metadata only the keys.

**TaskState.** A call is two steps: the first reads the row, applies the guard and
edits a copy (`StartStep(c, s)`, ...); the second is `DurableStateStore.save`
(`Commit`, or `Conflict` when `Rejected`). Recovery has three, because it reads the
checkpoint and the row separately. In between a caller may crash, and anybody may
commit. `deletes` numbers the incarnations of the row, because versions start again
from 0.

**PlanExecution.** `pc` is where the thread of `execute()` stands, `at` the step it
deals with, `copy` the row it has read. Its state calls go through `ReadRow` and
`SaveRow`, those of a worker through `WorkerReads` and `WorkerSaves`; a save over a
changed row raises. `deps` ranges over all plans. With `manager = "durable"` the calls
are those of `AgentStateManager`; with `"recording"` those of the stand-in with which
the repository's tests run the executor, which accepts every call: there the whole
schedule is explored, where the durable manager often makes `execute()` raise early
(see the findings). `Cancel` is another client's call, `TimeExpires` the clock of the
budget. A state call that raises leaves the `with` block only after the pool has drained
(`"raising"`). `Standing` and `Result` are what the caller of `execute()` can tell of a
step and of the plan; over them it implements **PlanPromise**, where a step is begun when
what it depends on has passed, is called once and ends once, or is denied or skipped for
a reason, where a cancellation stops what has not begun, and where a return accounts for
every step and no tool is called after it.

**AgentRun** extends it. `stage` is the part of the run, `point` the call that planning
or replanning makes next: `Resolve` the gateway (whose one probe of Ollama is kept,
`available`), `CallModel` through `OllamaAdapter` with its reservations (`Denied`,
`Posted`), then `AcceptPlan` or `RefusePlan`. `Proposals` is what a model may answer:
any dependencies over the steps, on a step and on a stranger, with at most one other
flaw; `Errors`, `HasCycle` and `Selectable` are parser, validator and tool selector. An
accepted plan is executed by the actions of `PlanExecution`, lifted by `Execute`.
`Replan` counts the attempt before anything else and may be called again and again; what
it returns has no caller in `src/app`, and the run ends with it. Governor and gateway are
one for the run, as the constructors of `Planner`, `Replanner` and `PlanExecutor` allow.

**Approvals.** A call waits for the lock of its manager (`Ask`, phase `"wait"`), takes it
and reads (`Read`, `ReadPending`), writes and returns; `list_pending` deals with the rows
of its query one after the other. The gate goes on to `"execute"` after the lock was
released. `Lapse` is the clock. `Abort` is an
exception or the death of a caller at any point.

**ExecutionGate** extends it with what stands around the manager. A client is in a
manager call (`call`, of `Approvals`), in the gate (`job.pc` is `"manager"` or
`"record"`) or in `broker.execute` (`"evaluate"`, `"enforce"`, `"run"`, `"end"`).
`CallManager` is an API handler that decides past the gate. `Succeeds` is when the gate's call of the manager
returns instead of raising: it has saved what it was asked for, or `expire` has found
the request expired already, which the gate records once more. `Permits`, `Enforces` and
`Approves` are the three policies, over the `ToolSpec`s of `Registry`. `trail` counts
the audit events per tool; `ran` and `lost` are history: handlers entered, and calls
ended by an exception of the sandbox, which nothing catches.

**AnalysisRun.** A request walks through the calls of `run_multimodal_analysis`
(`Following`), each of which may raise (`RunRaises`); only an exception of
`workflow.invoke` is handled by the code. `Crash` kills the process and empties
`analysis_store`. `/analyze` runs on the event loop and blocks it (`LoopFree`); a
stream runs on a thread and its events are sent by the loop. What the client is told
is in `told`. The event frames themselves are not modelled: in the source their line
ends are written `\\n`, that is, as two characters.

**KnowledgeVault.** `status`, `files` and `points` are the three stores; `call` is the
add, reindex or delete under way. The API's handlers never await while they are in the
vault, so there is one call at a time; a search runs in a workflow thread beside it.
Each write may fail (`Fault`) and the process may die between any two (`Crash`). The
vector store is embedded and a call to it is not atomic for other threads: `Upsert` and
`Wipe` take several steps. A search draws which chunks reach `min_score` for its query
(`above`); the answer to each document's query and the whole are cut to any `TopK` of
them (`Best`), as the scores, which are not kept, may fall. `hollow` is history: documents whose vectors a call began to
delete and whose status was not written since.

**Retrieval** composes the engine with it. `TTLCache` takes no lock, and each access to its
entries is a step: `get` is `Lookup`, then `Touch` or `Drop`; `set` is `Assign`, `Order`
and a loop of `Measure` and `Evict`. `Touch` and `Order` are `move_to_end`, which raises
`KeyError` when another caller has removed the key; in `set` the answer has been charged
by then and is lost (`Lose`). The hybrid retriever reads the store twice (`Retrieve`),
with the vault's steps in between; the look at the remaining context, reservations,
charges and the release after a failure are steps of their own. `read`, `given` and
`wasted` are history: retrievals that did not fail, tokens of the answers returned, and
tokens of those `set` lost. `scenario` splits the behaviours in two to keep the run
small: faults and workflow searches are explored without questions to the engine;
questions without faults, and with documents of one content that are listed one at a
time (the one before may still be in the cache).

**WorkflowGraph.** `node` is the node that runs next. Each action is a node with the
edge after it. Evidence is a set of kinds, an answer says whether its citations and
its numbers are right; what models return is chosen freely. `steps` counts the nodes that
have run. LangGraph's own limit on the steps of a graph is not modelled: the code
sets none (`workflow.invoke(state)`, `api/routes.py:256`), so it is the default of a
library that `requirements.txt` does not pin, and how that counts its own first and last
steps is not in this repository. What can be said from the source is how long a run may get:
`LongestRun`, 25 nodes with the code's three repairs.

## Runs

| Run | Instance | Checks |
|---|---|---|
| `TaskStateRaces` | 2 callers, 1 step, 1 metadata key, 1 checkpoint id, versions up to 4, 1 delete | `NoLostUpdate`, `NoSpuriousConflict`, `CompletionIsSound`, `TerminalIsFinal` |
| `TaskStateLifecycle` | 2 callers, 2 steps, 1 checkpoint id, versions up to 6, no delete | `EveryAttemptSettledOnce`, `CurrentStepRuns`, refinement of `TaskLifecycle` |
| `AgentRun` | every proposal over 3 steps, 2 workers, 2 slots, 2 tool calls, 2 model calls of 2 tokens out of 3, 2 repairs, 3 attempts, 4 calls of `replan`, a time limit, both managers | `ValidatorIsExact`, `BudgetIsKept`, `DependenciesFirst`, `ReportIsComplete`, `ReportMatchesRow`, `CancelStopsScheduling`, refinement of `PlanPromise` (`KeepsPromise`), `RunsComeToRest` |
| `ExecutionGate` | 2 clients, 2 requests, one of which expires, 6 kinds of tools, 2 submissions or decisions through the gate and any number past it | `SensitiveRunsAreApproved`, `TrailIsComplete`, `NoExecutionWithoutApproval`, `ExecutedAtMostOnce`, refinement of `ApprovalPromise` (`KeepsGrants`), `CallersFinish`, no deadlock |
| `AnalysisRun` | 2 requests, 2 tasks, 1 old conversation, 2 failures | `WorkflowRunsOnce`, `CompletedIsDurable`, `AnalysisIsStable`, `StreamsEnd` |
| `WorkflowGraph` | 3 repairs, every request | `RunIsBounded`, `DeliverableIsVerified`, `NoRouteLost`, `EvidenceIsKept`, `Terminates` |
| `Retrieval` | 2 documents of 2 chunks, searches for 2, 2 faults, 2 callers, a cache of 1, a TTL of 1 and 1 tick, 3 questions, 2 retrievals, 2 tokens of context | `StoresAgree`, `IndexedIsComplete`, `DeletedMeansGone`, `SearchIsConsistent`, `AnswersAreRecent`, `SpendingIsExact` |

`AgentRun`, `AnalysisRun`, `WorkflowGraph` and `Retrieval` also check their type
invariant; the type invariants of all modules are proved. Five more runs each find a property violated that the repository
states and its code does not keep:

* `PlanDoubleSettle`: worker and executor both settle a step, so with the durable
  manager a plan whose tools all succeed raises;
* `PlanNoProgress`: a failure at the end of a chain whose step ids sort against it is
  reported as an inconsistent dependency state;
* `ApprovalsTwoManagers`: two managers on one database overwrite each other's decision;
* `AnalysisReconnect`: a task that has ended without a result yet, or for good, is
  reported to a reconnecting client as in progress, because upper-case status names are
  compared with lower-case values;
* `WorkflowVaultOrder`: the vault is searched after the reasoning that should use it.

### Bounds

* `MaxVersion`: no call begins on a row of that version, so histories have that many
  committed operations. Four are enough to create a task, complete or cancel it, and
  race two more operations with a recovery and a deletion; six take one step through
  start, failure, restart and completion. A lost update needs two callers and one row.
  The proofs do not use this bound.
* Three steps are the fewest with a chain, a fork and a join, and with an id order
  against the chain; two slots and two tool calls let both limits be met.
* Two model calls, two repairs, three attempts, four calls of `replan`: the governor
  refuses a model call, then a repair, and then the replanner an attempt; a call may
  have too few tokens left. Dependencies on a stranger and on oneself are among the
  proposals, so the validator meets every graph over three steps.
* Two clients of one gate with two requests for one tool: one executes while the other
  decides, lists, executes the same request or submits another; a third would only
  repeat one of the two (the theorems have any number). A tool for each outcome of the
  policies. While one is in the lock, over both rows or dying there, the other waits.
* Two documents: one is deleted and the other must be left alone, or the same content
  comes back under a new id. Two faults: a call cut short, and its repetition cut short.
  Four chunks and a search for two: an answer that is cut, one that is not, and one
  document that leaves no room for the other. A cache of one entry evicts on the second
  document, and the two callers may both be in `set` with a key each, or one in `get`
  while the other evicts; the tick may fall anywhere between the steps of a lookup.
  Two tokens are one document: a second answer is refused before it is retrieved, or
  after, when both callers looked first. A store, a hit and a second hit
  are three questions.
* Two requests and two failures: every pair of requests for the same or for different
  tasks, with a crash between and an exception in either. Each request is one HTTP
  request; a reconnect is the second.
* `WorkflowGraph` has no bound of its own: `MaxRepairs` is the code's, and `steps` stops
  counting at one above `LongestRun`.
* Not reached within these bounds: with two tool calls for three steps no plan
  completes, so what `AgentRun` says of completed plans rests on the theorems.

`CHECK_DEADLOCK FALSE` is said where the system really stops: at `MaxVersion`, when a
run is at rest, when every request or question is used, at the end of a workflow. The
violation runs say it because their models stop in the same way.
`ExecutionGate` has no end, and deadlock is checked.

### Fairness

Safety needs none. `RunsComeToRest` assumes that the thread of the run goes on and that
every worker does: a tool call ends because sandbox and model calls have timeouts
(`timeout=120` at `ollama_adapter.py:99`). It says that the run is at rest again and
again, not that it ends: the caller may replan. `CallersFinish` assumes that a call under
way goes on when it can; it may still die. Whoever waits for the lock is under way, too,
and gets it unless others take it and give it back again and again: an `RLock` promises
no turns, and no more is claimed. What is excluded is a call that keeps the lock, also
by dying in it. No fairness is assumed for the arrival of requests, for
clocks, cancellations or crashes. `StreamsEnd` assumes that the thread of a run and the
event loop go on, `Terminates` of the workflow that `invoke` runs the next node.

## Proofs

Every theorem holds under the assumptions its modules name and no other, unless its
statement has a hypothesis of its own: `OneManager` for the approvals, `MaxDeletes = 0`
for the refinement.

**Task state** (`TaskStateProofs`). No single property is inductive: that a save
overwrites nothing depends on what it is about to save and on what the version it read
still says. The invariant `IInv` is

* `SavesFollow`: what a call holds is exactly one operation, or one recovery, away from
  the row it read, under that row's version;
* `SavesKnowTheirRow`: within one incarnation, a row as old as the present one is the
  present one (versions identify rows), and none is newer;
* `CopiesConsistent`: in every copy anywhere attempts and outcomes balance, and
  `current_step_id` names a running step.

A commit passes the version check, so by `SavesKnowTheirRow` its base is the present
row; by `SavesFollow` the new row is one version later, which keeps older bases older.
From this follow `NoLostUpdate`, `NoSpuriousConflict`, `CompletionIsSound`,
`TerminalIsFinal`, `EveryAttemptSettledOnce` and `CurrentStepRuns`. The assumptions are
those `TaskRecord` and `TaskState` name: the null values are not records or steps, and
the bounds are naturals.

**Agent run and plan executor** (`AgentRunProofs`), for any finite set of steps, any
dependencies and any limits. `ExecutionInv` is made of parts that are preserved one
after the other, each with the help of the ones before:

* `Places`: each step is in one of the sets of `execute()`, or being settled; what is
  left in the `for` loop is pending. Only a denial the manager has refused leaves a step
  both pending and failed, and then `execute()` raises;
* `Runs`: no worker is at work for a pending or skipped step, those in flight are
  futures, what is completed has passed, and the step about to be started has its
  dependencies among the completed ones. `DependenciesFirst` is its last conjunct: when
  a step is queued its own worker is idle, so no dependent's record is disturbed;
* `Copies`: a copy held by executor or worker that is as new as the row is the row.
  Hence every save is an operation on the present row (`NoUpdateIsLost`, which is
  proved and is no property of a run: `CancelStopsScheduling` is its use), a cancelled
  task stays cancelled (the lemmas of `TaskRecordProofs`), and a `start_step` that
  passes the version check has seen a running task (`CancellationStopsScheduling`);
* `Skips`, `Spending` (slots are futures, plus the step about to be started),
  `Outcome` and `RowReported` (a step that runs in the row is a future or being
  settled) for the reports. `SkippedForAReason` is proved as well; TLC checks it as part
  of the refinement. That a completed plan has no skipped step uses that the
  dependencies have no cycle.

An agent run takes the steps of `PlanExecution`, and one that gives the executor its
plan before it has begun (`AgentSteps`, `AcceptPlanInv`); `Counted` relates the
governor's counters to the requests sent: a request is under way only for the first plan
or for the repair counted last. With `PlannerTyped`, which is about the limits, it gives
`AgentTypeCorrect`.

`ExecutionKeepsPromise` and `AgentKeepsPromise` are the refinement of `PlanPromise`. The
map sends `execute()`'s sets to the standing of each step; by `Places` the sets are
disjoint where it matters, so that each action moves what it should: a start or a denial
one waiting step, `LoopTop` the blocked ones (each of which has its reason, in the same
step if need be, by `BlockedHaveReasons`), `Settle` one step at work, or none if the time
limit had failed it. `Calls` says that a step at work has a worker that will call its
tool or has. That a cancellation is never undone, so that the promise may keep it as a
flag, is `OnlyTheClientCancels`. In an agent run the accepted plan is handed over before
a step has moved, and without a cycle by `ValidatorDecides`.

`AgentValidatorIsExact` is about a recursive search, and so about what a recursion
computes for every input. `HasCycle` is a recursive function of a step and the state of
the search, whose calls are folds over the sets of dependencies. `FiniteInduction` has
what the library's induction theorems, which take an operator, cannot give here:
induction as a statement about *sets* of numbers and of finite sets (from the least
element of a set of naturals), that a fold over a finite set exists, and what it
preserves (`FoldedKeeps`, `FoldedAgrees`). The function exists (`VisitsExist`) because
each call that calls itself has one more step in `visiting`. The same measure carries
the correctness (`VisitsSound`): a search that has not found a cycle is `Clean` (what is
visited depends on nothing unvisited, and has no cycle), one that has found one has met
a step to which everything in `visiting` leads (`LeadsTo`, `CycleFound`). So
`ValidatorDecides`: `HasCycle` holds exactly for dependencies with a cycle, in whatever
order the sets are gone through; and every report of an agent run is complete.

**Refinement** (at the end of `TaskStateProofs`). `TaskState` implements `TaskLifecycle` as long
as no row is deleted (`MaxDeletes = 0`; a deleted row's checkpoints would be ahead of its
successor). The map is the identity on the two tables: a commit is the atomic operation,
everything else in a call a stuttering step. It needs `RInv`: checkpoints are not ahead
of the row, and a recovery's copy is a saved checkpoint.

**Approvals** (`ExecutionGateProofs`), for any number of requests and callers, and one
manager for all of them (`OneManager`): the lock makes every copy that was read equal
to its row (who waits has no copy yet), so that a decision is written over a pending row
only, and at most one caller ever leaves with an approval. `GrantsAreKept` is the refinement of
`ApprovalPromise`: the save is the instant of the decision, and of the grant if the gate
asked for it; reads and ends of calls are stuttering steps, and a grant goes with the one
caller who holds it (`GrantIsUsedUp`). `TypeCorrect` holds for any number of managers, and
`ApprovalsTwoManagers` shows that the others do not.

**Execution gate** (`ExecutionGateProofs`). `GateOverManager`: every step of gate and
broker is a step of the manager or leaves it alone, so that the theorems about the
manager carry over (`GateKeepsDecisions`, `GateKeepsGrants`; with one manager TLC checks
finality as part of the refinement). `SensitiveToolsWait` needs an inductive
invariant, `GateInv`: for each tool, runs and runs about to be entered (`InFlight`, a
cardinality over the clients) are covered by recorded approvals; only an execution of
an approved request puts a sensitive tool on its way to the broker, and that step
records the approval first. The only assumptions are those of the module: tools, policies
and clients are arbitrary, there may be several managers, the clients are finitely many.
`TrailStaysComplete` takes three more counts than the property: `LedgerInv` also says
who is between a permission and its start, between a start and the handler, and between
the handler and the completion, so that every step of a client moves one entry of a
column to the next (`OneMoves`). Who is past the manager is not in a call of it
(`Apart`), so that a caller that dies leaves its entry where `lost` counts it.
`OneManager` is needed only for the last conjunct, that no approval is recorded that no
row bears out (`ApprovalsCounted`): two managers may overwrite the row afterwards.

**Vault and retrieval** (`RetrievalProofs`). `VaultInv` says for each point of a
call what is already, or still, in each store: while a delete is at `"row"` the vectors
are gone, while an add is at `"insert"` its file is there and its row is not, at
`"indexed"` all chunks are stored; ids not yet drawn are nowhere. From this follow
`StoresAgree`, `IndexedIsComplete` and `DeletedMeansGone` for any number of documents,
chunks and faults; `EngineOverVault` carries them to the composition.
`SearchesAreConsistent` needs `SearchIsSound`: a document nobody has disturbed since the
search began still has all its chunks, and has still to be looked at, or all of it that
reaches the threshold was found, or what was found fills `TopK` already; every step of
the vault leaves such documents alone or disturbs the one it wipes (`VaultGrows`).

The engine's `EngineInv` holds the ages of cached and looked-up answers under the clock,
the calls reserved against the callers that retrieve, and the context charged as a sum
over what was given, what was lost and what the callers under way have been charged
(`SpendingBalanced`). That sum is `SumFunctionOnSet`, again a fold: `SumsExist` and
`SumChanges` say that it exists and how one summand changes it. The cache is a sequence
without repetitions whose entries are added, replaced, moved and dropped while other
callers hold their places in it (`CacheReordered`, `CacheReplaced`). That it exceeds its
size by an entry per caller in `set` at most (`TypeCorrect`) is not inductive, because a
caller that leaves by `KeyError` is no longer counted. `CacheBounded` counts *keys* of
the cache that somebody has still to move to the end, and callers who have yet to make
room: the key of a caller that is about to fail is not in the cache.

**HTTP layer** (`AnalysisRunProofs`), for any number of requests, tasks, conversations,
crashes and exceptions. Nothing in a row says who runs the analysis, so the invariant
has to: `OneOwner`, the run that created a task's row is its owner for good, known by
its position, by having invoked the workflow, or by the `request_id` in the metadata.
`Progress` reads the row and the metadata off the owner's position, `Shown` and
`Remembered` say what an answer, a report, a cache entry or a conversation was based on.
`AnalysisRunsOnce` is then that two invocations have two owners; `CompletionsLast` and
`AnalysesStay` that a completed row is never left and that a result, once in the
metadata, is written by nobody else.

**Workflow graph** (`WorkflowGraphProofs`). The invariant has one part per property:
`Routing` (routes that have run come before those pending, in the order of
their priorities), `Findings` (which evidence there can be before which node; the vault,
which replaces the list, runs when there is none of others to lose), `Counted`,
`Verified` (what is delivered was the last answer verified) and `Spent` (nodes run when
each is reached: three before the first dispatch, two per route, six to the first
verification, two per repair). `RunsAreBounded` follows for any number of repairs.

Only model-checked are the four liveness properties (`RunsComeToRest`, `CallersFinish`,
`StreamsEnd`, `Terminates`): fairness is out of this prover's reach. The five runs that
find a violation are counterexamples and need no proof.

## Observations

What the modelling met beside the findings, where no text of the repository says
otherwise:

* An approved request is executed without the arguments it was submitted with
  (`hitl/execution.py:194`), so an approved sandbox run always fails its validation.
* The default governance policy rejects tools above medium risk before the approval
  policy is asked; the runs use one that leaves them to it.
* Expiry by the manager and decisions of the API leave no audit event.
* `RAGEngine()` builds `HybridRetriever()` without its required arguments.
* Two threads in `TTLCache` may lose a key to each other: the search then raises
  `KeyError`, from `set` after its tokens were charged (`engine.py:177`, `185`).
* Nothing renews the gateway's availability once a probe has failed, and nothing
  invalidates cached answers of a deleted document: they are shown until they expire.
* A cut-short reindex or delete leaves a row that says `indexed` without its vectors
  (`IndexedIsComplete` names the exception), and an interrupted add leaves a row that
  answers every later add of the same file.

## Not modelled

Texts, prompts, scores, files and layouts. Ranking, fusion and diversity of retrieved
evidence are pure functions of floating-point numbers; parsers and the sandbox are I/O
whose failures appear as calls that raise. Fallback adapters are never built by the
default registry (one model per capability; if they were, `generate_structured` would
pass the schema where `OllamaAdapter` expects the system prompt), and streaming is a
display of the same call. Run traces and telemetry are written and not read by any
decision. `execute_approved` calls `approval_manager.get`, which does not exist. The
timestamps of `touch()` are left out: at microsecond 999999 of a clock that stands still
it raises. The nodes of the workflow appear by their outcomes, not by their text
processing. The frontend and its server are other programs.

## Plan

Done: task state and its refinement, plan execution, approvals, analysis runs, workflow
graph, vault, retrieval, execution gate, agent run; abstract
specifications of the task store, the executor and the approvals; proofs of the safety
properties of all of them.

1. Execution of a replacement plan, once the code has a caller for it.
2. The membership store of the frontend server.
