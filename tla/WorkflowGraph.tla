---------------------------- MODULE WorkflowGraph ----------------------------
(***************************************************************************)
(* One run of the analysis workflow (app/workflow/graph.py): a graph of    *)
(* nodes over one WorkflowState.  The task analyzer and the policy router  *)
(* choose routes, the dispatcher runs them one after the other, and then   *)
(* an answer is chosen, verified, repaired and delivered.                  *)
(*                                                                         *)
(* Abstracted: texts.  An item of evidence is its kind; an answer is what  *)
(* the verifier tells of it, whether its citations are those of existing   *)
(* evidence and whether its numbers are those of the data results.  What   *)
(* the models, the retriever and the sandbox return is chosen freely.      *)
(***************************************************************************)
EXTENDS Naturals, Sequences, FiniteSets

CONSTANTS MaxRepairs,     \* max_repair_attempts
          NoAnswer

Answers == [cited : BOOLEAN, numeric : BOOLEAN]

ASSUME LimitAssumption == MaxRepairs \in Nat
ASSUME NoAnswerAssumption == NoAnswer \notin Answers

VARIABLES node,       \* the node that runs next, or "end" or "raised"
          files,      \* types of the uploaded files
          field,      \* whether the query asks for one labelled fact
          labelled,   \* the kinds of evidence in which its label would be found
          wanted,     \* requested_deliverable is "report" or "json"
          task,       \* capabilities in task_state
          selected, pending,            \* routes
          retrieved, normalized,        \* evidence; whether it went through aggregation
          documents, data, code, vision, facts,   \* numbers of results
          reasoning, synthesis, final,  \* answers
          synthesize,                   \* synthesis_required
          status, repairs,              \* of the verification
          delivered,                    \* the answer in the generated deliverable
          ran,                          \* routes that have run
          steps                         \* nodes that have run, up to one too many

request == <<files, field, labelled, wanted>>
routes == <<selected, pending, ran>>
results == <<retrieved, normalized, documents, data, code, vision, facts>>
answers == <<reasoning, synthesis, final, synthesize>>
outcome == <<status, repairs, delivered>>
vars == <<node, request, task, routes, results, answers, outcome, steps>>

\* "other" are the files that no route opens: the router counts them, and an
\* .xls file is detected as data, which the analyzer's model may ask for anyway.
Files == {"document", "data", "image", "other"}
\* A "blank" item is an observation of an image without a description.
Kinds == {"document", "vault", "vision", "blank"}
Capabilities == {"document_analysis", "data_analysis", "vision_analysis", "code", "reasoning"}

Routes == {"document", "data", "vision", "code_execution", "reasoning", "vault"}

\* route_priority, which does not name the vault.
Priority(route) ==
  CASE route = "document"       -> 1
    [] route = "data"           -> 2
    [] route = "vision"         -> 3
    [] route = "code_execution" -> 4
    [] route = "reasoning"      -> 5
    [] OTHER                    -> 99

\* The routes in S as list.sort() arranges them; no two have the same priority.
Sorted ==
  [S \in SUBSET Routes |->
     {s \in [1..Cardinality(S) -> S] :
        /\ {s[i] : i \in DOMAIN s} = S
        /\ \A i, j \in DOMAIN s : i < j => Priority(s[i]) < Priority(s[j])}]

Nodes == Routes \cup {"input_processor", "task_analyzer", "policy_router", "execution_dispatch",
                      "document_fact", "aggregate_results", "complexity_gate", "synthesis",
                      "final_answer", "verifier", "repair", "deliverable"}
Ends == {"end", "raised"}

\* Three nodes before the first dispatch, two per route, six to the first
\* verification; then the deliverable, or two nodes per repair.
LongestRun == IF MaxRepairs = 0 THEN 20 ELSE 19 + 2 * MaxRepairs

TypeOK ==
  /\ node \in Nodes \cup Ends
  /\ files \subseteq Files /\ field \in BOOLEAN /\ labelled \subseteq Kinds
  /\ wanted \in BOOLEAN
  /\ task \subseteq Capabilities
  /\ selected \in Seq(Routes) /\ pending \in Seq(Routes) /\ ran \subseteq Routes
  /\ retrieved \subseteq Kinds /\ normalized \in BOOLEAN
  /\ documents \in 0..1 /\ data \in 0..2 /\ code \in 0..1 /\ vision \in 0..1 /\ facts \in 0..2
  /\ {reasoning, synthesis, final} \subseteq Answers \cup {NoAnswer}
  /\ synthesize \in BOOLEAN
  /\ status \in {"pending", "passed", "failed", "failed_terminal"}
  /\ repairs \in 0..MaxRepairs
  /\ delivered \in Answers \cup {NoAnswer}
  /\ steps \in 0..LongestRun + 1

Init ==
  /\ node = "input_processor"
  /\ files \in SUBSET Files
  /\ field \in BOOLEAN
  /\ labelled \in IF field THEN SUBSET (Kinds \ {"blank"}) ELSE {{}}
  /\ wanted \in BOOLEAN
  /\ task = {}
  /\ selected = <<>> /\ pending = <<>> /\ ran = {}
  /\ retrieved = {} /\ normalized = FALSE
  /\ documents = 0 /\ data = 0 /\ code = 0 /\ vision = 0 /\ facts = 0
  /\ reasoning = NoAnswer /\ synthesis = NoAnswer /\ final = NoAnswer
  /\ synthesize = FALSE
  /\ status = "pending" /\ repairs = 0 /\ delivered = NoAnswer
  /\ steps = 0

\* Node n runs, and then the graph goes on to next.  Bound: the nodes are not
\* counted beyond one more than the longest run has.
Run(n, next) ==
  /\ node = n
  /\ node' = next
  /\ steps' = IF steps > LongestRun THEN steps ELSE steps + 1

-----------------------------------------------------------------------------
(***************************************************************************)
(* Routing.                                                                *)
(***************************************************************************)

ProcessInput ==
  /\ Run("input_processor", "task_analyzer")
  /\ UNCHANGED <<request, task, routes, results, answers, outcome>>

\* The model may name any capability; the types of the files and "reasoning"
\* are added to what it names.  An intent that is looked up in documents acts
\* like "document_analysis", computational words of the query like "code".
Implied ==
  {"reasoning"} \cup (IF "document" \in files THEN {"document_analysis"} ELSE {})
                \cup (IF "data" \in files THEN {"data_analysis"} ELSE {})
                \cup (IF "image" \in files THEN {"vision_analysis"} ELSE {})

AnalyzeTask ==
  /\ Run("task_analyzer", "policy_router")
  /\ \E reply \in SUBSET Capabilities : task' = reply \cup Implied
  /\ UNCHANGED <<request, routes, results, answers, outcome>>

\* Mutant: the vault is searched besides the uploaded documents.
ChosenWithVault ==
  (IF "document_analysis" \in task
   THEN {"vault"} \cup (IF files # {} THEN {"document"} ELSE {}) ELSE {})
  \cup (IF "data_analysis" \in task THEN {"data"} ELSE {})
  \cup (IF "code" \in task THEN {"code_execution"} ELSE {})
  \cup (IF "vision_analysis" \in task THEN {"vision"} ELSE {})
  \cup (IF "reasoning" \in task THEN {"reasoning"} ELSE {})

Chosen ==
  (IF "document_analysis" \in task
   THEN {IF files # {} THEN "document" ELSE "vault"} ELSE {})
  \cup (IF "data_analysis" \in task THEN {"data"} ELSE {})
  \cup (IF "code" \in task THEN {"code_execution"} ELSE {})
  \cup (IF "vision_analysis" \in task THEN {"vision"} ELSE {})
  \cup (IF "reasoning" \in task THEN {"reasoning"} ELSE {})

RouteTask ==
  /\ Run("policy_router", IF Chosen # {} THEN "execution_dispatch" ELSE "aggregate_results")
  /\ selected' \in Sorted[Chosen] /\ pending' = selected' /\ ran' = {}
  /\ UNCHANGED <<request, task, results, answers, outcome>>

\* Mutant: the route stays pending.
DispatchAgain ==
  /\ IF pending = <<>>
     THEN Run("execution_dispatch", "aggregate_results") /\ UNCHANGED <<pending, ran>>
     ELSE /\ Run("execution_dispatch", Head(pending))
          /\ ran' = ran \cup {Head(pending)}
          /\ UNCHANGED pending
  /\ UNCHANGED <<request, task, selected, results, answers, outcome>>

\* Reasoning gives way to the extraction of the fact that was asked for.
Dispatch ==
  /\ IF pending = <<>>
     THEN Run("execution_dispatch", "aggregate_results") /\ UNCHANGED <<pending, ran>>
     ELSE /\ Run("execution_dispatch",
                 IF Head(pending) = "reasoning" /\ retrieved # {} /\ field
                 THEN "document_fact" ELSE Head(pending))
          /\ pending' = Tail(pending)
          /\ ran' = ran \cup {Head(pending)}
  /\ UNCHANGED <<request, task, selected, results, answers, outcome>>

-----------------------------------------------------------------------------
(***************************************************************************)
(* The routes.                                                             *)
(***************************************************************************)

\* Mutant: evidence of the retriever has its text under "content".
HasContentOrText(kind) == kind # "blank"

\* item.get("content"): the retriever's EvidenceRecord has its text under
\* "text"; the aggregation copies it to "content".
HasContent(kind) == kind # "blank" /\ (normalized \/ kind = "vision")

\* DocumentFactExtractor.extract finds the label in an item with content.
Extracted == field /\ \E kind \in retrieved : HasContent(kind) /\ kind \in labelled

DocumentRoute ==
  /\ node = "document"
  /\ \E found \in IF "document" \in files THEN BOOLEAN ELSE {FALSE} :
       retrieved' = IF found THEN retrieved \cup {"document"} ELSE retrieved
  /\ documents' = IF "document" \in files THEN 1 ELSE 0
  /\ Run("document", IF field /\ \E kind \in retrieved' : HasContent(kind)
                     THEN "document_fact" ELSE "execution_dispatch")
  /\ UNCHANGED <<request, task, routes, normalized, data, code, vision, facts, answers, outcome>>

\* The vault's evidence is assigned, not appended.
VaultRoute ==
  /\ Run("vault", "execution_dispatch")
  /\ retrieved' \in {{}, {"vault"}}
  /\ UNCHANGED <<request, task, routes, normalized, documents, data, code, vision, facts,
                 answers, outcome>>

\* One result for each data file.
DataRoute ==
  /\ Run("data", "execution_dispatch")
  /\ data' \in IF "data" \in files THEN 1..2 ELSE {0}
  /\ UNCHANGED <<request, task, routes, retrieved, normalized, documents, code, vision, facts,
                 answers, outcome>>

VisionRoute ==
  /\ Run("vision", "execution_dispatch")
  /\ vision' = IF "image" \in files THEN 1 ELSE 0
  /\ \E observed \in IF "image" \in files THEN SUBSET {"vision", "blank"} ELSE {{}} :
       retrieved' = retrieved \cup observed
  /\ UNCHANGED <<request, task, routes, normalized, documents, data, code, facts, answers,
                 outcome>>

\* The last of up to three attempts ran its program, successfully or not.
CodeRoute ==
  /\ Run("code_execution", "execution_dispatch")
  /\ code' = 1
  /\ UNCHANGED <<request, task, routes, retrieved, normalized, documents, data, vision, facts,
                 answers, outcome>>

DocumentFact ==
  /\ Run("document_fact", "aggregate_results")
  /\ facts' = IF Extracted THEN facts + 1 ELSE facts
  /\ UNCHANGED <<request, task, routes, retrieved, normalized, documents, data, code, vision,
                 answers, outcome>>

Reason ==
  /\ Run("reasoning", "execution_dispatch")
  /\ reasoning' \in Answers \cup {NoAnswer}
  /\ UNCHANGED <<request, task, routes, results, synthesis, final, synthesize, outcome>>

\* A model, a parser or the sandbox fails; so does the code route when the
\* last attempt produced no valid program: its result has no evidence_id.
Fallible == {"task_analyzer", "document", "vault", "data", "vision", "code_execution",
             "reasoning", "synthesis", "repair", "deliverable"}

NodeRaises ==
  /\ node \in Fallible
  /\ Run(node, "raised")
  /\ UNCHANGED <<request, task, routes, results, answers, outcome>>

-----------------------------------------------------------------------------
(***************************************************************************)
(* The answer.                                                             *)
(***************************************************************************)

\* Blank items are dropped.
Aggregate ==
  /\ Run("aggregate_results", "complexity_gate")
  /\ retrieved' = retrieved \ {"blank"} /\ normalized' = TRUE
  /\ UNCHANGED <<request, task, routes, documents, data, code, vision, facts, answers,
                 outcome>>

Modalities ==
  Cardinality({m \in {<<"document", documents>>, <<"data", data>>, <<"code", code>>,
                      <<"vision", vision>>, <<"evidence", Cardinality(retrieved)>>} : m[2] > 0})

Gate ==
  LET needed == facts = 0 /\ (Modalities >= 2 \/ retrieved # {} \/ data > 1 \/ code > 1) IN
  /\ Run("complexity_gate", IF needed THEN "synthesis" ELSE "final_answer")
  /\ synthesize' = needed
  /\ UNCHANGED <<request, task, routes, results, reasoning, synthesis, final, outcome>>

Synthesize ==
  /\ Run("synthesis", "final_answer")
  /\ synthesis' \in Answers \cup {NoAnswer}
  /\ UNCHANGED <<request, task, routes, results, reasoning, final, synthesize, outcome>>

\* The extracted fact is followed by its evidence_id, but may itself hold text
\* in brackets, which the validator takes for a citation; the fallback cites
\* nothing.
SelectAnswer ==
  /\ Run("final_answer", "verifier")
  /\ facts' = IF Extracted THEN facts + 1 ELSE facts
  /\ \/ Extracted /\ final' \in Answers
     \/ ~Extracted /\ synthesis # NoAnswer /\ final' = synthesis
     \/ ~Extracted /\ synthesis = NoAnswer /\ reasoning # NoAnswer /\ final' = reasoning
     \/ /\ ~Extracted /\ synthesis = NoAnswer /\ reasoning = NoAnswer
        /\ final' \in {a \in Answers : ~a.cited}
  /\ UNCHANGED <<request, task, routes, retrieved, normalized, documents, data, code, vision,
                 reasoning, synthesis, synthesize, outcome>>

\* What has an evidence_id: images are cited through the evidence made of them.
Citable == retrieved # {} \/ data > 0 \/ code > 0
CitationsValid(a) == ~Citable \/ a.cited
Valid(a) == CitationsValid(a) /\ (data = 0 \/ a.numeric)

\* Mutant: one more repair than there are attempts.
MayRepairOnce == repairs <= MaxRepairs

MayRepair == repairs < MaxRepairs

\* The verifier and the edge after it, _verification_route.
Verify ==
  /\ node = "verifier"
  /\ status' = IF Valid(final) THEN "passed" ELSE "failed"
  /\ Run("verifier", IF Valid(final) THEN "deliverable" ELSE IF MayRepair THEN "repair" ELSE "end")
  /\ UNCHANGED <<request, task, routes, results, answers, repairs, delivered>>

\* RepairNode only repairs citations, not numbers.
Rewrite ==
  \/ CitationsValid(final) /\ UNCHANGED <<final, synthesis>>
  \/ ~CitationsValid(final) /\ final' \in Answers /\ synthesis' = final'

\* Mutant: what was repaired is delivered without another look.
RepairAndDeliver ==
  /\ Run("repair", "deliverable")
  /\ repairs' = repairs + 1
  /\ final' \in Answers /\ synthesis' = final'
  /\ UNCHANGED <<request, task, routes, results, reasoning, synthesize, status, delivered>>

\* The last attempt repairs nothing: its "failed_terminal" is overwritten by
\* the verifier.
Repair ==
  /\ Run("repair", "verifier")
  /\ repairs' = repairs + 1
  /\ \/ /\ repairs + 1 >= MaxRepairs
        /\ status' = "failed_terminal"
        /\ UNCHANGED <<final, synthesis>>
     \/ /\ repairs + 1 < MaxRepairs
        /\ Rewrite
        /\ UNCHANGED status
  /\ UNCHANGED <<request, task, routes, results, reasoning, synthesize, delivered>>

Deliver ==
  /\ Run("deliverable", "end")
  /\ delivered' = IF wanted THEN final ELSE NoAnswer
  /\ UNCHANGED <<request, task, routes, results, answers, status, repairs>>

Next ==
  \/ ProcessInput \/ AnalyzeTask \/ RouteTask \/ Dispatch
  \/ DocumentRoute \/ VaultRoute \/ DataRoute \/ VisionRoute \/ CodeRoute
  \/ DocumentFact \/ Reason \/ NodeRaises
  \/ Aggregate \/ Gate \/ Synthesize \/ SelectAnswer \/ Verify \/ Repair \/ Deliver

Spec == Init /\ [][Next]_vars

\* invoke() runs one node after the other until the graph ends.
FairSpec == Spec /\ WF_vars(Next)

-----------------------------------------------------------------------------
(***************************************************************************)
(* Properties.                                                             *)
(***************************************************************************)

\* However routes, the short cuts past the dispatcher, verification and repair
\* combine, no run has more nodes than five routes and all the repairs need: no
\* node runs once too often, and the last repair is never followed by another
\* or by a deliverable.  What the library allows a graph is not in question.
RunIsBounded == steps <= LongestRun

\* A deliverable only ever holds an answer that is valid for all the evidence
\* there is, however often it was repaired.
DeliverableIsVerified == delivered # NoAnswer => Valid(delivered) /\ delivered = final

\* Every selected route runs before the results are aggregated: neither of the
\* two short cuts to the extraction of a document fact drops a pending route.
NoRouteLost ==
  node \in {"aggregate_results", "verifier", "end"} =>
    pending = <<>> /\ ran = {selected[i] : i \in DOMAIN selected}

\* No route undoes the findings of another, although the vault's replace the
\* list to which the others append.
EvidenceIsKept == [][retrieved \ {"blank"} \subseteq retrieved']_vars

\* The workflow ends, whatever the library's limit on its steps: the cycle
\* of verification and repair is left.
Terminates == <>(node \in Ends)

\* "Evidence-producing routes must run before reasoning, because reasoning
\* should have access to all available evidence." (violated: the vault is not
\* in the table of priorities and sorts behind reasoning)
EvidenceBeforeReasoning ==
  node = "reasoning" => \A i \in DOMAIN pending : pending[i] = "reasoning"
=============================================================================
