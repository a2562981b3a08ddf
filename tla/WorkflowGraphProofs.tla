-------------------------- MODULE WorkflowGraphProofs --------------------------
(***************************************************************************)
(* Theorems about WorkflowGraph for every number of repairs: no route and  *)
(* no finding is lost, what is delivered is verified, and no run is longer *)
(* than its routes and repairs account for.                                *)
(***************************************************************************)
EXTENDS WorkflowGraph, FiniteSetTheorems, TLAPS

\* The nodes before the routes, and those behind them.
Early == {"input_processor", "task_analyzer", "policy_router"}
Late == {"aggregate_results", "complexity_gate", "synthesis", "final_answer", "verifier",
         "repair", "deliverable", "end"}

Left == {pending[i] : i \in DOMAIN pending}
ToRun == {selected[i] : i \in DOMAIN selected}

\* Where the routes are: what has run comes before what is left.
Routing ==
  /\ node \in Early => pending = <<>> /\ selected = <<>> /\ ran = {}
  /\ node \in Late \cup {"document_fact"} => pending = <<>>
  /\ ran \cup Left = ToRun
  /\ \A r \in ran : \A i \in DOMAIN pending : Priority(r) < Priority(pending[i])
  /\ \A i, j \in DOMAIN pending : i < j => Priority(pending[i]) < Priority(pending[j])
  /\ node \in Routes => node \in ran /\ \A r \in ran : Priority(r) <= Priority(node)
  /\ "vault" \in ToRun => files = {}

\* Which routes have found the evidence there is.
Findings ==
  /\ node \in Early => retrieved = {}
  /\ node \in Early \cup Routes \cup {"execution_dispatch", "document_fact", "aggregate_results"}
       => ~normalized
  /\ \A kind \in {"vision", "blank"} : kind \in retrieved => "vision" \in ran
  /\ files = {} => retrieved \subseteq {"vault"}
  /\ "vault" \in retrieved => "vault" \in ran /\ node # "vault"

\* Each fact is extracted by one of two nodes, and repairs are counted.
Counted ==
  /\ node \in Early \cup Routes \cup {"execution_dispatch", "document_fact"} => facts = 0
  /\ node \in {"aggregate_results", "complexity_gate", "synthesis", "final_answer"} => facts <= 1
  /\ node \in {"aggregate_results", "complexity_gate", "synthesis", "final_answer"}
              \cup Early \cup Routes \cup {"execution_dispatch", "document_fact"} => repairs = 0
  /\ node = "repair" => repairs < MaxRepairs

\* What the verifier has told of the answer; the last repair changes nothing.
Verified ==
  /\ node = "repair" => ~Valid(final)
  /\ node = "verifier" /\ repairs = MaxRepairs /\ MaxRepairs > 0 => ~Valid(final)
  /\ node = "deliverable" => Valid(final) /\ (MaxRepairs > 0 => repairs < MaxRepairs)
  /\ delivered # NoAnswer => node = "end" /\ delivered = final /\ Valid(final)

\* How many nodes have run when a node is reached.
Spent ==
  /\ Len(selected) <= 5
  /\ node = "input_processor" => steps = 0
  /\ node = "task_analyzer" => steps <= 1
  /\ node = "policy_router" => steps <= 2
  /\ node = "execution_dispatch" => steps + 2 * Len(pending) <= 3 + 2 * Len(selected)
  /\ node \in Routes \cup {"document_fact"} => steps + 2 * Len(pending) <= 2 + 2 * Len(selected)
  /\ node = "aggregate_results" => steps <= 14
  /\ node = "complexity_gate" => steps <= 15
  /\ node = "synthesis" => steps <= 16
  /\ node = "final_answer" => steps <= 17
  /\ node = "verifier" => steps <= 18 + 2 * repairs
  /\ node \in {"repair", "deliverable"} => steps <= 19 + 2 * repairs
  /\ node \in Ends => steps <= LongestRun

IInv == TypeOK /\ Routing /\ Findings /\ Counted /\ Verified /\ Spent

-----------------------------------------------------------------------------
(***************************************************************************)
(* The sorted routes.                                                      *)
(***************************************************************************)
LEMMA Priorities ==
  /\ Priority("document") = 1 /\ Priority("data") = 2 /\ Priority("vision") = 3
  /\ Priority("code_execution") = 4 /\ Priority("reasoning") = 5 /\ Priority("vault") = 99
BY DEF Priority

LEMMA PriorityIsNat ==
  ASSUME NEW r \in Routes
  PROVE  Priority(r) \in Nat
BY Priorities DEF Routes

\* Only the vault comes behind reasoning.
LEMMA BehindReasoning ==
  ASSUME NEW r \in Routes, Priority("reasoning") < Priority(r)
  PROVE  r = "vault"
BY Priorities DEF Routes

LEMMA FiveAtMost ==
  ASSUME NEW a, NEW b, NEW c, NEW d, NEW e, NEW S \in SUBSET {a, b, c, d, e}
  PROVE  IsFiniteSet(S) /\ Cardinality(S) \in 0..5
<1>1. IsFiniteSet({}) /\ Cardinality({}) = 0
  BY FS_EmptySet
<1> DEFINE UpTo(T, n) == IsFiniteSet(T) /\ Cardinality(T) \in 0..n
<1>2. \A T, x : \A n \in Nat : UpTo(T, n) => UpTo(T \cup {x}, n + 1)
  <2> TAKE T, x
  <2> TAKE n \in Nat
  <2> HAVE UpTo(T, n)
  <2>1. Cardinality(T) \in Nat
    BY FS_CardinalityType
  <2>2. IsFiniteSet(T \cup {x})
        /\ (Cardinality(T \cup {x}) = Cardinality(T)
            \/ Cardinality(T \cup {x}) = Cardinality(T) + 1)
    BY FS_AddElement
  <2>3. QED
    BY <2>1, <2>2
<1> DEFINE T1 == {} \cup {a}  T2 == T1 \cup {b}  T3 == T2 \cup {c}
           T4 == T3 \cup {d}  T5 == T4 \cup {e}
<1>3. T5 = {a, b, c, d, e}
  OBVIOUS
<1>3a. UpTo({}, 0)
  BY <1>1
<1> HIDE DEF UpTo, T1, T2, T3, T4, T5
<1>4. UpTo(T1, 1)
  <2>1. UpTo(T1, 0 + 1)
    BY <1>2, <1>3a, 0 \in Nat, Zenon DEF T1
  <2>2. QED
    BY <2>1, 0 + 1 = 1
<1>5. UpTo(T2, 2)
  <2>1. UpTo(T2, 1 + 1)
    BY <1>2, <1>4, 1 \in Nat, Zenon DEF T2
  <2>2. QED
    BY <2>1, 1 + 1 = 2
<1>6. UpTo(T3, 3)
  <2>1. UpTo(T3, 2 + 1)
    BY <1>2, <1>5, 2 \in Nat, Zenon DEF T3
  <2>2. QED
    BY <2>1, 2 + 1 = 3
<1>7. UpTo(T4, 4)
  <2>1. UpTo(T4, 3 + 1)
    BY <1>2, <1>6, 3 \in Nat, Zenon DEF T4
  <2>2. QED
    BY <2>1, 3 + 1 = 4
<1>8. UpTo(T5, 5)
  <2>1. UpTo(T5, 4 + 1)
    BY <1>2, <1>7, 4 \in Nat, Zenon DEF T5
  <2>2. QED
    BY <2>1, 4 + 1 = 5
<1>9. IsFiniteSet(S) /\ Cardinality(S) <= Cardinality(T5)
  BY <1>3, <1>8, FS_Subset DEF UpTo
<1>10. Cardinality(S) \in Nat
  BY <1>9, FS_CardinalityType
<1>11. QED
  BY <1>8, <1>9, <1>10 DEF UpTo

\* The uploaded documents and the vault are never searched in one run.
LEMMA ChosenFacts ==
  ASSUME TypeOK
  PROVE  /\ Chosen \in SUBSET Routes
         /\ Cardinality(Chosen) \in 0..5
         /\ "vault" \in Chosen => files = {}
<1>1. Chosen \in SUBSET {"document", "data", "vision", "code_execution", "reasoning"}
      \/ Chosen \in SUBSET {"vault", "data", "vision", "code_execution", "reasoning"}
  BY DEF Chosen
<1>2. Cardinality(Chosen) \in 0..5
  BY <1>1, FiveAtMost
<1>3. Chosen \in SUBSET Routes
  BY <1>1 DEF Routes
<1>4. "vault" \in Chosen => files = {}
  BY DEF Chosen
<1>5. QED
  BY <1>2, <1>3, <1>4

LEMMA SortedFacts ==
  ASSUME NEW S \in SUBSET Routes, Cardinality(S) \in Nat, NEW s \in Sorted[S]
  PROVE  /\ s \in Seq(Routes) /\ Len(s) = Cardinality(S)
         /\ {s[i] : i \in DOMAIN s} = S
         /\ \A i, j \in DOMAIN s : i < j => Priority(s[i]) < Priority(s[j])
<1>1. s \in {f \in [1..Cardinality(S) -> S] :
               /\ {f[i] : i \in DOMAIN f} = S
               /\ \A i, j \in DOMAIN f : i < j => Priority(f[i]) < Priority(f[j])}
  BY DEF Sorted
<1>2. s \in [1..Cardinality(S) -> S]
  BY <1>1
<1>3. s \in Seq(Routes) /\ Len(s) = Cardinality(S)
  BY <1>2
<1>4. QED
  BY <1>1, <1>3

LEMMA TailFacts ==
  ASSUME NEW s \in Seq(Routes), s # <<>>
  PROVE  /\ Head(s) \in Routes /\ Head(s) = s[1] /\ 1 \in DOMAIN s
         /\ Tail(s) \in Seq(Routes) /\ Len(s) \in Nat /\ Len(Tail(s)) = Len(s) - 1
         /\ \A i \in DOMAIN Tail(s) : /\ i \in Nat /\ 1 < i + 1
                                      /\ i + 1 \in DOMAIN s /\ Tail(s)[i] = s[i + 1]
         /\ {s[i] : i \in DOMAIN s} = {Head(s)} \cup {Tail(s)[i] : i \in DOMAIN Tail(s)}
<1>1. Len(s) \in Nat /\ Len(s) >= 1 /\ DOMAIN s = 1..Len(s)
  OBVIOUS
<1>2. Tail(s) \in Seq(Routes) /\ Len(Tail(s)) = Len(s) - 1
      /\ DOMAIN Tail(s) = 1..Len(s) - 1
  BY <1>1
<1>3. \A i \in 1..Len(s) - 1 : Tail(s)[i] = s[i + 1]
  BY <1>1
<1>4. Head(s) = s[1] /\ Head(s) \in Routes
  BY <1>1
<1>5. \A i \in DOMAIN Tail(s) : /\ i \in Nat /\ 1 < i + 1
                                /\ i + 1 \in DOMAIN s /\ Tail(s)[i] = s[i + 1]
  BY <1>1, <1>2, <1>3
<1>6. \A i \in DOMAIN s : s[i] \in {Head(s)} \cup {Tail(s)[j] : j \in DOMAIN Tail(s)}
  <2> TAKE i \in DOMAIN s
  <2>1. CASE i = 1
    BY <2>1, <1>4
  <2>2. CASE i # 1
    <3>1. i - 1 \in DOMAIN Tail(s) /\ (i - 1) + 1 = i
      BY <2>2, <1>1, <1>2
    <3>2. Tail(s)[i - 1] = s[i]
      BY <3>1, <1>5
    <3>3. QED
      BY <3>1, <3>2
  <2>3. QED
    BY <2>1, <2>2
<1>7. {Tail(s)[i] : i \in DOMAIN Tail(s)} \subseteq {s[i] : i \in DOMAIN s}
  BY <1>5
<1>8. 1 \in DOMAIN s
  BY <1>1
<1>9. {s[i] : i \in DOMAIN s} = {Head(s)} \cup {Tail(s)[i] : i \in DOMAIN Tail(s)}
  BY <1>4, <1>6, <1>7, <1>8
<1>10. QED
  BY <1>1, <1>2, <1>4, <1>5, <1>8, <1>9

\* The bound, in the two cases the arithmetic distinguishes.
LEMMA LongestIs ==
  /\ LongestRun \in Nat /\ LongestRun >= 20
  /\ MaxRepairs = 0 => LongestRun = 20
  /\ MaxRepairs > 0 => LongestRun = 19 + 2 * MaxRepairs
BY LimitAssumption DEF LongestRun

-----------------------------------------------------------------------------
(***************************************************************************)
(* What a step leaves as it was.                                           *)
(***************************************************************************)
\* A node that runs is counted once.
LEMMA RunCounts ==
  ASSUME TypeOK, NEW n, NEW next, Run(n, next)
  PROVE  node = n /\ node' = next /\ steps' \in 0..LongestRun + 1 /\ steps' <= steps + 1
BY LongestIs DEF TypeOK, Run

\* The nodes that only pass on to the next one leave the routes alone.
LEMMA RoutingKept ==
  ASSUME Routing, UNCHANGED <<files, selected, pending, ran>>,
         node' \notin Early \cup Routes,
         node' \in Late \cup {"document_fact"} => pending = <<>>
  PROVE  Routing'
BY DEF Routing, Left, ToRun

LEMMA FindingsKept ==
  ASSUME Findings, UNCHANGED <<files, retrieved, normalized, ran>>,
         node' \in Early => node \in Early,
         node' \in Routes \cup {"execution_dispatch", "document_fact", "aggregate_results"} =>
           node \in Routes \cup {"execution_dispatch", "document_fact"},
         node' # "vault"
  PROVE  Findings'
BY DEF Findings

\* Before the answer is verified nothing is delivered.
LEMMA NothingDelivered ==
  ASSUME Verified, UNCHANGED delivered, node # "end",
         node' \notin {"repair", "verifier", "deliverable"}
  PROVE  Verified'
BY DEF Verified

-----------------------------------------------------------------------------
(***************************************************************************)
(* The invariant is inductive: routing.                                    *)
(***************************************************************************)

LEMMA ProcessInputStep ==
  ASSUME IInv, ProcessInput
  PROVE  IInv'
<1>1. TypeOK /\ Routing /\ Findings /\ Counted /\ Verified /\ Spent
  BY DEF IInv
<1>2. /\ node = "input_processor" /\ node' = "task_analyzer"
      /\ steps' \in 0..LongestRun + 1 /\ steps' <= steps + 1
  BY <1>1, RunCounts DEF ProcessInput
<1>3. UNCHANGED <<files, field, labelled, wanted, task, selected, pending, ran, retrieved,
                  normalized, documents, data, code, vision, facts, reasoning, synthesis,
                  final, synthesize, status, repairs, delivered>>
  BY DEF ProcessInput, request, routes, results, answers, outcome
<1>4. TypeOK'
  BY <1>1, <1>2, <1>3 DEF TypeOK, Nodes, Routes, Ends
<1>5. Routing'
  BY <1>1, <1>2, <1>3 DEF Routing, Early, Late, Routes, Left, ToRun
<1>6. Findings'
  BY <1>1, <1>2, <1>3, FindingsKept DEF Early, Routes
<1>7. Counted'
  BY <1>1, <1>2, <1>3 DEF Counted, TypeOK, Early, Routes
<1>8. Verified'
  BY <1>1, <1>2, <1>3, NothingDelivered
<1>9. Spent'
  BY <1>1, <1>2, <1>3 DEF Spent, TypeOK, Routes, Ends
<1>10. QED
  BY <1>4, <1>5, <1>6, <1>7, <1>8, <1>9 DEF IInv

LEMMA AnalyzeTaskStep ==
  ASSUME IInv, AnalyzeTask
  PROVE  IInv'
<1>1. TypeOK /\ Routing /\ Findings /\ Counted /\ Verified /\ Spent
  BY DEF IInv
<1>2. /\ node = "task_analyzer" /\ node' = "policy_router"
      /\ steps' \in 0..LongestRun + 1 /\ steps' <= steps + 1
  BY <1>1, RunCounts DEF AnalyzeTask
<1>3. UNCHANGED <<files, field, labelled, wanted, selected, pending, ran, retrieved,
                  normalized, documents, data, code, vision, facts, reasoning, synthesis,
                  final, synthesize, status, repairs, delivered>>
  BY DEF AnalyzeTask, request, routes, results, answers, outcome
<1>a. task' \subseteq Capabilities
  BY <1>1 DEF AnalyzeTask, Implied, Capabilities, TypeOK
<1>4. TypeOK'
  BY <1>1, <1>2, <1>3, <1>a DEF TypeOK, Nodes, Routes, Ends
<1>5. Routing'
  BY <1>1, <1>2, <1>3 DEF Routing, Early, Late, Routes, Left, ToRun
<1>6. Findings'
  BY <1>1, <1>2, <1>3, FindingsKept DEF Early, Routes
<1>7. Counted'
  BY <1>1, <1>2, <1>3 DEF Counted, TypeOK, Early, Routes
<1>8. Verified'
  BY <1>1, <1>2, <1>3, NothingDelivered
<1>9. Spent'
  BY <1>1, <1>2, <1>3 DEF Spent, TypeOK, Routes, Ends
<1>10. QED
  BY <1>4, <1>5, <1>6, <1>7, <1>8, <1>9 DEF IInv

\* The routes are those that were chosen, and sorted.
LEMMA RouteTaskStep ==
  ASSUME IInv, RouteTask
  PROVE  IInv'
<1>1. TypeOK /\ Routing /\ Findings /\ Counted /\ Verified /\ Spent
  BY DEF IInv
<1>2. /\ node = "policy_router" /\ node' \in {"execution_dispatch", "aggregate_results"}
      /\ steps' \in 0..LongestRun + 1 /\ steps' <= steps + 1
  BY <1>1, RunCounts DEF RouteTask
<1>3. UNCHANGED <<files, field, labelled, wanted, task, retrieved, normalized, documents, data,
                  code, vision, facts, reasoning, synthesis, final, synthesize, status,
                  repairs, delivered>>
  BY DEF RouteTask, request, routes, results, answers, outcome
<1>a. /\ Chosen \in SUBSET Routes /\ Cardinality(Chosen) \in 0..5
      /\ "vault" \in Chosen => files = {}
  BY <1>1, ChosenFacts
<1>b. selected' \in Sorted[Chosen] /\ pending' = selected' /\ ran' = {}
  BY DEF RouteTask
<1>c. /\ selected' \in Seq(Routes) /\ Len(selected') = Cardinality(Chosen)
      /\ {selected'[i] : i \in DOMAIN selected'} = Chosen
      /\ \A i, j \in DOMAIN selected' : i < j => Priority(selected'[i]) < Priority(selected'[j])
  BY <1>a, <1>b, SortedFacts
<1>d. node' = "aggregate_results" => selected' = <<>>
  <2>1. node' = "aggregate_results" => Chosen = {}
    BY DEF RouteTask, Run
  <2>2. Chosen = {} => Len(selected') = 0
    BY <1>c, FS_EmptySet
  <2>3. QED
    BY <2>1, <2>2, <1>c
<1>4. TypeOK'
  BY <1>1, <1>2, <1>3, <1>b, <1>c DEF TypeOK, Nodes, Routes, Ends
<1>5. Routing'
  BY <1>1, <1>2, <1>3, <1>a, <1>b, <1>c, <1>d DEF Routing, Early, Late, Routes, Left, ToRun
<1>6. Findings'
  BY <1>1, <1>2, <1>3, <1>b DEF Findings, Early, Routes
<1>7. Counted'
  BY <1>1, <1>2, <1>3 DEF Counted, TypeOK, Early, Routes
<1>8. Verified'
  BY <1>1, <1>2, <1>3, NothingDelivered
<1>9. Spent'
  BY <1>1, <1>2, <1>3, <1>a, <1>b, <1>c DEF Spent, TypeOK, Routes, Ends
<1>10. QED
  BY <1>4, <1>5, <1>6, <1>7, <1>8, <1>9 DEF IInv

\* The pending route with the best priority runs.  When reasoning gives way to
\* the extraction of a fact, nothing is pending behind it: that could only be
\* the vault, and then there would be no evidence yet.
LEMMA DispatchStep ==
  ASSUME IInv, Dispatch
  PROVE  IInv'
<1>1. TypeOK /\ Routing /\ Findings /\ Counted /\ Verified /\ Spent
  BY DEF IInv
<1>2. UNCHANGED <<files, field, labelled, wanted, task, selected, retrieved, normalized,
                  documents, data, code, vision, facts, reasoning, synthesis, final,
                  synthesize, status, repairs, delivered>>
  BY DEF Dispatch, request, results, answers, outcome
<1>3. CASE pending = <<>>
  <2>1. node = "execution_dispatch" /\ node' = "aggregate_results"
        /\ steps' \in 0..LongestRun + 1 /\ steps' <= steps + 1
        /\ UNCHANGED <<pending, ran>>
    BY <1>1, <1>3, RunCounts DEF Dispatch
  <2>2. TypeOK'
    BY <1>1, <1>2, <2>1 DEF TypeOK, Nodes
  <2>3. Routing'
    BY <1>1, <1>2, <1>3, <2>1, RoutingKept DEF Early, Routes
  <2>4. Findings' /\ Verified'
    BY <1>1, <1>2, <2>1, FindingsKept, NothingDelivered DEF Early, Routes
  <2>5. Counted'
    BY <1>1, <1>2, <2>1 DEF Counted, TypeOK, Early, Routes
  <2>6. Spent'
    <3>1. Len(pending) = 0 /\ Len(selected) \in Nat
      BY <1>1, <1>3 DEF TypeOK
    <3>2. QED
      BY <1>1, <1>2, <2>1, <3>1 DEF Spent, TypeOK, Routes, Ends
  <2>7. QED
    BY <2>2, <2>3, <2>4, <2>5, <2>6 DEF IInv
<1>4. CASE pending # <<>>
  <2> DEFINE r == Head(pending)
  <2>1. /\ r \in Routes /\ r = pending[1] /\ 1 \in DOMAIN pending
        /\ Tail(pending) \in Seq(Routes)
        /\ Len(pending) \in Nat /\ Len(Tail(pending)) = Len(pending) - 1
        /\ \A i \in DOMAIN Tail(pending) : /\ i \in Nat /\ 1 < i + 1
                                           /\ i + 1 \in DOMAIN pending
                                           /\ Tail(pending)[i] = pending[i + 1]
        /\ Left = {r} \cup {Tail(pending)[i] : i \in DOMAIN Tail(pending)}
    BY <1>1, <1>4, TailFacts DEF TypeOK, Left
  <2>2. pending' = Tail(pending) /\ ran' = ran \cup {r}
    BY <1>4 DEF Dispatch
  <2>3. \/ node' = r
        \/ node' = "document_fact" /\ r = "reasoning" /\ retrieved # {}
    BY <1>4 DEF Dispatch, Run
  <2>4. node = "execution_dispatch" /\ steps' \in 0..LongestRun + 1 /\ steps' <= steps + 1
    BY <1>1, <1>4, RunCounts DEF Dispatch
  <2>5. \A i, j \in DOMAIN pending : i < j => Priority(pending[i]) < Priority(pending[j])
    BY <1>1 DEF Routing
  <2>6. \A i \in DOMAIN pending' : /\ pending'[i] \in Routes
                                   /\ Priority(r) < Priority(pending'[i])
    BY <2>1, <2>2, <2>5
  <2>7. \A q \in ran : q \in Routes /\ Priority(q) < Priority(r)
    BY <1>1, <2>1 DEF Routing, TypeOK
  <2>8. node' = "document_fact" => pending' = <<>>
    <3> SUFFICES ASSUME node' = "document_fact", pending' # <<>>
                 PROVE  FALSE
      OBVIOUS
    <3>1. r = "reasoning" /\ retrieved # {}
      BY <2>1, <2>3 DEF Routes
    <3>2. pending' \in Seq(Routes) /\ 1 \in DOMAIN pending'
      BY <2>1, <2>2
    <3>3. pending'[1] = "vault"
      BY <2>6, <3>1, <3>2, BehindReasoning
    <3>4. "vault" \in ToRun
      BY <1>1, <2>1, <2>2, <3>2, <3>3 DEF Routing
    <3>5. "vault" \in ran
      BY <1>1, <3>1, <3>4 DEF Routing, Findings
    <3>6. QED
      BY <2>7, <3>1, <3>5, Priorities
  <2>9. TypeOK'
    BY <1>1, <1>2, <2>1, <2>2, <2>3, <2>4 DEF TypeOK, Nodes
  <2>10. Routing'
    <3>1. node' \notin Early \cup Late
      BY <2>1, <2>3 DEF Early, Late, Routes
    <3>2. Left' = {Tail(pending)[i] : i \in DOMAIN Tail(pending)} /\ ToRun' = ToRun
      BY <1>2, <2>2 DEF Left, ToRun
    <3>3. ran' \cup Left' = ToRun'
      BY <1>1, <2>1, <2>2, <3>2 DEF Routing
    <3>4. \A q \in ran' : \A i \in DOMAIN pending' : Priority(q) < Priority(pending'[i])
      BY <2>1, <2>2, <2>6, <2>7, PriorityIsNat
    <3>5. \A i, j \in DOMAIN pending' : i < j => Priority(pending'[i]) < Priority(pending'[j])
      <4> TAKE i, j \in DOMAIN pending'
      <4>1. /\ i \in Nat /\ j \in Nat /\ i + 1 \in DOMAIN pending /\ j + 1 \in DOMAIN pending
            /\ pending'[i] = pending[i + 1] /\ pending'[j] = pending[j + 1]
        BY <2>1, <2>2
      <4>2. i < j => i + 1 < j + 1
        BY <4>1
      <4>3. QED
        BY <2>5, <4>1, <4>2
    <3>6. node' \in Routes => node' \in ran' /\ \A q \in ran' : Priority(q) <= Priority(node')
      <4>1. node' \in Routes => node' = r
        BY <2>3 DEF Routes
      <4>2. \A q \in ran' : Priority(q) <= Priority(r)
        BY <2>1, <2>2, <2>7, PriorityIsNat
      <4>3. QED
        BY <2>2, <4>1, <4>2
    <3>7. "vault" \in ToRun' => files' = {}
      BY <1>1, <1>2, <3>2 DEF Routing
    <3>8. node' \in Late \cup {"document_fact"} => pending' = <<>>
      BY <2>8, <3>1
    <3>9. QED
      BY <3>1, <3>3, <3>4, <3>5, <3>6, <3>7, <3>8 DEF Routing
  <2>11. Findings'
    <3>1. node' \in Routes \cup {"document_fact"} /\ ran \subseteq ran'
      BY <2>1, <2>2, <2>3
    <3>2. "vault" \in retrieved => node' # "vault"
      BY <1>1, <2>3, <2>7, PriorityIsNat DEF Findings, Routes
    <3>3. QED
      BY <1>1, <1>2, <2>4, <3>1, <3>2 DEF Findings, Early, Routes
  <2>12. Counted'
    BY <1>1, <1>2, <2>1, <2>3, <2>4 DEF Counted, TypeOK, Early, Routes
  <2>13. Verified'
    BY <1>1, <1>2, <2>1, <2>3, <2>4, NothingDelivered DEF Routes
  <2>14. Spent'
    <3>1. node' \in Routes \cup {"document_fact"} /\ Len(pending') = Len(pending) - 1
      BY <2>1, <2>2, <2>3
    <3>2. QED
      BY <1>1, <1>2, <2>1, <2>4, <3>1 DEF Spent, TypeOK, Routes, Ends
  <2>15. QED
    BY <2>9, <2>10, <2>11, <2>12, <2>13, <2>14 DEF IInv
<1>5. QED
  BY <1>3, <1>4

-----------------------------------------------------------------------------
(***************************************************************************)
(* The routes: each is the last of those that have run.                    *)
(***************************************************************************)

\* The short cut to the document fact is never taken from here: before the
\* aggregation only what was seen in an image has content, and documents are
\* read first.
LEMMA DocumentRouteStep ==
  ASSUME IInv, DocumentRoute
  PROVE  IInv'
<1>1. TypeOK /\ Routing /\ Findings /\ Counted /\ Verified /\ Spent
  BY DEF IInv
<1>a. ~\E kind \in retrieved' : HasContent(kind)
  <2>1. node = "document" /\ ~normalized
    BY <1>1 DEF DocumentRoute, Findings, Routes
  <2>2. "vision" \notin ran
    BY <1>1, <2>1, Priorities DEF Routing, Routes
  <2>3. "vision" \notin retrieved'
    BY <1>1, <2>2 DEF DocumentRoute, Findings
  <2>4. QED
    BY <2>1, <2>3 DEF HasContent
<1>2. /\ node = "document" /\ node' = "execution_dispatch"
      /\ steps' \in 0..LongestRun + 1 /\ steps' <= steps + 1
  BY <1>1, RunCounts, <1>a DEF DocumentRoute
<1>3. UNCHANGED <<files, field, labelled, wanted, task, selected, pending, ran, normalized,
                  data, code, vision, facts, reasoning, synthesis, final, synthesize, status,
                  repairs, delivered>>
  BY DEF DocumentRoute, request, routes, results, answers, outcome
<1>b. retrieved' \subseteq Kinds /\ documents' \in 0..1
  BY <1>1 DEF DocumentRoute, TypeOK, Kinds
<1>c. files = {} => retrieved' = retrieved
  BY DEF DocumentRoute
<1>4. TypeOK'
  BY <1>1, <1>2, <1>3, <1>b DEF TypeOK, Nodes, Routes, Ends
<1>5. Routing'
  BY <1>1, <1>2, <1>3, RoutingKept DEF Routing, Early, Late, Routes
<1>6. Findings'
  <2>1. \A kind \in {"vision", "blank", "vault"} : kind \in retrieved' => kind \in retrieved
    BY DEF DocumentRoute
  <2>2. QED
    BY <1>1, <1>2, <1>3, <1>c, <2>1 DEF Findings, Early, Routes
<1>7. Counted'
  BY <1>1, <1>2, <1>3 DEF Counted, TypeOK, Early, Routes
<1>8. Verified'
  BY <1>1, <1>2, <1>3, NothingDelivered
<1>9. Spent'
  BY <1>1, <1>2, <1>3 DEF Spent, TypeOK, Routes, Ends
<1>10. QED
  BY <1>4, <1>5, <1>6, <1>7, <1>8, <1>9 DEF IInv

\* The list that the vault replaces is empty.
LEMMA VaultRouteStep ==
  ASSUME IInv, VaultRoute
  PROVE  IInv'
<1>1. TypeOK /\ Routing /\ Findings /\ Counted /\ Verified /\ Spent
  BY DEF IInv
<1>2. /\ node = "vault" /\ node' = "execution_dispatch"
      /\ steps' \in 0..LongestRun + 1 /\ steps' <= steps + 1
  BY <1>1, RunCounts DEF VaultRoute
<1>3. UNCHANGED <<files, field, labelled, wanted, task, selected, pending, ran, normalized,
                  documents, data, code, vision, facts, reasoning, synthesis, final,
                  synthesize, status, repairs, delivered>>
  BY DEF VaultRoute, request, routes, results, answers, outcome
<1>a. retrieved' \subseteq {"vault"} /\ files = {} /\ "vault" \in ran
  BY <1>1, <1>2 DEF VaultRoute, Routing, Routes, ToRun
<1>4. TypeOK'
  BY <1>1, <1>2, <1>3, <1>a DEF TypeOK, Nodes, Routes, Ends, Kinds
<1>5. Routing'
  BY <1>1, <1>2, <1>3, RoutingKept DEF Routing, Early, Late, Routes
<1>6. Findings'
  BY <1>1, <1>2, <1>3, <1>a DEF Findings, Early, Routes
<1>7. Counted'
  BY <1>1, <1>2, <1>3 DEF Counted, TypeOK, Early, Routes
<1>8. Verified'
  BY <1>1, <1>2, <1>3, NothingDelivered
<1>9. Spent'
  BY <1>1, <1>2, <1>3 DEF Spent, TypeOK, Routes, Ends
<1>10. QED
  BY <1>4, <1>5, <1>6, <1>7, <1>8, <1>9 DEF IInv

LEMMA DataRouteStep ==
  ASSUME IInv, DataRoute
  PROVE  IInv'
<1>1. TypeOK /\ Routing /\ Findings /\ Counted /\ Verified /\ Spent
  BY DEF IInv
<1>2. /\ node = "data" /\ node' = "execution_dispatch"
      /\ steps' \in 0..LongestRun + 1 /\ steps' <= steps + 1
  BY <1>1, RunCounts DEF DataRoute
<1>3. UNCHANGED <<files, field, labelled, wanted, task, selected, pending, ran, retrieved,
                  normalized, documents, code, vision, facts, reasoning, synthesis, final,
                  synthesize, status, repairs, delivered>>
  BY DEF DataRoute, request, routes, results, answers, outcome
<1>a. data' \in 0..2
  BY DEF DataRoute
<1>4. TypeOK'
  BY <1>1, <1>2, <1>3, <1>a DEF TypeOK, Nodes, Routes, Ends
<1>5. Routing'
  BY <1>1, <1>2, <1>3, RoutingKept DEF Routing, Early, Late, Routes
<1>6. Findings'
  BY <1>1, <1>2, <1>3, FindingsKept DEF Early, Routes
<1>7. Counted'
  BY <1>1, <1>2, <1>3 DEF Counted, TypeOK, Early, Routes
<1>8. Verified'
  BY <1>1, <1>2, <1>3, NothingDelivered
<1>9. Spent'
  BY <1>1, <1>2, <1>3 DEF Spent, TypeOK, Routes, Ends
<1>10. QED
  BY <1>4, <1>5, <1>6, <1>7, <1>8, <1>9 DEF IInv

LEMMA VisionRouteStep ==
  ASSUME IInv, VisionRoute
  PROVE  IInv'
<1>1. TypeOK /\ Routing /\ Findings /\ Counted /\ Verified /\ Spent
  BY DEF IInv
<1>2. /\ node = "vision" /\ node' = "execution_dispatch"
      /\ steps' \in 0..LongestRun + 1 /\ steps' <= steps + 1
  BY <1>1, RunCounts DEF VisionRoute
<1>3. UNCHANGED <<files, field, labelled, wanted, task, selected, pending, ran, normalized,
                  documents, data, code, facts, reasoning, synthesis, final, synthesize,
                  status, repairs, delivered>>
  BY DEF VisionRoute, request, routes, results, answers, outcome
<1>a. /\ vision' \in 0..1 /\ retrieved' \subseteq retrieved \cup {"vision", "blank"}
      /\ files = {} => retrieved' = retrieved
      /\ "vision" \in ran
  <2>1. vision' \in 0..1
    BY DEF VisionRoute
  <2>2. PICK observed \in IF "image" \in files THEN SUBSET {"vision", "blank"} ELSE {{}} :
          retrieved' = retrieved \cup observed
    BY DEF VisionRoute
  <2>3. "vision" \in ran
    BY <1>1, <1>2 DEF Routing, Routes
  <2>4. CASE "image" \in files
    BY <2>1, <2>2, <2>3, <2>4
  <2>5. CASE "image" \notin files
    BY <2>1, <2>2, <2>3, <2>5
  <2>6. QED
    BY <2>4, <2>5
<1>4. TypeOK'
  BY <1>1, <1>2, <1>3, <1>a DEF TypeOK, Nodes, Routes, Ends, Kinds
<1>5. Routing'
  BY <1>1, <1>2, <1>3, RoutingKept DEF Routing, Early, Late, Routes
<1>6. Findings'
  BY <1>1, <1>2, <1>3, <1>a DEF Findings, Early, Routes
<1>7. Counted'
  BY <1>1, <1>2, <1>3 DEF Counted, TypeOK, Early, Routes
<1>8. Verified'
  BY <1>1, <1>2, <1>3, NothingDelivered
<1>9. Spent'
  BY <1>1, <1>2, <1>3 DEF Spent, TypeOK, Routes, Ends
<1>10. QED
  BY <1>4, <1>5, <1>6, <1>7, <1>8, <1>9 DEF IInv

LEMMA CodeRouteStep ==
  ASSUME IInv, CodeRoute
  PROVE  IInv'
<1>1. TypeOK /\ Routing /\ Findings /\ Counted /\ Verified /\ Spent
  BY DEF IInv
<1>2. /\ node = "code_execution" /\ node' = "execution_dispatch"
      /\ steps' \in 0..LongestRun + 1 /\ steps' <= steps + 1
  BY <1>1, RunCounts DEF CodeRoute
<1>3. UNCHANGED <<files, field, labelled, wanted, task, selected, pending, ran, retrieved,
                  normalized, documents, data, vision, facts, reasoning, synthesis, final,
                  synthesize, status, repairs, delivered>>
  BY DEF CodeRoute, request, routes, results, answers, outcome
<1>a. code' \in 0..1
  BY DEF CodeRoute
<1>4. TypeOK'
  BY <1>1, <1>2, <1>3, <1>a DEF TypeOK, Nodes, Routes, Ends
<1>5. Routing'
  BY <1>1, <1>2, <1>3, RoutingKept DEF Routing, Early, Late, Routes
<1>6. Findings'
  BY <1>1, <1>2, <1>3, FindingsKept DEF Early, Routes
<1>7. Counted'
  BY <1>1, <1>2, <1>3 DEF Counted, TypeOK, Early, Routes
<1>8. Verified'
  BY <1>1, <1>2, <1>3, NothingDelivered
<1>9. Spent'
  BY <1>1, <1>2, <1>3 DEF Spent, TypeOK, Routes, Ends
<1>10. QED
  BY <1>4, <1>5, <1>6, <1>7, <1>8, <1>9 DEF IInv

LEMMA ReasonStep ==
  ASSUME IInv, Reason
  PROVE  IInv'
<1>1. TypeOK /\ Routing /\ Findings /\ Counted /\ Verified /\ Spent
  BY DEF IInv
<1>2. /\ node = "reasoning" /\ node' = "execution_dispatch"
      /\ steps' \in 0..LongestRun + 1 /\ steps' <= steps + 1
  BY <1>1, RunCounts DEF Reason
<1>3. UNCHANGED <<files, field, labelled, wanted, task, selected, pending, ran, retrieved,
                  normalized, documents, data, code, vision, facts, synthesis, final,
                  synthesize, status, repairs, delivered>>
  BY DEF Reason, request, routes, results, answers, outcome
<1>a. reasoning' \in Answers \cup {NoAnswer}
  BY DEF Reason
<1>4. TypeOK'
  BY <1>1, <1>2, <1>3, <1>a DEF TypeOK, Nodes, Routes, Ends
<1>5. Routing'
  BY <1>1, <1>2, <1>3, RoutingKept DEF Routing, Early, Late, Routes
<1>6. Findings'
  BY <1>1, <1>2, <1>3, FindingsKept DEF Early, Routes
<1>7. Counted'
  BY <1>1, <1>2, <1>3 DEF Counted, TypeOK, Early, Routes
<1>8. Verified'
  BY <1>1, <1>2, <1>3, NothingDelivered
<1>9. Spent'
  BY <1>1, <1>2, <1>3 DEF Spent, TypeOK, Routes, Ends
<1>10. QED
  BY <1>4, <1>5, <1>6, <1>7, <1>8, <1>9 DEF IInv

LEMMA DocumentFactStep ==
  ASSUME IInv, DocumentFact
  PROVE  IInv'
<1>1. TypeOK /\ Routing /\ Findings /\ Counted /\ Verified /\ Spent
  BY DEF IInv
<1>2. /\ node = "document_fact" /\ node' = "aggregate_results"
      /\ steps' \in 0..LongestRun + 1 /\ steps' <= steps + 1
  BY <1>1, RunCounts DEF DocumentFact
<1>3. UNCHANGED <<files, field, labelled, wanted, task, selected, pending, ran, retrieved,
                  normalized, documents, data, code, vision, reasoning, synthesis, final,
                  synthesize, status, repairs, delivered>>
  BY DEF DocumentFact, request, routes, results, answers, outcome
<1>a. facts' \in 0..1
  BY <1>1, <1>2 DEF DocumentFact, TypeOK, Counted
<1>4. TypeOK'
  BY <1>1, <1>2, <1>3, <1>a DEF TypeOK, Nodes, Routes, Ends
<1>5. Routing'
  BY <1>1, <1>2, <1>3, RoutingKept DEF Routing, Early, Late, Routes
<1>6. Findings'
  BY <1>1, <1>2, <1>3, FindingsKept DEF Early, Routes
<1>7. Counted'
  BY <1>1, <1>2, <1>3, <1>a DEF Counted, TypeOK, Early, Routes
<1>8. Verified'
  BY <1>1, <1>2, <1>3, NothingDelivered
<1>9. Spent'
  BY <1>1, <1>2, <1>3 DEF Spent, TypeOK, Routes, Ends
<1>10. QED
  BY <1>4, <1>5, <1>6, <1>7, <1>8, <1>9 DEF IInv

-----------------------------------------------------------------------------
(***************************************************************************)
(* The answer.                                                             *)
(***************************************************************************)

LEMMA AggregateStep ==
  ASSUME IInv, Aggregate
  PROVE  IInv'
<1>1. TypeOK /\ Routing /\ Findings /\ Counted /\ Verified /\ Spent
  BY DEF IInv
<1>2. /\ node = "aggregate_results" /\ node' = "complexity_gate"
      /\ steps' \in 0..LongestRun + 1 /\ steps' <= steps + 1
  BY <1>1, RunCounts DEF Aggregate
<1>3. UNCHANGED <<files, field, labelled, wanted, task, selected, pending, ran, documents,
                  data, code, vision, facts, reasoning, synthesis, final, synthesize, status,
                  repairs, delivered>>
  BY DEF Aggregate, request, routes, results, answers, outcome
<1>a. retrieved' \subseteq retrieved /\ normalized' \in BOOLEAN
  BY DEF Aggregate
<1>4. TypeOK'
  BY <1>1, <1>2, <1>3, <1>a DEF TypeOK, Nodes, Routes, Ends
<1>5. Routing'
  BY <1>1, <1>2, <1>3, RoutingKept DEF Routing, Early, Late, Routes
<1>6. Findings'
  BY <1>1, <1>2, <1>3, <1>a DEF Findings, Early, Routes
<1>7. Counted'
  BY <1>1, <1>2, <1>3 DEF Counted, TypeOK, Early, Routes
<1>8. Verified'
  BY <1>1, <1>2, <1>3, NothingDelivered
<1>9. Spent'
  BY <1>1, <1>2, <1>3 DEF Spent, TypeOK, Routes, Ends
<1>10. QED
  BY <1>4, <1>5, <1>6, <1>7, <1>8, <1>9 DEF IInv

LEMMA GateStep ==
  ASSUME IInv, Gate
  PROVE  IInv'
<1>1. TypeOK /\ Routing /\ Findings /\ Counted /\ Verified /\ Spent
  BY DEF IInv
<1>2. /\ node = "complexity_gate" /\ node' \in {"synthesis", "final_answer"}
      /\ steps' \in 0..LongestRun + 1 /\ steps' <= steps + 1
  BY <1>1, RunCounts DEF Gate
<1>3. UNCHANGED <<files, field, labelled, wanted, task, selected, pending, ran, retrieved,
                  normalized, documents, data, code, vision, facts, reasoning, synthesis,
                  final, status, repairs, delivered>>
  BY DEF Gate, request, routes, results, answers, outcome
<1>a. synthesize' \in BOOLEAN
  BY DEF Gate
<1>4. TypeOK'
  BY <1>1, <1>2, <1>3, <1>a DEF TypeOK, Nodes, Routes, Ends
<1>5. Routing'
  BY <1>1, <1>2, <1>3, RoutingKept DEF Routing, Early, Late, Routes
<1>6. Findings'
  BY <1>1, <1>2, <1>3, FindingsKept DEF Early, Routes
<1>7. Counted'
  BY <1>1, <1>2, <1>3 DEF Counted, TypeOK, Early, Routes
<1>8. Verified'
  BY <1>1, <1>2, <1>3, NothingDelivered
<1>9. Spent'
  BY <1>1, <1>2, <1>3 DEF Spent, TypeOK, Routes, Ends
<1>10. QED
  BY <1>4, <1>5, <1>6, <1>7, <1>8, <1>9 DEF IInv

LEMMA SynthesizeStep ==
  ASSUME IInv, Synthesize
  PROVE  IInv'
<1>1. TypeOK /\ Routing /\ Findings /\ Counted /\ Verified /\ Spent
  BY DEF IInv
<1>2. /\ node = "synthesis" /\ node' = "final_answer"
      /\ steps' \in 0..LongestRun + 1 /\ steps' <= steps + 1
  BY <1>1, RunCounts DEF Synthesize
<1>3. UNCHANGED <<files, field, labelled, wanted, task, selected, pending, ran, retrieved,
                  normalized, documents, data, code, vision, facts, reasoning, final,
                  synthesize, status, repairs, delivered>>
  BY DEF Synthesize, request, routes, results, answers, outcome
<1>a. synthesis' \in Answers \cup {NoAnswer}
  BY DEF Synthesize
<1>4. TypeOK'
  BY <1>1, <1>2, <1>3, <1>a DEF TypeOK, Nodes, Routes, Ends
<1>5. Routing'
  BY <1>1, <1>2, <1>3, RoutingKept DEF Routing, Early, Late, Routes
<1>6. Findings'
  BY <1>1, <1>2, <1>3, FindingsKept DEF Early, Routes
<1>7. Counted'
  BY <1>1, <1>2, <1>3 DEF Counted, TypeOK, Early, Routes
<1>8. Verified'
  BY <1>1, <1>2, <1>3, NothingDelivered
<1>9. Spent'
  BY <1>1, <1>2, <1>3 DEF Spent, TypeOK, Routes, Ends
<1>10. QED
  BY <1>4, <1>5, <1>6, <1>7, <1>8, <1>9 DEF IInv

LEMMA SelectAnswerStep ==
  ASSUME IInv, SelectAnswer
  PROVE  IInv'
<1>1. TypeOK /\ Routing /\ Findings /\ Counted /\ Verified /\ Spent
  BY DEF IInv
<1>2. /\ node = "final_answer" /\ node' = "verifier"
      /\ steps' \in 0..LongestRun + 1 /\ steps' <= steps + 1
  BY <1>1, RunCounts DEF SelectAnswer
<1>3. UNCHANGED <<files, field, labelled, wanted, task, selected, pending, ran, retrieved,
                  normalized, documents, data, code, vision, reasoning, synthesis, synthesize,
                  status, repairs, delivered>>
  BY DEF SelectAnswer, request, routes, results, answers, outcome
<1>a. facts' \in 0..2
  BY <1>1, <1>2 DEF SelectAnswer, TypeOK, Counted
<1>b. final' \in Answers
  BY <1>1 DEF SelectAnswer, TypeOK
<1>4. TypeOK'
  BY <1>1, <1>2, <1>3, <1>a, <1>b DEF TypeOK, Nodes, Routes, Ends
<1>5. Routing'
  BY <1>1, <1>2, <1>3, RoutingKept DEF Routing, Early, Late, Routes
<1>6. Findings'
  BY <1>1, <1>2, <1>3, FindingsKept DEF Early, Routes
<1>7. Counted'
  BY <1>1, <1>2, <1>3, <1>a DEF Counted, TypeOK, Early, Routes
<1>8. Verified'
  BY <1>1, <1>2, <1>3, LimitAssumption, LongestIs DEF Verified, Counted
<1>9. Spent'
  BY <1>1, <1>2, <1>3 DEF Spent, TypeOK, Routes, Ends
<1>10. QED
  BY <1>4, <1>5, <1>6, <1>7, <1>8, <1>9 DEF IInv

LEMMA VerifyStep ==
  ASSUME IInv, Verify
  PROVE  IInv'
<1>1. TypeOK /\ Routing /\ Findings /\ Counted /\ Verified /\ Spent
  BY DEF IInv
<1>2. /\ node = "verifier" /\ node' \in {"deliverable", "repair", "end"}
      /\ steps' \in 0..LongestRun + 1 /\ steps' <= steps + 1
  BY <1>1, RunCounts DEF Verify
<1>3. UNCHANGED <<files, field, labelled, wanted, task, selected, pending, ran, retrieved,
                  normalized, documents, data, code, vision, facts, reasoning, synthesis,
                  final, synthesize, repairs, delivered>>
  BY DEF Verify, request, routes, results, answers, outcome
<1>a. /\ status' \in {"passed", "failed"}
      /\ node' = "deliverable" <=> Valid(final)
      /\ node' = "repair" <=> ~Valid(final) /\ repairs < MaxRepairs
  BY <1>2 DEF Verify, Run, MayRepair
<1>4. TypeOK'
  BY <1>1, <1>2, <1>3, <1>a DEF TypeOK, Nodes, Routes, Ends
<1>5. Routing'
  BY <1>1, <1>2, <1>3, RoutingKept DEF Routing, Early, Late, Routes
<1>6. Findings'
  BY <1>1, <1>2, <1>3, FindingsKept DEF Early, Routes
<1>7. Counted'
  BY <1>1, <1>2, <1>3, <1>a DEF Counted, TypeOK, Early, Routes
<1>8. Verified'
  BY <1>1, <1>2, <1>3, <1>a, LimitAssumption, LongestIs DEF Verified, Valid, CitationsValid, Citable, TypeOK
<1>9. Spent'
  BY <1>1, <1>2, <1>3, <1>a, LimitAssumption, LongestIs DEF Spent, TypeOK, Routes, Ends
<1>10. QED
  BY <1>4, <1>5, <1>6, <1>7, <1>8, <1>9 DEF IInv

LEMMA RepairStep ==
  ASSUME IInv, Repair
  PROVE  IInv'
<1>1. TypeOK /\ Routing /\ Findings /\ Counted /\ Verified /\ Spent
  BY DEF IInv
<1>2. /\ node = "repair" /\ node' = "verifier"
      /\ steps' \in 0..LongestRun + 1 /\ steps' <= steps + 1
  BY <1>1, RunCounts DEF Repair
<1>3. UNCHANGED <<files, field, labelled, wanted, task, selected, pending, ran, retrieved,
                  normalized, documents, data, code, vision, facts, reasoning, synthesize,
                  delivered>>
  BY DEF Repair, request, routes, results, answers, outcome
<1>a. /\ status' \in {status, "failed_terminal"}
      /\ repairs < MaxRepairs /\ repairs' = repairs + 1
      /\ repairs' \in 0..MaxRepairs
  BY <1>1, <1>2, LimitAssumption, LongestIs DEF Repair, Counted, TypeOK
<1>b. /\ final' \in Answers \cup {NoAnswer} /\ synthesis' \in Answers \cup {NoAnswer}
      /\ repairs' = MaxRepairs => final' = final
  BY <1>1, <1>a, LimitAssumption, LongestIs DEF Repair, Rewrite, TypeOK
<1>4. TypeOK'
  BY <1>1, <1>2, <1>3, <1>a, <1>b DEF TypeOK, Nodes, Routes, Ends
<1>5. Routing'
  BY <1>1, <1>2, <1>3, RoutingKept DEF Routing, Early, Late, Routes
<1>6. Findings'
  BY <1>1, <1>2, <1>3, FindingsKept DEF Early, Routes
<1>7. Counted'
  BY <1>1, <1>2, <1>3, <1>a DEF Counted, TypeOK, Early, Routes
<1>8. Verified'
  BY <1>1, <1>2, <1>3, <1>a, <1>b DEF Verified, Valid, CitationsValid, Citable
<1>9. Spent'
  BY <1>1, <1>2, <1>3, <1>a DEF Spent, TypeOK, Routes, Ends
<1>10. QED
  BY <1>4, <1>5, <1>6, <1>7, <1>8, <1>9 DEF IInv

LEMMA DeliverStep ==
  ASSUME IInv, Deliver
  PROVE  IInv'
<1>1. TypeOK /\ Routing /\ Findings /\ Counted /\ Verified /\ Spent
  BY DEF IInv
<1>2. /\ node = "deliverable" /\ node' = "end"
      /\ steps' \in 0..LongestRun + 1 /\ steps' <= steps + 1
  BY <1>1, RunCounts DEF Deliver
<1>3. UNCHANGED <<files, field, labelled, wanted, task, selected, pending, ran, retrieved,
                  normalized, documents, data, code, vision, facts, reasoning, synthesis,
                  final, synthesize, status, repairs>>
  BY DEF Deliver, request, routes, results, answers, outcome
<1>a. delivered' \in {final, NoAnswer}
  BY DEF Deliver
<1>4. TypeOK'
  BY <1>1, <1>2, <1>3, <1>a DEF TypeOK, Nodes, Routes, Ends
<1>5. Routing'
  BY <1>1, <1>2, <1>3, RoutingKept DEF Routing, Early, Late, Routes
<1>6. Findings'
  BY <1>1, <1>2, <1>3, FindingsKept DEF Early, Routes
<1>7. Counted'
  BY <1>1, <1>2, <1>3 DEF Counted, TypeOK, Early, Routes
<1>8. Verified'
  BY <1>1, <1>2, <1>3, <1>a DEF Verified, Valid, CitationsValid, Citable
<1>9. Spent'
  BY <1>1, <1>2, <1>3, LimitAssumption, LongestIs DEF Verified, Spent, TypeOK, Routes, Ends
<1>10. QED
  BY <1>4, <1>5, <1>6, <1>7, <1>8, <1>9 DEF IInv

\* An exception may end the run at any node that calls out.
LEMMA NodeRaisesStep ==
  ASSUME IInv, NodeRaises
  PROVE  IInv'
<1>1. TypeOK /\ Routing /\ Findings /\ Counted /\ Verified /\ Spent
  BY DEF IInv
<1>2. /\ node \in Fallible /\ node' = "raised"
      /\ steps' \in 0..LongestRun + 1 /\ steps' <= steps + 1
  BY <1>1, RunCounts DEF NodeRaises
<1>3. UNCHANGED <<files, field, labelled, wanted, task, selected, pending, ran, retrieved,
                  normalized, documents, data, code, vision, facts, reasoning, synthesis,
                  final, synthesize, status, repairs, delivered>>
  BY DEF NodeRaises, request, routes, results, answers, outcome
<1>4. TypeOK'
  BY <1>1, <1>2, <1>3 DEF TypeOK, Ends
<1>5. Routing'
  BY <1>1, <1>2, <1>3, RoutingKept DEF Early, Late, Routes
<1>6. Findings'
  BY <1>1, <1>2, <1>3, FindingsKept DEF Early, Routes
<1>7. Counted'
  BY <1>1, <1>2, <1>3 DEF Counted, TypeOK, Early, Routes
<1>8. Verified'
  BY <1>1, <1>2, <1>3, NothingDelivered DEF Fallible
<1>9. Spent'
  <2>1. node \in Routes => steps <= 2 + 2 * Len(selected)
    BY <1>1 DEF Spent, TypeOK
  <2>2. steps \in Nat /\ repairs \in 0..MaxRepairs /\ Len(selected) \in Nat /\ Len(selected) <= 5
    <3>1. Len(selected) \in Nat /\ Len(selected) <= 5
      BY <1>1 DEF Spent, TypeOK
    <3>2. steps \in 0..LongestRun + 1 /\ repairs \in 0..MaxRepairs
      BY <1>1 DEF TypeOK
    <3>3. QED
      BY <3>1, <3>2, LimitAssumption, LongestIs
  <2>3. steps + 1 <= LongestRun
    BY <1>1, <1>2, <2>1, <2>2, LimitAssumption, LongestIs DEF Spent, Counted, Verified, Fallible, Routes
  <2>4. QED
    BY <1>1, <1>2, <1>3, <2>2, <2>3, LimitAssumption, LongestIs DEF Spent, Routes, Ends
<1>10. QED
  BY <1>4, <1>5, <1>6, <1>7, <1>8, <1>9 DEF IInv

-----------------------------------------------------------------------------
(***************************************************************************)
(* The theorems.                                                           *)
(***************************************************************************)
LEMMA InitIInv ==
  ASSUME Init
  PROVE  IInv
<1>1. TypeOK
  <2>1. labelled \subseteq Kinds
    BY DEF Init
  <2>2. <<>> \in Seq(Routes)
    OBVIOUS
  <2>3. repairs \in 0..MaxRepairs /\ steps \in 0..LongestRun + 1
    BY LimitAssumption, LongestIs DEF Init
  <2>4. node \in Nodes \cup Ends /\ {reasoning, synthesis, final} \subseteq Answers \cup {NoAnswer}
    BY DEF Init, Nodes
  <2>5. selected \in Seq(Routes) /\ pending \in Seq(Routes)
    BY <2>2 DEF Init
  <2>6. /\ documents \in 0..1 /\ data \in 0..2 /\ code \in 0..1 /\ vision \in 0..1
        /\ facts \in 0..2
    BY DEF Init
  <2>7. /\ files \subseteq Files /\ task \subseteq Capabilities /\ ran \subseteq Routes
        /\ retrieved \subseteq Kinds /\ delivered \in Answers \cup {NoAnswer}
    BY DEF Init
  <2>8. QED
    BY <2>1, <2>3, <2>4, <2>5, <2>6, <2>7 DEF Init, TypeOK
<1>2. Routing
  BY DEF Init, Routing, Early, Late, Routes, Left, ToRun
<1>3. Findings /\ Counted /\ Verified
  BY DEF Init, Findings, Counted, Verified, Early, Routes
<1>4. Spent
  BY DEF Init, Spent, Routes, Ends
<1>5. QED
  BY <1>1, <1>2, <1>3, <1>4 DEF IInv

LEMMA NextIInv ==
  ASSUME IInv, Next
  PROVE  IInv'
BY ProcessInputStep, AnalyzeTaskStep, RouteTaskStep, DispatchStep, DocumentRouteStep,
   VaultRouteStep, DataRouteStep, VisionRouteStep, CodeRouteStep, DocumentFactStep,
   ReasonStep, NodeRaisesStep, AggregateStep, GateStep, SynthesizeStep, SelectAnswerStep,
   VerifyStep, RepairStep, DeliverStep
   DEF Next

LEMMA StutterIInv ==
  ASSUME IInv, UNCHANGED vars
  PROVE  IInv'
BY DEF IInv, TypeOK, Routing, Findings, Counted, Verified, Spent, Left, ToRun, Valid,
       CitationsValid, Citable, vars, request, routes, results, answers, outcome

\* The invariant of the workflow, node by node.
THEOREM Invariant == Spec => []IInv
<1>1. Init => IInv
  BY InitIInv
<1>2. IInv /\ [Next]_vars => IInv'
  BY NextIInv, StutterIInv
<1>3. QED
  BY <1>1, <1>2, PTL DEF Spec

\* The state of the workflow has the types of WorkflowState.
THEOREM TypeCorrect == Spec => []TypeOK
<1>1. IInv => TypeOK
  BY DEF IInv
<1>2. QED
  BY <1>1, Invariant, PTL

\* Every selected route has run when the results are aggregated: neither short
\* cut to the extraction of a document fact drops a pending route.
THEOREM RoutesAllRun == Spec => []NoRouteLost
<1>1. IInv => NoRouteLost
  <2> SUFFICES ASSUME IInv, node \in {"aggregate_results", "verifier", "end"}
               PROVE  pending = <<>> /\ ran = ToRun
    BY DEF NoRouteLost, ToRun
  <2>1. pending = <<>> /\ ran \cup Left = ToRun
    BY DEF IInv, Routing, Late
  <2>2. Left = {}
    BY <2>1 DEF Left
  <2>3. QED
    BY <2>1, <2>2
<1>2. QED
  BY <1>1, Invariant, PTL

\* A deliverable only ever holds an answer that the verifier found valid, for
\* any number of repairs.
THEOREM DeliverablesVerified == Spec => []DeliverableIsVerified
<1>1. IInv => DeliverableIsVerified
  BY DEF IInv, Verified, DeliverableIsVerified
<1>2. QED
  BY <1>1, Invariant, PTL

\* No node undoes the findings of another, although the vault's replace the
\* list to which the others append.
THEOREM FindingsKeptForGood == Spec => EvidenceIsKept
<1>1. IInv /\ [Next]_vars => [retrieved \ {"blank"} \subseteq retrieved']_vars
  <2> SUFFICES ASSUME IInv, Next
               PROVE  retrieved \ {"blank"} \subseteq retrieved'
    BY DEF vars
  <2>1. CASE DocumentRoute
    BY <2>1 DEF DocumentRoute
  <2>2. CASE VaultRoute
    <3>1. node = "vault"
      BY <2>2 DEF VaultRoute, Run
    <3>2. retrieved = {}
      BY <3>1 DEF IInv, Routing, Findings, Routes, ToRun
    <3>3. QED
      BY <3>2
  <2>3. CASE VisionRoute
    BY <2>3 DEF VisionRoute
  <2>4. CASE Aggregate
    BY <2>4 DEF Aggregate
  <2>5. CASE ~(DocumentRoute \/ VaultRoute \/ VisionRoute \/ Aggregate)
    <3>1. UNCHANGED retrieved
      BY <2>5 DEF Next, ProcessInput, AnalyzeTask, RouteTask, Dispatch, DataRoute, CodeRoute,
                  DocumentFact, Reason, NodeRaises, Gate, Synthesize, SelectAnswer, Verify,
                  Repair, Deliver, results
    <3>2. QED
      BY <3>1
  <2>6. QED
    BY <2>1, <2>2, <2>3, <2>4, <2>5
<1>2. QED
  BY <1>1, Invariant, PTL DEF Spec, EvidenceIsKept

\* No run has more nodes than five routes and all the repairs need, however
\* routes, short cuts, verification and repair combine.
THEOREM RunsAreBounded == Spec => []RunIsBounded
<1>1. IInv => RunIsBounded
  <2> SUFFICES ASSUME IInv
               PROVE  steps <= LongestRun
    BY DEF RunIsBounded
  <2>1. /\ steps \in Nat /\ repairs \in 0..MaxRepairs /\ Len(selected) \in Nat /\ Len(selected) <= 5
        /\ Len(pending) \in Nat
    <3>1. Len(selected) \in Nat /\ Len(selected) <= 5 /\ Len(pending) \in Nat
      BY DEF IInv, Spent, TypeOK
    <3>2. steps \in 0..LongestRun + 1 /\ repairs \in 0..MaxRepairs
      BY DEF IInv, TypeOK
    <3>3. QED
      BY <3>1, <3>2, LimitAssumption, LongestIs
  <2>2. QED
    BY <2>1, LimitAssumption, LongestIs
       DEF IInv, Spent, Counted, Verified, TypeOK, Nodes, Ends, Routes
<1>2. QED
  BY <1>1, Invariant, PTL
=============================================================================
