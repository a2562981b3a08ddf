--------------------------- MODULE AnalysisRunProofs ---------------------------
(***************************************************************************)
(* Theorems about AnalysisRun for every number of requests, tasks,         *)
(* conversations and failures: an analysis runs once, and what was said of *)
(* it stays true.                                                          *)
(***************************************************************************)
EXTENDS AnalysisRun, TaskRecordProofs

Runs(q) == request[q].kind \in {"stream", "analyze"}

\* The points of a run that has created its row, before and after the task is
\* completed, and those at which it has written its request_id and has a
\* conversation.
Before == {"add_step", "start_task", "start_step", "request_id", "conversation", "invoke",
           "complete_step", "complete_task", "fail_step", "fail_result", "fail_task"}
After == {"user", "assistant", "result", "cache"}
Owning == Before \cup After
Marked == Owning \ {"add_step", "start_task", "start_step", "request_id"}
Talking == {"invoke", "complete_step", "complete_task", "user", "assistant"}

\* What a request is about.
Placed(q) ==
  /\ request[q].kind = "unused" => request[q] = Unused
  /\ request[q].kind # "unused" => request[q].task \in Tasks
  /\ request[q].at \in RunPoints => Runs(q)
  /\ request[q].at \in ReportPoints => request[q].kind = "report"
  /\ request[q].at \in Talking => request[q].conv # Nothing

\* The run that has created the row of a task is its owner for good.
Owns(q, t) ==
  /\ request[q].kind # "unused" /\ request[q].task = t
  /\ request[q].at \in Owning \/ request[q].invoked \/ meta[t].request_id = q

OneOwner ==
  \A t \in Tasks :
    /\ \A q \in Requests : Owns(q, t) => row[t] # NoTask
    /\ \A q, p \in Requests : Owns(q, t) /\ Owns(p, t) => q = p
    /\ meta[t].request_id # Nothing => Owns(meta[t].request_id, t)

\* How far an owner is shows in its row and its metadata.
Progress(q) ==
  LET t == request[q].task IN
  /\ request[q].at \in Before => row[t].status # "completed"
  /\ request[q].at \in After => row[t].status = "completed"
  /\ request[q].at \in Owning \ {"fail_task", "cache"} => meta[t].result = "none"
  /\ request[q].at = "cache" => meta[t].result = "completed"
  /\ request[q].at \in Marked => meta[t].request_id = q

\* What the database holds together, of one task.
Recorded(t) ==
  /\ row[t] = NoTask => meta[t].result = "none"
  /\ meta[t].result = "completed" => row[t].status = "completed"
  /\ meta[t].result = "failed" => row[t].status # "completed"

\* What was, or is about to be, told of a task.
Shown(q) ==
  /\ Runs(q) /\ request[q].at = "returned" => HasResult(request[q].task)
  /\ request[q].at \in {"list", "save"} => HasResult(request[q].task)
  /\ request[q].told = "completed" => HasResult(request[q].task)
  /\ q \in reports => request[q].kind # "unused" /\ HasResult(request[q].task)
  /\ q \in cache => /\ request[q].kind # "unused"
                    /\ meta[request[q].task].request_id = q
                    /\ meta[request[q].task].result = "completed"

Remembered ==
  \A v \in AllConversations : \A i \in DOMAIN said[v] :
    LET q == said[v][i].by IN
    request[q].kind # "unused" /\ row[request[q].task] # NoTask
    /\ row[request[q].task].status = "completed"

IInv ==
  /\ TypeOK
  /\ \A q \in Requests : Placed(q)
  /\ OneOwner
  /\ \A q \in Requests : Progress(q)
  /\ \A t \in Tasks : Recorded(t)
  /\ \A q \in Requests : Shown(q)
  /\ Remembered

-----------------------------------------------------------------------------
(***************************************************************************)
(* What the steps change: one request, and the row of its task.            *)
(***************************************************************************)
Points == RunPoints \cup ReportPoints \cup Ends

\* Nobody but q moves, and q keeps its kind, its task and what it was told.
Moves(q, p) ==
  /\ request' \in [Requests -> RequestRecords]
  /\ \A r \in Requests \ {q} : request'[r] = request[r]
  /\ request'[q].at = p
  /\ request'[q].kind = request[q].kind
  /\ request'[q].task = request[q].task
  /\ request'[q].told = request[q].told

Moved(r, p, conv, answered) == [r EXCEPT !.at = p, !.conv = conv, !.answered = answered]

LEMMA MovedTyped ==
  ASSUME NEW r \in RequestRecords, NEW p \in Points,
         NEW conv \in AllConversations \cup {Nothing}, NEW answered \in BOOLEAN
  PROVE  Moved(r, p, conv, answered) \in RequestRecords
BY DEF Moved, Points, RequestRecords

LEMMA MovedFields ==
  ASSUME NEW r \in RequestRecords, NEW p, NEW conv, NEW answered
  PROVE  LET new == Moved(r, p, conv, answered)
         IN  /\ new.at = p /\ new.conv = conv
             /\ new.kind = r.kind /\ new.task = r.task /\ new.told = r.told
             /\ new.invoked = r.invoked
BY DEF Moved, RequestRecords

LEMMA GotoMoves ==
  ASSUME TypeOK, NEW q \in Requests, NEW p \in Points, Goto(q, p)
  PROVE  /\ Moves(q, p)
         /\ request'[q].invoked = request[q].invoked
         /\ p \notin Ends => request'[q].conv = request[q].conv
<1>1. request[q] \in RequestRecords
  BY DEF TypeOK
<1>2. request[q].conv \in AllConversations \cup {Nothing} /\ request[q].answered \in BOOLEAN
  BY <1>1 DEF RequestRecords
<1>3. PICK c \in AllConversations \cup {Nothing}, b \in BOOLEAN :
        /\ request' = [request EXCEPT ![q] = Moved(request[q], p, c, b)]
        /\ p \notin Ends => c = request[q].conv
  <2>1. CASE p \in Ends
    <3>1. request' = [request EXCEPT ![q] = Moved(request[q], p, Nothing, FALSE)]
      BY <2>1 DEF Goto, TypeOK, Moved
    <3>2. QED
      BY <2>1, <3>1, Zenon
  <2>2. CASE p \notin Ends
    <3>1. request' = [request EXCEPT ![q] =
                        Moved(request[q], p, request[q].conv, request[q].answered)]
      BY <2>2 DEF Goto, TypeOK, Moved
    <3>2. QED
      BY <1>2, <3>1
  <2>3. QED
    BY <2>1, <2>2
<1>4. Moved(request[q], p, c, b) \in RequestRecords
  BY <1>1, MovedTyped
<1>5. LET new == Moved(request[q], p, c, b)
      IN  /\ new.at = p /\ new.conv = c
          /\ new.kind = request[q].kind /\ new.task = request[q].task
          /\ new.told = request[q].told /\ new.invoked = request[q].invoked
  BY <1>1, MovedFields
<1>6. request'[q] = Moved(request[q], p, c, b)
  BY <1>3 DEF TypeOK
<1>7. QED
  BY <1>3, <1>4, <1>5, <1>6 DEF TypeOK, Moves

LEMMA FollowingIsPoint ==
  ASSUME NEW q \in Requests, NEW b \in BOOLEAN,
         NEW p \in RowPoints \cup {"user", "assistant", "result", "fail_result"}
  PROVE  Following(p, b) \in Points
BY DEF Following, RowPoints, RunPoints, Points, Ends

\* The operations that a run calls on its row are operations of the record.
LEMMA CallIsOperation ==
  ASSUME NEW t \in TaskRecords, NEW p \in RowPoints, Allowed(p, t)
  PROVE  OneOperation(t, Touched(Changed(p, t)))
BY StepAssumption
   DEF RowPoints, Allowed, Changed, OneOperation, StepOperation, TaskOperation

-----------------------------------------------------------------------------
(***************************************************************************)
(* Steps that write nothing: requests arrive, go on, respond and end.      *)
(***************************************************************************)
Arrives(q) ==
  /\ request[q].kind = "unused" /\ request'[q].kind # "unused"
  /\ request'[q].task \in Tasks /\ ~request'[q].invoked
  /\ \/ request'[q].at = "exists" /\ request'[q].kind \in {"stream", "analyze"}
     \/ request'[q].at = "read" /\ request'[q].kind = "report"
     \/ request'[q].at = "none"
  /\ request'[q].told = "completed" => meta[request'[q].task].result = "completed"

\* The places to which a request goes on without a write.
GoesOn(q) ==
  LET here == request[q].at  next == request'[q].at IN
  \/ next = here /\ (here \in Talking => request'[q].conv = request[q].conv)
  \/ next \in {"raised", "dead"}
  \/ here = "exists" /\ next = "insert"
  \/ here = "conversation" /\ next = "invoke" /\ request'[q].conv # Nothing
  \/ here = "invoke" /\ next = "fail_step"
  \/ here = "invoke" /\ next = "complete_step" /\ request'[q].conv = request[q].conv
  \/ here = "read" /\ next = "list" /\ HasResult(request[q].task)
  \/ here = "list" /\ next \in {"save", "returned"}

Goes(q) ==
  /\ request[q].kind # "unused"
  /\ request'[q].kind = request[q].kind /\ request'[q].task = request[q].task
  /\ request'[q].told = "completed" =>
       request[q].told = "completed" \/ (Runs(q) /\ request[q].at = "returned")
  /\ request'[q].invoked => request[q].invoked \/ request[q].at = "invoke"
  /\ GoesOn(q)

Quiet ==
  /\ UNCHANGED durable /\ cache' \subseteq cache /\ failures' \in 0..MaxFailures
  /\ request' \in [Requests -> RequestRecords]
  /\ \A q \in Requests : request'[q] = request[q] \/ Arrives(q) \/ Goes(q)

\* Every message was said by a request.
LEMMA SaidByRequest ==
  ASSUME TypeOK, NEW v \in AllConversations, NEW i \in DOMAIN said[v]
  PROVE  said[v][i].by \in Requests
<1>1. said[v] \in Seq(Messages)
  BY DEF TypeOK
<1>2. said[v][i] \in Messages
  BY <1>1
<1>3. QED
  BY <1>2 DEF Messages

\* A request that was not made yet has nothing to keep.
LEMMA UnusedIsQuiet ==
  ASSUME NEW r \in Requests, Shown(r), request[r] = Unused, request'[r] = Unused,
         UNCHANGED <<reports, cache>>
  PROVE  Placed(r)' /\ Progress(r)' /\ Shown(r)'
<1>1. Placed(r)'
  BY DEF Placed, Unused, RunPoints, RowPoints, ReportPoints, Talking
<1>2. Progress(r)'
  BY DEF Progress, Unused, Before, After, Owning, Marked
<1>3. r \notin reports /\ r \notin cache
  BY DEF Shown, Unused
<1>4. Shown(r)'
  BY <1>3 DEF Shown, Runs, Unused
<1>5. QED
  BY <1>1, <1>2, <1>4

LEMMA QuietKeepsOwners ==
  ASSUME IInv, Quiet
  PROVE  OneOwner'
<1>1. ASSUME NEW q \in Requests, NEW t \in Tasks, Owns(q, t)'
      PROVE  Owns(q, t)
  BY <1>1, NothingAssumption
     DEF IInv, OneOwner, Quiet, durable, Owns, Arrives, Goes, GoesOn, Owning, Before, After
<1>2. ASSUME NEW t \in Tasks, meta[t].request_id # Nothing
      PROVE  Owns(meta[t].request_id, t)'
  <2>1. meta[t].request_id \in Requests
    BY <1>2 DEF IInv, TypeOK, MetaRecords
  <2>2. QED
    BY <1>2, <2>1 DEF IInv, OneOwner, Quiet, durable, Owns, Arrives, Goes
<1>3. UNCHANGED <<row, meta>> /\ OneOwner
  BY DEF IInv, Quiet, durable
<1>4. QED
  BY <1>1, <1>2, <1>3 DEF OneOwner

LEMMA QuietKeepsRequests ==
  ASSUME IInv, Quiet, NEW q \in Requests
  PROVE  Placed(q)' /\ Progress(q)' /\ Shown(q)'
<1>1. Placed(q) /\ Progress(q) /\ Shown(q)
  BY DEF IInv
<1>2. CASE request'[q] = request[q]
  BY <1>1, <1>2 DEF Quiet, durable, Placed, Progress, Shown, Runs, HasResult
<1>3. CASE Arrives(q)
  <2>1. q \notin reports /\ q \notin cache
    BY <1>1, <1>3 DEF Shown, Arrives
  <2>2. ASSUME NEW t \in Tasks, meta[t].result = "completed"
        PROVE  HasResult(t)
    BY <2>2 DEF IInv, Recorded, HasResult
  <2>3. Placed(q)'
    BY <1>3 DEF Arrives, Placed, Runs, RunPoints, RowPoints, ReportPoints, Talking
  <2>4. Progress(q)'
    BY <1>3 DEF Arrives, Progress, Before, After, Owning, Marked
  <2>5. Shown(q)'
    BY <1>3, <2>1, <2>2 DEF Quiet, durable, Arrives, Shown, Runs, HasResult
  <2>6. QED
    BY <2>3, <2>4, <2>5
<1>4. CASE Goes(q)
  <2>1. Placed(q)'
    BY <1>1, <1>4 DEF Goes, GoesOn, Placed, Runs, RunPoints, RowPoints, ReportPoints, Talking
  <2>2. Progress(q)'
    BY <1>1, <1>4
       DEF Quiet, durable, Goes, GoesOn, Progress, Before, After, Owning, Marked
  <2>3. Shown(q)'
    BY <1>1, <1>4
       DEF Quiet, durable, Goes, GoesOn, Shown, Placed, Runs, HasResult, ReportPoints
  <2>4. QED
    BY <2>1, <2>2, <2>3
<1>5. QED
  BY <1>2, <1>3, <1>4 DEF Quiet

LEMMA QuietKeepsInv ==
  ASSUME IInv, Quiet
  PROVE  IInv'
<1>1. TypeOK'
  BY DEF IInv, TypeOK, Quiet, durable
<1>2. \A t \in Tasks : Recorded(t)'
  BY DEF IInv, Recorded, Quiet, durable
<1>3. Remembered'
  <2> SUFFICES ASSUME NEW v \in AllConversations, NEW i \in DOMAIN said[v]
               PROVE  LET q == said[v][i].by IN
                        /\ request'[q].kind # "unused" /\ row[request'[q].task] # NoTask
                        /\ row[request'[q].task].status = "completed"
    BY DEF Remembered, Quiet, durable
  <2>1. said[v][i].by \in Requests
    BY SaidByRequest DEF IInv
  <2>2. QED
    BY <2>1 DEF IInv, Remembered, Quiet, Arrives, Goes
<1>4. QED
  BY <1>1, <1>2, <1>3, QuietKeepsOwners, QuietKeepsRequests DEF IInv

LEMMA UnusedTyped == Unused \in RequestRecords
BY DEF Unused, RequestRecords, Results

LEMMA BeginQuiet ==
  ASSUME IInv, NEW q \in Requests, NEW r \in RequestRecords, Begin(q, r),
         r.kind # "unused", r.task \in Tasks, ~r.invoked,
         \/ r.at = "exists" /\ r.kind \in {"stream", "analyze"}
         \/ r.at = "read" /\ r.kind = "report"
         \/ r.at = "none",
         r.told = "completed" => meta[r.task].result = "completed"
  PROVE  Quiet
<1>1. request' \in [Requests -> RequestRecords] /\ request'[q] = r
  BY DEF Begin, IInv, TypeOK
<1>2. Arrives(q)
  BY <1>1 DEF Begin, Arrives
<1>3. \A p \in Requests \ {q} : request'[p] = request[p]
  BY DEF Begin, IInv, TypeOK
<1>4. failures' \in 0..MaxFailures
  BY DEF Begin, IInv, TypeOK
<1>5. QED
  BY <1>1, <1>2, <1>3, <1>4 DEF Begin, Quiet

LEMMA ArriveQuiet ==
  ASSUME IInv, NEW q \in Requests, Arrive(q)
  PROVE  Quiet
<1> USE UnusedTyped
<1>1. PICK t \in Tasks :
        \/ \E v \in Conversations \cup {Nothing} : Analyze(q, t, v) \/ StartStream(q, t, v)
        \/ ReconnectStream(q, t)
        \/ \E titled \in BOOLEAN : AskReport(q, t, titled)
  BY DEF Arrive
<1>2. ASSUME NEW v \in Conversations \cup {Nothing}, Analyze(q, t, v)
      PROVE  Quiet
  <2> DEFINE r == [Unused EXCEPT !.kind = "analyze", !.task = t, !.conv = v, !.at = "exists"]
  <2>1. r \in RequestRecords
    BY DEF RequestRecords, RunPoints, AllConversations
  <2>2. r.kind = "analyze" /\ r.task = t /\ r.at = "exists" /\ ~r.invoked /\ r.told = "none"
    BY DEF Unused
  <2>3. Begin(q, r)
    BY <1>2 DEF Analyze
  <2> HIDE DEF r
  <2>4. QED
    BY <2>1, <2>2, <2>3, BeginQuiet
<1>3. ASSUME NEW v \in Conversations \cup {Nothing}, StartStream(q, t, v)
      PROVE  Quiet
  <2> DEFINE r == [Unused EXCEPT !.kind = "stream", !.task = t, !.conv = v, !.at = "exists",
                                 !.stream = "open"]
  <2>1. r \in RequestRecords
    BY DEF RequestRecords, RunPoints, AllConversations
  <2>2. r.kind = "stream" /\ r.task = t /\ r.at = "exists" /\ ~r.invoked /\ r.told = "none"
    BY DEF Unused
  <2>3. Begin(q, r)
    BY <1>3 DEF StartStream
  <2> HIDE DEF r
  <2>4. QED
    BY <2>1, <2>2, <2>3, BeginQuiet
<1>4. CASE ReconnectStream(q, t)
  <2> DEFINE status == row[t].status
             told == IF meta[t].result # "none" THEN meta[t].result ELSE Reconnected(status)
             r == [Unused EXCEPT !.kind = "stream", !.task = t, !.stream = "closed",
                                 !.saw = status, !.told = told]
  <2>1. status \in TaskStatuses /\ meta[t].result \in Results
    BY <1>4 DEF ReconnectStream, IInv, TypeOK, TaskRecords, MetaRecords
  <2>2. Reconnected(status) = "in_progress"
    BY <2>1 DEF Reconnected, TaskStatuses
  <2>3. /\ told \in Results \cup {"in_progress", "cancelled"}
        /\ told = "completed" => meta[t].result = "completed"
    BY <2>1, <2>2
  <2> HIDE DEF status, told
  <2>4. r \in RequestRecords
    BY <2>1, <2>3 DEF RequestRecords
  <2>5. r.kind = "stream" /\ r.task = t /\ r.at = "none" /\ ~r.invoked /\ r.told = told
    BY DEF Unused
  <2>6. Begin(q, r)
    BY <1>4 DEF ReconnectStream, status, told
  <2> HIDE DEF r
  <2>7. QED
    BY <2>3, <2>4, <2>5, <2>6, BeginQuiet
<1>5. ASSUME NEW titled \in BOOLEAN, AskReport(q, t, titled)
      PROVE  Quiet
  <2> DEFINE r == [Unused EXCEPT !.kind = "report", !.task = t, !.titled = titled, !.at = "read"]
  <2>1. r \in RequestRecords
    BY DEF RequestRecords, ReportPoints
  <2>2. r.kind = "report" /\ r.task = t /\ r.at = "read" /\ ~r.invoked /\ r.told = "none"
    BY DEF Unused
  <2>3. Begin(q, r)
    BY <1>5 DEF AskReport
  <2> HIDE DEF r
  <2>4. QED
    BY <2>1, <2>2, <2>3, BeginQuiet
<1>6. QED
  BY <1>1, <1>2, <1>3, <1>4, <1>5

\* A request that is under way has a kind, and a task.
LEMMA UnderWay ==
  ASSUME IInv, NEW q \in Requests, request[q].at \in RunPoints \cup ReportPoints \cup Ends
  PROVE  request[q].kind # "unused" /\ request[q].task \in Tasks
BY DEF IInv, Placed, Unused, RunPoints, RowPoints, ReportPoints, Ends

LEMMA GotoQuiet ==
  ASSUME IInv, NEW q \in Requests, NEW p \in Points, Goto(q, p),
         UNCHANGED <<durable, cache>>, failures' \in 0..MaxFailures,
         request[q].at \in RunPoints \cup ReportPoints,
         \/ p = "raised"
         \/ request[q].at = "exists" /\ p = "insert"
         \/ request[q].at = "read" /\ p = "list" /\ HasResult(request[q].task)
         \/ request[q].at = "list" /\ p \in {"save", "returned"}
  PROVE  Quiet
<1>1. Moves(q, p) /\ request'[q].invoked = request[q].invoked
  BY GotoMoves DEF IInv
<1>2. Goes(q)
  BY <1>1, UnderWay DEF Moves, Goes, GoesOn
<1>3. QED
  BY <1>1, <1>2 DEF Moves, Quiet

LEMMA RequestChanged ==
  ASSUME IInv, NEW q \in Requests, NEW r \in RequestRecords,
         request' = [request EXCEPT ![q] = r], UNCHANGED <<durable, cache, failures>>,
         Goes(q)
  PROVE  Quiet
BY DEF IInv, TypeOK, Quiet

LEMMA CheckExistsQuiet ==
  ASSUME IInv, NEW q \in Requests, CheckExists(q)
  PROVE  Quiet
<1>1. PICK p \in {"insert", "raised"} : Goto(q, p)
  BY DEF CheckExists
<1>2. p \in Points
  BY DEF Points, RunPoints, Ends
<1>3. QED
  BY <1>1, <1>2, GotoQuiet DEF CheckExists, At, RunPoints, IInv, TypeOK

LEMMA RunRaisesQuiet ==
  ASSUME IInv, NEW q \in Requests, RunRaises(q)
  PROVE  Quiet
<1>1. failures' \in 0..MaxFailures
  BY FailureAssumption DEF RunRaises, IInv, TypeOK
<1>2. "raised" \in Points
  BY DEF Points, Ends
<1>3. QED
  BY <1>1, <1>2, GotoQuiet DEF RunRaises

LEMMA ReadTaskQuiet ==
  ASSUME IInv, NEW q \in Requests, ReadTask(q)
  PROVE  Quiet
<1> DEFINE t == request[q].task
           found == row[t] # NoTask /\ row[t].status = "completed" /\ meta[t].result # "none"
<1>1. request[q].at \in ReportPoints /\ t \in Tasks
  BY UnderWay DEF ReadTask, At, ReportPoints
<1>2. "list" \in Points /\ "raised" \in Points
  BY DEF Points, ReportPoints, Ends
<1>3. CASE found
  <2>1. HasResult(t)
    BY <1>1, <1>3 DEF HasResult, IInv, Recorded, TypeOK, MetaRecords, Results
  <2>2. Goto(q, "list")
    BY <1>3 DEF ReadTask
  <2>3. QED
    BY <1>1, <1>2, <2>1, <2>2, GotoQuiet DEF ReadTask, At, IInv, TypeOK
<1>4. CASE ~found
  <2>1. Goto(q, "raised")
    BY <1>4 DEF ReadTask
  <2>2. QED
    BY <1>1, <1>2, <2>1, GotoQuiet DEF ReadTask, IInv, TypeOK
<1>5. QED
  BY <1>3, <1>4

LEMMA ListReportsQuiet ==
  ASSUME IInv, NEW q \in Requests, ListReports(q)
  PROVE  Quiet
<1>1. PICK p \in {"returned", "save"} : Goto(q, p)
  BY DEF ListReports
<1>2. p \in Points
  BY DEF Points, ReportPoints, Ends
<1>3. QED
  BY <1>1, <1>2, GotoQuiet DEF ListReports, At, ReportPoints, IInv, TypeOK

LEMMA UseConversationQuiet ==
  ASSUME IInv, NEW q \in Requests, UseConversation(q)
  PROVE  Quiet
<1> DEFINE conv == IF request[q].conv = Nothing THEN q ELSE request[q].conv
           r == [request[q] EXCEPT !.at = "invoke", !.conv = conv]
<1>1. request[q] \in RequestRecords /\ request[q].kind # "unused"
  BY UnderWay DEF UseConversation, At, RunPoints, IInv, TypeOK
<1>2. conv \in AllConversations /\ conv # Nothing
  BY <1>1, NothingAssumption DEF RequestRecords, AllConversations
<1> HIDE DEF conv
<1>3. r \in RequestRecords
  BY <1>1, <1>2 DEF RequestRecords, RunPoints
<1>4. /\ r.at = "invoke" /\ r.conv = conv /\ r.kind = request[q].kind
      /\ r.task = request[q].task /\ r.told = request[q].told
      /\ r.invoked = request[q].invoked
  BY <1>1 DEF RequestRecords
<1>5. request' = [request EXCEPT ![q] = r] /\ request'[q] = r
  BY DEF UseConversation, conv, IInv, TypeOK
<1> HIDE DEF r
<1>6. Goes(q)
  BY <1>1, <1>2, <1>4, <1>5 DEF UseConversation, At, Goes, GoesOn
<1>7. QED
  BY <1>3, <1>5, <1>6, RequestChanged DEF UseConversation

LEMMA InvokeQuiet ==
  ASSUME IInv, NEW q \in Requests, Invoke(q)
  PROVE  Quiet
<1>1. PICK p \in {"fail_step", "complete_step"}, b \in BOOLEAN :
        request' = [request EXCEPT ![q] =
          [request[q] EXCEPT !.at = p, !.invoked = TRUE, !.answered = b]]
  <2>1. PICK end \in {"answered", "empty", "raised"} :
          request' = [request EXCEPT
            ![q].at = IF end = "raised" THEN "fail_step" ELSE "complete_step",
            ![q].invoked = TRUE, ![q].answered = (end = "answered")]
    BY DEF Invoke
  <2>2. QED
    BY <2>1 DEF IInv, TypeOK
<1> DEFINE r == [request[q] EXCEPT !.at = p, !.invoked = TRUE, !.answered = b]
<1>2. request[q] \in RequestRecords /\ request[q].kind # "unused"
  BY UnderWay DEF Invoke, At, RunPoints, IInv, TypeOK
<1>3. r \in RequestRecords
  BY <1>2 DEF RequestRecords, RunPoints, RowPoints
<1>4. /\ r.at = p /\ r.conv = request[q].conv /\ r.kind = request[q].kind
      /\ r.task = request[q].task /\ r.told = request[q].told
  BY <1>2 DEF RequestRecords
<1>5. request'[q] = r
  BY <1>1 DEF IInv, TypeOK
<1> HIDE DEF r
<1>6. Goes(q)
  BY <1>2, <1>4, <1>5 DEF Invoke, At, Goes, GoesOn
<1>7. QED
  BY <1>1, <1>3, <1>5, <1>6, RequestChanged DEF Invoke, r

LEMMA RespondQuiet ==
  ASSUME IInv, NEW q \in Requests, Respond(q)
  PROVE  Quiet
<1> DEFINE told == IF request[q].at = "returned" THEN "completed" ELSE "failed"
           stream == IF request[q].stream = "open" THEN "closed" ELSE request[q].stream
           r == [request[q] EXCEPT !.told = told, !.stream = stream]
<1>1. request[q] \in RequestRecords /\ request[q].kind # "unused" /\ Runs(q)
  BY UnderWay DEF Respond, Ends, Runs, IInv, TypeOK
<1>2. told \in Results /\ stream \in {"none", "open", "closed"}
  BY <1>1 DEF Results, RequestRecords
<1>3. told = "completed" => request[q].at = "returned"
  OBVIOUS
<1> HIDE DEF told, stream
<1>4. r \in RequestRecords
  BY <1>1, <1>2 DEF RequestRecords
<1>5. /\ r.at = request[q].at /\ r.conv = request[q].conv /\ r.kind = request[q].kind
      /\ r.task = request[q].task /\ r.told = told /\ r.invoked = request[q].invoked
  BY <1>1 DEF RequestRecords
<1>6. request' = [request EXCEPT ![q] = r] /\ request'[q] = r
  BY DEF Respond, told, stream, IInv, TypeOK
<1> HIDE DEF r
<1>7. Goes(q)
  BY <1>1, <1>3, <1>5, <1>6 DEF Goes, GoesOn
<1>8. QED
  BY <1>4, <1>6, <1>7, RequestChanged DEF Respond

LEMMA DisconnectQuiet ==
  ASSUME IInv, NEW q \in Requests, Disconnect(q)
  PROVE  Quiet
<1> DEFINE r == [request[q] EXCEPT !.stream = "closed"]
<1>1. request[q] \in RequestRecords
  BY DEF IInv, TypeOK
<1>2. request[q].kind # "unused"
  BY DEF Disconnect, IInv, Placed, Unused
<1>3. r \in RequestRecords
  BY <1>1 DEF RequestRecords
<1>4. /\ r.at = request[q].at /\ r.conv = request[q].conv /\ r.kind = request[q].kind
      /\ r.task = request[q].task /\ r.told = request[q].told
      /\ r.invoked = request[q].invoked
  BY <1>1 DEF RequestRecords
<1>5. request' = [request EXCEPT ![q] = r] /\ request'[q] = r
  BY DEF Disconnect, IInv, TypeOK
<1> HIDE DEF r
<1>6. Goes(q)
  BY <1>2, <1>4, <1>5 DEF Goes, GoesOn
<1>7. QED
  BY <1>3, <1>5, <1>6, RequestChanged DEF Disconnect

\* A request after a crash of the process.
Stopped(r) ==
  [r EXCEPT !.at = IF @ \in Ends \cup {"none"} THEN @ ELSE "dead",
            !.conv = Nothing, !.answered = FALSE,
            !.stream = IF @ = "open" THEN "closed" ELSE @]

LEMMA StoppedFields ==
  ASSUME NEW r \in RequestRecords
  PROVE  /\ Stopped(r) \in RequestRecords
         /\ Stopped(r).kind = r.kind /\ Stopped(r).task = r.task
         /\ Stopped(r).told = r.told /\ Stopped(r).invoked = r.invoked
         /\ Stopped(r).at \in {r.at, "dead"}
         /\ Stopped(r).at \in Ends \cup {"none"}
<1> DEFINE at == IF r.at \in Ends \cup {"none"} THEN r.at ELSE "dead"
           stream == IF r.stream = "open" THEN "closed" ELSE r.stream
           new == [r EXCEPT !.at = at, !.conv = Nothing, !.answered = FALSE, !.stream = stream]
<1>1. Stopped(r) = new
  BY DEF Stopped
<1>2. at \in Ends \cup {"none"} /\ at \in {r.at, "dead"} /\ stream \in {"none", "open", "closed"}
  BY DEF RequestRecords, Ends
<1> HIDE DEF at, stream
<1>3. new \in RequestRecords
  BY <1>2 DEF RequestRecords
<1>4. new.kind = r.kind /\ new.task = r.task /\ new.told = r.told /\ new.invoked = r.invoked
      /\ new.at = at
  BY DEF RequestRecords
<1>5. QED
  BY <1>1, <1>2, <1>3, <1>4

LEMMA CrashQuiet ==
  ASSUME IInv, Crash
  PROVE  Quiet
<1>1. request' = [q \in Requests |-> Stopped(request[q])]
  BY DEF Crash, Stopped
<1>2. request' \in [Requests -> RequestRecords]
  <2>1. ASSUME NEW q \in Requests PROVE Stopped(request[q]) \in RequestRecords
    BY StoppedFields DEF IInv, TypeOK
  <2>2. QED
    BY <1>1, <2>1
<1>3. failures' \in 0..MaxFailures
  <2>1. failures < MaxFailures /\ failures' = failures + 1
    BY Zenon DEF Crash
  <2>2. QED
    BY <2>1, FailureAssumption DEF IInv, TypeOK
<1>4. ASSUME NEW q \in Requests
      PROVE  request'[q] = request[q] \/ Goes(q)
  <2>1. request[q] \in RequestRecords /\ request'[q] = Stopped(request[q])
    BY <1>1 DEF IInv, TypeOK
  <2>2. CASE request[q].kind = "unused"
    <3>1. request[q] = Unused
      BY <2>2 DEF IInv, Placed
    <3>2. Stopped(Unused) = Unused
      <4>1. Unused.at = "none" /\ Unused.stream = "none"
        BY DEF Unused
      <4>2. Stopped(Unused) = [Unused EXCEPT !.at = "none", !.conv = Nothing,
                                             !.answered = FALSE, !.stream = "none"]
        BY <4>1 DEF Stopped
      <4>3. QED
        BY <4>2 DEF Unused
    <3>3. QED
      BY <2>1, <3>1, <3>2
  <2>3. CASE request[q].kind # "unused"
    BY <2>1, <2>3, StoppedFields DEF Goes, GoesOn, Ends, Talking
  <2>4. QED
    BY <2>2, <2>3
<1>5. QED
  BY <1>2, <1>3, <1>4 DEF Crash, Quiet

-----------------------------------------------------------------------------
(***************************************************************************)
(* Steps that write.  The owner of a row writes record u and metadata m    *)
(* over it and goes on to p.                                               *)
(***************************************************************************)
Writes(q, p, u, m) ==
  LET t == request[q].task IN
  /\ request[q].at \in Owning \ {"cache"}
  /\ Moves(q, p) /\ request'[q].invoked = request[q].invoked
  /\ p \notin Ends => request'[q].conv = request[q].conv
  /\ row' = [row EXCEPT ![t] = u] /\ meta' = [meta EXCEPT ![t] = m]
  /\ UNCHANGED <<said, reports, cache, failures>>

\* What the owner leaves behind when it goes on to p.
Leaves(q, p, u, m) ==
  LET t == request[q].task IN
  /\ p \in Owning \cup {"raised"}
  /\ row[t].status = "completed" => u.status = "completed"
  /\ m.request_id \in {meta[t].request_id, q}
  /\ m.result = "completed" => u.status = "completed"
  /\ m.result = "failed" => u.status # "completed"
  /\ p \in Before => u.status # "completed"
  /\ p \in After => u.status = "completed"
  /\ p \in Owning \ {"fail_task", "cache"} => m.result = "none"
  /\ p = "cache" => m.result = "completed"
  /\ p \in Marked => m.request_id = q
  /\ p \in Talking => request[q].at \in Talking

LEMMA OwnerIsAlone ==
  ASSUME IInv, NEW q \in Requests, request[q].at \in Owning \ {"cache"}
  PROVE  LET t == request[q].task
         IN  /\ Runs(q) /\ t \in Tasks /\ row[t] \in TaskRecords /\ Owns(q, t)
             /\ \A r \in Requests : Owns(r, t) => r = q
             /\ ~HasResult(t)
             /\ \A r \in Requests : request[r].task = t =>
                  r \notin cache /\ r \notin reports /\ request[r].told # "completed"
<1> DEFINE t == request[q].task
<1>1. Runs(q) /\ t \in Tasks /\ request[q].kind # "unused"
  BY UnderWay DEF IInv, Placed, Owning, Before, After, RunPoints, RowPoints
<1>2. Owns(q, t)
  BY <1>1 DEF Owns
<1>3. row[t] \in TaskRecords /\ \A r \in Requests : Owns(r, t) => r = q
  BY <1>1, <1>2 DEF IInv, OneOwner, TypeOK
<1>4. ~HasResult(t)
  BY DEF IInv, Progress, Owning, Before, After, HasResult
<1>5. ASSUME NEW r \in Requests, request[r].task = t
      PROVE  r \notin cache /\ r \notin reports /\ request[r].told # "completed"
  BY <1>1, <1>4, <1>5 DEF IInv, Shown, Recorded, HasResult
<1>6. QED
  BY <1>1, <1>2, <1>3, <1>4, <1>5

LEMMA WriterKeepsInv ==
  ASSUME IInv, NEW q \in Requests, NEW p \in Points, NEW u \in TaskRecords,
         NEW m \in MetaRecords, Writes(q, p, u, m), Leaves(q, p, u, m)
  PROVE  IInv'
<1> DEFINE t == request[q].task
<1>1. /\ Runs(q) /\ t \in Tasks /\ row[t] \in TaskRecords /\ Owns(q, t)
      /\ \A r \in Requests : Owns(r, t) => r = q
      /\ ~HasResult(t)
      /\ \A r \in Requests : request[r].task = t =>
           r \notin cache /\ r \notin reports /\ request[r].told # "completed"
  BY OwnerIsAlone DEF Writes
<1>2. /\ row'[t] = u /\ meta'[t] = m
      /\ \A x \in Tasks \ {t} : row'[x] = row[x] /\ meta'[x] = meta[x]
  BY <1>1 DEF Writes, IInv, TypeOK
<1>3. TypeOK'
  BY DEF Writes, Moves, IInv, TypeOK
<1>4. u # NoTask
  BY NullAssumption
<1>5. /\ request'[q].at = p /\ request'[q].kind = request[q].kind /\ request'[q].task = t
      /\ request'[q].told = request[q].told /\ request'[q].invoked = request[q].invoked
      /\ \A r \in Requests \ {q} : request'[r] = request[r]
  BY DEF Writes, Moves
<1>6. ASSUME NEW r \in Requests, NEW x \in Tasks
      PROVE  Owns(r, x)' => Owns(r, x)
  BY <1>1, <1>2, <1>5, NothingAssumption
     DEF Leaves, Owns, IInv, OneOwner, Placed, Runs
<1>7. ASSUME NEW x \in Tasks, (meta[x].request_id # Nothing)'
      PROVE  Owns(meta[x].request_id, x)'
  <2>1. CASE x = t
    <3>1. meta'[t].request_id = q
      BY <1>1, <1>2, <1>7, <2>1 DEF Leaves, IInv, OneOwner, TypeOK, MetaRecords
    <3>2. QED
      BY <1>1, <1>5, <2>1, <3>1 DEF Owns, Runs
  <2>2. CASE x # t
    <3>1. meta'[x] = meta[x] /\ meta[x].request_id # Nothing
      BY <1>2, <1>7, <2>2
    <3>2. meta[x].request_id \in Requests /\ Owns(meta[x].request_id, x)
      BY <3>1 DEF IInv, TypeOK, MetaRecords, OneOwner
    <3>3. QED
      BY <1>1, <1>5, <2>2, <3>1, <3>2 DEF Owns
  <2>3. QED
    BY <2>1, <2>2
<1>8. OneOwner'
  <2>1. ASSUME NEW x \in Tasks, row[x] # NoTask PROVE row'[x] # NoTask
    BY <1>2, <1>4, <2>1
  <2>2. QED
    BY <1>6, <1>7, <2>1 DEF OneOwner, IInv
<1>9. \A x \in Tasks : Recorded(x)'
  BY <1>1, <1>2, <1>4 DEF Leaves, Recorded, IInv
<1>10. Remembered'
  <2> SUFFICES ASSUME NEW v \in AllConversations, NEW i \in DOMAIN said[v]
               PROVE  LET r == said[v][i].by IN
                        /\ request'[r].kind # "unused" /\ row'[request'[r].task] # NoTask
                        /\ row'[request'[r].task].status = "completed"
    BY DEF Remembered, Writes
  <2> DEFINE r == said[v][i].by
  <2>1. r \in Requests
    BY SaidByRequest DEF IInv
  <2>2. /\ request[r].kind # "unused" /\ row[request[r].task] # NoTask
        /\ row[request[r].task].status = "completed"
    BY DEF IInv, Remembered
  <2>3. request[r].task \in Tasks
    BY <2>1, <2>2 DEF IInv, Placed
  <2>4. request'[r].kind = request[r].kind /\ request'[r].task = request[r].task
    BY <1>5, <2>1
  <2>5. QED
    BY <1>2, <1>4, <2>2, <2>3, <2>4 DEF Leaves
<1>11. ASSUME NEW r \in Requests
       PROVE  Placed(r)' /\ Progress(r)' /\ Shown(r)'
  <2>1. Placed(r) /\ Progress(r) /\ Shown(r)
    BY DEF IInv
  <2>2. CASE r = q
    <3>1. Placed(q)'
      BY <1>1, <1>5, <2>1, <2>2
         DEF Writes, Leaves, Placed, Runs, Owning, Before, After, RunPoints, RowPoints,
             ReportPoints, Talking, Ends
    <3>2. Progress(q)'
      BY <1>2, <1>5 DEF Leaves, Progress
    <3>3. Shown(q)'
      BY <1>1, <1>5, <2>2 DEF Writes, Leaves, Shown, Owning, Before, After
    <3>4. QED
      BY <2>2, <3>1, <3>2, <3>3
  <2>3. CASE r # q /\ request[r].task = t
    <3>1. request[r].kind # "unused"
      BY <1>1, <2>1, <2>3, NothingAssumption DEF Placed, Unused
    <3>2. request[r].at \notin Owning /\ ~ (Runs(r) /\ request[r].at = "returned")
          /\ request[r].at \notin {"list", "save"}
      BY <1>1, <2>1, <2>3, <3>1 DEF Owns, Shown
    <3>3. request'[r] = request[r] /\ UNCHANGED <<reports, cache>>
      BY <1>5, <2>3 DEF Writes
    <3>4. Placed(r)'
      BY <2>1, <3>3 DEF Placed, Runs
    <3>5. Progress(r)'
      BY <3>2, <3>3 DEF Progress, Owning, Before, After, Marked
    <3>6. Shown(r)'
      BY <1>1, <2>1, <2>3, <3>2, <3>3 DEF Shown, Runs
    <3>7. QED
      BY <3>4, <3>5, <3>6
  <2>4. CASE r # q /\ request[r].task # t
    <3>1. request[r].task \in Tasks \/ request[r] = Unused
      BY <2>1 DEF Placed
    <3>2. CASE request[r] = Unused
      <4>1. request'[r] = Unused /\ UNCHANGED <<reports, cache>>
        BY <1>5, <2>4, <3>2 DEF Writes
      <4>2. QED
        BY <2>1, <3>2, <4>1, UnusedIsQuiet
    <3>3. CASE request[r].task \in Tasks
      BY <1>2, <1>5, <2>1, <2>4, <3>3 DEF Writes, Placed, Progress, Shown, Runs, HasResult
    <3>4. QED
      BY <3>1, <3>2, <3>3
  <2>5. QED
    BY <2>2, <2>3, <2>4
<1>12. QED
  BY <1>3, <1>8, <1>9, <1>10, <1>11 DEF IInv

\* Where a call of the manager leads, and what it makes of the row's status.
LEMMA CallLeads ==
  ASSUME NEW t \in TaskRecords, NEW p \in RowPoints, NEW b \in BOOLEAN
  PROVE  LET u == Touched(Changed(p, t))  next == Following(p, b) IN
           /\ next \in Owning \cup {"raised"}
           /\ next = "user" <=> p = "complete_task"
           /\ next \in Before \cup {"raised", "user"}
           /\ next \in Talking => p \in Talking
           /\ next \in Marked => p \in Marked
           /\ next = "fail_task" => p = "fail_result"
           /\ p = "complete_task" => u.status = "completed"
           /\ p # "complete_task" /\ t.status # "completed" => u.status # "completed"
<1> DEFINE u == Touched(Changed(p, t))
           next == Following(p, b)
<1>1. /\ next \in Owning \cup {"raised"}
      /\ next = "user" <=> p = "complete_task"
      /\ next \in Before \cup {"raised", "user"}
      /\ next \in Talking => p \in Talking
      /\ next \in Marked => p \in Marked
      /\ next = "fail_task" => p = "fail_result"
  BY DEF Following, RowPoints, Owning, Before, After, Marked, Talking
<1>2. p = "complete_task" => u.status = "completed"
  BY DEF Changed, TaskCompleted, Touched, TaskRecords
<1>3. p # "complete_task" /\ t.status # "completed" => u.status # "completed"
  BY DEF RowPoints, Changed, StepAdded, StepStarted, StepCompleted, StepFailed, Settled, WithStep,
         TaskStarted, TaskFailed, Touched, TaskRecords
<1>4. QED
  BY <1>1, <1>2, <1>3

LEMMA CallManagerKeepsInv ==
  ASSUME IInv, NEW q \in Requests, CallManager(q)
  PROVE  IInv'
<1> DEFINE t == request[q].task
           here == request[q].at
           b == request[q].answered
           u == Touched(Changed(here, row[t]))
           next == Following(here, b)
<1>1. here \in RowPoints /\ here \in Owning \ {"cache"}
  BY DEF CallManager, RowPoints, Owning, Before, After
<1>2. t \in Tasks /\ row[t] \in TaskRecords /\ b \in BOOLEAN
  BY <1>1, OwnerIsAlone DEF IInv, TypeOK, RequestRecords
<1>3. CASE Allowed(here, row[t]) /\ row' = [row EXCEPT ![t] = u] /\ GoOn(q)
  <2>1. u \in TaskRecords
    BY <1>1, <1>2, <1>3, CallIsOperation, OperationTyped
  <2>2. next \in Points /\ Goto(q, next)
    BY <1>1, <1>2, <1>3, FollowingIsPoint DEF GoOn
  <2>3. meta[t] \in MetaRecords /\ meta' = [meta EXCEPT ![t] = meta[t]]
    BY <1>2 DEF CallManager, IInv, TypeOK
  <2>4. Moves(q, next) /\ request'[q].invoked = request[q].invoked
        /\ (next \notin Ends => request'[q].conv = request[q].conv)
    BY <2>2, GotoMoves DEF IInv
  <2>5. Writes(q, next, u, meta[t])
    BY <1>1, <1>3, <2>3, <2>4 DEF Writes, CallManager
  <2>6. /\ next \in Owning \cup {"raised"}
        /\ next = "user" <=> here = "complete_task"
        /\ next \in Before \cup {"raised", "user"}
        /\ next \in Talking => here \in Talking
        /\ next \in Marked => here \in Marked
        /\ next = "fail_task" => here = "fail_result"
        /\ here = "complete_task" => u.status = "completed"
        /\ here # "complete_task" /\ row[t].status # "completed" => u.status # "completed"
    BY <1>1, <1>2, CallLeads
  <2>7. /\ row[t].status # "completed" /\ (here # "fail_task" => meta[t].result = "none")
        /\ meta[t].result # "completed"
        /\ here \in Marked => meta[t].request_id = q
    BY <1>1, <1>2 DEF IInv, Progress, Recorded, RowPoints, Before, Owning, After
  <2>8. next \notin {"user", "raised"} => here # "fail_task"
    BY <1>1 DEF Following, RowPoints
  <2> HIDE DEF next, u, here, t
  <2>9. Leaves(q, next, u, meta[t])
    BY <1>1, <2>6, <2>7, <2>8 DEF Leaves, t, here, Before, After, Owning, RowPoints
  <2>10. QED
    BY <2>1, <2>2, <2>3, <2>5, <2>9, WriterKeepsInv
<1>4. CASE Goto(q, "raised") /\ UNCHANGED row
  <2>1. Quiet
    BY <1>1, <1>4, GotoQuiet DEF CallManager, Points, Ends, RunPoints, durable, IInv, TypeOK
  <2>2. QED
    BY <2>1, QuietKeepsInv
<1>5. QED
  BY <1>3, <1>4 DEF CallManager

\* The three steps that write metadata.
LEMMA MetadataKeepsInv ==
  ASSUME IInv, NEW q \in Requests, NEW p \in Points, NEW m \in MetaRecords,
         request[q].at \in Owning \ {"cache"}, Goto(q, p), WriteMetadata(q, m),
         LET t == request[q].task IN
           /\ p \in Owning /\ p \notin {"user", "assistant", "result"}
           /\ p = "cache" <=> row[t].status = "completed"
           /\ m.request_id = q
           /\ m.result = "completed" <=> p = "cache"
           /\ p \notin {"fail_task", "cache"} => m.result = "none"
           /\ p \in Talking => request[q].at \in Talking
  PROVE  IInv'
<1> DEFINE t == request[q].task
           u == Touched(row[t])
<1>1. t \in Tasks /\ row[t] \in TaskRecords
  BY OwnerIsAlone
<1>2. u \in TaskRecords /\ u.status = row[t].status
  BY <1>1, TouchedTyped, TouchedFields
<1>3. Moves(q, p) /\ request'[q].invoked = request[q].invoked
      /\ (p \notin Ends => request'[q].conv = request[q].conv)
  BY GotoMoves DEF IInv
<1>4. Writes(q, p, u, m)
  BY <1>1, <1>3 DEF Writes, WriteMetadata, IInv, TypeOK
<1>5. Leaves(q, p, u, m)
  BY <1>2 DEF Leaves, Owning, Before, After
<1>6. QED
  BY <1>2, <1>4, <1>5, WriterKeepsInv

LEMMA RecordRequestIdKeepsInv ==
  ASSUME IInv, NEW q \in Requests, RecordRequestId(q)
  PROVE  IInv'
<1> DEFINE t == request[q].task
           m == [request_id |-> q, result |-> meta[t].result]
<1>1. request[q].at = "request_id" /\ "conversation" \in Points
  BY DEF RecordRequestId, At, Points, RunPoints
<1>2. request[q].at \in Owning \ {"cache"}
  BY <1>1 DEF Owning, Before
<1>3. t \in Tasks
  BY <1>2, OwnerIsAlone
<1>4. meta[t].result = "none" /\ row[t].status # "completed"
  BY <1>1 DEF IInv, Progress, Owning, Before
<1>5. m \in MetaRecords
  BY <1>4 DEF MetaRecords, Results
<1>6. QED
  BY <1>1, <1>2, <1>4, <1>5, MetadataKeepsInv DEF RecordRequestId, Owning, Before, Talking

LEMMA RecordResultKeepsInv ==
  ASSUME IInv, NEW q \in Requests, RecordResult(q)
  PROVE  IInv'
<1> DEFINE t == request[q].task
           m == [meta[t] EXCEPT !.result = "completed"]
<1>1. request[q].at = "result" /\ "cache" \in Points
  BY DEF RecordResult, At, Points, RunPoints
<1>2. request[q].at \in Owning \ {"cache"}
  BY <1>1 DEF Owning, After
<1>3. t \in Tasks /\ meta[t] \in MetaRecords
  BY <1>2, OwnerIsAlone DEF IInv, TypeOK
<1>4. meta[t].request_id = q /\ row[t].status = "completed"
  BY <1>1 DEF IInv, Progress, Owning, After, Marked
<1>5. m \in MetaRecords /\ m.request_id = q /\ m.result = "completed"
  BY <1>3, <1>4 DEF MetaRecords, Results
<1>6. Goto(q, "cache")
  BY <1>1 DEF RecordResult, GoOn, Following
<1>7. QED
  BY <1>1, <1>2, <1>4, <1>5, <1>6, MetadataKeepsInv DEF RecordResult, Owning, After, Talking

LEMMA RecordFailureKeepsInv ==
  ASSUME IInv, NEW q \in Requests, RecordFailure(q)
  PROVE  IInv'
<1> DEFINE t == request[q].task
           m == [meta[t] EXCEPT !.result = "failed"]
<1>1. request[q].at = "fail_result" /\ "fail_task" \in Points
  BY DEF RecordFailure, At, Points, RunPoints, RowPoints
<1>2. request[q].at \in Owning \ {"cache"}
  BY <1>1 DEF Owning, Before
<1>3. t \in Tasks /\ meta[t] \in MetaRecords
  BY <1>2, OwnerIsAlone DEF IInv, TypeOK
<1>4. meta[t].request_id = q /\ row[t].status # "completed"
  BY <1>1 DEF IInv, Progress, Owning, Before, Marked
<1>5. m \in MetaRecords /\ m.request_id = q /\ m.result = "failed"
  BY <1>3, <1>4 DEF MetaRecords, Results
<1>6. Goto(q, "fail_task")
  BY <1>1 DEF RecordFailure, GoOn, Following
<1>7. QED
  BY <1>1, <1>2, <1>4, <1>5, <1>6, MetadataKeepsInv DEF RecordFailure, Owning, Before, Talking

\* The run that creates the row is the first to own it.
LEMMA InsertKeepsInv ==
  ASSUME IInv, NEW q \in Requests, Insert(q)
  PROVE  IInv'
<1> DEFINE t == request[q].task
<1>1. request[q].at = "insert" /\ request[q].at \in RunPoints
  BY DEF Insert, At, RunPoints
<1>2. t \in Tasks /\ Runs(q) /\ request[q].kind # "unused"
  BY <1>1, UnderWay DEF IInv, Placed
<1>3. CASE row[t] # NoTask /\ Goto(q, "raised") /\ UNCHANGED row
  <2>1. Quiet
    BY <1>1, <1>3, GotoQuiet DEF Insert, Points, Ends, durable, IInv, TypeOK
  <2>2. QED
    BY <2>1, QuietKeepsInv
<1>4. CASE /\ row[t] = NoTask /\ Goto(q, "add_step")
           /\ row' = [row EXCEPT ![t] = NewTask]
  <2>1. "add_step" \in Points
    BY DEF Points, RunPoints, RowPoints
  <2>2. Moves(q, "add_step") /\ request'[q].invoked = request[q].invoked
    BY <1>4, <2>1, GotoMoves DEF IInv
  <2>3. NewTask \in TaskRecords /\ NewTask # NoTask /\ NewTask.status = "pending"
    BY NewTaskSound, NullAssumption DEF NewTask
  <2>4. TypeOK'
    BY <1>4, <2>2, <2>3 DEF Insert, Moves, IInv, TypeOK
  <2>5. /\ row'[t] = NewTask /\ \A x \in Tasks \ {t} : row'[x] = row[x]
        /\ UNCHANGED <<meta, said, reports, cache>>
    BY <1>2, <1>4 DEF Insert, IInv, TypeOK
  <2>6. \A r \in Requests : ~Owns(r, t)
    BY <1>2, <1>4 DEF IInv, OneOwner
  <2>7. meta[t].result = "none" /\ meta[t].request_id = Nothing
    BY <1>2, <1>4, <2>6 DEF IInv, Recorded, OneOwner, TypeOK, MetaRecords
  <2>8. /\ request'[q].at = "add_step" /\ request'[q].kind = request[q].kind
        /\ request'[q].task = t /\ request'[q].told = request[q].told
        /\ \A r \in Requests \ {q} : request'[r] = request[r]
    BY <2>2 DEF Moves
  <2>9. ASSUME NEW r \in Requests, NEW x \in Tasks, Owns(r, x)'
        PROVE  IF x = t THEN r = q ELSE Owns(r, x)
    BY <2>2, <2>5, <2>6, <2>8, <2>9 DEF Owns
  <2>10. ASSUME NEW x \in Tasks, meta[x].request_id # Nothing
         PROVE  Owns(meta[x].request_id, x)'
    <3>1. meta[x].request_id \in Requests /\ Owns(meta[x].request_id, x)
      BY <2>10 DEF IInv, OneOwner, TypeOK, MetaRecords
    <3>2. QED
      BY <2>5, <2>8, <3>1 DEF Owns
  <2>11. OneOwner'
    <3>1. \A r \in Requests, x \in Tasks : Owns(r, x)' => row'[x] # NoTask
      BY <2>3, <2>5, <2>9 DEF IInv, OneOwner
    <3>2. \A r, s \in Requests, x \in Tasks : Owns(r, x)' /\ Owns(s, x)' => r = s
      BY <2>9 DEF IInv, OneOwner
    <3>3. QED
      BY <2>5, <2>10, <3>1, <3>2 DEF OneOwner
  <2>12. \A x \in Tasks : Recorded(x)'
    BY <2>3, <2>5, <2>7 DEF IInv, Recorded
  <2>13. Remembered'
    <3> SUFFICES ASSUME NEW v \in AllConversations, NEW i \in DOMAIN said[v]
                 PROVE  LET r == said[v][i].by IN
                          /\ request'[r].kind # "unused" /\ row'[request'[r].task] # NoTask
                          /\ row'[request'[r].task].status = "completed"
      BY <2>5 DEF Remembered
    <3> DEFINE r == said[v][i].by
    <3>1. r \in Requests
      BY SaidByRequest DEF IInv
    <3>2. /\ request[r].kind # "unused" /\ row[request[r].task] # NoTask
          /\ row[request[r].task].status = "completed"
      BY DEF IInv, Remembered
    <3>3. request[r].task \in Tasks \ {t}
      BY <1>4, <3>1, <3>2 DEF IInv, Placed
    <3>4. QED
      BY <2>5, <2>8, <3>1, <3>2, <3>3
  <2>14. ASSUME NEW r \in Requests
         PROVE  Placed(r)' /\ Progress(r)' /\ Shown(r)'
    <3>1. Placed(r) /\ Progress(r) /\ Shown(r)
      BY DEF IInv
    <3>2. ~HasResult(t)
      BY <2>7 DEF HasResult
    <3>3. CASE r = q
      <4>1. Placed(q)' /\ Progress(q)'
        BY <1>2, <2>3, <2>5, <2>7, <2>8
           DEF Placed, Progress, Runs, ReportPoints, Talking, Before, After, Owning, Marked
      <4>2. Shown(q)'
        BY <2>5, <2>7, <2>8, <3>1, <3>2, <3>3 DEF Shown
      <4>3. QED
        BY <3>3, <4>1, <4>2
    <3>4. CASE r # q /\ request[r].task = t
      <4>1. request[r].kind # "unused" /\ request[r].at \notin Owning
        BY <1>2, <2>6, <3>1, <3>4, NothingAssumption DEF Owns, Placed, Unused
      <4>2. request'[r] = request[r]
        BY <2>8, <3>4
      <4>3. Progress(r)'
        BY <4>1, <4>2 DEF Progress, Owning, Before, After, Marked
      <4>4. Shown(r)'
        BY <2>5, <2>7, <3>1, <3>2, <3>4, <4>2 DEF Shown, Runs
      <4>5. QED
        BY <3>1, <4>2, <4>3, <4>4 DEF Placed, Runs
    <3>5. CASE r # q /\ request[r].task # t
      <4>1. request'[r] = request[r]
        BY <2>8, <3>5
      <4>2. CASE request[r].task \in Tasks
        BY <2>5, <3>1, <3>5, <4>1, <4>2 DEF Placed, Progress, Shown, Runs, HasResult
      <4>3. CASE request[r].task \notin Tasks
        <5>1. request[r] = Unused
          BY <3>1, <4>3 DEF Placed
        <5>2. QED
          BY <2>5, <3>1, <4>1, <5>1, UnusedIsQuiet
      <4>4. QED
        BY <4>2, <4>3
    <3>6. QED
      BY <3>3, <3>4, <3>5
  <2>15. QED
    BY <2>4, <2>11, <2>12, <2>13, <2>14 DEF IInv
<1>5. QED
  BY <1>3, <1>4 DEF Insert

\* The three steps that write another table: what is in a row stays.
Adds(q, p) ==
  /\ Moves(q, p) /\ request'[q].invoked = request[q].invoked
  /\ UNCHANGED <<row, meta, failures>>

LEMMA AddKeepsInv ==
  ASSUME IInv, NEW q \in Requests, NEW p \in Points, Adds(q, p),
         request[q].kind # "unused",
         \A r \in Requests \ {q} : (r \in reports <=> r \in reports') /\ (r \in cache <=> r \in cache'),
         said' \in [AllConversations -> Seq(Messages)],
         reports' \subseteq Requests, cache' \subseteq Requests,
         p \in Owning => request[q].at \in Owning,
         Placed(q)', Progress(q)', Shown(q)', Remembered'
  PROVE  IInv'
<1>1. /\ request'[q].at = p /\ request'[q].kind = request[q].kind
      /\ request'[q].task = request[q].task
      /\ \A r \in Requests \ {q} : request'[r] = request[r]
  BY DEF Adds, Moves
<1>2. TypeOK'
  BY DEF Adds, Moves, IInv, TypeOK
<1>3. \A r \in Requests, t \in Tasks : Owns(r, t)' => Owns(r, t)
  BY <1>1 DEF Adds, Owns
<1>4. ASSUME NEW t \in Tasks, meta[t].request_id # Nothing
      PROVE  Owns(meta[t].request_id, t)'
  <2>1. meta[t].request_id \in Requests /\ Owns(meta[t].request_id, t)
    BY <1>4 DEF IInv, OneOwner, TypeOK, MetaRecords
  <2>2. QED
    BY <1>1, <2>1 DEF Adds, Owns
<1>5. OneOwner'
  BY <1>3, <1>4 DEF IInv, OneOwner, Adds
<1>6. \A t \in Tasks : Recorded(t)'
  BY DEF IInv, Recorded, Adds
<1>7. ASSUME NEW r \in Requests \ {q}
      PROVE  Placed(r)' /\ Progress(r)' /\ Shown(r)'
  <2>1. Placed(r) /\ Progress(r) /\ Shown(r)
    BY DEF IInv
  <2>2. QED
    BY <1>1, <2>1 DEF Adds, Placed, Progress, Shown, Runs, HasResult
<1>8. QED
  BY <1>2, <1>5, <1>6, <1>7 DEF IInv

LEMMA AddMessageKeepsInv ==
  ASSUME IInv, NEW q \in Requests, AddMessage(q)
  PROVE  IInv'
<1> DEFINE here == request[q].at
           conv == request[q].conv
           message == [by |-> q, role |-> here]
           next == Following(here, request[q].answered)
<1>1. here \in {"user", "assistant"}
  BY DEF AddMessage
<1>2. request[q].answered \in BOOLEAN /\ conv \in AllConversations
  BY <1>1 DEF IInv, TypeOK, RequestRecords, Placed, Talking
<1>3. next \in Points /\ Goto(q, next) /\ next \in {"assistant", "result"}
  BY <1>1, <1>2, FollowingIsPoint DEF AddMessage, GoOn, Following
<1>4. Moves(q, next) /\ request'[q].invoked = request[q].invoked
      /\ request'[q].conv = request[q].conv
  BY <1>3, GotoMoves DEF IInv, Ends
<1>5. Adds(q, next) /\ UNCHANGED <<reports, cache>>
  BY <1>4 DEF AddMessage, Adds
<1>6. Runs(q) /\ request[q].task \in Tasks /\ row[request[q].task] \in TaskRecords
  BY <1>1, OwnerIsAlone DEF Owning, After
<1>7. request[q].kind # "unused" /\ here \in Owning /\ row[request[q].task] # NoTask
  BY <1>1, <1>6, NullAssumption DEF Runs, Owning, After
<1>8. message \in Messages
  BY <1>1 DEF Messages
<1>9. said' = [said EXCEPT ![conv] = Append(said[conv], message)]
  BY DEF AddMessage
<1>10. said' \in [AllConversations -> Seq(Messages)]
  BY <1>2, <1>8, <1>9 DEF IInv, TypeOK
<1>11. row[request[q].task].status = "completed" /\ meta[request[q].task].result = "none"
       /\ meta[request[q].task].request_id = q
  BY <1>1 DEF IInv, Progress, After, Owning, Marked
<1>12. Placed(q)' /\ Progress(q)'
  <2>1. conv # Nothing
    BY <1>1 DEF IInv, Placed, Talking
  <2>2. Placed(q)'
    BY <1>3, <1>4, <1>6, <2>1 DEF Moves, Placed, Runs, ReportPoints
  <2>3. Progress(q)'
    BY <1>3, <1>5, <1>11 DEF Moves, Adds, Progress, Before, After, Owning, Marked
  <2>4. QED
    BY <2>2, <2>3
<1>13. Shown(q)'
  <2>1. Shown(q)
    BY DEF IInv
  <2>2. QED
    BY <1>3, <1>4, <1>5, <2>1 DEF Moves, Adds, Shown, HasResult
<1>14. Remembered'
  <2> SUFFICES ASSUME NEW v \in AllConversations, NEW i \in DOMAIN said'[v]
               PROVE  LET r == said'[v][i].by IN
                        /\ request'[r].kind # "unused" /\ row[request'[r].task] # NoTask
                        /\ row[request'[r].task].status = "completed"
    BY <1>5 DEF Remembered, Adds
  <2>1. CASE i \in DOMAIN said[v] /\ said'[v][i] = said[v][i]
    <3>1. said[v][i].by \in Requests
      BY <2>1, SaidByRequest DEF IInv
    <3>2. QED
      BY <1>4, <2>1, <3>1 DEF IInv, Remembered, Moves
  <2>2. CASE said'[v][i] = message
    BY <1>4, <1>7, <1>11, <2>2 DEF Moves
  <2>3. QED
    <3>1. said[v] \in Seq(Messages)
      BY DEF IInv, TypeOK
    <3>2. CASE v = conv
      <4>1. said'[v] = Append(said[v], message)
        BY <1>2, <1>9, <3>2 DEF IInv, TypeOK
      <4>2. QED
        BY <1>8, <2>1, <2>2, <3>1, <4>1
    <3>3. CASE v # conv
      BY <1>9, <2>1, <3>3 DEF IInv, TypeOK
    <3>4. QED
      BY <3>2, <3>3
<1>15. QED
  BY <1>3, <1>5, <1>7, <1>10, <1>12, <1>13, <1>14, AddKeepsInv DEF IInv, TypeOK

LEMMA StoreAnalysisKeepsInv ==
  ASSUME IInv, NEW q \in Requests, StoreAnalysis(q)
  PROVE  IInv'
<1> DEFINE t == request[q].task
<1>1. request[q].at = "cache" /\ "returned" \in Points /\ Goto(q, "returned")
  BY DEF StoreAnalysis, At, Points, Ends
<1>2. Moves(q, "returned") /\ request'[q].invoked = request[q].invoked
  BY <1>1, GotoMoves DEF IInv
<1>3. Adds(q, "returned") /\ UNCHANGED <<said, reports>> /\ cache' = cache \cup {q}
  BY <1>2 DEF StoreAnalysis, durable, Adds
<1>4. request[q].kind # "unused" /\ t \in Tasks
  BY <1>1, UnderWay DEF RunPoints
<1>5. HasResult(t) /\ meta[t].request_id = q
  BY <1>1 DEF IInv, Progress, HasResult, After, Owning, Marked
<1>6. Placed(q)' /\ Progress(q)'
  BY <1>3, <1>4
     DEF Moves, Adds, Placed, Progress, RunPoints, RowPoints, ReportPoints, Before, After, Owning,
         Marked, Talking
<1>7. Shown(q)'
  BY <1>3, <1>4, <1>5 DEF Moves, Adds, Shown, HasResult
<1>8. Remembered'
  <2> SUFFICES ASSUME NEW v \in AllConversations, NEW i \in DOMAIN said[v]
               PROVE  LET r == said[v][i].by IN
                        /\ request'[r].kind # "unused" /\ row[request'[r].task] # NoTask
                        /\ row[request'[r].task].status = "completed"
    BY <1>3 DEF Remembered, Adds
  <2>1. said[v][i].by \in Requests
    BY SaidByRequest DEF IInv
  <2>2. QED
    BY <1>2, <2>1 DEF IInv, Remembered, Moves
<1>9. QED
  BY <1>1, <1>3, <1>4, <1>6, <1>7, <1>8, AddKeepsInv DEF IInv, TypeOK, Owning, Before, After

LEMMA SaveReportKeepsInv ==
  ASSUME IInv, NEW q \in Requests, SaveReport(q)
  PROVE  IInv'
<1> DEFINE t == request[q].task
<1>1. request[q].at = "save" /\ "returned" \in Points /\ Goto(q, "returned")
  BY DEF SaveReport, At, Points, Ends
<1>2. Moves(q, "returned") /\ request'[q].invoked = request[q].invoked
  BY <1>1, GotoMoves DEF IInv
<1>3. Adds(q, "returned") /\ UNCHANGED <<said, cache>> /\ reports' = reports \cup {q}
  BY <1>2 DEF SaveReport, Adds
<1>4. request[q].kind = "report" /\ t \in Tasks
  BY <1>1, UnderWay DEF ReportPoints, IInv, Placed
<1>5. Shown(q)
  BY DEF IInv
<1>6. HasResult(t)
  BY <1>1, <1>5 DEF Shown
<1>7. Placed(q)' /\ Progress(q)'
  BY <1>3, <1>4
     DEF Moves, Adds, Placed, Progress, RunPoints, RowPoints, ReportPoints, Before, After, Owning,
         Marked, Talking
<1>8. Shown(q)'
  BY <1>3, <1>4, <1>5, <1>6 DEF Moves, Adds, Shown, Runs, HasResult
<1>9. Remembered'
  <2> SUFFICES ASSUME NEW v \in AllConversations, NEW i \in DOMAIN said[v]
               PROVE  LET r == said[v][i].by IN
                        /\ request'[r].kind # "unused" /\ row[request'[r].task] # NoTask
                        /\ row[request'[r].task].status = "completed"
    BY <1>3 DEF Remembered, Adds
  <2>1. said[v][i].by \in Requests
    BY SaidByRequest DEF IInv
  <2>2. QED
    BY <1>2, <2>1 DEF IInv, Remembered, Moves
<1>10. QED
  BY <1>1, <1>3, <1>4, <1>7, <1>8, <1>9, AddKeepsInv DEF IInv, TypeOK, Owning, Before, After

-----------------------------------------------------------------------------
(***************************************************************************)
(* The invariant, and what follows from it.                                *)
(***************************************************************************)
Writing(q) ==
  \/ Insert(q) \/ CallManager(q) \/ RecordRequestId(q) \/ RecordResult(q) \/ RecordFailure(q)
  \/ AddMessage(q) \/ StoreAnalysis(q) \/ SaveReport(q)

LEMMA NextIsQuietOrWrites ==
  ASSUME IInv, Next
  PROVE  Quiet \/ \E q \in Requests : Writing(q)
<1>1. CASE Crash
  BY <1>1, CrashQuiet
<1>2. ASSUME NEW q \in Requests,
             Arrive(q) \/ Run(q) \/ RunRaises(q) \/ Respond(q) \/ Disconnect(q) \/ Report(q)
      PROVE  Quiet \/ Writing(q)
  <2>1. CASE Arrive(q)
    BY <2>1, ArriveQuiet
  <2>2. CASE Run(q)
    BY <2>2, CheckExistsQuiet, UseConversationQuiet, InvokeQuiet DEF Run, Writing
  <2>3. CASE RunRaises(q) \/ Respond(q) \/ Disconnect(q)
    BY <2>3, RunRaisesQuiet, RespondQuiet, DisconnectQuiet
  <2>4. CASE Report(q)
    BY <2>4, ReadTaskQuiet, ListReportsQuiet DEF Report, Writing
  <2>5. QED
    BY <1>2, <2>1, <2>2, <2>3, <2>4
<1>3. QED
  BY <1>1, <1>2 DEF Next

LEMMA InitIInv == Init => IInv
<1> SUFFICES ASSUME Init PROVE IInv
  OBVIOUS
<1>1. TypeOK
  BY UnusedTyped, FailureAssumption DEF Init, TypeOK, MetaRecords, Results
<1>2. ASSUME NEW q \in Requests
      PROVE  Placed(q) /\ Progress(q) /\ Shown(q)
  <2>1. request[q] = Unused /\ q \notin reports /\ q \notin cache
    BY DEF Init
  <2>2. QED
    BY <2>1
       DEF Placed, Progress, Shown, Runs, Unused, RunPoints, RowPoints, ReportPoints, Talking,
           Before, After, Owning, Marked
<1>3. \A q \in Requests, t \in Tasks : ~Owns(q, t)
  BY DEF Init, Owns, Unused
<1>4. OneOwner
  BY <1>3 DEF Init, OneOwner
<1>5. \A t \in Tasks : Recorded(t)
  BY DEF Init, Recorded
<1>6. Remembered
  BY DEF Init, Remembered
<1>7. QED
  BY <1>1, <1>2, <1>4, <1>5, <1>6 DEF IInv

LEMMA StutterIInv ==
  ASSUME IInv, UNCHANGED vars
  PROVE  IInv'
<1>1. Quiet
  BY DEF vars, Quiet, IInv, TypeOK
<1>2. QED
  BY <1>1, QuietKeepsInv

\* The run that creates a row owns it; how far it is shows in the row, and
\* what was shown or said of a task is borne out by its row.
THEOREM Invariant == Spec => []IInv
<1>1. IInv /\ [Next]_vars => IInv'
  <2> SUFFICES ASSUME IInv, [Next]_vars PROVE IInv'
    OBVIOUS
  <2>1. ASSUME NEW q \in Requests, Writing(q) PROVE IInv'
    BY <2>1, InsertKeepsInv, CallManagerKeepsInv, RecordRequestIdKeepsInv, RecordResultKeepsInv,
       RecordFailureKeepsInv, AddMessageKeepsInv, StoreAnalysisKeepsInv, SaveReportKeepsInv
       DEF Writing
  <2>2. QED
    BY <2>1, NextIsQuietOrWrites, QuietKeepsInv, StutterIInv
<1>2. QED
  BY <1>1, InitIInv, PTL DEF Spec

\* Type correctness of the HTTP layer.
THEOREM TypeCorrect == Spec => []TypeOK
<1>1. IInv => TypeOK
  BY DEF IInv
<1>2. QED
  BY <1>1, Invariant, PTL

\* Whatever streams are opened for a task, reconnected, raced or crashed, its
\* workflow is invoked at most once.
THEOREM AnalysisRunsOnce == Spec => []WorkflowRunsOnce
<1>1. IInv => WorkflowRunsOnce
  <2> SUFFICES ASSUME IInv, NEW q \in Requests, NEW p \in Requests,
                      request[q].invoked, request[p].invoked, request[q].task = request[p].task
               PROVE  q = p
    BY DEF WorkflowRunsOnce
  <2>1. request[q].kind # "unused" /\ request[p].kind # "unused"
    BY DEF IInv, Placed, Unused
  <2>2. request[q].task \in Tasks
    BY <2>1 DEF IInv, Placed
  <2>3. QED
    BY <2>1, <2>2 DEF IInv, OneOwner, Owns
<1>2. QED
  BY <1>1, Invariant, PTL

\* A client that was told "completed", a report and a conversation all refer
\* to a completed task, and those who show its result find it in the row.
THEOREM CompletionsLast == Spec => []CompletedIsDurable
<1>1. IInv => CompletedIsDurable
  <2> SUFFICES ASSUME IInv PROVE CompletedIsDurable
    OBVIOUS
  <2>1. /\ \A q \in Requests : request[q].told = "completed" => HasResult(request[q].task)
        /\ \A q \in reports : HasResult(request[q].task)
    BY DEF IInv, TypeOK, Shown
  <2>2. ASSUME NEW v \in AllConversations, NEW i \in DOMAIN said[v]
        PROVE  row[request[said[v][i].by].task].status = "completed"
    BY DEF IInv, Remembered
  <2>3. QED
    BY <2>1, <2>2 DEF CompletedIsDurable
<1>2. QED
  BY <1>1, Invariant, PTL

\* A request keeps its task.
LEMMA TaskStays ==
  ASSUME IInv, [Next]_vars, NEW q \in Requests, request[q].kind # "unused"
  PROVE  request'[q].task = request[q].task
<1>1. CASE Quiet
  BY <1>1 DEF Quiet, Arrives, Goes
<1>2. ASSUME NEW r \in Requests, Writing(r)
      PROVE  request'[q].task = request[q].task
  <2>1. PICK p \in Points : Goto(r, p)
    <3>1. CASE Insert(r) \/ RecordRequestId(r) \/ StoreAnalysis(r) \/ SaveReport(r)
      BY <3>1
         DEF Insert, RecordRequestId, StoreAnalysis, SaveReport, Points, RunPoints, RowPoints, Ends
    <3>2. CASE CallManager(r) \/ RecordResult(r) \/ RecordFailure(r) \/ AddMessage(r)
      <4>1. request[r].answered \in BOOLEAN
        BY DEF IInv, TypeOK, RequestRecords
      <4>2. CASE GoOn(r)
        <5>1. request[r].at \in RowPoints \cup {"user", "assistant", "result", "fail_result"}
          BY <3>2 DEF CallManager, RecordResult, RecordFailure, AddMessage, At
        <5>2. QED
          BY <4>1, <4>2, <5>1, FollowingIsPoint DEF GoOn
      <4>3. CASE Goto(r, "raised")
        BY <4>3 DEF Points, Ends
      <4>4. QED
        BY <3>2, <4>2, <4>3 DEF CallManager, RecordResult, RecordFailure, AddMessage
    <3>3. QED
      BY <1>2, <3>1, <3>2 DEF Writing
  <2>2. Moves(r, p)
    BY <2>1, GotoMoves DEF IInv
  <2>3. QED
    BY <2>2 DEF Moves
<1>3. CASE UNCHANGED vars
  BY <1>3 DEF vars
<1>4. QED
  BY <1>1, <1>2, <1>3, NextIsQuietOrWrites

\* The request that ran a task, and the result of the run, are written once.
LEMMA MetadataStays ==
  ASSUME IInv, [Next]_vars, NEW t \in Tasks
  PROVE  /\ meta[t].request_id # Nothing => meta'[t].request_id = meta[t].request_id
         /\ meta[t].result # "none" => meta'[t].result = meta[t].result
<1>1. CASE UNCHANGED meta
  BY <1>1
<1>2. ASSUME NEW q \in Requests, NEW m,
             request[q].at \in {"request_id", "result", "fail_result"}, WriteMetadata(q, m),
             m.request_id \in {q, meta[request[q].task].request_id}
      PROVE  /\ meta[t].request_id # Nothing => meta'[t].request_id = meta[t].request_id
             /\ meta[t].result # "none" => meta'[t].result = meta[t].result
  <2>1. request[q].at \in Owning \ {"cache", "fail_task"}
    BY <1>2 DEF Owning, Before, After
  <2>2. request[q].task \in Tasks /\ \A r \in Requests : Owns(r, request[q].task) => r = q
    BY <2>1, OwnerIsAlone
  <2>3. meta[request[q].task].result = "none"
    BY <2>1 DEF IInv, Progress
  <2>4. meta[request[q].task].request_id \in {q, Nothing}
    BY <2>2 DEF IInv, OneOwner, TypeOK, MetaRecords
  <2>5. meta' = [meta EXCEPT ![request[q].task] = m]
    BY <1>2 DEF WriteMetadata
  <2>6. QED
    BY <1>2, <2>2, <2>3, <2>4, <2>5 DEF IInv, TypeOK
<1>3. ASSUME NEW q \in Requests, Writing(q), meta' # meta
      PROVE  RecordRequestId(q) \/ RecordResult(q) \/ RecordFailure(q)
  <2>1. (Insert(q) \/ CallManager(q) \/ AddMessage(q) \/ StoreAnalysis(q) \/ SaveReport(q))
          => UNCHANGED meta
    BY Zenon DEF Insert, CallManager, AddMessage, StoreAnalysis, SaveReport, durable
  <2>2. QED
    BY <1>3, <2>1 DEF Writing
<1>4. ASSUME NEW q \in Requests, RecordRequestId(q) \/ RecordResult(q) \/ RecordFailure(q)
      PROVE  \E m : /\ request[q].at \in {"request_id", "result", "fail_result"}
                    /\ WriteMetadata(q, m)
                    /\ m.request_id \in {q, meta[request[q].task].request_id}
  <2>1. meta[request[q].task] \in MetaRecords
    <3>1. request[q].at \in Owning \ {"cache"}
      BY <1>4 DEF RecordRequestId, RecordResult, RecordFailure, At, Owning, Before, After
    <3>2. QED
      BY <3>1, OwnerIsAlone DEF IInv, TypeOK
  <2>2. CASE RecordRequestId(q)
    BY <2>2 DEF RecordRequestId, At
  <2>3. CASE RecordResult(q)
    BY <2>1, <2>3 DEF RecordResult, At, MetaRecords
  <2>4. CASE RecordFailure(q)
    BY <2>1, <2>4 DEF RecordFailure, At, MetaRecords
  <2>5. QED
    BY <1>4, <2>2, <2>3, <2>4
<1>5. CASE Quiet \/ UNCHANGED vars
  BY <1>1, <1>5 DEF Quiet, durable, vars
<1>6. QED
  BY <1>1, <1>2, <1>3, <1>4, <1>5, NextIsQuietOrWrites

\* Once GET /analysis has shown the outcome of an analysis it shows the same
\* outcome for ever, from the memory of the process or from the rows.
THEOREM AnalysesStay == Spec => AnalysisIsStable
<1>1. ASSUME IInv, IInv', [Next]_vars, NEW q \in Requests, Analysis(q) # "none"
      PROVE  Analysis(q)' = Analysis(q)
  <2> DEFINE t == request[q].task
  <2>1. t \in Tasks /\ request[q].kind # "unused" /\ meta[t].request_id = q
        /\ meta[t].result = Analysis(q)
    <3>1. CASE q \in cache
      BY <1>1, <3>1 DEF IInv, Shown, Placed, Analysis
    <3>2. CASE q \notin cache
      <4>1. PICK x \in Tasks : meta[x].request_id = q
        BY <1>1, <3>2 DEF Analysis
      <4>2. Owns(q, x)
        BY <1>1, <4>1, NothingAssumption DEF IInv, OneOwner
      <4>3. QED
        BY <1>1, <3>2, <4>1, <4>2 DEF Owns, Analysis
    <3>3. QED
      BY <3>1, <3>2
  <2>2. request'[q].task = t
    BY <1>1, <2>1, TaskStays
  <2>3. meta'[t].request_id = q /\ meta'[t].result = Analysis(q)
    BY <1>1, <2>1, MetadataStays, NothingAssumption
  <2>4. CASE q \in cache'
    <3>1. meta'[request'[q].task].result = "completed"
      BY <1>1, <2>4 DEF IInv, Shown
    <3>2. QED
      BY <2>2, <2>3, <2>4, <3>1 DEF Analysis
  <2>5. CASE q \notin cache'
    BY <2>1, <2>2, <2>3, <2>5 DEF Analysis
  <2>6. QED
    BY <2>4, <2>5
<1>2. IInv /\ IInv' /\ [Next]_vars =>
        [\A q \in Requests : Analysis(q) # "none" => Analysis(q)' = Analysis(q)]_vars
  BY <1>1
<1>3. QED
  BY <1>2, Invariant, PTL DEF Spec, AnalysisIsStable
=============================================================================
