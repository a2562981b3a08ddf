---------------------------- MODULE RetrievalProofs ----------------------------
(***************************************************************************)
(* Proofs about the knowledge vault and the retrieval engine over it, for  *)
(* every number of documents, chunks, callers and failures.  The vault's   *)
(* three stores agree, 'indexed' is complete, what was deleted is gone,    *)
(* and searches beside the vault's calls show this.  The engine only reads *)
(* the vault's stores: every behaviour of the two together is one of the   *)
(* vault, and keeps what is proved of it.  The engine's answers are no     *)
(* older than its cache allows, and its budget is what was spent: on the   *)
(* answers given, on those under way, and on those lost in the cache.      *)
(***************************************************************************)
EXTENDS Retrieval, FiniteInduction

\* Ids that were not drawn yet have left no trace.
UndrawnIsBlank ==
  \A d \in Ids : d > made =>
    status[d] = "none" /\ d \notin files /\ points[d] = {} /\ d \notin gone

\* What the call under way may rely on at each of its steps.
CallIsSound ==
  /\ call.pc # "idle" => call.id \in Drawn
  /\ At("insert") =>
       call.id \in files /\ call.id \notin gone /\ status[call.id] = "none"
       /\ points[call.id] = {}
  /\ At("wipe") => call.op \in {"reindex", "delete"}
  /\ At("wipe") /\ ~ (call.op = "delete" /\ call.rowSeen = "none") =>
       status[call.id] # "none" /\ call.id \notin gone
  /\ At("wipe") /\ call.op = "delete" /\ call.rowSeen = "none" =>
       status[call.id] = "none"
  /\ At("pending") \/ At("row") =>
       status[call.id] # "none" /\ points[call.id] = {} /\ call.id \notin gone
  /\ At("parse") \/ At("upsert") \/ At("indexed") \/ At("failed") =>
       status[call.id] = "pending" /\ call.id \notin gone
  /\ At("upsert") => Chunks \ points[call.id] \subseteq call.todo
  /\ At("indexed") => points[call.id] = Chunks
  /\ At("unlink") \/ At("orphans") => status[call.id] = "none" /\ points[call.id] = {}

\* The inductive invariant.
VaultInv ==
  /\ VaultTypeOK
  /\ StoresAgree
  /\ IndexedIsComplete
  /\ DeletedMeansGone
  /\ UndrawnIsBlank
  /\ CallIsSound

-----------------------------------------------------------------------------
LEMMA InitInv == VaultInit => VaultInv
  BY VaultAssumption, SMT
  DEF VaultInit, VaultInv, VaultTypeOK, StoresAgree, IndexedIsComplete, DeletedMeansGone,
      UndrawnIsBlank, CallIsSound, NoCall, Call, NoSearch, Calls, Searches, Statuses, Ids, At, Drawn,
      Complete, Indexed

LEMMA RecordsAreFinite == IsFiniteSet(Ids) /\ IsFiniteSet(Records)
<1>1. IsFiniteSet(Ids)
  BY VaultAssumption, FS_Interval DEF Ids
<1> QED
  BY <1>1, VaultAssumption, FS_Product DEF Records

\* A cut keeps all or is TopK long.
LEMMA BestOf ==
  ASSUME NEW records \in SUBSET Records, NEW r \in Best(records)
  PROVE  /\ r \in SUBSET records /\ IsFiniteSet(r)
         /\ r = records \/ Cardinality(r) = TopK
<1>1. r \in SUBSET records
  BY DEF Best
<1>2. IsFiniteSet(records)
  BY RecordsAreFinite, FS_Subset
<1>3. CASE Cardinality(records) <= TopK
  <2>1. Cardinality(r) = Cardinality(records)
    BY <1>3 DEF Best
  <2> QED
    BY <1>1, <1>2, <2>1, FS_Subset
<1>4. CASE ~(Cardinality(records) <= TopK)
  BY <1>1, <1>2, <1>4, FS_Subset DEF Best
<1> QED
  BY <1>3, <1>4

LEMMA SearchQueried ==
  ASSUME search \in Searches, NEW left \in SUBSET Ids, NEW found \in SUBSET Records
  PROVE  [search EXCEPT !.left = left, !.found = found] \in Searches
<1> DEFINE once == [search EXCEPT !.left = left]
<1>1. once \in Searches
  BY SMT DEF Searches
<1> HIDE DEF once
<1>2. [once EXCEPT !.found = found] \in Searches
  BY <1>1, SMT DEF Searches
<1> QED
  BY <1>2 DEF once

LEMMA SearchEnded ==
  ASSUME search \in Searches, NEW found \in SUBSET Records
  PROVE  [search EXCEPT !.pc = "answered", !.found = found] \in Searches
<1> DEFINE once == [search EXCEPT !.pc = "answered"]
<1>1. once \in Searches
  BY SMT DEF Searches
<1> HIDE DEF once
<1>2. [once EXCEPT !.found = found] \in Searches
  BY <1>1, SMT DEF Searches
<1> QED
  BY <1>2 DEF once

\* A search changes nothing the invariant is about but itself.
LEMMA SearchType ==
  ASSUME VaultTypeOK, \/ BeginSearch \/ SearchStep
  PROVE  search' \in Searches /\ UNCHANGED <<documentVars, call, faults, historyVars>>
<1>0. search \in Searches /\ search.left \in SUBSET Ids /\ search.found \in SUBSET Records
      /\ search.above \in SUBSET Records
  BY SMT DEF VaultTypeOK, Searches
<1>1. CASE BeginSearch
  <2>1. Indexed \in SUBSET Ids /\ Complete \in SUBSET Ids /\ gone \in SUBSET Ids
    BY DEF VaultTypeOK, Indexed, Complete
  <2>2. PICK above \in SUBSET (Indexed \X Chunks) :
          search' = [pc |-> "query", left |-> Indexed, above |-> above, found |-> {},
                     gone |-> gone, steady |-> Complete]
    BY <1>1 DEF BeginSearch
  <2>3. above \in SUBSET Records
    BY <2>1 DEF Records
  <2>4. UNCHANGED <<documentVars, call, faults, historyVars>>
    BY <1>1 DEF BeginSearch
  <2> QED
    BY <2>1, <2>2, <2>3, <2>4 DEF Searches
<1>2. ASSUME NEW d \in Ids, QueryDocument(d) PROVE search' \in Searches
  <2>1. PICK records \in Best(Matches(d)) :
          search' = [search EXCEPT !.left = @ \ {d}, !.found = @ \cup records]
    BY <1>2 DEF QueryDocument
  <2>2. Matches(d) \in SUBSET Records
    BY <1>0 DEF Matches
  <2>3. search.left \ {d} \in SUBSET Ids /\ search.found \cup records \in SUBSET Records
    BY <1>0, <2>2, BestOf
  <2> QED
    BY <1>0, <2>1, <2>3, SearchQueried, Zenon
<1>3. CASE EndSearch
  <2>1. PICK records \in Best(search.found) :
          search' = [search EXCEPT !.pc = "answered", !.found = records]
    BY <1>3 DEF EndSearch
  <2>2. records \in SUBSET Records
    BY <1>0, BestOf
  <2>3. UNCHANGED <<documentVars, call, faults, historyVars>>
    BY <1>3 DEF EndSearch
  <2> QED
    BY <1>0, <2>1, <2>2, <2>3, SearchEnded, Zenon
<1>4. CASE TakeAnswer
  BY <1>4, SMT DEF VaultTypeOK, TakeAnswer, Searches, NoSearch
<1>5. CASE \E d \in Ids : QueryDocument(d)
  <2>1. PICK d \in Ids : QueryDocument(d)
    BY <1>5
  <2> QED
    BY <2>1, <1>2, Zenon DEF QueryDocument
<1> QED
  BY <1>1, <1>3, <1>4, <1>5, Zenon DEF SearchStep

LEMMA SearchInv ==
  ASSUME VaultInv, \/ BeginSearch \/ SearchStep
  PROVE  VaultInv'
<1>1. search' \in Searches /\ UNCHANGED <<documentVars, call, faults, historyVars>>
  BY SearchType DEF VaultInv
<1>2. VaultTypeOK'
  BY <1>1, SMT DEF VaultInv, VaultTypeOK, documentVars, historyVars
<1>3. (StoresAgree /\ IndexedIsComplete /\ DeletedMeansGone /\ UndrawnIsBlank)'
  BY <1>1, SMT
  DEF VaultInv, StoresAgree, IndexedIsComplete, DeletedMeansGone, UndrawnIsBlank, Complete, Indexed,
      documentVars, historyVars
<1>4. CallIsSound'
  BY <1>1, Zenon DEF VaultInv, CallIsSound, At, Drawn, documentVars, historyVars
<1> QED
  BY <1>2, <1>3, <1>4 DEF VaultInv

LEMMA CrashInv ==
  ASSUME VaultInv, Crash
  PROVE  VaultInv'
  BY VaultAssumption, SMT
  DEF VaultInv, VaultTypeOK, StoresAgree, IndexedIsComplete, DeletedMeansGone,
      UndrawnIsBlank, CallIsSound, At, Drawn, Complete, Indexed, documentVars, historyVars, Ids,
      Crash, Fault, NoCall, Call, NoSearch, Calls, Searches, Statuses

LEMMA AddInv ==
  ASSUME VaultInv, NEW c \in Contents, AddDocument(c)
  PROVE  VaultInv'
<1> DEFINE new == made + 1
<1>1. new \in Ids /\ new > made /\ made' = new /\ call.pc = "idle"
      /\ \/ call' = call
         \/ /\ call' = Call("insert", "add", new, "none")
            /\ files' = files \cup {new}
      /\ files \subseteq files' /\ files' \subseteq files \cup {new}
      /\ UNCHANGED <<status, points, search, gone, hollow>>
      /\ content' = [content EXCEPT ![new] = c] /\ faults' \in 0 .. MaxFaults
  BY VaultAssumption, SMT
  DEF VaultInv, VaultTypeOK, AddDocument, Fault, Ids, At, historyVars
<1>2. call' \in Calls
  BY <1>1, SMT DEF VaultInv, VaultTypeOK, Call, Calls, Statuses
<1>3. VaultTypeOK'
  BY <1>1, <1>2, VaultAssumption, SMT DEF VaultInv, VaultTypeOK, Ids
<1>4. (StoresAgree /\ IndexedIsComplete /\ DeletedMeansGone /\ UndrawnIsBlank)'
  BY <1>1, SMT
  DEF VaultInv, VaultTypeOK, StoresAgree, IndexedIsComplete, DeletedMeansGone, UndrawnIsBlank,
      Complete, Indexed, Ids
<1>5. CallIsSound'
  BY <1>1, SMT
  DEF VaultInv, VaultTypeOK, UndrawnIsBlank, CallIsSound, At, Drawn, Ids, Call
<1> QED
  BY <1>3, <1>4, <1>5 DEF VaultInv

-----------------------------------------------------------------------------
\* What moving the call on does to its record.
LEMMA GotoFields ==
  ASSUME call \in Calls, NEW p \in {"pending", "parse", "indexed", "failed", "row", "unlink",
                                     "orphans"}, Goto(p)
  PROVE  /\ call' \in Calls
         /\ call'.pc = p /\ call'.id = call.id /\ call'.op = call.op
  BY SMT DEF Calls, Goto

LEMMA ReturnFields ==
  ASSUME Return
  PROVE  call' \in Calls /\ call'.pc = "idle"
  BY SMT DEF Calls, Return, NoCall, Call, Statuses

LEMMA CallId ==
  ASSUME VaultInv, call.pc # "idle"
  PROVE  call.id \in Ids /\ call.id <= made /\ call \in Calls
  BY VaultAssumption, SMT DEF VaultInv, VaultTypeOK, CallIsSound, Drawn, Ids

LEMMA FaultBounded ==
  ASSUME VaultTypeOK, Fault
  PROVE  faults' \in 0 .. MaxFaults
  BY VaultAssumption, SMT DEF VaultTypeOK, Fault

\* A call that is over needs nothing.
LEMMA IdleIsSound ==
  ASSUME call'.pc = "idle"
  PROVE  CallIsSound'
  BY Zenon DEF CallIsSound, At

-----------------------------------------------------------------------------
\* The steps of a call, one lemma each: the types, the four facts about the
\* stores, and what the next step of the call may rely on.
LEMMA BeginInv ==
  ASSUME VaultInv, NEW d \in Ids, Reindex(d) \/ Delete(d)
  PROVE  VaultInv'
<1> DEFINE i == call'.id
<1>1. /\ call' \in Calls /\ call'.pc = "wipe" /\ i \in Ids /\ i <= made
      /\ call'.rowSeen = status[i]
      /\ UNCHANGED <<status, content, files, points, made, gone, hollow, search, faults>>
  <2>1. CASE Reindex(d)
    BY <2>1, VaultAssumption, SMT
    DEF VaultInv, VaultTypeOK, UndrawnIsBlank, Reindex, Calls, Call, historyVars, documentVars, Ids
  <2>2. CASE Delete(d)
    BY <2>2, VaultAssumption, SMT
    DEF VaultInv, VaultTypeOK, Delete, Calls, Call, historyVars, documentVars, Ids, Drawn
  <2> QED
    BY <2>1, <2>2
<1>2. call'.op \in {"reindex", "delete"} /\ (call'.op = "delete" \/ status[i] # "none")
  BY SMT DEF Reindex, Delete, Call
<1>3. VaultTypeOK'
  BY <1>1, Zenon DEF VaultInv, VaultTypeOK
<1>4. (StoresAgree /\ IndexedIsComplete /\ DeletedMeansGone /\ UndrawnIsBlank)'
  BY <1>1, Zenon
  DEF VaultInv, StoresAgree, IndexedIsComplete, DeletedMeansGone, UndrawnIsBlank, Complete, Indexed
<1> HIDE DEF i
<1>5. CallIsSound'
  BY <1>1, <1>2, SMT DEF VaultInv, VaultTypeOK, DeletedMeansGone, CallIsSound, At, Drawn, Ids, i
<1> QED
  BY <1>3, <1>4, <1>5 DEF VaultInv

LEMMA InsertInv ==
  ASSUME VaultInv, InsertRow
  PROVE  VaultInv'
<1> DEFINE i == call.id
<1>1. i \in Ids /\ i <= made /\ call \in Calls /\ i \in files /\ i \notin gone
      /\ status[i] = "none" /\ points[i] = {}
  BY CallId, SMT DEF VaultInv, InsertRow, CallIsSound, At
<1>2. CASE status' = [status EXCEPT ![i] = "pending"] /\ Goto("parse") /\ UNCHANGED faults
  <2>1. call' \in Calls /\ call'.pc = "parse" /\ call'.id = i
    BY <1>1, <1>2, GotoFields
  <2>2. VaultTypeOK'
    BY <1>1, <1>2, <2>1, SMT DEF VaultInv, VaultTypeOK, InsertRow, historyVars, Statuses
  <2>3. (StoresAgree /\ IndexedIsComplete /\ DeletedMeansGone /\ UndrawnIsBlank)'
    BY <1>1, <1>2, SMT
    DEF VaultInv, VaultTypeOK, StoresAgree, IndexedIsComplete, DeletedMeansGone, UndrawnIsBlank,
        Complete, Indexed, InsertRow, historyVars, Ids
  <2>4. CallIsSound'
    BY <1>1, <1>2, <2>1, SMT
    DEF VaultInv, VaultTypeOK, CallIsSound, At, Drawn, InsertRow, historyVars, Ids
  <2> QED
    BY <2>2, <2>3, <2>4 DEF VaultInv
<1>3. CASE Fault /\ Return /\ UNCHANGED status
  <2>1. call' \in Calls /\ call'.pc = "idle" /\ faults' \in 0 .. MaxFaults
    BY <1>3, ReturnFields, FaultBounded DEF VaultInv
  <2>2. (VaultTypeOK /\ StoresAgree /\ IndexedIsComplete /\ DeletedMeansGone /\ UndrawnIsBlank)'
    BY <1>3, <2>1, Zenon
    DEF VaultInv, VaultTypeOK, StoresAgree, IndexedIsComplete, DeletedMeansGone, UndrawnIsBlank,
        Complete, Indexed, InsertRow, historyVars
  <2> QED
    BY <2>1, <2>2, IdleIsSound DEF VaultInv
<1> QED
  BY <1>2, <1>3 DEF InsertRow

LEMMA MarkPendingInv ==
  ASSUME VaultInv, MarkPending
  PROVE  VaultInv'
<1> DEFINE i == call.id
<1>1. i \in Ids /\ i <= made /\ call \in Calls /\ status[i] # "none" /\ points[i] = {} /\ i \notin gone
  BY CallId, SMT DEF VaultInv, MarkPending, CallIsSound, At
<1>2. CASE status' = [status EXCEPT ![i] = "pending"] /\ hollow' = hollow \ {i} /\ Goto("parse") /\ UNCHANGED faults
  <2>1. call' \in Calls /\ call'.pc = "parse" /\ call'.id = i
    BY <1>1, <1>2, GotoFields
  <2>2. VaultTypeOK'
    BY <1>1, <1>2, <2>1, SMT DEF VaultInv, VaultTypeOK, MarkPending, historyVars, documentVars, Statuses
  <2>3. (StoresAgree /\ IndexedIsComplete /\ DeletedMeansGone /\ UndrawnIsBlank)'
    BY <1>1, <1>2, SMT
    DEF VaultInv, VaultTypeOK, StoresAgree, IndexedIsComplete, DeletedMeansGone, UndrawnIsBlank,
        Complete, Indexed, MarkPending, historyVars, documentVars, Ids
  <2>4. CallIsSound'
    BY <1>1, <1>2, <2>1, SMT
    DEF VaultInv, VaultTypeOK, CallIsSound, At, Drawn, MarkPending, historyVars, documentVars, Ids
  <2> QED
    BY <2>2, <2>3, <2>4 DEF VaultInv
<1>3. CASE Fault /\ Return /\ UNCHANGED <<status, hollow>>
  <2>1. call' \in Calls /\ call'.pc = "idle" /\ faults' \in 0 .. MaxFaults
    BY <1>3, ReturnFields, FaultBounded DEF VaultInv
  <2>2. (VaultTypeOK /\ StoresAgree /\ IndexedIsComplete /\ DeletedMeansGone /\ UndrawnIsBlank)'
    BY <1>3, <2>1, Zenon
    DEF VaultInv, VaultTypeOK, StoresAgree, IndexedIsComplete, DeletedMeansGone, UndrawnIsBlank,
        Complete, Indexed, MarkPending, historyVars, documentVars
  <2> QED
    BY <2>1, <2>2, IdleIsSound DEF VaultInv
<1> QED
  BY <1>2, <1>3 DEF MarkPending

LEMMA MarkIndexedInv ==
  ASSUME VaultInv, MarkIndexed
  PROVE  VaultInv'
<1> DEFINE i == call.id
<1>1. i \in Ids /\ i <= made /\ call \in Calls /\ status[i] = "pending" /\ points[i] = Chunks
      /\ i \notin gone
  BY CallId, SMT DEF VaultInv, MarkIndexed, CallIsSound, At
<1>2. CASE status' = [status EXCEPT ![i] = "indexed"] /\ hollow' = hollow \ {i} /\ Return /\ UNCHANGED faults
  <2>1. call' \in Calls /\ call'.pc = "idle"
    BY <1>2, ReturnFields
  <2>2. VaultTypeOK'
    BY <1>1, <1>2, <2>1, SMT DEF VaultInv, VaultTypeOK, MarkIndexed, historyVars, documentVars, Statuses
  <2>3. (StoresAgree /\ IndexedIsComplete /\ DeletedMeansGone /\ UndrawnIsBlank)'
    BY <1>1, <1>2, SMT
    DEF VaultInv, VaultTypeOK, StoresAgree, IndexedIsComplete, DeletedMeansGone, UndrawnIsBlank,
        Complete, Indexed, MarkIndexed, historyVars, documentVars, Ids
  <2>4. CallIsSound'
    BY <2>1, IdleIsSound
  <2> QED
    BY <2>2, <2>3, <2>4 DEF VaultInv
<1>3. CASE Fault /\ Goto("failed") /\ UNCHANGED <<status, hollow>>
  <2>1. call' \in Calls /\ call'.pc = "failed" /\ call'.id = i
    BY <1>1, <1>3, GotoFields
  <2>2. VaultTypeOK'
    BY <1>1, <1>3, <2>1, FaultBounded, SMT DEF VaultInv, VaultTypeOK, MarkIndexed, historyVars, documentVars, Statuses
  <2>3. (StoresAgree /\ IndexedIsComplete /\ DeletedMeansGone /\ UndrawnIsBlank)'
    BY <1>1, <1>3, SMT
    DEF VaultInv, VaultTypeOK, StoresAgree, IndexedIsComplete, DeletedMeansGone, UndrawnIsBlank,
        Complete, Indexed, MarkIndexed, historyVars, documentVars, Ids
  <2>4. CallIsSound'
    BY <1>1, <1>3, <2>1, SMT
    DEF VaultInv, VaultTypeOK, CallIsSound, At, Drawn, MarkIndexed, historyVars, documentVars, Ids
  <2> QED
    BY <2>2, <2>3, <2>4 DEF VaultInv
<1> QED
  BY <1>2, <1>3 DEF MarkIndexed

LEMMA MarkFailedInv ==
  ASSUME VaultInv, MarkFailed
  PROVE  VaultInv'
<1> DEFINE i == call.id
<1>1. i \in Ids /\ i <= made /\ call \in Calls /\ status[i] = "pending" /\ i \notin gone
  BY CallId, SMT DEF VaultInv, MarkFailed, CallIsSound, At
<1>2. CASE status' = [status EXCEPT ![i] = "failed"] /\ hollow' = hollow \ {i} /\ Return /\ UNCHANGED faults
  <2>1. call' \in Calls /\ call'.pc = "idle"
    BY <1>2, ReturnFields
  <2>2. VaultTypeOK'
    BY <1>1, <1>2, <2>1, SMT DEF VaultInv, VaultTypeOK, MarkFailed, historyVars, documentVars, Statuses
  <2>3. (StoresAgree /\ IndexedIsComplete /\ DeletedMeansGone /\ UndrawnIsBlank)'
    BY <1>1, <1>2, SMT
    DEF VaultInv, VaultTypeOK, StoresAgree, IndexedIsComplete, DeletedMeansGone, UndrawnIsBlank,
        Complete, Indexed, MarkFailed, historyVars, documentVars, Ids
  <2>4. CallIsSound'
    BY <2>1, IdleIsSound
  <2> QED
    BY <2>2, <2>3, <2>4 DEF VaultInv
<1>3. CASE Fault /\ Return /\ UNCHANGED <<status, hollow>>
  <2>1. call' \in Calls /\ call'.pc = "idle" /\ faults' \in 0 .. MaxFaults
    BY <1>3, ReturnFields, FaultBounded DEF VaultInv
  <2>2. (VaultTypeOK /\ StoresAgree /\ IndexedIsComplete /\ DeletedMeansGone /\ UndrawnIsBlank)'
    BY <1>3, <2>1, Zenon
    DEF VaultInv, VaultTypeOK, StoresAgree, IndexedIsComplete, DeletedMeansGone, UndrawnIsBlank,
        Complete, Indexed, MarkFailed, historyVars, documentVars
  <2> QED
    BY <2>1, <2>2, IdleIsSound DEF VaultInv
<1> QED
  BY <1>2, <1>3 DEF MarkFailed

LEMMA DeleteRowInv ==
  ASSUME VaultInv, DeleteRow
  PROVE  VaultInv'
<1> DEFINE i == call.id
<1>1. i \in Ids /\ i <= made /\ call \in Calls /\ status[i] # "none" /\ points[i] = {} /\ i \notin gone
  BY CallId, SMT DEF VaultInv, DeleteRow, CallIsSound, At
<1>2. CASE status' = [status EXCEPT ![i] = "none"] /\ hollow' = hollow \ {i} /\ Goto("unlink") /\ UNCHANGED faults
  <2>1. call' \in Calls /\ call'.pc = "unlink" /\ call'.id = i
    BY <1>1, <1>2, GotoFields
  <2>2. VaultTypeOK'
    BY <1>1, <1>2, <2>1, SMT DEF VaultInv, VaultTypeOK, DeleteRow, historyVars, documentVars, Statuses
  <2>3. (StoresAgree /\ IndexedIsComplete /\ DeletedMeansGone /\ UndrawnIsBlank)'
    BY <1>1, <1>2, SMT
    DEF VaultInv, VaultTypeOK, StoresAgree, IndexedIsComplete, DeletedMeansGone, UndrawnIsBlank,
        Complete, Indexed, DeleteRow, historyVars, documentVars, Ids
  <2>4. CallIsSound'
    BY <1>1, <1>2, <2>1, SMT
    DEF VaultInv, VaultTypeOK, CallIsSound, At, Drawn, DeleteRow, historyVars, documentVars, Ids
  <2> QED
    BY <2>2, <2>3, <2>4 DEF VaultInv
<1>3. CASE Fault /\ Return /\ UNCHANGED <<status, hollow>>
  <2>1. call' \in Calls /\ call'.pc = "idle" /\ faults' \in 0 .. MaxFaults
    BY <1>3, ReturnFields, FaultBounded DEF VaultInv
  <2>2. (VaultTypeOK /\ StoresAgree /\ IndexedIsComplete /\ DeletedMeansGone /\ UndrawnIsBlank)'
    BY <1>3, <2>1, Zenon
    DEF VaultInv, VaultTypeOK, StoresAgree, IndexedIsComplete, DeletedMeansGone, UndrawnIsBlank,
        Complete, Indexed, DeleteRow, historyVars, documentVars
  <2> QED
    BY <2>1, <2>2, IdleIsSound DEF VaultInv
<1> QED
  BY <1>2, <1>3 DEF DeleteRow

LEMMA UnlinkInv ==
  ASSUME VaultInv, Unlink
  PROVE  VaultInv'
<1> DEFINE i == call.id
<1>1. i \in Ids /\ i <= made /\ call \in Calls /\ status[i] = "none" /\ points[i] = {}
  BY CallId, SMT DEF VaultInv, Unlink, CallIsSound, At
<1>2. CASE files' = files \ {i} /\ gone' = gone \cup {i} /\ Return /\ UNCHANGED faults
  <2>1. call' \in Calls /\ call'.pc = "idle"
    BY <1>2, ReturnFields
  <2>2. VaultTypeOK'
    BY <1>1, <1>2, <2>1, SMT DEF VaultInv, VaultTypeOK, Unlink, historyVars, documentVars, Statuses
  <2>3. (StoresAgree /\ IndexedIsComplete /\ DeletedMeansGone /\ UndrawnIsBlank)'
    BY <1>1, <1>2, SMT
    DEF VaultInv, VaultTypeOK, StoresAgree, IndexedIsComplete, DeletedMeansGone, UndrawnIsBlank,
        Complete, Indexed, Unlink, historyVars, documentVars, Ids
  <2>4. CallIsSound'
    BY <2>1, IdleIsSound
  <2> QED
    BY <2>2, <2>3, <2>4 DEF VaultInv
<1>3. CASE Fault /\ Return /\ UNCHANGED <<files, gone>>
  <2>1. call' \in Calls /\ call'.pc = "idle" /\ faults' \in 0 .. MaxFaults
    BY <1>3, ReturnFields, FaultBounded DEF VaultInv
  <2>2. (VaultTypeOK /\ StoresAgree /\ IndexedIsComplete /\ DeletedMeansGone /\ UndrawnIsBlank)'
    BY <1>3, <2>1, Zenon
    DEF VaultInv, VaultTypeOK, StoresAgree, IndexedIsComplete, DeletedMeansGone, UndrawnIsBlank,
        Complete, Indexed, Unlink, historyVars, documentVars
  <2> QED
    BY <2>1, <2>2, IdleIsSound DEF VaultInv
<1> QED
  BY <1>2, <1>3 DEF Unlink

LEMMA ParseInv ==
  ASSUME VaultInv, Parse
  PROVE  VaultInv'
<1> DEFINE i == call.id
<1>1. i \in Ids /\ i <= made /\ call \in Calls /\ status[i] = "pending" /\ i \notin gone
  BY CallId, SMT DEF VaultInv, Parse, NotStored, CallIsSound, At
<1>2. /\ call' \in Calls /\ call'.id = i /\ call'.pc \in {"upsert", "failed"}
      /\ call'.pc = "upsert" => call'.todo = Chunks \ points[i]
  <2>1. CASE call' = [call EXCEPT !.pc = "upsert", !.todo = Chunks \ points[i]]
    <3> DEFINE once == [call EXCEPT !.pc = "upsert"]
    <3>1. once \in Calls /\ once.id = i /\ once.pc = "upsert"
      BY <1>1, SMT DEF Calls
    <3>2. Chunks \ points[i] \in SUBSET Chunks
      OBVIOUS
    <3> HIDE DEF once
    <3>3. [once EXCEPT !.todo = Chunks \ points[i]] \in Calls
      BY <3>1, <3>2, SMT DEF Calls
    <3>4. [once EXCEPT !.todo = Chunks \ points[i]].todo = Chunks \ points[i]
      BY <3>1, SMT DEF Calls
    <3>5. /\ [once EXCEPT !.todo = Chunks \ points[i]].id = i
          /\ [once EXCEPT !.todo = Chunks \ points[i]].pc = "upsert"
      BY <3>1, SMT DEF Calls
    <3> QED
      BY <2>1, <3>3, <3>4, <3>5 DEF once
  <2>2. CASE Goto("failed")
    BY <1>1, <2>2, GotoFields, Zenon
  <2> QED
    BY <2>1, <2>2 DEF Parse, NotStored
<1>3. VaultTypeOK'
  <2>1. faults' \in 0 .. MaxFaults
    BY FaultBounded, Zenon DEF VaultInv, VaultTypeOK, Parse, NotStored
  <2> QED
    BY <1>2, <2>1, Zenon DEF VaultInv, VaultTypeOK, Parse, NotStored, documentVars, historyVars
<1>4. (StoresAgree /\ IndexedIsComplete /\ DeletedMeansGone /\ UndrawnIsBlank)'
  BY Zenon
  DEF VaultInv, StoresAgree, IndexedIsComplete, DeletedMeansGone, UndrawnIsBlank, Complete, Indexed,
      Parse, NotStored, documentVars, historyVars
<1>5. CallIsSound'
  BY <1>1, <1>2, SMT
  DEF VaultInv, VaultTypeOK, CallIsSound, At, Drawn, Parse, NotStored, documentVars, historyVars, Ids
<1> QED
  BY <1>3, <1>4, <1>5 DEF VaultInv

LEMMA CallWritten ==
  ASSUME call \in Calls, NEW p \in {"indexed", "upsert", "failed"}, NEW todo \in SUBSET Chunks,
         call' = [call EXCEPT !.pc = p, !.todo = todo]
  PROVE  call' \in Calls /\ call'.id = call.id /\ call'.pc = p /\ call'.todo = todo
<1> DEFINE once == [call EXCEPT !.pc = p]
<1>1. once \in Calls /\ once.id = call.id /\ once.pc = p
  BY SMT DEF Calls
<1> HIDE DEF once
<1>2. [once EXCEPT !.todo = todo] \in Calls
  BY <1>1, SMT DEF Calls
<1>3. [once EXCEPT !.todo = todo].todo = todo /\ [once EXCEPT !.todo = todo].pc = p
  BY <1>1, SMT DEF Calls
<1>4. [once EXCEPT !.todo = todo].id = call.id
  BY <1>1, SMT DEF Calls
<1> QED
  BY <1>2, <1>3, <1>4 DEF once

LEMMA UpsertInv ==
  ASSUME VaultInv, Upsert
  PROVE  VaultInv'
<1> DEFINE i == call.id
<1>1. i \in Ids /\ i <= made /\ call \in Calls /\ status[i] = "pending" /\ i \notin gone
      /\ Chunks \ points[i] \subseteq call.todo
  BY CallId, SMT DEF VaultInv, Upsert, CallIsSound, At
<1>2. call.todo \subseteq Chunks /\ points[i] \subseteq Chunks
  BY <1>1, SMT DEF Calls, VaultInv, VaultTypeOK
<1>3. PICK written \in SUBSET call.todo :
        /\ points' = [points EXCEPT ![i] = @ \cup written]
        /\ \/ /\ call' = [call EXCEPT !.pc = IF written = call.todo THEN "indexed" ELSE "upsert",
                                      !.todo = call.todo \ written]
              /\ UNCHANGED faults
           \/ Fault /\ call' = [call EXCEPT !.pc = "failed", !.todo = {}]
  BY Zenon DEF Upsert
<1>4. points'[i] = points[i] \cup written /\ points' \in [Ids -> SUBSET Chunks]
      /\ \A d \in Ids : d # i => points'[d] = points[d]
  BY <1>1, <1>2, <1>3, SMT DEF VaultInv, VaultTypeOK
<1>5. /\ call' \in Calls /\ call'.id = i /\ call'.pc \in {"indexed", "upsert", "failed"}
      /\ call'.pc = "indexed" => written = call.todo
      /\ call'.pc = "upsert" => call'.todo = call.todo \ written
      /\ faults' \in 0 .. MaxFaults
  <2>1. CASE /\ written = call.todo /\ UNCHANGED faults
             /\ call' = [call EXCEPT !.pc = "indexed", !.todo = call.todo \ written]
    <3>1. call.todo \ written \in SUBSET Chunks
      BY <1>2
    <3>2. call' \in Calls /\ call'.id = i /\ call'.pc = "indexed"
      BY <1>1, <2>1, <3>1, CallWritten, Zenon
    <3> QED
      BY <2>1, <3>2, SMT DEF VaultInv, VaultTypeOK
  <2>2. CASE /\ written # call.todo /\ UNCHANGED faults
             /\ call' = [call EXCEPT !.pc = "upsert", !.todo = call.todo \ written]
    <3>1. call.todo \ written \in SUBSET Chunks
      BY <1>2
    <3>2. /\ call' \in Calls /\ call'.id = i /\ call'.pc = "upsert"
          /\ call'.todo = call.todo \ written
      BY <1>1, <2>2, <3>1, CallWritten, Zenon
    <3> QED
      BY <2>2, <3>2, SMT DEF VaultInv, VaultTypeOK
  <2>3. CASE Fault /\ call' = [call EXCEPT !.pc = "failed", !.todo = {}]
    <3>1. call' \in Calls /\ call'.id = i /\ call'.pc = "failed" /\ faults' \in 0 .. MaxFaults
      <4>1. {} \in SUBSET Chunks
        OBVIOUS
      <4>2. call' \in Calls /\ call'.id = i /\ call'.pc = "failed"
        BY <1>1, <2>3, <4>1, CallWritten, Zenon
      <4>3. faults' \in 0 .. MaxFaults
        BY <2>3, FaultBounded DEF VaultInv
      <4> QED
        BY <4>2, <4>3
    <3> QED
      BY <3>1, SMT
  <2> QED
    BY <1>3, <2>1, <2>2, <2>3, Zenon
<1>6. VaultTypeOK'
  BY <1>4, <1>5, Zenon DEF VaultInv, VaultTypeOK, Upsert, historyVars
<1>7. (StoresAgree /\ IndexedIsComplete /\ DeletedMeansGone /\ UndrawnIsBlank)'
  BY <1>1, <1>4, SMT
  DEF VaultInv, VaultTypeOK, StoresAgree, IndexedIsComplete, DeletedMeansGone, UndrawnIsBlank,
      Complete, Indexed, Upsert, historyVars, Ids
<1>8. CallIsSound'
  BY <1>1, <1>2, <1>4, <1>5, SMT
  DEF VaultInv, VaultTypeOK, CallIsSound, At, Drawn, Upsert, historyVars, Ids
<1> QED
  BY <1>6, <1>7, <1>8 DEF VaultInv

LEMMA WipeInv ==
  ASSUME VaultInv, Wipe
  PROVE  VaultInv'
<1> DEFINE i == call.id
<1>1. i \in Ids /\ i <= made /\ call \in Calls /\ call.pc = "wipe"
      /\ call.op \in {"reindex", "delete"}
      /\ \/ call.op = "delete" /\ call.rowSeen = "none" /\ status[i] = "none"
         \/ /\ ~ (call.op = "delete" /\ call.rowSeen = "none")
            /\ status[i] # "none" /\ i \notin gone
  BY CallId, SMT DEF VaultInv, Wipe, CallIsSound, At
<1>2. PICK dropped \in SUBSET points[i] :
        /\ points' = [points EXCEPT ![i] = @ \ dropped]
        /\ hollow' = IF dropped = {} THEN hollow ELSE hollow \cup {i}
        /\ search' = [search EXCEPT !.steady = @ \ {i}]
        /\ \/ points'[i] = {} /\ Goto(AfterWipe) /\ UNCHANGED faults
           \/ UNCHANGED <<call, faults>>
           \/ Fault /\ Return
  BY Zenon DEF Wipe, Disturbs
<1>3. points'[i] = points[i] \ dropped /\ points' \in [Ids -> SUBSET Chunks]
      /\ \A d \in Ids : d # i => points'[d] = points[d]
  BY <1>1, <1>2, SMT DEF VaultInv, VaultTypeOK
<1>4. search' \in Searches /\ hollow' \subseteq Ids
  <2>1. search.steady \ {i} \in SUBSET Ids
    BY SMT DEF VaultInv, VaultTypeOK, Searches
  <2> QED
    BY <1>1, <1>2, <2>1, SMT DEF VaultInv, VaultTypeOK, Searches
<1>5. points' # points => i \in hollow'
  BY <1>1, <1>2, SMT DEF VaultInv, VaultTypeOK
<1>6. UNCHANGED <<status, content, files, made, gone>>
  BY DEF Wipe
<1>7. (StoresAgree /\ IndexedIsComplete /\ DeletedMeansGone /\ UndrawnIsBlank)'
  <2>1. hollow \subseteq hollow'
    BY <1>2, SMT
  <2>2. (StoresAgree /\ DeletedMeansGone /\ UndrawnIsBlank)'
    BY <1>1, <1>3, <1>6, SMT
    DEF VaultInv, VaultTypeOK, StoresAgree, DeletedMeansGone, UndrawnIsBlank
  <2>3. IndexedIsComplete'
    BY <1>3, <1>5, <1>6, <2>1, SMT
    DEF VaultInv, VaultTypeOK, IndexedIsComplete, Complete, Indexed
  <2> QED
    BY <2>2, <2>3
<1>8. CASE points'[i] = {} /\ Goto(AfterWipe) /\ UNCHANGED faults
  <2>1. AfterWipe \in {"pending", "orphans", "row"}
        /\ (AfterWipe = "orphans" <=> call.op = "delete" /\ call.rowSeen = "none")
    <3>1. CASE call.op = "reindex"
      BY <3>1, SMT DEF AfterWipe
    <3>2. CASE call.op = "delete" /\ call.rowSeen = "none"
      BY <3>2, SMT DEF AfterWipe
    <3>3. CASE call.op = "delete" /\ call.rowSeen # "none"
      BY <3>3, SMT DEF AfterWipe
    <3> QED
      BY <1>1, <3>1, <3>2, <3>3
  <2> HIDE DEF AfterWipe
  <2>2. call' \in Calls /\ call'.pc = AfterWipe /\ call'.id = i
    BY <1>1, <1>8, <2>1, GotoFields
  <2>3. VaultTypeOK'
    BY <1>3, <1>4, <1>6, <1>8, <2>2, Zenon DEF VaultInv, VaultTypeOK
  <2>4. CallIsSound'
    BY <1>1, <1>6, <1>8, <2>1, <2>2, SMT
    DEF VaultInv, VaultTypeOK, CallIsSound, At, Drawn, Ids
  <2> QED
    BY <1>7, <2>3, <2>4 DEF VaultInv
<1>9. CASE UNCHANGED <<call, faults>>
  <2>1. VaultTypeOK'
    BY <1>3, <1>4, <1>6, <1>9, Zenon DEF VaultInv, VaultTypeOK
  <2>2. CallIsSound'
    BY <1>1, <1>6, <1>9, SMT DEF VaultInv, VaultTypeOK, CallIsSound, At, Drawn, Ids
  <2> QED
    BY <1>7, <2>1, <2>2 DEF VaultInv
<1>10. CASE Fault /\ Return
  <2>1. VaultTypeOK' /\ call'.pc = "idle"
    BY <1>3, <1>4, <1>6, <1>10, ReturnFields, FaultBounded, Zenon DEF VaultInv, VaultTypeOK
  <2> QED
    BY <1>7, <2>1, IdleIsSound DEF VaultInv
<1> QED
  BY <1>2, <1>8, <1>9, <1>10

-----------------------------------------------------------------------------
LEMMA NextInv ==
  ASSUME VaultInv, [VaultNext]_vaultVars
  PROVE  VaultInv'
<1>1. CASE UNCHANGED vaultVars
  BY <1>1, Zenon
  DEF VaultInv, VaultTypeOK, StoresAgree, IndexedIsComplete, DeletedMeansGone, UndrawnIsBlank,
      CallIsSound, At, Drawn, Complete, Indexed, vaultVars, documentVars, historyVars
<1>2. CASE CallStep
  BY <1>2, InsertInv, WipeInv, MarkPendingInv, ParseInv, UpsertInv, MarkIndexedInv,
     MarkFailedInv, DeleteRowInv, UnlinkInv DEF CallStep
<1>3. CASE \E c \in Contents : AddDocument(c)
  BY <1>3, AddInv
<1>4. CASE \E d \in Ids : Reindex(d) \/ Delete(d)
  BY <1>4, BeginInv
<1> QED
  BY <1>1, <1>2, <1>3, <1>4, SearchInv, CrashInv DEF VaultNext

\* The vault keeps its inductive invariant, for any number of documents, chunks
\* and failures.
THEOREM VaultIsSound == VaultSpec => []VaultInv
<1>1. VaultInit => VaultInv
  BY InitInv
<1>2. VaultInv /\ [VaultNext]_vaultVars => VaultInv'
  BY NextInv
<1> QED
  BY <1>1, <1>2, PTL DEF VaultSpec

-----------------------------------------------------------------------------
(***************************************************************************)
(* The retrieval engine over the vault.                                    *)
(***************************************************************************)

LEMMA EngineReadsOnly ==
  ASSUME NEW c \in Callers, EngineStep(c)
  PROVE  UNCHANGED vaultVars
  BY Zenon
  DEF EngineStep, Lookup, Touch, Drop, LookAtContext, ReserveRetrieval, Retrieve,
      RetrieveFails, Fit, ChargeFresh, ChargeHit, Assign, Order, Measure, Evict, Take

\* The composition implements the vault alone.
THEOREM EngineOverVault == Spec => VaultSpec
<1>1. Init => VaultInit
  BY DEF Init
<1>2. [Next]_vars => [VaultNext]_vaultVars
  <2> SUFFICES ASSUME [Next]_vars
               PROVE  [VaultNext]_vaultVars
    OBVIOUS
  <2>1. CASE Tick
    BY <2>1 DEF Tick
  <2>2. CASE UNCHANGED vars
    BY <2>2 DEF vars
  <2> QED
    BY <2>1, <2>2, EngineReadsOnly DEF Next
<1> QED
  BY <1>1, <1>2, PTL DEF Spec, VaultSpec

\* No vector without a row and no row without a file, whatever fails and
\* wherever the process dies.
THEOREM StoresAlwaysAgree == Spec => []StoresAgree
<1>1. VaultInv => StoresAgree
  BY DEF VaultInv
<1> QED
  BY <1>1, EngineOverVault, VaultIsSound, PTL

\* An indexed document is complete unless its vectors are being deleted or the
\* call that was deleting them was cut short.
THEOREM IndexedStaysComplete == Spec => []IndexedIsComplete
<1>1. VaultInv => IndexedIsComplete
  BY DEF VaultInv
<1> QED
  BY <1>1, EngineOverVault, VaultIsSound, PTL

\* A deleted document is gone from all three stores, for good.
THEOREM DeletedStaysGone == Spec => []DeletedMeansGone
<1>1. VaultInv => DeletedMeansGone
  BY DEF VaultInv
<1> QED
  BY <1>1, EngineOverVault, VaultIsSound, PTL

-----------------------------------------------------------------------------
(***************************************************************************)
(* The invariants of the searches and of the engine.                       *)
(***************************************************************************)
\* Nothing that matches in a steady document of D is missing, or the records are
\* enough already.
HasMatches(D) ==
  Cardinality(search.found) < TopK =>
    search.above \cap ((search.steady \cap D) \X Chunks) \subseteq search.found

\* What a search that is under way, or has been answered, may rely on.
SearchIsSound ==
  /\ search.gone \subseteq gone
  /\ search.found \cap (search.gone \X Chunks) = {}
  /\ \A d \in search.steady : points[d] = Chunks
  /\ search.pc \in {"query", "answered"} => HasMatches(Ids \ search.left)
  /\ search.pc = "answered" => search.left = {}

\* An entry expires one TTL after it was made; an age is one of an entry that
\* had not expired; and there is nothing to find of a document that is gone.
AgesAreBounded ==
  /\ \A i \in DOMAIN cache : cache[i].expires = cache[i].at + Ttl /\ cache[i].at <= now
  /\ \A c \in Callers : /\ ask[c].age < Ttl
                        /\ ask[c].late => ask[c].shown = {} /\ ask[c].key \in gone

\* The keys of a cache, those whose callers have still to move them to the end,
\* and the callers who have yet to make room.
Keys(entries) == {entries[i].key : i \in DOMAIN entries}
Unmoved(asks, entries) ==
  {k \in Keys(entries) : \E c \in Callers : asks[c].pc = "order" /\ asks[c].key = k}
Making(asks) == {c \in Callers : asks[c].pc \in {"measure", "evict"}}

Bounded(asks, entries) ==
  Len(entries) <= CacheSize + Cardinality(Unmoved(asks, entries)) + Cardinality(Making(asks))
CacheBounded == Bounded(ask, cache)

EngineInv ==
  /\ TypeOK
  /\ AgesAreBounded
  /\ CacheBounded
  /\ SpendingIsExact

-----------------------------------------------------------------------------
(***************************************************************************)
(* Searches.                                                               *)
(***************************************************************************)
\* What was deleted stays so, and only a disturbed document loses vectors.
LEMMA VaultGrows ==
  ASSUME VaultInv, [VaultNext]_vaultVars, ~ (BeginSearch \/ SearchStep \/ Crash)
  PROVE  /\ gone \subseteq gone'
         /\ \/ /\ UNCHANGED search
               /\ \A d \in Ids : points[d] = Chunks => points'[d] = Chunks
            \/ /\ At("wipe") /\ Disturbs(call.id)
               /\ \A d \in Ids \ {call.id} : points'[d] = points[d]
<1>1. points \in [Ids -> SUBSET Chunks] /\ call.todo \in SUBSET Chunks
  BY DEF VaultInv, VaultTypeOK, Calls
<1>2. CASE Wipe
  BY <1>1, <1>2 DEF Wipe
<1>3. CASE Upsert
  <2>1. PICK written \in SUBSET call.todo :
          points' = [points EXCEPT ![call.id] = @ \cup written]
    BY <1>3 DEF Upsert
  <2>2. \A d \in Ids : points[d] = Chunks => points'[d] = Chunks
    BY <1>1, <2>1
  <2>3. UNCHANGED <<search, gone>>
    BY <1>3 DEF Upsert, historyVars
  <2>4. QED
    BY <2>2, <2>3
<1>4. CASE UNCHANGED vaultVars
  BY <1>4 DEF vaultVars, documentVars, historyVars
<1>5. CASE (\E c \in Contents : AddDocument(c)) \/ (\E d \in Ids : Reindex(d) \/ Delete(d))
  BY <1>5 DEF AddDocument, Reindex, Delete, documentVars, historyVars
<1>6. CASE InsertRow \/ MarkPending \/ Parse \/ MarkIndexed \/ MarkFailed \/ DeleteRow \/ Unlink
  BY <1>6 DEF InsertRow, MarkPending, Parse, MarkIndexed, MarkFailed, DeleteRow, Unlink,
              documentVars, historyVars
<1>7. QED
  BY <1>2, <1>3, <1>4, <1>5, <1>6 DEF VaultNext, CallStep

LEMMA DisturbedFields ==
  ASSUME VaultTypeOK, NEW d, Disturbs(d)
  PROVE  /\ search'.steady = search.steady \ {d} /\ search'.gone = search.gone
         /\ search'.left = search.left /\ search'.found = search.found
         /\ search'.above = search.above /\ search'.pc = search.pc
BY DEF VaultTypeOK, Disturbs, Searches

LEMMA QuerySound ==
  ASSUME VaultInv, SearchIsSound, NEW d \in Ids, QueryDocument(d)
  PROVE  SearchIsSound'
<1>0. /\ search \in Searches /\ search.found \in SUBSET Records
      /\ search.above \in SUBSET Records /\ search.steady \in SUBSET Ids
      /\ points \in [Ids -> SUBSET Chunks]
  BY DEF VaultInv, VaultTypeOK, Searches
<1>1. UNCHANGED <<points, gone>> /\ search.pc = "query"
  BY DEF QueryDocument, documentVars, historyVars
<1>2. PICK records \in Best(Matches(d)) :
        search' = [search EXCEPT !.left = @ \ {d}, !.found = @ \cup records]
  BY DEF QueryDocument
<1>3. /\ search'.left = search.left \ {d} /\ search'.found = search.found \cup records
      /\ search'.above = search.above /\ search'.pc = "query"
      /\ search'.gone = search.gone /\ search'.steady = search.steady
  BY <1>0, <1>1, <1>2 DEF Searches
<1>4. Matches(d) \in SUBSET Records
  BY <1>0 DEF Matches
<1>5. records \in SUBSET Matches(d) /\ (records = Matches(d) \/ Cardinality(records) = TopK)
  BY <1>4, BestOf
<1>6. search'.found \cap (search'.gone \X Chunks) = {}
  <2>1. d \in search.gone => points[d] = {}
    BY DEF VaultInv, DeletedMeansGone, SearchIsSound
  <2>2. records \cap (search.gone \X Chunks) = {}
    BY <1>5, <2>1 DEF Matches
  <2> QED
    BY <1>3, <2>2 DEF SearchIsSound
<1>7. HasMatches(Ids \ search.left)'
  <2> SUFFICES ASSUME Cardinality(search'.found) < TopK
               PROVE  search.above \cap ((search.steady \cap (Ids \ (search.left \ {d}))) \X Chunks)
                        \subseteq search.found \cup records
    BY <1>3 DEF HasMatches
  <2>1. IsFiniteSet(search'.found)
    BY <1>0, <1>3, <1>4, <1>5, RecordsAreFinite, FS_Subset
  <2>2. /\ Cardinality(records) <= Cardinality(search'.found)
        /\ Cardinality(search.found) <= Cardinality(search'.found)
        /\ {Cardinality(records), Cardinality(search.found), Cardinality(search'.found)} \subseteq Nat
    BY <1>3, <2>1, FS_Subset, FS_CardinalityType
  <2>3. Cardinality(search.found) < TopK /\ Cardinality(records) # TopK
    BY <2>2, VaultAssumption
  <2>4. records = Matches(d)
    BY <1>5, <2>3
  <2>5. search.above \cap ((search.steady \cap (Ids \ search.left)) \X Chunks) \subseteq search.found
    BY <1>1, <2>3 DEF SearchIsSound, HasMatches
  <2>6. d \in search.steady => search.above \cap ({d} \X Chunks) \subseteq records
    BY <2>4 DEF SearchIsSound, Matches
  <2> QED
    BY <2>5, <2>6
<1> QED
  BY <1>1, <1>3, <1>6, <1>7 DEF SearchIsSound

LEMMA EndSound ==
  ASSUME VaultInv, SearchIsSound, EndSearch
  PROVE  SearchIsSound'
<1>0. search \in Searches /\ search.found \in SUBSET Records
  BY DEF VaultInv, VaultTypeOK, Searches
<1>1. UNCHANGED <<points, gone>> /\ search.pc = "query" /\ search.left = {}
  BY DEF EndSearch, documentVars, historyVars
<1>2. PICK records \in Best(search.found) :
        search' = [search EXCEPT !.pc = "answered", !.found = records]
  BY DEF EndSearch
<1>3. /\ search'.left = search.left /\ search'.found = records
      /\ search'.above = search.above /\ search'.pc = "answered"
      /\ search'.gone = search.gone /\ search'.steady = search.steady
  BY <1>0, <1>2 DEF Searches
<1>4. records \in SUBSET search.found /\ (records = search.found \/ Cardinality(records) = TopK)
  BY <1>0, BestOf
<1>5. HasMatches(Ids \ search.left)'
  <2>1. CASE records = search.found
    BY <1>1, <1>3, <2>1 DEF SearchIsSound, HasMatches
  <2>2. CASE Cardinality(records) = TopK
    BY <1>3, <2>2, VaultAssumption DEF HasMatches
  <2> QED
    BY <1>4, <2>1, <2>2
<1> QED
  BY <1>1, <1>3, <1>4, <1>5 DEF SearchIsSound

LEMMA SearchSoundStep ==
  ASSUME VaultInv, SearchIsSound, [VaultNext]_vaultVars
  PROVE  SearchIsSound'
<1>0. search \in Searches
  BY DEF VaultInv, VaultTypeOK
<1>1. CASE BeginSearch
  <2>1. UNCHANGED <<points, gone>>
    BY <1>1 DEF BeginSearch, documentVars, historyVars
  <2>2. /\ search'.gone = gone /\ search'.found = {} /\ search'.steady = Complete
        /\ search'.left = Indexed /\ search'.pc = "query"
    BY <1>1 DEF BeginSearch
  <2>3. Complete \subseteq Indexed
    BY DEF Complete, Indexed
  <2>4. HasMatches(Ids \ search.left)'
    BY <2>2, <2>3 DEF HasMatches
  <2> QED
    BY <2>1, <2>2, <2>4 DEF SearchIsSound, Complete, Indexed
<1>2. CASE \E d \in Ids : QueryDocument(d)
  BY <1>2, QuerySound
<1>3. CASE EndSearch
  BY <1>3, EndSound
<1>4. CASE TakeAnswer \/ Crash
  BY <1>4 DEF TakeAnswer, Crash, NoSearch, SearchIsSound
<1>5. CASE ~ (BeginSearch \/ SearchStep \/ Crash)
  <2>1. gone \subseteq gone'
    BY <1>5, VaultGrows
  <2>2. search.steady \subseteq Ids
    BY <1>0 DEF Searches
  <2>3. CASE /\ UNCHANGED search
             /\ \A d \in Ids : points[d] = Chunks => points'[d] = Chunks
    BY <2>1, <2>2, <2>3 DEF SearchIsSound, HasMatches
  <2>4. CASE /\ At("wipe") /\ Disturbs(call.id)
             /\ \A d \in Ids \ {call.id} : points'[d] = points[d]
    <3>1. /\ search'.steady = search.steady \ {call.id} /\ search'.gone = search.gone
          /\ search'.left = search.left /\ search'.found = search.found
          /\ search'.above = search.above /\ search'.pc = search.pc
      BY <2>4, DisturbedFields DEF VaultInv
    <3>2. HasMatches(Ids \ search.left) => HasMatches(Ids \ search.left)'
      BY <3>1 DEF HasMatches
    <3> QED
      BY <2>1, <2>2, <2>4, <3>1, <3>2 DEF SearchIsSound
  <2> QED
    BY <1>5, <2>3, <2>4, VaultGrows
<1> QED
  BY <1>1, <1>2, <1>3, <1>4, <1>5 DEF SearchStep

\* Whatever the API does between the queries of a search, the answer shows
\* nothing that was deleted before it began; and if it is shorter than was asked
\* for, everything that matches in the documents that were there throughout.
THEOREM SearchesAreConsistent == Spec => []SearchIsConsistent
<1>1. VaultInit => SearchIsSound
  BY DEF VaultInit, NoSearch, SearchIsSound
<1>2. VaultInv /\ SearchIsSound /\ [VaultNext]_vaultVars => SearchIsSound'
  BY SearchSoundStep
<1>3. VaultInv /\ SearchIsSound => SearchIsConsistent
  <2>1. VaultInv => search.steady \subseteq Ids
    BY DEF VaultInv, VaultTypeOK, Searches
  <2> QED
    BY <2>1 DEF SearchIsSound, SearchIsConsistent, HasMatches
<1>4. VaultSpec => []SearchIsConsistent
  BY <1>1, <1>2, <1>3, VaultIsSound, PTL DEF VaultSpec
<1>5. QED
  BY <1>4, EngineOverVault, PTL

-----------------------------------------------------------------------------
(***************************************************************************)
(* Sums over finite sets.                                                  *)
(***************************************************************************)

\* f is the fold that sums up the numbers v of every subset of S.
Sums(f, v, S) ==
  f = [s \in SUBSET S |->
         IF s = {} THEN 0
         ELSE v[CHOOSE x \in s : TRUE] + f[s \ {CHOOSE x \in s : TRUE}]]

LEMMA SumsExist ==
  ASSUME NEW S, IsFiniteSet(S), NEW v \in [S -> Nat]
  PROVE  \E f \in [SUBSET S -> Nat] : Sums(f, v, S)
<1> DEFINE Unfold(g) == [s \in SUBSET S |-> IF s = {} THEN 0 ELSE v[Pick(s)] + g[s \ {Pick(s)}]]
           Upto(g, n) == \A s \in SUBSET S : Cardinality(s) <= n => g[s] = Unfold(g)[s]
           Good == {n \in Nat : \E g \in [SUBSET S -> Nat] : Upto(g, n)}
<1>1. \A s \in SUBSET S : IsFiniteSet(s) /\ Cardinality(s) \in Nat
  BY FS_Subset, FS_CardinalityType
<1>2. \A s \in SUBSET S : s # {} =>
        /\ Pick(s) \in S /\ s \ {Pick(s)} \in SUBSET S
        /\ Cardinality(s \ {Pick(s)}) = Cardinality(s) - 1
  BY PickFacts
<1>3. \A g \in [SUBSET S -> Nat] : Unfold(g) \in [SUBSET S -> Nat]
  <2> TAKE g \in [SUBSET S -> Nat]
  <2>1. \A s \in SUBSET S : s # {} => v[Pick(s)] + g[s \ {Pick(s)}] \in Nat
    <3> TAKE s \in SUBSET S
    <3> HAVE s # {}
    <3>1. v[Pick(s)] \in Nat /\ g[s \ {Pick(s)}] \in Nat
      BY <1>2
    <3>2. QED
      BY <3>1
  <2>2. QED
    BY <2>1
<1>4. 0 \in Good
  <2> DEFINE zero == [s \in SUBSET S |-> 0]
             g == Unfold(zero)
  <2>1. g \in [SUBSET S -> Nat]
    <3>1. zero \in [SUBSET S -> Nat]
      OBVIOUS
    <3> HIDE DEF zero, Unfold
    <3>2. QED
      BY <1>3, <3>1
  <2>2. \A s \in SUBSET S : Cardinality(s) <= 0 => s = {}
    BY <1>1, FS_EmptySet
  <2>3. g[{}] = 0 /\ Unfold(g)[{}] = 0
    OBVIOUS
  <2> HIDE DEF g, Unfold
  <2>4. Upto(g, 0)
    BY <2>2, <2>3
  <2>5. QED
    BY <2>1, <2>4
<1>5. \A n \in Good : n + 1 \in Good
  <2> TAKE n \in Good
  <2>1. PICK g \in [SUBSET S -> Nat] : Upto(g, n)
    OBVIOUS
  <2> DEFINE h == Unfold(g)
  <2>2. h \in [SUBSET S -> Nat]
    BY <1>3
  <2>3. ASSUME NEW s \in SUBSET S, Cardinality(s) <= n + 1
        PROVE  h[s] = Unfold(h)[s]
    <3>1. CASE s = {}
      BY <3>1
    <3>2. CASE s # {}
      <4> DEFINE t == s \ {Pick(s)}
      <4>1. t \in SUBSET S /\ Cardinality(t) = Cardinality(s) - 1
        BY <1>2, <3>2
      <4>2. Cardinality(t) <= n
        BY <1>1, <2>3, <4>1
      <4>3. g[t] = h[t]
        BY <2>1, <4>1, <4>2
      <4>4. h[s] = v[Pick(s)] + g[t] /\ Unfold(h)[s] = v[Pick(s)] + h[t]
        BY <3>2
      <4>5. QED
        BY <4>3, <4>4
    <3>3. QED
      BY <3>1, <3>2
  <2>4. Upto(h, n + 1)
    BY <2>3
  <2> HIDE DEF h, Upto
  <2>5. n + 1 \in Nat
    OBVIOUS
  <2>6. QED
    BY <2>2, <2>4, <2>5
<1> HIDE DEF Good
<1>6. Cardinality(S) \in Good
  <2>1. Good \in SUBSET Nat
    BY DEF Good
  <2>2. Good = Nat
    BY <1>4, <1>5, <2>1, NumberInduction
  <2>3. QED
    BY <1>1, <2>2
<1>7. PICK g \in [SUBSET S -> Nat] : Upto(g, Cardinality(S))
  BY <1>6 DEF Good
<1>8. \A s \in SUBSET S : Cardinality(s) <= Cardinality(S)
  BY FS_Subset
<1>9. g = Unfold(g)
  BY <1>7, <1>8
<1>10. QED
  BY <1>9 DEF Sums, Pick

LEMMA SumIsLast ==
  ASSUME NEW S, IsFiniteSet(S), NEW v \in [S -> Nat]
  PROVE  \E f \in [SUBSET S -> Nat] : Sums(f, v, S) /\ SumFunctionOnSet(v, S) = f[S]
<1> DEFINE last == CHOOSE f : Sums(f, v, S)
<1>1. PICK g \in [SUBSET S -> Nat] : Sums(g, v, S)
  BY SumsExist
<1>2. Sums(last, v, S)
  BY <1>1
<1>3. SumFunctionOnSet(v, S) = last[S]
  BY DEF SumFunctionOnSet, FoldFunctionOnSet, MapThenFoldSet, Sums
<1> HIDE DEF last
<1>4. \A s \in SUBSET S : last[s] = g[s]
  <2> DEFINE G == {s \in SUBSET S : last[s] = g[s]}
  <2>1. {} \in G
    BY <1>1, <1>2 DEF Sums
  <2>2. ASSUME NEW s \in SUBSET S, s # {}, s \ {CHOOSE x \in s : TRUE} \in G
        PROVE  s \in G
    <3> DEFINE t == s \ {CHOOSE x \in s : TRUE}
    <3>1. last[s] = v[CHOOSE x \in s : TRUE] + last[t]
      BY <1>2, <2>2 DEF Sums
    <3>2. g[s] = v[CHOOSE x \in s : TRUE] + g[t]
      BY <1>1, <2>2 DEF Sums
    <3>3. last[t] = g[t]
      BY <2>2
    <3>4. QED
      BY <3>1, <3>2, <3>3
  <2>3. G = SUBSET S
    <3> HIDE DEF G
    <3>1. G \in SUBSET (SUBSET S)
      BY DEF G
    <3>2. QED
      BY <2>1, <2>2, <3>1, SetInduction
  <2>4. QED
    BY <2>3
<1>5. QED
  BY <1>1, <1>2, <1>3, <1>4

\* A sum changes by as much as one of its numbers.
LEMMA SumChanges ==
  ASSUME NEW S, IsFiniteSet(S), NEW v \in [S -> Nat], NEW w \in [S -> Nat],
         NEW c \in S, \A x \in S \ {c} : w[x] = v[x]
  PROVE  /\ SumFunctionOnSet(v, S) \in Nat /\ SumFunctionOnSet(w, S) \in Nat
         /\ SumFunctionOnSet(w, S) + v[c] = SumFunctionOnSet(v, S) + w[c]
<1>1. PICK f \in [SUBSET S -> Nat] : Sums(f, v, S) /\ SumFunctionOnSet(v, S) = f[S]
  BY SumIsLast
<1>2. PICK g \in [SUBSET S -> Nat] : Sums(g, w, S) /\ SumFunctionOnSet(w, S) = g[S]
  BY SumIsLast
<1> DEFINE Here(s) == IF c \in s THEN g[s] + v[c] = f[s] + w[c] ELSE g[s] = f[s]
           G == {s \in SUBSET S : Here(s)}
<1>3. {} \in G
  BY <1>1, <1>2 DEF Sums
<1>4. ASSUME NEW s \in SUBSET S, s # {}, s \ {CHOOSE x \in s : TRUE} \in G
      PROVE  s \in G
  <2> DEFINE x == CHOOSE x \in s : TRUE
             t == s \ {x}
  <2>1. x \in s
    BY <1>4
  <2>2. f[s] = v[x] + f[t] /\ g[s] = w[x] + g[t]
    BY <1>1, <1>2, <1>4 DEF Sums
  <2> HIDE DEF x
  <2>3. /\ f[s] \in Nat /\ g[s] \in Nat /\ f[t] \in Nat /\ g[t] \in Nat
        /\ v[x] \in Nat /\ w[x] \in Nat /\ v[c] \in Nat /\ w[c] \in Nat
    BY <2>1
  <2>4. Here(t)
    BY <1>4 DEF x
  <2>5. CASE x = c
    BY <2>1, <2>2, <2>3, <2>4, <2>5
  <2>6. CASE x # c
    <3>1. w[x] = v[x] /\ (c \in s <=> c \in t)
      BY <2>1, <2>6
    <3>2. QED
      BY <2>2, <2>3, <2>4, <3>1
  <2>7. Here(s)
    BY <2>5, <2>6
  <2>8. QED
    BY <2>7
<1>5. G = SUBSET S
  <2> HIDE DEF G
  <2>1. G \in SUBSET (SUBSET S)
    BY DEF G
  <2>2. QED
    BY <1>3, <1>4, <2>1, SetInduction
<1>6. Here(S)
  BY <1>5
<1>7. QED
  BY <1>1, <1>2, <1>6

-----------------------------------------------------------------------------
(***************************************************************************)
(* The cache.                                                              *)
(***************************************************************************)
Dated(entries) ==
  \A i \in DOMAIN entries : entries[i].expires = entries[i].at + Ttl /\ entries[i].at <= now

CacheIsFine ==
  /\ cache \in Seq(Entries)
  /\ \A i \in DOMAIN cache : cache[i].expires = cache[i].at + Ttl /\ cache[i].at <= now

LEMMA RemoveAtFacts ==
  ASSUME NEW E, NEW s \in Seq(E), NEW i \in DOMAIN s
  PROVE  /\ RemoveAt(s, i) \in Seq(E) /\ Len(RemoveAt(s, i)) = Len(s) - 1
         /\ \A j \in DOMAIN RemoveAt(s, i) : \E m \in DOMAIN s : RemoveAt(s, i)[j] = s[m]
         /\ \A m \in DOMAIN s \ {i} : \E j \in DOMAIN RemoveAt(s, i) : RemoveAt(s, i)[j] = s[m]
<1> DEFINE a == SubSeq(s, 1, i - 1)  b == SubSeq(s, i + 1, Len(s))
<1>1. Len(s) \in Nat /\ i \in 1..Len(s)
  OBVIOUS
<1>2. a \in Seq(E) /\ Len(a) = i - 1 /\ \A j \in 1..i - 1 : a[j] = s[j]
  BY <1>1
<1>3. b \in Seq(E) /\ Len(b) = Len(s) - i /\ \A j \in 1..Len(s) - i : b[j] = s[i + j]
  BY <1>1
<1> HIDE DEF a, b
<1>4. a \o b \in Seq(E) /\ Len(a \o b) = Len(s) - 1 /\ DOMAIN (a \o b) = 1..Len(s) - 1
  BY <1>1, <1>2, <1>3
<1>8. \A j \in 1..Len(s) - 1 :
        j > i - 1 => (a \o b)[j] = b[j - (i - 1)] /\ j - (i - 1) \in 1..Len(s) - i
  BY <1>1, <1>2, <1>3
<1>5. ASSUME NEW j \in 1..Len(s) - 1
      PROVE  \E m \in DOMAIN s : (a \o b)[j] = s[m]
  <2>1. CASE j <= i - 1
    <3>1. (a \o b)[j] = s[j] /\ j \in DOMAIN s
      BY <1>1, <1>2, <1>3, <2>1
    <3>2. QED
      BY <3>1
  <2>2. CASE j > i - 1
    <3>1. (a \o b)[j] = b[j - (i - 1)] /\ j - (i - 1) \in 1..Len(s) - i
      BY <1>1, <1>2, <1>3, <2>2
    <3>2. b[j - (i - 1)] = s[i + (j - (i - 1))] /\ i + (j - (i - 1)) = j + 1
      BY <1>1, <1>3, <3>1
    <3>3. j + 1 \in DOMAIN s
      BY <1>1
    <3>4. QED
      BY <3>1, <3>2, <3>3
  <2>3. j <= i - 1 \/ j > i - 1
    BY <1>1
  <2>4. QED
    BY <2>1, <2>2, <2>3
<1>6. ASSUME NEW m \in DOMAIN s \ {i}
      PROVE  \E j \in 1..Len(s) - 1 : (a \o b)[j] = s[m]
  <2>1. m \in 1..Len(s) /\ m # i
    BY <1>1
  <2>2. CASE m < i
    <3>1. m \in 1..Len(s) - 1 /\ (a \o b)[m] = s[m]
      BY <1>1, <1>2, <1>3, <2>1, <2>2
    <3>2. QED
      BY <3>1
  <2>3. CASE m > i
    <3>1. m - 1 \in 1..Len(s) - 1 /\ m - i \in 1..Len(s) - i /\ i + (m - i) = m
      BY <1>1, <2>1, <2>3
    <3>2. (a \o b)[m - 1] = b[m - i]
      <4>1. (a \o b)[m - 1] = b[(m - 1) - (i - 1)]
        <5>1. m - 1 > i - 1
          BY <1>1, <2>1, <2>3
        <5>2. QED
          BY <1>8, <3>1, <5>1
      <4>2. (m - 1) - (i - 1) = m - i
        BY <1>1, <2>1
      <4>3. QED
        BY <4>1, <4>2
    <3>3. b[m - i] = s[i + (m - i)]
      BY <1>3, <3>1
    <3>4. QED
      BY <3>1, <3>2, <3>3
  <2>4. m < i \/ m > i
    BY <1>1, <2>1
  <2>5. QED
    BY <2>2, <2>3, <2>4
<1>7. QED
  BY <1>4, <1>5, <1>6 DEF RemoveAt, a, b

LEMMA CachedIsKey ==
  ASSUME NEW k
  PROVE  Cached(k) # {} <=> k \in Keys(cache)
BY DEF Cached, ToSet, Keys

LEMMA WithoutFacts ==
  ASSUME cache \in Seq(Entries), NEW k
  PROVE  /\ Without(k) \in Seq(Entries)
         /\ k \in Keys(cache) => Len(Without(k)) = Len(cache) - 1
         /\ k \notin Keys(cache) => Without(k) = cache
         /\ \A j \in DOMAIN Without(k) : \E m \in DOMAIN cache : Without(k)[j] = cache[m]
         /\ Keys(cache) \ {k} \subseteq Keys(Without(k))
<1> DEFINE I == {i \in 1..Len(cache) : cache[i].key = k}
<1>1. Len(cache) \in Nat /\ DOMAIN cache = 1..Len(cache)
  OBVIOUS
<1>2. CASE I = {}
  <2>1. Without(k) = cache
    BY <1>2 DEF Without, RemoveFirstMatch
  <2>2. k \notin Keys(cache)
    BY <1>1, <1>2 DEF Keys
  <2>3. QED
    BY <1>1, <2>1, <2>2
<1>3. CASE I # {}
  <2>1. Without(k) = RemoveAt(cache, Min(I))
    BY <1>3 DEF Without, RemoveFirstMatch, SelectInSeq
  <2>2. \E n \in I : \A m \in I : n <= m
    <3>1. I \in SUBSET Nat
      BY <1>1
    <3> HIDE DEF I
    <3>2. QED
      BY <1>3, <3>1, LeastNatural
  <2>3. Min(I) \in I
    <3> HIDE DEF I
    <3>1. QED
      BY <2>2 DEF Min
  <2>4. Min(I) \in DOMAIN cache /\ cache[Min(I)].key = k
    BY <1>1, <2>3
  <2> DEFINE n == Min(I)
  <2>5. n \in DOMAIN cache /\ Without(k) = RemoveAt(cache, n) /\ cache[n].key = k
    BY <2>1, <2>4
  <2> HIDE DEF I, n
  <2> DEFINE w == RemoveAt(cache, n)
  <2>6. /\ w \in Seq(Entries) /\ Len(w) = Len(cache) - 1
        /\ \A j \in DOMAIN w : \E m \in DOMAIN cache : w[j] = cache[m]
        /\ \A m \in DOMAIN cache \ {n} : \E j \in DOMAIN w : w[j] = cache[m]
    BY <2>5, RemoveAtFacts
  <2> HIDE DEF w
  <2>7. Keys(cache) \ {k} \subseteq Keys(w) /\ k \in Keys(cache)
    BY <2>5, <2>6 DEF Keys
  <2>8. Without(k) = w
    BY <2>5 DEF w
  <2>9. QED
    BY <1>1, <2>6, <2>7, <2>8
<1>4. QED
  BY <1>2, <1>3

\* An entry of a key is put at the end.
LEMMA CachePut ==
  ASSUME CacheIsFine, NEW k, NEW e \in Entries, e.expires = e.at + Ttl, e.at <= now, e.key = k,
         NEW s, s = Append(Without(k), e)
  PROVE  /\ s \in Seq(Entries) /\ Len(s) \in Nat
         /\ k \in Keys(cache) => Len(s) = Len(cache)
         /\ k \notin Keys(cache) => Len(s) = Len(cache) + 1
         /\ Dated(s)
         /\ Keys(cache) \cup {k} \subseteq Keys(s)
<1>1. /\ Without(k) \in Seq(Entries)
      /\ k \in Keys(cache) => Len(Without(k)) = Len(cache) - 1
      /\ k \notin Keys(cache) => Without(k) = cache
      /\ \A j \in DOMAIN Without(k) : \E m \in DOMAIN cache : Without(k)[j] = cache[m]
      /\ Keys(cache) \ {k} \subseteq Keys(Without(k))
  BY WithoutFacts DEF CacheIsFine
<1> DEFINE w == Without(k)
<1> HIDE DEF w
<1>2. Len(w) \in Nat /\ Len(cache) \in Nat /\ s = Append(w, e)
  BY <1>1 DEF w, CacheIsFine
<1>3. /\ s \in Seq(Entries) /\ Len(s) = Len(w) + 1
      /\ Len(s) \in DOMAIN s /\ s[Len(s)] = e
      /\ \A i \in DOMAIN w : i \in DOMAIN s /\ s[i] = w[i]
  BY <1>1, <1>2 DEF w
<1>4. \A i \in DOMAIN s : s[i] = e \/ \E m \in DOMAIN cache : s[i] = cache[m]
  <2> TAKE i \in DOMAIN s
  <2>1. CASE i = Len(w) + 1
    BY <1>1, <1>2, <2>1 DEF w
  <2>2. CASE i # Len(w) + 1
    <3>1. i \in DOMAIN w /\ s[i] = w[i]
      BY <1>1, <1>2, <1>3, <2>2 DEF w
    <3>2. QED
      BY <1>1, <3>1 DEF w
  <2>3. QED
    BY <2>1, <2>2
<1>5. \A i \in DOMAIN s : s[i].expires = s[i].at + Ttl /\ s[i].at <= now
  BY <1>4 DEF CacheIsFine
<1>6. Keys(w) \cup {k} \subseteq Keys(s)
  BY <1>3 DEF Keys
<1>7. k \in Keys(cache) => Len(s) = Len(cache)
  BY <1>1, <1>2, <1>3 DEF w
<1>8. k \notin Keys(cache) => Len(s) = Len(cache) + 1
  BY <1>1, <1>2, <1>3 DEF w
<1>9. QED
  BY <1>1, <1>3, <1>5, <1>6, <1>7, <1>8 DEF w, Dated

LEMMA CachedIsFine ==
  ASSUME CacheIsFine, NEW k, NEW e \in Cached(k)
  PROVE  e \in Entries /\ e.expires = e.at + Ttl /\ e.at <= now /\ e.key = k
<1>1. PICK i \in DOMAIN cache : cache[i] = e
  BY DEF Cached, ToSet
<1>2. e.key = k
  BY DEF Cached
<1>3. QED
  BY <1>1, <1>2 DEF CacheIsFine

\* What is there is moved to the end.
LEMMA CacheReordered ==
  ASSUME CacheIsFine, NEW k, NEW e \in Cached(k), UNCHANGED now,
         cache' = Append(Without(k), e)
  PROVE  /\ CacheIsFine' /\ Len(cache') = Len(cache) /\ Keys(cache) \subseteq Keys(cache')
         /\ cache' \in Seq(Entries)
<1> DEFINE s == cache'
<1>1. s = Append(Without(k), e)
  OBVIOUS
<1>2. k \in Keys(cache) /\ e \in Entries /\ e.expires = e.at + Ttl /\ e.at <= now /\ e.key = k
  BY CachedIsFine, CachedIsKey
<1> HIDE DEF s
<1>3. /\ s \in Seq(Entries) /\ Len(s) = Len(cache)
      /\ Dated(s)
      /\ Keys(cache) \subseteq Keys(s)
  <2>1. s \in Seq(Entries)
    BY <1>1, <1>2, CachePut, Zenon
  <2>2. Len(s) = Len(cache)
    BY <1>1, <1>2, CachePut, Zenon
  <2>3. Dated(s)
    BY <1>1, <1>2, CachePut, Zenon
  <2>4. Keys(cache) \cup {k} \subseteq Keys(s)
    BY <1>1, <1>2, CachePut, Zenon
  <2>5. QED
    BY <2>1, <2>2, <2>3, <2>4
<1>4. QED
  BY <1>3 DEF CacheIsFine, Dated, s

\* What is there is replaced where it stands.
LEMMA CacheReplaced ==
  ASSUME CacheIsFine, UNCHANGED now, NEW k,
         NEW e \in Entries, e.expires = e.at + Ttl, e.at <= now, e.key = k,
         cache' = [i \in DOMAIN cache |-> IF cache[i].key = k THEN e ELSE cache[i]]
  PROVE  /\ CacheIsFine' /\ Len(cache') = Len(cache) /\ Keys(cache) \subseteq Keys(cache')
         /\ cache' \in Seq(Entries)
<1> DEFINE s == cache'
<1>1. Len(cache) \in Nat /\ DOMAIN cache = 1..Len(cache)
      /\ \A i \in DOMAIN cache : cache[i] \in Entries
  BY DEF CacheIsFine
<1>2. /\ s \in [1..Len(cache) -> Entries]
      /\ \A i \in DOMAIN cache : s[i] = IF cache[i].key = k THEN e ELSE cache[i]
  BY <1>1
<1> HIDE DEF s
<1>3. s \in Seq(Entries) /\ Len(s) = Len(cache) /\ DOMAIN s = DOMAIN cache
  BY <1>1, <1>2
<1>4. \A i \in DOMAIN s : s[i].key = cache[i].key
  BY <1>2, <1>3
<1>5. Keys(cache) \subseteq Keys(s)
  BY <1>3, <1>4 DEF Keys
<1>6. \A i \in DOMAIN s : s[i].expires = s[i].at + Ttl /\ s[i].at <= now
  BY <1>2, <1>3 DEF CacheIsFine
<1>7. QED
  BY <1>3, <1>5, <1>6 DEF CacheIsFine, s

\* The oldest entry goes.
LEMMA CachePopped ==
  ASSUME CacheIsFine, cache # <<>>, NEW s, s = Tail(cache)
  PROVE  /\ s \in Seq(Entries) /\ Len(s) = Len(cache) - 1 /\ Len(cache) \in Nat
         /\ \A i \in DOMAIN s : s[i].expires = s[i].at + Ttl /\ s[i].at <= now
         /\ Keys(cache) \ {cache[1].key} \subseteq Keys(s)
<1>1. /\ s \in Seq(Entries) /\ Len(s) = Len(cache) - 1 /\ Len(cache) \in Nat
      /\ DOMAIN cache = 1..Len(cache) /\ DOMAIN s = 1..Len(cache) - 1
      /\ \A i \in 1..Len(cache) - 1 : s[i] = cache[i + 1]
  BY DEF CacheIsFine
<1>2. \A i \in DOMAIN s : s[i].expires = s[i].at + Ttl /\ s[i].at <= now
  <2> TAKE i \in DOMAIN s
  <2>1. i + 1 \in DOMAIN cache /\ s[i] = cache[i + 1]
    BY <1>1
  <2>2. QED
    BY <2>1 DEF CacheIsFine
<1>3. ASSUME NEW m \in DOMAIN cache, cache[m].key # cache[1].key
      PROVE  \E i \in DOMAIN s : s[i].key = cache[m].key
  <2>1. m \in 1..Len(cache) /\ m # 1
    BY <1>1, <1>3
  <2>2. m - 1 \in DOMAIN s /\ s[m - 1] = cache[(m - 1) + 1] /\ (m - 1) + 1 = m
    BY <1>1, <2>1
  <2>3. QED
    BY <2>2
<1>4. Keys(cache) \ {cache[1].key} \subseteq Keys(s)
  BY <1>3 DEF Keys
<1>5. QED
  BY <1>1, <1>2, <1>4

-----------------------------------------------------------------------------
(***************************************************************************)
(* How large the cache may be.                                             *)
(***************************************************************************)
LEMMA RoomIsFinite ==
  ASSUME NEW asks \in [Callers -> Asks], NEW entries \in Seq(Entries)
  PROVE  /\ IsFiniteSet(Unmoved(asks, entries)) /\ IsFiniteSet(Making(asks))
         /\ Cardinality(Unmoved(asks, entries)) \in Nat /\ Cardinality(Making(asks)) \in Nat
<1>1. Unmoved(asks, entries) \in SUBSET Ids
  BY DEF Unmoved, Asks
<1>2. Making(asks) \in SUBSET Callers
  BY DEF Making
<1> QED
  BY <1>1, <1>2, RecordsAreFinite, EngineAssumption, FS_Subset, FS_CardinalityType

\* At most one entry for each caller in set().
LEMMA BoundedBySetting ==
  ASSUME NEW asks \in [Callers -> Asks], NEW entries \in Seq(Entries), Bounded(asks, entries)
  PROVE  Len(entries)
           <= CacheSize + Cardinality({c \in Callers : asks[c].pc \in {"order", "measure", "evict"}})
<1> DEFINE O == {c \in Callers : asks[c].pc = "order"}
           D == {c \in O : asks[c].key \in Keys(entries)}
           U == Unmoved(asks, entries)
           M == Making(asks)
           f == [c \in D |-> asks[c].key]
<1>1. IsFiniteSet(O) /\ IsFiniteSet(D) /\ Cardinality(D) <= Cardinality(O)
      /\ Cardinality(O) \in Nat /\ Cardinality(D) \in Nat
  <2>1. IsFiniteSet(O)
    BY EngineAssumption, FS_Subset
  <2>2. D \in SUBSET O
    OBVIOUS
  <2> HIDE DEF O, D
  <2>3. QED
    BY <2>1, <2>2, FS_Subset, FS_CardinalityType
<1>2. f \in Surjection(D, U)
  <2>1. f \in [D -> U]
    BY DEF Unmoved
  <2>2. \A k \in U : \E c \in D : f[c] = k
    BY DEF Unmoved
  <2>3. QED
    BY <2>1, <2>2 DEF Surjection
<1>3. Cardinality(U) <= Cardinality(D)
  <2> HIDE DEF f, D, U
  <2>1. QED
    BY <1>1, <1>2, FS_Surjection
<1>4. Cardinality(O \cup M) = Cardinality(O) + Cardinality(M) /\ Cardinality(M) \in Nat
      /\ Cardinality(U) \in Nat
  <2>1. IsFiniteSet(M) /\ Cardinality(M) \in Nat /\ Cardinality(U) \in Nat
    BY RoomIsFinite
  <2>2. O \cap M = {}
    BY DEF Making
  <2> HIDE DEF O, M
  <2>3. Cardinality(O \cup M) = Cardinality(O) + Cardinality(M) - Cardinality(O \cap M)
    BY <1>1, <2>1, FS_Union
  <2>4. Cardinality(O \cap M) = 0
    BY <2>2, FS_EmptySet
  <2>5. QED
    BY <1>1, <2>1, <2>3, <2>4
<1>5. {c \in Callers : asks[c].pc \in {"order", "measure", "evict"}} = O \cup M
  BY DEF Making
<1>6. Len(entries) <= CacheSize + Cardinality(U) + Cardinality(M) /\ Len(entries) \in Nat
  BY DEF Bounded
<1> HIDE DEF O, D, U, M
<1>7. Len(entries) <= CacheSize + (Cardinality(O) + Cardinality(M))
  BY <1>1, <1>3, <1>4, <1>6, EngineAssumption
<1> QED
  BY <1>4, <1>5, <1>7

\* Who adds an entry has a key to move; who has moved it has room to make; an
\* entry that goes takes one key with it.
LEMMA Room ==
  ASSUME EngineInv, ask' \in [Callers -> Asks], cache' \in Seq(Entries),
         LET U == Unmoved(ask, cache)  V == Unmoved(ask', cache')
             M == Making(ask)  N == Making(ask')
         IN  \/ U \subseteq V /\ M \subseteq N /\ Len(cache') <= Len(cache)
             \/ \E k : U \ {k} \subseteq V /\ M \subseteq N /\ Len(cache') <= Len(cache) - 1
             \/ \E k : /\ k \notin U /\ U \cup {k} \subseteq V /\ M \subseteq N
                       /\ Len(cache') <= Len(cache) + 1
             \/ \E k, c : /\ U \ {k} \subseteq V /\ c \notin M /\ M \cup {c} \subseteq N
                          /\ Len(cache') <= Len(cache)
             \/ Len(cache') <= CacheSize
  PROVE  CacheBounded'
<1> DEFINE U == Unmoved(ask, cache)  V == Unmoved(ask', cache')
           M == Making(ask)  N == Making(ask')
<1>1. /\ IsFiniteSet(U) /\ IsFiniteSet(V) /\ IsFiniteSet(M) /\ IsFiniteSet(N)
      /\ Cardinality(U) \in Nat /\ Cardinality(V) \in Nat
      /\ Cardinality(M) \in Nat /\ Cardinality(N) \in Nat
  BY RoomIsFinite DEF EngineInv, TypeOK
<1>2. /\ Len(cache) <= CacheSize + Cardinality(U) + Cardinality(M)
      /\ Len(cache) \in Nat /\ Len(cache') \in Nat /\ CacheSize \in Nat
  BY EngineAssumption DEF EngineInv, CacheBounded, Bounded, TypeOK
<1> SUFFICES Len(cache') <= CacheSize + Cardinality(V) + Cardinality(N)
  BY DEF CacheBounded, Bounded
<1>3. \/ U \subseteq V /\ M \subseteq N /\ Len(cache') <= Len(cache)
      \/ \E k : U \ {k} \subseteq V /\ M \subseteq N /\ Len(cache') <= Len(cache) - 1
      \/ \E k : /\ k \notin U /\ U \cup {k} \subseteq V /\ M \subseteq N
                /\ Len(cache') <= Len(cache) + 1
      \/ \E k, c : /\ U \ {k} \subseteq V /\ c \notin M /\ M \cup {c} \subseteq N
                   /\ Len(cache') <= Len(cache)
      \/ Len(cache') <= CacheSize
  OBVIOUS
<1> HIDE DEF U, V, M, N
<1>4. M \subseteq N => Cardinality(M) <= Cardinality(N)
  BY <1>1, FS_Subset
<1>5. U \subseteq V => Cardinality(U) <= Cardinality(V)
  BY <1>1, FS_Subset
<1>6. ASSUME NEW k, U \ {k} \subseteq V PROVE Cardinality(U) <= Cardinality(V) + 1
  <2>1. IsFiniteSet(U \ {k}) /\ Cardinality(U \ {k}) \in Nat
        /\ (Cardinality(U \ {k}) = Cardinality(U) \/ Cardinality(U \ {k}) = Cardinality(U) - 1)
    BY <1>1, FS_RemoveElement, FS_CardinalityType
  <2>2. Cardinality(U \ {k}) <= Cardinality(V)
    BY <1>1, <1>6, FS_Subset
  <2>3. QED
    BY <1>1, <2>1, <2>2
<1>7. ASSUME NEW k, k \notin U, U \cup {k} \subseteq V PROVE Cardinality(U) + 1 <= Cardinality(V)
  <2>1. Cardinality(U \cup {k}) = Cardinality(U) + 1
    BY <1>1, <1>7, FS_AddElement
  <2>2. Cardinality(U \cup {k}) <= Cardinality(V)
    BY <1>1, <1>7, FS_Subset
  <2>3. QED
    BY <2>1, <2>2
<1>8. ASSUME NEW c, c \notin M, M \cup {c} \subseteq N PROVE Cardinality(M) + 1 <= Cardinality(N)
  <2>1. Cardinality(M \cup {c}) = Cardinality(M) + 1
    BY <1>1, <1>8, FS_AddElement
  <2>2. Cardinality(M \cup {c}) <= Cardinality(N)
    BY <1>1, <1>8, FS_Subset
  <2>3. QED
    BY <2>1, <2>2
<1>9. CASE U \subseteq V /\ M \subseteq N /\ Len(cache') <= Len(cache)
  BY <1>1, <1>2, <1>4, <1>5, <1>9
<1>10. CASE \E k : U \ {k} \subseteq V /\ M \subseteq N /\ Len(cache') <= Len(cache) - 1
  <2>1. PICK k : U \ {k} \subseteq V /\ M \subseteq N /\ Len(cache') <= Len(cache) - 1
    BY <1>10
  <2>2. Cardinality(U) <= Cardinality(V) + 1 /\ Cardinality(M) <= Cardinality(N)
    BY <1>4, <1>6, <2>1
  <2>3. QED
    BY <1>1, <1>2, <2>1, <2>2
<1>11. CASE \E k : /\ k \notin U /\ U \cup {k} \subseteq V /\ M \subseteq N
                   /\ Len(cache') <= Len(cache) + 1
  <2>1. PICK k : /\ k \notin U /\ U \cup {k} \subseteq V /\ M \subseteq N
                 /\ Len(cache') <= Len(cache) + 1
    BY <1>11
  <2>2. Cardinality(U) + 1 <= Cardinality(V) /\ Cardinality(M) <= Cardinality(N)
    BY <1>4, <1>7, <2>1
  <2>3. QED
    BY <1>1, <1>2, <2>1, <2>2
<1>12. CASE \E k, c : /\ U \ {k} \subseteq V /\ c \notin M /\ M \cup {c} \subseteq N
                      /\ Len(cache') <= Len(cache)
  <2>1. PICK k, c : /\ U \ {k} \subseteq V /\ c \notin M /\ M \cup {c} \subseteq N
                    /\ Len(cache') <= Len(cache)
    BY <1>12
  <2>2. Cardinality(U) <= Cardinality(V) + 1 /\ Cardinality(M) + 1 <= Cardinality(N)
    BY <1>6, <1>8, <2>1
  <2>3. QED
    BY <1>1, <1>2, <2>1, <2>2
<1>13. CASE Len(cache') <= CacheSize
  BY <1>1, <1>2, <1>13
<1> QED
  BY <1>3, <1>9, <1>10, <1>11, <1>12, <1>13

\* A caller who is not in set() touches nobody's key.
LEMMA OthersRoom ==
  ASSUME EngineInv, NEW c \in Callers, NEW r \in Asks, ask' = [ask EXCEPT ![c] = r]
  PROVE  /\ ask' \in [Callers -> Asks]
         /\ ask[c].pc \notin {"measure", "evict"} => Making(ask) \subseteq Making(ask')
         /\ r.pc \in {"measure", "evict"} => Making(ask) \cup {c} \subseteq Making(ask')
         /\ ask[c].pc # "order" \/ (r.pc = "order" /\ r.key = ask[c].key) =>
              Unmoved(ask, cache) \cap Keys(cache') \subseteq Unmoved(ask', cache')
         /\ (Unmoved(ask, cache) \ {ask[c].key}) \cap Keys(cache') \subseteq Unmoved(ask', cache')
BY DEF EngineInv, TypeOK, Making, Unmoved

\* Steps that keep as many entries, or one less, outside of an answer's own place.
LEMMA SameLength ==
  ASSUME EngineInv, NEW c \in Callers, NEW r \in Asks, ask' = [ask EXCEPT ![c] = r],
         ask[c].pc \notin {"order", "measure", "evict"},
         cache' \in Seq(Entries), Len(cache') <= Len(cache), Keys(cache) \subseteq Keys(cache')
  PROVE  CacheBounded'
<1>1. /\ ask' \in [Callers -> Asks] /\ Making(ask) \subseteq Making(ask')
      /\ Unmoved(ask, cache) \cap Keys(cache') \subseteq Unmoved(ask', cache')
  BY OthersRoom
<1>2. Unmoved(ask, cache) \subseteq Keys(cache')
  BY DEF Unmoved
<1>3. Unmoved(ask, cache) \subseteq Unmoved(ask', cache')
  BY <1>1, <1>2
<1> QED
  BY <1>1, <1>3, Room

LEMMA ShorterByOne ==
  ASSUME EngineInv, NEW c \in Callers, NEW r \in Asks, ask' = [ask EXCEPT ![c] = r],
         ask[c].pc # "order", Making(ask) \subseteq Making(ask'),
         cache' \in Seq(Entries), Len(cache') <= Len(cache) - 1,
         NEW k, Keys(cache) \ {k} \subseteq Keys(cache')
  PROVE  CacheBounded'
<1>1. /\ ask' \in [Callers -> Asks]
      /\ Unmoved(ask, cache) \cap Keys(cache') \subseteq Unmoved(ask', cache')
  BY OthersRoom
<1>2. Unmoved(ask, cache) \ {k} \subseteq Keys(cache')
  BY DEF Unmoved
<1>3. Unmoved(ask, cache) \ {k} \subseteq Unmoved(ask', cache')
  BY <1>1, <1>2
<1> QED
  BY <1>1, <1>3, Room

LEMMA SameRoom ==
  ASSUME EngineInv, NEW c \in Callers, NEW r \in Asks, ask' = [ask EXCEPT ![c] = r],
         UNCHANGED cache, ask[c].pc \notin {"order", "measure", "evict"}
  PROVE  CacheBounded'
<1>1. /\ ask' \in [Callers -> Asks] /\ Making(ask) \subseteq Making(ask')
      /\ Unmoved(ask, cache) \cap Keys(cache') \subseteq Unmoved(ask', cache')
  BY OthersRoom
<1>2. Unmoved(ask, cache) \subseteq Keys(cache')
  BY DEF Unmoved
<1>3. cache' \in Seq(Entries) /\ Len(cache') <= Len(cache)
  BY DEF EngineInv, TypeOK
<1> QED
  BY <1>1, <1>2, <1>3, Room

-----------------------------------------------------------------------------
(***************************************************************************)
(* The engine: a step moves one search, and what it charges shows in it.   *)
(***************************************************************************)
Tokens(r) ==
  IF r.pc \in {"assign", "order", "measure", "evict", "answered"}
  THEN Cardinality(r.shown) ELSE 0

\* What a search that retrieves has reserved.
Holds(r) == IF r.pc = "retrieve" THEN 1 ELSE 0

\* A search that is allowed to be where it is.
Fine(r) ==
  r \in Asks /\ r.age < Ttl /\ (r.late => r.shown = {} /\ r.key \in gone)

LEMMA TokensAreNat ==
  ASSUME NEW r \in Asks
  PROVE  Cardinality(r.shown) \in Nat /\ Tokens(r) \in Nat
<1>1. r.shown \in SUBSET Chunks
  BY DEF Asks
<1>2. QED
  BY <1>1, EngineAssumption, FS_Subset, FS_CardinalityType DEF Tokens

\* A caller joins those who retrieve with its reservation, and leaves with it.
LEMMA RetrievingMoves ==
  ASSUME ask \in [Callers -> Asks], NEW c \in Callers, NEW r \in Asks,
         ask' = [ask EXCEPT ![c] = r]
  PROVE  /\ Cardinality(Retrieving) \in Nat /\ Cardinality(Retrieving') \in Nat
         /\ Cardinality(Retrieving') + Holds(ask[c]) = Cardinality(Retrieving) + Holds(r)
<1>1. IsFiniteSet(Retrieving) /\ Cardinality(Retrieving) \in Nat
  BY EngineAssumption, FS_Subset, FS_CardinalityType DEF Retrieving
<1>2. CASE ask[c].pc = "retrieve" <=> r.pc = "retrieve"
  <2>1. Retrieving' = Retrieving
    BY <1>2 DEF Retrieving
  <2>2. Holds(ask[c]) = Holds(r) /\ Holds(r) \in Nat
    BY <1>2 DEF Holds
  <2>3. QED
    BY <1>1, <2>1, <2>2
<1>3. CASE ask[c].pc = "retrieve" /\ r.pc # "retrieve"
  <2>1. Retrieving' = Retrieving \ {c} /\ c \in Retrieving
    BY <1>3 DEF Retrieving
  <2>2. Cardinality(Retrieving \ {c}) = Cardinality(Retrieving) - 1
        /\ Cardinality(Retrieving \ {c}) \in Nat
    BY <1>1, <2>1, FS_RemoveElement, FS_CardinalityType
  <2>3. QED
    BY <1>1, <1>3, <2>1, <2>2 DEF Holds
<1>4. CASE ask[c].pc # "retrieve" /\ r.pc = "retrieve"
  <2>1. Retrieving' = Retrieving \cup {c} /\ c \notin Retrieving
    BY <1>4 DEF Retrieving
  <2>2. Cardinality(Retrieving \cup {c}) = Cardinality(Retrieving) + 1
    BY <1>1, <2>1, FS_AddElement
  <2>3. QED
    BY <1>1, <1>4, <2>1, <2>2 DEF Holds
<1>5. QED
  BY <1>2, <1>3, <1>4

LEMMA SpendingBalanced ==
  ASSUME TypeOK, SpendingIsExact, NEW c \in Callers, NEW r \in Asks,
         ask' = [ask EXCEPT ![c] = r],
         usage' \in [calls : 0 .. MaxRetrievals, context : 0 .. MaxContext],
         read' \in Nat, given' \in Nat, wasted' \in Nat,
         usage'.context + Tokens(ask[c]) + given + wasted
           = usage.context + Tokens(r) + given' + wasted',
         usage'.calls + Holds(ask[c]) + read = usage.calls + Holds(r) + read'
  PROVE  SpendingIsExact'
<1>1. /\ ask \in [Callers -> Asks] /\ ask' \in [Callers -> Asks]
      /\ given \in Nat /\ wasted \in Nat /\ read \in Nat
      /\ usage.context \in Nat /\ usage'.context \in Nat
      /\ usage.calls \in Nat /\ usage'.calls \in Nat
      /\ usage'.context <= MaxContext /\ usage'.calls <= MaxRetrievals
  BY EngineAssumption DEF TypeOK
<1>2. ask'[c] = r /\ \A d \in Callers \ {c} : ask'[d] = ask[d]
  BY <1>1
<1>3. /\ Paid \in [Callers -> Nat] /\ Paid' \in [Callers -> Nat]
      /\ Paid[c] = Tokens(ask[c]) /\ Paid'[c] = Tokens(r)
      /\ \A d \in Callers \ {c} : Paid'[d] = Paid[d]
  <2>1. Paid = [d \in Callers |-> Tokens(ask[d])]
    BY DEF Paid, Tokens
  <2>2. Paid' = [d \in Callers |-> Tokens(ask'[d])]
    BY DEF Paid, Tokens
  <2>3. \A d \in Callers : Tokens(ask[d]) \in Nat /\ Tokens(ask'[d]) \in Nat
    BY <1>1, TokensAreNat
  <2>4. QED
    BY <1>2, <2>1, <2>2, <2>3
<1> DEFINE v == Paid  w == Paid'
           sumv == SumFunctionOnSet(v, Callers)  sumw == SumFunctionOnSet(w, Callers)
<1>4. IsFiniteSet(Callers)
  BY EngineAssumption
<1>5. sumv \in Nat /\ sumw \in Nat /\ sumw + v[c] = sumv + w[c]
  <2> HIDE DEF v, w
  <2>1. v \in [Callers -> Nat] /\ w \in [Callers -> Nat]
        /\ \A d \in Callers \ {c} : w[d] = v[d]
    BY <1>3 DEF v, w
  <2>2. QED
    BY <1>4, <2>1, SumChanges
<1>6. usage.context = given + wasted + sumv
  BY DEF SpendingIsExact
<1>7. sumw = SumFunctionOnSet(Paid, Callers)'
  BY DEF SumFunctionOnSet, FoldFunctionOnSet, MapThenFoldSet
<1> HIDE DEF sumv, sumw
<1>8. v[c] = Tokens(ask[c]) /\ w[c] = Tokens(r) /\ v[c] \in Nat /\ w[c] \in Nat
  BY <1>3
<1> HIDE DEF v, w
<1>9. usage'.context = given' + wasted' + sumw
  BY <1>1, <1>5, <1>6, <1>8
<1>10. usage'.calls = read' + Cardinality(Retrieving')
  <2>1. /\ Cardinality(Retrieving) \in Nat /\ Cardinality(Retrieving') \in Nat
        /\ Cardinality(Retrieving') + Holds(ask[c]) = Cardinality(Retrieving) + Holds(r)
    BY <1>1, RetrievingMoves
  <2>2. Holds(ask[c]) \in Nat /\ Holds(r) \in Nat
    BY DEF Holds
  <2>3. usage.calls = read + Cardinality(Retrieving)
    BY DEF SpendingIsExact
  <2>4. QED
    BY <1>1, <2>1, <2>2, <2>3
<1>11. Cardinality(Retrieving') = Cardinality(Retrieving)'
  OBVIOUS
<1>12. QED
  BY <1>1, <1>7, <1>9, <1>10, <1>11 DEF SpendingIsExact

\* The step of a search that ends up fine keeps the invariant.
LEMMA EngineKept ==
  ASSUME EngineInv, UNCHANGED <<vaultVars, now>>, NEW c \in Callers, NEW r, Fine(r),
         ask' = [ask EXCEPT ![c] = r],
         CacheIsFine', CacheBounded', lookups' \in 0 .. MaxLookups,
         usage' \in [calls : 0 .. MaxRetrievals, context : 0 .. MaxContext],
         read' \in Nat, given' \in Nat, wasted' \in Nat,
         usage'.context + Tokens(ask[c]) + given + wasted
           = usage.context + Tokens(r) + given' + wasted',
         usage'.calls + Holds(ask[c]) + read = usage.calls + Holds(r) + read'
  PROVE  EngineInv'
<1>1. TypeOK /\ AgesAreBounded /\ SpendingIsExact /\ r \in Asks
  BY DEF EngineInv, Fine
<1>2. SpendingIsExact'
  BY <1>1, SpendingBalanced
<1>3. ask \in [Callers -> Asks] /\ ask' \in [Callers -> Asks]
  BY <1>1 DEF TypeOK
<1>4. gone' = gone
  BY DEF vaultVars, historyVars
<1>5. AgesAreBounded'
  BY <1>1, <1>3, <1>4 DEF AgesAreBounded, CacheIsFine, Fine
<1>6. VaultTypeOK'
  BY <1>1, Zenon DEF TypeOK, VaultTypeOK, vaultVars, documentVars, historyVars
<1>7. read' \in 0 .. MaxRetrievals
  <2>1. /\ Cardinality(Retrieving') \in Nat
        /\ usage'.calls = read' + Cardinality(Retrieving') /\ usage'.calls <= MaxRetrievals
    BY <1>1, <1>2, <1>3, RetrievingMoves DEF SpendingIsExact
  <2>2. QED
    BY <2>1, EngineAssumption
<1>8. cache' \in Seq(Entries) /\ Len(cache') <= CacheSize + Cardinality(Setting')
  <2>1. cache' \in Seq(Entries) /\ Bounded(ask', cache')
    BY DEF CacheIsFine, CacheBounded
  <2>2. QED
    BY <1>3, <2>1, BoundedBySetting DEF Setting
<1>9. TypeOK'
  BY <1>1, <1>3, <1>6, <1>7, <1>8 DEF TypeOK
<1>10. QED
  BY <1>2, <1>5, <1>9 DEF EngineInv

LEMMA CacheKept ==
  ASSUME EngineInv, UNCHANGED <<cache, now>>
  PROVE  CacheIsFine'
BY DEF EngineInv, TypeOK, AgesAreBounded, CacheIsFine

Places ==
  {"idle", "touch", "drop", "missed", "reserve", "retrieve", "fit", "charge", "assign",
   "order", "measure", "evict", "hit", "answered"}

\* A search that goes on with other findings.
Onward(a, pc, shown, halves) == [a EXCEPT !.pc = pc, !.shown = shown, !.halves = halves]

LEMMA OnwardFields ==
  ASSUME NEW a \in Asks, NEW pc \in Places, NEW shown \in SUBSET Chunks,
         NEW halves \in SUBSET {"dense", "lexical"}
  PROVE  LET r == Onward(a, pc, shown, halves)
         IN  /\ r \in Asks /\ r.pc = pc /\ r.shown = shown /\ r.halves = halves
             /\ r.key = a.key /\ r.age = a.age /\ r.late = a.late
BY DEF Onward, Asks, Places

LEMMA SearchesAreFine ==
  ASSUME EngineInv, NEW c \in Callers
  PROVE  /\ Fine(ask[c]) /\ ask[c] \in Asks /\ ask[c].pc \in Places
         /\ ask[c].shown \in SUBSET Chunks /\ ask[c].halves \in SUBSET {"dense", "lexical"}
         /\ usage.calls \in 0 .. MaxRetrievals /\ usage.context \in 0 .. MaxContext
         /\ usage \in [calls : 0 .. MaxRetrievals, context : 0 .. MaxContext]
         /\ lookups \in 0 .. MaxLookups /\ read \in Nat /\ given \in Nat /\ wasted \in Nat
         /\ CacheIsFine /\ Len(cache) \in Nat /\ ask[c].key \in Ids
<1>1. ask[c] \in Asks
  BY DEF EngineInv, TypeOK
<1>2. ask[c].pc \in Places /\ ask[c].shown \in SUBSET Chunks /\ ask[c].key \in Ids
      /\ ask[c].halves \in SUBSET {"dense", "lexical"}
  BY <1>1 DEF Asks, Places
<1>3. Fine(ask[c])
  BY <1>1 DEF EngineInv, AgesAreBounded, Fine
<1>4. /\ usage \in [calls : 0 .. MaxRetrievals, context : 0 .. MaxContext]
      /\ lookups \in 0 .. MaxLookups /\ read \in Nat /\ given \in Nat /\ wasted \in Nat
  BY EngineAssumption DEF EngineInv, TypeOK
<1>5. CacheIsFine /\ Len(cache) \in Nat
  BY DEF EngineInv, TypeOK, AgesAreBounded, CacheIsFine
<1>6. QED
  BY <1>1, <1>2, <1>3, <1>4, <1>5

\* The program counter moves on, the findings stay.
LEMMA StepOn ==
  ASSUME EngineInv, UNCHANGED vaultVars, NEW c \in Callers, NEW pc \in Places, Step(c, pc)
  PROVE  \E r : /\ Fine(r) /\ ask' = [ask EXCEPT ![c] = r] /\ r \in Asks
                /\ r.pc = pc /\ r.shown = ask[c].shown /\ r.key = ask[c].key
<1> DEFINE r == Onward(ask[c], pc, ask[c].shown, ask[c].halves)
<1>1. ask[c] \in Asks /\ Fine(ask[c]) /\ ask[c].shown \in SUBSET Chunks
      /\ ask[c].halves \in SUBSET {"dense", "lexical"}
  BY SearchesAreFine
<1>2. ask' = [ask EXCEPT ![c] = r]
  BY DEF Step, Onward, EngineInv, TypeOK, Asks
<1>3. r \in Asks /\ r.pc = pc /\ r.shown = ask[c].shown /\ r.key = ask[c].key
      /\ r.age = ask[c].age /\ r.late = ask[c].late
  BY <1>1, OnwardFields
<1> HIDE DEF r
<1>4. Fine(r)
  BY <1>1, <1>3 DEF Fine
<1>5. QED
  BY <1>2, <1>3, <1>4

\* Steps that charge nothing.
LEMMA FreeStep ==
  ASSUME EngineInv, UNCHANGED <<vaultVars, now, accounts>>, NEW c \in Callers,
         NEW r, Fine(r), ask' = [ask EXCEPT ![c] = r], CacheIsFine', CacheBounded',
         lookups' \in 0 .. MaxLookups,
         Tokens(r) = Tokens(ask[c]), Holds(r) = Holds(ask[c])
  PROVE  EngineInv'
<1>1. /\ usage \in [calls : 0 .. MaxRetrievals, context : 0 .. MaxContext]
      /\ read \in Nat /\ given \in Nat /\ wasted \in Nat
  BY SearchesAreFine
<1>2. UNCHANGED <<usage, read, given, wasted>>
  BY DEF accounts
<1>3. usage'.context + Tokens(ask[c]) + given + wasted
        = usage.context + Tokens(r) + given' + wasted'
      /\ usage'.calls + Holds(ask[c]) + read = usage.calls + Holds(r) + read'
  BY <1>2
<1>4. QED
  BY <1>1, <1>2, <1>3, EngineKept

\* Steps that leave the cache alone as well, outside of set().
LEMMA QuietStep ==
  ASSUME EngineInv, UNCHANGED <<vaultVars, cache, now, accounts>>, NEW c \in Callers,
         NEW r, Fine(r), ask' = [ask EXCEPT ![c] = r],
         lookups' \in 0 .. MaxLookups, ask[c].pc \notin {"order", "measure", "evict"},
         Tokens(r) = Tokens(ask[c]), Holds(r) = Holds(ask[c])
  PROVE  EngineInv'
<1>1. CacheIsFine'
  BY CacheKept
<1>2. CacheBounded'
  BY SameRoom DEF Fine
<1>3. QED
  BY <1>1, <1>2, FreeStep

LEMMA NotAskingIsFine ==
  /\ Fine(NotAsking) /\ Tokens(NotAsking) = 0 /\ Holds(NotAsking) = 0
  /\ NotAsking.pc = "idle"
<1>1. 1 \in Ids
  BY VaultAssumption DEF Ids
<1>2. QED
  BY <1>1, EngineAssumption DEF Fine, Tokens, Holds, NotAsking, Asks

-----------------------------------------------------------------------------
(***************************************************************************)
(* The engine's steps.                                                     *)
(***************************************************************************)
LEMMA LookupStep ==
  ASSUME VaultInv, EngineInv, NEW c \in Callers, NEW k \in Ids, Lookup(c, k)
  PROVE  EngineInv'
<1>1. /\ ask[c].pc = "idle" /\ lookups' = lookups + 1 /\ lookups < MaxLookups
      /\ UNCHANGED <<vaultVars, cache, now, accounts>>
  BY DEF Lookup
<1>2. lookups' \in 0 .. MaxLookups /\ Tokens(ask[c]) = 0 /\ Holds(ask[c]) = 0
  <2>1. lookups \in 0 .. MaxLookups
    BY SearchesAreFine
  <2>2. lookups' \in 0 .. MaxLookups
    BY <1>1, <2>1, EngineAssumption
  <2>3. QED
    BY <1>1, <2>2 DEF Tokens, Holds
<1>3. ASSUME NEW pc \in {"missed", "drop"}, ask' = [ask EXCEPT ![c] = Asking(k, pc)]
      PROVE  EngineInv'
  <2> DEFINE r == Asking(k, pc)
  <2> HIDE DEF r
  <2>1. ASSUME NEW late \in {TRUE, FALSE}, late = TRUE => k \in gone,
               r = [NotAsking EXCEPT !.pc = pc, !.key = k, !.late = late]
        PROVE  EngineInv'
    <3>1. r.pc = pc /\ r.shown = {} /\ r.age = 0 /\ r.key = k
      BY <2>1 DEF NotAsking
    <3>2. r.late => k \in gone
      BY <2>1 DEF NotAsking
    <3>3. 0 \in 0 .. MaxTime /\ 0 < Ttl
      BY EngineAssumption
    <3>4. r \in Asks
      BY <2>1, <3>3 DEF NotAsking, Asks
    <3>5. Fine(r)
      BY <3>1, <3>2, <3>3, <3>4 DEF Fine
    <3>6. Tokens(r) = 0 /\ Holds(r) = 0
      BY <3>1 DEF Tokens, Holds
    <3>7. ask' = [ask EXCEPT ![c] = r]
      BY <1>3 DEF r
    <3>8. QED
      BY <1>1, <1>2, <3>5, <3>6, <3>7, QuietStep
  <2>2. CASE k \in gone
    <3>1. r = [NotAsking EXCEPT !.pc = pc, !.key = k, !.late = TRUE]
      BY <2>2 DEF r, Asking
    <3>2. QED
      BY <2>1, <2>2, <3>1
  <2>3. CASE k \notin gone
    <3>1. r = [NotAsking EXCEPT !.pc = pc, !.key = k, !.late = FALSE]
      <4>1. (k \in gone) = FALSE
        BY <2>3
      <4>2. QED
        BY <4>1, Zenon DEF r, Asking
    <3>2. QED
      BY <2>1, <2>3, <3>1
  <2>4. QED
    BY <2>2, <2>3
<1>4. ASSUME NEW e \in Cached(k), e.expires > now,
             ask' = [ask EXCEPT ![c] = [NotAsking EXCEPT
                       !.pc = "touch", !.key = k, !.shown = e.shown, !.age = now - e.at]]
      PROVE  EngineInv'
  <2> DEFINE r == [NotAsking EXCEPT
                     !.pc = "touch", !.key = k, !.shown = e.shown, !.age = now - e.at]
  <2>1. e \in Entries /\ e.expires = e.at + Ttl /\ e.at <= now
    <3>1. PICK i \in DOMAIN cache : cache[i] = e
      BY DEF Cached, ToSet
    <3>2. CacheIsFine
      BY SearchesAreFine
    <3>3. QED
      BY <3>1, <3>2 DEF CacheIsFine
  <2>2. now \in 0 .. MaxTime /\ e.at \in 0 .. MaxTime /\ e.shown \in SUBSET Chunks
    BY <2>1 DEF EngineInv, TypeOK, Entries
  <2>3. now - e.at \in 0 .. MaxTime /\ now - e.at < Ttl
    BY <1>4, <2>1, <2>2, EngineAssumption
  <2>4. /\ r.pc = "touch" /\ r.shown = e.shown /\ r.age = now - e.at /\ r.late = FALSE
    BY DEF NotAsking
  <2>5. r \in Asks
    BY <2>2, <2>3 DEF NotAsking, Asks
  <2>6. ask' = [ask EXCEPT ![c] = r]
    BY <1>4
  <2> HIDE DEF r
  <2>7. Fine(r) /\ Tokens(r) = 0 /\ Holds(r) = 0
    BY <2>3, <2>4, <2>5 DEF Fine, Tokens, Holds
  <2>8. QED
    BY <1>1, <1>2, <2>6, <2>7, QuietStep
<1>5. QED
  BY <1>3, <1>4, Zenon DEF Lookup

LEMMA TouchStep ==
  ASSUME EngineInv, NEW c \in Callers, Touch(c)
  PROVE  EngineInv'
<1>1. /\ ask[c].pc = "touch"
      /\ UNCHANGED <<vaultVars, now, accounts, lookups>>
  BY DEF Touch
<1>2. CacheIsFine /\ lookups' \in 0 .. MaxLookups /\ Len(cache) \in Nat
      /\ Tokens(ask[c]) = 0 /\ Holds(ask[c]) = 0
  BY <1>1, SearchesAreFine DEF Tokens, Holds
<1>3. ASSUME NEW e \in Cached(ask[c].key), cache' = Append(Without(ask[c].key), e),
             Step(c, "hit")
      PROVE  EngineInv'
  <2>1. PICK r : /\ Fine(r) /\ ask' = [ask EXCEPT ![c] = r] /\ r \in Asks
                 /\ r.pc = "hit" /\ r.shown = ask[c].shown /\ r.key = ask[c].key
    BY <1>1, <1>3, StepOn DEF Places
  <2>2. Tokens(r) = 0 /\ Holds(r) = 0
    BY <2>1 DEF Tokens, Holds
  <2>3. e \in Entries /\ e.expires = e.at + Ttl /\ e.at <= now /\ e.key = ask[c].key
    BY <1>2, CachedIsFine
  <2>4. CacheIsFine' /\ Len(cache') = Len(cache) /\ Keys(cache) \subseteq Keys(cache')
        /\ cache' \in Seq(Entries)
    BY <1>1, <1>2, <1>3, <2>3, CacheReordered
  <2>5. CacheBounded'
    <3>1. Len(cache') <= Len(cache) /\ ask[c].pc \notin {"order", "measure", "evict"}
      BY <1>1, <1>2, <2>4
    <3>2. QED
      BY <2>1, <2>4, <3>1, SameLength, Zenon
  <2>6. QED
    BY <1>1, <1>2, <2>1, <2>2, <2>4, <2>5, FreeStep
<1>4. ASSUME Raise(c), UNCHANGED cache
      PROVE  EngineInv'
  <2>1. ask' = [ask EXCEPT ![c] = NotAsking]
    BY <1>4 DEF Raise
  <2>2. QED
    BY <1>1, <1>2, <1>4, <2>1, QuietStep, NotAskingIsFine
<1>5. QED
  BY <1>3, <1>4, Zenon DEF Touch

LEMMA DropStep ==
  ASSUME EngineInv, NEW c \in Callers, Drop(c)
  PROVE  EngineInv'
<1>1. /\ ask[c].pc = "drop" /\ cache' = Without(ask[c].key) /\ Step(c, "missed")
      /\ UNCHANGED <<vaultVars, now, accounts, lookups>>
  BY DEF Drop
<1>2. CacheIsFine /\ lookups' \in 0 .. MaxLookups /\ Len(cache) \in Nat
      /\ Tokens(ask[c]) = 0 /\ Holds(ask[c]) = 0
  BY <1>1, SearchesAreFine DEF Tokens, Holds
<1>3. PICK r : /\ Fine(r) /\ ask' = [ask EXCEPT ![c] = r] /\ r \in Asks
               /\ r.pc = "missed" /\ r.shown = ask[c].shown /\ r.key = ask[c].key
  BY <1>1, StepOn DEF Places
<1>4. Tokens(r) = 0 /\ Holds(r) = 0
  BY <1>3 DEF Tokens, Holds
<1> DEFINE k == ask[c].key  w == Without(k)
<1>5. /\ w \in Seq(Entries)
      /\ k \in Keys(cache) => Len(w) = Len(cache) - 1
      /\ k \notin Keys(cache) => w = cache
      /\ \A j \in DOMAIN w : \E m \in DOMAIN cache : w[j] = cache[m]
      /\ Keys(cache) \ {k} \subseteq Keys(w)
  BY <1>2, WithoutFacts DEF CacheIsFine
<1>6. cache' = w
  BY <1>1
<1> HIDE DEF w, k
<1>7. CacheIsFine'
  <2>1. \A i \in DOMAIN w : w[i].expires = w[i].at + Ttl /\ w[i].at <= now
    BY <1>2, <1>5 DEF CacheIsFine
  <2>2. QED
    BY <1>1, <1>5, <1>6, <2>1 DEF CacheIsFine
<1>8. CacheBounded'
  <2>1. CASE k \in Keys(cache)
    <3>1. cache' \in Seq(Entries) /\ Len(cache') <= Len(cache) - 1
          /\ Keys(cache) \ {k} \subseteq Keys(cache')
      BY <1>2, <1>5, <1>6, <2>1
    <3>2. Making(ask) \subseteq Making(ask') /\ ask[c].pc # "order"
      BY <1>1, <1>3, OthersRoom
    <3>3. QED
      BY <1>3, <3>1, <3>2, ShorterByOne, Zenon
  <2>2. CASE k \notin Keys(cache)
    BY <1>1, <1>3, <1>5, <1>6, <2>2, SameRoom
  <2>3. QED
    BY <2>1, <2>2
<1>9. QED
  BY <1>1, <1>2, <1>3, <1>4, <1>7, <1>8, FreeStep

LEMMA LookAtContextStep ==
  ASSUME EngineInv, NEW c \in Callers, LookAtContext(c)
  PROVE  EngineInv'
<1>1. ask[c].pc = "missed" /\ UNCHANGED <<vaultVars, cache, now, accounts, lookups>>
      /\ (Step(c, "reserve") \/ Raise(c))
  BY DEF LookAtContext
<1>2. lookups' \in 0 .. MaxLookups /\ Tokens(ask[c]) = 0 /\ Holds(ask[c]) = 0
  BY <1>1, SearchesAreFine DEF Tokens, Holds
<1>3. CASE Step(c, "reserve")
  <2>1. PICK r : /\ Fine(r) /\ ask' = [ask EXCEPT ![c] = r] /\ r \in Asks
                 /\ r.pc = "reserve" /\ r.shown = ask[c].shown /\ r.key = ask[c].key
    BY <1>1, <1>3, StepOn DEF Places
  <2>2. Tokens(r) = 0 /\ Holds(r) = 0
    BY <2>1 DEF Tokens, Holds
  <2>3. QED
    BY <1>1, <1>2, <2>1, <2>2, QuietStep
<1>4. CASE Raise(c)
  <2>1. ask' = [ask EXCEPT ![c] = NotAsking]
    BY <1>4 DEF Raise
  <2>2. QED
    BY <1>1, <1>2, <2>1, QuietStep, NotAskingIsFine
<1>5. QED
  BY <1>1, <1>3, <1>4

LEMMA ReserveStep ==
  ASSUME EngineInv, NEW c \in Callers, ReserveRetrieval(c)
  PROVE  EngineInv'
<1>1. ask[c].pc = "reserve" /\ UNCHANGED <<vaultVars, cache, now, lookups, read, given, wasted>>
  BY DEF ReserveRetrieval
<1>2. /\ ask[c] \in Asks /\ Fine(ask[c]) /\ CacheIsFine' /\ lookups' \in 0 .. MaxLookups
      /\ ask[c].shown \in SUBSET Chunks /\ Tokens(ask[c]) = 0 /\ Holds(ask[c]) = 0
      /\ read \in Nat /\ given \in Nat /\ wasted \in Nat
      /\ usage \in [calls : 0 .. MaxRetrievals, context : 0 .. MaxContext]
  BY <1>1, SearchesAreFine, CacheKept DEF Tokens, Holds
<1>3. CASE /\ usage.calls < MaxRetrievals
           /\ usage' = [usage EXCEPT !.calls = @ + 1]
           /\ ask' = [ask EXCEPT ![c].pc = "retrieve", ![c].halves = {"dense", "lexical"}]
  <2> DEFINE r == Onward(ask[c], "retrieve", ask[c].shown, {"dense", "lexical"})
  <2>1. ask' = [ask EXCEPT ![c] = r]
    BY <1>3 DEF Onward, EngineInv, TypeOK, Asks
  <2>2. r \in Asks /\ r.pc = "retrieve" /\ r.shown = ask[c].shown /\ r.key = ask[c].key
        /\ r.age = ask[c].age /\ r.late = ask[c].late
    BY <1>2, OnwardFields DEF Places
  <2> HIDE DEF r
  <2>3. Fine(r) /\ Tokens(r) = 0 /\ Holds(r) = 1
    BY <1>2, <2>2 DEF Fine, Tokens, Holds
  <2>4. /\ usage' \in [calls : 0 .. MaxRetrievals, context : 0 .. MaxContext]
        /\ usage'.calls = usage.calls + 1 /\ usage'.context = usage.context
        /\ usage.calls \in Nat /\ usage.context \in Nat
    BY <1>2, <1>3, EngineAssumption
  <2>5. usage'.context + Tokens(ask[c]) + given + wasted
          = usage.context + Tokens(r) + given' + wasted'
        /\ usage'.calls + Holds(ask[c]) + read = usage.calls + Holds(r) + read'
    BY <1>1, <1>2, <2>3, <2>4
  <2>6. CacheBounded'
    BY <1>1, <2>1, <2>2, SameRoom
  <2>7. QED
    BY <1>1, <1>2, <2>1, <2>3, <2>4, <2>5, <2>6, EngineKept
<1>4. CASE Raise(c) /\ UNCHANGED usage
  <2>1. ask' = [ask EXCEPT ![c] = NotAsking] /\ UNCHANGED accounts
    BY <1>1, <1>4 DEF Raise, accounts
  <2>2. QED
    BY <1>1, <1>2, <2>1, QuietStep, NotAskingIsFine
<1>5. QED
  BY <1>3, <1>4, Zenon DEF ReserveRetrieval

\* What is found of a document that is gone is nothing.
LEMMA RetrieveStep ==
  ASSUME VaultInv, EngineInv, NEW c \in Callers, NEW half \in {"dense", "lexical"},
         Retrieve(c, half)
  PROVE  EngineInv'
<1>1. /\ ask[c].pc = "retrieve"
      /\ UNCHANGED <<vaultVars, cache, now, usage, lookups, given, wasted>>
  BY DEF Retrieve
<1>2. /\ ask[c] \in Asks /\ Fine(ask[c]) /\ CacheIsFine' /\ lookups' \in 0 .. MaxLookups
      /\ ask[c].shown \in SUBSET Chunks /\ ask[c].halves \in SUBSET {"dense", "lexical"}
      /\ Tokens(ask[c]) = 0 /\ Holds(ask[c]) = 1
      /\ read \in Nat /\ given \in Nat /\ wasted \in Nat
      /\ usage \in [calls : 0 .. MaxRetrievals, context : 0 .. MaxContext]
  BY <1>1, SearchesAreFine, CacheKept DEF Tokens, Holds
<1>3. ask[c].key \in Ids /\ points[ask[c].key] \in SUBSET Chunks
  BY <1>2 DEF Asks, VaultInv, VaultTypeOK
<1>4. ask[c].key \in gone => points[ask[c].key] = {}
  BY <1>3 DEF VaultInv, DeletedMeansGone
<1>5. PICK found \in {{}, points[ask[c].key]} :
        ask' = [ask EXCEPT ![c].shown = @ \cup found, ![c].halves = @ \ {half},
                           ![c].pc = IF ask[c].halves = {half} THEN "fit" ELSE "retrieve"]
  BY DEF Retrieve
<1>6. PICK pc \in {"fit", "retrieve"} :
        pc = IF ask[c].halves = {half} THEN "fit" ELSE "retrieve"
  OBVIOUS
<1> DEFINE r == Onward(ask[c], pc, ask[c].shown \cup found, ask[c].halves \ {half})
<1>7. ask' = [ask EXCEPT ![c] = r]
  BY <1>5, <1>6 DEF Onward, EngineInv, TypeOK, Asks
<1>8. r \in Asks /\ r.pc = pc /\ r.shown = ask[c].shown \cup found /\ r.key = ask[c].key
      /\ r.age = ask[c].age /\ r.late = ask[c].late
  BY <1>2, <1>3, OnwardFields DEF Places
<1> HIDE DEF r
<1>9. Fine(r) /\ Tokens(r) = 0
  BY <1>2, <1>4, <1>6, <1>8 DEF Fine, Tokens
<1>10. read' \in Nat /\ Holds(r) + read' = 1 + read
  BY <1>2, <1>6, <1>8 DEF Retrieve, Holds
<1>11. Holds(r) \in Nat /\ usage.calls \in Nat /\ usage.context \in Nat
  BY <1>2 DEF Holds
<1>12. usage'.context + Tokens(ask[c]) + given + wasted
         = usage.context + Tokens(r) + given' + wasted'
       /\ usage'.calls + Holds(ask[c]) + read = usage.calls + Holds(r) + read'
  BY <1>1, <1>2, <1>9, <1>10, <1>11
<1>13. CacheBounded'
  BY <1>1, <1>7, <1>8, SameRoom
<1>14. QED
  BY <1>1, <1>2, <1>7, <1>9, <1>10, <1>12, <1>13, EngineKept

LEMMA RetrieveFailsStep ==
  ASSUME EngineInv, NEW c \in Callers, RetrieveFails(c)
  PROVE  EngineInv'
<1>1. /\ ask[c].pc = "retrieve" /\ usage' = [usage EXCEPT !.calls = @ - 1]
      /\ ask' = [ask EXCEPT ![c] = NotAsking]
      /\ UNCHANGED <<vaultVars, cache, now, lookups, read, given, wasted>>
  BY DEF RetrieveFails, Raise
<1>2. /\ ask[c] \in Asks /\ CacheIsFine' /\ lookups' \in 0 .. MaxLookups
      /\ Tokens(ask[c]) = 0 /\ Holds(ask[c]) = 1
      /\ read \in Nat /\ given \in Nat /\ wasted \in Nat
      /\ usage \in [calls : 0 .. MaxRetrievals, context : 0 .. MaxContext]
  BY <1>1, SearchesAreFine, CacheKept DEF Tokens, Holds
<1>3. usage.calls >= 1
  <2>1. c \in Retrieving /\ IsFiniteSet(Retrieving)
    BY <1>1, EngineAssumption, FS_Subset DEF Retrieving
  <2>2. Cardinality(Retrieving) # 0 /\ Cardinality(Retrieving) \in Nat
    BY <2>1, FS_EmptySet, FS_CardinalityType
  <2>3. usage.calls = read + Cardinality(Retrieving)
    BY DEF EngineInv, SpendingIsExact
  <2>4. QED
    BY <1>2, <2>2, <2>3
<1>4. /\ usage' \in [calls : 0 .. MaxRetrievals, context : 0 .. MaxContext]
      /\ usage'.calls = usage.calls - 1 /\ usage'.context = usage.context
      /\ usage.calls \in Nat /\ usage.context \in Nat
  BY <1>1, <1>2, <1>3, EngineAssumption
<1>5. Fine(NotAsking) /\ Tokens(NotAsking) = 0 /\ Holds(NotAsking) = 0 /\ NotAsking.pc = "idle"
  BY NotAskingIsFine
<1>6. usage'.context + Tokens(ask[c]) + given + wasted
        = usage.context + Tokens(NotAsking) + given' + wasted'
      /\ usage'.calls + Holds(ask[c]) + read = usage.calls + Holds(NotAsking) + read'
  BY <1>1, <1>2, <1>4, <1>5
<1>7. CacheBounded'
  BY <1>1, <1>5, SameRoom DEF Fine
<1>8. QED
  BY <1>1, <1>2, <1>4, <1>5, <1>6, <1>7, EngineKept

LEMMA FitStep ==
  ASSUME EngineInv, NEW c \in Callers, Fit(c)
  PROVE  EngineInv'
<1>1. /\ ask[c].pc = "fit"
      /\ UNCHANGED <<vaultVars, cache, now, accounts, lookups>>
  BY DEF Fit
<1>2. /\ ask[c] \in Asks /\ Fine(ask[c]) /\ lookups' \in 0 .. MaxLookups
      /\ ask[c].shown \in SUBSET Chunks /\ ask[c].halves \in SUBSET {"dense", "lexical"}
      /\ Tokens(ask[c]) = 0 /\ Holds(ask[c]) = 0
  BY <1>1, SearchesAreFine DEF Tokens, Holds
<1>3. PICK s \in Compressed(ask[c].shown, MaxContext - usage.context) :
        ask' = [ask EXCEPT ![c].pc = "charge", ![c].shown = s]
  BY DEF Fit
<1>4. s \in SUBSET ask[c].shown
  BY DEF Compressed
<1> DEFINE r == Onward(ask[c], "charge", s, ask[c].halves)
<1>5. ask' = [ask EXCEPT ![c] = r]
  BY <1>3 DEF Onward, EngineInv, TypeOK, Asks
<1>6. r \in Asks /\ r.pc = "charge" /\ r.shown = s /\ r.key = ask[c].key
      /\ r.age = ask[c].age /\ r.late = ask[c].late
  BY <1>2, <1>4, OnwardFields DEF Places
<1> HIDE DEF r
<1>7. Fine(r) /\ Tokens(r) = 0 /\ Holds(r) = 0
  BY <1>2, <1>4, <1>6 DEF Fine, Tokens, Holds
<1>8. QED
  BY <1>1, <1>2, <1>5, <1>7, QuietStep

\* The tokens of an answer are charged, or the search raises and gets none.
LEMMA ChargeStep ==
  ASSUME EngineInv, NEW c \in Callers, NEW then \in {"assign", "answered"}, Charge(c, then),
         ask[c].pc \in {"charge", "hit"},
         UNCHANGED <<vaultVars, cache, now, lookups, read, given, wasted>>
  PROVE  EngineInv'
<1>1. /\ ask[c] \in Asks /\ CacheIsFine' /\ lookups' \in 0 .. MaxLookups
      /\ Tokens(ask[c]) = 0 /\ Holds(ask[c]) = 0
      /\ read \in Nat /\ given \in Nat /\ wasted \in Nat
      /\ usage \in [calls : 0 .. MaxRetrievals, context : 0 .. MaxContext]
      /\ Cardinality(ask[c].shown) \in Nat
  BY SearchesAreFine, CacheKept, TokensAreNat DEF Tokens, Holds
<1>2. CASE /\ usage.context + Cardinality(ask[c].shown) <= MaxContext
           /\ usage' = [usage EXCEPT !.context = @ + Cardinality(ask[c].shown)]
           /\ Step(c, then)
  <2> DEFINE n == Cardinality(ask[c].shown)
  <2>1. PICK r : /\ Fine(r) /\ ask' = [ask EXCEPT ![c] = r] /\ r \in Asks
                 /\ r.pc = then /\ r.shown = ask[c].shown /\ r.key = ask[c].key
    BY <1>2, StepOn DEF Places
  <2>2. Tokens(r) = n /\ Holds(r) = 0
    BY <2>1 DEF Tokens, Holds
  <2>3. n \in Nat /\ usage.context + n <= MaxContext
        /\ usage' = [usage EXCEPT !.context = @ + n]
    BY <1>1, <1>2
  <2> HIDE DEF n
  <2>4. /\ usage' \in [calls : 0 .. MaxRetrievals, context : 0 .. MaxContext]
        /\ usage'.calls = usage.calls /\ usage'.context = usage.context + n
        /\ usage.calls \in Nat /\ usage.context \in Nat
    BY <1>1, <2>3, EngineAssumption
  <2>5. usage'.context + Tokens(ask[c]) + given + wasted
          = usage.context + Tokens(r) + given' + wasted'
        /\ usage'.calls + Holds(ask[c]) + read = usage.calls + Holds(r) + read'
    BY <1>1, <2>2, <2>3, <2>4
  <2>6. CacheBounded'
    BY <2>1, SameRoom
  <2>7. QED
    BY <1>1, <2>1, <2>4, <2>5, <2>6, EngineKept
<1>3. CASE Raise(c) /\ UNCHANGED usage
  <2>1. ask' = [ask EXCEPT ![c] = NotAsking] /\ UNCHANGED accounts
    BY <1>3 DEF Raise, accounts
  <2>2. QED
    BY <1>1, <2>1, QuietStep, NotAskingIsFine
<1>4. QED
  BY <1>2, <1>3, Zenon DEF Charge

\* A new key is one more to be moved to the end; a known one keeps its place.
LEMMA AssignStep ==
  ASSUME EngineInv, NEW c \in Callers, Assign(c)
  PROVE  EngineInv'
<1> DEFINE k == ask[c].key
           entry == [key |-> k, shown |-> ask[c].shown, expires |-> now + Ttl, at |-> now]
<1>1. /\ ask[c].pc = "assign" /\ Step(c, "order")
      /\ cache' = IF Cached(k) = {} THEN Append(cache, entry)
                  ELSE [i \in DOMAIN cache |-> IF cache[i].key = k THEN entry ELSE cache[i]]
      /\ UNCHANGED <<vaultVars, now, accounts, lookups>>
  BY DEF Assign
<1>2. ask[c] \in Asks /\ CacheIsFine /\ lookups' \in 0 .. MaxLookups /\ Len(cache) \in Nat
      /\ ask[c].shown \in SUBSET Chunks /\ k \in Ids
  BY <1>1, SearchesAreFine
<1>3. PICK r : /\ Fine(r) /\ ask' = [ask EXCEPT ![c] = r] /\ r \in Asks
               /\ r.pc = "order" /\ r.shown = ask[c].shown /\ r.key = k
  BY <1>1, StepOn DEF Places
<1>4. Tokens(r) = Tokens(ask[c]) /\ Holds(r) = Holds(ask[c])
  BY <1>1, <1>3 DEF Tokens, Holds
<1>5. entry \in Entries /\ entry.expires = entry.at + Ttl /\ entry.at <= now /\ entry.key = k
  <2>1. now \in 0 .. MaxTime
    BY DEF EngineInv, TypeOK
  <2>2. QED
    BY <1>2, <2>1, EngineAssumption DEF Entries
<1>6. CASE k \notin Keys(cache)
  <2>1. Cached(k) = {}
    BY <1>6, CachedIsKey
  <2>2. cache' = Append(Without(k), entry)
    BY <1>1, <1>2, <1>6, <2>1, WithoutFacts DEF CacheIsFine
  <2> DEFINE s == cache'
  <2>3. s = Append(Without(k), entry)
    BY <2>2
  <2> HIDE DEF entry, k, s
  <2>4. /\ s \in Seq(Entries) /\ Len(s) = Len(cache) + 1
        /\ Dated(s)
        /\ Keys(cache) \cup {k} \subseteq Keys(s)
    <3>1. s \in Seq(Entries)
      BY <1>2, <1>5, <2>3, CachePut, Zenon
    <3>2. Len(s) = Len(cache) + 1
      BY <1>2, <1>5, <1>6, <2>3, CachePut, Zenon
    <3>3. Dated(s)
      BY <1>2, <1>5, <2>3, CachePut, Zenon
    <3>4. Keys(cache) \cup {k} \subseteq Keys(s)
      BY <1>2, <1>5, <2>3, CachePut, Zenon
    <3>5. QED
      BY <3>1, <3>2, <3>3, <3>4
  <2>5. CacheIsFine'
    BY <1>1, <2>4 DEF CacheIsFine, Dated, s
  <2>6. CacheBounded'
    <3>1. /\ ask' \in [Callers -> Asks] /\ Making(ask) \subseteq Making(ask')
          /\ Unmoved(ask, cache) \cap Keys(cache') \subseteq Unmoved(ask', cache')
      BY <1>1, <1>3, OthersRoom
    <3>2. k \notin Unmoved(ask, cache) /\ Unmoved(ask, cache) \subseteq Keys(cache')
      BY <1>6, <2>4 DEF Unmoved, s
    <3>3. k \in Unmoved(ask', cache')
      <4>1. ask'[c] = r
        BY <1>3 DEF EngineInv, TypeOK
      <4>2. QED
        BY <1>3, <2>4, <4>1 DEF Unmoved, s
    <3>4. Unmoved(ask, cache) \cup {k} \subseteq Unmoved(ask', cache')
      BY <3>1, <3>2, <3>3
    <3>5. cache' \in Seq(Entries) /\ Len(cache') <= Len(cache) + 1
      BY <1>2, <2>4 DEF s
    <3>6. QED
      BY <3>1, <3>2, <3>4, <3>5, Room
  <2>7. QED
    BY <1>1, <1>2, <1>3, <1>4, <2>5, <2>6, FreeStep
<1>7. CASE k \in Keys(cache)
  <2>1. Cached(k) # {}
    BY <1>7, CachedIsKey
  <2>2. cache' = [i \in DOMAIN cache |-> IF cache[i].key = k THEN entry ELSE cache[i]]
    BY <1>1, <2>1
  <2> HIDE DEF entry, k
  <2>3. CacheIsFine' /\ Len(cache') = Len(cache) /\ Keys(cache) \subseteq Keys(cache')
        /\ cache' \in Seq(Entries)
    BY <1>1, <1>2, <1>5, <2>2, CacheReplaced
  <2>4. CacheBounded'
    <3>1. Len(cache') <= Len(cache) /\ ask[c].pc \notin {"order", "measure", "evict"}
      BY <1>1, <1>2, <2>3
    <3>2. QED
      BY <1>3, <2>3, <3>1, SameLength, Zenon
  <2>5. QED
    BY <1>1, <1>2, <1>3, <1>4, <2>3, <2>4, FreeStep
<1>8. QED
  BY <1>6, <1>7

\* set() raises: what it was to return is lost.
LEMMA LoseStep ==
  ASSUME EngineInv, NEW c \in Callers, ask[c].pc \in {"order", "evict"}, Lose(c),
         UNCHANGED <<vaultVars, now, usage, lookups, read, given>>, CacheBounded'
  PROVE  EngineInv'
<1>1. /\ ask' = [ask EXCEPT ![c] = NotAsking] /\ UNCHANGED cache
      /\ wasted' = wasted + Cardinality(ask[c].shown)
  BY DEF Lose, Raise
<1>2. /\ ask[c] \in Asks /\ CacheIsFine' /\ lookups' \in 0 .. MaxLookups
      /\ read \in Nat /\ given \in Nat /\ wasted \in Nat
      /\ usage \in [calls : 0 .. MaxRetrievals, context : 0 .. MaxContext]
      /\ Tokens(ask[c]) = Cardinality(ask[c].shown) /\ Tokens(ask[c]) \in Nat
      /\ Holds(ask[c]) = 0
  BY <1>1, SearchesAreFine, CacheKept, TokensAreNat DEF Tokens, Holds
<1>3. Fine(NotAsking) /\ Tokens(NotAsking) = 0 /\ Holds(NotAsking) = 0
  BY NotAskingIsFine
<1>4. wasted' \in Nat /\ usage.context \in Nat /\ usage.calls \in Nat
  BY <1>1, <1>2
<1>5. usage'.context + Tokens(ask[c]) + given + wasted
        = usage.context + Tokens(NotAsking) + given' + wasted'
      /\ usage'.calls + Holds(ask[c]) + read = usage.calls + Holds(NotAsking) + read'
  BY <1>1, <1>2, <1>3, <1>4
<1>6. QED
  BY <1>1, <1>2, <1>3, <1>4, <1>5, EngineKept

\* Its key has been moved, and the caller is one more to make room.
LEMMA OrderStep ==
  ASSUME EngineInv, NEW c \in Callers, Order(c)
  PROVE  EngineInv'
<1>1. /\ ask[c].pc = "order"
      /\ UNCHANGED <<vaultVars, now, usage, lookups, read, given>>
  BY DEF Order
<1>2. CacheIsFine /\ lookups' \in 0 .. MaxLookups /\ Len(cache) \in Nat
  BY <1>1, SearchesAreFine
<1>3. ASSUME NEW e \in Cached(ask[c].key), cache' = Append(Without(ask[c].key), e),
             Step(c, "measure"), UNCHANGED wasted
      PROVE  EngineInv'
  <2>1. PICK r : /\ Fine(r) /\ ask' = [ask EXCEPT ![c] = r] /\ r \in Asks
                 /\ r.pc = "measure" /\ r.shown = ask[c].shown /\ r.key = ask[c].key
    BY <1>1, <1>3, StepOn DEF Places
  <2>2. Tokens(r) = Tokens(ask[c]) /\ Holds(r) = Holds(ask[c])
    BY <1>1, <2>1 DEF Tokens, Holds
  <2>3. e \in Entries /\ e.expires = e.at + Ttl /\ e.at <= now /\ e.key = ask[c].key
    BY <1>2, CachedIsFine
  <2>4. CacheIsFine' /\ Len(cache') = Len(cache) /\ Keys(cache) \subseteq Keys(cache')
        /\ cache' \in Seq(Entries)
    BY <1>1, <1>2, <1>3, <2>3, CacheReordered
  <2>5. CacheBounded'
    <3>1. /\ ask' \in [Callers -> Asks] /\ Making(ask) \cup {c} \subseteq Making(ask')
          /\ (Unmoved(ask, cache) \ {ask[c].key}) \cap Keys(cache') \subseteq Unmoved(ask', cache')
      BY <2>1, OthersRoom
    <3>2. c \notin Making(ask) /\ Unmoved(ask, cache) \subseteq Keys(cache')
      BY <1>1, <2>4 DEF Making, Unmoved
    <3>3. Unmoved(ask, cache) \ {ask[c].key} \subseteq Unmoved(ask', cache')
      BY <3>1, <3>2
    <3>4. cache' \in Seq(Entries) /\ Len(cache') <= Len(cache)
      BY <1>2, <2>4 DEF CacheIsFine
    <3>5. QED
      BY <3>1, <3>2, <3>3, <3>4, Room
  <2>6. UNCHANGED accounts
    BY <1>1, <1>3 DEF accounts
  <2>7. QED
    BY <1>1, <1>2, <2>1, <2>2, <2>4, <2>5, <2>6, FreeStep
<1>4. ASSUME Cached(ask[c].key) = {}, Lose(c)
      PROVE  EngineInv'
  <2>1. ask' = [ask EXCEPT ![c] = NotAsking] /\ cache' = cache /\ NotAsking \in Asks
    BY <1>4, NotAskingIsFine DEF Lose, Raise, Fine
  <2>2. ask[c].key \notin Unmoved(ask, cache)
    BY <1>4, CachedIsKey DEF Unmoved
  <2>3. /\ ask' \in [Callers -> Asks] /\ Making(ask) \subseteq Making(ask')
        /\ (Unmoved(ask, cache) \ {ask[c].key}) \cap Keys(cache') \subseteq Unmoved(ask', cache')
    BY <1>1, <2>1, OthersRoom
  <2>4. Unmoved(ask, cache) \subseteq Unmoved(ask', cache')
    BY <2>1, <2>2, <2>3 DEF Unmoved
  <2>5. cache' \in Seq(Entries) /\ Len(cache') <= Len(cache)
    BY <1>2, <2>1 DEF CacheIsFine
  <2>6. CacheBounded'
    BY <2>3, <2>4, <2>5, Room
  <2>7. QED
    BY <1>1, <1>4, <2>6, LoseStep
<1>5. QED
  BY <1>3, <1>4, Zenon DEF Order

\* Who leaves set() with its answer has seen that the size is right.
LEMMA MeasureStep ==
  ASSUME EngineInv, NEW c \in Callers, Measure(c)
  PROVE  EngineInv'
<1>1. /\ ask[c].pc = "measure"
      /\ UNCHANGED <<vaultVars, cache, now, accounts, lookups>>
  BY DEF Measure
<1>2. PICK pc \in {"evict", "answered"} :
        Step(c, pc) /\ (pc = "answered" => ~ (Len(cache) > CacheSize))
  BY DEF Measure
<1>3. PICK r : /\ Fine(r) /\ ask' = [ask EXCEPT ![c] = r] /\ r \in Asks
               /\ r.pc = pc /\ r.shown = ask[c].shown /\ r.key = ask[c].key
  BY <1>1, <1>2, StepOn DEF Places
<1>4. Tokens(r) = Tokens(ask[c]) /\ Holds(r) = Holds(ask[c])
  BY <1>1, <1>3 DEF Tokens, Holds
<1>5. CacheIsFine' /\ lookups' \in 0 .. MaxLookups /\ Len(cache) \in Nat
      /\ cache' \in Seq(Entries)
  BY <1>1, SearchesAreFine, CacheKept DEF CacheIsFine
<1>6. CacheBounded'
  <2>1. /\ ask' \in [Callers -> Asks]
        /\ Unmoved(ask, cache) \cap Keys(cache') \subseteq Unmoved(ask', cache')
        /\ r.pc \in {"measure", "evict"} => Making(ask) \cup {c} \subseteq Making(ask')
    BY <1>1, <1>3, OthersRoom
  <2>2. CASE pc = "answered"
    <3>1. Len(cache') <= CacheSize
      BY <1>1, <1>2, <1>5, <2>2, EngineAssumption
    <3>2. QED
      BY <1>5, <2>1, <3>1, Room
  <2>3. CASE pc = "evict"
    <3>1. Making(ask) \subseteq Making(ask') /\ Len(cache') <= Len(cache)
      <4>1. Making(ask) \cup {c} \subseteq Making(ask')
        BY <1>3, <2>1, <2>3
      <4>2. cache' = cache
        BY <1>1
      <4>3. QED
        BY <1>5, <4>1, <4>2
    <3>2. Unmoved(ask, cache) \subseteq Unmoved(ask', cache')
      BY <1>1, <2>1 DEF Unmoved
    <3>3. QED
      BY <1>5, <2>1, <3>1, <3>2, Room
  <2>4. QED
    BY <2>2, <2>3
<1>7. QED
  BY <1>1, <1>3, <1>4, <1>5, <1>6, FreeStep

\* An entry that goes takes one key with it.
LEMMA EvictStep ==
  ASSUME EngineInv, NEW c \in Callers, Evict(c)
  PROVE  EngineInv'
<1>1. /\ ask[c].pc = "evict"
      /\ UNCHANGED <<vaultVars, now, usage, lookups, read, given>>
  BY DEF Evict
<1>2. CacheIsFine /\ lookups' \in 0 .. MaxLookups /\ Len(cache) \in Nat
  BY <1>1, SearchesAreFine
<1>3. ASSUME cache # <<>>, cache' = Tail(cache), Step(c, "measure"), UNCHANGED wasted
      PROVE  EngineInv'
  <2>1. PICK r : /\ Fine(r) /\ ask' = [ask EXCEPT ![c] = r] /\ r \in Asks
                 /\ r.pc = "measure" /\ r.shown = ask[c].shown /\ r.key = ask[c].key
    BY <1>1, <1>3, StepOn DEF Places
  <2>2. Tokens(r) = Tokens(ask[c]) /\ Holds(r) = Holds(ask[c])
    BY <1>1, <2>1 DEF Tokens, Holds
  <2> DEFINE s == cache'
  <2>3. s = Tail(cache)
    BY <1>3
  <2> HIDE DEF s
  <2>4. /\ s \in Seq(Entries) /\ Len(s) = Len(cache) - 1
        /\ \A i \in DOMAIN s : s[i].expires = s[i].at + Ttl /\ s[i].at <= now
        /\ Keys(cache) \ {cache[1].key} \subseteq Keys(s)
    BY <1>2, <1>3, <2>3, CachePopped
  <2>5. CacheIsFine'
    BY <1>1, <2>4 DEF CacheIsFine, s
  <2>6. CacheBounded'
    <3>1. cache' \in Seq(Entries) /\ Len(cache') <= Len(cache) - 1
          /\ Keys(cache) \ {cache[1].key} \subseteq Keys(cache')
      BY <1>2, <2>4 DEF s
    <3>2. Making(ask) \subseteq Making(ask') /\ ask[c].pc # "order"
      BY <1>1, <2>1, OthersRoom
    <3>3. QED
      BY <2>1, <3>1, <3>2, ShorterByOne, Zenon
  <2>7. UNCHANGED accounts
    BY <1>1, <1>3 DEF accounts
  <2>8. QED
    BY <1>1, <1>2, <2>1, <2>2, <2>5, <2>6, <2>7, FreeStep
<1>4. ASSUME cache = <<>>, Lose(c)
      PROVE  EngineInv'
  <2>1. cache' = cache /\ ask' = [ask EXCEPT ![c] = NotAsking] /\ NotAsking \in Asks
    BY <1>4, NotAskingIsFine DEF Lose, Raise, Fine
  <2>2. cache' \in Seq(Entries) /\ Len(cache') <= CacheSize
    BY <1>2, <1>4, <2>1, EngineAssumption DEF CacheIsFine
  <2>3. ask' \in [Callers -> Asks]
    BY <2>1, OthersRoom
  <2>4. CacheBounded'
    BY <2>2, <2>3, Room
  <2>5. QED
    BY <1>1, <1>4, <2>4, LoseStep
<1>5. QED
  BY <1>3, <1>4, Zenon DEF Evict

LEMMA TakeStep ==
  ASSUME EngineInv, NEW c \in Callers, Take(c)
  PROVE  EngineInv'
<1>1. /\ ask[c].pc = "answered" /\ given' = given + Cardinality(ask[c].shown)
      /\ ask' = [ask EXCEPT ![c] = NotAsking]
      /\ UNCHANGED <<vaultVars, cache, now, usage, lookups, read, wasted>>
  BY DEF Take, Raise
<1>2. /\ ask[c] \in Asks /\ CacheIsFine' /\ lookups' \in 0 .. MaxLookups
      /\ read \in Nat /\ given \in Nat /\ wasted \in Nat
      /\ usage \in [calls : 0 .. MaxRetrievals, context : 0 .. MaxContext]
      /\ Tokens(ask[c]) = Cardinality(ask[c].shown) /\ Tokens(ask[c]) \in Nat
      /\ Holds(ask[c]) = 0
  BY <1>1, SearchesAreFine, CacheKept, TokensAreNat DEF Tokens, Holds
<1>3. Fine(NotAsking) /\ Tokens(NotAsking) = 0 /\ Holds(NotAsking) = 0
  BY NotAskingIsFine
<1>4. given' \in Nat /\ usage.context \in Nat /\ usage.calls \in Nat
  BY <1>1, <1>2
<1>5. usage'.context + Tokens(ask[c]) + given + wasted
        = usage.context + Tokens(NotAsking) + given' + wasted'
      /\ usage'.calls + Holds(ask[c]) + read = usage.calls + Holds(NotAsking) + read'
  BY <1>1, <1>2, <1>3, <1>4
<1>6. CacheBounded'
  BY <1>1, <1>3, SameRoom DEF Fine
<1>7. QED
  BY <1>1, <1>2, <1>3, <1>4, <1>5, <1>6, EngineKept

LEMMA EngineStepKeeps ==
  ASSUME VaultInv, EngineInv, NEW c \in Callers, EngineStep(c)
  PROVE  EngineInv'
<1>1. CASE ChargeFresh(c)
  BY <1>1, ChargeStep DEF ChargeFresh
<1>2. CASE ChargeHit(c)
  BY <1>2, ChargeStep DEF ChargeHit
<1>3. QED
  BY <1>1, <1>2, LookupStep, TouchStep, DropStep, LookAtContextStep, ReserveStep, RetrieveStep,
     RetrieveFailsStep, FitStep, AssignStep, OrderStep, MeasureStep, EvictStep, TakeStep
     DEF EngineStep

\* The vault's steps leave the engine alone; time passes, and ages do not grow.
LEMMA OtherStepKeeps ==
  ASSUME VaultInv, EngineInv,
         \/ VaultNext /\ UNCHANGED engineVars
         \/ Tick
         \/ UNCHANGED vars
  PROVE  EngineInv'
<1>1. /\ UNCHANGED <<cache, ask, usage, lookups, read, given, wasted>>
      /\ [VaultNext]_vaultVars
      /\ \/ UNCHANGED now
         \/ now < MaxTime /\ now' = now + 1
  BY DEF Tick, engineVars, accounts, vars
<1>2. VaultTypeOK'
  BY <1>1, NextInv DEF VaultInv
<1>3. now \in 0 .. MaxTime /\ MaxTime \in Nat
  BY EngineAssumption DEF EngineInv, TypeOK
<1>4. now' \in 0 .. MaxTime /\ now <= now'
  BY <1>1, <1>3
<1>5. TypeOK'
  BY <1>1, <1>2, <1>4 DEF EngineInv, TypeOK, Setting
<1>6. gone \subseteq gone'
  <2>1. CASE BeginSearch \/ SearchStep \/ Crash
    BY <2>1 DEF BeginSearch, SearchStep, QueryDocument, EndSearch, TakeAnswer, Crash, historyVars
  <2>2. QED
    BY <1>1, <2>1, VaultGrows
<1>7. AgesAreBounded'
  <2>1. \A i \in DOMAIN cache : cache[i].at \in 0 .. MaxTime
    <3>1. cache \in Seq(Entries)
      BY DEF EngineInv, TypeOK
    <3>2. \A i \in DOMAIN cache : cache[i] \in Entries
      BY <3>1
    <3>3. QED
      BY <3>2 DEF Entries
  <2>2. \A i \in DOMAIN cache' : cache'[i].expires = cache'[i].at + Ttl /\ cache'[i].at <= now'
    BY <1>1, <1>3, <1>4, <2>1 DEF EngineInv, AgesAreBounded
  <2>3. \A c \in Callers : /\ ask'[c].age < Ttl
                           /\ ask'[c].late => ask'[c].shown = {} /\ ask'[c].key \in gone'
    BY <1>1, <1>6 DEF EngineInv, AgesAreBounded
  <2>4. QED
    BY <2>2, <2>3 DEF AgesAreBounded
<1>8. CacheBounded'
  BY <1>1 DEF EngineInv, CacheBounded
<1>9. SpendingIsExact'
  BY <1>1 DEF EngineInv, SpendingIsExact, Retrieving, Paid, SumFunctionOnSet, FoldFunctionOnSet,
              MapThenFoldSet
<1>10. QED
  BY <1>5, <1>7, <1>8, <1>9 DEF EngineInv

LEMMA InitEngine ==
  ASSUME Init
  PROVE  EngineInv
<1>1. VaultTypeOK
  BY InitInv DEF Init, VaultInv
<1>2. NotAsking \in Asks
  BY NotAskingIsFine DEF Fine
<1>3. TypeOK
  <2>1. cache \in Seq(Entries) /\ Len(cache) <= CacheSize + Cardinality(Setting)
    <3>1. Setting = {}
      BY NotAskingIsFine DEF Init, Setting
    <3>2. QED
      BY <3>1, FS_EmptySet, EngineAssumption DEF Init
  <2>2. QED
    BY <1>1, <1>2, <2>1, EngineAssumption DEF Init, TypeOK
<1>4. AgesAreBounded
  BY NotAskingIsFine DEF Init, AgesAreBounded, Fine
<1>5. CacheBounded
  <2>1. /\ Cardinality(Unmoved(ask, cache)) \in Nat /\ Cardinality(Making(ask)) \in Nat
        /\ Len(cache) = 0
    BY <1>3, RoomIsFinite DEF Init, TypeOK
  <2>2. QED
    BY <2>1, EngineAssumption DEF CacheBounded, Bounded
<1>6. SpendingIsExact
  <2>1. Paid = [c \in Callers |-> 0]
    BY NotAskingIsFine DEF Init, Paid
  <2> DEFINE zero == [c \in Callers |-> 0]
  <2>2. zero \in [Callers -> Nat] /\ IsFiniteSet(Callers)
    BY EngineAssumption
  <2>3. SumFunctionOnSet(zero, Callers) = 0
    <3> HIDE DEF zero
    <3>1. PICK f \in [SUBSET Callers -> Nat] :
            Sums(f, zero, Callers) /\ SumFunctionOnSet(zero, Callers) = f[Callers]
      BY <2>2, SumIsLast
    <3> DEFINE G == {s \in SUBSET Callers : f[s] = 0}
    <3>2. {} \in G
      BY <3>1 DEF Sums
    <3>3. ASSUME NEW s \in SUBSET Callers, s # {}, s \ {CHOOSE x \in s : TRUE} \in G
          PROVE  s \in G
      <4>1. (CHOOSE x \in s : TRUE) \in s
        BY <3>3
      <4>2. zero[CHOOSE x \in s : TRUE] = 0
        BY <4>1 DEF zero
      <4>3. f[s] = zero[CHOOSE x \in s : TRUE] + f[s \ {CHOOSE x \in s : TRUE}]
        BY <3>1, <3>3 DEF Sums
      <4>4. QED
        BY <3>3, <4>2, <4>3
    <3>4. G = SUBSET Callers
      <4> HIDE DEF G
      <4>1. G \in SUBSET (SUBSET Callers)
        BY DEF G
      <4>2. QED
        BY <2>2, <3>2, <3>3, <4>1, SetInduction
    <3>5. QED
      BY <3>1, <3>4
  <2>4. SumFunctionOnSet(Paid, Callers) = 0
    BY <2>1, <2>3, Zenon
  <2>5. Cardinality(Retrieving) = 0
    <3>1. Retrieving = {}
      BY NotAskingIsFine DEF Init, Retrieving
    <3>2. QED
      BY <3>1, FS_EmptySet
  <2>6. QED
    BY <2>4, <2>5, EngineAssumption DEF Init, SpendingIsExact
<1>7. QED
  BY <1>3, <1>4, <1>5, <1>6 DEF EngineInv

\* The engine's invariant, over whatever the vault does.
THEOREM EngineIsSound == Spec => []EngineInv
<1>1. Init => EngineInv
  BY InitEngine
<1>2. VaultInv /\ EngineInv /\ [Next]_vars => EngineInv'
  <2> SUFFICES ASSUME VaultInv, EngineInv, [Next]_vars
               PROVE  EngineInv'
    OBVIOUS
  <2>1. QED
    BY EngineStepKeeps, OtherStepKeeps, Zenon DEF Next
<1>3. QED
  BY <1>1, <1>2, EngineOverVault, VaultIsSound, PTL DEF Spec

\* The vault and the engine keep their types and bounds: the cache never grows
\* beyond its size and one entry more for each caller that is in set(), and the
\* governor's counters stay within their limits.
THEOREM TypeCorrect == Spec => []TypeOK
<1>1. EngineInv => TypeOK
  BY DEF EngineInv
<1>2. QED
  BY <1>1, EngineIsSound, PTL

\* Whatever any number of callers do at the same time, the budget is charged
\* for the retrievals that were not given back, and for what they get or lose to
\* a race in set(), exactly; and it is never overdrawn.
THEOREM SpendingStaysExact == Spec => []SpendingIsExact
<1>1. EngineInv => SpendingIsExact
  BY DEF EngineInv
<1>2. QED
  BY <1>1, EngineIsSound, PTL

\* An answer from the cache is younger than the TTL, and a question asked when
\* its document is gone gets nothing from anywhere else.
THEOREM AnswersStayRecent == Spec => []AnswersAreRecent
<1>1. EngineInv => AnswersAreRecent
  BY DEF EngineInv, AgesAreBounded, AnswersAreRecent
<1>2. QED
  BY <1>1, EngineIsSound, PTL
=============================================================================
