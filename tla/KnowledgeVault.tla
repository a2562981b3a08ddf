---------------------------- MODULE KnowledgeVault ----------------------------
(***************************************************************************)
(* The knowledge vault: a SQLite row, a stored copy of the file and a set  *)
(* of vectors per document, changed one after the other by add_document,   *)
(* reindex_document and delete_document.  The API calls the three from     *)
(* handlers that never await while in the vault, so at most one of them    *)
(* is under way; a workflow thread searches at any time.                   *)
(*                                                                         *)
(* Abstracted: names, paths and times; a document's text is the set of its *)
(* Chunks; of scores, which chunks reach min_score for a query.  The       *)
(* embedded vector store writes and deletes the points of one call in any  *)
(* order and a failure may leave some.                                     *)
(***************************************************************************)
EXTENDS Integers, FiniteSets

CONSTANTS MaxDocuments,  \* bound on the ids ever drawn
          Contents,      \* distinct file contents, i.e. content hashes
          Chunks,        \* what parsing and chunking a document yields
          TopK,          \* how many records a search asks for
          MaxFaults      \* bound on the failures and crashes

ASSUME VaultAssumption ==
  /\ MaxDocuments \in Nat \ {0}
  /\ MaxFaults \in Nat
  /\ Chunks # {} /\ IsFiniteSet(Chunks)
  /\ TopK \in Nat \ {0}

VARIABLES status,    \* id -> status column, "none" if there is no row
          content,   \* id -> content hash the id was made for
          files,     \* ids with a copy in storage_dir
          points,    \* id -> chunks with a vector in the store
          made,      \* ids 1..made have been drawn
          call,      \* the add, reindex or delete under way
          search,    \* the workflow thread's search
          faults,    \* failures so far
          gone,      \* history: ids a returned delete call was about
          hollow     \* history: ids whose vectors a call began to delete
                     \* and whose status was not written since

documentVars == <<status, content, files, points, made>>
historyVars == <<gone, hollow>>
vaultVars == <<documentVars, call, search, faults, historyVars>>

Ids == 1 .. MaxDocuments
Statuses == {"none", "pending", "indexed", "failed"}
Call(pc, op, d, seen) == [pc |-> pc, op |-> op, id |-> d, rowSeen |-> seen, todo |-> {}]
NoCall == Call("idle", "none", 0, "none")
NoSearch ==
  [pc |-> "idle", left |-> {}, above |-> {}, found |-> {}, gone |-> {}, steady |-> {}]

\* rowSeen: status in the row the call read when it began; todo: chunks the
\* retriever has embedded and not yet upserted.
Calls ==
  [pc : {"idle", "insert", "wipe", "pending", "parse", "upsert", "indexed", "failed",
         "row", "unlink", "orphans"},
   op : {"none", "add", "reindex", "delete"}, id : {0} \cup Ids,
   rowSeen : Statuses, todo : SUBSET Chunks]

\* A chunk of a document, as a search finds it.
Records == Ids \X Chunks

\* left: listed documents not yet queried; above: the records of the listed
\* documents that score min_score or more for the query.  History of the search:
\* gone when it began, and the documents complete then and untouched since.
Searches ==
  [pc : {"idle", "query", "answered"}, left : SUBSET Ids, above : SUBSET Records,
   found : SUBSET Records, gone : SUBSET Ids, steady : SUBSET Ids]

Drawn == 1 .. made
Rows == {d \in Ids : status[d] # "none"}
Indexed == {d \in Ids : status[d] = "indexed"}
Complete == {d \in Indexed : points[d] = Chunks}

\* Any TopK of a set of records, or all of them if there are fewer.
Best(records) ==
  {r \in SUBSET records :
     Cardinality(r) = IF Cardinality(records) <= TopK THEN Cardinality(records) ELSE TopK}

VaultTypeOK ==
  /\ status \in [Ids -> Statuses]
  /\ content \in [Ids -> Contents \cup {"unset"}]
  /\ files \subseteq Ids
  /\ points \in [Ids -> SUBSET Chunks]
  /\ made \in 0 .. MaxDocuments
  /\ call \in Calls
  /\ search \in Searches
  /\ faults \in 0 .. MaxFaults
  /\ gone \subseteq Ids
  /\ hollow \subseteq Ids

VaultInit ==
  /\ status = [d \in Ids |-> "none"]
  /\ content = [d \in Ids |-> "unset"]
  /\ files = {}
  /\ points = [d \in Ids |-> {}]
  /\ made = 0
  /\ call = NoCall
  /\ search = NoSearch
  /\ faults = 0
  /\ gone = {}
  /\ hollow = {}

-----------------------------------------------------------------------------
At(pc) == call.pc = pc
Goto(pc) == call' = [call EXCEPT !.pc = pc]
Return == call' = NoCall

Fault == faults < MaxFaults /\ faults' = faults + 1

\* A search under way loses the document from those it has to find.
Disturbs(d) == search' = [search EXCEPT !.steady = @ \ {d}]

\* add_document on a file whose hash has a row answers with that row, whatever
\* its status: nothing changes and the call is over.  Otherwise the file is
\* copied under a fresh id; a copy that raises may leave a partial file.
AddDocument(c) ==
  /\ At("idle") /\ made < MaxDocuments
  /\ \A d \in Rows : content[d] # c
  /\ made' = made + 1
  /\ content' = [content EXCEPT ![made + 1] = c]
  /\ \/ /\ files' = files \cup {made + 1}
        /\ call' = Call("insert", "add", made + 1, "none")
        /\ UNCHANGED faults
     \/ /\ Fault
        /\ files' \in {files, files \cup {made + 1}}
        /\ UNCHANGED call
  /\ UNCHANGED <<status, points, search, historyVars>>

\* INSERT ... 'pending'.  It is outside the try: a failure only leaves the copy.
InsertRow ==
  /\ At("insert")
  /\ \/ /\ status' = [status EXCEPT ![call.id] = "pending"]
        /\ Goto("parse")
        /\ UNCHANGED faults
     \/ Fault /\ Return /\ UNCHANGED status
  /\ UNCHANGED <<content, files, points, made, search, historyVars>>

\* reindex_document: the row and the file must be there.
Reindex(d) ==
  /\ At("idle") /\ status[d] # "none" /\ d \in files
  /\ call' = Call("wipe", "reindex", d, status[d])
  /\ UNCHANGED <<documentVars, search, faults, historyVars>>

\* Mutant: the row is dropped before the vectors are.
DeleteRowFirst(d) ==
  /\ At("idle") /\ d \in Drawn
  /\ call' = Call("wipe", "delete", d, status[d])
  /\ status' = [status EXCEPT ![d] = "none"]
  /\ UNCHANGED <<content, files, points, made, search, faults, historyVars>>

\* delete_document reads the row, if any, and deletes the vectors in any case.
Delete(d) ==
  /\ At("idle") /\ d \in Drawn
  /\ call' = Call("wipe", "delete", d, status[d])
  /\ UNCHANGED <<documentVars, search, faults, historyVars>>

AfterWipe ==
  IF call.op = "reindex" THEN "pending" ELSE IF call.rowSeen = "none" THEN "orphans" ELSE "row"

\* delete_by_source_file_id, in steps another thread can see.
Wipe ==
  /\ At("wipe")
  /\ \E gonePoints \in SUBSET points[call.id] :
       /\ points' = [points EXCEPT ![call.id] = @ \ gonePoints]
       /\ hollow' = IF gonePoints = {} THEN hollow ELSE hollow \cup {call.id}
       /\ Disturbs(call.id)
       /\ \/ points'[call.id] = {} /\ Goto(AfterWipe) /\ UNCHANGED faults
          \/ gonePoints # {} /\ points'[call.id] # {} /\ UNCHANGED <<call, faults>>
          \/ Fault /\ Return
  /\ UNCHANGED <<status, content, files, made, gone>>

\* Reindexing: 'pending' is written before the try.
MarkPending ==
  /\ At("pending")
  /\ \/ /\ status' = [status EXCEPT ![call.id] = "pending"]
        /\ hollow' = hollow \ {call.id}
        /\ Goto("parse")
        /\ UNCHANGED faults
     \/ Fault /\ Return /\ UNCHANGED <<status, hollow>>
  /\ UNCHANGED <<content, files, points, made, search, gone>>

\* DocumentRetriever.retrieve does not embed chunks whose hash and model are
\* stored already.
NotStored(d) == Chunks \ points[d]

\* _parse_document, then the half of retrieve before the upsert.  No text, or
\* any exception, and the document is marked failed.
Parse ==
  /\ At("parse")
  /\ \/ /\ call' = [call EXCEPT !.pc = "upsert", !.todo = NotStored(call.id)]
        /\ UNCHANGED faults
     \/ Fault /\ Goto("failed")
  /\ UNCHANGED <<documentVars, search, historyVars>>

\* Mutant: the row is marked as soon as the first points are in.
UpsertSome ==
  /\ At("upsert")
  /\ \E written \in SUBSET call.todo :
       /\ points' = [points EXCEPT ![call.id] = @ \cup written]
       /\ call' = [call EXCEPT !.pc = "indexed", !.todo = {}]
  /\ UNCHANGED <<status, content, files, made, search, faults, historyVars>>

Upsert ==
  /\ At("upsert")
  /\ \E written \in SUBSET call.todo :
       /\ points' = [points EXCEPT ![call.id] = @ \cup written]
       /\ \/ /\ written # {} \/ call.todo = {}
             /\ call' = [call EXCEPT !.pc = IF written = call.todo THEN "indexed" ELSE "upsert",
                                     !.todo = @ \ written]
             /\ UNCHANGED faults
          \/ Fault /\ call' = [call EXCEPT !.pc = "failed", !.todo = {}]
  /\ UNCHANGED <<status, content, files, made, search, historyVars>>

\* Still inside the try: a failing update is answered with 'failed'.
MarkIndexed ==
  /\ At("indexed")
  /\ \/ /\ status' = [status EXCEPT ![call.id] = "indexed"]
        /\ hollow' = hollow \ {call.id}
        /\ Return
        /\ UNCHANGED faults
     \/ Fault /\ Goto("failed") /\ UNCHANGED <<status, hollow>>
  /\ UNCHANGED <<content, files, points, made, search, gone>>

MarkFailed ==
  /\ At("failed")
  /\ \/ /\ status' = [status EXCEPT ![call.id] = "failed"]
        /\ hollow' = hollow \ {call.id}
        /\ UNCHANGED faults
     \/ Fault /\ UNCHANGED <<status, hollow>>
  /\ Return
  /\ UNCHANGED <<content, files, points, made, search, gone>>

DeleteRow ==
  /\ At("row")
  /\ \/ /\ status' = [status EXCEPT ![call.id] = "none"]
        /\ hollow' = hollow \ {call.id}
        /\ Goto("unlink")
        /\ UNCHANGED faults
     \/ Fault /\ Return /\ UNCHANGED <<status, hollow>>
  /\ UNCHANGED <<content, files, points, made, search, gone>>

\* Mutant: a delete that finds no row leaves the files alone.
UnlinkKnown ==
  /\ At("unlink") \/ At("orphans")
  /\ \/ files' = (IF At("unlink") THEN files \ {call.id} ELSE files)
        /\ gone' = gone \cup {call.id} /\ UNCHANGED faults
     \/ Fault /\ UNCHANGED <<files, gone>>
  /\ Return
  /\ UNCHANGED <<status, content, points, made, search, hollow>>

\* The stored file goes last, and the call returns True; without a row every
\* file named after the id goes, and it returns False.
Unlink ==
  /\ At("unlink") \/ At("orphans")
  /\ \/ files' = files \ {call.id} /\ gone' = gone \cup {call.id} /\ UNCHANGED faults
     \/ Fault /\ UNCHANGED <<files, gone>>
  /\ Return
  /\ UNCHANGED <<status, content, points, made, search, hollow>>

-----------------------------------------------------------------------------
\* KnowledgeVault.search in a workflow thread: the list first, then one query
\* per document that the list says is indexed.
BeginSearch ==
  /\ search.pc = "idle"
  /\ \E above \in SUBSET (Indexed \X Chunks) :
       search' = [pc |-> "query", left |-> Indexed, above |-> above, found |-> {},
                  gone |-> gone, steady |-> Complete]
  /\ UNCHANGED <<documentVars, call, faults, historyVars>>

\* What the store has of the document and the threshold lets through.
Matches(d) == search.above \cap ({d} \X points[d])

\* Mutant: the loop ends with the first document that has an answer.
QueryFirst(d) ==
  /\ search.pc = "query" /\ d \in search.left
  /\ \E records \in Best(Matches(d)) :
       search' = [search EXCEPT !.left = IF records # {} THEN {} ELSE @ \ {d},
                                !.found = @ \cup records]
  /\ UNCHANGED <<documentVars, call, faults, historyVars>>

\* The store answers with the closest top_k of a document's points; those below
\* min_score are skipped.
QueryDocument(d) ==
  /\ search.pc = "query" /\ d \in search.left
  /\ \E records \in Best(Matches(d)) :
       search' = [search EXCEPT !.left = @ \ {d}, !.found = @ \cup records]
  /\ UNCHANGED <<documentVars, call, faults, historyVars>>

\* The records of all the documents, sorted and cut to top_k.
EndSearch ==
  /\ search.pc = "query" /\ search.left = {}
  /\ \E records \in Best(search.found) :
       search' = [search EXCEPT !.pc = "answered", !.found = records]
  /\ UNCHANGED <<documentVars, call, faults, historyVars>>

\* The workflow goes on, and may search again.
TakeAnswer ==
  /\ search.pc = "answered"
  /\ search' = NoSearch
  /\ UNCHANGED <<documentVars, call, faults, historyVars>>

\* The process dies: row, files and vectors stay as they are.
Crash ==
  /\ Fault
  /\ call' = NoCall /\ search' = NoSearch
  /\ UNCHANGED <<documentVars, historyVars>>

CallStep ==
  \/ InsertRow \/ Wipe \/ MarkPending \/ Parse \/ Upsert \/ MarkIndexed \/ MarkFailed
  \/ DeleteRow \/ Unlink

SearchStep == (\E d \in Ids : QueryDocument(d)) \/ EndSearch \/ TakeAnswer

VaultNext ==
  \/ \E c \in Contents : AddDocument(c)
  \/ \E d \in Ids : Reindex(d) \/ Delete(d)
  \/ CallStep
  \/ BeginSearch \/ SearchStep
  \/ Crash

VaultSpec == VaultInit /\ [][VaultNext]_vaultVars

-----------------------------------------------------------------------------
\* delete_document deletes the vectors, the row and the file in this order and
\* add_document makes them in the opposite one: whatever fails and wherever the
\* process dies, no vector is left without its row and no row without its file.
StoresAgree ==
  \A d \in Ids : /\ points[d] # {} => status[d] # "none"
                 /\ status[d] # "none" => d \in files

\* A document that says 'indexed' has every chunk in the store, unless a delete
\* or reindex was cut short after it began to delete the vectors: such a row
\* goes on saying 'indexed' until somebody reindexes or deletes it again.
IndexedIsComplete == \A d \in Ids : status[d] = "indexed" => d \in Complete \cup hollow

\* Once delete_document has returned, with True or False, nothing is left of
\* the document in any of the three stores, and nothing comes back: a delete
\* that was cut short is completed by repeating it.
DeletedMeansGone ==
  \A d \in gone : status[d] = "none" /\ d \notin files /\ points[d] = {}

\* A search shows no document deleted before it began, whatever the API does
\* between its queries.  And an answer that was not cut leaves out nothing that
\* matches the query in a document that was fully indexed all the while.
SearchIsConsistent ==
  search.pc = "answered" =>
    /\ search.found \cap (search.gone \X Chunks) = {}
    /\ Cardinality(search.found) < TopK =>
         search.above \cap (search.steady \X Chunks) \subseteq search.found
=============================================================================
