------------------------------- MODULE Retrieval -------------------------------
(***************************************************************************)
(* RAGEngine.search over the vector store the vault fills: a TTL cache of  *)
(* answers, the two halves of the hybrid retriever, compression to what is *)
(* left of the context budget, and the charges to the budget governor the  *)
(* callers share.  The cache has no lock: what get and set do to it is     *)
(* modelled access by access, with other callers in between.               *)
(*                                                                         *)
(* A question is about one document (source_file_id), a retrieved chunk    *)
(* costs one context token, top_k and the candidate pool are as large as   *)
(* a document.  Scores and the order of an answer are abstracted.          *)
(***************************************************************************)
EXTENDS KnowledgeVault, Sequences, SequencesExt, FiniteSetsExt

CONSTANTS Callers,          \* threads that ask the one engine
          CacheSize, Ttl,   \* of the TTLCache
          MaxRetrievals, MaxContext,   \* the governor's limits
          MaxLookups, MaxTime          \* bounds on questions and clock

\* TTLCache refuses a size or a TTL that is not positive.
ASSUME EngineAssumption ==
  /\ CacheSize \in Nat \ {0} /\ Ttl \in Nat \ {0}
  /\ {MaxRetrievals, MaxContext, MaxLookups, MaxTime} \subseteq Nat
  /\ IsFiniteSet(Callers) /\ IsFiniteSet(Chunks)

VARIABLES cache,    \* sequence of entries, least recently used first
          now,      \* the cache's clock
          ask,      \* caller -> its search
          usage,    \* the governor's retrieval_calls and context_tokens
          lookups,  \* questions asked so far
          read,     \* history: retrievals that did not fail
          given,    \* history: tokens of the answers returned
          wasted,   \* history: tokens of answers that were charged and lost
          scenario  \* bound: either the vault meets faults and a workflow's
                    \* search, or the engine is asked and the same content is
                    \* added again and again, one document at a time

accounts == <<usage, read, given, wasted>>
engineVars == <<cache, now, ask, accounts, lookups, scenario>>
vars == <<vaultVars, engineVars>>

NotAsking == [pc |-> "idle", key |-> 1, shown |-> {}, halves |-> {}, age |-> 0, late |-> FALSE]

\* halves: reads of the hybrid retriever still to do.  History: age of the entry
\* when it was found, and whether the document was gone when the engine missed.
Asks ==
  [pc : {"idle", "touch", "drop", "missed", "reserve", "retrieve", "fit", "charge",
         "assign", "order", "measure", "evict", "hit", "answered"},
   key : Ids, shown : SUBSET Chunks, halves : SUBSET {"dense", "lexical"},
   age : 0 .. MaxTime, late : BOOLEAN]

Entries == [key : Ids, shown : SUBSET Chunks, expires : 0 .. MaxTime + Ttl, at : 0 .. MaxTime]

\* Callers in TTLCache.set, past the assignment.
Setting == {c \in Callers : ask[c].pc \in {"order", "measure", "evict"}}

\* The cache is as large as it may be and an entry more for every caller who has
\* put one in and has not yet made room for it.
TypeOK ==
  /\ VaultTypeOK
  /\ cache \in Seq(Entries) /\ Len(cache) <= CacheSize + Cardinality(Setting)
  /\ now \in 0 .. MaxTime
  /\ ask \in [Callers -> Asks]
  /\ usage \in [calls : 0 .. MaxRetrievals, context : 0 .. MaxContext]
  /\ lookups \in 0 .. MaxLookups
  /\ read \in 0 .. MaxRetrievals
  /\ given \in Nat /\ wasted \in Nat

Init ==
  /\ VaultInit
  /\ scenario \in {"faults", "questions"}
  /\ cache = <<>>
  /\ now = 0
  /\ ask = [c \in Callers |-> NotAsking]
  /\ usage = [calls |-> 0, context |-> 0]
  /\ lookups = 0
  /\ read = 0
  /\ given = 0
  /\ wasted = 0

-----------------------------------------------------------------------------
Step(c, pc) == ask' = [ask EXCEPT ![c].pc = pc]
Raise(c) == ask' = [ask EXCEPT ![c] = NotAsking]

\* The cache has one entry of a key at most.
Without(k) == RemoveFirstMatch(cache, LAMBDA e : e.key = k)
Cached(k) == {e \in ToSet(cache) : e.key = k}

Asking(k, pc) == [NotAsking EXCEPT !.pc = pc, !.key = k, !.late = k \in gone]

\* TTLCache.get takes no lock: what it finds is what it goes by, and the cache
\* may change before it touches the entry or drops it.
Lookup(c, k) ==
  /\ ask[c].pc = "idle" /\ lookups < MaxLookups /\ scenario = "questions"
  /\ lookups' = lookups + 1
  /\ \/ Cached(k) = {} /\ ask' = [ask EXCEPT ![c] = Asking(k, "missed")]
     \/ \E e \in Cached(k) :
          \/ e.expires <= now /\ ask' = [ask EXCEPT ![c] = Asking(k, "drop")]
          \/ /\ e.expires > now
             /\ ask' = [ask EXCEPT ![c] = [NotAsking EXCEPT
                  !.pc = "touch", !.key = k, !.shown = e.shown, !.age = now - e.at]]
  /\ UNCHANGED <<vaultVars, cache, now, accounts, scenario>>

\* Mutant: a hit renews the entry.
TouchRenewing(c) ==
  /\ ask[c].pc = "touch"
  /\ \/ \E e \in Cached(ask[c].key) :
          /\ cache' = Append(Without(ask[c].key), [e EXCEPT !.expires = now + Ttl])
          /\ Step(c, "hit")
     \/ Cached(ask[c].key) = {} /\ Raise(c) /\ UNCHANGED cache
  /\ UNCHANGED <<vaultVars, now, accounts, lookups, scenario>>

\* move_to_end: the entry is the most recently used from now on and keeps its
\* expiry; if it was evicted or dropped meanwhile, a KeyError.
Touch(c) ==
  /\ ask[c].pc = "touch"
  /\ \/ \E e \in Cached(ask[c].key) :
          cache' = Append(Without(ask[c].key), e) /\ Step(c, "hit")
     \/ Cached(ask[c].key) = {} /\ Raise(c) /\ UNCHANGED cache
  /\ UNCHANGED <<vaultVars, now, accounts, lookups, scenario>>

\* pop: an entry somebody has renewed meanwhile goes as well.
Drop(c) ==
  /\ ask[c].pc = "drop"
  /\ cache' = Without(ask[c].key)
  /\ Step(c, "missed")
  /\ UNCHANGED <<vaultVars, now, accounts, lookups, scenario>>

\* An exhausted context budget refuses the search before it costs a retrieval.
LookAtContext(c) ==
  /\ ask[c].pc = "missed"
  /\ IF usage.context < MaxContext THEN Step(c, "reserve") ELSE Raise(c)
  /\ UNCHANGED <<vaultVars, cache, now, accounts, lookups, scenario>>

ReserveRetrieval(c) ==
  /\ ask[c].pc = "reserve"
  /\ \/ /\ usage.calls < MaxRetrievals
        /\ usage' = [usage EXCEPT !.calls = @ + 1]
        /\ ask' = [ask EXCEPT ![c].pc = "retrieve", ![c].halves = {"dense", "lexical"}]
     \/ usage.calls >= MaxRetrievals /\ Raise(c) /\ UNCHANGED usage
  /\ UNCHANGED <<vaultVars, cache, now, read, given, wasted, lookups, scenario>>

\* HybridRetriever.search runs its two halves in two threads and merges them:
\* the vectors closest to the question, all of a small document, and
\* those of its records that share a word with it, here all or none.
Retrieve(c, half) ==
  /\ ask[c].pc = "retrieve" /\ half \in ask[c].halves
  /\ \E found \in {{}, points[ask[c].key]} :
       /\ half = "dense" => found = points[ask[c].key]
       /\ ask' = [ask EXCEPT ![c].shown = @ \cup found, ![c].halves = @ \ {half},
                             ![c].pc = IF ask[c].halves = {half} THEN "fit" ELSE "retrieve"]
  /\ read' = IF ask[c].halves = {half} THEN read + 1 ELSE read
  /\ UNCHANGED <<vaultVars, cache, now, usage, given, wasted, lookups, scenario>>

\* Mutant: the reservation of a retriever that raises stays counted.
RetrieveFailsCounted(c) ==
  /\ ask[c].pc = "retrieve" /\ Raise(c)
  /\ UNCHANGED <<vaultVars, cache, now, accounts, lookups, scenario>>

\* A retriever that raises gives the reservation back.
RetrieveFails(c) ==
  /\ ask[c].pc = "retrieve"
  /\ usage' = [usage EXCEPT !.calls = @ - 1]
  /\ Raise(c)
  /\ UNCHANGED <<vaultVars, cache, now, read, given, wasted, lookups, scenario>>

\* ContextCompressor.compress: no more items than there are tokens left; with
\* nothing left it returns everything as it is.
Compressed(shown, limit) ==
  IF limit <= 0 THEN {shown}
  ELSE {s \in SUBSET shown :
          Cardinality(s) = IF Cardinality(shown) <= limit THEN Cardinality(shown) ELSE limit}

Fit(c) ==
  /\ ask[c].pc = "fit"
  /\ \E s \in Compressed(ask[c].shown, MaxContext - usage.context) :
       ask' = [ask EXCEPT ![c].pc = "charge", ![c].shown = s]
  /\ UNCHANGED <<vaultVars, cache, now, accounts, lookups, scenario>>

\* reserve_context_tokens, for a fresh answer or a cached one.  Another caller
\* may have spent what the answer was compressed to: then the search raises and
\* the retrieval stays counted.
Charge(c, then) ==
  \/ /\ usage.context + Cardinality(ask[c].shown) <= MaxContext
     /\ usage' = [usage EXCEPT !.context = @ + Cardinality(ask[c].shown)]
     /\ Step(c, then)
  \/ /\ usage.context + Cardinality(ask[c].shown) > MaxContext
     /\ Raise(c) /\ UNCHANGED usage

ChargeFresh(c) ==
  /\ ask[c].pc = "charge" /\ Charge(c, "assign")
  /\ UNCHANGED <<vaultVars, cache, now, read, given, wasted, lookups, scenario>>

\* Mutant: a hit is free.
HitIsFree(c) ==
  /\ ask[c].pc = "hit" /\ Step(c, "answered")
  /\ UNCHANGED <<vaultVars, cache, now, accounts, lookups, scenario>>

ChargeHit(c) ==
  /\ ask[c].pc = "hit" /\ Charge(c, "answered")
  /\ UNCHANGED <<vaultVars, cache, now, read, given, wasted, lookups, scenario>>

\* TTLCache.set, without a lock.  First the assignment: a new key goes to the
\* end, one that is there keeps its place.  (The clock is read just before; a
\* tick in between makes the entry expire earlier than here.)
Assign(c) ==
  /\ ask[c].pc = "assign"
  /\ LET k == ask[c].key
         entry == [key |-> k, shown |-> ask[c].shown, expires |-> now + Ttl, at |-> now]
     IN cache' = IF Cached(k) = {} THEN Append(cache, entry)
                 ELSE [i \in DOMAIN cache |-> IF cache[i].key = k THEN entry ELSE cache[i]]
  /\ Step(c, "order")
  /\ UNCHANGED <<vaultVars, now, accounts, lookups, scenario>>

\* set raises: the answer has been charged and nobody gets it.
Lose(c) ==
  /\ wasted' = wasted + Cardinality(ask[c].shown)
  /\ Raise(c)
  /\ UNCHANGED cache

\* move_to_end: a KeyError if another caller has evicted or dropped the key.
Order(c) ==
  /\ ask[c].pc = "order"
  /\ \/ \E e \in Cached(ask[c].key) :
          cache' = Append(Without(ask[c].key), e) /\ Step(c, "measure") /\ UNCHANGED wasted
     \/ Cached(ask[c].key) = {} /\ Lose(c)
  /\ UNCHANGED <<vaultVars, now, usage, read, given, lookups, scenario>>

\* Mutant: the size is not looked at.
MeasureNothing(c) ==
  /\ ask[c].pc = "measure" /\ Step(c, "answered")
  /\ UNCHANGED <<vaultVars, cache, now, accounts, lookups, scenario>>

Measure(c) ==
  /\ ask[c].pc = "measure"
  /\ Step(c, IF Len(cache) > CacheSize THEN "evict" ELSE "answered")
  /\ UNCHANGED <<vaultVars, cache, now, accounts, lookups, scenario>>

\* popitem: whatever is the least recently used by now, a KeyError if there is
\* nothing left; then the size is measured again.
Evict(c) ==
  /\ ask[c].pc = "evict"
  /\ \/ /\ cache # <<>>
        /\ cache' = Tail(cache) /\ Step(c, "measure") /\ UNCHANGED wasted
     \/ cache = <<>> /\ Lose(c)
  /\ UNCHANGED <<vaultVars, now, usage, read, given, lookups, scenario>>

Take(c) ==
  /\ ask[c].pc = "answered"
  /\ given' = given + Cardinality(ask[c].shown)
  /\ Raise(c)
  /\ UNCHANGED <<vaultVars, cache, now, usage, read, wasted, lookups, scenario>>

Tick ==
  /\ now < MaxTime /\ scenario = "questions"
  /\ now' = now + 1
  /\ UNCHANGED <<vaultVars, cache, ask, accounts, lookups, scenario>>

EngineStep(c) ==
  \/ (\E k \in Ids : Lookup(c, k)) \/ Touch(c) \/ Drop(c)
  \/ LookAtContext(c) \/ ReserveRetrieval(c)
  \/ \E half \in {"dense", "lexical"} : Retrieve(c, half)
  \/ RetrieveFails(c) \/ Fit(c) \/ ChargeFresh(c) \/ ChargeHit(c)
  \/ Assign(c) \/ Order(c) \/ Measure(c) \/ Evict(c) \/ Take(c)

Next ==
  \/ /\ VaultNext /\ UNCHANGED engineVars
     /\ scenario = "questions" =>
          /\ faults' = 0 /\ search' = NoSearch
          /\ Cardinality(Rows') <= 1 /\ Cardinality({content'[d] : d \in Drawn'}) <= 1
  \/ \E c \in Callers : EngineStep(c)
  \/ Tick

Spec == Init /\ [][Next]_vars

-----------------------------------------------------------------------------
\* The tokens charged for the answer a caller is about to get.
Paid ==
  [c \in Callers |->
     IF ask[c].pc \in {"assign", "order", "measure", "evict", "answered"}
     THEN Cardinality(ask[c].shown) ELSE 0]

Retrieving == {c \in Callers : ask[c].pc = "retrieve"}

\* The budget is charged for a retrieval under way or done, and for none that
\* failed; for the tokens of every answer returned, from the cache too, and
\* beyond them only for answers set() lost to a race over the cache.  No race
\* between reading what is left and charging it overdraws a limit.
SpendingIsExact ==
  /\ usage.calls = read + Cardinality(Retrieving) /\ usage.calls <= MaxRetrievals
  /\ usage.context = given + wasted + SumFunctionOnSet(Paid, Callers)
  /\ usage.context <= MaxContext

\* The cache is not told of deletions.  A caller that asks when a document is
\* gone gets nothing of it unless the answer went into the cache less than the
\* TTL before it was looked up: asking again does not keep it alive.
AnswersAreRecent ==
  \A c \in Callers : ask[c].pc = "answered" =>
    ask[c].age < Ttl /\ (ask[c].late => ask[c].shown = {})
=============================================================================
