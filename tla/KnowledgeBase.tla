---------------------------- MODULE KnowledgeBase ----------------------------
(***************************************************************************)
(* What the knowledge base holds and finds: chunks of files written to     *)
(* Elasticsearch and Milvus under the ids of the splitter                  *)
(* (tool/document/splitter.go, rag/rag_flow/parse.go,                      *)
(* rag/rag_tools/indexer), the retrievers made at start-up                 *)
(* (rag/rag_tools/retriever, StoreStartup), and the retriever graph, which *)
(* searches both stores side by side and fuses the two lists               *)
(* (rag/rag_flow/retriever.go, algorithm/rrf.go).                          *)
(* Who runs the indexing graph, and what becomes of the rows of the files, *)
(* is in FileIndexing and OneBotGateway.                                   *)
(***************************************************************************)
EXTENDS Naturals, SequencesExt, FiniteSets, StoreStartup

CONSTANTS
    Files,        \* files given to the indexing graph
    Length,       \* into how many chunks the splitter cuts each of them
    Queries,      \* runs of the retriever graph
    TopK,         \* MilvusConf.TopK, the default of which is 5
    MaxRestarts,  \* bound of the model on restarts of the process
    None          \* no file

ASSUME KnowledgeAssumption ==
    /\ Length \in [Files -> Nat \ {0}]
    /\ TopK \in Nat \ {0} /\ MaxRestarts \in Nat
    /\ None \notin Files

Graphs == {"rag", "react"}   \* the two that have a retriever graph in them
Stores == {"milvus", "es"}
Ids    == {i - 1 : i \in UNION {1..Length[f] : f \in Files}}

(* The parse node hands the content on in documents without the id that    *)
(* the loader gave (UseNameAsID), so the splitter names chunk i of every   *)
(* file doc_chunk_i: here the id is i.                                     *)
ChunksOf(f) == {[id |-> i - 1, file |-> f] : i \in 1..Length[f]}
Chunks      == UNION {ChunksOf(f) : f \in Files}

VARIABLES
    restarts,  \* how often the process was started again
    seeker,    \* the Milvus retriever of each graph: none, empty or live
    es,        \* the file whose chunk Elasticsearch holds under each id
    milvus,    \* the chunks in the collection
    index,     \* the run of the indexing graph on each file
    written,   \* how many chunks of it the Elasticsearch indexer has written
    dropped,   \* history: files whose chunks in Milvus a start-up dropped
    query      \* the queries: control state, graph, lists found, result

process == <<restarts, boot, collection, seeker, dropped>>
vars    == <<process, es, milvus, index, written, query>>

NoRun   == [s \in Stores |-> "none"]
NoQuery == [at |-> "new", graph |-> "rag", ended |-> {}, found |-> [s \in Stores |-> <<>>],
            result |-> <<>>]

Hits == {list \in UNION {[1..n -> Chunks] : n \in 0..TopK} :
            \A i, j \in DOMAIN list : list[i].id = list[j].id => i = j}

(* What the variables hold: no list of results is longer than TopK or has  *)
(* an id twice.                                                            *)
TypeOK ==
    /\ restarts \in 0..MaxRestarts
    /\ boot \in BootStages /\ collection \in Collections
    /\ seeker \in [Graphs -> {"none", "empty", "live"}]
    /\ es \in [Ids -> Files \cup {None}]
    /\ milvus \subseteq Chunks
    /\ index \in [Files -> [at : {"new", "running", "indexed", "failed"},
                            branch : [Stores -> {"none", "running", "ok", "failed"}]]]
    /\ written \in [Files -> Nat] /\ \A f \in Files : written[f] <= Length[f]
    /\ dropped \subseteq Files
    /\ query \in [Queries -> [at : {"new", "search", "answered", "failed"}, graph : Graphs,
                              ended : SUBSET Stores, found : [Stores -> Hits], result : Hits]]

Init ==
    /\ StartupInit
    /\ restarts = 0 /\ dropped = {}
    /\ seeker = [g \in Graphs |-> "none"]
    /\ es = [i \in Ids |-> None]
    /\ milvus = {}
    /\ index = [f \in Files |-> [at |-> "new", branch |-> NoRun]]
    /\ written = [f \in Files |-> 0]
    /\ query = [q \in Queries |-> NoQuery]

(* The constant of reciprocal rank fusion.                                 *)
K == 60

IndexTo(f, state)     == index' = [index EXCEPT ![f].at = state]
BranchTo(f, s, state) == index' = [index EXCEPT ![f].branch[s] = state]

-----------------------------------------------------------------------------
(* Plausible slips in the code, for the properties to catch; no            *)
(* specification below uses them.                                          *)

(* The results are not cut.                                                *)
CutToNothing(list, n) == list

(* An indexer that ends its branch at the first document it has written.   *)
EndEsEarly(f) ==
    /\ index[f].branch["es"] = "running" /\ written[f] > 0
    /\ BranchTo(f, "es", "ok")
    /\ UNCHANGED <<process, es, milvus, written, query>>

(* The retriever without a collection answers with an error.               *)
SearchMilvusUnguarded(q) ==
    /\ query[q].at = "search" /\ "milvus" \notin query[q].ended
    /\ \/ /\ seeker[query[q].graph] = "live" /\ Usable
          /\ \E list \in Hits :
               /\ ToSet(list) \subseteq milvus
               /\ query' = [query EXCEPT ![q].ended = @ \cup {"milvus"},
                                         ![q].found["milvus"] = list]
       \/ query' = [query EXCEPT ![q].at = "failed"]
    /\ UNCHANGED <<process, es, milvus, index, written>>

-----------------------------------------------------------------------------
(* The Reranker.  A score is a fraction <<numerator, denominator>>.        *)

Plus(a, b)   == <<a[1] * b[2] + b[1] * a[2], a[2] * b[2]>>
AtLeast(a, b) == a[1] * b[2] >= b[1] * a[2]

In(list, i)     == \E n \in DOMAIN list : list[n].id = i
RankIn(list, i) == CHOOSE n \in DOMAIN list : list[n].id = i

(* What a list adds to the score of an id, which it has once; the rank of  *)
(* the code counts from 0.                                                 *)
Share(list, i) == IF In(list, i) THEN <<1, K + RankIn(list, i)>> ELSE <<0, 1>>

(* docScores[id] = score: the rank of the list read last counts.  Another  *)
(* plausible slip.                                                         *)
ScoreOfLast(lists, i) == Share(lists[IF In(lists["es"], i) THEN "es" ELSE "milvus"], i)

Score(lists, i) == Plus(Share(lists["milvus"], i), Share(lists["es"], i))

(* Of the objects found under an id, which are of different files when     *)
(* these share the id, the one with the higher score of its store is kept. *)
Kept(lists) ==
    LET hits == ToSet(lists["milvus"]) \cup ToSet(lists["es"])
    IN  {kept \in SUBSET hits :
            \A i \in {h.id : h \in hits} : Cardinality({h \in kept : h.id = i}) = 1}

(* sort.Slice is not stable, and the results come from a map: equal scores *)
(* end up in any order.                                                    *)
Sorted(lists, kept) ==
    {list \in SetToSeqs(kept) :
        \A i, j \in DOMAIN list : i < j =>
            AtLeast(Score(lists, list[i].id), Score(lists, list[j].id))}

CutTo(list, n) == IF Len(list) > n THEN SubSeq(list, 1, n) ELSE list

Fusions(lists) == {CutTo(list, TopK) : list \in UNION {Sorted(lists, k) : k \in Kept(lists)}}

-----------------------------------------------------------------------------
(* Start-up: the factories of the indexer and of the two retrievers.  A    *)
(* retriever made without a collection, or when LoadCollection fails, is   *)
(* one that finds nothing, and stays so for the life of the process.       *)
Boot ==
    /\ boot # "ready"
    /\ \E lost \in BOOLEAN :
         /\ StartupStep(lost)
         /\ milvus' = IF lost THEN {} ELSE milvus
         /\ dropped' = IF lost THEN dropped \cup {chunk.file : chunk \in milvus} ELSE dropped
    /\ IF boot \in Graphs
         THEN \E made \in {"empty", "live"} :
                /\ made = "live" => collection' # "absent"
                /\ seeker' = [seeker EXCEPT ![boot] = made]
         ELSE seeker' = seeker
    /\ UNCHANGED <<restarts, es, index, written, query>>

(* The process ends at any time, with its runs and queries, and is started *)
(* again.                                                                  *)
Restart ==
    /\ restarts < MaxRestarts
    /\ restarts' = restarts + 1
    /\ \E lost \in BOOLEAN :
         /\ StartAgain(lost)
         /\ milvus' = IF lost THEN {} ELSE milvus
         /\ dropped' = IF lost THEN dropped \cup {chunk.file : chunk \in milvus} ELSE dropped
    /\ seeker' = [g \in Graphs |-> "none"]
    /\ index' = [f \in Files |->
                   IF index[f].at = "new" THEN index[f]
                   ELSE [at |-> IF index[f].at = "running" THEN "failed" ELSE index[f].at,
                         branch |-> NoRun]]
    /\ query' = [q \in Queries |-> NoQuery]
    /\ UNCHANGED <<es, written>>

-----------------------------------------------------------------------------
(* The indexing graph, from the splitter on.                               *)

StartIndexing(f) ==
    /\ boot = "ready" /\ index[f].at = "new"
    /\ index' = [index EXCEPT ![f] = [at |-> "running", branch |-> [s \in Stores |-> "running"]]]
    /\ UNCHANGED <<process, es, milvus, written, query>>

(* The Elasticsearch indexer writes document by document, each under its   *)
(* id: what was there before is replaced.                                  *)
WriteEs(f) ==
    /\ index[f].branch["es"] = "running" /\ written[f] < Length[f]
    /\ es' = [es EXCEPT ![written[f]] = f]
    /\ written' = [written EXCEPT ![f] = @ + 1]
    /\ UNCHANGED <<process, milvus, index, query>>

EndEs(f) ==
    /\ index[f].branch["es"] = "running"
    /\ \/ written[f] = Length[f] /\ BranchTo(f, "es", "ok")
       \/ BranchTo(f, "es", "failed")
    /\ UNCHANGED <<process, es, milvus, written, query>>

(* The Milvus indexer inserts all rows in one call; entities of another    *)
(* file under the same id stay beside them.                                *)
InsertMilvus(f) ==
    /\ index[f].branch["milvus"] = "running"
    /\ \/ /\ Usable /\ milvus' = milvus \cup ChunksOf(f)
          /\ BranchTo(f, "milvus", "ok")
       \/ milvus' = milvus /\ BranchTo(f, "milvus", "failed")
    /\ UNCHANGED <<process, es, written, query>>

(* Merge waits for both, and the first error ends the run; a branch that   *)
(* is not done then goes on by itself.                                     *)
InvokeReturns(f) ==
    /\ index[f].at = "running"
    /\ \/ (\A s \in Stores : index[f].branch[s] = "ok") /\ IndexTo(f, "indexed")
       \/ (\E s \in Stores : index[f].branch[s] = "failed") /\ IndexTo(f, "failed")
    /\ UNCHANGED <<process, es, milvus, written, query>>

-----------------------------------------------------------------------------
(* The retriever graph.                                                    *)

(* Trans_String: the last message is the query.  Its look into the cache   *)
(* always misses: nothing stores a result, because no context has "query". *)
StartQuery(q) ==
    /\ boot = "ready" /\ query[q].at = "new"
    /\ \E g \in Graphs :
         query' = [query EXCEPT ![q].at = "search", ![q].graph = g]
    /\ UNCHANGED <<process, es, milvus, index, written>>

Found(q, s, list) ==
    query' = [query EXCEPT ![q].ended = @ \cup {s}, ![q].found[s] = list]

(* Of its TopK nearest entities Milvus names an id once; what was inserted *)
(* last may not be visible yet.                                            *)
SearchMilvus(q) ==
    /\ query[q].at = "search" /\ "milvus" \notin query[q].ended
    /\ IF seeker[query[q].graph] = "empty"
         THEN Found(q, "milvus", <<>>)
         ELSE \/ /\ Usable
                 /\ \E list \in Hits : ToSet(list) \subseteq milvus /\ Found(q, "milvus", list)
              \/ query' = [query EXCEPT ![q].at = "failed"]
    /\ UNCHANGED <<process, es, milvus, index, written>>

SearchEs(q) ==
    /\ query[q].at = "search" /\ "es" \notin query[q].ended
    /\ \/ \E list \in Hits :
            /\ \A i \in DOMAIN list : es[list[i].id] = list[i].file
            /\ Found(q, "es", list)
       \/ query' = [query EXCEPT ![q].at = "failed"]
    /\ UNCHANGED <<process, es, milvus, index, written>>

Rerank(q) ==
    /\ query[q].at = "search" /\ query[q].ended = Stores
    /\ \E list \in Fusions(query[q].found) :
         query' = [query EXCEPT ![q].at = "answered", ![q].result = list]
    /\ UNCHANGED <<process, es, milvus, index, written>>

Finished ==
    /\ restarts = MaxRestarts /\ boot = "ready"
    /\ \A q \in Queries : query[q].at \in {"answered", "failed"}
    /\ UNCHANGED vars

Next ==
    \/ Boot \/ Restart \/ Finished
    \/ \E f \in Files :
         \/ StartIndexing(f) \/ WriteEs(f) \/ EndEs(f) \/ InsertMilvus(f) \/ InvokeReturns(f)
    \/ \E q \in Queries : StartQuery(q) \/ SearchMilvus(q) \/ SearchEs(q) \/ Rerank(q)

Spec == Init /\ [][Next]_vars

-----------------------------------------------------------------------------
(* Properties.                                                             *)

(* No chunk of an indexed file goes missing from Elasticsearch but for one *)
(* of another file, which has a chunk of that number too; in Milvus it     *)
(* stays until a start-up drops the collection.                            *)
IndexedOrReplaced ==
    \A f \in Files : index[f].at = "indexed" =>
        /\ \A chunk \in ChunksOf(f) :
             /\ es[chunk.id] # None
             /\ es[chunk.id] # f => written[es[chunk.id]] > chunk.id
        /\ f \in dropped \/ ChunksOf(f) \subseteq milvus

(* What reciprocal rank fusion is for: i comes before j when it was found  *)
(* by both searches and j by one, or when every search that found j had    *)
(* found i before it.                                                      *)
Outranks(lists, i, j) ==
    \/ /\ \A s \in Stores : In(lists[s], i)
       /\ \E s \in Stores : ~In(lists[s], j)
    \/ \A s \in Stores : In(lists[s], j) =>
          In(lists[s], i) /\ RankIn(lists[s], i) < RankIn(lists[s], j)

(* The answer to a query respects that order, cut as it is: of what was    *)
(* found nothing is placed, or left out, behind what it outranks.          *)
FusionRanks ==
    \A q \in Queries : query[q].at = "answered" =>
        LET lists == query[q].found
            ids   == {query[q].result[n].id : n \in DOMAIN query[q].result}
            all   == {h.id : h \in UNION {ToSet(lists[s]) : s \in Stores}}
        IN  /\ Cardinality(ids) = IF Cardinality(all) > TopK THEN TopK ELSE Cardinality(all)
            /\ \A i \in all, j \in ids : i # j /\ Outranks(lists, i, j) =>
                 i \in ids /\ RankIn(query[q].result, i) < RankIn(query[q].result, j)

(* A process whose retriever was made without a collection still answers   *)
(* from Elasticsearch, in its order, also about files indexed since.       *)
AnswersWithoutMilvus ==
    \A q \in Queries : seeker[query[q].graph] = "empty" =>
        /\ query[q].at = "failed" => "es" \notin query[q].ended
        /\ query[q].at = "answered" => query[q].result = query[q].found["es"]

(* tool/document/splitter.go:23 says that every chunk gets an id of its    *)
(* own: an indexed file is then whole in Elasticsearch.                    *)
IndexedIsWhole ==
    \A f \in Files : index[f].at = "indexed" =>
        \A chunk \in ChunksOf(f) : es[chunk.id] = f

-----------------------------------------------------------------------------
(* The inductive invariant of KnowledgeBaseProofs.                         *)

InMilvus(f) == f \in dropped \/ ChunksOf(f) \subseteq milvus

(* An id of Elasticsearch is taken from the first file that writes it on,  *)
(* by a file that has got that far; a branch that ended well wrote it all. *)
IndexInv ==
    /\ \A i \in Ids : es[i] # None => i < written[es[i]]
    /\ \A f \in Files :
         /\ \A i \in Ids : i < written[f] => es[i] # None
         /\ index[f].branch["es"] = "ok" \/ index[f].at = "indexed" => written[f] = Length[f]
         /\ index[f].branch["milvus"] = "ok" \/ index[f].at = "indexed" => InMilvus(f)

(* A query runs on the retrievers of the process that it began in.         *)
QueryInv ==
    \A q \in Queries :
        /\ query[q].at # "new" => boot = "ready"
        /\ query[q].at = "new" => query[q] = NoQuery
        /\ seeker[query[q].graph] = "empty" =>
             /\ query[q].at = "failed" => "es" \notin query[q].ended
             /\ "milvus" \in query[q].ended => query[q].found["milvus"] = <<>>
        /\ query[q].at = "answered" =>
             query[q].ended = Stores /\ query[q].result \in Fusions(query[q].found)
=============================================================================
