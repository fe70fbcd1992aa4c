---------------------------- MODULE StoreStartup ----------------------------
(***************************************************************************)
(* What initBotDataPipeline (main.go) does to the Milvus collection before *)
(* the server serves: the factory of the indexer                           *)
(* (rag/rag_tools/indexer/milvus.go) once, and the factory of the          *)
(* retriever (rag/rag_tools/retriever/milvus.go) twice, for the RAG flow   *)
(* and for the React graph of the final graph.  Each asks the embedding    *)
(* model for the dimension of its vectors, and drops a collection of       *)
(* another dimension.  A failure that main answers with log.Fatalf is the  *)
(* end of the process, which FileIndexing allows at any time.              *)
(***************************************************************************)

VARIABLES
    boot,       \* the next call: probe, check, open, rag, react; or ready
    collection  \* the collection in use: absent; stale, of a dimension that
                \* is not the model's; present; renamed, present under a name
                \* that the next start will not know

BootStages  == {"probe", "check", "open", "rag", "react", "ready"}
Collections == {"absent", "stale", "present", "renamed"}
Usable      == collection \in {"present", "renamed"}

StartupInit == boot = "probe" /\ collection = "absent"

Drop(stage) == boot' = stage /\ collection' = "absent"
Keep(stage) == boot' = stage /\ collection' = collection

-----------------------------------------------------------------------------
(* Each of the operators below is one call: lost says whether the chunks   *)
(* the collection held are out of reach after it.                          *)

(* The indexer: getEmbeddingDim, without which there is no start.          *)
Probe(lost) == boot = "probe" /\ ~lost /\ Keep("check")

(* Its checkAndDropIfDimMismatch, whose errors are logged.                 *)
CheckIndexer(lost) ==
    /\ boot = "check"
    /\ \/ ~lost /\ Keep("open")
       \/ lost /\ collection = "stale" /\ Drop("open")

(* milvus.NewIndexer creates a missing collection.  One whose fields do    *)
(* not match is dropped and made again, under another name when it does    *)
(* not go away; one that differs in its dimension only may pass.           *)
OpenIndexer(lost) ==
    /\ boot = "open"
    /\ boot' = "rag"
    /\ \/ ~lost /\ collection = "absent" /\ collection' = "present"
       \/ ~lost /\ collection # "absent" /\ collection' = collection
       \/ lost /\ collection = "stale" /\ collection' \in {"present", "renamed"}

(* The retriever: getEmbeddingDim gives 0 when the embedding model cannot  *)
(* be asked, and checkAndDropIfDimMismatch compares with it all the same.  *)
(* Without a collection the retriever is one that finds nothing.           *)
OpenRetriever(lost) ==
    /\ boot \in {"rag", "react"}
    /\ LET next == IF boot = "rag" THEN "react" ELSE "ready" IN
         \/ ~lost /\ Keep(next)
         \/ lost /\ collection # "absent" /\ Drop(next)

StartupStep(lost) ==
    Probe(lost) \/ CheckIndexer(lost) \/ OpenIndexer(lost) \/ OpenRetriever(lost)

(* The next start reads the configuration again: the embedding model may   *)
(* be another one, and the other name of a collection is forgotten.        *)
StartAgain(lost) ==
    /\ boot' = "probe"
    /\ lost = (collection = "renamed")
    /\ collection' \in CASE collection = "absent"  -> {"absent"}
                         [] collection = "renamed" -> {"absent", "stale"}
                         [] OTHER                  -> {"present", "stale"}
=============================================================================
