------------------------------ MODULE Ingestion -------------------------------
(***************************************************************************)
(* One knowledge base: its documents in three stores that share no         *)
(* transaction (rows in PostgreSQL, files in the object store, vectors in  *)
(* Milvus), and the ingestRuns that index them.                            *)
(*                                                                         *)
(*   routes/kb                 upload, ingest, list, delete, the sweep     *)
(*   rag/ingestion/pipeline    process_document, run_ingestion_task        *)
(*   rag/storage               object_store, milvus                        *)
(*   rag/security/file_upload  which files are taken                       *)
(*                                                                         *)
(* Locks of PostgreSQL that matter: an uncommitted chunk row holds its     *)
(* document row against deletion, and its key against another insert.      *)
(***************************************************************************)
EXTENDS Integers, Sequences, FiniteSets

CONSTANTS
  Docs,       \* uploads, each with the id it would get
  ContentOf,  \* the hash of each one's content
  FileOf,     \* what the checks tell apart of each one
  Indexers,   \* workers
  MaxRuns,    \* BOUND: ingestion tasks ever created
  MaxFaults   \* BOUND: commits that fail and workers that die

\* A type is named by its extension; starts is the type the first bytes show, and
\* excess what of a PDF is beyond its bound.
FileTypes == {"txt", "pdf", "docx"}
UploadedFiles ==
  [size : {"empty", "fits", "too large"}, named : BOOLEAN,
   ext : FileTypes \cup {"other"}, mime : FileTypes \cup {"octets", "none", "other"},
   starts : FileTypes \cup {"other zip", "other", "unclear"},
   excess : SUBSET {"pages", "objects", "object streams", "streams"}]

ASSUME IngestionAssumption ==
  /\ DOMAIN ContentOf = Docs /\ FileOf \in [Docs -> UploadedFiles]
  /\ MaxRuns \in Nat \ {0} /\ MaxFaults \in Nat

VARIABLES
  kb,          \* the knowledge base: "open", "listed" by its deletion, "gone"
  listed,      \* the documents whose files that deletion will remove
  doc,         \* documents.status, "absent", or "deleted"
  object,      \* files in the object store
  chunks,      \* documents with committed rows in document_chunks
  vectors,     \* documents with vectors in Milvus
  hand,        \* where the upload or the deletion of a document stands
  ingestRuns,  \* async_tasks of type document_ingestion, in order
  indexer,     \* where each worker stands
  faults       \* history, bounded

ingestVars == <<kb, listed, doc, object, chunks, vectors, hand, ingestRuns, indexer, faults>>

DocStatus == {"absent", "uploaded", "parsing", "indexed", "error", "deleted"}
Hands == {"none", "insert", "object", "vectors", "left", "done"}
Rows == {d \in Docs : doc[d] \notin {"absent", "deleted"}}
IndexerRests == [at |-> "rest"]

IngestInit ==
  /\ kb = "open" /\ listed = {} /\ doc = [d \in Docs |-> "absent"] /\ object = {} /\ chunks = {} /\ vectors = {}
  /\ hand = [d \in Docs |-> "none"] /\ ingestRuns = <<>>
  /\ indexer = [w \in Indexers |-> IndexerRests] /\ faults = 0

(***************************************************************************)
(* Upload and deletion.                                                    *)
(***************************************************************************)

\* validate_extension and validate_mime.
DeclaredType(f) == f.ext \in FileTypes /\ f.mime \in {f.ext, "octets", "none"}

\* validate_content_type, of what detect_content_mime sniffed; it calls every archive a zip.
SniffedType(f) ==
  f.starts \in {f.ext, "unclear"} \/ (f.ext = "docx" /\ f.starts = "other zip")

\* validate_magic: a text may begin with anything that is not one of the other two.
MagicFits(f) == IF f.ext = "txt" THEN f.starts \notin {"pdf", "docx"} ELSE f.starts = f.ext

\* validate_pdf_pages and validate_pdf_bomb: counted in the bytes, before any parser runs.
PdfBounded(f) == f.ext = "pdf" => f.excess = {}

\* validate_upload, with sanitize_filename at its end.
ValidUpload(f) ==
  f.size = "fits" /\ DeclaredType(f) /\ SniffedType(f) /\ MagicFits(f) /\ PdfBounded(f) /\ f.named

Duplicate(d) == \E e \in Rows : ContentOf[e] = ContentOf[d]
Hand(d, at) == hand' = [hand EXCEPT ![d] = at]

\* upload_document up to the object store.
Upload(d) ==
  /\ kb # "gone" /\ doc[d] = "absent" /\ hand[d] = "none"
  /\ ValidUpload(FileOf[d]) /\ ~Duplicate(d)
  /\ object' = object \cup {d}
  /\ Hand(d, "insert")
  /\ UNCHANGED <<kb, listed, doc, chunks, vectors, ingestRuns, indexer, faults>>

\* The row; a conflict or an error takes the file back, if it can.
InsertRow(d) ==
  /\ hand[d] = "insert"
  /\ \/ kb # "gone" /\ ~Duplicate(d)
        /\ doc' = [doc EXCEPT ![d] = "uploaded"] /\ Hand(d, "none") /\ UNCHANGED object
     \/ Hand(d, "left") /\ object' \in {object, object \ {d}} /\ UNCHANGED doc
  /\ UNCHANGED <<kb, listed, chunks, vectors, ingestRuns, indexer, faults>>

\* Workers with uncommitted chunk rows of a document.
Holders(d) == {w \in Indexers : indexer[w].at \in {"flushed", "upserted"} /\ indexer[w].doc = d}

\* delete_document: the row and by cascade its chunks, ...
DeleteDocument(d) ==
  /\ d \in Rows /\ Holders(d) = {}
  /\ doc' = [doc EXCEPT ![d] = "deleted"] /\ chunks' = chunks \ {d}
  /\ Hand(d, "object")
  /\ UNCHANGED <<kb, listed, object, vectors, ingestRuns, indexer, faults>>

\* ... the file, ...
RemoveObject(d) ==
  /\ hand[d] = "object"
  /\ object' \in {object, object \ {d}}
  /\ Hand(d, "vectors")
  /\ UNCHANGED <<kb, listed, doc, chunks, vectors, ingestRuns, indexer, faults>>

\* ... and its vectors, unless Milvus does not answer.
RemoveVectors(d) ==
  /\ hand[d] = "vectors"
  /\ \/ vectors' = vectors \ {d} /\ Hand(d, "done")
     \/ UNCHANGED vectors /\ Hand(d, "left")
  /\ UNCHANGED <<kb, listed, doc, object, chunks, ingestRuns, indexer, faults>>

\* delete_kb lists the files it will remove, ...
ListKb ==
  /\ kb = "open" /\ kb' = "listed" /\ listed' = Rows
  /\ UNCHANGED <<doc, object, chunks, vectors, hand, ingestRuns, indexer, faults>>

\* ... then deletes every row there is by then.
DeleteKb ==
  /\ kb = "listed" /\ \A d \in Rows : Holders(d) = {}
  /\ kb' = "gone"
  /\ doc' = [d \in Docs |-> IF d \in Rows THEN "deleted" ELSE doc[d]]
  /\ hand' = [d \in Docs |-> IF d \notin Rows THEN hand[d]
                             ELSE IF d \in listed THEN "object" ELSE "vectors"]
  /\ chunks' = {} /\ listed' = {}
  /\ UNCHANGED <<object, vectors, ingestRuns, indexer, faults>>

(***************************************************************************)
(* Runs.                                                                   *)
(***************************************************************************)

\* expire_stale_tasks
Expired == [n \in DOMAIN ingestRuns |->
  IF ingestRuns[n].aged /\ ingestRuns[n].status \in {"pending", "running"}
  THEN [ingestRuns[n] EXCEPT !.status = "failed"] ELSE ingestRuns[n]]

\* What _sweep_stale_ingestion then gives back: every document that a failed
\* run lists, whichever run has claimed it since.
GivenBack == UNION {Expired[n].docs : n \in {m \in DOMAIN ingestRuns : Expired[m].status = "failed"}}
Swept == [d \in Docs |-> IF d \in GivenBack /\ doc[d] = "parsing" THEN "error" ELSE doc[d]]

\* list_documents
ListDocuments ==
  /\ kb # "gone" /\ <<Expired, Swept>> # <<ingestRuns, doc>>
  /\ ingestRuns' = Expired /\ doc' = Swept
  /\ UNCHANGED <<kb, listed, object, chunks, vectors, hand, indexer, faults>>

\* trigger_ingestion: the sweep, the claim, the run, and its message, which the
\* server may not live to send, or the broker refuse.
TriggerIngestion ==
  /\ kb # "gone" /\ Len(ingestRuns) < MaxRuns
  /\ LET claimed == {d \in Docs : Swept[d] \in {"uploaded", "error"}}
         run == [status |-> "pending", docs |-> claimed, aged |-> FALSE, queued |-> FALSE] IN
       /\ claimed # {}
       /\ \/ /\ ingestRuns' = Append(Expired, [run EXCEPT !.queued = TRUE])
             /\ doc' = [d \in Docs |-> IF d \in claimed THEN "parsing" ELSE Swept[d]]
          \/ /\ ingestRuns' = Append(Expired, run)
             /\ doc' = [d \in Docs |-> IF d \in claimed THEN "parsing" ELSE Swept[d]]
          \/ /\ ingestRuns' = Append(Expired, [run EXCEPT !.status = "failed"])
             /\ doc' = [d \in Docs |-> IF d \in claimed THEN "uploaded" ELSE Swept[d]]
  /\ UNCHANGED <<kb, listed, object, chunks, vectors, hand, indexer, faults>>

\* The age of a run that has ended is of no interest.
RunAges(n) ==
  /\ ~ingestRuns[n].aged /\ ingestRuns[n].status \in {"pending", "running"}
  /\ ingestRuns' = [ingestRuns EXCEPT ![n].aged = TRUE]
  /\ UNCHANGED <<kb, listed, doc, object, chunks, vectors, hand, indexer, faults>>

(***************************************************************************)
(* A worker: run_ingestion_task and process_document.                      *)
(***************************************************************************)

Place(w, at) == indexer' = [indexer EXCEPT ![w] = at]
Working(w, at) == Place(w, [indexer[w] EXCEPT !.at = at])

\* The run starts, whatever its status says.
TakeRun(w, n) ==
  /\ indexer[w] = IndexerRests /\ ingestRuns[n].queued
  /\ ingestRuns' = [ingestRuns EXCEPT ![n].queued = FALSE,
                          ![n].status = IF kb = "gone" THEN "failed" ELSE "running"]
  /\ Place(w, IF kb = "gone" THEN IndexerRests
              ELSE [at |-> "loop", run |-> n, todo |-> ingestRuns[n].docs, doc |-> "none",
                    ok |-> FALSE, bad |-> FALSE])
  /\ UNCHANGED <<kb, listed, doc, object, chunks, vectors, hand, faults>>

\* The next document, if it is still claimed.
NextDocument(w, d) ==
  /\ indexer[w].at = "loop" /\ d \in indexer[w].todo
  /\ Place(w, IF doc[d] = "parsing"
              THEN [indexer[w] EXCEPT !.at = "embed", !.doc = d, !.todo = @ \ {d}]
              ELSE [indexer[w] EXCEPT !.bad = TRUE, !.todo = @ \ {d}])
  /\ UNCHANGED <<kb, listed, doc, object, chunks, vectors, hand, ingestRuns, faults>>

\* An error is written over whatever the status is by then; a row that is gone
\* breaks the session, and the run stays "running".
DocumentFails(w) ==
  LET d == indexer[w].doc IN
    IF d \in Rows
    THEN doc' = [doc EXCEPT ![d] = "error"] /\ Place(w, [indexer[w] EXCEPT !.at = "loop", !.bad = TRUE])
    ELSE UNCHANGED doc /\ Place(w, IndexerRests)

\* The file, its text, its embeddings; and the end of an upsert that failed.
EmbedFails(w) ==
  /\ indexer[w].at \in {"embed", "undone"} /\ DocumentFails(w)
  /\ UNCHANGED <<kb, listed, object, chunks, vectors, hand, ingestRuns, faults>>

\* The chunk rows are flushed and not committed, ...
FlushChunks(w) ==
  /\ indexer[w].at = "embed"
  /\ LET d == indexer[w].doc IN d \in object /\ d \in Rows /\ Holders(d) = {}
  /\ Working(w, "flushed")
  /\ UNCHANGED <<kb, listed, doc, object, chunks, vectors, hand, ingestRuns, faults>>

\* ... or the document is gone, or its rows are another worker's: the session breaks.
FlushRefused(w) ==
  /\ indexer[w].at = "embed"
  /\ indexer[w].doc \notin Rows \/ indexer[w].doc \in chunks
  /\ Place(w, IndexerRests)
  /\ UNCHANGED <<kb, listed, doc, object, chunks, vectors, hand, ingestRuns, faults>>

MayUpsert_BeforeFlush(w) == indexer[w].at \in {"embed", "flushed"}
MayUpsert(w) == indexer[w].at = "flushed"

Upsert(w) ==
  /\ MayUpsert(w)
  /\ vectors' = vectors \cup {indexer[w].doc}
  /\ Working(w, "upserted")
  /\ UNCHANGED <<kb, listed, doc, object, chunks, hand, ingestRuns, faults>>

\* A call that failed may have been applied, and nothing takes its vectors back; the
\* rollback gives up the locks before the error is written.
UpsertFails(w) ==
  /\ indexer[w].at = "flushed"
  /\ vectors' \in {vectors, vectors \cup {indexer[w].doc}}
  /\ Working(w, "undone")
  /\ UNCHANGED <<kb, listed, doc, object, chunks, hand, ingestRuns, faults>>

CommitChunks(w) ==
  /\ indexer[w].at = "upserted"
  /\ doc' = [doc EXCEPT ![indexer[w].doc] = "indexed"]
  /\ chunks' = chunks \cup {indexer[w].doc}
  /\ Place(w, [indexer[w] EXCEPT !.at = "loop", !.ok = TRUE])
  /\ UNCHANGED <<kb, listed, object, vectors, hand, ingestRuns, faults>>

\* The commit fails: its locks are gone before its vectors are.
CommitFails(w) ==
  /\ indexer[w].at = "upserted" /\ faults < MaxFaults
  /\ faults' = faults + 1
  /\ Working(w, "compensate")
  /\ UNCHANGED <<kb, listed, doc, object, chunks, vectors, hand, ingestRuns>>

Compensate(w) ==
  /\ indexer[w].at = "compensate"
  /\ vectors' \in {vectors, vectors \ {indexer[w].doc}}
  /\ DocumentFails(w)
  /\ UNCHANGED <<kb, listed, object, chunks, hand, ingestRuns, faults>>

\* Only a run that ends here forgets which documents it had.
FinishRun(w) ==
  /\ indexer[w].at = "loop" /\ indexer[w].todo = {}
  /\ ingestRuns' = [ingestRuns EXCEPT ![indexer[w].run].docs = {}, ![indexer[w].run].status =
       IF ~indexer[w].bad THEN "completed" ELSE IF indexer[w].ok THEN "partial" ELSE "failed"]
  /\ Place(w, IndexerRests)
  /\ UNCHANGED <<kb, listed, doc, object, chunks, vectors, hand, faults>>

\* The message comes back, unless it was a time limit that ended the worker.
IndexerDies(w) ==
  /\ indexer[w] # IndexerRests /\ faults < MaxFaults
  /\ faults' = faults + 1
  /\ \E again \in BOOLEAN : ingestRuns' = [ingestRuns EXCEPT ![indexer[w].run].queued = again]
  /\ Place(w, IndexerRests)
  /\ UNCHANGED <<kb, listed, doc, object, chunks, vectors, hand>>

IngestNext ==
  \/ ListKb \/ DeleteKb \/ ListDocuments \/ TriggerIngestion
  \/ \E d \in Docs : Upload(d) \/ InsertRow(d) \/ DeleteDocument(d) \/ RemoveObject(d) \/ RemoveVectors(d)
  \/ \E n \in DOMAIN ingestRuns : RunAges(n)
  \/ \E w \in Indexers :
       \/ EmbedFails(w) \/ FlushChunks(w) \/ FlushRefused(w) \/ Upsert(w) \/ UpsertFails(w)
       \/ CommitChunks(w) \/ CommitFails(w) \/ Compensate(w) \/ FinishRun(w) \/ IndexerDies(w)
       \/ \E n \in DOMAIN ingestRuns : TakeRun(w, n)
       \/ \E d \in Docs : NextDocument(w, d)

IngestSpec == IngestInit /\ [][IngestNext]_ingestVars
--------------------------------------------------------------------------------

IngestTypeOK ==
  /\ kb \in {"open", "listed", "gone"} /\ listed \subseteq Docs
  /\ doc \in [Docs -> DocStatus] /\ hand \in [Docs -> Hands]
  /\ object \subseteq Docs /\ chunks \subseteq Docs /\ vectors \subseteq Docs
  /\ Len(ingestRuns) <= MaxRuns
  /\ \A n \in DOMAIN ingestRuns : /\ ingestRuns[n].docs \subseteq Docs
                            /\ ingestRuns[n].status \in {"pending", "running", "completed", "partial", "failed"}

\* A deletion that Milvus answered leaves no vectors behind, also when a worker
\* was in the middle of indexing the document.
DeletedLeavesNoVectors ==
  \A d \in Docs : doc[d] = "deleted" /\ hand[d] = "done" => d \notin vectors
================================================================================
