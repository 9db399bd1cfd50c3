---------------------------- MODULE KnowledgeProofs ----------------------------
(***************************************************************************)
(* What is known and how it is told: what holds of these parts of          *)
(* MC_Services for every number of documents, people, rows and pages.      *)
(*                                                                         *)
(*   Ingestion  a deleted document leaves no vectors                       *)
(*   Answering  an answer says which leg of its search failed              *)
(*   Feedback   a scope is asked for once                                  *)
(*   Records    the pages of a list miss nothing                           *)
(*   Chunking   a chunk is traced to its page, and no text is lost         *)
(*   Ranking    better evidence comes first                                *)
(*                                                                         *)
(* A recursive definition is reasoned about by least or greatest counter-  *)
(* example: the least number for which there is no such function, or for   *)
(* which the function does something else.                                 *)
(***************************************************************************)
EXTENDS Ingestion, Answering, Feedback, Records, Chunking, Ranking,
        FiniteSetTheorems, SequenceTheorems, WellFoundedInduction, TLAPS

--------------------------------------------------------------------------------
(***************************************************************************)
(* Ingestion.                                                              *)
(***************************************************************************)

\* What is known of the record of a worker.
Shaped(r) == "at" \in DOMAIN r /\ (r.at # "rest" => {"doc", "todo", "ok", "bad"} \subseteq DOMAIN r)

\* The uncommitted chunks of a worker keep its document.
WorkersOK ==
  /\ DOMAIN indexer = Indexers
  /\ \A w \in Indexers :
       Shaped(indexer[w]) /\ (indexer[w].at \in {"flushed", "upserted"} => indexer[w].doc \in Rows)

\* The invariant: what is being inserted is not there yet.
VectorInv ==
  /\ doc \in [Docs -> DocStatus] /\ DOMAIN hand = Docs
  /\ \A d \in Docs : hand[d] = "insert" => doc[d] = "absent"
  /\ WorkersOK /\ DeletedLeavesNoVectors

\* A step in which no row comes or goes, and no vectors come.
LEMMA RowsStay ==
  ASSUME VectorInv, UNCHANGED hand, vectors' \subseteq vectors, doc' \in [Docs -> DocStatus],
         \A d \in Docs : doc'[d] = doc[d] \/ (d \in Rows /\ d \in Rows'), WorkersOK'
  PROVE  VectorInv'
BY DEF VectorInv, DeletedLeavesNoVectors, Rows

\* The workers after one of them moved.
LEMMA OneMoves ==
  ASSUME VectorInv, NEW w \in Indexers, NEW row, indexer' = [indexer EXCEPT ![w] = row],
         Shaped(row), row.at \in {"flushed", "upserted"} => row.doc \in Rows, Rows \subseteq Rows'
  PROVE  WorkersOK'
BY DEF VectorInv, WorkersOK, Rows

\* No worker holds a document that may be deleted.
LEMMA DeletableIsFree ==
  ASSUME VectorInv, NEW d, Holders(d) = {}, NEW w \in Indexers,
         indexer[w].at \in {"flushed", "upserted"}
  PROVE  indexer[w].doc # d /\ indexer[w].doc \in Rows
BY DEF VectorInv, WorkersOK, Holders

\* Upload and deletion.
LEMMA HandStep ==
  ASSUME VectorInv, NEW d \in Docs,
         Upload(d) \/ InsertRow(d) \/ DeleteDocument(d) \/ RemoveObject(d) \/ RemoveVectors(d)
  PROVE  VectorInv'
<1>0. /\ doc \in [Docs -> DocStatus] /\ DOMAIN hand = Docs
      /\ \A e \in Docs : hand[e] = "insert" => doc[e] = "absent"
      /\ WorkersOK /\ DeletedLeavesNoVectors
  BY DEF VectorInv
<1>1. CASE Upload(d)
  BY <1>0, <1>1 DEF Upload, Hand, VectorInv, WorkersOK, DeletedLeavesNoVectors, Rows
<1>2. CASE InsertRow(d)
  <2>1. PICK at \in {"none", "left"} : hand' = [hand EXCEPT ![d] = at]
    BY <1>2 DEF InsertRow, Hand
  <2>2. UNCHANGED <<indexer, vectors>> /\ doc[d] = "absent"
        /\ doc' \in {doc, [doc EXCEPT ![d] = "uploaded"]}
    BY <1>0, <1>2 DEF InsertRow
  <2>. QED  BY <1>0, <2>1, <2>2 DEF VectorInv, WorkersOK, DeletedLeavesNoVectors, Rows, DocStatus
<1>3. CASE DeleteDocument(d)
  <2>1. /\ d \in Rows /\ Holders(d) = {} /\ UNCHANGED <<indexer, vectors>>
        /\ doc' = [doc EXCEPT ![d] = "deleted"] /\ hand' = [hand EXCEPT ![d] = "object"]
    BY <1>3 DEF DeleteDocument, Hand
  <2>2. WorkersOK'
    BY <1>0, <2>1, DeletableIsFree DEF WorkersOK, Rows
  <2>. QED  BY <1>0, <2>1, <2>2 DEF VectorInv, DeletedLeavesNoVectors, DocStatus
<1>4. CASE RemoveObject(d)
  BY <1>0, <1>4 DEF RemoveObject, Hand, VectorInv, WorkersOK, DeletedLeavesNoVectors, Rows
<1>5. CASE RemoveVectors(d)
  <2>1. hand[d] = "vectors" /\ UNCHANGED <<doc, indexer>>
    BY <1>5 DEF RemoveVectors
  <2>2. \/ vectors' = vectors \ {d} /\ hand' = [hand EXCEPT ![d] = "done"]
        \/ vectors' = vectors /\ hand' = [hand EXCEPT ![d] = "left"]
    BY <1>5 DEF RemoveVectors, Hand
  <2>. QED  BY <1>0, <2>1, <2>2 DEF VectorInv, WorkersOK, DeletedLeavesNoVectors, Rows
<1>. QED  BY <1>1, <1>2, <1>3, <1>4, <1>5

\* The deletion of the knowledge base, and the runs.
LEMMA BaseStep ==
  ASSUME VectorInv,
         ListKb \/ DeleteKb \/ ListDocuments \/ TriggerIngestion
         \/ (\E n \in DOMAIN ingestRuns : RunAges(n)) \/ UNCHANGED ingestVars
  PROVE  VectorInv'
<1>0. /\ doc \in [Docs -> DocStatus] /\ DOMAIN hand = Docs
      /\ \A e \in Docs : hand[e] = "insert" => doc[e] = "absent"
      /\ WorkersOK /\ DeletedLeavesNoVectors
  BY DEF VectorInv
<1>1. CASE ListKb \/ (\E n \in DOMAIN ingestRuns : RunAges(n)) \/ UNCHANGED ingestVars
  BY <1>0, <1>1, RowsStay DEF ListKb, RunAges, ingestVars, WorkersOK, Rows
<1>2. CASE DeleteKb
  <2>1. /\ \A d \in Rows : Holders(d) = {}
        /\ doc' = [d \in Docs |-> IF d \in Rows THEN "deleted" ELSE doc[d]]
        /\ hand' = [d \in Docs |-> IF d \notin Rows THEN hand[d]
                                   ELSE IF d \in listed THEN "object" ELSE "vectors"]
        /\ UNCHANGED <<indexer, vectors>>
    BY <1>2 DEF DeleteKb
  <2>2. \A w \in Indexers : indexer[w].at \notin {"flushed", "upserted"}
    BY <1>0, <2>1, DeletableIsFree DEF WorkersOK
  <2>3. WorkersOK'
    BY <1>0, <2>1, <2>2 DEF WorkersOK
  <2>. QED  BY <1>0, <2>1, <2>3 DEF VectorInv, DeletedLeavesNoVectors, DocStatus
<1>3. \A d \in Docs : Swept[d] = doc[d] \/ (doc[d] = "parsing" /\ Swept[d] = "error")
  BY <1>0 DEF Swept
<1>4. CASE ListDocuments
  <2>1. doc' = Swept /\ UNCHANGED <<hand, vectors, indexer>>
    BY <1>4 DEF ListDocuments
  <2>2. doc' \in [Docs -> DocStatus]
    BY <1>0, <1>3, <2>1 DEF Swept, DocStatus
  <2>3. \A d \in Docs : doc'[d] = doc[d] \/ (d \in Rows /\ d \in Rows')
    BY <1>3, <2>1 DEF Rows
  <2>4. WorkersOK'
    BY <1>0, <2>1, <2>3 DEF WorkersOK, Rows
  <2>. QED  BY <2>1, <2>2, <2>3, <2>4, RowsStay
<1>5. CASE TriggerIngestion
  <2>1. PICK to \in {"parsing", "uploaded"} :
          doc' = [d \in Docs |-> IF d \in {e \in Docs : Swept[e] \in {"uploaded", "error"}}
                                 THEN to ELSE Swept[d]]
    BY <1>5 DEF TriggerIngestion
  <2>2. UNCHANGED <<hand, vectors, indexer>>
    BY <1>5 DEF TriggerIngestion
  <2>3. doc' \in [Docs -> DocStatus]
    BY <1>0, <1>3, <2>1 DEF DocStatus
  <2>4. \A d \in Docs : doc'[d] = doc[d] \/ (d \in Rows /\ d \in Rows')
    BY <1>3, <2>1 DEF Rows
  <2>5. WorkersOK'
    BY <1>0, <2>2, <2>4 DEF WorkersOK, Rows
  <2>. QED  BY <2>2, <2>3, <2>4, <2>5, RowsStay
<1>. QED  BY <1>1, <1>2, <1>4, <1>5

\* A worker that writes no row, and no vectors.
LEMMA IndexerMoves ==
  ASSUME VectorInv, NEW w \in Indexers, NEW row, indexer' = [indexer EXCEPT ![w] = row],
         UNCHANGED <<doc, hand>>, vectors' \subseteq vectors,
         Shaped(row), row.at \in {"flushed", "upserted"} => row.doc \in Rows
  PROVE  VectorInv'
<1>1. WorkersOK'
  BY OneMoves DEF Rows
<1>. QED  BY <1>1, RowsStay DEF VectorInv

\* An error is written to a document that has a row.
LEMMA FailureIsHarmless ==
  ASSUME VectorInv, NEW w \in Indexers, indexer[w].at # "rest", DocumentFails(w),
         UNCHANGED hand, vectors' \subseteq vectors
  PROVE  VectorInv'
<1>. DEFINE d == indexer[w].doc
            row == [indexer[w] EXCEPT !.at = "loop", !.bad = TRUE]
<1>0. doc \in [Docs -> DocStatus] /\ Shaped(indexer[w])
  BY DEF VectorInv, WorkersOK
<1>1. CASE d \in Rows
  <2>1. doc' = [doc EXCEPT ![d] = "error"] /\ indexer' = [indexer EXCEPT ![w] = row]
    BY <1>1 DEF DocumentFails, Place
  <2>2. Shaped(row) /\ row.at = "loop"
    BY <1>0 DEF Shaped
  <2>3. d \in Docs
    BY <1>1 DEF Rows
  <2>. HIDE DEF d, row
  <2>4. doc' \in [Docs -> DocStatus] /\ \A e \in Docs : doc'[e] = doc[e] \/ (e \in Rows /\ e \in Rows')
    BY <1>0, <1>1, <2>1, <2>3 DEF Rows, DocStatus
  <2>5. WorkersOK'
    BY <2>1, <2>2, <2>4, OneMoves DEF Rows
  <2>. QED  BY <2>4, <2>5, RowsStay
<1>2. CASE d \notin Rows
  <2>1. UNCHANGED doc /\ indexer' = [indexer EXCEPT ![w] = IndexerRests]
    BY <1>2 DEF DocumentFails, Place
  <2>2. Shaped(IndexerRests) /\ IndexerRests.at = "rest"
    BY DEF Shaped, IndexerRests
  <2>. QED  BY <2>1, <2>2, IndexerMoves
<1>. QED  BY <1>1, <1>2

\* A worker.
LEMMA WorkerStep ==
  ASSUME VectorInv, NEW w \in Indexers,
         \/ EmbedFails(w) \/ FlushChunks(w) \/ FlushRefused(w) \/ Upsert(w) \/ UpsertFails(w)
         \/ CommitChunks(w) \/ CommitFails(w) \/ Compensate(w) \/ FinishRun(w) \/ IndexerDies(w)
         \/ \E n \in DOMAIN ingestRuns : TakeRun(w, n)
         \/ \E d \in Docs : NextDocument(w, d)
  PROVE  VectorInv'
<1>0. /\ doc \in [Docs -> DocStatus] /\ Shaped(indexer[w]) /\ WorkersOK /\ DeletedLeavesNoVectors
      /\ DOMAIN hand = Docs /\ \A d \in Docs : hand[d] = "insert" => doc[d] = "absent"
      /\ indexer[w].at \in {"flushed", "upserted"} => indexer[w].doc \in Rows
  BY DEF VectorInv, WorkersOK
<1>1. CASE EmbedFails(w) \/ Compensate(w)
  BY <1>1, FailureIsHarmless DEF EmbedFails, Compensate
<1>2. CASE FlushChunks(w)
  <2>. DEFINE row == [indexer[w] EXCEPT !.at = "flushed"]
  <2>1. /\ indexer' = [indexer EXCEPT ![w] = row] /\ UNCHANGED <<doc, hand, vectors>>
        /\ indexer[w].at = "embed" /\ indexer[w].doc \in Rows
    BY <1>2 DEF FlushChunks, Working, Place
  <2>2. Shaped(row) /\ row.doc = indexer[w].doc
    BY <1>0, <2>1 DEF Shaped
  <2>. HIDE DEF row
  <2>. QED  BY <2>1, <2>2, IndexerMoves
<1>3. CASE CommitFails(w)
  <2>. DEFINE row == [indexer[w] EXCEPT !.at = "compensate"]
  <2>1. indexer' = [indexer EXCEPT ![w] = row] /\ UNCHANGED <<doc, hand, vectors>>
        /\ indexer[w].at = "upserted"
    BY <1>3 DEF CommitFails, Working, Place
  <2>2. Shaped(row) /\ row.at = "compensate"
    BY <1>0, <2>1 DEF Shaped
  <2>. HIDE DEF row
  <2>. QED  BY <2>1, <2>2, IndexerMoves
<1>4. CASE FlushRefused(w) \/ FinishRun(w) \/ IndexerDies(w)
  <2>1. indexer' = [indexer EXCEPT ![w] = IndexerRests] /\ UNCHANGED <<doc, hand, vectors>>
    BY <1>4 DEF FlushRefused, FinishRun, IndexerDies, Place
  <2>2. Shaped(IndexerRests) /\ IndexerRests.at = "rest"
    BY DEF Shaped, IndexerRests
  <2>. QED  BY <2>1, <2>2, IndexerMoves
<1>5. CASE Upsert(w) \/ UpsertFails(w)
  <2>0. PICK at \in {"upserted", "undone"} :
          /\ indexer' = [indexer EXCEPT ![w] = [indexer[w] EXCEPT !.at = at]] /\ UNCHANGED <<doc, hand>>
          /\ vectors' \subseteq vectors \cup {indexer[w].doc} /\ indexer[w].at = "flushed"
    BY <1>5 DEF Upsert, UpsertFails, MayUpsert, Working, Place
  <2>. DEFINE row == [indexer[w] EXCEPT !.at = at]
  <2>1. /\ indexer' = [indexer EXCEPT ![w] = row] /\ UNCHANGED <<doc, hand>>
        /\ vectors' \subseteq vectors \cup {indexer[w].doc} /\ indexer[w].at = "flushed"
    BY <2>0
  <2>2. Shaped(row) /\ row.doc = indexer[w].doc
    BY <1>0, <2>0 DEF Shaped
  <2>. HIDE DEF row
  <2>3. WorkersOK'
    BY <1>0, <2>1, <2>2, OneMoves DEF Rows
  <2>. QED  BY <1>0, <2>1, <2>3 DEF VectorInv, DeletedLeavesNoVectors, Rows
<1>6. CASE CommitChunks(w)
  <2>. DEFINE row == [indexer[w] EXCEPT !.at = "loop", !.ok = TRUE]
              d == indexer[w].doc
  <2>1. /\ indexer' = [indexer EXCEPT ![w] = row] /\ UNCHANGED <<hand, vectors>>
        /\ doc' = [doc EXCEPT ![d] = "indexed"] /\ indexer[w].at = "upserted"
    BY <1>6 DEF CommitChunks, Place
  <2>2. Shaped(row) /\ row.at = "loop" /\ d \in Rows
    BY <1>0, <2>1 DEF Shaped
  <2>. HIDE DEF row, d
  <2>3. doc' \in [Docs -> DocStatus] /\ \A e \in Docs : doc'[e] = doc[e] \/ (e \in Rows /\ e \in Rows')
    BY <1>0, <2>1, <2>2 DEF Rows, DocStatus
  <2>4. WorkersOK'
    BY <2>1, <2>2, <2>3, OneMoves DEF Rows
  <2>. QED  BY <2>1, <2>3, <2>4, RowsStay
<1>7. ASSUME NEW n \in DOMAIN ingestRuns, TakeRun(w, n)
      PROVE  VectorInv'
  <2>. DEFINE row == [at |-> "loop", run |-> n, todo |-> ingestRuns[n].docs, doc |-> "none",
                      ok |-> FALSE, bad |-> FALSE]
  <2>1. UNCHANGED <<doc, hand, vectors>>
        /\ indexer' = [indexer EXCEPT ![w] = IF kb = "gone" THEN IndexerRests ELSE row]
    BY <1>7 DEF TakeRun, Place
  <2>2. Shaped(row) /\ row.at = "loop" /\ Shaped(IndexerRests) /\ IndexerRests.at = "rest"
    BY DEF Shaped, IndexerRests
  <2>. HIDE DEF row
  <2>. QED  BY <2>1, <2>2, IndexerMoves
<1>8. ASSUME NEW d \in Docs, NextDocument(w, d)
      PROVE  VectorInv'
  <2>1. PICK row : /\ indexer' = [indexer EXCEPT ![w] = row] /\ UNCHANGED <<doc, hand, vectors>>
                   /\ indexer[w].at = "loop"
                   /\ \/ row = [indexer[w] EXCEPT !.at = "embed", !.doc = d, !.todo = @ \ {d}]
                      \/ row = [indexer[w] EXCEPT !.bad = TRUE, !.todo = @ \ {d}]
    BY <1>8 DEF NextDocument, Place
  <2>2. Shaped(row) /\ row.at \in {"embed", "loop"}
    BY <1>0, <2>1 DEF Shaped
  <2>. QED  BY <2>1, <2>2, IndexerMoves
<1>. QED  BY <1>1, <1>2, <1>3, <1>4, <1>5, <1>6, <1>7, <1>8

\* Every step keeps the invariant.
LEMMA VectorStep == VectorInv /\ [IngestNext]_ingestVars => VectorInv'
BY HandStep, BaseStep, WorkerStep DEF IngestNext

\* Nothing is indexed yet.
LEMMA VectorInvInit == IngestInit => VectorInv
BY DEF IngestInit, VectorInv, WorkersOK, Shaped, IndexerRests, DeletedLeavesNoVectors, DocStatus

\* Wherever a document is deleted while workers index it, and whatever fails: a deletion
\* that Milvus answered leaves none of its vectors.
THEOREM DeletionIsComplete == IngestSpec => []DeletedLeavesNoVectors
<1>1. VectorInv => DeletedLeavesNoVectors
  BY DEF VectorInv
<1>. QED  BY VectorInvInit, VectorStep, <1>1, PTL DEF IngestSpec

--------------------------------------------------------------------------------
(***************************************************************************)
(* Answering.                                                              *)
(***************************************************************************)

\* A question on its way.
Midway == {"retrieve", "variant", "screen", "call", "guard", "save"}

\* A request under way has told of every leg that was down, and of no other.
Tells(q) ==
  /\ {"at", "found", "told", "missing"} \subseteq DOMAIN q
  /\ q.told = q.missing /\ (q.at = "retrieve" => q.missing = {})

\* The invariant.
AnswerInv ==
  /\ DOMAIN ask = Dialogues
  /\ \A r \in Dialogues : ask[r].at \in Midway => Tells(ask[r])
  /\ AnswerSaysWhatFailed

\* A request that goes on as it should.
LEMMA GoesOn ==
  ASSUME AnswerInv, NEW r \in Dialogues, NEW next, To(r, next),
         next.at \in Midway => Tells(next), next.at = "answered" => next.told = next.missing
  PROVE  AnswerInv'
BY DEF AnswerInv, To, AnswerSaysWhatFailed

\* What more is said of a request leaves the rest of it.
LEMMA StillTells ==
  ASSUME NEW q, Tells(q), q.at # "answered",
         NEW fields, "told" \notin DOMAIN fields, "missing" \notin DOMAIN fields,
         "at" \in DOMAIN fields => fields.at \notin {"retrieve", "answered"}
  PROVE  Tells(Overlaid(q, fields)) /\ Overlaid(q, fields).at # "answered"
BY DEF Tells, Overlaid

\* The retrieval.
LEMMA RetrieveTells ==
  ASSUME AnswerInv, NEW r \in Dialogues, Retrieve(r)
  PROVE  AnswerInv'
<1>1. PICK broken \in SUBSET Legs : \E foundHits \in Hybrid(broken) :
        IF foundHits = {} /\ broken # {} THEN Fails(r)
        ELSE \E rewriting \in Rewritings, fused \in Foremost(ask[r].found \cup foundHits) :
               Still(r, [at |-> AfterSearch(r, rewriting), found |-> fused,
                         told |-> IF ask[r].at = "retrieve" THEN broken ELSE Worst(ask[r].told, broken),
                         missing |-> ask[r].missing \cup broken])
  BY DEF Retrieve
<1>2. CASE Fails(r)
  BY <1>2, GoesOn DEF Fails, Midway
<1>3. ASSUME NEW at \in {"variant", "screen"}, NEW found, NEW told, NEW missing, told = missing,
             Still(r, [at |-> at, found |-> found, told |-> told, missing |-> missing])
      PROVE  AnswerInv'
  <2>. DEFINE fields == [at |-> at, found |-> found, told |-> told, missing |-> missing]
              next == Overlaid(ask[r], fields)
  <2>1. To(r, next)
    BY <1>3 DEF Still
  <2>2. /\ DOMAIN fields = {"at", "found", "told", "missing"}
        /\ fields.at = at /\ fields.told = told /\ fields.missing = missing
    OBVIOUS
  <2>. HIDE DEF fields
  <2>3. /\ {"at", "found", "told", "missing"} \subseteq DOMAIN next
        /\ next.at = at /\ next.told = told /\ next.missing = missing
    BY <2>2 DEF Overlaid
  <2>. HIDE DEF next
  <2>. QED  BY <1>3, <2>1, <2>3, GoesOn DEF Tells
<1>4. Tells(ask[r])
  BY DEF Retrieve, AnswerInv, Midway
<1>5. (IF ask[r].at = "retrieve" THEN broken ELSE Worst(ask[r].told, broken))
        = ask[r].missing \cup broken
  BY <1>4 DEF Tells, Worst
<1>6. \A rewriting : AfterSearch(r, rewriting) \in {"variant", "screen"}
  BY DEF AfterSearch
<1>. QED  BY <1>1, <1>2, <1>3, <1>5, <1>6

\* Every step keeps it.
LEMMA AnsweringStep ==
  ASSUME AnswerInv, [AnsweringNext]_answeringVars
  PROVE  AnswerInv'
<1>1. CASE UNCHANGED ask
  BY <1>1 DEF AnswerInv, AnswerSaysWhatFailed
<1>2. ASSUME NEW r \in Dialogues, NEW stream \in BOOLEAN, NEW text, AskPolicy(r, stream, text)
      PROVE  AnswerInv'
  <2>1. PICK history : LET asked == [at |-> "retrieve", stream |-> stream, history |-> history,
                                     found |-> {}, told |-> {}, missing |-> {}] IN
          \/ To(r, asked) \/ Fails(r)
          \/ To(r, Overlaid(asked, [at |-> "save", text |-> "refusal"]))
    BY <1>2 DEF AskPolicy
  <2>. DEFINE asked == [at |-> "retrieve", stream |-> stream, history |-> history,
                        found |-> {}, told |-> {}, missing |-> {}]
              refusal == [at |-> "save", text |-> "refusal"]
  <2>2. Tells(asked) /\ asked.at = "retrieve"
    BY DEF Tells
  <2>3. "at" \in DOMAIN refusal /\ refusal.at = "save" /\ "told" \notin DOMAIN refusal
        /\ "missing" \notin DOMAIN refusal
    OBVIOUS
  <2>. HIDE DEF asked, refusal
  <2>4. CASE To(r, asked)
    BY <2>2, <2>4, GoesOn
  <2>5. CASE Fails(r)
    BY <2>5, GoesOn DEF Fails, Midway
  <2>6. CASE To(r, Overlaid(asked, refusal))
    BY <2>2, <2>3, <2>6, GoesOn, StillTells
  <2>. QED  BY <2>1, <2>4, <2>5, <2>6 DEF asked, refusal
<1>3. ASSUME NEW r \in Dialogues, Retrieve(r)
      PROVE  AnswerInv'
  BY <1>3, RetrieveTells
<1>4. ASSUME NEW r \in Dialogues, Screen(r) \/ ProviderAnswers(r) \/ ProviderFails(r) \/ GuardOutput(r)
      PROVE  AnswerInv'
  <2>1. Tells(ask[r])
    BY <1>4 DEF AnswerInv, Midway, Screen, ProviderAnswers, ProviderFails, GuardOutput
  <2>2. CASE Fails(r)
    BY <2>2, GoesOn DEF Fails, Midway
  <2>3. ASSUME NEW fields, Still(r, fields),
               "told" \notin DOMAIN fields, "missing" \notin DOMAIN fields,
               "at" \in DOMAIN fields => fields.at \notin {"retrieve", "answered"}
        PROVE  AnswerInv'
    <3>1. ask[r].at # "answered"
      BY <1>4 DEF Screen, ProviderAnswers, ProviderFails, GuardOutput
    <3>. QED  BY <2>1, <2>3, <3>1, GoesOn, StillTells DEF Still
  <2>4. CASE Screen(r)
    <3>1. \/ Fails(r) \/ Still(r, [at |-> "save", text |-> "safe reply"])
          \/ \E first : Still(r, [at |-> "call", partly |-> {}, first |-> first,
                                todo |-> Providers, calls |-> {}])
      BY <2>4, Zenon DEF Screen
    <3>2. CASE Still(r, [at |-> "save", text |-> "safe reply"])
      BY <2>3, <3>2
    <3>3. ASSUME NEW first, Still(r, [at |-> "call", partly |-> {}, first |-> first,
                                      todo |-> Providers, calls |-> {}])
          PROVE  AnswerInv'
      BY <2>3, <3>3
    <3>. QED  BY <2>2, <3>1, <3>2, <3>3
  <2>5. CASE ProviderAnswers(r)
    BY <2>3, <2>5 DEF ProviderAnswers
  <2>6. CASE GuardOutput(r)
    BY <2>3, <2>6 DEF GuardOutput
  <2>7. CASE ProviderFails(r)
    <3>1. \/ Fails(r)
          \/ \E todo, calls, partly : Still(r, [todo |-> todo, calls |-> calls, partly |-> partly])
      BY <2>7, Zenon DEF ProviderFails
    <3>2. ASSUME NEW todo, NEW calls, NEW partly,
                 Still(r, [todo |-> todo, calls |-> calls, partly |-> partly])
          PROVE  AnswerInv'
      BY <2>3, <3>2
    <3>. QED  BY <2>2, <3>1, <3>2
  <2>. QED  BY <1>4, <2>4, <2>5, <2>6, <2>7
<1>5. ASSUME NEW r \in Dialogues, Save(r)
      PROVE  AnswerInv'
  <2>1. Tells(ask[r])
    BY <1>5 DEF Save, AnswerInv, Midway
  <2>2. CASE Fails(r)
    BY <2>2, GoesOn DEF Fails, Midway
  <2>3. CASE To(r, [at |-> "answered", told |-> ask[r].told, missing |-> ask[r].missing])
    BY <2>1, <2>3, GoesOn DEF Tells, Midway
  <2>. QED  BY <1>5, <2>2, <2>3 DEF Save
<1>. QED  BY <1>1, <1>2, <1>3, <1>4, <1>5
          DEF AnsweringNext, answeringVars, Rate, SwitchProvider, DeletePolicy

\* No question is asked yet.
LEMMA AnswerInvInit == AnsweringInit => AnswerInv
BY DEF AnsweringInit, AnswerInv, NotAsked, Midway, AnswerSaysWhatFailed

\* Whichever legs fail in either retrieval: an answer says so of each of them.
THEOREM AnswersTell == AnsweringSpec => []AnswerSaysWhatFailed
<1>1. AnswerInv => AnswerSaysWhatFailed
  BY DEF AnswerInv
<1>. QED  BY AnswerInvInit, <1>1, AnsweringStep, PTL DEF AnsweringSpec

--------------------------------------------------------------------------------
(***************************************************************************)
(* Feedback.                                                               *)
(***************************************************************************)

\* A row, and what its status says of the decisions of its scope.
RowOK(c) ==
  /\ {"scope", "status", "source", "seen", "n"} \subseteq DOMAIN c /\ c.scope \in Scopes
  /\ c.status \in {"open"} \cup Verdicts
  /\ decisions[c.scope] = IF c.status = "open" THEN 0 ELSE 1

\* A scope has one row, which its decision closed; and so with the signals of a look.
AskedInv ==
  /\ decisions \in [Scopes -> Nat] /\ DOMAIN look = Curators
  /\ \A c \in candidates : RowOK(c)
  /\ \A c, d \in candidates : c.scope = d.scope => c = d
  /\ \A s \in Scopes : decisions[s] = 0 \/ \E c \in candidates : c.scope = s
  /\ \A m \in Curators : look[m].at = "collected" =>
       /\ \A g \in look[m].signals : g.scope \in Scopes
       /\ \A g, h \in look[m].signals : g.scope = h.scope => g = h

\* A look collects one signal of each scope.
LEMMA SignalsCollected ==
  ASSUME AskedInv, NEW m \in Curators, Collect(m)
  PROVE  AskedInv'
<1>. PICK signals, stored :
       /\ signals = {Signal(s) : s \in {x \in Sight[m] : CandidateTurns(x) > 0}}
       /\ look' = [look EXCEPT ![m] = [at |-> "collected", signals |-> signals, stored |-> stored]]
       /\ UNCHANGED <<candidates, decisions>>
  BY DEF Collect
<1>1. Sight[m] \subseteq Scopes
  BY FeedbackAssumption DEF Scopes
<1>2. \A s : Signal(s).scope = s
  BY DEF Signal
<1>3. /\ \A g \in signals : g.scope \in Scopes
      /\ \A g, h \in signals : g.scope = h.scope => g = h
  BY <1>1, <1>2
<1>4. DOMAIN look' = Curators /\ look'[m].signals = signals
      /\ \A q \in Curators : q # m => look'[q] = look[q]
  BY DEF AskedInv
<1>. QED  BY <1>3, <1>4 DEF AskedInv, RowOK

\* A look writes its signals: the rows there are keep their scope and status, and a
\* scope that has none gets one.
LEMMA Materialises ==
  ASSUME AskedInv, NEW m \in Curators, Materialise(m)
  PROVE  AskedInv'
<1>. DEFINE open == {c \in look[m].stored : c.status = "open"}
            fresh == {g \in look[m].signals : /\ ~\E c \in look[m].stored : c.scope = g.scope
                                              /\ ~Materialised(g)}
            Refreshed(c) ==
              IF \E o \in open : o.scope = c.scope /\ o.n = c.n /\ \E g \in look[m].signals : g.scope = c.scope
              THEN LET g == CHOOSE g \in look[m].signals : g.scope = c.scope
                   IN [c EXCEPT !.source = g.source, !.seen = g.seen]
              ELSE c
<1>1. /\ candidates' = {Refreshed(c) : c \in candidates} \cup {CandidateRow(g) : g \in fresh}
      /\ look' = [look EXCEPT ![m] = Elsewhere] /\ UNCHANGED decisions
      /\ look[m].at = "collected"
  BY DEF Materialise
<1>2. \A c \in candidates : /\ Refreshed(c).scope = c.scope /\ Refreshed(c).status = c.status
                            /\ DOMAIN Refreshed(c) = DOMAIN c
  BY DEF AskedInv, RowOK
<1>3. \A g : /\ CandidateRow(g).scope = g.scope /\ CandidateRow(g).status = "open"
             /\ DOMAIN CandidateRow(g) = {"scope", "status", "source", "seen", "n"}
  BY DEF CandidateRow
<1>4. /\ \A g \in fresh : g.scope \in Scopes /\ \A c \in candidates : c.scope # g.scope
      /\ \A g, h \in fresh : g.scope = h.scope => g = h
  BY <1>1 DEF AskedInv, Materialised
<1>. HIDE DEF fresh, open, Refreshed
<1>5. \A c \in candidates' : RowOK(c)'
  <2>. SUFFICES ASSUME NEW c \in candidates'  PROVE RowOK(c)'
    OBVIOUS
  <2>1. CASE \E d \in candidates : c = Refreshed(d)
    BY <1>1, <1>2, <2>1 DEF AskedInv, RowOK
  <2>2. CASE \E g \in fresh : c = CandidateRow(g)
    <3>1. PICK g \in fresh : c = CandidateRow(g)
      BY <2>2
    <3>2. decisions[g.scope] = 0 /\ g.scope \in Scopes
      BY <1>4 DEF AskedInv
    <3>. QED  BY <1>1, <1>3, <3>1, <3>2 DEF RowOK
  <2>. QED  BY <1>1, <2>1, <2>2
<1>6. \A c, d \in candidates' : c.scope = d.scope => c = d
  <2>. SUFFICES ASSUME NEW c \in candidates', NEW d \in candidates', c.scope = d.scope  PROVE c = d
    OBVIOUS
  <2>1. ASSUME NEW e \in candidates, c = Refreshed(e), NEW f \in candidates, d = Refreshed(f)
        PROVE  c = d
    BY <1>2, <2>1 DEF AskedInv
  <2>2. ASSUME NEW e \in candidates, NEW g \in fresh
        PROVE  Refreshed(e).scope # CandidateRow(g).scope
    BY <1>2, <1>3, <1>4, <2>2
  <2>3. ASSUME NEW g \in fresh, c = CandidateRow(g), NEW h \in fresh, d = CandidateRow(h)
        PROVE  c = d
    BY <1>3, <1>4, <2>3
  <2>. QED  BY <1>1, <2>1, <2>2, <2>3
<1>7. \A s \in Scopes : decisions'[s] = 0 \/ \E c \in candidates' : c.scope = s
  <2>. SUFFICES ASSUME NEW s \in Scopes, decisions[s] # 0  PROVE \E c \in candidates' : c.scope = s
    BY <1>1
  <2>1. PICK c \in candidates : c.scope = s
    BY DEF AskedInv
  <2>. QED  BY <1>1, <1>2, <2>1
<1>8. DOMAIN look' = Curators /\ look'[m].at = "none" /\ \A q \in Curators : q # m => look'[q] = look[q]
  BY <1>1 DEF AskedInv, Elsewhere
<1>. QED  BY <1>1, <1>5, <1>6, <1>7, <1>8 DEF AskedInv

\* A decision closes the one row of its scope.
LEMMA Decides ==
  ASSUME AskedInv, NEW m \in Curators, NEW c \in candidates, NEW status \in Verdicts,
         Decide_candidate(m, c, status)
  PROVE  AskedInv'
<1>1. /\ c.status = "open" /\ decisions' = [decisions EXCEPT ![c.scope] = @ + 1]
      /\ candidates' = (candidates \ {c}) \cup {[c EXCEPT !.status = status]} /\ UNCHANGED look
  BY DEF Decide_candidate, Decidable
<1>2. status # "open"
  BY FeedbackAssumption
<1>3. /\ c.scope \in Scopes /\ decisions[c.scope] = 0
      /\ {"scope", "status", "source", "seen", "n"} \subseteq DOMAIN c
  BY <1>1 DEF AskedInv, RowOK
<1>. PICK row : row = [c EXCEPT !.status = status]
  OBVIOUS
<1>4. row.scope = c.scope /\ row.status = status /\ DOMAIN row = DOMAIN c
  BY <1>3
<1>5. /\ decisions' \in [Scopes -> Nat] /\ decisions'[c.scope] = 1
      /\ \A s \in Scopes : s # c.scope => decisions'[s] = decisions[s]
  BY <1>1, <1>3 DEF AskedInv
<1>6. candidates' = (candidates \ {c}) \cup {row}
  BY <1>1
<1>7. \A d \in candidates \ {c} : d.scope # c.scope /\ d.scope \in Scopes
  BY DEF AskedInv, RowOK
<1>8. \A d \in candidates' : RowOK(d)'
  BY <1>2, <1>3, <1>4, <1>5, <1>6, <1>7 DEF AskedInv, RowOK
<1>9. \A d, e \in candidates' : d.scope = e.scope => d = e
  BY <1>4, <1>6, <1>7 DEF AskedInv
<1>10. \A s \in Scopes : decisions'[s] = 0 \/ \E d \in candidates' : d.scope = s
  BY <1>4, <1>5, <1>6 DEF AskedInv
<1>. QED  BY <1>1, <1>5, <1>8, <1>9, <1>10 DEF AskedInv

\* Every step keeps it.
LEMMA FeedbackStep ==
  ASSUME AskedInv, [FeedbackNext]_feedbackVars
  PROVE  AskedInv'
<1>1. CASE UNCHANGED <<candidates, look, decisions>>
  BY <1>1 DEF AskedInv, RowOK
<1>. QED  BY <1>1, SignalsCollected, Materialises, Decides
          DEF FeedbackNext, feedbackVars, AnswerBadly, MoveAsker

\* Nobody is asked yet.
LEMMA AskedInvInit == FeedbackInit => AskedInv
BY DEF FeedbackInit, AskedInv, Elsewhere

\* However many managers look and decide at once, and whoever moves meanwhile: a
\* scope is asked once about a question that has a key.
THEOREM ScopesAreAskedOnce == FeedbackSpec => []AskedOnce
<1>1. AskedInv => AskedOnce
  <2>. SUFFICES ASSUME AskedInv, NEW s \in Scopes
                PROVE  /\ decisions[s] <= 1
                       /\ decisions[s] = 1 =>
                            \A m \in Curators : ~\E c \in UndecidedRows(m) : c.scope = s
    BY DEF AskedOnce
  <2>. QED  BY DEF AskedInv, RowOK, UndecidedRows
<1>. QED  BY AskedInvInit, <1>1, FeedbackStep, PTL DEF FeedbackSpec

--------------------------------------------------------------------------------
(***************************************************************************)
(* Records.                                                                *)
(***************************************************************************)

\* Rows that the keyset orders: no two have the same time and id.
Ordered(rows) ==
  /\ IsFiniteSet(rows)
  /\ \A m \in rows : m.time \in Nat /\ m.id \in Nat
  /\ \A m, n \in rows : m.id = n.id => m = n

\* The order of the keyset is one.
LEMMA KeysetOrder ==
  ASSUME NEW rows, Ordered(rows)
  PROVE  /\ \A m \in rows : ~Before(m, m)
         /\ \A m, n \in rows : m # n => Before(m, n) \/ Before(n, m)
         /\ \A m, n, k \in rows : Before(m, n) /\ Before(n, k) => Before(m, k)
BY DEF Ordered, Before

\* The rows that the list shows before m.
Newer(m, rows) == {n \in rows : Before(m, n)}

\* What comes later in the list has more before it.
LEMMA NewerGrows ==
  ASSUME NEW rows, Ordered(rows), NEW m \in rows, NEW n \in rows, Before(m, n)
  PROVE  /\ Cardinality(Newer(m, rows)) \in Nat /\ Cardinality(Newer(n, rows)) \in Nat
         /\ Cardinality(Newer(n, rows)) < Cardinality(Newer(m, rows))
<1>1. /\ Newer(n, rows) \in SUBSET Newer(m, rows)
      /\ n \in Newer(m, rows) /\ n \notin Newer(n, rows)
  BY KeysetOrder DEF Newer
<1>2. IsFiniteSet(Newer(m, rows)) /\ IsFiniteSet(Newer(n, rows))
  BY FS_Subset DEF Newer, Ordered
<1>3. /\ Cardinality(Newer(n, rows)) <= Cardinality(Newer(m, rows))
      /\ Cardinality(Newer(m, rows)) = Cardinality(Newer(n, rows)) => Newer(m, rows) = Newer(n, rows)
  BY <1>1, <1>2, FS_Subset
<1>4. Cardinality(Newer(m, rows)) \in Nat /\ Cardinality(Newer(n, rows)) \in Nat
  BY <1>2, FS_CardinalityType
<1>. QED  BY <1>1, <1>3, <1>4

\* Rows have a last one: were there none, two of them would have as many before them.
LEMMA LastExists ==
  ASSUME NEW rows, Ordered(rows), rows # {}
  PROVE  LastOf(rows) \in rows /\ \A n \in rows \ {LastOf(rows)} : Before(LastOf(rows), n)
<1>1. \E m \in rows : \A n \in rows \ {m} : Before(m, n)
  <2>. SUFFICES ASSUME \A m \in rows : \E n \in rows \ {m} : ~Before(m, n)
                PROVE  FALSE
    OBVIOUS
  <2>. PICK size : size = Cardinality(rows)
    OBVIOUS
  <2>1. size \in Nat /\ IsFiniteSet(rows)
    BY FS_CardinalityType DEF Ordered
  <2>2. ASSUME NEW m \in rows
        PROVE  Cardinality(Newer(m, rows)) \in 0..size - 2
    <3>1. PICK n \in rows \ {m} : ~Before(m, n)
      OBVIOUS
    <3>2. /\ Newer(m, rows) \in SUBSET ((rows \ {m}) \ {n})
          /\ IsFiniteSet((rows \ {m}) \ {n}) /\ Cardinality((rows \ {m}) \ {n}) = size - 2
      <4>1. IsFiniteSet(rows \ {m}) /\ Cardinality(rows \ {m}) = size - 1
        BY <2>1, FS_RemoveElement
      <4>2. /\ IsFiniteSet((rows \ {m}) \ {n})
            /\ Cardinality((rows \ {m}) \ {n}) = Cardinality(rows \ {m}) - 1
        BY <3>1, <4>1, FS_RemoveElement
      <4>3. Newer(m, rows) \in SUBSET ((rows \ {m}) \ {n})
        BY <3>1, KeysetOrder DEF Newer
      <4>. QED  BY <2>1, <4>1, <4>2, <4>3
    <3>3. /\ IsFiniteSet(Newer(m, rows))
          /\ Cardinality(Newer(m, rows)) <= size - 2
      BY <3>2, FS_Subset
    <3>4. Cardinality(Newer(m, rows)) \in Nat
      BY <3>3, FS_CardinalityType
    <3>. QED  BY <2>1, <3>3, <3>4
  <2>3. 1 <= size
    <3>1. size # 0
      BY <2>1, FS_EmptySet
    <3>. QED  BY <2>1, <3>1
  <2>4. IsFiniteSet(0..size - 2) /\ Cardinality(0..size - 2) < size
    <3>. PICK top : top = size - 2
      OBVIOUS
    <3>1. top \in Int /\ 0 \in Int
      BY <2>1
    <3>2. /\ IsFiniteSet(0..top)
          /\ Cardinality(0..top) = IF 0 > top THEN 0 ELSE top - 0 + 1
      BY <3>1, FS_Interval
    <3>3. IsFiniteSet(0..top) /\ Cardinality(0..top) < size
      BY <2>1, <2>3, <3>1, <3>2
    <3>. QED  BY <3>3
  <2>. DEFINE place == [m \in rows |-> Cardinality(Newer(m, rows))]
  <2>5. place \in [rows -> 0..size - 2]
    BY <2>2
  <2>. HIDE DEF place
  <2>6. PICK m, n \in rows : m # n /\ place[m] = place[n]
    BY <2>1, <2>4, <2>5, FS_PigeonHole
  <2>7. Cardinality(Newer(m, rows)) = Cardinality(Newer(n, rows))
    BY <2>6 DEF place
  <2>8. CASE Before(m, n)
    BY <2>7, <2>8, NewerGrows
  <2>9. CASE Before(n, m)
    BY <2>7, <2>9, NewerGrows
  <2>. QED  BY <2>6, <2>8, <2>9, KeysetOrder
<1>. QED  BY <1>1 DEF LastOf

\* A page takes its rows from the front: what it leaves comes after its last one.
LEMMA PageFromFront ==
  ASSUME NEW rows, Ordered(rows), NEW limit \in Nat, NEW m \in rows \ PageOf(rows, limit),
         PageOf(rows, limit) # {}
  PROVE  Before(m, LastOf(PageOf(rows, limit)))
<1>. DEFINE page == PageOf(rows, limit)
<1>1. page \subseteq rows /\ \A n \in rows : n \in page <=> Cardinality(Newer(n, rows)) < limit
  BY DEF PageOf, Newer
<1>2. Ordered(page)
  BY <1>1, FS_Subset DEF Ordered
<1>. HIDE DEF page
<1>3. LastOf(page) \in page
  BY <1>2, LastExists DEF page
<1>. PICK last : last = LastOf(page)
  OBVIOUS
<1>4. last \in rows /\ last # m /\ Cardinality(Newer(last, rows)) < limit /\ ~(Cardinality(Newer(m, rows)) < limit)
  BY <1>1, <1>3 DEF page
<1>5. ~Before(last, m)
  BY <1>4, NewerGrows
<1>. QED  BY <1>4, <1>5, KeysetOrder DEF page

\* The step of a request, and the rows it files.
FilingStep(step) ==
  \/ step = Unoccupied
  \/ step \in [at : {"employee", "create", "insert"}, task : DOMAIN stages]
  \/ step \in [at : {"commit"}, task : DOMAIN stages, id : 1..MaxMaterial, time : 0..MaxDays]

\* Rows and steps are well formed, and no id is drawn twice.
RowsOK ==
  /\ today \in 0..MaxDays
  /\ stages \in Seq(TaskStages)
  /\ DOMAIN filing = Filers /\ filing = [f \in Filers |-> filing[f]]
  /\ \A f \in Filers : FilingStep(filing[f])
  /\ IsFiniteSet(material)
  /\ material \subseteq [time : 0..MaxDays, id : 1..MaxMaterial, task : DOMAIN stages]
  /\ \A m, n \in material : m.id = n.id => m = n
  /\ \A f \in Filers : filing[f].at = "commit" =>
       /\ \A m \in material : m.id # filing[f].id
       /\ \A g \in Filers \ {f} : filing[g].at = "commit" => filing[g].id # filing[f].id

\* What a reader is owed and not shown lies behind the cursor; what it was shown does not.
ListOK(asked, owed, more, key, shown) ==
  /\ owed \subseteq Matching(asked) /\ more \in BOOLEAN
  /\ key.time \in Nat /\ key.id \in Nat
  /\ \A m \in DOMAIN shown : m \in material /\ shown[m] = 1 /\ ~Before(m, key)
  /\ \A m \in owed : m \in DOMAIN shown \/ (more = TRUE /\ Before(m, key))

\* Nobody reads, or a list is open.
ReadingOK ==
  \/ reading = NotReading
  \/ \E asked, owed, more, key, shown :
       /\ reading = [open |-> TRUE, filter |-> asked, promised |-> owed, more |-> more,
                     cursor |-> key, seen |-> shown]
       /\ ListOK(asked, owed, more, key, shown)

\* The invariant.
RecordsInv == RowsOK /\ ReadingOK

\* Any set of rows of the library is ordered.
LEMMA RowsOrdered ==
  ASSUME RecordsAssumption, RowsOK, NEW rows, rows \subseteq material
  PROVE  Ordered(rows)
<1>1. IsFiniteSet(rows)
  BY FS_Subset DEF RowsOK
<1>2. \A m \in rows : m.time \in Nat /\ m.id \in Nat
  BY DEF RowsOK, RecordsAssumption
<1>3. \A m, n \in rows : m.id = n.id => m = n
  BY DEF RowsOK
<1>. QED  BY <1>1, <1>2, <1>3 DEF Ordered

\* The database at work: rows stay, and so does the status of every task.
MaterialMoves ==
  /\ material \subseteq material'
  /\ \A t \in DOMAIN stages : stages'[t] = stages[t]

\* What the database does meanwhile takes nothing from an open list.
LEMMA ListsSurvive ==
  ASSUME RowsOK, ReadingOK, MaterialMoves, reading' = reading
  PROVE  ReadingOK'
<1>1. CASE reading = NotReading
  BY <1>1 DEF ReadingOK, NotReading
<1>2. CASE reading # NotReading
  <2>. PICK asked, owed, more, key, shown :
         /\ reading = [open |-> TRUE, filter |-> asked, promised |-> owed, more |-> more,
                       cursor |-> key, seen |-> shown]
         /\ ListOK(asked, owed, more, key, shown)
    BY <1>2 DEF ReadingOK
  <2>1. \A m \in material : m.task \in DOMAIN stages
    BY DEF RowsOK
  <2>2. owed \subseteq Matching(asked)'
    BY <2>1 DEF Matching, Shows, MaterialMoves, ListOK
  <2>4. ListOK(asked, owed, more, key, shown)'
    BY <2>2 DEF ListOK, MaterialMoves, Before
  <2>. QED  BY <2>4 DEF ReadingOK
<1>. QED  BY <1>1, <1>2

\* A page turned leaves behind the cursor exactly what it did not show.
LEMMA PageTurned ==
  ASSUME RecordsAssumption, RowsOK,
         NEW asked, NEW owed, NEW more, NEW key, NEW shown, NEW limit \in PageLimits,
         ListOK(asked, owed, more, key, shown), more = TRUE,
         Turns([open |-> TRUE, filter |-> asked, promised |-> owed, more |-> more,
                cursor |-> key, seen |-> shown],
               {m \in Matching(asked) : Before(m, key)}, limit)
  PROVE  \E next, last, told :
           /\ reading' = [open |-> TRUE, filter |-> asked, promised |-> owed, more |-> next,
                          cursor |-> last, seen |-> told]
           /\ ListOK(asked, owed, next, last, told)
<1>. DEFINE rows == {m \in Matching(asked) : Before(m, key)}
            page == PageOf(rows, limit)
            last == IF page = {} THEN key ELSE LastOf(page)
            next == (rows # page)
            told == [m \in DOMAIN shown \cup page |->
                       (IF m \in DOMAIN shown THEN shown[m] ELSE 0)
                       + (IF m \in page THEN 1 ELSE 0)]
<1>1. reading' = [open |-> TRUE, filter |-> asked, promised |-> owed, more |-> next,
                  cursor |-> last, seen |-> told]
  BY DEF Turns
<1>0. next \in BOOLEAN
  OBVIOUS
<1>2. rows \subseteq material /\ page \subseteq rows /\ limit \in Nat
  BY DEF Matching, PageOf, RecordsAssumption
<1>3. Ordered(rows) /\ Ordered(page)
  BY <1>2, RowsOrdered
<1>4. \A m \in rows : m \in Matching(asked) /\ Before(m, key)
  OBVIOUS
<1>5. \A m \in Matching(asked) : Before(m, key) => m \in rows
  OBVIOUS
<1>6. page # {} => \A m \in rows \ page : Before(m, LastOf(page))
  BY <1>2, <1>3, PageFromFront
<1>. HIDE DEF rows, page
<1>7. page # {} => LastOf(page) \in page /\ \A m \in page \ {LastOf(page)} : Before(LastOf(page), m)
  BY <1>3, LastExists
<1>8. last.time \in Nat /\ last.id \in Nat
  BY <1>2, <1>3, <1>7 DEF ListOK, Ordered
<1>9. \A m \in DOMAIN shown : m \notin page
  BY <1>2, <1>4 DEF ListOK
<1>10. \A m \in page : m \in material /\ m.time \in Nat /\ m.id \in Nat
  BY <1>2, <1>3 DEF Ordered
<1>11. \A m \in page : ~Before(m, last)
  BY <1>7, <1>10 DEF Before
<1>12. \A m \in DOMAIN shown : m \in material /\ ~Before(m, last)
  <2>. SUFFICES ASSUME NEW m \in DOMAIN shown
                PROVE  m \in material /\ ~Before(m, last)
    OBVIOUS
  <2>1. m \in material /\ ~Before(m, key)
    BY DEF ListOK
  <2>2. m.time \in Nat /\ m.id \in Nat
    BY <2>1 DEF RowsOK, RecordsAssumption
  <2>3. page # {} => Before(last, key)
    BY <1>2, <1>4, <1>7
  <2>. QED  BY <1>8, <2>1, <2>2, <2>3 DEF Before, ListOK
<1>13. \A m \in owed :
         m \in DOMAIN shown \cup page \/ (next = TRUE /\ Before(m, last))
  <2>. SUFFICES ASSUME NEW m \in owed, m \notin DOMAIN shown, m \notin page
                PROVE  next = TRUE /\ Before(m, last)
    OBVIOUS
  <2>1. m \in rows /\ Before(m, key)
    BY <1>5 DEF ListOK
  <2>. QED  BY <1>6, <2>1
<1>14. ListOK(asked, owed, next, last, told)
  <2>1. /\ owed \subseteq Matching(asked)
        /\ \A m \in DOMAIN shown : shown[m] = 1
    BY DEF ListOK
  <2>2. DOMAIN told = DOMAIN shown \cup page
    OBVIOUS
  <2>3. \A m \in DOMAIN told : told[m] = 1
    BY <1>9, <2>1
  <2>. HIDE DEF told, next, last
  <2>4. \A m \in DOMAIN told : m \in material /\ told[m] = 1 /\ ~Before(m, last)
    BY <1>10, <1>11, <1>12, <2>2, <2>3
  <2>. QED  BY <1>0, <1>8, <1>13, <2>1, <2>2, <2>4 DEF ListOK
<1>. QED  BY <1>1, <1>14

\* A task once started stays.
Grows == \A t \in DOMAIN stages : t \in DOMAIN stages'

\* A step of one request keeps the rows in order, if it draws a fresh id.
LEMMA StepKeepsRows ==
  ASSUME RowsOK, today' \in 0..MaxDays, stages' \in Seq(TaskStages), Grows,
         material' = material, NEW f \in Filers, NEW step, Files(f, step),
         FilingStep(step)', step.at = "commit" => step.id \notin UsedIds
  PROVE  RowsOK'
<1>1. /\ \A g \in Filers : filing'[g] = IF g = f THEN step ELSE filing[g]
      /\ DOMAIN filing' = Filers /\ filing' = [g \in Filers |-> filing'[g]]
  BY DEF Files, RowsOK
<1>2. \A g \in Filers : FilingStep(filing[g])'
  <2>. SUFFICES ASSUME NEW g \in Filers PROVE FilingStep(filing[g])'
    OBVIOUS
  <2>1. CASE g = f
    BY <1>1, <2>1 DEF FilingStep
  <2>2. CASE g # f
    <3>. PICK old : old = filing[g]
      OBVIOUS
    <3>1. FilingStep(old) /\ filing'[g] = old
      BY <1>1, <2>2 DEF RowsOK
    <3>. QED  BY <3>1 DEF FilingStep, Grows
  <2>. QED  BY <2>1, <2>2
<1>3. material \subseteq [time : 0..MaxDays, id : 1..MaxMaterial, task : DOMAIN stages']
  BY DEF RowsOK, Grows
<1>4. step.at = "commit" =>
        /\ \A m \in material : m.id # step.id
        /\ \A g \in Filers : filing[g].at = "commit" => filing[g].id # step.id
  BY DEF UsedIds
<1>5. \A g \in Filers : filing'[g].at = "commit" =>
        /\ \A m \in material : m.id # filing'[g].id
        /\ \A h \in Filers \ {g} : filing'[h].at = "commit" => filing'[h].id # filing'[g].id
  BY <1>1, <1>4 DEF RowsOK
<1>. QED  BY <1>1, <1>2, <1>3, <1>5 DEF RowsOK

\* Started, a task is the last of the list.
LEMMA StagesGrow ==
  ASSUME RowsOK, NEW status \in {"pending", "failed"}, stages' = Append(stages, status)
  PROVE  /\ stages' \in Seq(TaskStages) /\ Grows
         /\ Len(stages') \in DOMAIN stages'
         /\ \A t \in DOMAIN stages : stages'[t] = stages[t]
BY DEF RowsOK, Grows, TaskStages

\* Filing: what a request does keeps the rows in order and takes nothing away.
LEMMA FilingKeepsRows ==
  ASSUME RecordsAssumption, RowsOK, NEW f \in Filers,
         StartMaterial(f) \/ FindEmployee(f) \/ CreateEmployee(f) \/ InsertMaterial(f)
           \/ CommitMaterial(f) \/ FilingFails(f)
  PROVE  RowsOK' /\ MaterialMoves /\ reading' = reading
<1>. PICK mine : mine = filing[f]
  OBVIOUS
<1>1. FilingStep(mine) /\ today \in 0..MaxDays
      /\ stages \in Seq(TaskStages)
  BY DEF RowsOK
<1>2. CASE StartMaterial(f)
  <2>1. ASSUME NEW at \in {"employee", "insert"}, stages' = Append(stages, "pending"),
               Files(f, [at |-> at, task |-> Len(stages')])
        PROVE  RowsOK' /\ MaterialMoves
    <3>. PICK step : step = [at |-> at, task |-> Len(stages')]
      OBVIOUS
    <3>1. /\ stages' \in Seq(TaskStages) /\ Grows
          /\ Len(stages') \in DOMAIN stages' /\ \A t \in DOMAIN stages : stages'[t] = stages[t]
      BY <2>1, StagesGrow
    <3>2. FilingStep(step)' /\ step.at # "commit"
      BY <3>1 DEF FilingStep
    <3>3. RowsOK'
      BY <1>1, <1>2, <2>1, <3>1, <3>2, StepKeepsRows DEF StartMaterial
    <3>. QED  BY <1>2, <3>1, <3>3 DEF MaterialMoves, StartMaterial
  <2>2. ASSUME stages' = Append(stages, "failed"), UNCHANGED filing
        PROVE  RowsOK' /\ MaterialMoves
    <3>1. /\ stages' \in Seq(TaskStages) /\ Grows
          /\ \A t \in DOMAIN stages : stages'[t] = stages[t]
      BY <2>2, StagesGrow
    <3>2. FilingStep(mine)'
      BY <1>1, <3>1 DEF FilingStep, Grows
    <3>3. \A g \in Filers : FilingStep(filing[g])'
      <4>. SUFFICES ASSUME NEW g \in Filers PROVE FilingStep(filing[g])'
        OBVIOUS
      <4>. PICK old : old = filing[g]
        OBVIOUS
      <4>1. FilingStep(old) /\ filing'[g] = old
        BY <2>2 DEF RowsOK
      <4>. QED  BY <3>1, <4>1 DEF FilingStep, Grows
    <3>4. RowsOK'
      <4>1. material' = material /\ today' = today /\ filing' = filing
        BY <1>2, <2>2 DEF StartMaterial
      <4>2. material \subseteq [time : 0..MaxDays, id : 1..MaxMaterial, task : DOMAIN stages']
        BY <3>1 DEF RowsOK, Grows
      <4>. QED  BY <3>1, <3>3, <4>1, <4>2 DEF RowsOK
    <3>. QED  BY <1>2, <3>1, <3>4 DEF MaterialMoves, StartMaterial
  <2>3. reading' = reading
    BY <1>2 DEF StartMaterial
  <2>4. \/ stages' = Append(stages, "failed") /\ UNCHANGED filing
        \/ \E at \in {"employee", "insert"} : stages' = Append(stages, "pending")
             /\ Files(f, [at |-> at, task |-> Len(stages')])
    BY <1>2, Zenon DEF StartMaterial
  <2>. QED  BY <2>1, <2>2, <2>3, <2>4
<1>3. ASSUME NEW step, Files(f, step), FilingStep(step), step.at = "commit" => step.id \notin UsedIds,
             UNCHANGED <<today, stages, material, reading>>
      PROVE  RowsOK' /\ MaterialMoves /\ reading' = reading
  <2>1. FilingStep(step)' /\ Grows
    BY <1>3 DEF FilingStep, Grows
  <2>2. RowsOK'
    BY <1>1, <1>3, <2>1, StepKeepsRows
  <2>. QED  BY <1>3, <2>2 DEF MaterialMoves
<1>4. CASE FindEmployee(f)
  <2>. PICK step : step = CASE employees = 0 -> [mine EXCEPT !.at = "create"]
                            [] employees = 1 -> [mine EXCEPT !.at = "insert"]
                            [] OTHER -> Unoccupied
    OBVIOUS
  <2>1. mine \in [at : {"employee"}, task : DOMAIN stages]
    BY <1>1, <1>4 DEF FindEmployee, FilingStep, Unoccupied
  <2>2. FilingStep(step) /\ step.at # "commit"
    BY <2>1 DEF FilingStep, Unoccupied
  <2>3. Files(f, step) /\ UNCHANGED <<today, stages, material, reading>>
    BY <1>4 DEF FindEmployee
  <2>. QED  BY <1>3, <2>2, <2>3
<1>5. CASE CreateEmployee(f)
  <2>. PICK step : step = [mine EXCEPT !.at = "insert"]
    OBVIOUS
  <2>1. mine \in [at : {"create"}, task : DOMAIN stages]
    BY <1>1, <1>5 DEF CreateEmployee, FilingStep, Unoccupied
  <2>2. FilingStep(step) /\ step.at # "commit"
    BY <2>1 DEF FilingStep, Unoccupied
  <2>3. Files(f, step) /\ UNCHANGED <<today, stages, material, reading>>
    BY <1>5 DEF CreateEmployee
  <2>. QED  BY <1>3, <2>2, <2>3
<1>6. CASE InsertMaterial(f)
  <2>1. PICK id \in (1..MaxMaterial) \ UsedIds :
          Files(f, [at |-> "commit", task |-> filing[f].task, id |-> id, time |-> today])
    BY <1>6, Zenon DEF InsertMaterial
  <2>. PICK step : step = [at |-> "commit", task |-> mine.task, id |-> id, time |-> today]
    OBVIOUS
  <2>2. mine \in [at : {"insert"}, task : DOMAIN stages]
    BY <1>1, <1>6 DEF InsertMaterial, FilingStep, Unoccupied
  <2>3. FilingStep(step) /\ step.id \notin UsedIds
    BY <1>1, <2>2 DEF FilingStep
  <2>4. Files(f, step) /\ UNCHANGED <<today, stages, material, reading>>
    BY <1>6, <2>1 DEF InsertMaterial
  <2>. QED  BY <1>3, <2>3, <2>4
<1>7. CASE CommitMaterial(f)
  <2>. PICK new : new = [time |-> mine.time, id |-> mine.id, task |-> mine.task]
    OBVIOUS
  <2>1. mine \in [at : {"commit"}, task : DOMAIN stages, id : 1..MaxMaterial, time : 0..MaxDays]
    BY <1>1, <1>7 DEF CommitMaterial, FilingStep, Unoccupied
  <2>2. /\ material' = material \cup {new} /\ UNCHANGED <<today, stages, reading>>
        /\ filing' = [filing EXCEPT ![f] = Unoccupied]
    BY <1>7 DEF CommitMaterial, Files
  <2>3. /\ new \in [time : 0..MaxDays, id : 1..MaxMaterial, task : DOMAIN stages]
        /\ new.id = mine.id /\ mine.at = "commit"
    BY <2>1
  <2>4. /\ \A g \in Filers : filing'[g] = IF g = f THEN Unoccupied ELSE filing[g]
        /\ DOMAIN filing' = Filers /\ filing' = [g \in Filers |-> filing'[g]]
    BY <2>2 DEF RowsOK
  <2>5. \A m \in material : m.id # new.id
    BY <2>3 DEF RowsOK
  <2>6. \A g \in Filers \ {f} : filing[g].at = "commit" => filing[g].id # new.id
    BY <2>3 DEF RowsOK
  <2>7. \A g \in Filers : FilingStep(filing[g])'
    <3>. SUFFICES ASSUME NEW g \in Filers PROVE FilingStep(filing[g])'
      OBVIOUS
    <3>. PICK old : old = filing[g]
      OBVIOUS
    <3>1. FilingStep(old) /\ filing'[g] \in {old, Unoccupied} /\ stages' = stages
      BY <2>2, <2>4 DEF RowsOK
    <3>. QED  BY <3>1 DEF FilingStep
  <2>8. IsFiniteSet(material')
    BY <2>2, FS_AddElement DEF RowsOK
  <2>9. \A m, n \in material' : m.id = n.id => m = n
    BY <2>2, <2>5 DEF RowsOK
  <2>10. \A g \in Filers : filing'[g].at = "commit" =>
           /\ \A m \in material' : m.id # filing'[g].id
           /\ \A h \in Filers \ {g} : filing'[h].at = "commit" => filing'[h].id # filing'[g].id
    <3>1. Unoccupied.at # "commit"
      BY DEF Unoccupied
    <3>. QED  BY <2>2, <2>4, <2>6, <3>1 DEF RowsOK
  <2>11. material' \subseteq [time : 0..MaxDays, id : 1..MaxMaterial, task : DOMAIN stages']
    BY <2>2, <2>3 DEF RowsOK
  <2>12. RowsOK'
    BY <2>2, <2>4, <2>7, <2>8, <2>9, <2>10, <2>11 DEF RowsOK
  <2>. QED  BY <2>2, <2>12 DEF MaterialMoves
<1>8. CASE FilingFails(f)
  <2>1. FilingStep(Unoccupied) /\ Unoccupied.at # "commit"
    BY DEF FilingStep, Unoccupied
  <2>2. Files(f, Unoccupied) /\ UNCHANGED <<today, stages, material, reading>>
    BY <1>8 DEF FilingFails
  <2>. QED  BY <1>3, <2>1, <2>2
<1>. QED  BY <1>2, <1>4, <1>5, <1>6, <1>7, <1>8

\* A day passes: the rows stay as they are.
LEMMA TimeKeepsRows ==
  ASSUME RecordsAssumption, RowsOK, DayPasses
  PROVE  RowsOK' /\ MaterialMoves /\ reading' = reading
<1>1. today' \in 0..MaxDays /\ UNCHANGED <<stages, filing, material, reading>>
  BY DEF DayPasses, RowsOK, RecordsAssumption
<1>2. RowsOK'
  BY <1>1 DEF RowsOK, FilingStep
<1>. QED  BY <1>1, <1>2 DEF MaterialMoves

\* A task moves: what still matches is owed as before.
LEMMA MovesKeepLists ==
  ASSUME RecordsInv, NEW t \in DOMAIN stages, NEW to \in TaskStages, AnalysisMoves(t, to)
  PROVE  RecordsInv'
<1>1. UNCHANGED <<today, filing, material>> /\ stages' = [stages EXCEPT ![t] = to]
  BY DEF AnalysisMoves
<1>2. stages' \in Seq(TaskStages) /\ DOMAIN stages' = DOMAIN stages
  BY <1>1 DEF RecordsInv, RowsOK
<1>3. RowsOK'
  BY <1>1, <1>2 DEF RecordsInv, RowsOK, FilingStep
<1>4. CASE reading = NotReading
  BY <1>3, <1>4 DEF AnalysisMoves, NotReading, RecordsInv, ReadingOK
<1>5. CASE reading # NotReading
  <2>1. PICK asked, owed, more, key, shown :
          /\ reading = [open |-> TRUE, filter |-> asked, promised |-> owed, more |-> more,
                        cursor |-> key, seen |-> shown]
          /\ ListOK(asked, owed, more, key, shown)
    BY <1>5 DEF RecordsInv, ReadingOK
  <2>2. PICK left : left = {m \in owed : Shows(asked, stages'[m.task])}
    OBVIOUS
  <2>3. reading' = [open |-> TRUE, filter |-> asked, promised |-> left, more |-> more,
                    cursor |-> key, seen |-> shown]
    BY <2>1, <2>2 DEF AnalysisMoves
  <2>4. left \subseteq owed /\ left \subseteq Matching(asked)'
    BY <1>1, <2>1, <2>2 DEF ListOK, Matching
  <2>5. ListOK(asked, left, more, key, shown)'
    BY <1>1, <2>1, <2>4 DEF ListOK, Before
  <2>. QED  BY <1>3, <2>3, <2>5 DEF RecordsInv, ReadingOK
<1>. QED  BY <1>4, <1>5

\* Reading keeps the bargain.
LEMMA ReadingKeepsLists ==
  ASSUME RecordsAssumption, RecordsInv, FirstPage \/ NextPage \/ CloseList
  PROVE  RecordsInv'
<1>1. UNCHANGED <<today, employees, stages, filing, material>>
  BY DEF FirstPage, NextPage, CloseList
<1>2. RowsOK'
  BY <1>1 DEF RecordsInv, RowsOK, FilingStep
<1>3. ASSUME NEW asked, NEW owed, NEW more, NEW key, NEW shown, NEW limit \in PageLimits,
             ListOK(asked, owed, more, key, shown), more = TRUE,
             Turns([open |-> TRUE, filter |-> asked, promised |-> owed, more |-> more,
                    cursor |-> key, seen |-> shown],
                   {m \in Matching(asked) : Before(m, key)}, limit)
      PROVE  ReadingOK'
  <2>1. PICK next, last, told :
          /\ reading' = [open |-> TRUE, filter |-> asked, promised |-> owed, more |-> next,
                         cursor |-> last, seen |-> told]
          /\ ListOK(asked, owed, next, last, told)
    BY <1>3, PageTurned DEF RecordsInv
  <2>2. ListOK(asked, owed, next, last, told)'
    BY <1>1, <2>1 DEF ListOK, Matching, Before
  <2>. QED  BY <2>1, <2>2 DEF ReadingOK
<1>4. CASE FirstPage
  <2>1. PICK asked \in {"all", "analyzing", "completed", "failed"}, limit \in PageLimits :
          Turns([open |-> TRUE, filter |-> asked, promised |-> Matching(asked), more |-> TRUE,
                 cursor |-> [time |-> MaxDays, id |-> MaxMaterial + 1], seen |-> <<>>],
                Matching(asked), limit)
    BY <1>4, Zenon DEF FirstPage
  <2>. PICK key : key = [time |-> MaxDays, id |-> MaxMaterial + 1]
    OBVIOUS
  <2>2. \A m \in material : Before(m, key)
    BY DEF RecordsInv, RowsOK, Before, RecordsAssumption
  <2>3. Matching(asked) = {m \in Matching(asked) : Before(m, key)} /\ Matching(asked) \subseteq material
    BY <2>2 DEF Matching
  <2>4. DOMAIN <<>> = {}
    OBVIOUS
  <2>6. key.time \in Nat /\ key.id \in Nat
    BY DEF RecordsAssumption
  <2>7. ListOK(asked, Matching(asked), TRUE, key, <<>>)
    BY <2>2, <2>3, <2>4, <2>6 DEF ListOK
  <2>8. Turns([open |-> TRUE, filter |-> asked, promised |-> Matching(asked), more |-> TRUE,
               cursor |-> key, seen |-> <<>>],
              {m \in Matching(asked) : Before(m, key)}, limit)
    BY <2>1, <2>3
  <2>9. ReadingOK'
    BY <1>3, <2>7, <2>8
  <2>. QED  BY <1>2, <2>9 DEF RecordsInv
<1>5. CASE NextPage
  <2>1. PICK asked, owed, more, key, shown :
          /\ reading = [open |-> TRUE, filter |-> asked, promised |-> owed, more |-> more,
                        cursor |-> key, seen |-> shown]
          /\ ListOK(asked, owed, more, key, shown)
    BY <1>5 DEF NextPage, RecordsInv, ReadingOK, NotReading
  <2>2. PICK limit \in PageLimits :
          Turns(reading, {m \in Matching(reading.filter) : AfterCursor(m, reading.cursor)}, limit)
    BY <1>5, Zenon DEF NextPage
  <2>3. reading.filter = asked /\ reading.cursor = key
    BY <2>1
  <2>4. more = TRUE
    <3>1. more \in BOOLEAN /\ reading.more = more /\ reading.more
      BY <1>5, <2>1 DEF NextPage, ListOK
    <3>. QED  BY <3>1, Zenon
  <2>5. {m \in Matching(reading.filter) : AfterCursor(m, reading.cursor)}
          = {m \in Matching(asked) : Before(m, key)}
    BY <2>3 DEF AfterCursor
  <2>6. Turns([open |-> TRUE, filter |-> asked, promised |-> owed, more |-> more,
               cursor |-> key, seen |-> shown],
              {m \in Matching(asked) : Before(m, key)}, limit)
    BY <2>1, <2>2, <2>5
  <2>7. ReadingOK'
    BY <1>3, <2>1, <2>4, <2>6
  <2>. QED  BY <1>2, <2>7 DEF RecordsInv
<1>6. CASE CloseList
  BY <1>2, <1>6 DEF CloseList, ReadingOK, RecordsInv
<1>. QED  BY <1>2, <1>4, <1>5, <1>6 DEF RecordsInv

\* Every step keeps the rows in order and the bargain with the reader.
LEMMA RecordsStep ==
  ASSUME RecordsAssumption, RecordsInv, [RecordsNext]_recordsVars
  PROVE  RecordsInv'
<1>1. ASSUME RowsOK' /\ MaterialMoves /\ reading' = reading
      PROVE  RecordsInv'
  BY <1>1, ListsSurvive DEF RecordsInv
<1>2. CASE \E f \in Filers : \/ StartMaterial(f) \/ FindEmployee(f) \/ CreateEmployee(f)
                            \/ InsertMaterial(f) \/ CommitMaterial(f) \/ FilingFails(f)
  BY <1>1, <1>2, FilingKeepsRows DEF RecordsInv
<1>3. CASE DayPasses
  BY <1>1, <1>3, TimeKeepsRows DEF RecordsInv
<1>6. CASE \E t \in DOMAIN stages, to \in TaskStages : AnalysisMoves(t, to)
  BY <1>6, MovesKeepLists
<1>4. CASE FirstPage \/ NextPage \/ CloseList
  BY <1>4, ReadingKeepsLists
<1>5. CASE UNCHANGED recordsVars
  <2>1. UNCHANGED <<today, stages, filing, material, reading>>
    BY <1>5 DEF recordsVars
  <2>. QED  BY <2>1 DEF RecordsInv, RowsOK, FilingStep, ReadingOK, ListOK, Matching, Before
<1>. QED  BY <1>2, <1>3, <1>4, <1>5, <1>6 DEF RecordsNext

\* There is no material, and no list is open.
LEMMA RecordsInvInit == RecordsInit => RecordsInv
<1>. SUFFICES ASSUME RecordsInit PROVE RecordsInv
  OBVIOUS
<1>1. /\ today \in 0..MaxDays /\ stages \in Seq(TaskStages)
      /\ IsFiniteSet(material) /\ reading = NotReading
  BY RecordsAssumption, FS_EmptySet DEF RecordsInit, RecordsAssumption
<1>2. DOMAIN filing = Filers /\ \A f \in Filers : filing[f] = Unoccupied
  BY DEF RecordsInit
<1>. QED  BY <1>1, <1>2 DEF RecordsInit, RecordsInv, RowsOK, FilingStep, Unoccupied, ReadingOK

\* PagesMissNothing: a list read to its end by the keyset cursor of list_records shows every
\* record that matched ever since it was opened, once, for any pages, filings and moves of
\* the tasks.
THEOREM NoPageMisses == RecordsSpec => []PagesMissNothing
<1>1. RecordsInv /\ [RecordsNext]_recordsVars => RecordsInv'
  BY RecordsStep, RecordsAssumption
<1>2. RecordsInv => PagesMissNothing
  <2>. SUFFICES ASSUME RecordsInv, reading.open, ~reading.more
                PROVE  /\ reading.promised \subseteq DOMAIN reading.seen
                       /\ \A m \in DOMAIN reading.seen : reading.seen[m] = 1
    BY DEF PagesMissNothing
  <2>1. PICK asked, owed, more, key, shown :
          /\ reading = [open |-> TRUE, filter |-> asked, promised |-> owed, more |-> more,
                        cursor |-> key, seen |-> shown]
          /\ ListOK(asked, owed, more, key, shown)
    BY DEF RecordsInv, ReadingOK, NotReading
  <2>2. /\ reading.promised = owed /\ reading.filter = asked
        /\ reading.seen = shown /\ reading.more = more
    BY <2>1
  <2>3. more # TRUE
    BY <2>2, Zenon
  <2>. QED  BY <2>1, <2>2, <2>3 DEF ListOK
<1>. QED  BY RecordsInvInit, <1>1, <1>2, PTL DEF RecordsSpec

--------------------------------------------------------------------------------
(***************************************************************************)
(* Chunking.                                                               *)
(***************************************************************************)

\* A set of naturals has a least one.
LEMMA LeastNatural ==
  ASSUME NEW S, S \subseteq Nat, S # {}
  PROVE  \E n \in S : \A m \in S : n <= m
<1>. DEFINE R == {pair \in Nat \X Nat : pair[1] < pair[2]}
<1>1. IsWellFoundedOn(R, Nat)
  BY NatLessThanWellFounded DEF OpToRel
<1>2. \A m, n \in Nat : m < n => <<m, n>> \in R
  OBVIOUS
<1>. HIDE DEF R
<1>3. PICK n \in S : \A m \in S : <<m, n>> \notin R
  BY <1>1, WFMin
<1>4. ASSUME NEW m \in S PROVE n <= m
  <2>1. m \in Nat /\ n \in Nat /\ ~(m < n)
    BY <1>2, <1>3
  <2>. QED  BY <2>1
<1>. QED  BY <1>4

\* ... and a greatest one, if it has a bound.
LEMMA GreatestNatural ==
  ASSUME NEW S, S \subseteq Nat, S # {}, NEW top \in Nat, \A n \in S : n <= top
  PROVE  \E n \in S : \A m \in S : m <= n
<1>. DEFINE Gaps == {top - n : n \in S}
<1>1. Gaps \subseteq Nat /\ Gaps # {}
  <2>1. \A n \in S : top - n \in Nat
    <3>. SUFFICES ASSUME NEW n \in S PROVE top - n \in Nat
      OBVIOUS
    <3>1. n \in Nat /\ n <= top
      OBVIOUS
    <3>. QED  BY <3>1
  <2>. QED  BY <2>1
<1>2. PICK g \in Gaps : \A h \in Gaps : g <= h
  <2>. HIDE DEF Gaps
  <2>. QED  BY <1>1, LeastNatural
<1>3. PICK n \in S : g = top - n
  OBVIOUS
<1>4. ASSUME NEW m \in S PROVE m <= n
  <2>1. m \in Nat /\ n \in Nat /\ g <= top - m
    BY <1>2
  <2>. QED  BY <1>3, <2>1
<1>. QED  BY <1>4

\* Max of SequencesExt is that one.
LEMMA MaxIsGreatest ==
  ASSUME NEW S, S \subseteq Nat, S # {}, NEW top \in Nat, \A n \in S : n <= top
  PROVE  Max(S) \in S /\ \A m \in S : m <= Max(S)
BY GreatestNatural DEF Max

\* A multiple of a step, and the next one.
LEMMA NextMultiple ==
  ASSUME NEW step \in Nat \ {0}, NEW i \in Nat, i % step = 0
  PROVE  (i + step) % step = 0
<1>1. i = (step * (i \div step)) + (i % step) /\ i \div step \in Nat
  OBVIOUS
<1>. PICK q \in Nat : i = step * q
  BY <1>1
<1>2. i + step = step * (q + 1)
  OBVIOUS
<1>3. (step * (q + 1)) % step = 0
  OBVIOUS
<1>. QED  BY <1>2, <1>3

\* The fixed chunks leave no position out.
LEMMA FixedChunksCover ==
  ASSUME NEW text, Len(text) \in Nat, NEW i \in 0..Len(text) - 1, text[i + 1].c \notin Blanks
  PROVE  \E k \in FixedChunks(text) : k.first \in Nat /\ k.last \in Nat /\ k.first <= i /\ i < k.last
<1>. DEFINE step == ChunkSize - Overlap
            starts == {s \in 0..Len(text) - 1 : s % step = 0}
            before == {s \in starts : s <= i}
<1>1. step \in Nat \ {0} /\ step <= ChunkSize /\ ChunkSize \in Nat
  BY ChunkingAssumption
<1>2. before \subseteq Nat /\ i \in Nat /\ 0 \in before /\ \A s \in before : s <= i
  <2>1. 0 % step = 0 /\ 0 \in 0..Len(text) - 1
    BY <1>1
  <2>. QED  BY <2>1
<1>3. PICK s \in before : \A r \in before : r <= s
  <2>. HIDE DEF before
  <2>1. before # {}
    BY <1>2
  <2>. QED  BY <1>2, <2>1, GreatestNatural
<1>4. i < s + step
  <2>1. s \in Nat /\ s % step = 0 /\ s <= i
    BY <1>3
  <2>2. (s + step) % step = 0
    BY <1>1, <2>1, NextMultiple
  <2>. QED  BY <1>1, <1>3, <2>1, <2>2
<1>. PICK k : k = [first |-> s, last |-> Lesser(s + ChunkSize, Len(text))]
  OBVIOUS
<1>5. k.first = s /\ s <= i /\ i < k.last /\ s \in Nat /\ k.last \in Nat
  BY <1>1, <1>3, <1>4 DEF Lesser
<1>6. Visible(text, k)
  BY <1>5 DEF Visible
<1>. QED  BY <1>3, <1>5, <1>6 DEF FixedChunks

\* A piece of a section ends after it starts, and not beyond the section.
LEMMA CutMoves ==
  ASSUME NEW text, NEW s \in Nat, NEW total \in Nat, s < total
  PROVE  Cut(text, s, total) \in s + 1..total
<1>. DEFINE full == Lesser(s + MaxSection, total)
            window == s + (MaxSection \div 2)..full - 1
            newlines == {i \in window : text[i + 1].c = "newline"}
            endings == {i \in window : text[i + 1].c = "."}
<1>1. full \in s + 1..total /\ full \in Nat
  BY ChunkingAssumption DEF Lesser
<1>2. window \subseteq s..full - 1
  BY <1>1, ChunkingAssumption
<1>3. ASSUME NEW S, S \subseteq window, S # {}
      PROVE  Max(S) + 1 \in s + 1..total
  <2>1. S \subseteq Nat /\ \A n \in S : n <= full
    BY <1>1, <1>2, <1>3
  <2>2. Max(S) \in S
    BY <1>1, <1>3, <2>1, MaxIsGreatest
  <2>3. Max(S) \in s..full - 1
    BY <1>2, <1>3, <2>2
  <2>. QED  BY <1>1, <2>3
<1>4. newlines # {} => Max(newlines) + 1 \in s + 1..total
  BY <1>3
<1>5. endings # {} => Max(endings) + 1 \in s + 1..total
  BY <1>3
<1>6. Cut(text, s, total) = IF full = total THEN full
                            ELSE IF newlines # {} THEN Max(newlines) + 1
                            ELSE IF endings # {} THEN Max(endings) + 1 ELSE full
  BY DEF Cut
<1>. HIDE DEF newlines, endings, full
<1>. QED  BY <1>1, <1>4, <1>5, <1>6

\* The piece that starts at s, and what is left of the section behind it.
PiecesFrom(text, total, pieces, s) ==
  IF s = total THEN {}
  ELSE {[first |-> s, last |-> Cut(text, s, total)]} \cup pieces[Cut(text, s, total)]

\* There is a function that does what _split_oversized does: otherwise take the longest
\* rest of the section for which there is none.
LEMMA PiecesExist ==
  ASSUME NEW text, NEW total \in Nat, NEW from \in 0..total
  PROVE  \E pieces : pieces = [s \in from..total |-> PiecesFrom(text, total, pieces, s)]
<1>. DEFINE Known(k) == \E pieces : pieces = [s \in k..total |-> PiecesFrom(text, total, pieces, s)]
            Unknown == {k \in 0..total : ~Known(k)}
<1>. SUFFICES ASSUME from \in Unknown PROVE FALSE
  OBVIOUS
<1>1. PICK k \in Unknown : \A m \in Unknown : m <= k
  <2>1. Unknown \subseteq Nat /\ Unknown # {} /\ \A n \in Unknown : n <= total
    OBVIOUS
  <2>. HIDE DEF Unknown
  <2>. QED  BY <2>1, GreatestNatural
<1>2. k \in 0..total /\ ~Known(k)
  OBVIOUS
<1>3. k # total
  <2>1. Known(total)
    <3>. DEFINE none == [s \in total..total |-> {}]
    <3>1. none = [s \in total..total |-> PiecesFrom(text, total, none, s)]
      BY DEF PiecesFrom
    <3>. HIDE DEF none
    <3>. QED  BY <3>1
  <2>. QED  BY <1>2, <2>1
<1>4. Known(k + 1)
  <2>1. k + 1 \in 0..total /\ ~(k + 1 <= k)
    BY <1>2, <1>3
  <2>2. k + 1 \notin Unknown
    BY <1>1, <2>1
  <2>. QED  BY <2>1, <2>2
<1>5. PICK pieces : pieces = [s \in k + 1..total |-> PiecesFrom(text, total, pieces, s)]
  BY <1>4
<1>. DEFINE more == [s \in k..total |-> IF s = k THEN PiecesFrom(text, total, pieces, k)
                                       ELSE pieces[s]]
<1>6. \A s \in k + 1..total : more[s] = pieces[s] /\ pieces[s] = PiecesFrom(text, total, pieces, s)
  BY <1>2, <1>5
<1>7. ASSUME NEW s \in k..total PROVE more[s] = PiecesFrom(text, total, more, s)
  <2>1. s # total => Cut(text, s, total) \in k + 1..total
    <3>. SUFFICES ASSUME s # total PROVE Cut(text, s, total) \in k + 1..total
      OBVIOUS
    <3>1. s \in Nat /\ s < total /\ k <= s
      BY <1>2
    <3>2. Cut(text, s, total) \in s + 1..total
      BY <3>1, CutMoves
    <3>. QED  BY <1>2, <3>1, <3>2
  <2>2. PiecesFrom(text, total, more, s) = PiecesFrom(text, total, pieces, s)
    <3>. HIDE DEF more
    <3>. QED  BY <1>6, <2>1 DEF PiecesFrom
  <2>3. more[s] = PiecesFrom(text, total, pieces, s)
    <3>1. CASE s = k
      BY <3>1
    <3>2. CASE s # k
      <4>1. s \in k + 1..total
        BY <1>2, <3>2
      <4>. QED  BY <1>6, <4>1
    <3>. QED  BY <3>1, <3>2
  <2>. QED  BY <2>2, <2>3
<1>8. more = [s \in k..total |-> PiecesFrom(text, total, more, s)]
  <2>1. more = [s \in k..total |-> more[s]]
    OBVIOUS
  <2>. HIDE DEF more
  <2>. QED  BY <1>7, <2>1
<1>9. Known(k)
  <2>. HIDE DEF more
  <2>. QED  BY <1>8
<1>. QED  BY <1>2, <1>9

\* The pieces of a section leave no position of it out.
LEMMA PiecesCover ==
  ASSUME NEW text, NEW total \in Nat, NEW from \in 0..total, NEW i \in from..total - 1
  PROVE  \E k \in SplitOversized(text, from, total) :
           k \in [first : Nat, last : Nat] /\ k.first <= i /\ i < k.last
<1>. DEFINE pieces == CHOOSE pieces : pieces = [s \in from..total |-> PiecesFrom(text, total, pieces, s)]
<1>1. SplitOversized(text, from, total) = pieces[from]
  BY DEF SplitOversized, PiecesFrom
<1>2. \A r \in from..total : pieces[r] = PiecesFrom(text, total, pieces, r)
  <2>1. pieces = [s \in from..total |-> PiecesFrom(text, total, pieces, s)]
    BY PiecesExist
  <2>. HIDE DEF pieces
  <2>. QED  BY <2>1
<1>. HIDE DEF pieces
<1>. DEFINE Holds(s) == \E k \in pieces[s] : k \in [first : Nat, last : Nat] /\ k.first <= i /\ i < k.last
            Wrong == {s \in from..i : ~Holds(s)}
<1>. SUFFICES ASSUME from \in Wrong PROVE FALSE
  BY <1>1
<1>3. PICK s \in Wrong : \A m \in Wrong : m <= s
  <2>1. i \in Nat /\ from \in Nat
    OBVIOUS
  <2>2. \A n \in from..i : n \in Nat /\ n <= i
    BY <2>1
  <2>3. Wrong \subseteq from..i /\ Wrong # {}
    OBVIOUS
  <2>4. Wrong \subseteq Nat /\ \A n \in Wrong : n <= i
    BY <2>2, <2>3
  <2>. HIDE DEF Wrong
  <2>. QED  BY <2>1, <2>3, <2>4, GreatestNatural
<1>4. s \in Nat /\ from <= s /\ s <= i /\ i < total /\ s < total /\ i \in Nat /\ s \in from..total
  OBVIOUS
<1>5. Cut(text, s, total) \in s + 1..total
  BY <1>4, CutMoves
<1>. PICK cut : cut = Cut(text, s, total)
  OBVIOUS
<1>6. pieces[s] = {[first |-> s, last |-> cut]} \cup pieces[cut]
  <2>1. pieces[s] = PiecesFrom(text, total, pieces, s) /\ s # total
    BY <1>2, <1>4
  <2>. QED  BY <2>1 DEF PiecesFrom
<1>7. cut \in Nat /\ s < cut /\ cut <= total
  BY <1>4, <1>5
<1>8. CASE i < cut
  <2>. PICK k : k = [first |-> s, last |-> cut]
    OBVIOUS
  <2>1. k \in pieces[s] /\ k \in [first : Nat, last : Nat] /\ k.first <= i /\ i < k.last
    BY <1>4, <1>6, <1>7, <1>8
  <2>. QED  BY <2>1
<1>9. CASE ~(i < cut)
  <2>1. cut \in from..i /\ ~(cut <= s)
    BY <1>4, <1>7, <1>9
  <2>2. Holds(cut)
    BY <1>3, <2>1
  <2>. QED  BY <1>6, <2>2
<1>. QED  BY <1>8, <1>9

\* The chunks by section leave no visible character out.
LEMMA SectionChunksCover ==
  ASSUME NEW text, Len(text) \in Nat, NEW i \in 0..Len(text) - 1, text[i + 1].c \notin Blanks
  PROVE  \E k \in SectionChunks(text) : k.first \in Nat /\ k.last \in Nat /\ k.first <= i /\ i < k.last
<1>. DEFINE heads == {h \in 0..Len(text) - 1 : text[h + 1].c = "1"}
            bounds == {0, Len(text)} \cup heads
            sections == {sec \in bounds \X bounds :
                           sec[1] < sec[2] /\ \A k \in bounds : k <= sec[1] \/ k >= sec[2]}
            made == {k \in UNION {SplitOversized(text, sec[1], sec[2]) : sec \in sections} :
                         Visible(text, k)}
<1>1. SectionChunks(text) = IF made = {} THEN FixedChunks(text) ELSE made
  BY DEF SectionChunks
<1>2. bounds \subseteq 0..Len(text) /\ 0 \in bounds /\ Len(text) \in bounds
  OBVIOUS
<1>. HIDE DEF bounds
<1>3. PICK a \in bounds : a <= i /\ \A k \in bounds : k <= i => k <= a
  <2>. DEFINE before == {k \in bounds : k <= i}
  <2>1. i \in Nat /\ \A k \in bounds : k \in Nat
    BY <1>2
  <2>2. before \subseteq Nat /\ (\A k \in before : k <= i) /\ 0 \in before
    <3>1. 0 \in bounds /\ 0 <= i
      BY <1>2, <2>1
    <3>2. before \subseteq bounds
      OBVIOUS
    <3>. QED  BY <2>1, <3>1, <3>2
  <2>3. PICK a \in before : \A k \in before : k <= a
    <3>. HIDE DEF before
    <3>1. before # {}
      BY <2>2
    <3>. QED  BY <2>1, <2>2, <3>1, GreatestNatural
  <2>. QED  BY <2>3
<1>4. PICK b \in bounds : i < b /\ \A k \in bounds : i < k => b <= k
  <2>. DEFINE after == {k \in bounds : i < k}
  <2>0. i \in Nat /\ i < Len(text) /\ \A k \in bounds : k \in Nat
    BY <1>2
  <2>1. after \subseteq Nat /\ Len(text) \in after
    BY <1>2, <2>0
  <2>2. PICK b \in after : \A k \in after : b <= k
    <3>. HIDE DEF after
    <3>1. after # {}
      BY <2>1
    <3>. QED  BY <2>1, <3>1, LeastNatural
  <2>. QED  BY <2>2
<1>5. a \in Nat /\ b \in Nat /\ b <= Len(text) /\ a \in 0..b /\ i \in a..b - 1
  BY <1>2, <1>3, <1>4
<1>6. <<a, b>> \in sections
  <2>1. \A k \in bounds : k <= a \/ k >= b
    <3>. SUFFICES ASSUME NEW k \in bounds PROVE k <= a \/ k >= b
      OBVIOUS
    <3>1. k \in Nat
      BY <1>2
    <3>. QED  BY <1>3, <1>4, <1>5, <3>1
  <2>. QED  BY <1>5, <2>1
<1>7. PICK k \in SplitOversized(text, a, b) :
        k \in [first : Nat, last : Nat] /\ k.first <= i /\ i < k.last
  BY <1>5, PiecesCover
<1>8. Visible(text, k)
  <2>1. i + 1 \in k.first + 1..k.last
    BY <1>5, <1>7
  <2>. QED  BY <2>1 DEF Visible
<1>9. k \in made
  <2>. DEFINE splits == {SplitOversized(text, sec[1], sec[2]) : sec \in sections}
  <2>1. SplitOversized(text, a, b) \in splits
    <3>. HIDE DEF sections
    <3>. QED  BY <1>6
  <2>. HIDE DEF splits, sections
  <2>. QED  BY <1>7, <1>8, <2>1 DEF splits
<1>. HIDE DEF made
<1>. QED  BY <1>1, <1>7, <1>9

\* Whatever the text and however chunks are cut and overlap: no visible character is lost
\* between two of them.  (The second half of ChunksKnowTheirPage, for every text.)
THEOREM NoTextIsLost ==
  ASSUME NEW Characters, NEW text \in Seq(Characters)
  PROVE  \A made \in {FixedChunks(text), SectionChunks(text)} :
           \A i \in DOMAIN text : text[i].c \notin Blanks =>
             \E k \in made : k.first < i /\ i <= k.last
<1>. SUFFICES ASSUME NEW made \in {FixedChunks(text), SectionChunks(text)},
                     NEW j \in DOMAIN text, text[j].c \notin Blanks
              PROVE  \E k \in made : k.first < j /\ j <= k.last
  OBVIOUS
<1>. PICK i : i = j - 1
  OBVIOUS
<1>1. Len(text) \in Nat /\ i \in 0..Len(text) - 1 /\ i + 1 = j
  OBVIOUS
<1>2. \E k \in made : k.first \in Nat /\ k.last \in Nat /\ k.first <= i /\ i < k.last
  BY <1>1, FixedChunksCover, SectionChunksCover
<1>3. PICK k \in made : k.first \in Nat /\ k.last \in Nat /\ k.first <= i /\ i < k.last
  BY <1>2
<1>4. k.first < j /\ j <= k.last
  BY <1>1, <1>3
<1>. QED  BY <1>4

\* A step of the search: half of what is left, or nothing is.
SearchFrom(starts, x, search, range) ==
  LET lo == range[1]
      hi == range[2]
      mid == (lo + hi) \div 2 IN
    IF lo >= hi THEN lo
    ELSE IF x < starts[mid + 1] THEN search[<<lo, mid>>] ELSE search[<<mid + 1, hi>>]

\* Where a search goes on is shorter.
LEMMA Halves ==
  ASSUME NEW lo \in Nat, NEW hi \in Nat, lo < hi
  PROVE  (lo + hi) \div 2 \in Nat /\ lo <= (lo + hi) \div 2 /\ (lo + hi) \div 2 < hi
OBVIOUS

\* There is a function that does what bisect_right does.
LEMMA SearchExists ==
  ASSUME NEW starts, NEW x, NEW size \in Nat
  PROVE  \E search : search = [range \in (0..size) \X (0..size) |-> SearchFrom(starts, x, search, range)]
<1>. DEFINE Upto(d) == {range \in (0..size) \X (0..size) : range[2] - range[1] <= d}
            Known(d) == \E search : search = [range \in Upto(d) |-> SearchFrom(starts, x, search, range)]
            Unknown == {d \in Nat : ~Known(d)}
<1>1. Known(0)
  <2>. DEFINE none == [range \in Upto(0) |-> range[1]]
  <2>1. none = [range \in Upto(0) |-> SearchFrom(starts, x, none, range)]
    <3>1. \A range \in Upto(0) : SearchFrom(starts, x, none, range) = range[1]
      <4>. SUFFICES ASSUME NEW range \in Upto(0) PROVE SearchFrom(starts, x, none, range) = range[1]
        OBVIOUS
      <4>1. range[1] \in Nat /\ range[2] \in Nat /\ range[2] - range[1] <= 0
        OBVIOUS
      <4>2. range[1] >= range[2]
        BY <4>1
      <4>. HIDE DEF none
      <4>. QED  BY <4>2 DEF SearchFrom
    <3>. QED  BY <3>1
  <2>. HIDE DEF none
  <2>. QED  BY <2>1
<1>2. ASSUME NEW d \in Nat, Known(d) PROVE Known(d + 1)
  <2>1. PICK search : search = [range \in Upto(d) |-> SearchFrom(starts, x, search, range)]
    BY <1>2
  <2>. DEFINE more == [range \in Upto(d + 1) |->
                         IF range \in Upto(d) THEN search[range] ELSE SearchFrom(starts, x, search, range)]
  <2>2. \A range \in Upto(d) : range \in Upto(d + 1)
    <3>. SUFFICES ASSUME NEW range \in Upto(d) PROVE range \in Upto(d + 1)
      OBVIOUS
    <3>1. range \in (0..size) \X (0..size) /\ range[1] \in Nat /\ range[2] \in Nat /\ range[2] - range[1] <= d
      OBVIOUS
    <3>2. range[2] - range[1] <= d + 1
      BY <3>1
    <3>. QED  BY <3>1, <3>2
  <2>3. ASSUME NEW range \in Upto(d + 1) PROVE more[range] = SearchFrom(starts, x, more, range)
    <3>1. PICK lo \in 0..size, hi \in 0..size : range = <<lo, hi>>
      OBVIOUS
    <3>. PICK mid : mid = (lo + hi) \div 2
      OBVIOUS
    <3>2. hi - lo <= d + 1
      BY <3>1
    <3>3. lo < hi => /\ <<lo, mid>> \in Upto(d) /\ <<mid + 1, hi>> \in Upto(d)
      <4>. SUFFICES ASSUME lo < hi
                    PROVE  <<lo, mid>> \in Upto(d) /\ <<mid + 1, hi>> \in Upto(d)
        OBVIOUS
      <4>1. mid \in Nat /\ lo <= mid /\ mid < hi
        BY Halves
      <4>2. mid \in 0..size /\ mid + 1 \in 0..size /\ mid - lo <= d /\ hi - (mid + 1) <= d
        BY <3>2, <4>1
      <4>. QED  BY <4>2
    <3>4. SearchFrom(starts, x, more, range) = SearchFrom(starts, x, search, range)
      <4>1. \A r \in Upto(d) : more[r] = search[r]
        BY <2>2
      <4>2. lo < hi => /\ more[<<lo, mid>>] = search[<<lo, mid>>]
                       /\ more[<<mid + 1, hi>>] = search[<<mid + 1, hi>>]
        BY <3>3, <4>1
      <4>. HIDE DEF more, Upto
      <4>. QED  BY <3>1, <4>2 DEF SearchFrom
    <3>5. more[range] = SearchFrom(starts, x, search, range)
      <4>1. CASE range \in Upto(d)
        <5>1. search[range] = SearchFrom(starts, x, search, range)
          <6>. HIDE DEF Upto
          <6>. QED  BY <2>1, <4>1
        <5>. QED  BY <4>1, <5>1
      <4>2. CASE range \notin Upto(d)
        BY <4>2
      <4>. QED  BY <4>1, <4>2
    <3>. QED  BY <3>4, <3>5
  <2>4. more = [range \in Upto(d + 1) |-> SearchFrom(starts, x, more, range)]
    <3>1. more = [range \in Upto(d + 1) |-> more[range]]
      OBVIOUS
    <3>. HIDE DEF more, Upto
    <3>. QED  BY <2>3, <3>1
  <2>. HIDE DEF more
  <2>. QED  BY <2>4
<1>3. Unknown = {}
  <2>. SUFFICES ASSUME Unknown # {} PROVE FALSE
    OBVIOUS
  <2>1. PICK d \in Unknown : \A e \in Unknown : d <= e
    <3>1. Unknown \subseteq Nat
      OBVIOUS
    <3>. HIDE DEF Unknown
    <3>. QED  BY <3>1, LeastNatural
  <2>. HIDE DEF Known
  <2>2. d \in Nat /\ ~Known(d) /\ d # 0
    BY <1>1
  <2>3. d - 1 \in Nat /\ ~(d <= d - 1)
    BY <2>2
  <2>4. Known(d - 1)
    BY <2>1, <2>3
  <2>5. Known((d - 1) + 1)
    BY <1>2, <2>3, <2>4
  <2>6. (d - 1) + 1 = d
    BY <2>2
  <2>. QED  BY <2>2, <2>5, <2>6
<1>4. Upto(size) = (0..size) \X (0..size)
  <2>1. \A lo, hi \in 0..size : hi - lo <= size
    OBVIOUS
  <2>. QED  BY <2>1
<1>5. Known(size)
  <2>. HIDE DEF Known
  <2>. QED  BY <1>3
<1>. HIDE DEF Upto
<1>. QED  BY <1>4, <1>5

\* Of sorted starts, bisect_right finds the last one that is not after x.
LEMMA BisectFinds ==
  ASSUME NEW starts \in Seq(Nat), NEW x \in Nat,
         \A i, j \in DOMAIN starts : i < j => starts[i] <= starts[j]
  PROVE  /\ BisectRight(starts, x) \in 0..Len(starts)
         /\ \A i \in 1..BisectRight(starts, x) : starts[i] <= x
         /\ \A i \in BisectRight(starts, x) + 1..Len(starts) : x < starts[i]
<1>. PICK size : size = Len(starts)
  OBVIOUS
<1>0. size \in Nat /\ \A i \in 1..size : starts[i] \in Nat
  OBVIOUS
<1>5. \A i, j \in 1..size : i <= j => starts[i] <= starts[j]
  <2>1. DOMAIN starts = 1..size
    OBVIOUS
  <2>. SUFFICES ASSUME NEW i \in 1..size, NEW j \in 1..size, i <= j PROVE starts[i] <= starts[j]
    OBVIOUS
  <2>2. CASE i = j
    BY <1>0, <2>2
  <2>3. CASE i # j
    <3>1. i < j /\ i \in DOMAIN starts /\ j \in DOMAIN starts
      BY <1>0, <2>1, <2>3
    <3>. QED  BY <3>1
  <2>. QED  BY <2>2, <2>3
<1>. DEFINE search == CHOOSE search :
              search = [range \in (0..size) \X (0..size) |-> SearchFrom(starts, x, search, range)]
<1>1. BisectRight(starts, x) = search[<<0, size>>]
  BY DEF BisectRight, SearchFrom
<1>2. \A lo, hi \in 0..size : search[<<lo, hi>>] = SearchFrom(starts, x, search, <<lo, hi>>)
  <2>1. search = [range \in (0..size) \X (0..size) |-> SearchFrom(starts, x, search, range)]
    BY <1>0, SearchExists
  <2>. HIDE DEF search
  <2>2. \A range \in (0..size) \X (0..size) : search[range] = SearchFrom(starts, x, search, range)
    BY <2>1
  <2>. QED  BY <2>2
<1>. HIDE DEF search
<1>. DEFINE Low(n) == \A i \in 1..n : starts[i] <= x
            High(n) == \A i \in n + 1..size : x < starts[i]
            Right(n) == n \in 0..size /\ Low(n) /\ High(n)
            Goes(lo, hi) == lo <= hi /\ Low(lo) /\ High(hi)
            Wrong == {d \in Nat : \E lo, hi \in 0..size :
                        hi - lo = d /\ Goes(lo, hi) /\ ~Right(search[<<lo, hi>>])}
<1>3. Wrong = {}
  <2>. SUFFICES ASSUME Wrong # {} PROVE FALSE
    OBVIOUS
  <2>1. PICK d \in Wrong : \A e \in Wrong : d <= e
    <3>1. Wrong \subseteq Nat
      OBVIOUS
    <3>. HIDE DEF Wrong
    <3>. QED  BY <3>1, LeastNatural
  <2>2. PICK lo \in 0..size, hi \in 0..size : hi - lo = d /\ Goes(lo, hi) /\ ~Right(search[<<lo, hi>>])
    OBVIOUS
  <2>3. ASSUME NEW m \in 0..size, NEW n \in 0..size, n - m < d, Goes(m, n)
        PROVE  Right(search[<<m, n>>])
    <3>1. n - m \in Nat /\ ~(d <= n - m)
      BY <1>0, <2>3
    <3>2. n - m \notin Wrong
      BY <2>1, <3>1
    <3>. HIDE DEF Right, Goes
    <3>. QED  BY <2>3, <3>1, <3>2
  <2>. PICK mid : mid = (lo + hi) \div 2
    OBVIOUS
  <2>4. search[<<lo, hi>>] = IF lo >= hi THEN lo
                             ELSE IF x < starts[mid + 1] THEN search[<<lo, mid>>]
                             ELSE search[<<mid + 1, hi>>]
    <3>1. search[<<lo, hi>>] = SearchFrom(starts, x, search, <<lo, hi>>)
      BY <1>2
    <3>2. <<lo, hi>>[1] = lo /\ <<lo, hi>>[2] = hi
      OBVIOUS
    <3>. QED  BY <3>1, <3>2 DEF SearchFrom
  <2>5. CASE lo >= hi
    <3>1. lo = hi /\ search[<<lo, hi>>] = lo
      BY <1>0, <2>2, <2>4, <2>5
    <3>. QED  BY <2>2, <3>1
  <2>6. CASE ~(lo >= hi)
    <3>1. mid \in Nat /\ lo <= mid /\ mid < hi
      BY <1>0, <2>6, Halves
    <3>2. mid + 1 \in 1..size /\ mid \in 0..size /\ mid + 1 \in 0..size
      BY <1>0, <3>1
    <3>3. CASE x < starts[mid + 1]
      <4>1. High(mid)
        <5>. SUFFICES ASSUME NEW i \in mid + 1..size PROVE x < starts[i]
          OBVIOUS
        <5>1. i \in 1..size /\ (i = mid + 1 \/ mid + 1 < i)
          BY <1>0, <3>2
        <5>2. starts[mid + 1] <= starts[i]
          BY <1>0, <1>5, <3>2, <5>1
        <5>3. starts[mid + 1] \in Nat /\ starts[i] \in Nat
          BY <1>0, <3>2, <5>1
        <5>. QED  BY <3>3, <5>2, <5>3
      <4>2. Right(search[<<lo, mid>>])
        <5>1. mid - lo < d /\ Goes(lo, mid)
          BY <1>0, <2>2, <3>1, <4>1
        <5>. HIDE DEF Right, Goes
        <5>. QED  BY <2>3, <3>2, <5>1
      <4>. HIDE DEF Right
      <4>. QED  BY <2>2, <2>4, <2>6, <3>3, <4>2
    <3>4. CASE ~(x < starts[mid + 1])
      <4>1. Low(mid + 1)
        <5>. SUFFICES ASSUME NEW i \in 1..mid + 1 PROVE starts[i] <= x
          OBVIOUS
        <5>1. i \in 1..size /\ (i = mid + 1 \/ i < mid + 1)
          BY <1>0, <3>2
        <5>2. starts[i] <= starts[mid + 1]
          BY <1>0, <1>5, <3>2, <5>1
        <5>3. starts[mid + 1] \in Nat /\ starts[i] \in Nat
          BY <1>0, <3>2, <5>1
        <5>. QED  BY <3>4, <5>2, <5>3
      <4>2. Right(search[<<mid + 1, hi>>])
        <5>1. hi - (mid + 1) < d /\ Goes(mid + 1, hi)
          BY <1>0, <2>2, <3>1, <4>1
        <5>. HIDE DEF Right, Goes
        <5>. QED  BY <2>3, <3>2, <5>1
      <4>. HIDE DEF Right
      <4>. QED  BY <2>2, <2>4, <2>6, <3>4, <4>2
    <3>. QED  BY <3>3, <3>4
  <2>. QED  BY <2>5, <2>6
<1>4. Right(search[<<0, size>>])
  <2>1. 0 \in 0..size /\ size \in 0..size /\ size - 0 \in Nat /\ Goes(0, size)
    BY <1>0
  <2>. HIDE DEF Right, Goes
  <2>. QED  BY <1>3, <2>1
<1>. QED  BY <1>1, <1>4

Characters == Letters \cup {"newline"}
Marked == [c : Characters, page : Nat]
Spans == [page : Nat, first : Nat, last : Nat]

\* What is stitched after n pages: a span for each of them, and every character is within
\* the span of its page and before the spans that follow.
Stitching(acc, n) ==
  /\ acc.out \in Seq(Marked)
  /\ acc.spans \in Seq(Spans) /\ Len(acc.spans) = n
  /\ \A p \in 1..n : acc.spans[p].page = p
  /\ \A x \in 1..Len(acc.out) :
       /\ acc.out[x].page \in 1..n
       /\ acc.spans[acc.out[x].page].first < x /\ x <= acc.spans[acc.out[x].page].last
       /\ \A r \in acc.out[x].page + 1..n : x <= acc.spans[r].first

\* Stripped, a page is a sequence of letters still.
LEMMA StripKeepsLetters ==
  ASSUME NEW s \in Seq(Letters)
  PROVE  RStrip(s) \in Seq(Letters) /\ LStrip(s) \in Seq(Letters)
<1>1. ASSUME NEW t \in Seq(Letters) PROVE RStrip(t) \in Seq(Letters)
  <2>. DEFINE kept == {i \in DOMAIN t : t[i] \notin Blanks}
  <2>1. CASE kept = {}
    <3>1. RStrip(t) = <<>>
      BY <2>1 DEF RStrip
    <3>. QED  BY <3>1
  <2>2. CASE kept # {}
    <3>1. kept \subseteq Nat /\ Len(t) \in Nat /\ \A i \in kept : i <= Len(t)
      OBVIOUS
    <3>2. Max(kept) \in kept
      <4>. HIDE DEF kept
      <4>. QED  BY <2>2, <3>1, MaxIsGreatest
    <3>3. RStrip(t) = SubSeq(t, 1, Max(kept))
      <4>1. \E i \in DOMAIN t : t[i] \notin Blanks
        BY <2>2
      <4>. QED  BY <4>1 DEF RStrip
    <3>. QED
      <4>. PICK m : m = Max(kept)
        OBVIOUS
      <4>1. m \in 1..Len(t) /\ RStrip(t) = SubSeq(t, 1, m)
        BY <3>2, <3>3
      <4>2. \A i \in 1..m : t[i] \in Letters
        BY <4>1
      <4>3. SubSeq(t, 1, m) \in Seq(Letters)
        BY <4>1, <4>2, SubSeqProperties
      <4>. QED  BY <4>1, <4>3
  <2>. QED  BY <2>1, <2>2
<1>2. ASSUME NEW t \in Seq(Letters) PROVE Reverse(t) \in Seq(Letters)
  BY <1>2 DEF Reverse
<1>. QED  BY <1>1, <1>2 DEF LStrip

\* The marked characters of a page.
LEMMA OfPageIsMarked ==
  ASSUME NEW s \in Seq(Letters), NEW p \in Nat
  PROVE  /\ OfPage(s, p) \in Seq(Marked)
         /\ \A i \in 1..Len(OfPage(s, p)) : OfPage(s, p)[i].page = p
<1>1. OfPage(s, p) = [i \in 1..Len(s) |-> [c |-> s[i], page |-> p]] /\ Len(s) \in Nat
  BY DEF OfPage
<1>2. \A i \in 1..Len(s) : [c |-> s[i], page |-> p] \in Marked
  BY DEF Marked, Characters
<1>. QED  BY <1>1, <1>2

\* A text that has the first characters of another, and behind them those of page p.
Keeps(out, done, from, p) ==
  /\ out \in Seq(Marked) /\ from \in 0..Len(out) /\ from <= Len(done)
  /\ \A i \in 1..from : out[i] = done[i]
  /\ \A i \in from + 1..Len(out) : out[i].page = p

\* A page that keeps what is before it, up to where its span starts, and adds only
\* characters of its own.
LEMMA PageExtends ==
  ASSUME NEW n \in Nat, NEW acc, Stitching(acc, n), NEW out, NEW from, Keeps(out, acc.out, from, n + 1)
  PROVE  Stitching([out |-> out,
                    spans |-> Append(acc.spans, [page |-> n + 1, first |-> from, last |-> Len(out)])],
                   n + 1)
<1>. PICK next : next = [out |-> out,
                         spans |-> Append(acc.spans, [page |-> n + 1, first |-> from, last |-> Len(out)])]
  OBVIOUS
<1>0. /\ out \in Seq(Marked) /\ from \in 0..Len(out) /\ from <= Len(acc.out)
      /\ \A i \in 1..from : out[i] = acc.out[i]
      /\ \A i \in from + 1..Len(out) : out[i].page = n + 1
  BY DEF Keeps
<1>. PICK span : span = [page |-> n + 1, first |-> from, last |-> Len(out)]
  OBVIOUS
<1>1. Len(out) \in Nat /\ from \in Nat /\ from <= Len(out)
  BY <1>0
<1>2. span \in Spans
  BY <1>1 DEF Spans
<1>. PICK spans : spans = next.spans
  OBVIOUS
<1>3. next.out = out /\ spans = Append(acc.spans, span)
  OBVIOUS
<1>4. acc.spans \in Seq(Spans) /\ Len(acc.spans) = n
  BY DEF Stitching
<1>5. /\ spans \in Seq(Spans) /\ Len(spans) = n + 1
      /\ \A p \in 1..n : spans[p] = acc.spans[p]
      /\ spans[n + 1] = span
  BY <1>2, <1>3, <1>4, AppendProperties
<1>6. \A p \in 1..n + 1 : spans[p].page = p
  <2>. SUFFICES ASSUME NEW p \in 1..n + 1 PROVE spans[p].page = p
    OBVIOUS
  <2>1. CASE p = n + 1
    BY <1>5, <2>1
  <2>2. CASE p \in 1..n
    BY <1>5, <2>2 DEF Stitching
  <2>3. p = n + 1 \/ p \in 1..n
    <3>1. \A m \in Nat : \A q \in 1..m + 1 : q = m + 1 \/ q \in 1..m
      OBVIOUS
    <3>. QED  BY ONLY <3>1, n \in Nat, p \in 1..n + 1
  <2>. QED  BY <2>1, <2>2, <2>3
<1>7. ASSUME NEW x \in 1..Len(out)
      PROVE  /\ out[x].page \in 1..n + 1
             /\ spans[out[x].page].first < x /\ x <= spans[out[x].page].last
             /\ \A r \in out[x].page + 1..n + 1 : x <= spans[r].first
  <2>1. CASE x <= from
    <3>. PICK q : q = out[x].page
      OBVIOUS
    <3>1. x \in 1..from /\ x \in 1..Len(acc.out)
      <4>1. Len(acc.out) \in Nat
        BY DEF Stitching
      <4>2. x \in Nat /\ 1 <= x /\ x <= Len(acc.out)
        BY <1>0, <1>1, <2>1, <4>1
      <4>. QED  BY <1>0, <1>1, <2>1, <4>1, <4>2
    <3>2. q = acc.out[x].page
      BY <1>0, <3>1
    <3>3. /\ q \in 1..n
          /\ acc.spans[q].first < x /\ x <= acc.spans[q].last
          /\ \A r \in q + 1..n : x <= acc.spans[r].first
      BY <3>1, <3>2 DEF Stitching
    <3>4. \A r \in q + 1..n + 1 : x <= spans[r].first
      <4>. SUFFICES ASSUME NEW r \in q + 1..n + 1 PROVE x <= spans[r].first
        OBVIOUS
      <4>1. CASE r = n + 1
        BY <1>5, <2>1, <4>1
      <4>2. CASE r # n + 1
        <5>1. r \in q + 1..n /\ r \in 1..n
          BY <3>3, <4>2
        <5>. QED  BY <1>5, <3>3, <5>1
      <4>. QED  BY <4>1, <4>2
    <3>. QED  BY <1>5, <3>3, <3>4
  <2>2. CASE ~(x <= from)
    <3>1. x \in from + 1..Len(out)
      BY <1>1, <2>2
    <3>2. out[x].page = n + 1 /\ spans[n + 1].first = from /\ spans[n + 1].last = Len(out)
      BY <1>0, <1>5, <3>1
    <3>3. n + 1 \in 1..n + 1 /\ from < x /\ x <= Len(out)
      BY <1>1, <3>1
    <3>4. \A r \in (n + 1) + 1..n + 1 : FALSE
      OBVIOUS
    <3>. QED  BY <3>2, <3>3, <3>4
  <2>. QED  BY <2>1, <2>2
<1>. QED  BY <1>0, <1>3, <1>5, <1>6, <1>7 DEF Stitching

\* A text with a line of its own behind it: the mark that ends a line, and the page.
LEMMA LineAdded ==
  ASSUME NEW done \in Seq(Marked), NEW mark \in Marked, NEW tail \in Seq(Marked), NEW p,
         mark.page = p, \A i \in 1..Len(tail) : tail[i].page = p
  PROVE  Keeps(Append(done, mark) \o tail, done, Len(done), p)
<1>. PICK out : out = Append(done, mark) \o tail
  OBVIOUS
<1>. PICK line, len, rest : line = Append(done, mark) /\ len = Len(done) /\ rest = Len(tail)
  OBVIOUS
<1>1. len \in Nat /\ rest \in Nat
  OBVIOUS
<1>2. /\ line \in Seq(Marked) /\ Len(line) = len + 1
      /\ \A i \in 1..len : line[i] = done[i]
      /\ line[len + 1] = mark
  BY AppendProperties
<1>3. /\ out \in Seq(Marked) /\ Len(out) = Len(line) + rest
      /\ \A i \in 1..Len(line) + rest : out[i] = IF i <= Len(line) THEN line[i] ELSE tail[i - Len(line)]
  BY <1>2, ConcatProperties
<1>4. ASSUME NEW i \in 1..len PROVE out[i] = done[i]
  <2>1. i \in 1..Len(line) + rest /\ i <= Len(line)
    BY <1>1, <1>2
  <2>. QED  BY <1>2, <1>3, <2>1
<1>5. ASSUME NEW i \in len + 1..Len(out) PROVE out[i].page = p
  <2>1. i \in 1..Len(line) + rest /\ (i = len + 1 \/ Len(line) < i)
    BY <1>1, <1>2, <1>3
  <2>2. CASE i = len + 1
    <3>1. i <= Len(line)
      BY <1>1, <1>2, <2>2
    <3>. QED  BY <1>2, <1>3, <2>1, <2>2, <3>1
  <2>3. CASE Len(line) < i
    <3>1. i - Len(line) \in 1..rest /\ ~(i <= Len(line))
      BY <1>1, <1>2, <2>1, <2>3
    <3>. QED  BY <1>3, <2>1, <3>1
  <2>. QED  BY <2>1, <2>2, <2>3
<1>6. len \in 0..Len(out) /\ len <= len
  BY <1>1, <1>2, <1>3
<1>. QED  BY <1>3, <1>4, <1>5, <1>6 DEF Keeps

\* A text with the letters of a page behind it.
LEMMA PageAdded ==
  ASSUME NEW before \in Seq(Marked), NEW more \in Seq(Marked), NEW p,
         \A i \in 1..Len(more) : more[i].page = p
  PROVE  Keeps(before \o more, before, Len(before), p)
<1>. PICK out : out = before \o more
  OBVIOUS
<1>1. /\ out \in Seq(Marked) /\ Len(before) \in Nat /\ Len(more) \in Nat
      /\ Len(out) = Len(before) + Len(more)
      /\ \A i \in 1..Len(before) + Len(more) :
           out[i] = IF i <= Len(before) THEN before[i] ELSE more[i - Len(before)]
  BY ConcatProperties
<1>2. ASSUME NEW i \in Len(before) + 1..Len(out) PROVE out[i].page = p
  <2>1. i \in 1..Len(before) + Len(more) /\ ~(i <= Len(before)) /\ i - Len(before) \in 1..Len(more)
    BY <1>1
  <2>. QED  BY <1>1, <2>1
<1>3. Len(before) \in 0..Len(out) /\ Len(before) <= Len(before)
  BY <1>1
<1>. QED  BY <1>1, <1>2, <1>3 DEF Keeps

\* Front leaves the last one out.
LEMMA FrontOf ==
  ASSUME NEW S, NEW s \in Seq(S), s # <<>>
  PROVE  /\ Front(s) \in Seq(S) /\ Len(Front(s)) = Len(s) - 1
         /\ \A i \in 1..Len(s) - 1 : Front(s)[i] = s[i]
<1>. PICK n \in Int : n = Len(s) - 1
  OBVIOUS
<1>1. n \in Nat /\ \A i \in 1..n : s[i] \in S
  OBVIOUS
<1>2. /\ SubSeq(s, 1, n) \in Seq(S)
      /\ Len(SubSeq(s, 1, n)) = IF 1 <= n THEN n - 1 + 1 ELSE 0
      /\ \A i \in 1..n - 1 + 1 : SubSeq(s, 1, n)[i] = s[1 + i - 1]
  BY <1>1, SubSeqProperties
<1>3. \A i \in 1..n : i \in 1..n - 1 + 1 /\ 1 + i - 1 = i
  BY <1>1
<1>4. Front(s) = SubSeq(s, 1, n)
  BY DEF Front
<1>5. Len(Front(s)) = n
  BY <1>1, <1>2, <1>4
<1>6. \A i \in 1..n : Front(s)[i] = s[i]
  BY <1>2, <1>3, <1>4
<1>. QED  BY <1>2, <1>4, <1>5, <1>6

\* Joined keeps the text up to where the span of the page starts: all of it, or all but
\* the hyphen.  What comes after is of the page.
LEMMA JoinedKeeps ==
  ASSUME NEW p \in Nat, NEW done \in Seq(Marked), done # <<>>, NEW s \in Seq(Letters)
  PROVE  Keeps(Joined(done, s, p), done, SpanStart(done), p)
<1>1. Len(done) \in Nat /\ Len(done) > 0
  OBVIOUS
<1>2. ASSUME NEW t \in Seq(Letters)
      PROVE  /\ OfPage(t, p) \in Seq(Marked)
             /\ \A i \in 1..Len(OfPage(t, p)) : OfPage(t, p)[i].page = p
  BY OfPageIsMarked
<1>3. LStrip(s) \in Seq(Letters)
  BY StripKeepsLetters
<1>4. CASE Last(done).c = "-"
  <2>. PICK before : before = Front(done)
    OBVIOUS
  <2>. PICK more : more = OfPage(LStrip(s), p)
    OBVIOUS
  <2>1. Joined(done, s, p) = before \o more /\ SpanStart(done) = Len(done) - 1
    BY <1>4 DEF Joined, SpanStart
  <2>2. /\ before \in Seq(Marked) /\ Len(before) = Len(done) - 1
        /\ \A i \in 1..Len(before) : before[i] = done[i]
    BY FrontOf
  <2>3. Keeps(before \o more, before, Len(before), p)
    BY <1>2, <1>3, <2>2, PageAdded
  <2>4. Keeps(before \o more, done, Len(before), p)
    BY <1>1, <2>2, <2>3 DEF Keeps
  <2>. QED  BY <2>1, <2>2, <2>4
<1>5. CASE Last(done).c # "-" /\ Last(done).c = "."
  <2>1. [c |-> "newline", page |-> p] \in Marked
    BY DEF Marked, Characters
  <2>2. /\ Joined(done, s, p) = Append(done, [c |-> "newline", page |-> p]) \o OfPage(s, p)
        /\ SpanStart(done) = Len(done)
    BY <1>5 DEF Joined, SpanStart
  <2>. QED  BY <1>2, <2>1, <2>2, LineAdded
<1>6. CASE Last(done).c # "-" /\ Last(done).c # "."
  <2>1. Joined(done, s, p) = done \o OfPage(LStrip(s), p) /\ SpanStart(done) = Len(done)
    BY <1>6 DEF Joined, SpanStart
  <2>. QED  BY <1>2, <1>3, <2>1, PageAdded
<1>. QED  BY <1>4, <1>5, <1>6

\* _stitch_pages_with_spans adds its pages that way.
LEMMA AddPageStitches ==
  ASSUME NEW n \in Nat, NEW acc, Stitching(acc, n), pages[n + 1] \in Seq(Letters)
  PROVE  Stitching(AddPage(acc, n + 1), n + 1)
<1>. DEFINE s == RStrip(pages[n + 1])
            out == IF s = <<>> THEN acc.out
                   ELSE IF acc.out = <<>> THEN OfPage(s, n + 1) ELSE Joined(acc.out, s, n + 1)
            from == IF s = <<>> THEN Len(out) ELSE IF acc.out = <<>> THEN 0 ELSE SpanStart(acc.out)
<1>1. AddPage(acc, n + 1) =
        [out |-> out,
         spans |-> Append(acc.spans, [page |-> n + 1, first |-> from, last |-> Len(out)])]
  BY DEF AddPage
<1>2. acc.out \in Seq(Marked) /\ Len(acc.out) \in Nat
  BY DEF Stitching
<1>3. s \in Seq(Letters)
  BY StripKeepsLetters
<1>. HIDE DEF s
<1>4. Keeps(out, acc.out, from, n + 1)
  <2>1. CASE s = <<>>
    BY <1>2, <2>1 DEF Keeps
  <2>2. CASE s # <<>> /\ acc.out = <<>>
    <3>1. out = OfPage(s, n + 1) /\ from = 0
      BY <2>2
    <3>. HIDE DEF out, from
    <3>2. Len(out) \in Nat /\ Len(acc.out) = 0
      BY <1>2, <1>3, <2>2, <3>1, OfPageIsMarked
    <3>. QED  BY <1>3, <3>1, <3>2, OfPageIsMarked DEF Keeps
  <2>3. CASE s # <<>> /\ acc.out # <<>>
    <3>1. out = Joined(acc.out, s, n + 1) /\ from = SpanStart(acc.out)
      BY <2>3
    <3>. HIDE DEF out, from
    <3>. QED  BY <1>2, <1>3, <2>3, <3>1, JoinedKeeps
  <2>. QED  BY <2>1, <2>2, <2>3
<1>. HIDE DEF out, from
<1>. QED  BY <1>1, <1>4, PageExtends

\* What is stitched after p pages.
StitchedFrom(upTo, p) == IF p = 0 THEN [out |-> <<>>, spans |-> <<>>] ELSE AddPage(upTo[p - 1], p)

\* There is a function that stitches page after page.
LEMMA StitchingExists ==
  ASSUME NEW size \in Nat
  PROVE  \E upTo : upTo = [p \in 0..size |-> StitchedFrom(upTo, p)]
<1>. DEFINE Known(n) == \E upTo : upTo = [p \in 0..n |-> StitchedFrom(upTo, p)]
            Unknown == {n \in Nat : ~Known(n)}
<1>1. Known(0)
  <2>. DEFINE none == [p \in 0..0 |-> [out |-> <<>>, spans |-> <<>>]]
  <2>1. none = [p \in 0..0 |-> StitchedFrom(none, p)]
    BY DEF StitchedFrom
  <2>. HIDE DEF none
  <2>. QED  BY <2>1
<1>2. ASSUME NEW n \in Nat, Known(n) PROVE Known(n + 1)
  <2>1. PICK upTo : upTo = [p \in 0..n |-> StitchedFrom(upTo, p)]
    BY <1>2
  <2>. DEFINE more == [p \in 0..n + 1 |-> IF p = n + 1 THEN StitchedFrom(upTo, p) ELSE upTo[p]]
  <2>2. ASSUME NEW p \in 0..n + 1 PROVE more[p] = StitchedFrom(more, p)
    <3>1. p # 0 => more[p - 1] = upTo[p - 1]
      <4>. SUFFICES ASSUME p # 0 PROVE more[p - 1] = upTo[p - 1]
        OBVIOUS
      <4>1. p - 1 \in 0..n + 1 /\ p - 1 # n + 1
        BY <1>2
      <4>. QED  BY <4>1
    <3>2. StitchedFrom(more, p) = StitchedFrom(upTo, p)
      <4>. HIDE DEF more
      <4>. QED  BY <3>1 DEF StitchedFrom
    <3>3. more[p] = StitchedFrom(upTo, p)
      <4>1. CASE p = n + 1
        BY <4>1
      <4>2. CASE p # n + 1
        <5>1. p \in 0..n
          BY <1>2, <4>2
        <5>. QED  BY <2>1, <4>2, <5>1
      <4>. QED  BY <4>1, <4>2
    <3>. QED  BY <3>2, <3>3
  <2>3. more = [p \in 0..n + 1 |-> StitchedFrom(more, p)]
    <3>1. more = [p \in 0..n + 1 |-> more[p]]
      OBVIOUS
    <3>. HIDE DEF more
    <3>. QED  BY <2>2, <3>1
  <2>. HIDE DEF more
  <2>. QED  BY <2>3
<1>3. Unknown = {}
  <2>. SUFFICES ASSUME Unknown # {} PROVE FALSE
    OBVIOUS
  <2>1. PICK n \in Unknown : \A m \in Unknown : n <= m
    <3>1. Unknown \subseteq Nat
      OBVIOUS
    <3>. HIDE DEF Unknown
    <3>. QED  BY <3>1, LeastNatural
  <2>. HIDE DEF Known
  <2>2. n \in Nat /\ ~Known(n) /\ n # 0
    BY <1>1
  <2>3. n - 1 \in Nat /\ ~(n <= n - 1) /\ (n - 1) + 1 = n
    BY <2>2
  <2>4. Known(n - 1)
    BY <2>1, <2>3
  <2>5. Known((n - 1) + 1)
    BY <1>2, <2>3, <2>4
  <2>. QED  BY <2>2, <2>3, <2>5
<1>. HIDE DEF Known
<1>. QED
  <2>1. Known(size)
    BY <1>3
  <2>. QED  BY <2>1 DEF Known

\* No page, no text and no span.
LEMMA NothingStitched ==
  Stitching([out |-> <<>>, spans |-> <<>>], 0)
<1>. PICK acc : acc = [out |-> <<>>, spans |-> <<>>]
  OBVIOUS
<1>1. acc.out = <<>> /\ acc.spans = <<>>
  OBVIOUS
<1>2. acc.out \in Seq(Marked) /\ acc.spans \in Seq(Spans) /\ Len(acc.out) = 0 /\ Len(acc.spans) = 0
  BY <1>1
<1>3. \A p \in 1..0 : FALSE
  OBVIOUS
<1>. QED  BY <1>2, <1>3 DEF Stitching

\* All pages are stitched that way.
LEMMA StitchedStitches ==
  ASSUME pages \in Seq(Seq(Letters))
  PROVE  Stitching(Stitched, Len(pages))
<1>. PICK size \in Nat : size = Len(pages)
  OBVIOUS
<1>. DEFINE upTo == CHOOSE upTo : upTo = [p \in 0..size |-> StitchedFrom(upTo, p)]
<1>1. Stitched = upTo[size]
  BY DEF Stitched, StitchedFrom
<1>2. \A p \in 0..size : upTo[p] = StitchedFrom(upTo, p)
  <2>1. upTo = [p \in 0..size |-> StitchedFrom(upTo, p)]
    BY StitchingExists
  <2>. HIDE DEF upTo
  <2>. QED  BY <2>1
<1>. HIDE DEF upTo
<1>. DEFINE Wrong == {n \in 0..size : ~Stitching(upTo[n], n)}
<1>. SUFFICES ASSUME size \in Wrong PROVE FALSE
  BY <1>1
<1>3. PICK n \in Wrong : \A m \in Wrong : n <= m
  <2>1. Wrong \subseteq Nat /\ Wrong # {}
    OBVIOUS
  <2>. HIDE DEF Wrong
  <2>. QED  BY <2>1, LeastNatural
<1>4. n \in 0..size /\ ~Stitching(upTo[n], n)
  OBVIOUS
<1>5. CASE n = 0
  <2>1. upTo[0] = [out |-> <<>>, spans |-> <<>>]
    BY <1>2 DEF StitchedFrom
  <2>. QED  BY <1>4, <1>5, <2>1, NothingStitched
<1>6. CASE n # 0
  <2>. PICK m : m = n - 1
    OBVIOUS
  <2>1. m \in Nat /\ m \in 0..size /\ m + 1 = n /\ ~(n <= m) /\ n \in 1..size
    BY <1>4, <1>6
  <2>2. Stitching(upTo[m], m)
    BY <1>3, <2>1
  <2>3. pages[n] \in Seq(Letters)
    BY <2>1
  <2>4. Stitching(AddPage(upTo[m], m + 1), m + 1)
    BY <2>1, <2>2, <2>3, AddPageStitches
  <2>5. upTo[n] = AddPage(upTo[m], m + 1)
    BY <1>2, <1>4, <1>6, <2>1 DEF StitchedFrom
  <2>. QED  BY <1>4, <2>1, <2>4, <2>5
<1>. QED  BY <1>5, <1>6

\* While the spans are in order, the page of an offset is the page of the character there.
LEMMA PageIsKnown ==
  ASSUME NEW n \in Nat, NEW acc, Stitching(acc, n), InOrder(acc.spans), NEW x \in 0..Len(acc.out) - 1
  PROVE  PageOfOffset(acc.spans, x) = acc.out[x + 1].page
<1>. PICK spans, q : spans = acc.spans /\ q = acc.out[x + 1].page
  OBVIOUS
<1>. PICK starts : starts = [i \in DOMAIN spans |-> spans[i].first]
  OBVIOUS
<1>1. /\ spans \in Seq(Spans) /\ Len(spans) = n /\ DOMAIN spans = 1..n
      /\ \A p \in 1..n : spans[p].page = p /\ spans[p] \in Spans
  BY DEF Stitching
<1>2. x + 1 \in 1..Len(acc.out) /\ x \in Nat
  BY DEF Stitching
<1>3. /\ q \in 1..n /\ spans[q].first < x + 1 /\ x + 1 <= spans[q].last
      /\ \A r \in q + 1..n : x + 1 <= spans[r].first
  BY <1>2 DEF Stitching
<1>4. /\ starts \in Seq(Nat) /\ Len(starts) = n /\ DOMAIN starts = 1..n
      /\ \A i \in 1..n : starts[i] = spans[i].first /\ starts[i] \in Nat
  <2>1. \A i \in 1..n : spans[i].first \in Nat
    BY <1>1 DEF Spans
  <2>2. DOMAIN starts = 1..n /\ \A i \in 1..n : starts[i] = spans[i].first
    BY <1>1
  <2>3. starts \in [1..n -> Nat]
    BY <1>1, <2>1
  <2>. QED  BY <2>1, <2>2, <2>3
<1>5. \A i, j \in DOMAIN starts : i < j => starts[i] <= starts[j]
  BY <1>1, <1>4 DEF InOrder
<1>. PICK pos : pos = BisectRight(starts, x)
  OBVIOUS
<1>6. /\ pos \in 0..n
      /\ \A i \in 1..pos : starts[i] <= x
      /\ \A i \in pos + 1..n : x < starts[i]
  BY <1>2, <1>4, <1>5, BisectFinds
<1>7. pos = q
  <2>1. starts[q] <= x
    BY <1>2, <1>3, <1>4
  <2>2. ~(q \in pos + 1..n)
    <3>. SUFFICES ASSUME q \in pos + 1..n PROVE FALSE
      OBVIOUS
    <3>. PICK start : start = starts[q]
      OBVIOUS
    <3>1. x < start /\ start \in Nat
      BY <1>3, <1>4, <1>6
    <3>. QED  BY <1>2, <2>1, <3>1
  <2>3. q <= pos
    BY <1>3, <1>6, <2>2
  <2>4. ~(q < pos)
    <3>. SUFFICES ASSUME q < pos PROVE FALSE
      OBVIOUS
    <3>1. pos \in q + 1..n /\ pos \in 1..pos /\ pos \in 1..n
      BY <1>3, <1>6
    <3>2. x + 1 <= starts[pos] /\ starts[pos] <= x /\ starts[pos] \in Nat
      BY <1>3, <1>4, <1>6, <3>1
    <3>. QED  BY <1>2, <3>2
  <2>. QED  BY <1>3, <1>6, <2>3, <2>4
<1>8. pos > 0 /\ spans[pos].first <= x /\ x < spans[pos].last /\ spans[pos].page = q
  <2>1. spans[q] \in Spans /\ spans[q].page = q
    BY <1>1, <1>3
  <2>2. q > 0 /\ spans[q].first \in Nat /\ spans[q].last \in Nat
    BY <1>3, <2>1 DEF Spans
  <2>. PICK first, last : first = spans[q].first /\ last = spans[q].last
    OBVIOUS
  <2>3. first \in Nat /\ last \in Nat /\ first < x + 1 /\ x + 1 <= last
    BY <1>3, <2>2
  <2>4. first <= x /\ x < last
    BY <1>2, <2>3
  <2>. QED  BY <1>7, <2>1, <2>2, <2>4
<1>. QED  BY <1>8 DEF PageOfOffset

\* A piece starts inside its section.
LEMMA PiecesStartInside ==
  ASSUME NEW text, NEW total \in Nat, NEW from \in 0..total, NEW k \in SplitOversized(text, from, total)
  PROVE  k.first \in from..total - 1
<1>. DEFINE pieces == CHOOSE pieces : pieces = [s \in from..total |-> PiecesFrom(text, total, pieces, s)]
<1>1. SplitOversized(text, from, total) = pieces[from]
  BY DEF SplitOversized, PiecesFrom
<1>2. \A r \in from..total : pieces[r] = PiecesFrom(text, total, pieces, r)
  <2>1. pieces = [s \in from..total |-> PiecesFrom(text, total, pieces, s)]
    BY PiecesExist
  <2>. HIDE DEF pieces
  <2>. QED  BY <2>1
<1>. HIDE DEF pieces
<1>. DEFINE Wrong == {s \in from..total : \E p \in pieces[s] : p.first \notin from..total - 1}
<1>. SUFFICES ASSUME from \in Wrong PROVE FALSE
  BY <1>1
<1>3. PICK s \in Wrong : \A m \in Wrong : m <= s
  <2>1. \A m \in Wrong : m \in Nat /\ m <= total
    OBVIOUS
  <2>2. Wrong \subseteq Nat /\ Wrong # {}
    BY <2>1
  <2>. HIDE DEF Wrong
  <2>. QED  BY <2>1, <2>2, GreatestNatural
<1>4. s \in from..total /\ s \in Nat /\ from \in Nat /\ from <= s /\ s <= total
  OBVIOUS
<1>5. PICK p \in pieces[s] : p.first \notin from..total - 1
  OBVIOUS
<1>6. pieces[s] = PiecesFrom(text, total, pieces, s)
  BY <1>2, <1>4
<1>7. s # total
  BY <1>5, <1>6 DEF PiecesFrom
<1>. PICK cut : cut = Cut(text, s, total)
  OBVIOUS
<1>8. cut \in s + 1..total
  <2>1. s < total
    BY <1>4, <1>7
  <2>. QED  BY <1>4, <2>1, CutMoves
<1>9. p = [first |-> s, last |-> cut] \/ p \in pieces[cut]
  BY <1>5, <1>6, <1>7 DEF PiecesFrom
<1>10. p \in pieces[cut]
  <2>1. s \in from..total - 1
    BY <1>4, <1>7
  <2>. QED  BY <1>5, <1>9, <2>1
<1>11. cut \in from..total /\ ~(cut <= s)
  BY <1>4, <1>8
<1>12. cut \in Wrong
  BY <1>5, <1>10, <1>11
<1>. QED  BY <1>3, <1>11, <1>12

\* A chunk starts inside the text.
LEMMA ChunksStartInside ==
  ASSUME NEW text, Len(text) \in Nat
  PROVE  \A k \in FixedChunks(text) \cup SectionChunks(text) : k.first \in 0..Len(text) - 1
<1>1. \A k \in FixedChunks(text) : k.first \in 0..Len(text) - 1
  BY DEF FixedChunks
<1>2. ASSUME NEW k \in SectionChunks(text), k \notin FixedChunks(text)
      PROVE  k.first \in 0..Len(text) - 1
  <2>. DEFINE heads == {h \in 0..Len(text) - 1 : text[h + 1].c = "1"}
              bounds == {0, Len(text)} \cup heads
              sections == {sec \in bounds \X bounds :
                             sec[1] < sec[2] /\ \A b \in bounds : b <= sec[1] \/ b >= sec[2]}
              splits == {SplitOversized(text, sec[1], sec[2]) : sec \in sections}
              made == {c \in UNION splits : Visible(text, c)}
  <2>1. SectionChunks(text) = IF made = {} THEN FixedChunks(text) ELSE made
    BY DEF SectionChunks
  <2>2. k \in UNION splits
    <3>. HIDE DEF splits
    <3>. QED  BY <1>2, <2>1
  <2>3. PICK sec \in sections : k \in SplitOversized(text, sec[1], sec[2])
    <3>. HIDE DEF sections
    <3>. QED  BY <2>2
  <2>4. bounds \subseteq 0..Len(text)
    OBVIOUS
  <2>. HIDE DEF bounds
  <2>5. sec[1] \in bounds /\ sec[2] \in bounds /\ sec[1] < sec[2]
    OBVIOUS
  <2>. PICK from, total : from = sec[1] /\ total = sec[2]
    OBVIOUS
  <2>6. from \in 0..total /\ total \in Nat /\ total <= Len(text)
    BY <2>4, <2>5
  <2>7. k.first \in from..total - 1
    BY <2>3, <2>6, PiecesStartInside
  <2>. QED  BY <2>6, <2>7
<1>. QED  BY <1>1, <1>2

\* "Every chunk can be traced back to the page it came from", whatever the pages, as long
\* as the spans are in order; and no visible character is lost.
THEOREM ChunksAreTraced ==
  ChunkingSpec => []ChunksKnowTheirPage
<1>1. ASSUME PagesInit PROVE ChunksKnowTheirPage
  <2>1. pages \in Seq(Seq(Letters))
    <3>1. \A S, n : BoundedSeq(S, n) \subseteq Seq(S)
      BY DEF BoundedSeq, SeqOf
    <3>. QED  BY <1>1, <3>1 DEF PagesInit
  <2>. PICK n \in Nat : n = Len(pages)
    BY <2>1
  <2>. PICK acc : acc = Stitched
    OBVIOUS
  <2>2. Stitching(acc, n)
    BY <2>1, StitchedStitches
  <2>3. acc.out \in Seq(Marked) /\ Len(acc.out) \in Nat
    BY <2>2 DEF Stitching
  <2>. SUFFICES ASSUME NEW made \in {FixedChunks(acc.out), SectionChunks(acc.out)}
                PROVE  /\ \A k \in made :
                            InOrder(acc.spans) => PageOfOffset(acc.spans, k.first) = acc.out[k.first + 1].page
                       /\ \A i \in DOMAIN acc.out : acc.out[i].c \notin Blanks =>
                            \E k \in made : k.first < i /\ i <= k.last
    BY DEF ChunksKnowTheirPage
  <2>4. ASSUME NEW k \in made, InOrder(acc.spans)
        PROVE  PageOfOffset(acc.spans, k.first) = acc.out[k.first + 1].page
    <3>1. k \in FixedChunks(acc.out) \cup SectionChunks(acc.out)
      OBVIOUS
    <3>2. k.first \in 0..Len(acc.out) - 1
      BY <2>3, <3>1, ChunksStartInside
    <3>. QED  BY <2>2, <2>4, <3>2, PageIsKnown
  <2>5. \A i \in DOMAIN acc.out : acc.out[i].c \notin Blanks =>
          \E k \in made : k.first < i /\ i <= k.last
    BY <2>3, NoTextIsLost
  <2>. QED  BY <2>4, <2>5
<1>2. PagesInit /\ [FALSE]_pages => PagesInit'
  BY DEF PagesInit
<1>. QED  BY <1>1, <1>2, PTL DEF ChunkingSpec

--------------------------------------------------------------------------------
(***************************************************************************)
(* Ranking.                                                                *)
(***************************************************************************)

\* An order of the numbers up to n in which of any two one comes first.
Orders(T, n) ==
  /\ \A i \in 1..n : <<i, i>> \notin T
  /\ \A i, j \in 1..n : i # j => <<i, j>> \in T \/ <<j, i>> \in T
  /\ \A i, j, k \in 1..n : <<i, j>> \in T /\ <<j, k>> \in T => <<i, k>> \in T

\* Behind those that come before it: the place of each number in such an order.
PlaceIn(T, n) == [i \in 1..n |-> Cardinality({j \in 1..n : <<j, i>> \in T}) + 1]

\* Each has a place of its own, in the order, and no place stays empty.
Fills(place, T, n) ==
  /\ place \in [1..n -> 1..n]
  /\ \A i, j \in 1..n : <<i, j>> \in T => place[i] < place[j]
  /\ \A k \in 1..n : \E i \in 1..n : place[i] = k

LEMMA PlacesAreTaken ==
  ASSUME NEW n \in Nat, NEW T, Orders(T, n)
  PROVE  Fills(PlaceIn(T, n), T, n)
<1>. DEFINE before(i) == {j \in 1..n : <<j, i>> \in T}
<1>. PICK place : place = PlaceIn(T, n)
  OBVIOUS
<1>1. IsFiniteSet(1..n) /\ Cardinality(1..n) = n
  BY FS_Interval
<1>2. ASSUME NEW i \in 1..n
      PROVE  IsFiniteSet(before(i)) /\ Cardinality(before(i)) \in 0..n - 1 /\ place[i] = Cardinality(before(i)) + 1
  <2>1. before(i) \in SUBSET (1..n) /\ i \notin before(i)
    BY DEF Orders
  <2>2. place[i] = Cardinality(before(i)) + 1
    BY DEF PlaceIn
  <2>. HIDE DEF before
  <2>3. IsFiniteSet(before(i)) /\ Cardinality(before(i)) <= n /\ (n = Cardinality(before(i)) => 1..n = before(i))
    BY <1>1, <2>1, FS_Subset
  <2>4. Cardinality(before(i)) \in Nat /\ Cardinality(before(i)) # n
    BY <2>1, <2>3, FS_CardinalityType
  <2>. QED  BY <2>2, <2>3, <2>4
<1>3. place \in [1..n -> 1..n]
  <2>1. \A i \in 1..n : place[i] \in 1..n
    <3>. HIDE DEF before
    <3>. QED  BY <1>2
  <2>2. place = [i \in 1..n |-> place[i]]
    BY DEF PlaceIn
  <2>. QED  BY <2>1, <2>2
<1>4. ASSUME NEW i \in 1..n, NEW j \in 1..n, <<i, j>> \in T PROVE place[i] < place[j]
  <2>1. before(i) \in SUBSET before(j) /\ i \in before(j) /\ i \notin before(i)
    BY <1>4 DEF Orders
  <2>. HIDE DEF before
  <2>2. IsFiniteSet(before(j)) /\ before(i) # before(j)
    BY <1>2, <2>1
  <2>3. Cardinality(before(i)) <= Cardinality(before(j)) /\ Cardinality(before(j)) # Cardinality(before(i))
    BY <2>1, <2>2, FS_Subset
  <2>. QED  BY <1>2, <2>3
<1>5. place \in Injection(1..n, 1..n)
  <2>1. \A i, j \in 1..n : place[i] = place[j] => i = j
    <3>. SUFFICES ASSUME NEW i \in 1..n, NEW j \in 1..n, place[i] = place[j], i # j PROVE FALSE
      OBVIOUS
    <3>1. <<i, j>> \in T \/ <<j, i>> \in T
      BY DEF Orders
    <3>2. place[i] \in 1..n /\ place[j] \in 1..n
      BY <1>3
    <3>. QED  BY <1>4, <3>1, <3>2
  <2>. QED  BY <1>3, <2>1 DEF Injection, IsInjective
<1>6. place \in Surjection(1..n, 1..n)
  BY <1>1, <1>5, FS_Injection
<1>7. \A k \in 1..n : \E i \in 1..n : place[i] = k
  BY <1>6 DEF Surjection
<1>. QED  BY <1>3, <1>4, <1>7 DEF Fills

\* A list in another order: the same hits, and none of them twice if none was.
Rearranges(t, s, S) ==
  /\ t \in Seq(S) /\ Len(t) = Len(s) /\ ToSet(t) = ToSet(s)
  /\ IsInjective(s) => IsInjective(t)

\* In the order of T.
SortsBy(t, s, T) ==
  \A k, l \in 1..Len(s) : k < l =>
    \E i, j \in 1..Len(s) : t[k] = s[i] /\ t[l] = s[j] /\ <<i, j>> \in T

\* A list in the places of its hits.
Placed(s, T) ==
  [k \in DOMAIN s |-> s[CHOOSE i \in DOMAIN s : PlaceIn(T, Len(s))[i] = k]]

\* It is in that order.
LEMMA PlacedSorts ==
  ASSUME NEW S, NEW s \in Seq(S), NEW T, Orders(T, Len(s))
  PROVE  Rearranges(Placed(s, T), s, S) /\ SortsBy(Placed(s, T), s, T)
<1>. PICK n \in Nat : n = Len(s)
  OBVIOUS
<1>. PICK t, place : t = Placed(s, T) /\ place = PlaceIn(T, n)
  OBVIOUS
<1>0. Orders(T, n)
  OBVIOUS
<1>3. /\ place \in [1..n -> 1..n]
      /\ \A i, j \in 1..n : <<i, j>> \in T => place[i] < place[j]
      /\ \A k \in 1..n : \E i \in 1..n : place[i] = k
  <2>1. Fills(PlaceIn(T, n), T, n)
    BY <1>0, PlacesAreTaken
  <2>. QED  BY <2>1 DEF Fills
<1>. DEFINE at(k) == CHOOSE i \in 1..n : place[i] = k
<1>1. DOMAIN s = 1..n /\ \A i \in 1..n : s[i] \in S
  OBVIOUS
<1>2. t = [k \in 1..n |-> s[at(k)]]
  BY <1>1 DEF Placed
<1>4. \A k \in 1..n : at(k) \in 1..n /\ place[at(k)] = k
  BY <1>3
<1>5. \A i \in 1..n : at(place[i]) = i
  <2>. SUFFICES ASSUME NEW i \in 1..n, at(place[i]) # i PROVE FALSE
    OBVIOUS
  <2>. PICK j : j = at(place[i])
    OBVIOUS
  <2>1. j \in 1..n /\ place[j] = place[i] /\ place[i] \in Nat
    BY <1>3, <1>4
  <2>. HIDE DEF at
  <2>2. <<i, j>> \in T \/ <<j, i>> \in T
    BY <1>0, <2>1 DEF Orders
  <2>3. place[i] < place[j] \/ place[j] < place[i]
    BY <1>3, <2>1, <2>2
  <2>. QED  BY <2>1, <2>3
<1>. HIDE DEF at
<1>6. t \in Seq(S) /\ Len(t) = n /\ DOMAIN t = 1..n /\ \A k \in 1..n : t[k] = s[at(k)]
  <2>1. t \in [1..n -> S]
    BY <1>1, <1>2, <1>4
  <2>. QED  BY <1>2, <2>1
<1>7. ToSet(t) = ToSet(s)
  <2>1. ASSUME NEW x \in ToSet(t) PROVE x \in ToSet(s)
    BY <1>1, <1>4, <1>6, <2>1 DEF ToSet
  <2>2. ASSUME NEW x \in ToSet(s) PROVE x \in ToSet(t)
    <3>1. PICK i \in 1..n : x = s[i]
      BY <1>1, <2>2 DEF ToSet
    <3>2. place[i] \in 1..n /\ t[place[i]] = x
      BY <1>3, <1>5, <1>6, <3>1
    <3>. QED  BY <1>6, <3>2 DEF ToSet
  <2>. QED  BY <2>1, <2>2
<1>8. ASSUME IsInjective(s) PROVE IsInjective(t)
  <2>. SUFFICES ASSUME NEW k \in 1..n, NEW l \in 1..n, t[k] = t[l] PROVE k = l
    BY <1>6 DEF IsInjective
  <2>. PICK i, j : i = at(k) /\ j = at(l)
    OBVIOUS
  <2>1. i \in 1..n /\ j \in 1..n /\ place[i] = k /\ place[j] = l
    BY <1>4
  <2>2. s[i] = s[j]
    BY <1>6
  <2>3. i = j
    BY <1>1, <1>8, <2>1, <2>2 DEF IsInjective
  <2>. QED  BY <2>1, <2>3
<1>9. ASSUME NEW k \in 1..n, NEW l \in 1..n, k < l
      PROVE  \E i, j \in 1..n : t[k] = s[i] /\ t[l] = s[j] /\ <<i, j>> \in T
  <2>. PICK i, j : i = at(k) /\ j = at(l)
    OBVIOUS
  <2>1. i \in 1..n /\ j \in 1..n /\ place[i] = k /\ place[j] = l
    BY <1>4
  <2>2. <<i, j>> \in T
    <3>1. i # j
      BY <1>9, <2>1
    <3>2. ~(<<j, i>> \in T)
      BY <1>3, <1>9, <2>1
    <3>. QED  BY <1>0, <2>1, <3>1, <3>2 DEF Orders
  <2>. QED  BY <1>6, <2>1, <2>2
<1>. QED  BY <1>6, <1>7, <1>8, <1>9 DEF Rearranges, SortsBy

\* By score.
LEMMA RankedSorts ==
  ASSUME NEW s \in Seq(Hits), NEW score \in [Hits -> Nat]
  PROVE  /\ Rearranges(Ranked(s, score), s, Hits)
         /\ \A k, l \in 1..Len(s) : k < l => score[Ranked(s, score)[k]] >= score[Ranked(s, score)[l]]
<1>. PICK n \in Nat : n = Len(s)
  OBVIOUS
<1>1. DOMAIN s = 1..n /\ \A i \in 1..n : s[i] \in Hits /\ score[s[i]] \in Nat
  OBVIOUS
<1>. DEFINE T == {p \in (1..n) \X (1..n) :
                    score[s[p[1]]] > score[s[p[2]]]
                      \/ (~(score[s[p[2]]] > score[s[p[1]]]) /\ p[1] < p[2])}
<1>2. \A i, j \in 1..n :
        <<i, j>> \in T <=> score[s[i]] > score[s[j]] \/ (~(score[s[j]] > score[s[i]]) /\ i < j)
  OBVIOUS
<1>3. Orders(T, n)
  <2>. HIDE DEF T
  <2>1. \A i, j \in 1..n : i \in Nat /\ j \in Nat
    OBVIOUS
  <2>. QED  BY <1>1, <1>2, <2>1 DEF Orders
<1>4. Ranked(s, score) = Placed(s, T)
  <2>1. \A i \in 1..n : {j \in 1..n : <<j, i>> \in T} =
          {j \in 1..n : score[s[j]] > score[s[i]] \/ (~(score[s[i]] > score[s[j]]) /\ j < i)}
    <3>. HIDE DEF T
    <3>. QED  BY <1>2
  <2>2. PlaceIn(T, n) = [i \in 1..n |-> Cardinality(
          {j \in 1..n : score[s[j]] > score[s[i]] \/ (~(score[s[i]] > score[s[j]]) /\ j < i)}) + 1]
    <3>. HIDE DEF T
    <3>. QED  BY <2>1 DEF PlaceIn
  <2>. HIDE DEF T
  <2>. QED  BY <1>1, <2>2 DEF Ranked, StableSort, Placed
<1>. PICK t : t = Ranked(s, score)
  OBVIOUS
<1>. HIDE DEF T
<1>5. Rearranges(t, s, Hits) /\ SortsBy(t, s, T)
  BY <1>3, <1>4, PlacedSorts
<1>6. ASSUME NEW k \in 1..n, NEW l \in 1..n, k < l PROVE score[t[k]] >= score[t[l]]
  <2>0. /\ \A a, b \in 1..Len(s) :
              a < b => \E i, j \in 1..Len(s) : t[a] = s[i] /\ t[b] = s[j] /\ <<i, j>> \in T
        /\ k \in 1..Len(s) /\ l \in 1..Len(s)
    BY <1>5, Zenon DEF SortsBy
  <2>1. PICK i \in 1..n, j \in 1..n : t[k] = s[i] /\ t[l] = s[j] /\ <<i, j>> \in T
    BY <1>6, <2>0, Zenon
  <2>. QED  BY <1>1, <1>2, <2>1
<1>. QED  BY <1>5, <1>6

\* A level ranks as a number.
LEMMA TieRankType == \A l : TieRank(l) \in Nat
BY DEF TieRank

\* Ahead by one number, or by another where the first is the same.
Ahead(one, other, i, j) == one[i] > one[j] \/ (one[i] = one[j] /\ other[i] > other[j])

\* Nothing comes before what is ahead of it.
NeverBehind(one, other, T, n) ==
  \A i, j \in 1..n : <<i, j>> \in T => one[i] > one[j] \/ (one[i] = one[j] /\ other[i] >= other[j])

\* Going ahead by one score, then the other, then the place held so far, is an order,
\* and nobody in it is behind another by the first score.
LEMMA AheadOrders ==
  ASSUME NEW n \in Nat, NEW one \in [1..n -> Nat], NEW other \in [1..n -> Nat], NEW T,
         \A i, j \in 1..n :
           <<i, j>> \in T <=> Ahead(one, other, i, j) \/ (~Ahead(one, other, j, i) /\ i < j)
  PROVE  /\ Orders(T, n)
         /\ NeverBehind(one, other, T, n)
<1>1. \A i \in 1..n : i \in Nat /\ one[i] \in Nat /\ other[i] \in Nat
  OBVIOUS
<1>2. \A i, j \in 1..n : <<i, j>> \in T <=>
        \/ one[i] > one[j]
        \/ one[i] = one[j] /\ other[i] > other[j]
        \/ one[i] = one[j] /\ other[i] = other[j] /\ i < j
  <2>. SUFFICES ASSUME NEW i \in 1..n, NEW j \in 1..n
                PROVE  <<i, j>> \in T <=>
                         \/ one[i] > one[j]
                         \/ one[i] = one[j] /\ other[i] > other[j]
                         \/ one[i] = one[j] /\ other[i] = other[j] /\ i < j
    OBVIOUS
  <2>. PICK a, b, c, d : a = one[i] /\ b = one[j] /\ c = other[i] /\ d = other[j]
    OBVIOUS
  <2>1. a \in Nat /\ b \in Nat /\ c \in Nat /\ d \in Nat
    BY <1>1
  <2>2. <<i, j>> \in T <=>
          \/ a > b \/ (a = b /\ c > d)
          \/ ~(b > a \/ (b = a /\ d > c)) /\ i < j
    BY DEF Ahead
  <2>. QED  BY <2>1, <2>2
<1>3. \A i \in 1..n : <<i, i>> \notin T
  BY <1>1, <1>2
<1>4. \A i, j \in 1..n : i # j => <<i, j>> \in T \/ <<j, i>> \in T
  BY <1>1, <1>2
<1>5. \A i, j, k \in 1..n : <<i, j>> \in T /\ <<j, k>> \in T => <<i, k>> \in T
  <2>. SUFFICES ASSUME NEW i \in 1..n, NEW j \in 1..n, NEW k \in 1..n, <<i, j>> \in T, <<j, k>> \in T
                PROVE  <<i, k>> \in T
    OBVIOUS
  <2>. PICK a, b, c : a = one[i] /\ b = one[j] /\ c = one[k]
    OBVIOUS
  <2>. PICK d, e, f : d = other[i] /\ e = other[j] /\ f = other[k]
    OBVIOUS
  <2>1. /\ a \in Nat /\ b \in Nat /\ c \in Nat /\ d \in Nat /\ e \in Nat /\ f \in Nat
        /\ i \in Nat /\ j \in Nat /\ k \in Nat
    BY <1>1
  <2>2. a > b \/ (a = b /\ d > e) \/ (a = b /\ d = e /\ i < j)
    BY <1>2
  <2>3. b > c \/ (b = c /\ e > f) \/ (b = c /\ e = f /\ j < k)
    BY <1>2
  <2>4. a > c \/ (a = c /\ d > f) \/ (a = c /\ d = f /\ i < k)
    <3>1. a >= b /\ b >= c
      <4>1. a >= b
        BY <2>1, <2>2
      <4>2. b >= c
        BY <2>1, <2>3
      <4>. QED  BY <4>1, <4>2
    <3>2. CASE a > b \/ b > c
      BY <2>1, <3>1, <3>2
    <3>3. CASE ~(a > b \/ b > c)
      <4>1. a = b /\ b = c
        BY <2>1, <3>1, <3>3
      <4>2. (d > e \/ (d = e /\ i < j)) /\ (e > f \/ (e = f /\ j < k))
        BY <2>1, <2>2, <2>3, <4>1
      <4>3. d > f \/ (d = f /\ i < k)
        <5>1. d >= e /\ e >= f
          <6>1. d >= e
            <7>1. d > e \/ d = e
              BY <4>2
            <7>. QED  BY <2>1, <7>1
          <6>2. e >= f
            <7>1. e > f \/ e = f
              BY <4>2
            <7>. QED  BY <2>1, <7>1
          <6>. QED  BY <6>1, <6>2
        <5>2. CASE d > e \/ e > f
          BY <2>1, <5>1, <5>2
        <5>3. CASE ~(d > e \/ e > f)
          <6>1. d = f /\ i < j /\ j < k
            BY <2>1, <4>2, <5>1, <5>3
          <6>. QED  BY <2>1, <6>1
        <5>. QED  BY <5>2, <5>3
      <4>4. a = c
        BY <4>1
      <4>. QED  BY <4>3, <4>4
    <3>. QED  BY <3>2, <3>3
  <2>. QED  BY <1>2, <2>4
<1>6. \A i, j \in 1..n : <<i, j>> \in T => one[i] > one[j] \/ (one[i] = one[j] /\ other[i] >= other[j])
  BY <1>1, <1>2
<1>. QED  BY <1>3, <1>4, <1>5, <1>6 DEF Orders, NeverBehind

\* By score, and equal ones by authority.
LEMMA TieBrokenSorts ==
  ASSUME NEW s \in Seq(Hits), NEW score \in [Hits -> Nat]
  PROVE  /\ Rearranges(TieBroken(s, score), s, Hits)
         /\ \A k, l \in 1..Len(s) : k < l =>
              LET g == TieBroken(s, score)[k]
                  h == TieBroken(s, score)[l]
              IN \/ score[g] > score[h]
                 \/ score[g] = score[h] /\ TieRank(level[g]) >= TieRank(level[h])
<1>. PICK n \in Nat : n = Len(s)
  OBVIOUS
<1>. PICK one, other : /\ one = [i \in 1..n |-> score[s[i]]]
                       /\ other = [i \in 1..n |-> TieRank(level[s[i]])]
  OBVIOUS
<1>. DEFINE ahead(g, h) ==
              score[g] > score[h] \/ (score[g] = score[h] /\ TieRank(level[g]) > TieRank(level[h]))
            T == {p \in (1..n) \X (1..n) :
                    Ahead(one, other, p[1], p[2]) \/ (~Ahead(one, other, p[2], p[1]) /\ p[1] < p[2])}
<1>1. DOMAIN s = 1..n /\ \A i \in 1..n : s[i] \in Hits
  OBVIOUS
<1>2. \A i, j \in 1..n :
        <<i, j>> \in T <=> Ahead(one, other, i, j) \/ (~Ahead(one, other, j, i) /\ i < j)
  OBVIOUS
<1>. HIDE DEF T
<1>3. Orders(T, n) /\ NeverBehind(one, other, T, n)
  <2>1. one \in [1..n -> Nat] /\ other \in [1..n -> Nat]
    BY <1>1, TieRankType
  <2>. QED  BY <1>2, <2>1, AheadOrders
<1>4. TieBroken(s, score) = Placed(s, T)
  <2>1. \A i \in 1..n : {j \in 1..n : <<j, i>> \in T} =
          {j \in 1..n : ahead(s[j], s[i]) \/ (~ahead(s[i], s[j]) /\ j < i)}
    <3>1. \A i, j \in 1..n : Ahead(one, other, i, j) <=> ahead(s[i], s[j])
      BY DEF Ahead
    <3>. HIDE DEF ahead
    <3>. QED  BY <1>2, <3>1
  <2>2. PlaceIn(T, n) = [i \in 1..n |-> Cardinality(
          {j \in 1..n : ahead(s[j], s[i]) \/ (~ahead(s[i], s[j]) /\ j < i)}) + 1]
    <3>. HIDE DEF ahead
    <3>. QED  BY <2>1 DEF PlaceIn
  <2>. QED  BY <1>1, <2>2 DEF TieBroken, StableSort, Placed
<1>. PICK t : t = TieBroken(s, score)
  OBVIOUS
<1>5. Rearranges(t, s, Hits) /\ SortsBy(t, s, T)
  BY <1>3, <1>4, PlacedSorts
<1>6. ASSUME NEW k \in 1..n, NEW l \in 1..n, k < l
      PROVE  \/ score[t[k]] > score[t[l]]
             \/ score[t[k]] = score[t[l]] /\ TieRank(level[t[k]]) >= TieRank(level[t[l]])
  <2>0. /\ \A a, b \in 1..Len(s) :
              a < b => \E i, j \in 1..Len(s) : t[a] = s[i] /\ t[b] = s[j] /\ <<i, j>> \in T
        /\ k \in 1..Len(s) /\ l \in 1..Len(s)
    BY <1>5, Zenon DEF SortsBy
  <2>1. PICK i \in 1..n, j \in 1..n : t[k] = s[i] /\ t[l] = s[j] /\ <<i, j>> \in T
    BY <1>6, <2>0, Zenon
  <2>2. one[i] > one[j] \/ (one[i] = one[j] /\ other[i] >= other[j])
    BY <1>3, <2>1 DEF NeverBehind
  <2>3. /\ one[i] = score[t[k]] /\ one[j] = score[t[l]]
        /\ other[i] = TieRank(level[t[k]]) /\ other[j] = TieRank(level[t[l]])
    BY <2>1
  <2>. QED  BY <2>2, <2>3
<1>. QED  BY <1>5, <1>6

\* A function that takes each of its values from the one before.
Follows(f, n, base, step) == f[0] = base /\ \A p \in 1..n : f[p] = step[<<p, f[p - 1]>>]

LEMMA RecursionExists ==
  ASSUME NEW n \in Nat, NEW S, NEW base \in S, NEW step \in [(1..n) \X S -> S]
  PROVE  \E f \in [0..n -> S] : Follows(f, n, base, step)
<1>. SUFFICES \E f \in [0..n -> S] : f[0] = base /\ \A p \in 1..n : f[p] = step[<<p, f[p - 1]>>]
  BY DEF Follows
<1>. DEFINE Upto(f, m) == f \in [0..m -> S] /\ f[0] = base /\ \A p \in 1..m : f[p] = step[<<p, f[p - 1]>>]
            Unknown == {m \in 0..n : \A f : ~Upto(f, m)}
<1>. SUFFICES ASSUME n \in Unknown PROVE FALSE
  OBVIOUS
<1>1. PICK m \in Unknown : \A k \in Unknown : m <= k
  <2>1. Unknown \subseteq Nat /\ Unknown # {}
    OBVIOUS
  <2>. HIDE DEF Unknown
  <2>. QED  BY <2>1, LeastNatural
<1>2. m \in 0..n /\ \A f : ~Upto(f, m)
  OBVIOUS
<1>3. CASE m = 0
  <2>. PICK f : f = [p \in 0..0 |-> base]
    OBVIOUS
  <2>1. Upto(f, 0)
    OBVIOUS
  <2>. QED  BY <1>2, <1>3, <2>1
<1>4. CASE m # 0
  <2>. PICK k : k = m - 1
    OBVIOUS
  <2>1. k \in Nat /\ k \in 0..n /\ m = k + 1 /\ m \in 1..n /\ ~(m <= k)
    BY <1>2, <1>4
  <2>2. PICK f : Upto(f, k)
    <3>1. k \notin Unknown
      <4>. HIDE DEF Unknown
      <4>. QED  BY <1>1, <2>1
    <3>2. \E f : Upto(f, k)
      <4>. HIDE DEF Upto
      <4>. QED  BY <2>1, <3>1
    <3>. QED  BY <3>2
  <2>. PICK g : g = [p \in 0..m |-> IF p = m THEN step[<<m, f[k]>>] ELSE f[p]]
    OBVIOUS
  <2>3. \A p \in 0..m : p = m \/ p \in 0..k
    BY <2>1
  <2>4. step[<<m, f[k]>>] \in S
    BY <2>1, <2>2
  <2>5. g \in [0..m -> S]
    BY <2>2, <2>3, <2>4
  <2>6. \A p \in 0..k : g[p] = f[p]
    BY <2>1
  <2>7. ASSUME NEW p \in 1..m PROVE g[p] = step[<<p, g[p - 1]>>]
    <3>1. p - 1 \in 0..k /\ g[p - 1] = f[p - 1]
      BY <2>1, <2>6
    <3>2. CASE p = m
      <4>1. p - 1 = k /\ m \in 0..m
        BY <2>1, <3>2
      <4>2. g[m] = step[<<m, f[k]>>]
        BY <4>1
      <4>. QED  BY <3>1, <3>2, <4>1, <4>2
    <3>3. CASE p # m
      <4>1. p \in 1..k /\ p \in 0..k
        BY <2>1, <3>3
      <4>. QED  BY <2>2, <2>6, <3>1, <4>1
    <3>. QED  BY <3>2, <3>3
  <2>8. g[0] = base
    BY <2>1, <2>2, <2>6
  <2>9. Upto(g, m)
    BY <2>5, <2>7, <2>8
  <2>. HIDE DEF Upto
  <2>. QED  BY <1>2, <2>9
<1>. QED  BY <1>3, <1>4

\* Where a list has a hit, or behind its last one.
LEMMA RankOf ==
  ASSUME NEW s \in Seq(Hits), NEW h
  PROVE  \/ Contains(s, h) /\ h \in ToSet(s) /\ Rank(s, h) \in 1..Len(s) /\ s[Rank(s, h)] = h
         \/ ~Contains(s, h) /\ h \notin ToSet(s) /\ Rank(s, h) = Len(s) + 1
<1>1. Len(s) \in Nat /\ DOMAIN s = 1..Len(s) /\ (h \in ToSet(s) <=> Contains(s, h))
  BY DEF ToSet, Contains
<1>2. CASE Contains(s, h)
  <2>. DEFINE I == {i \in 1..Len(s) : s[i] = h}
  <2>1. I \subseteq Nat /\ I # {}
    BY <1>2 DEF Contains
  <2>2. Min(I) \in I
    <3>. HIDE DEF I
    <3>. QED  BY <2>1, LeastNatural DEF Min
  <2>3. Rank(s, h) = Min(I)
    <3>1. Rank(s, h) = SelectInSeq(s, LAMBDA g : g = h)
      BY <1>2 DEF Rank
    <3>2. SelectInSeq(s, LAMBDA g : g = h) = IF I # {} THEN Min(I) ELSE 0
      BY DEF SelectInSeq
    <3>. HIDE DEF I
    <3>. QED  BY <2>1, <3>1, <3>2
  <2>. QED  BY <1>1, <1>2, <2>2, <2>3
<1>3. CASE ~Contains(s, h)
  BY <1>1, <1>3 DEF Rank
<1>. QED  BY <1>2, <1>3

\* In a list that has it once.
LEMMA RankIs ==
  ASSUME NEW s \in Seq(Hits), IsInjective(s), NEW k \in 1..Len(s)
  PROVE  Rank(s, s[k]) = k
<1>1. s[k] \in ToSet(s) /\ DOMAIN s = 1..Len(s)
  BY DEF ToSet
<1>. PICK r : r = Rank(s, s[k])
  OBVIOUS
<1>2. r \in 1..Len(s) /\ s[r] = s[k]
  BY <1>1, RankOf
<1>. QED  BY <1>1, <1>2 DEF IsInjective

\* A hit that a list does not have, behind it.
AppendsOne(more, done, h) ==
  more \in Seq(Hits) /\ IsInjective(more) /\ ToSet(more) = ToSet(done) \cup {h}

LEMMA AppendedOnce ==
  ASSUME NEW done \in Seq(Hits), IsInjective(done), NEW h \in Hits, h \notin ToSet(done)
  PROVE  AppendsOne(Append(done, h), done, h)
<1>. PICK more, n : more = Append(done, h) /\ n = Len(done)
  OBVIOUS
<1>1. /\ n \in Nat /\ more \in Seq(Hits) /\ Len(more) = n + 1
      /\ (\A i \in 1..n : more[i] = done[i]) /\ more[n + 1] = h
  BY AppendProperties
<1>2. DOMAIN more = 1..n + 1 /\ DOMAIN done = 1..n /\ \A i \in 1..n : done[i] # h
  BY <1>1 DEF ToSet
<1>3. \A i \in 1..n + 1 : i = n + 1 \/ i \in 1..n
  BY <1>1
<1>4. IsInjective(more)
  <2>. SUFFICES ASSUME NEW i \in 1..n + 1, NEW j \in 1..n + 1, more[i] = more[j] PROVE i = j
    BY <1>2 DEF IsInjective
  <2>. QED  BY <1>1, <1>2, <1>3 DEF IsInjective
<1>5. ToSet(more) = ToSet(done) \cup {h}
  <2>1. \A i \in 1..n : i \in 1..n + 1
    BY <1>1
  <2>2. n + 1 \in 1..n + 1
    BY <1>1
  <2>. QED  BY <1>1, <1>2, <1>3, <2>1, <2>2 DEF ToSet
<1>. QED  BY <1>1, <1>4, <1>5 DEF AppendsOne

\* Two lists one after the other, each hit once.
LEMMA MetOnce ==
  ASSUME NEW first \in Seq(Hits), IsInjective(first), NEW second \in Seq(Hits), IsInjective(second)
  PROVE  /\ Met(first, second) \in Seq(Hits) /\ IsInjective(Met(first, second))
         /\ ToSet(Met(first, second)) = ToSet(first) \cup ToSet(second)
<1>. PICK n \in Nat : n = Len(second)
  OBVIOUS
<1>. DEFINE Next(done, p) == IF Contains(first, second[p]) THEN done ELSE Append(done, second[p])
            From(f, p) == IF p = 0 THEN first ELSE Next(f[p - 1], p)
            upTo == CHOOSE f : f = [p \in 0..n |-> From(f, p)]
<1>1. Met(first, second) = upTo[n]
  BY DEF Met
<1>2. upTo[0] = first /\ \A p \in 1..n : upTo[p] = Next(upTo[p - 1], p)
  <2>. DEFINE step == [pair \in (1..n) \X Seq(Hits) |-> Next(pair[2], pair[1])]
  <2>1. \A p \in 1..n, done \in Seq(Hits) : Next(done, p) \in Seq(Hits) /\ step[<<p, done>>] = Next(done, p)
    BY AppendProperties
  <2>2. step \in [(1..n) \X Seq(Hits) -> Seq(Hits)]
    <3>1. \A pair \in (1..n) \X Seq(Hits) : Next(pair[2], pair[1]) \in Seq(Hits)
      BY <2>1
    <3>. HIDE DEF Next
    <3>. QED  BY <3>1
  <2>. HIDE DEF step, Next
  <2>3. PICK f \in [0..n -> Seq(Hits)] : f[0] = first /\ \A p \in 1..n : f[p] = step[<<p, f[p - 1]>>]
    <3>1. \E f \in [0..n -> Seq(Hits)] : Follows(f, n, first, step)
      BY <2>2, RecursionExists
    <3>. QED  BY <3>1 DEF Follows
  <2>4. \A p \in 1..n : f[p] = Next(f[p - 1], p)
    <3>. SUFFICES ASSUME NEW p \in 1..n PROVE f[p] = Next(f[p - 1], p)
      OBVIOUS
    <3>1. p - 1 \in 0..n /\ f[p - 1] \in Seq(Hits)
      OBVIOUS
    <3>. QED  BY <2>1, <2>3, <3>1
  <2>5. f = [p \in 0..n |-> From(f, p)]
    <3>1. \A p \in 0..n : f[p] = From(f, p)
      <4>1. \A p \in 0..n : p = 0 \/ p \in 1..n
        OBVIOUS
      <4>. QED  BY <2>3, <2>4, <4>1
    <3>. HIDE DEF From
    <3>. QED  BY <3>1
  <2>6. upTo = [p \in 0..n |-> From(upTo, p)]
    <3>. HIDE DEF From
    <3>. QED  BY <2>5
  <2>. HIDE DEF upTo
  <2>7. \A p \in 0..n : upTo[p] = From(upTo, p)
    <3>. HIDE DEF From
    <3>. QED  BY <2>6
  <2>8. \A p \in 1..n : p \in 0..n /\ p # 0
    OBVIOUS
  <2>. QED  BY <2>7, <2>8
<1>. HIDE DEF upTo
<1>. DEFINE Good(p) == /\ upTo[p] \in Seq(Hits) /\ IsInjective(upTo[p])
                       /\ ToSet(upTo[p]) = ToSet(first) \cup {second[i] : i \in 1..p}
            Wrong == {p \in 0..n : ~Good(p)}
<1>3. Wrong = {}
  <2>. SUFFICES ASSUME Wrong # {} PROVE FALSE
    OBVIOUS
  <2>1. PICK m \in Wrong : \A k \in Wrong : m <= k
    <3>1. Wrong \subseteq Nat
      OBVIOUS
    <3>. HIDE DEF Wrong
    <3>. QED  BY <3>1, LeastNatural
  <2>2. m \in 0..n /\ ~Good(m)
    OBVIOUS
  <2>3. m # 0
    <3>1. Good(0)
      BY <1>2
    <3>. HIDE DEF Good
    <3>. QED  BY <2>2, <3>1
  <2>. PICK k : k = m - 1
    OBVIOUS
  <2>4. k \in Nat /\ k \in 0..n /\ m = k + 1 /\ m \in 1..n /\ ~(m <= k)
    BY <2>2, <2>3
  <2>5. Good(k)
    <3>. HIDE DEF Good
    <3>. QED  BY <2>1, <2>4
  <2>. PICK done, h : done = upTo[k] /\ h = second[m]
    OBVIOUS
  <2>6. upTo[m] = IF Contains(first, h) THEN done ELSE Append(done, h)
    BY <1>2, <2>4
  <2>7. {second[i] : i \in 1..m} = {second[i] : i \in 1..k} \cup {h}
    <3>1. \A i : i \in 1..m <=> i \in 1..k \/ i = m
      BY <2>4
    <3>. QED  BY <3>1
  <2>8. done \in Seq(Hits) /\ IsInjective(done) /\ h \in Hits
        /\ ToSet(done) = ToSet(first) \cup {second[i] : i \in 1..k}
    BY <2>4, <2>5
  <2>9. CASE Contains(first, h)
    <3>1. h \in ToSet(first)
      BY <2>9 DEF Contains, ToSet
    <3>2. Good(m)
      BY <2>6, <2>7, <2>8, <2>9, <3>1
    <3>. HIDE DEF Good
    <3>. QED  BY <2>2, <3>2
  <2>10. CASE ~Contains(first, h)
    <3>1. h \notin ToSet(first)
      BY <2>10 DEF Contains, ToSet
    <3>2. h \notin {second[i] : i \in 1..k}
      <4>. SUFFICES ASSUME NEW i \in 1..k, h = second[i] PROVE FALSE
        OBVIOUS
      <4>1. i \in DOMAIN second /\ m \in DOMAIN second /\ i # m
        BY <2>4
      <4>. QED  BY <4>1 DEF IsInjective
    <3>3. h \notin ToSet(done)
      BY <2>8, <3>1, <3>2
    <3>. PICK more : more = Append(done, h)
      OBVIOUS
    <3>4. AppendsOne(more, done, h)
      BY <2>8, <3>3, AppendedOnce
    <3>5. Good(m)
      BY <2>6, <2>7, <2>8, <2>10, <3>4 DEF AppendsOne
    <3>. HIDE DEF Good
    <3>. QED  BY <2>2, <3>5
  <2>. QED  BY <2>9, <2>10
<1>4. ToSet(second) = {second[i] : i \in 1..n}
  BY DEF ToSet
<1>5. Good(n)
  <2>. HIDE DEF Good
  <2>. QED  BY <1>3
<1>. QED  BY <1>1, <1>4, <1>5

\* A product is divided by each of its factors, into a number of its own.
LEMMA DenominatorsDivide ==
  Denominators \in Nat /\ \A r \in 1..MaxFound : \E m \in Nat \ {0} : Denominators = m * (RrfK + r - 1)
<1>0. MaxFound \in Nat /\ RrfK \in Nat \ {0}
  BY RankingAssumption
<1>. DEFINE Next(x, n) == x * (RrfK + n - 1)
            From(f, n) == IF n = 0 THEN 1 ELSE Next(f[n - 1], n)
            product == CHOOSE f : f = [n \in 0..MaxFound |-> From(f, n)]
<1>1. Denominators = product[MaxFound]
  BY DEF Denominators
<1>2. product[0] = 1 /\ \A n \in 1..MaxFound : product[n] = Next(product[n - 1], n)
  <2>. DEFINE step == [pair \in (1..MaxFound) \X Nat |-> Next(pair[2], pair[1])]
  <2>1. \A n \in 1..MaxFound, x \in Nat : Next(x, n) \in Nat /\ step[<<n, x>>] = Next(x, n)
    BY <1>0
  <2>2. step \in [(1..MaxFound) \X Nat -> Nat]
    <3>1. \A pair \in (1..MaxFound) \X Nat : Next(pair[2], pair[1]) \in Nat
      BY <2>1
    <3>. HIDE DEF Next
    <3>. QED  BY <3>1
  <2>. HIDE DEF step, Next
  <2>3. PICK f \in [0..MaxFound -> Nat] : Follows(f, MaxFound, 1, step)
    BY <1>0, <2>2, RecursionExists
  <2>4. f = [n \in 0..MaxFound |-> From(f, n)]
    <3>1. ASSUME NEW n \in 1..MaxFound PROVE f[n] = Next(f[n - 1], n)
      <4>1. n - 1 \in 0..MaxFound /\ f[n - 1] \in Nat
        BY <1>0
      <4>. QED  BY <2>1, <2>3, <4>1 DEF Follows
    <3>2. \A n \in 0..MaxFound : n = 0 \/ n \in 1..MaxFound
      BY <1>0
    <3>3. \A n \in 0..MaxFound : f[n] = From(f, n)
      BY <2>3, <3>1, <3>2 DEF Follows
    <3>. HIDE DEF From
    <3>. QED  BY <3>3
  <2>5. product = [n \in 0..MaxFound |-> From(product, n)]
    <3>. HIDE DEF From
    <3>. QED  BY <2>4
  <2>. HIDE DEF product
  <2>6. \A n \in 0..MaxFound : product[n] = From(product, n)
    <3>. HIDE DEF From
    <3>. QED  BY <2>5
  <2>7. \A n \in 1..MaxFound : n \in 0..MaxFound /\ n # 0
    BY <1>0
  <2>. QED  BY <1>0, <2>6, <2>7
<1>. HIDE DEF product
<1>. DEFINE Good(n) == /\ product[n] \in Nat \ {0}
                       /\ \A r \in 1..n : \E m \in Nat \ {0} : product[n] = m * (RrfK + r - 1)
            Wrong == {n \in 0..MaxFound : ~Good(n)}
<1>3. Wrong = {}
  <2>. SUFFICES ASSUME Wrong # {} PROVE FALSE
    OBVIOUS
  <2>1. PICK n \in Wrong : \A k \in Wrong : n <= k
    <3>1. Wrong \subseteq Nat
      BY <1>0
    <3>. HIDE DEF Wrong
    <3>. QED  BY <3>1, LeastNatural
  <2>2. n \in 0..MaxFound /\ ~Good(n) /\ n # 0
    <3>1. Good(0)
      BY <1>2
    <3>. HIDE DEF Good
    <3>. QED  BY <3>1
  <2>. PICK k : k = n - 1
    OBVIOUS
  <2>3. k \in Nat /\ k \in 0..MaxFound /\ n = k + 1 /\ n \in 1..MaxFound /\ ~(n <= k)
    BY <1>0, <2>2
  <2>4. Good(k)
    <3>. HIDE DEF Good
    <3>. QED  BY <2>1, <2>3
  <2>. PICK x, y : x = product[k] /\ y = RrfK + k
    OBVIOUS
  <2>5. x \in Nat \ {0} /\ y \in Nat \ {0} /\ product[n] = x * y
    <3>1. RrfK + n - 1 = y
      BY <1>0, <2>3
    <3>2. x \in Nat \ {0} /\ y \in Nat \ {0}
      BY <1>0, <2>3, <2>4
    <3>. QED  BY <1>2, <2>3, <3>1, <3>2
  <2>6. x * y \in Nat \ {0}
    BY <2>5
  <2>7. ASSUME NEW r \in 1..n PROVE \E m \in Nat \ {0} : x * y = m * (RrfK + r - 1)
    <3>1. CASE r = n
      <4>1. RrfK + r - 1 = y
        BY <1>0, <2>3, <3>1
      <4>. QED  BY <2>5, <4>1
    <3>2. CASE r # n
      <4>1. r \in 1..k
        BY <2>3, <3>2
      <4>. PICK z : z = RrfK + r - 1
        OBVIOUS
      <4>2. z \in Nat
        BY <1>0, <4>1
      <4>3. PICK m \in Nat \ {0} : x = m * z
        BY <2>4, <4>1
      <4>4. m * y \in Nat \ {0} /\ (m * z) * y = (m * y) * z
        BY <2>5, <4>2
      <4>. QED  BY <4>3, <4>4
    <3>. QED  BY <3>1, <3>2
  <2>8. Good(n)
    BY <2>5, <2>6, <2>7
  <2>. HIDE DEF Good
  <2>. QED  BY <2>2, <2>8
<1>4. Good(MaxFound)
  <2>. HIDE DEF Good
  <2>. QED  BY <1>0, <1>3
<1>. QED  BY <1>1, <1>4

\* A list as a retriever returns it.
Found(s) == s \in Seq(Hits) /\ IsInjective(s) /\ Len(s) <= MaxFound

\* The better a list has a hit, the more it adds.
LEMMA ShareFollowsRank ==
  ASSUME NEW s, Found(s), NEW g, NEW h
  PROVE  /\ Share(s, g) \in Nat
         /\ Rank(s, g) <= Rank(s, h) => Share(s, g) >= Share(s, h)
         /\ Rank(s, g) < Rank(s, h) => Share(s, g) > Share(s, h)
<1>0. MaxFound \in Nat /\ RrfK \in Nat \ {0} /\ s \in Seq(Hits) /\ Len(s) \in Nat /\ Len(s) <= MaxFound
  BY RankingAssumption DEF Found
<1>1. \A a, m \in Nat \ {0} : (m * a) \div a = m
  OBVIOUS
<1>2. ASSUME NEW x
      PROVE  \/ /\ Contains(s, x) /\ Rank(s, x) \in 1..Len(s) /\ Share(s, x) \in Nat \ {0}
                /\ Denominators = Share(s, x) * (RrfK + Rank(s, x) - 1)
             \/ ~Contains(s, x) /\ Rank(s, x) = Len(s) + 1 /\ Share(s, x) = 0
  <2>1. CASE Contains(s, x)
    <3>. PICK r, a : r = Rank(s, x) /\ a = RrfK + Rank(s, x) - 1
      OBVIOUS
    <3>1. r \in 1..Len(s)
      BY <1>0, <2>1, RankOf
    <3>2. r \in 1..MaxFound /\ a \in Nat \ {0}
      BY <1>0, <3>1
    <3>3. PICK m \in Nat \ {0} : Denominators = m * a
      BY <3>2, DenominatorsDivide
    <3>4. Share(s, x) = Denominators \div a
      BY <2>1 DEF Share
    <3>5. Share(s, x) = m
      BY <1>1, <3>2, <3>3, <3>4
    <3>. QED  BY <2>1, <3>1, <3>3, <3>5
  <2>2. CASE ~Contains(s, x)
    BY <1>0, <2>2, RankOf DEF Share
  <2>. QED  BY <2>1, <2>2
<1>3. \A a, b, m, k \in Nat \ {0} : a < b /\ m * a = k * b => m > k
  <2>. SUFFICES ASSUME NEW a \in Nat \ {0}, NEW b \in Nat \ {0}, NEW m \in Nat \ {0}, NEW k \in Nat \ {0},
                       a < b, m * a = k * b, m <= k
                PROVE  FALSE
    OBVIOUS
  <2>1. m * a <= k * a /\ k * a < k * b
    OBVIOUS
  <2>. QED  BY <2>1
<1>4. \A a, m, k \in Nat \ {0} : m * a = k * a => m = k
  OBVIOUS
<1>. PICK p, q, m, k : p = Rank(s, g) /\ q = Rank(s, h) /\ m = Share(s, g) /\ k = Share(s, h)
  OBVIOUS
<1>5. m \in Nat /\ k \in Nat /\ p \in Nat /\ q \in Nat
  BY <1>0, <1>2
<1>6. ASSUME p < q PROVE m > k
  <2>1. p \in 1..Len(s) /\ m \in Nat \ {0} /\ Denominators = m * (RrfK + p - 1)
    BY <1>0, <1>2, <1>6
  <2>2. CASE k = 0
    BY <2>1, <2>2
  <2>3. CASE k # 0
    <3>1. q \in 1..Len(s) /\ k \in Nat \ {0} /\ Denominators = k * (RrfK + q - 1)
      BY <1>2, <2>3
    <3>2. /\ RrfK + p - 1 \in Nat \ {0} /\ RrfK + q - 1 \in Nat \ {0}
          /\ RrfK + p - 1 < RrfK + q - 1
      <4>1. p \in Nat \ {0}
        BY <1>5, <2>1
      <4>2. q \in Nat \ {0}
        BY <1>5, <3>1
      <4>3. RrfK \in Nat \ {0}
        BY RankingAssumption
      <4>4. p < q
        BY <1>6
      <4>. QED  BY <4>1, <4>2, <4>3, <4>4
    <3>. QED  BY <1>3, <2>1, <3>1, <3>2
  <2>. QED  BY <2>2, <2>3
<1>7. ASSUME p = q PROVE m = k
  <2>1. CASE p \in 1..Len(s)
    <3>1. /\ m \in Nat \ {0} /\ Denominators = m * (RrfK + p - 1)
          /\ k \in Nat \ {0} /\ Denominators = k * (RrfK + p - 1)
      <4>1. p # Len(s) + 1 /\ q # Len(s) + 1
        BY <1>0, <1>7, <2>1
      <4>2. m \in Nat \ {0} /\ Denominators = m * (RrfK + p - 1)
        BY <1>2, <4>1
      <4>3. k \in Nat \ {0} /\ Denominators = k * (RrfK + q - 1)
        BY <1>2, <4>1
      <4>. QED  BY <1>7, <4>2, <4>3
    <3>2. RrfK + p - 1 \in Nat \ {0}
      BY <1>0, <2>1
    <3>. QED  BY <1>4, <3>1, <3>2
  <2>2. CASE p \notin 1..Len(s)
    BY <1>2, <1>7, <2>2
  <2>. QED  BY <2>1, <2>2
<1>. QED  BY <1>5, <1>6, <1>7

\* A hit that beats another has the higher score.
LEMMA BeatsScoresHigher ==
  ASSUME NEW first, Found(first), NEW second, Found(second), NEW g, NEW h
  PROVE  /\ Score(first, second, g) \in Nat
         /\ Beats(first, second, g, h) => Score(first, second, g) > Score(first, second, h)
<1>. PICK a, b, c, d : /\ a = Share(first, g) /\ b = Share(second, g)
                       /\ c = Share(first, h) /\ d = Share(second, h)
  OBVIOUS
<1>1. a \in Nat /\ b \in Nat /\ c \in Nat /\ d \in Nat
  BY ShareFollowsRank
<1>2. Score(first, second, g) = a + b /\ Score(first, second, h) = c + d
  BY DEF Score
<1>3. ASSUME Beats(first, second, g, h) PROVE a + b > c + d
  <2>1. a >= c /\ b >= d /\ (a > c \/ b > d)
    BY <1>3, ShareFollowsRank DEF Beats, Sooner
  <2>. QED  BY <1>1, <2>1
<1>. QED  BY <1>1, <1>2, <1>3

\* What a fusion makes of two lists: their hits, each once, by score and then by authority.
Fuses(f, first, second) ==
  /\ f \in Seq(Hits) /\ IsInjective(f) /\ ToSet(f) = ToSet(first) \cup ToSet(second)
  /\ \A k, l \in 1..Len(f) : k < l =>
       \/ Score(first, second, f[k]) > Score(first, second, f[l])
       \/ /\ Score(first, second, f[k]) = Score(first, second, f[l])
          /\ TieRank(level[f[k]]) >= TieRank(level[f[l]])

LEMMA FusedFuses ==
  ASSUME NEW first, Found(first), NEW second, Found(second)
  PROVE  Fuses(Fused(first, second), first, second)
<1>. PICK met : met = Met(first, second)
  OBVIOUS
<1>. PICK score : score = [h \in Hits |-> Score(first, second, h)]
  OBVIOUS
<1>. PICK r : r = Ranked(met, score)
  OBVIOUS
<1>1. met \in Seq(Hits) /\ IsInjective(met) /\ ToSet(met) = ToSet(first) \cup ToSet(second)
  BY MetOnce DEF Found
<1>2. score \in [Hits -> Nat]
  BY BeatsScoresHigher
<1>3. Rearranges(r, met, Hits)
  BY <1>1, <1>2, RankedSorts
<1>4. r \in Seq(Hits) /\ IsInjective(r) /\ ToSet(r) = ToSet(met)
  BY <1>1, <1>3 DEF Rearranges
<1>. PICK f : f = TieBroken(r, score)
  OBVIOUS
<1>5. f = Fused(first, second)
  BY DEF Fused
<1>6. /\ Rearranges(f, r, Hits)
      /\ \A k, l \in 1..Len(r) : k < l =>
           \/ score[f[k]] > score[f[l]]
           \/ score[f[k]] = score[f[l]] /\ TieRank(level[f[k]]) >= TieRank(level[f[l]])
  BY <1>2, <1>4, TieBrokenSorts
<1>7. f \in Seq(Hits) /\ IsInjective(f) /\ ToSet(f) = ToSet(met) /\ Len(f) = Len(r)
  BY <1>4, <1>6 DEF Rearranges
<1>8. \A k \in 1..Len(f) : score[f[k]] = Score(first, second, f[k])
  BY <1>7
<1>9. \A k, l \in 1..Len(f) : k < l =>
        \/ Score(first, second, f[k]) > Score(first, second, f[l])
        \/ /\ Score(first, second, f[k]) = Score(first, second, f[l])
           /\ TieRank(level[f[k]]) >= TieRank(level[f[l]])
  <2>. SUFFICES ASSUME NEW k \in 1..Len(f), NEW l \in 1..Len(f), k < l
                PROVE  \/ Score(first, second, f[k]) > Score(first, second, f[l])
                       \/ /\ Score(first, second, f[k]) = Score(first, second, f[l])
                          /\ TieRank(level[f[k]]) >= TieRank(level[f[l]])
    OBVIOUS
  <2>1. \/ score[f[k]] > score[f[l]]
        \/ score[f[k]] = score[f[l]] /\ TieRank(level[f[k]]) >= TieRank(level[f[l]])
    BY <1>6, <1>7
  <2>2. score[f[k]] = Score(first, second, f[k]) /\ score[f[l]] = Score(first, second, f[l])
    BY <1>8
  <2>. QED  BY <2>1, <2>2
<1>. QED  BY <1>1, <1>5, <1>7, <1>9 DEF Fuses

\* A fusion is in the order both lists justify.
LEMMA FusionInOrder ==
  ASSUME NEW first, Found(first), NEW second, Found(second)
  PROVE  FusedInOrder(first, second)
<1>. PICK f : f = Fused(first, second)
  OBVIOUS
<1>1. Fuses(f, first, second)
  BY FusedFuses
<1>. SUFFICES ASSUME NEW g \in ToSet(f), NEW h \in ToSet(f),
                     \/ Beats(first, second, g, h)
                     \/ Score(first, second, g) = Score(first, second, h)
                        /\ TieRank(level[g]) > TieRank(level[h])
              PROVE  Sooner(f, g, h)
  BY DEF FusedInOrder
<1>. PICK k, l : k = Rank(f, g) /\ l = Rank(f, h)
  OBVIOUS
<1>2. k \in 1..Len(f) /\ l \in 1..Len(f) /\ f[k] = g /\ f[l] = h /\ Len(f) \in Nat
  BY <1>1, RankOf DEF Fuses
<1>. PICK a, b, c, d : /\ a = Score(first, second, g) /\ b = Score(first, second, h)
                       /\ c = TieRank(level[g]) /\ d = TieRank(level[h])
  OBVIOUS
<1>3. a \in Nat /\ b \in Nat /\ c \in Nat /\ d \in Nat
  BY BeatsScoresHigher, TieRankType
<1>4. a > b \/ (a = b /\ c > d)
  BY BeatsScoresHigher
<1>5. l < k => b > a \/ (b = a /\ d >= c)
  BY <1>1, <1>2 DEF Fuses
<1>6. k # l
  BY <1>2, <1>3, <1>4
<1>7. k < l
  BY <1>2, <1>3, <1>4, <1>5, <1>6
<1>. QED  BY <1>7 DEF Sooner

\* The first of a list.
LEMMA TopmostIsFirst ==
  ASSUME NEW s \in Seq(Hits), NEW topK \in Nat
  PROVE  /\ Topmost(s, topK) \in Seq(Hits)
         /\ Len(Topmost(s, topK)) <= topK /\ Len(Topmost(s, topK)) <= Len(s)
         /\ Len(s) <= topK => Len(Topmost(s, topK)) = Len(s)
         /\ \A i \in 1..Len(Topmost(s, topK)) : Topmost(s, topK)[i] = s[i]
<1>. PICK n \in Nat : n = IF topK < Len(s) THEN topK ELSE Len(s)
  OBVIOUS
<1>1. n <= topK /\ n <= Len(s) /\ (Len(s) <= topK => n = Len(s)) /\ Len(s) \in Nat
  OBVIOUS
<1>2. \A i \in 1..n : s[i] \in Hits
  BY <1>1
<1>3. /\ SubSeq(s, 1, n) \in Seq(Hits)
      /\ Len(SubSeq(s, 1, n)) = IF 1 <= n THEN n - 1 + 1 ELSE 0
      /\ \A i \in 1..n - 1 + 1 : SubSeq(s, 1, n)[i] = s[1 + i - 1]
  BY <1>2, SubSeqProperties
<1>4. Topmost(s, topK) = SubSeq(s, 1, n)
  BY DEF Topmost
<1>5. Len(Topmost(s, topK)) = n
  BY <1>3, <1>4
<1>6. \A i \in 1..n : i \in 1..n - 1 + 1 /\ 1 + i - 1 = i
  OBVIOUS
<1>7. \A i \in 1..n : Topmost(s, topK)[i] = s[i]
  BY <1>3, <1>4, <1>6
<1>. QED  BY <1>1, <1>3, <1>4, <1>5, <1>7

\* As many as an answer may use are a list again.
LEMMA TopmostFound ==
  ASSUME NEW s \in Seq(Hits), IsInjective(s)
  PROVE  Found(Topmost(s, MaxFound))
<1>. PICK t : t = Topmost(s, MaxFound)
  OBVIOUS
<1>1. MaxFound \in Nat
  BY RankingAssumption
<1>2. /\ t \in Seq(Hits) /\ Len(t) <= MaxFound /\ Len(t) <= Len(s)
      /\ \A i \in 1..Len(t) : t[i] = s[i]
  BY <1>1, TopmostIsFirst
<1>3. DOMAIN t = 1..Len(t) /\ DOMAIN s = 1..Len(s) /\ \A i \in 1..Len(t) : i \in 1..Len(s)
  BY <1>2
<1>4. IsInjective(t)
  BY <1>2, <1>3 DEF IsInjective
<1>. QED  BY <1>2, <1>4 DEF Found

\* No hit is left out for one that it beats.
LEMMA NoneLeftOut ==
  ASSUME NEW first, Found(first), NEW second, Found(second)
  PROVE  LET f == Fused(first, second)
             top == Topmost(f, MaxFound)
         IN \A g \in ToSet(top), h \in ToSet(first \o second) \ ToSet(top) : ~Beats(first, second, h, g)
<1>. PICK f, top : f = Fused(first, second) /\ top = Topmost(f, MaxFound)
  OBVIOUS
<1>. SUFFICES ASSUME NEW g \in ToSet(top), NEW h \in ToSet(first \o second), h \notin ToSet(top),
                     Beats(first, second, h, g)
              PROVE  FALSE
  OBVIOUS
<1>1. Fuses(f, first, second)
  BY FusedFuses
<1>2. f \in Seq(Hits) /\ IsInjective(f) /\ ToSet(f) = ToSet(first) \cup ToSet(second) /\ Len(f) \in Nat
  BY <1>1 DEF Fuses
<1>3. /\ top \in Seq(Hits) /\ Len(top) \in Nat /\ Len(top) <= Len(f)
      /\ \A i \in 1..Len(top) : top[i] = f[i]
  BY <1>2, TopmostIsFirst, RankingAssumption
<1>4. PICK k \in 1..Len(top) : g = top[k]
  BY <1>3 DEF ToSet
<1>5. k \in 1..Len(f) /\ g = f[k] /\ Rank(f, g) = k /\ g \in ToSet(f)
  <2>1. k \in 1..Len(f) /\ g = f[k] /\ DOMAIN f = 1..Len(f)
    BY <1>2, <1>3, <1>4
  <2>. QED  BY <1>2, <2>1, RankIs DEF ToSet
<1>6. h \in ToSet(f)
  <2>1. first \in Seq(Hits) /\ second \in Seq(Hits)
    BY DEF Found
  <2>2. h \in ToSet(first) \cup ToSet(second)
    <3>1. /\ Len(first \o second) = Len(first) + Len(second) /\ first \o second \in Seq(Hits)
          /\ \A i \in 1..Len(first) + Len(second) :
               (first \o second)[i] = IF i <= Len(first) THEN first[i] ELSE second[i - Len(first)]
      BY <2>1, ConcatProperties
    <3>2. PICK i \in 1..Len(first) + Len(second) : h = (first \o second)[i]
      BY <3>1 DEF ToSet
    <3>3. Len(first) \in Nat /\ Len(second) \in Nat /\ DOMAIN first = 1..Len(first) /\ DOMAIN second = 1..Len(second)
      BY <2>1
    <3>4. CASE i <= Len(first)
      <4>1. h = first[i] /\ i \in 1..Len(first)
        BY <3>1, <3>2, <3>3, <3>4
      <4>. QED  BY <3>3, <4>1 DEF ToSet
    <3>5. CASE ~(i <= Len(first))
      <4>1. h = second[i - Len(first)] /\ i - Len(first) \in 1..Len(second)
        BY <3>1, <3>2, <3>3, <3>5
      <4>. QED  BY <3>3, <4>1 DEF ToSet
    <3>. QED  BY <3>4, <3>5
  <2>. QED  BY <1>2, <2>2
<1>7. Rank(f, h) \in 1..Len(f) /\ f[Rank(f, h)] = h
  BY <1>2, <1>6, RankOf
<1>8. Rank(f, h) < Rank(f, g)
  BY <1>5, <1>6, FusionInOrder DEF FusedInOrder, Sooner
<1>9. Rank(f, h) \in 1..Len(top)
  BY <1>3, <1>4, <1>5, <1>7, <1>8
<1>10. h = top[Rank(f, h)] /\ DOMAIN top = 1..Len(top)
  BY <1>3, <1>7, <1>9
<1>. QED  BY <1>9, <1>10 DEF ToSet

\* One leg on its own is in the order of its scores, and equal ones go by authority.
LEMMA OneLegIsInOrder ==
  ASSUME NEW found, Found(found)
  PROVE  OneLegInOrder(found)
<1>. SUFFICES ASSUME NEW native \in [Hits -> 0..1], NEW i \in 2..Len(OneLeg(found, native))
              PROVE  LET s == OneLeg(found, native) IN
                       \/ native[s[i - 1]] > native[s[i]]
                       \/ TieRank(level[s[i - 1]]) >= TieRank(level[s[i]])
  BY DEF OneLegInOrder
<1>. PICK s : s = TieBroken(found, native)
  OBVIOUS
<1>1. found \in Seq(Hits) /\ native \in [Hits -> Nat]
  BY DEF Found
<1>2. /\ Rearranges(s, found, Hits)
      /\ \A k, l \in 1..Len(found) : k < l =>
           \/ native[s[k]] > native[s[l]]
           \/ native[s[k]] = native[s[l]] /\ TieRank(level[s[k]]) >= TieRank(level[s[l]])
  BY <1>1, TieBrokenSorts
<1>3. s = OneLeg(found, native) /\ Len(s) = Len(found) /\ Len(found) \in Nat
  BY <1>1, <1>2 DEF Rearranges, OneLeg
<1>4. i - 1 \in 1..Len(found) /\ i \in 1..Len(found) /\ i - 1 < i
  BY <1>3
<1>. QED  BY <1>2, <1>3, <1>4

\* A rerank keeps what it is given.
LEMMA RerankKeepsAll ==
  ASSUME NEW s, Found(s)
  PROVE  RerankKeeps(s)
<1>. SUFFICES ASSUME NEW similarity \in [Hits -> 0..1]
              PROVE  ToSet(Reranked(s, similarity, MaxFound)) = ToSet(s)
  BY DEF RerankKeeps
<1>1. s \in Seq(Hits) /\ similarity \in [Hits -> Nat] /\ MaxFound \in Nat /\ Len(s) <= MaxFound
  BY RankingAssumption DEF Found
<1>. PICK r : r = Ranked(s, similarity)
  OBVIOUS
<1>. PICK t : t = Topmost(r, MaxFound)
  OBVIOUS
<1>2. Rearranges(r, s, Hits)
  BY <1>1, RankedSorts
<1>3. r \in Seq(Hits) /\ Len(r) = Len(s) /\ ToSet(r) = ToSet(s)
  BY <1>2 DEF Rearranges
<1>4. t \in Seq(Hits) /\ Len(t) = Len(r) /\ \A i \in 1..Len(t) : t[i] = r[i]
  BY <1>1, <1>3, TopmostIsFirst
<1>5. ToSet(t) = ToSet(r)
  <2>1. DOMAIN t = 1..Len(t) /\ DOMAIN r = 1..Len(t)
    BY <1>3, <1>4
  <2>. QED  BY <1>4, <2>1 DEF ToSet
<1>. QED  BY <1>3, <1>5 DEF Reranked

\* Whatever the legs and the rewriting found, however many hits and authorities there are:
\* the evidence is in the order both retrievals justify, ties go by authority, no hit is
\* left out for one that it beats, and reranking loses none.
THEOREM EvidenceIsInOrder ==
  RankingSpec => []BetterHitsComeFirst
<1>1. ASSUME RankingInit PROVE BetterHitsComeFirst
  <2>1. ASSUME NEW s \in Lists PROVE Found(s)
    <3>1. MaxFound \in Nat /\ s \in BoundedSeq(Hits, MaxFound) /\ IsInjective(s)
      BY RankingAssumption DEF Lists
    <3>2. PICK m \in 0..MaxFound : s \in [1..m -> Hits]
      BY <3>1 DEF BoundedSeq, SeqOf
    <3>3. s \in Seq(Hits) /\ Len(s) = m
      BY <3>1, <3>2
    <3>. QED  BY <3>1, <3>2, <3>3 DEF Found
  <2>2. Found(dense) /\ Found(sparse) /\ Found(variant)
    BY <1>1, <2>1 DEF RankingInit
  <2>3. Found(Question)
    <3>1. Fuses(Fused(dense, sparse), dense, sparse)
      BY <2>2, FusedFuses
    <3>2. Fused(dense, sparse) \in Seq(Hits) /\ IsInjective(Fused(dense, sparse))
      BY <3>1 DEF Fuses
    <3>. QED  BY <3>2, TopmostFound DEF Question
  <2>4. FusedInOrder(dense, sparse) /\ FusedInOrder(Question, variant)
    BY <2>2, <2>3, FusionInOrder
  <2>5. \A g \in ToSet(Evidence), h \in ToSet(Question \o variant) \ ToSet(Evidence) :
          ~Beats(Question, variant, h, g)
    BY <2>2, <2>3, NoneLeftOut DEF Evidence
  <2>6. OneLegInOrder(dense) /\ RerankKeeps(Question)
    BY <2>2, <2>3, OneLegIsInOrder, RerankKeepsAll
  <2>. QED  BY <2>4, <2>5, <2>6 DEF BetterHitsComeFirst
<1>2. RankingInit /\ [UNCHANGED rankingVars]_rankingVars => RankingInit'
  BY DEF RankingInit, Lists, rankingVars
<1>. QED  BY <1>1, <1>2, PTL DEF RankingSpec
================================================================================
