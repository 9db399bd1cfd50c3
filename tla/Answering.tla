------------------------------- MODULE Answering -------------------------------
(***************************************************************************)
(* A policy question, from the input guard to the saved turn, with the     *)
(* two legs of retrieval and the model providers failing under it, while   *)
(* documents are deleted and an administrator switches the provider.       *)
(*                                                                         *)
(*   routes/policy_qa             ask_question, sessions, feedback         *)
(*   scenarios/policy_qa          orchestrator, context_manager            *)
(*   rag/retrieval                retriever, fusion                        *)
(*   rag/llm                      model_router, fallback, orchestrator     *)
(*   guardrails                   input_guard, output_guard                *)
(*                                                                         *)
(* A text is the property the guards look for: "plain", "injection" or     *)
(* "unsafe". A retrieval is a set of chunks; Ranking puts it in order.     *)
(***************************************************************************)
EXTENDS Integers, Sequences, FiniteSets, Functions, SequencesExt

CONSTANTS
  Dialogues,   \* requests
  Policies,    \* documents with evidence
  Tainted,     \* those whose text tries to instruct the model
  KeptHits,    \* retrieval_top_k
  MaxTurns,    \* BOUND: turns of the session
  MaxMessages  \* DEFAULT_MAX_HISTORY_MESSAGES

ASSUME AnsweringAssumption ==
  /\ Tainted \subseteq Policies /\ KeptHits \in Nat \ {0} /\ MaxTurns \in Nat /\ MaxMessages \in Nat \ {0}

Legs == {"dense", "sparse"}
Providers == {"zhipu", "deepseek"}
ModelOf == [zhipu |-> "glm", deepseek |-> "chat"]

VARIABLES
  shownRows,    \* documents with chunk rows
  activeModel,  \* _ACTIVE_PROVIDER
  turns,        \* the session: what each saved answer says, with sources or without
  rated,        \* turns with feedback
  ask           \* where each request stands

answeringVars == <<shownRows, activeModel, turns, rated, ask>>

NotAsked == [at |-> "none"]

AnsweringInit ==
  /\ shownRows = Policies /\ activeModel \in Providers
  /\ turns = <<>> /\ rated = {} /\ ask = [r \in Dialogues |-> NotAsked]

To(r, next) == ask' = [ask EXCEPT ![r] = next]

\* The record q with the fields given.
Overlaid(q, fields) ==
  [f \in DOMAIN q \cup DOMAIN fields |-> IF f \in DOMAIN fields THEN fields[f] ELSE q[f]]
Still(r, fields) == To(r, Overlaid(ask[r], fields))
Fails(r) == To(r, [at |-> "failed"])

(***************************************************************************)
(* History and input.                                                      *)
(***************************************************************************)

Messages == (DOMAIN turns) \X {"user", "assistant"}

\* load_history and _clip_history: the latest messages, of which the budget of
\* tokens keeps the last ones, at least one. The two messages of a turn share
\* their created_at, so which of them is the later one is anybody's guess.
Histories ==
  {h \in SUBSET Messages :
     /\ Cardinality(h) <= MaxMessages /\ (turns # <<>> => h # {})
     /\ \A m \in h, n \in Messages : n[1] > m[1] => n \in h}

\* What the input guard blocks.
Blocked(text) == text = "injection"

\* ask_question and the input guard; a question that is refused still makes a
\* turn, unless it is streamed.
AskPolicy(r, stream, text) ==
  /\ ask[r].at \in {"none", "answered", "failed"}
  /\ \E history \in Histories :
       LET asked == [at |-> "retrieve", stream |-> stream, history |-> history,
                     found |-> {}, told |-> {}, missing |-> {}] IN
         IF ~Blocked(text) THEN To(r, asked)
         ELSE IF stream THEN Fails(r)
         ELSE To(r, Overlaid(asked, [at |-> "save", text |-> "refusal"]))
  /\ UNCHANGED <<shownRows, activeModel, turns, rated>>

(***************************************************************************)
(* Retrieval: the question, then its rewriting when that differs.          *)
(***************************************************************************)

\* _worst_diagnostics
Worst_First(left, right) == left
Worst(left, right) == left \cup right

\* _hydrate: a vector that has outlived its chunk row is not a hit.
Hydrated(vectors) == vectors \cap shownRows

\* What Milvus finds, dead vectors too, and what the full-text search finds.
DenseHits(broken) ==
  IF "dense" \in broken THEN {{}} ELSE {Hydrated(vectors) : vectors \in SUBSET Policies}
SparseHits(broken) == IF "sparse" \in broken THEN {{}} ELSE SUBSET shownRows

\* What ranking may leave of more hits than top_k.
Foremost(hits) ==
  IF Cardinality(hits) <= KeptHits THEN {hits}
  ELSE {kept \in SUBSET hits : Cardinality(kept) = KeptHits}

\* _hybrid_with_diagnostics: the legs fused, of which reranking keeps the best.
Hybrid(broken) ==
  UNION {Foremost(dense \cup sparse) : dense \in DenseHits(broken), sparse \in SparseHits(broken)}

\* rewrite_query: the local map, the model, or the question as it was when the
\* model fails or shortens it.
Rewritings == {"question", "keywords", "injection"}

\* A rewriting that differs is searched for too, unless it instructs the model.
Searched(rewriting) ==
  IF rewriting = "keywords" /\ ~Blocked(rewriting) THEN {"retrieve", "variant"} ELSE {"retrieve"}

\* What follows a search: the next variant of the question, or the screening.
AfterSearch(r, rewriting) ==
  IF ask[r].at = "retrieve" /\ "variant" \in Searched(rewriting) THEN "variant" ELSE "screen"

\* Nothing found with a leg missing is an error, not an empty result.  What both variants
\* found is fused and cut once more.
Retrieve(r) ==
  /\ ask[r].at \in {"retrieve", "variant"}
  /\ \E broken \in SUBSET Legs : \E foundHits \in Hybrid(broken) :
       /\ IF foundHits = {} /\ broken # {} THEN Fails(r)
          ELSE \E rewriting \in Rewritings, fused \in Foremost(ask[r].found \cup foundHits) :
                 Still(r, [at |-> AfterSearch(r, rewriting), found |-> fused,
                           told |-> IF ask[r].at = "retrieve" THEN broken ELSE Worst(ask[r].told, broken),
                           missing |-> ask[r].missing \cup broken])
  /\ UNCHANGED <<shownRows, activeModel, turns, rated>>

\* ModelRouter.route: a stream goes to the economy tier, the rest to the provider
\* that is activeModel.
Routed(stream) == IF stream THEN "deepseek" ELSE activeModel

\* A chunk that instructs the model ends it with a safe reply; otherwise the
\* request is routed.
Screen(r) ==
  /\ ask[r].at = "screen"
  /\ IF ask[r].found \cap Tainted # {}
     THEN IF ask[r].stream THEN Fails(r) ELSE Still(r, [at |-> "save", text |-> "safe reply"])
     ELSE Still(r, [at |-> "call", partly |-> {},
                    first |-> Routed(ask[r].stream), todo |-> Providers, calls |-> {}])
  /\ UNCHANGED <<shownRows, activeModel, turns, rated>>

(***************************************************************************)
(* The model.                                                              *)
(***************************************************************************)

\* resolve_model_for
ModelFor_Requested(p, first) == ModelOf[first]
ModelFor(p, first) == ModelOf[p]

\* The provider that generate_with_fallback or stream_with_fallback is at.
Current(r) == IF ask[r].first \in ask[r].todo THEN ask[r].first ELSE CHOOSE p \in ask[r].todo : TRUE

Called(r) == ask[r].calls \cup {<<Current(r), ModelFor(Current(r), ask[r].first)>>}

ProviderAnswers(r) ==
  /\ ask[r].at = "call"
  /\ \E text \in {"plain", "unsafe"} :
       Still(r, [at |-> "guard", text |-> text, calls |-> Called(r)])
  /\ UNCHANGED <<shownRows, activeModel, turns, rated>>

\* What a provider had sent before it failed: a stream passed it on.
Brought(r) == IF ask[r].stream THEN {{}, {Current(r)}} ELSE {{}}

\* The next one is asked; what a stream had already brought stays in the answer.
ProviderFails(r) ==
  /\ ask[r].at = "call"
  /\ IF Cardinality(ask[r].todo) = 1 THEN Fails(r)
     ELSE \E brought \in Brought(r) :
            Still(r, [todo |-> ask[r].todo \ {Current(r)}, calls |-> Called(r),
                      partly |-> ask[r].partly \cup brought])
  /\ UNCHANGED <<shownRows, activeModel, turns, rated>>

\* no_evidence_fallback: without a chunk above the threshold the model's text goes.
Grounded(r, confident) ==
  CASE ask[r].found = {} -> "no evidence" [] ask[r].found # {} /\ ~confident -> "low confidence"
    [] OTHER -> "answer"

\* The whole text goes through the guard before any of it is sent.
GuardOutput(r) ==
  /\ ask[r].at = "guard"
  /\ \E confident \in BOOLEAN : Still(r, [at |-> "save", text |-> Grounded(r, confident)])
  /\ UNCHANGED <<shownRows, activeModel, turns, rated>>

\* The sources of a stream are saved with its answer; execute's are only returned.
Cited(r) == ask[r].stream /\ ask[r].found # {}

\* _save_history_async, a transaction of its own. A stream has sent the answer by
\* then and reports an error after it.
Save(r) ==
  /\ ask[r].at = "save"
  /\ \/ /\ Len(turns) < MaxTurns
        /\ turns' = Append(turns, [says |-> ask[r].text, cited |-> Cited(r)])
        /\ To(r, [at |-> "answered", told |-> ask[r].told, missing |-> ask[r].missing])
     \/ Fails(r) /\ UNCHANGED turns
  /\ UNCHANGED <<shownRows, activeModel, rated>>

(***************************************************************************)
(* Around it.                                                              *)
(***************************************************************************)

\* submit_feedback
Rate(i) ==
  /\ rated' = rated \cup {i}
  /\ UNCHANGED <<shownRows, activeModel, turns, ask>>

SwitchProvider(p) ==
  /\ activeModel' = p
  /\ UNCHANGED <<shownRows, turns, rated, ask>>

DeletePolicy(d) ==
  /\ shownRows' = shownRows \ {d}
  /\ UNCHANGED <<activeModel, turns, rated, ask>>

AnsweringNext ==
  \/ \E r \in Dialogues :
       \/ \E stream \in BOOLEAN, text \in {"plain", "injection"} : AskPolicy(r, stream, text)
       \/ Retrieve(r) \/ Screen(r) \/ ProviderAnswers(r) \/ ProviderFails(r)
       \/ GuardOutput(r) \/ Save(r)
  \/ \E i \in DOMAIN turns : Rate(i)
  \/ \E p \in Providers : SwitchProvider(p)
  \/ \E d \in Policies : DeletePolicy(d)

AnsweringSpec == AnsweringInit /\ [][AnsweringNext]_answeringVars
--------------------------------------------------------------------------------

AnsweringTypeOK ==
  /\ shownRows \subseteq Policies /\ activeModel \in Providers
  /\ turns \in BoundedSeq([says : {"answer", "refusal", "safe reply", "no evidence", "low confidence"},
                           cited : BOOLEAN], MaxTurns)
  /\ rated \subseteq DOMAIN turns
  /\ \A r \in Dialogues : ask[r].at \in {"none", "retrieve", "variant", "screen", "call",
                                    "guard", "save", "answered", "failed"}
  /\ \A r \in Dialogues : ask[r].at \in {"call", "guard"} =>
       ask[r].partly \subseteq Providers /\ ask[r].calls \subseteq {<<p, ModelOf[p]>> : p \in Providers}

\* "A degraded retrieval is reported, never silent": an answer names every leg that
\* was down in either of its retrievals, and no other.
AnswerSaysWhatFailed ==
  \A r \in Dialogues : ask[r].at = "answered" => ask[r].told = ask[r].missing
================================================================================
