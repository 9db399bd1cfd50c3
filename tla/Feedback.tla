-------------------------------- MODULE Feedback --------------------------------
(***************************************************************************)
(* Questions the knowledge base answered badly become candidates that a    *)
(* manager decides once. Looking at the list is what materialises them,    *)
(* so two managers who look, and one who decides, write the same rows.     *)
(*                                                                         *)
(*   knowledge_feedback/service   collect_candidates, decide_candidate,    *)
(*                                _visible_scope, _candidate_scope_filter  *)
(*   routes/knowledge_feedback    the routes that call them                *)
(*   work_summary/service         the open candidates on the work board    *)
(*                                                                         *)
(* A scope is an org unit, or the person when the person has none. The     *)
(* question is one that has a key: the unique indexes leave out the empty  *)
(* key of a question of blanks only, of which a scope may get two rows.    *)
(***************************************************************************)
EXTENDS Integers, FiniteSets, FiniteSetsExt

CONSTANTS
  Curators,   \* requests of managers: their own scopes are Sight
  Sight,      \* [Curators -> SUBSET Scopes]
  Askers,     \* people who ask
  Units,      \* org units
  Verdicts,   \* statuses a decision may give
  MaxAnswers  \* BOUND: badly answered turns of a person

ASSUME FeedbackAssumption ==
  /\ MaxAnswers \in Nat /\ IsFiniteSet(Askers) /\ Verdicts \subseteq {"confirmed", "assigned", "rejected"}
  /\ Sight \in [Curators -> SUBSET (Askers \cup Units)]

Scopes == Askers \cup Units
NoUnit == "none"

VARIABLES
  unit,        \* users.org_unit_id
  answers,     \* badly answered turns of each person, on one question
  down,        \* people who rated one of theirs down
  candidates,  \* rows: [scope, status, source, seen, n], n tells rows of a scope apart
  look,        \* where each manager's request stands
  decisions    \* history: decisions recorded, by scope

feedbackVars == <<unit, answers, down, candidates, look, decisions>>

Elsewhere == [at |-> "none"]

FeedbackInit ==
  /\ unit = [a \in Askers |-> NoUnit] /\ candidates = {}
  /\ answers = [a \in Askers |-> 0] /\ down = {}
  /\ look = [m \in Curators |-> Elsewhere]
  /\ decisions = [s \in Scopes |-> 0]

\* _question_key within the scope of the person's org unit, or the person.
ScopeOf(a) == IF unit[a] = NoUnit THEN a ELSE unit[a]

(***************************************************************************)
(* The signals, from the chat.                                             *)
(***************************************************************************)

\* A turn without citations; or one that was rated down.
AnswerBadly(a) ==
  /\ answers[a] < MaxAnswers
  /\ answers' = [answers EXCEPT ![a] = @ + 1]
  /\ down' \in {down, down \cup {a}}
  /\ UNCHANGED <<unit, candidates, look, decisions>>

\* The signals of one scope: counted once per turn; three make a theme.
Submitters(s) == {a \in Askers : ScopeOf(a) = s}
CandidateTurns(s) == MapThenSumSet(LAMBDA a : answers[a], Submitters(s))
SourceOf(s) ==
  IF CandidateTurns(s) >= 3 THEN "repeated_theme"
  ELSE IF Submitters(s) \cap down # {} THEN "negative_feedback" ELSE "no_evidence"

Signal(s) == [scope |-> s, source |-> SourceOf(s), seen |-> CandidateTurns(s)]

\* assign_org_unit
MoveAsker(a, u) ==
  /\ unit' = [unit EXCEPT ![a] = u] /\ u # unit[a]
  /\ UNCHANGED <<answers, down, candidates, look, decisions>>

(***************************************************************************)
(* The candidates.                                                         *)
(***************************************************************************)

\* collect_candidates up to its first write: the signals of the visible people
\* and the rows of the visible scopes.
Collect(m) ==
  /\ look[m] = Elsewhere
  /\ look' = [look EXCEPT ![m] =
       [at |-> "collected",
        signals |-> {Signal(s) : s \in {x \in Sight[m] : CandidateTurns(x) > 0}},
        stored |-> {c \in candidates : c.scope \in Sight[m]}]]
  /\ UNCHANGED <<unit, answers, down, candidates, decisions>>

CandidateRow(signal) ==
  [scope |-> signal.scope, status |-> "open", source |-> signal.source, seen |-> signal.seen,
   n |-> Cardinality({c \in candidates : c.scope = signal.scope})]

\* ON CONFLICT DO NOTHING on tenant, scope and the key of the question, which is not empty.
Materialised_Always(signal) == FALSE
Materialised(signal) == \E c \in candidates : c.scope = signal.scope

\* The session updates the rows it read open, whatever they are now, and inserts
\* the signals it read no row for.
Materialise(m) ==
  /\ look[m].at = "collected"
  /\ LET stored == look[m].stored
         open == {c \in stored : c.status = "open"}
         fresh == {g \in look[m].signals : /\ ~\E c \in stored : c.scope = g.scope
                                           /\ ~Materialised(g)}
         Refreshed(c) ==
           IF \E o \in open : o.scope = c.scope /\ o.n = c.n /\ \E g \in look[m].signals : g.scope = c.scope
           THEN LET g == CHOOSE g \in look[m].signals : g.scope = c.scope
                IN [c EXCEPT !.source = g.source, !.seen = g.seen]
           ELSE c
     IN candidates' = {Refreshed(c) : c \in candidates} \cup {CandidateRow(g) : g \in fresh}
  /\ look' = [look EXCEPT ![m] = Elsewhere]
  /\ UNCHANGED <<unit, answers, down, decisions>>

\* The guard of decide_candidate's UPDATE.
Decidable_Always(c, m) == c.scope \in Sight[m]
Decidable(c, m) == c.status = "open" /\ c.scope \in Sight[m]

\* decide_candidate: one UPDATE with its audit row; whoever comes second is told.
Decide_candidate(m, c, status) ==
  /\ look[m] = Elsewhere /\ Decidable(c, m)
  /\ candidates' = (candidates \ {c}) \cup {[c EXCEPT !.status = status]}
  /\ decisions' = [decisions EXCEPT ![c.scope] = @ + 1]
  /\ UNCHANGED <<unit, answers, down, look>>

FeedbackNext ==
  \/ \E a \in Askers : AnswerBadly(a) \/ \E u \in Units \cup {NoUnit} : MoveAsker(a, u)
  \/ \E m \in Curators :
       \/ Collect(m) \/ Materialise(m)
       \/ \E c \in candidates, status \in Verdicts :
            Decide_candidate(m, c, status)

FeedbackSpec == FeedbackInit /\ [][FeedbackNext]_feedbackVars
--------------------------------------------------------------------------------

\* _collect_knowledge_feedback: what waits for the manager's judgement.
UndecidedRows(m) == {c \in candidates : c.status = "open" /\ c.scope \in Sight[m]}

FeedbackTypeOK ==
  /\ unit \in [Askers -> Units \cup {NoUnit}] /\ answers \in [Askers -> 0..MaxAnswers] /\ down \subseteq Askers
  /\ \A c \in candidates : /\ c.scope \in Scopes /\ c.seen \in Nat \ {0}
                           /\ c.status \in {"open"} \cup Verdicts
                           /\ c.source \in {"no_evidence", "negative_feedback", "repeated_theme"}
  /\ \A m \in Curators : look[m].at \in {"none", "collected"} /\ UndecidedRows(m) \subseteq candidates

\* A question of a scope that has a key is put to the managers once: it has been
\* decided at most once, and it does not wait again after that, however many of
\* them look and decide at the same time and whoever has moved in between.
AskedOnce ==
  \A s \in Scopes : /\ decisions[s] <= 1
                    /\ decisions[s] = 1 => \A m \in Curators : ~\E c \in UndecidedRows(m) : c.scope = s
================================================================================
