------------------------------- MODULE ReadTools -------------------------------
(***************************************************************************)
(* What the read tools answer, and what the response budget leaves of it.  *)
(*                                                                         *)
(*   read_executors   the six read tools                                   *)
(*   read_dispatch    one envelope for every answer                        *)
(*   budgets          how many items, and how many characters, leave       *)
(*                                                                         *)
(* Sizes are counted in units of text.  A client follows next_cursor while *)
(* cases are created and change their status; the newest case comes first. *)
(***************************************************************************)
EXTENDS Integers, Sequences, FiniteSets, SequencesExt

CONSTANTS
  MaxResults,      \* MAX_RESULTS: found and approvals of one envelope
  MaxListResults,  \* MAX_LIST_RESULTS: cases of one envelope, and the schema's limit
  MaxTopK,         \* the schema's top_k
  MaxEnvelope,     \* MAX_ENVELOPE_CHARS, in units
  MaxCases         \* BOUND: cases that are created, approvals of a case

ASSUME ReadToolsAssumption ==
  /\ {MaxResults, MaxListResults, MaxTopK} \subseteq Nat \ {0}
  /\ MaxEnvelope \in Nat \ {0} /\ MaxCases \in Nat

VARIABLES
  openCases,  \* cases that match the client's filter, in the order of creation
  created,    \* how many cases there were
  cursor,     \* the offset the client sends next; -1 when it has read everything
  answer      \* the last envelope

readVars == <<openCases, created, cursor, answer>>

Least(a, b) == IF a < b THEN a ELSE b
FirstOf(items, n) == SubSeq(items, 1, Least(n, Len(items)))

NoAnswer == [tool |-> "none", found |-> 0, items |-> <<>>, budgetNote |-> FALSE,
             authorityNote |-> FALSE, degraded |-> FALSE, more |-> FALSE]

ReadInit == openCases = <<>> /\ created = 0 /\ cursor = 0 /\ answer = NoAnswer

(***************************************************************************)
(* The budget.                                                             *)
(***************************************************************************)

Fits(n, size, rest) == rest + n * size <= MaxEnvelope

\* enforce: the list is cut to its cap, then items leave from its end while the envelope is
\* too large.  Only one that is too large without its items gets the note.
Enforce(tool, items, cap, size, rest) ==
  LET capped == FirstOf(items, cap)
      fitting == {n \in 0..Len(capped) : Fits(n, size, rest)}
      kept == IF fitting = {} THEN 0 ELSE CHOOSE n \in fitting : \A m \in fitting : m <= n IN
  [NoAnswer EXCEPT !.tool = tool, !.found = Len(items), !.items = FirstOf(capped, kept),
                   !.budgetNote = ~Fits(0, size, rest)]

\* Lists inside the one object a tool answers with are none of the budget's.
Nested(tool, found, n, size, rest) ==
  [NoAnswer EXCEPT !.tool = tool, !.found = found, !.items = [m \in 1..n |-> m],
                   !.budgetNote = ~Fits(n, size, rest)]

Sizes == 1..2
Rests == {1, MaxEnvelope + 1}

(***************************************************************************)
(* The tools.                                                              *)
(***************************************************************************)

Authorities == {"company_policy", "reference"}
Authoritative(hit) == hit = "company_policy"
HasAuthority(found) == \E n \in DOMAIN found : Authoritative(found[n])

\* What authoritative_only leaves: hits are told apart by their authority alone.
AuthoritativeOnly(found) ==
  [m \in 1..Cardinality({n \in DOMAIN found : Authoritative(found[n])}) |-> "company_policy"]

\* execute_search_policy: what retrieval found, its authority, and its degradation.
SearchPolicy ==
  /\ \E topK \in 1..MaxTopK, only \in BOOLEAN, degraded \in BOOLEAN, size \in Sizes, rest \in Rests :
       \E found \in UNION {[1..n -> Authorities] : n \in 0..topK} :
         LET kept == IF only THEN AuthoritativeOnly(found) ELSE found IN
         answer' = [Enforce("search_policy", kept, MaxResults, size, rest)
                      EXCEPT !.authorityNote = found # <<>> /\ ~HasAuthority(kept),
                             !.degraded = degraded]
  /\ UNCHANGED <<openCases, created, cursor>>

\* Retrieval or the database failed: an envelope that holds nothing.
ReadFails ==
  /\ answer' = [NoAnswer EXCEPT !.tool = "failed"]
  /\ UNCHANGED <<openCases, created, cursor>>

\* execute_get_approval_status.
GetApprovals ==
  /\ \E n \in 0..MaxCases, size \in Sizes, rest \in Rests :
       answer' = Enforce("get_approval_status", [m \in 1..n |-> m], MaxResults, size, rest)
  /\ UNCHANGED <<openCases, created, cursor>>

\* execute_get_policy_source: the first passages of the oldest document of that name.
GetPolicySource ==
  /\ \E n \in 0..MaxResults, size \in Sizes, rest \in Rests :
       answer' = Nested("get_policy_source", n, n, size, rest)
  /\ UNCHANGED <<openCases, created, cursor>>

\* execute_get_case_summary: one case, with every approval it ever had.
GetCaseSummary ==
  /\ \E n \in 0..MaxCases, size \in Sizes, rest \in Rests :
       answer' = Nested("get_case_summary", n, n, size, rest)
  /\ UNCHANGED <<openCases, created, cursor>>

\* execute_get_my_access_profile: without its installations when they cannot be read.
GetAccessProfile ==
  /\ \E found \in 0..MaxResults, size \in Sizes, rest \in Rests : \E n \in {0, found} :
       answer' = Nested("get_my_access_profile", found, n, size, rest)
  /\ UNCHANGED <<openCases, created, cursor>>

NewestFirst == [n \in DOMAIN openCases |-> openCases[Len(openCases) + 1 - n]]
From(items, offset) == SubSeq(items, offset + 1, Len(items))

\* execute_search_cases: one more than the limit is read, to know whether there is more.
SearchCases ==
  /\ cursor # -1
  /\ \E limit \in 1..MaxListResults, size \in Sizes, rest \in Rests :
       LET read == FirstOf(From(NewestFirst, cursor), limit + 1) IN
       /\ answer' = [Enforce("search_cases", FirstOf(read, limit), MaxListResults, size, rest)
                       EXCEPT !.more = Len(read) > limit]
       /\ cursor' = IF Len(read) > limit THEN cursor + limit ELSE -1
  /\ UNCHANGED <<openCases, created>>

SearchAgain ==
  /\ cursor # 0 /\ cursor' = 0
  /\ UNCHANGED <<openCases, created, answer>>

(***************************************************************************)
(* The cases.                                                              *)
(***************************************************************************)

CaseAppears ==
  /\ created < MaxCases /\ created' = created + 1 /\ openCases' = Append(openCases, created')
  /\ UNCHANGED <<cursor, answer>>

\* A case leaves the filter: its status changed.
CaseLeaves ==
  /\ \E n \in DOMAIN openCases : openCases' = RemoveAt(openCases, n)
  /\ UNCHANGED <<created, cursor, answer>>

ReadNext ==
  \/ SearchPolicy \/ ReadFails \/ GetApprovals \/ SearchCases \/ SearchAgain
  \/ GetPolicySource \/ GetCaseSummary \/ GetAccessProfile
  \/ CaseAppears \/ CaseLeaves

ReadSpec == ReadInit /\ [][ReadNext]_readVars
--------------------------------------------------------------------------------

ReadTypeOK ==
  /\ created \in 0..MaxCases /\ cursor \in -1..MaxCases
  /\ \A n \in DOMAIN openCases : openCases[n] \in 1..created
  /\ answer.found \in Nat /\ Len(answer.items) <= answer.found
  /\ {answer.budgetNote, answer.authorityNote, answer.degraded, answer.more} \subseteq BOOLEAN
================================================================================
