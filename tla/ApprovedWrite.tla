----------------------------- MODULE ApprovedWrite -----------------------------
(***************************************************************************)
(* What the governed-dispatch chain promises about one write, with no      *)
(* mention of queues, leases, workers or grants:                           *)
(*   - a write is accepted only after a person approved it, and a request  *)
(*     that was closed is never accepted later;                            *)
(*   - the tool's effect happens only for an accepted write;               *)
(*   - "succeeded" is reported only for a write that took effect, unless a *)
(*     person settles an unknown outcome by hand.                          *)
(***************************************************************************)
CONSTANT Writes

VARIABLES decision, verdict, effect

Init == /\ decision = [w \in Writes |-> "open"]
        /\ verdict = [w \in Writes |-> "none"]
        /\ effect = [w \in Writes |-> FALSE]

Decide(w, from, to) == /\ decision[w] \in from
                       /\ decision' = [decision EXCEPT ![w] = to]
                       /\ UNCHANGED <<verdict, effect>>

Approve(w) == Decide(w, {"open"}, "approved")
Accept(w) == Decide(w, {"approved"}, "accepted")

\* Rejection, expiry and withdrawal; revocation closes several at once.
Close == /\ \A w \in Writes : \/ decision'[w] = decision[w]
                              \/ decision[w] \in {"open", "approved"} /\ decision'[w] = "closed"
         /\ DOMAIN decision' = Writes
         /\ UNCHANGED <<verdict, effect>>

TakeEffect(w) == /\ decision[w] = "accepted"
                 /\ effect' = [effect EXCEPT ![w] = TRUE]
                 /\ UNCHANGED <<decision, verdict>>

Report(w, from, to) == /\ decision[w] = "accepted"
                       /\ verdict[w] \in from
                       /\ verdict' = [verdict EXCEPT ![w] = to]
                       /\ UNCHANGED <<decision, effect>>

Succeed(w) == effect[w] /\ Report(w, {"none"}, "succeeded")
Fail(w) == Report(w, {"none"}, "failed")
LoseTrack(w) == Report(w, {"none"}, "unknown")
Reconcile(w) == Report(w, {"unknown"}, "succeeded") \/ Report(w, {"unknown"}, "failed")
Reopen(w) == Report(w, {"failed"}, "none")

Next == \/ Close
        \/ \E w \in Writes : \/ Approve(w) \/ Accept(w) \/ TakeEffect(w)
                             \/ Succeed(w) \/ Fail(w) \/ LoseTrack(w)
                             \/ Reconcile(w) \/ Reopen(w)

Spec == Init /\ [][Next]_<<decision, verdict, effect>>
================================================================================
