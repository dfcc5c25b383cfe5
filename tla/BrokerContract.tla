--------------------------- MODULE BrokerContract ---------------------------
(***************************************************************************)
(* What the PC-local path promises an operator, with no files, no loops    *)
(* and no crashes: local-failover/README.md, "Ownership and safety".       *)
(*                                                                         *)
(* An intent is held until it is sent or dropped.  A dropped or held       *)
(* intent never reaches the broker.  The broker is asked at most once per  *)
(* origin.  "executed" is only said of a request the broker accepted.      *)
(* Nothing returns to held.                                                *)
(*                                                                         *)
(* What it does not promise is as deliberate: an attempt may follow the    *)
(* report "failed" or the loss of the state file, since nothing makes the  *)
(* EA's claim and the controller's report one step.                        *)
(***************************************************************************)
CONSTANTS Intents, Origins, OriginOf, DigestOf

VARIABLES
    report,   \* what the operator is told of an intent
    attempt   \* what the broker was asked for an origin

cvars == <<report, attempt>>

Reports  == {"held", "dropped", "sent", "executed", "failed", "unknown", "lost"}
Outcomes == {"done", "failed", "uncertain"}
Nothing  == [by |-> "nobody", out |-> "failed"]

Same(i, j) == OriginOf[i] = OriginOf[j] /\ DigestOf[i] = DigestOf[j]

Accepted(i) ==
    LET t == attempt[OriginOf[i]] IN t # Nothing /\ t.out = "done" /\ Same(t.by, i)

Init ==
    /\ report  = [i \in Intents |-> "held"]
    /\ attempt = [o \in Origins |-> Nothing]

Becomes(S, r) == report' = [i \in Intents |-> IF i \in S THEN r ELSE report[i]]

\* Cancelled, expired or refused before anything was sent.
Drop(S) ==
    /\ \A i \in S : report[i] = "held"
    /\ Becomes(S, "dropped")
    /\ UNCHANGED attempt

Send(i) ==
    /\ report[i] = "held"
    /\ Becomes({i}, "sent")
    /\ UNCHANGED attempt

Attempt(i) ==
    /\ report[i] \notin {"held", "dropped"}
    /\ attempt[OriginOf[i]] = Nothing
    /\ \E out \in Outcomes :
          attempt' = [attempt EXCEPT ![OriginOf[i]] = [by |-> i, out |-> out]]
    /\ UNCHANGED report

Confirm(i) ==
    /\ report[i] \in {"sent", "unknown"}
    /\ Accepted(i)
    /\ Becomes({i}, "executed")
    /\ UNCHANGED attempt

Fail(i) ==
    /\ report[i] \in {"sent", "unknown"}
    /\ Becomes({i}, "failed")
    /\ UNCHANGED attempt

Doubt(i) ==
    /\ report[i] \in {"held", "sent"}
    /\ Becomes({i}, "unknown")
    /\ UNCHANGED attempt

Forget(S) ==
    /\ Becomes(S, "lost")
    /\ UNCHANGED attempt

Next ==
    \/ \E S \in SUBSET Intents : Drop(S) \/ Forget(S)
    \/ \E i \in Intents : \/ Send(i) \/ Attempt(i)
                          \/ Confirm(i) \/ Fail(i) \/ Doubt(i)

Spec == Init /\ [][Next]_cvars
=============================================================================
