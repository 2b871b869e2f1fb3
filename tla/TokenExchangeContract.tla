------------------------- MODULE TokenExchangeContract -------------------------
(***************************************************************************)
(* What a client of the tokenExchange query can rely on, whatever handlers *)
(* and pipelines are configured: every field ends in a payload, in null or *)
(* in an error, once; of the fields of one document at most one ends in    *)
(* anything but an error; and the status of the reply tells whether one of *)
(* them failed, unless the reply could not be written.  TokenExchange      *)
(* implements this.                                                        *)
(***************************************************************************)
EXTENDS Naturals

CONSTANTS Documents, MaxFields

Field == Documents \X (1 .. MaxFields)
Siblings(f) == {g \in Field : g[1] = f[1] /\ g # f}

VARIABLES outcome, http

vars == <<outcome, http>>

Init ==
  /\ outcome = [f \in Field |-> "open"]
  /\ http = [d \in Documents |-> "open"]

(* The resolver of a field returns: a payload or null only if no sibling    *)
(* has or will have one.                                                    *)
Succeed(f) ==
  /\ outcome[f] = "open"
  /\ \A g \in Siblings(f) : outcome[g] \in {"open", "error"}
  /\ \E result \in {"payload", "null"} : outcome' = [outcome EXCEPT ![f] = result]
  /\ UNCHANGED http

GoWrong(f) ==
  /\ outcome[f] = "open"
  /\ outcome' = [outcome EXCEPT ![f] = "error"]
  /\ UNCHANGED http

(* The controller answers a document whose fields are all settled.          *)
Answer(d) ==
  /\ http[d] = "open"
  /\ \A f \in Field : f[1] = d => outcome[f] # "open"
  /\ \E status \in {"ok", "bad request", "not found"} :
       /\ status = "bad request" => \E f \in Field : f[1] = d /\ outcome[f] = "error"
       /\ status = "ok" => \A f \in Field : f[1] = d => outcome[f] # "error"
       /\ http' = [http EXCEPT ![d] = status]
  /\ UNCHANGED outcome

Next ==
  \/ \E f \in Field : Succeed(f) \/ GoWrong(f)
  \/ \E d \in Documents : Answer(d)

Spec == Init /\ [][Next]_vars
=============================================================================
