--------------------------- MODULE AuditedGate ---------------------------
(***************************************************************************)
(* What both gateways promise of a request, whatever happens inside: the   *)
(* store behind the gateway is touched at most once and before the audit   *)
(* row is written; at most one row is written, and it says EXECUTED only   *)
(* if the store was touched; a client learns a decision only after the row *)
(* that says the same was committed. Everything else is a failure, which   *)
(* may come at any time and reveals nothing.                               *)
(***************************************************************************)
CONSTANTS Request, Nothing

VARIABLES
  touched,  \* the requests whose statement or command the store ran
  log,      \* the decision in the committed audit row, or Nothing
  told      \* what the client was told: Nothing, a decision, or "FAILED"

gvars == <<touched, log, told>>

Decision == {"ALLOW", "REJECT", "EXECUTED"}

Init ==
  /\ touched = {}
  /\ log = [r \in Request |-> Nothing]
  /\ told = [r \in Request |-> Nothing]

Touch(r) ==
  /\ r \notin touched /\ log[r] = Nothing /\ told[r] = Nothing
  /\ touched' = touched \union {r}
  /\ UNCHANGED <<log, told>>

Record(r) ==
  /\ log[r] = Nothing /\ told[r] = Nothing
  /\ \E d \in Decision :
       /\ d = "EXECUTED" => r \in touched
       /\ d = "ALLOW" => r \notin touched
       /\ log' = [log EXCEPT ![r] = d]
  /\ UNCHANGED <<touched, told>>

Tell(r) ==
  /\ log[r] # Nothing /\ told[r] = Nothing
  /\ told' = [told EXCEPT ![r] = log[r]]
  /\ UNCHANGED <<touched, log>>

(* A failure may strike a request whose store call or commit had happened  *)
(* in the same step.                                                       *)
Fail(r) ==
  /\ told[r] = Nothing
  /\ told' = [told EXCEPT ![r] = "FAILED"]
  /\ \/ UNCHANGED <<touched, log>>
     \/ /\ r \notin touched /\ log[r] = Nothing
        /\ touched' = touched \union {r}
        /\ UNCHANGED log
     \/ /\ log[r] = Nothing
        /\ \E d \in Decision :
             /\ d = "EXECUTED" => r \in touched
             /\ d = "ALLOW" => r \notin touched
             /\ log' = [log EXCEPT ![r] = d]
        /\ UNCHANGED touched

Next == \E r \in Request : Touch(r) \/ Record(r) \/ Tell(r) \/ Fail(r)

Spec == Init /\ [][Next]_gvars
=============================================================================
