--------------------------- MODULE ReplaceImport ---------------------------
(***************************************************************************)
(* What the writers of the metadata promise.  An import puts all of its    *)
(* entries in place, in one step, and takes away all entries of the        *)
(* imports it found in force when it began, or it changes nothing; one     *)
(* that came in between stays.  A bootstrap leaves every seed in place, or *)
(* changes nothing.  Neither takes away what others registered.  A program *)
(* that says it is done did it; one that failed may have.                  *)
(***************************************************************************)
CONSTANTS
  Import, Container,
  Policy,   \* the name of the default policy
  Seeded,   \* the names a bootstrap leaves in place
  Nothing   \* no offer yet

VARIABLES
  offer,    \* what each import is to put in place
  image,    \* what is imported: entries, each with the import that owns it
  base,     \* the imports each program found in force
  others,   \* the names of everything else that is registered
  result    \* "running", "done" or "failed"

vars == <<offer, image, base, others, result>>

Program == Import \union Container

InForce == {e.owner : e \in image}

Init ==
  /\ offer = [p \in Import |-> Nothing]
  /\ base = [p \in Program |-> {}]
  /\ result = [p \in Program |-> "running"]

Ends(p, r) ==
  /\ result[p] = "running"
  /\ result' = [result EXCEPT ![p] = r]
  /\ base' = [base EXCEPT ![p] = {}]

(* An import knows what it is to put in place, or sees that it cannot. *)
Prepare(p) ==
  /\ result[p] = "running" /\ offer[p] = Nothing
  /\ \E i \in {offer'[p]} : i # Nothing /\ offer' = [offer EXCEPT ![p] = i]
  /\ UNCHANGED <<result, base>> \/ Ends(p, "failed")
  /\ UNCHANGED <<image, others>>

Begin(p) ==
  /\ result[p] = "running"
  /\ base' = [base EXCEPT ![p] = InForce]
  /\ UNCHANGED <<offer, image, others, result>>

Replace(p) ==
  /\ offer[p] # Nothing
  /\ Ends(p, "done") \/ Ends(p, "failed")
  /\ image' = {e \in image : e.owner \notin base[p]}
                \union {[owner |-> p, content |-> c] : c \in offer[p]}
  /\ others' = others \union {Policy}
  /\ UNCHANGED offer

PutSeeds(p) ==
  /\ Ends(p, "done") \/ Ends(p, "failed")
  /\ others' = others \union Seeded \union {Policy}
  /\ UNCHANGED <<offer, image>>

Fail(p) == Ends(p, "failed") /\ UNCHANGED <<offer, image, others>>

(* Somebody else registers something. *)
Edit == others \subseteq others' /\ UNCHANGED <<offer, image, base, result>>

Next ==
  \/ \E p \in Import : Prepare(p) \/ Replace(p)
  \/ \E p \in Container : PutSeeds(p)
  \/ \E p \in Program : Begin(p) \/ Fail(p)
  \/ Edit

Spec == Init /\ [][Next]_vars
=============================================================================
