-------------------------------- MODULE TwoPass --------------------------------
(***************************************************************************)
(* What the osprey driver promises to whoever runs it, with no descriptor, *)
(* environment or option in sight: it launches the passes it was asked     *)
(* for, each once and the speculative one first, and it reports success    *)
(* only when every one of them has been launched, has died and has been    *)
(* reaped.  It may report failure at any time, and leave children behind.  *)
(***************************************************************************)

VARIABLES requested,  \* the passes asked for; never changes
          valid,      \* whether the request can be served at all; never changes
          child,      \* the state of each pass's process
          outcome     \* what the driver's caller sees

vars == <<requested, valid, child, outcome>>

Passes == {"spec", "prog"}

TypeOK ==
  /\ requested \in SUBSET Passes
  /\ valid \in BOOLEAN
  /\ child \in [Passes -> {"idle", "live", "dead", "reaped"}]
  /\ outcome \in {"running", "success", "failure"}

Init ==
  /\ requested \in SUBSET Passes
  /\ valid \in BOOLEAN
  /\ child = [p \in Passes |-> "idle"]
  /\ outcome = "running"

Launch(p) ==
  /\ outcome = "running"
  /\ p \in requested
  /\ child[p] = "idle"
  /\ p = "prog" /\ "spec" \in requested => child["spec"] # "idle"
  /\ child' = [child EXCEPT ![p] = "live"]
  /\ UNCHANGED <<requested, valid, outcome>>

Die(p) ==
  /\ child[p] = "live"
  /\ child' = [child EXCEPT ![p] = "dead"]
  /\ UNCHANGED <<requested, valid, outcome>>

Reap(p) ==
  /\ outcome = "running"
  /\ child[p] = "dead"
  /\ child' = [child EXCEPT ![p] = "reaped"]
  /\ UNCHANGED <<requested, valid, outcome>>

Succeed ==
  /\ outcome = "running"
  /\ valid
  /\ \A p \in requested : child[p] = "reaped"
  /\ outcome' = "success"
  /\ UNCHANGED <<requested, valid, child>>

Fail ==
  /\ outcome = "running"
  /\ outcome' = "failure"
  /\ UNCHANGED <<requested, valid, child>>

Next == (\E p \in Passes : Launch(p) \/ Die(p) \/ Reap(p)) \/ Succeed \/ Fail

Spec == Init /\ [][Next]_vars
===============================================================================
