-------------------------------- MODULE PagePool --------------------------------
(***************************************************************************)
(* What the aliased driver promises about pages, with no reference count,  *)
(* file or mapping in sight: a page is allocated once, to a first user;    *)
(* whoever joins later joins a page that somebody is still using; and it   *)
(* is given back exactly when its last user leaves.                        *)
(***************************************************************************)

CONSTANTS Pages, Users

VARIABLES page,   \* "none", "held" or "freed"
          users   \* who refers to each page

vars == <<page, users>>

Init ==
  /\ page = [p \in Pages |-> "none"]
  /\ users = [p \in Pages |-> {}]

Allocate(p, u) ==
  /\ page[p] = "none"
  /\ page' = [page EXCEPT ![p] = "held"]
  /\ users' = [users EXCEPT ![p] = {u}]

Join(p, S) ==
  /\ page[p] = "held"
  /\ users[p] # {}
  /\ users' = [users EXCEPT ![p] = @ \cup S]
  /\ UNCHANGED page

Leave(p, S) ==
  /\ page[p] = "held"
  /\ S \in SUBSET users[p]
  /\ users' = [users EXCEPT ![p] = @ \ S]
  /\ page' = [page EXCEPT ![p] = IF S = users[p] THEN "freed" ELSE "held"]

Next ==
  \E p \in Pages :
    \/ \E u \in Users : Allocate(p, u)
    \/ \E S \in SUBSET Users : Join(p, S) \/ Leave(p, S)

Spec == Init /\ [][Next]_vars
===============================================================================
