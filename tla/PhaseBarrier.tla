---------------------------- MODULE PhaseBarrier ----------------------------
(***************************************************************************)
(* What the three progress arrays of tools/pckks_utils.cpp promise: a team *)
(* of workers goes through three phases, and a coordinator sees each phase *)
(* complete in one step, after every member of the team has completed it.  *)
(* Nobody enters the second phase before the coordinator has seen the      *)
(* first one complete.                                                     *)
(***************************************************************************)
EXTENDS Naturals

CONSTANT Workers

Phases == 3

VARIABLES team,  \* the workers this run consists of
          done,  \* done[w]: how many phases worker w has completed
          seen   \* how many phases the coordinator has seen complete

vars == <<team, done, seen>>

Init ==
  /\ team \in SUBSET Workers
  /\ done = [w \in Workers |-> 0]
  /\ seen = 0

Complete(w) ==
  /\ w \in team
  /\ done[w] < Phases
  /\ done[w] > 0 => seen > 0
  /\ done' = [done EXCEPT ![w] = @ + 1]
  /\ UNCHANGED <<team, seen>>

Observe ==
  /\ seen < Phases
  /\ \A w \in team : done[w] > seen
  /\ seen' = seen + 1
  /\ UNCHANGED <<team, done>>

Next == Observe \/ \E w \in Workers : Complete(w)

Spec == Init /\ [][Next]_vars
=============================================================================
