--------------------------- MODULE MCBackgroundJob ---------------------------
(***************************************************************************)
(* BackgroundJob with a few threads and messages.  Each message is pushed  *)
(* at most once, so an execution makes |Messages| accepted pushes at most. *)
(***************************************************************************)
EXTENDS BackgroundJob, SequencesExt

CONSTANTS c1, c2, m1, m2, m3

MCVectors == {<<>>, <<m2, m3>>}

InFlight == {c \in Callers : caller[c] \in {"one", "many"}}

\* What has been accepted, followed by what is on its way.
EachPushedOnce ==
  /\ IsInjective(accepted)
  /\ \A c \in InFlight : ToSet(arg[c]) \cap ToSet(accepted) = {}
  /\ \A c, d \in InFlight : c # d => ToSet(arg[c]) \cap ToSet(arg[d]) = {}

Ended == life # "up" /\ UNCHANGED jobVars

MCNext == (JobNext /\ EachPushedOnce') \/ Ended

FairMCSpec == JobInit /\ [][MCNext]_jobVars /\ JobFairness
=============================================================================
