------------------------------ MODULE Targets ------------------------------
(***************************************************************************)
(* What domains point at and builds belong to: the rows of app_instances   *)
(* and databases of one project, and the deletions from the cluster that   *)
(* the requests which drop those rows have spawned.  DomainRouting and     *)
(* ImageGC share this state; AppRemoval composes the two.                  *)
(***************************************************************************)
EXTENDS Naturals, FiniteSets

CONSTANTS
    App,        \* instances of one application
    Database,   \* managed databases of its project
    MaxAsks,    \* bound: requests
    MaxMishaps  \* bound: failures of what they call, refusals and crashes

ASSUME TargetsDisjoint == App \cap Database = {}
ASSUME TargetBoundsOK == MaxAsks \in Nat /\ MaxMishaps \in Nat

VARIABLES
    live,       \* instances and databases that have a row
    doomed,     \* instances whose deletion from the cluster is spawned
    events      \* requests and failures so far

targetVars == <<live, doomed, events>>

\* Instances that have a row
Instances == live \cap App

Ask == events.asks < MaxAsks /\ events' = [events EXCEPT !.asks = @ + 1]
Mishap == events.mishaps < MaxMishaps /\ events' = [events EXCEPT !.mishaps = @ + 1]

\* A request whose first statement fails, and goes on
AskAmiss ==
    /\ events.asks < MaxAsks /\ events.mishaps < MaxMishaps
    /\ events' = [asks |-> events.asks + 1, mishaps |-> events.mishaps + 1]

TargetsInit ==
    /\ live = App \cup Database
    /\ doomed = {}
    /\ events = [asks |-> 0, mishaps |-> 0]

TargetsTyped ==
    /\ live \subseteq App \cup Database
    /\ doomed \subseteq App
    /\ events \in [asks : 0..MaxAsks, mishaps : 0..MaxMishaps]
=============================================================================
