-------------------------------- MODULE Load --------------------------------
(***************************************************************************)
(* What clients do in one behaviour: which handlers serve requests and     *)
(* which kinds of request arrive.  A load is chosen once, in the initial   *)
(* state.  A run so covers the requests that come one at a time and those  *)
(* that overlap, and what a property says may depend on which it is.       *)
(***************************************************************************)
EXTENDS Naturals, FiniteSets

CONSTANTS
    Handlers,   \* bound: the handlers of requests, which share the event loop
    Loads,      \* bound: the loads that are explored
    Null        \* the null of the database, and of a local not yet set

ASSUME HandlersAssumption == IsFiniteSet(Handlers)
ASSUME LoadsAssumption ==
    \A l \in Loads : l.crowd \subseteq Handlers /\ l.crowd # {}

VARIABLE load

LoadInit == load \in Loads

Crowd == load.crowd
Overlap == Cardinality(Crowd)
Serial == Overlap = 1
Serves(kind) == kind \in load.kinds
=============================================================================
