---------------------------- MODULE LaneConstants ----------------------------
(***************************************************************************)
(* The parameters of Lane.                                                 *)
(***************************************************************************)
EXTENDS Integers

CONSTANTS Thread,
          NLanes,    \* runtime_nlanes
          Jump,      \* LANE_JUMP
          Attempts,  \* LANE_PRIMARY_ATTEMPTS
          MaxNest,   \* depth of nested lane_hold() calls
          MaxOpen    \* how often the pool is opened again

ASSUME LaneAssumption ==
    /\ NLanes \in Nat \ {0} /\ Jump \in Nat \ {0} /\ Attempts \in Nat \ {0}
    /\ MaxNest \in Nat \ {0} /\ MaxOpen \in Nat

=============================================================================
