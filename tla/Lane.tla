-------------------------------- MODULE Lane --------------------------------
(***************************************************************************)
(* Lanes of a libpmemobj pool (libpmemobj/lane.c).  A thread that changes  *)
(* the pool first gets a lane for itself: lane_hold() tries the thread's   *)
(* primary lane and then the following ones, one compare-and-swap each.    *)
(* Calls nest.  What a thread knows of its lane is in a record of its own  *)
(* that outlives the closing of the pool by another thread.                *)
(***************************************************************************)
EXTENDS LaneConstants, FiniteSets

VARIABLES
    locks,          \* lane_locks
    next_lane_idx,
    lane_idx,       \* lane_info of each thread ...
    primary,
    primary_attempts,
    nest_count,
    pc,             \* "out", in get_lane() ("get"), or holding a lane ("in")
    missed,         \* tries of the primary lane that failed since it was
                    \* last held or chosen
    opens

pool == <<locks, next_lane_idx, opens>>
vars == <<pool, lane_idx, primary, primary_attempts, nest_count, pc, missed>>

LaneIdx == 0..(NLanes - 1)
Unset == -1          \* lane_idx == UINT64_MAX

Init ==
    /\ locks = [i \in LaneIdx |-> 0]
    /\ next_lane_idx = 0
    /\ lane_idx = [t \in Thread |-> Unset]
    /\ primary = [t \in Thread |-> 0]
    /\ primary_attempts = [t \in Thread |-> Attempts]
    /\ nest_count = [t \in Thread |-> 0]
    /\ pc = [t \in Thread |-> "out"]
    /\ missed = [t \in Thread |-> 0]
    /\ opens = 0

(* lane_hold() of a thread that has no lane: the first call ever gives it  *)
(* its primary lane, Jump further than that of the previous thread.        *)
Hold(t) ==
    /\ pc[t] = "out"
    /\ LET first == lane_idx[t] = Unset
           p == IF first THEN next_lane_idx ELSE primary[t]
       IN  /\ next_lane_idx' = next_lane_idx + IF first THEN Jump ELSE 0
           /\ primary' = [primary EXCEPT ![t] = p]
           /\ lane_idx' = [lane_idx EXCEPT ![t] = p]
    /\ nest_count' = [nest_count EXCEPT ![t] = 1]
    /\ pc' = [pc EXCEPT ![t] = "get"]
    /\ UNCHANGED <<locks, opens, primary_attempts, missed>>

(* The index get_lane() tries next. *)
Candidate(t) == lane_idx[t] % NLanes

(* get_lane(): the compare-and-swap succeeds.  A thread that failed on its *)
(* primary lane too often makes this lane its primary.                     *)
Acquire(t) ==
    LET i == Candidate(t) IN
    /\ pc[t] = "get" /\ locks[i] = 0
    /\ locks' = [locks EXCEPT ![i] = 1]
    /\ lane_idx' = [lane_idx EXCEPT ![t] = i]
    /\ primary' = [primary EXCEPT ![t] =
                      IF i # @ /\ primary_attempts[t] = 0 THEN i ELSE @]
    /\ primary_attempts' = [primary_attempts EXCEPT ![t] =
                               IF i = primary[t] \/ @ = 0 THEN Attempts ELSE @]
    /\ missed' = [missed EXCEPT ![t] = IF i = primary'[t] THEN 0 ELSE @]
    /\ pc' = [pc EXCEPT ![t] = "in"]
    /\ UNCHANGED <<next_lane_idx, opens, nest_count>>

(* A mutant of TryNext: the thread waits for one lane. *)
TryNextSame(t) ==
    LET i == Candidate(t) IN
    /\ pc[t] = "get" /\ locks[i] # 0
    /\ lane_idx' = [lane_idx EXCEPT ![t] = i]
    /\ UNCHANGED <<pool, primary, primary_attempts, nest_count, pc, missed>>

(* get_lane(): the compare-and-swap fails. *)
TryNext(t) ==
    LET i == Candidate(t) IN
    /\ pc[t] = "get" /\ locks[i] # 0
    /\ primary_attempts' = [primary_attempts EXCEPT ![t] =
                               IF i = primary[t] /\ @ > 0 THEN @ - 1 ELSE @]
    /\ missed' = [missed EXCEPT ![t] =
                    IF i = primary[t] % NLanes /\ @ < Attempts
                    THEN @ + 1 ELSE @]
    /\ lane_idx' = [lane_idx EXCEPT ![t] = i + 1]
    /\ UNCHANGED <<pool, primary, nest_count, pc>>

(* A nested lane_hold(), *)
HoldNested(t) ==
    /\ pc[t] = "in" /\ nest_count[t] < MaxNest
    /\ nest_count' = [nest_count EXCEPT ![t] = @ + 1]
    /\ UNCHANGED <<pool, lane_idx, primary, primary_attempts, pc, missed>>

(* A mutant of Release: an inner call gives the lane up. *)
ReleaseInner(t) ==
    /\ pc[t] = "in"
    /\ nest_count' = [nest_count EXCEPT ![t] = @ - 1]
    /\ locks' = [locks EXCEPT ![lane_idx[t]] = 0]
    /\ pc' = [pc EXCEPT ![t] = IF nest_count[t] = 1 THEN "out" ELSE @]
    /\ UNCHANGED <<next_lane_idx, opens, lane_idx, primary, primary_attempts,
                   missed>>

(* and lane_release(), which gives the lane up with the outermost call. *)
Release(t) ==
    /\ pc[t] = "in"
    /\ nest_count' = [nest_count EXCEPT ![t] = @ - 1]
    /\ IF nest_count[t] = 1
         THEN /\ locks' = [locks EXCEPT ![lane_idx[t]] = 0]
              /\ pc' = [pc EXCEPT ![t] = "out"]
         ELSE UNCHANGED <<locks, pc>>
    /\ UNCHANGED <<next_lane_idx, opens, lane_idx, primary, primary_attempts,
                   missed>>

(* t closes the pool, lane_cleanup(), and the pool is opened again,        *)
(* lane_boot().  Only the record of t is deleted.                          *)
Reopen(t) ==
    /\ \A u \in Thread : pc[u] = "out"
    /\ opens < MaxOpen
    /\ opens' = opens + 1
    /\ locks' = [i \in LaneIdx |-> 0]
    /\ next_lane_idx' = 0
    /\ lane_idx' = [lane_idx EXCEPT ![t] = Unset]
    /\ primary' = [primary EXCEPT ![t] = 0]
    /\ primary_attempts' = [primary_attempts EXCEPT ![t] = Attempts]
    /\ missed' = [missed EXCEPT ![t] = 0]
    /\ UNCHANGED <<nest_count, pc>>

Next ==
    \E t \in Thread :
        \/ Hold(t) \/ Acquire(t) \/ TryNext(t) \/ HoldNested(t) \/ Release(t)
        \/ Reopen(t)

(* A thread in get_lane() runs: it neither sleeps nor takes a lock. *)
Fairness == \A t \in Thread : WF_vars(Acquire(t) \/ TryNext(t))

Spec == Init /\ [][Next]_vars
FairSpec == Spec /\ Fairness

-----------------------------------------------------------------------------
(* The values of lane_locks, of next_lane_idx and of the threads' lane     *)
(* records (struct lane_info).                                             *)
TypeOK ==
    /\ locks \in [LaneIdx -> 0..1]
    /\ next_lane_idx \in Nat
    /\ lane_idx \in [Thread -> Int]
    /\ \A t \in Thread : lane_idx[t] >= Unset
    /\ primary \in [Thread -> Nat]
    /\ primary_attempts \in [Thread -> 0..Attempts]
    /\ nest_count \in [Thread -> 0..MaxNest]
    /\ pc \in [Thread -> {"out", "get", "in"}]
    /\ missed \in [Thread -> 0..Attempts]
    /\ opens \in 0..MaxOpen

(* A lane belongs to one thread at a time, nested calls and a reopened     *)
(* pool included, and a lock that is set is always somebody's: the logs of *)
(* a lane never have two writers, and no lane is lost.                     *)
LaneExclusive ==
    /\ \A t, u \in Thread :
          pc[t] = "in" /\ pc[u] = "in" /\ lane_idx[t] = lane_idx[u] => t = u
    /\ \A i \in LaneIdx :
          locks[i] = 1 <=> \E t \in Thread : pc[t] = "in" /\ lane_idx[t] = i

(* lane.h of LANE_PRIMARY_ATTEMPTS: "If this threshold is exceeded, a new  *)
(* primary lane is selected for the thread": get_lane() then leaves with   *)
(* the lane it got as the primary one.                                     *)
PrimaryReselected ==
    \A t \in Thread :
        pc[t] = "in" /\ missed[t] = Attempts => primary[t] = lane_idx[t]

(* With as many lanes as threads, lane_hold() returns, though the threads  *)
(* keep taking each other's primary lanes and may keep a lane for good.    *)
HoldReturns == \A t \in Thread : pc[t] = "get" ~> pc[t] = "in"

=============================================================================
