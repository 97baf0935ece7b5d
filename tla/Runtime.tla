------------------------------- MODULE Runtime -------------------------------
(***************************************************************************)
(* What a pool needs before and while it is used: the locks in it (Sync),  *)
(* its lanes (Lane), the layout of a block pool (BTTLayout) and the        *)
(* shutdown state of a replica (ShutdownState).  They share no state: a    *)
(* behaviour is one of the mechanism that part names, and the others rest  *)
(* in an initial state.                                                    *)
(***************************************************************************)
EXTENDS Sync, LaneConstants

CONSTANTS
    Pool, Writer, NArena, MaxCreate, MaxCrash, MaxWriteFail,  \* of BTTLayout
    MaxAdr, MaxStop                                           \* of ShutdownState

VARIABLES
    part,
    locks, next_lane_idx, lane_idx, primary, primary_attempts, nest_count, missed,
    lane_pc, lane_opens,
    uuid, zeroed, stale, flogged, info, written, isZeroed, open, laidout, btt_at, arena,
    mutex, btt_pc, btt_crashes, btt_fails,
    sds, smedia, usc, modified, checks, sdata, lost, unclosed, hit, adrs, stops, sds_pc

Lanes == INSTANCE Lane WITH pc <- lane_pc, opens <- lane_opens

Layout == INSTANCE BTTLayout WITH
    Thread <- Writer, MaxFail <- MaxWriteFail,
    at <- btt_at, pc <- btt_pc, crashes <- btt_crashes, fails <- btt_fails

Sds == INSTANCE ShutdownState WITH data <- sdata, pc <- sds_pc

(* Every pool has an arena, and a free layout mutex is told from every     *)
(* thread that may hold it.                                                *)
ASSUME LayoutAssumption == NArena \in Nat \ {0} /\ Layout!NoOne \notin Writer

laneVars == <<locks, next_lane_idx, lane_idx, primary, primary_attempts, nest_count,
              missed, lane_pc, lane_opens>>
layoutVars == <<uuid, zeroed, stale, flogged, info, written, isZeroed, open, laidout,
                btt_at, arena, mutex, btt_pc, btt_crashes, btt_fails>>
sdsVars == <<sds, smedia, usc, modified, checks, sdata, lost, unclosed, hit, adrs, stops,
             sds_pc>>
all == <<part, vars, laneVars, layoutVars, sdsVars>>

OfSync(A) ==
    part = "sync" /\ A /\ UNCHANGED <<part, laneVars, layoutVars, sdsVars>>
OfLane(A) ==
    part = "lane" /\ A /\ UNCHANGED <<part, vars, layoutVars, sdsVars>>
OfLayout(A) ==
    part = "layout" /\ A /\ UNCHANGED <<part, vars, laneVars, sdsVars>>
OfSds(A) ==
    part = "sds" /\ A /\ UNCHANGED <<part, vars, laneVars, layoutVars>>

RuntimeInit ==
    /\ Init /\ (part # "sync" => run_id = 0 /\ runid = 0)
    /\ Lanes!Init
    /\ Layout!Init
    /\ Sds!Init /\ (part # "sds" => sds_pc = "closed")

Parts == {"sync", "lane", "layout", "sds"}

(* A program may stop using locks between two calls; lanes, the layout of  *)
(* a block pool and the shutdown state can always be taken further.        *)
Rest == part = "sync" /\ (\A t \in Caller : pc[t] = "idle") /\ UNCHANGED all

RuntimeNext ==
    OfSync(Next) \/ OfLane(Lanes!Next) \/ OfLayout(Layout!Next) \/ OfSds(Sds!Next) \/ Rest

(* The fairness of Sync and of Lane: a thread that initialises or waits    *)
(* for a lock, or looks for a lane, goes on running.                       *)
RuntimeSpec ==
    /\ part \in Parts /\ RuntimeInit /\ [][RuntimeNext]_all
    /\ \A t \in Caller : WF_vars(OfSync(GetStep(t)))
    /\ \A t \in Thread : WF_laneVars(OfLane(Lanes!Acquire(t) \/ Lanes!TryNext(t)))

-----------------------------------------------------------------------------
(* The properties of the instances; those of Sync are ReadyWhenUsed,       *)
(* Exclusive and GetReturns.                                               *)

(* A lane belongs to one thread at a time (lane_hold()). *)
LaneExclusive == Lanes!LaneExclusive

(* lane_hold() returns. *)
HoldReturns == Lanes!HoldReturns

(* A pool that lost data in an unsafe shutdown is not opened               *)
(* (shutdown_state_check()).                                               *)
LossReported == Sds!LossReported

(* A pool is refused for an unsafe shutdown while it was open, and for     *)
(* nothing else (shutdown_state_check()).                                  *)
NoFalseAlarm == Sds!NoFalseAlarm

(* Flogs that are loaded were written for the pool that loads them         *)
(* (read_layout(), read_arenas()).                                         *)
LoadedFlogsOwn == Layout!LoadedFlogsOwn

(* A layout is not written over data (write_layout()). *)
LayoutOnce == Layout!LayoutOnce
=============================================================================
