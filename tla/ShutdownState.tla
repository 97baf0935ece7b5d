--------------------------- MODULE ShutdownState ---------------------------
(***************************************************************************)
(* The shutdown state of a replica (common/shutdown_state.c) around the    *)
(* opening and closing of a pool (common/set.c).                           *)
(*                                                                         *)
(* The DIMMs count unsafe shutdowns: power losses in which what had left   *)
(* the CPU's caches did not all reach the media.  Only a deep flush is     *)
(* safe from that.  The state records the count and, while a pool is open, *)
(* that there may be data which is not.                                    *)
(***************************************************************************)
EXTENDS Integers

CONSTANTS
    MaxAdr,         \* bound on unsafe shutdowns
    MaxStop         \* bound on kills and safe power losses

VARIABLES
    sds,            \* the replica's shutdown state, as the CPU sees it
    smedia,         \* what a power loss may leave of it
    usc,            \* the DIMMs' unsafe shutdown count
    modified,       \* sds_dirty_modified of the replica's first part
    pc,
    checks,         \* how often this opening has checked the state
    data,           \* "deep", or whose data is not: "mine", "orphan"
    lost,           \* whose data an unsafe shutdown has hit
    unclosed,       \* an opening has set the flag, and has not closed since
    hit,            \* an unsafe shutdown happened while it was unclosed
    adrs, stops

vars == <<sds, smedia, usc, modified, pc, checks, data, lost, unclosed, hit, adrs, stops>>
history == <<lost, unclosed, hit, adrs, stops>>

Uuid == 1           \* of the DIMMs under the replica
Zeroed == [usc |-> 0, uuid |-> 0, dirty |-> 0, sum |-> <<0, 0, 0>>]

(* util_checksum(): the checksum is that of the fields it was taken of. *)
Sum(s) == <<s.usc, s.uuid, s.dirty>>
Summed(s) == [s EXCEPT !.sum = Sum(s)]

(* Stores to the state, up to their deep flush: any of them may be on the  *)
(* media when the power goes.                                              *)
Store(s) ==
    /\ sds' = s
    /\ smedia' = {[usc |-> a, uuid |-> b, dirty |-> c, sum |-> d] :
                    a \in {sds.usc, s.usc}, b \in {sds.uuid, s.uuid},
                    c \in {sds.dirty, s.dirty}, d \in {sds.sum, s.sum}}
Flushed == sds' = sds /\ smedia' = {sds}

(* A pool that util_header_create() has just made and left open, or one    *)
(* made without shutdown state.                                            *)
Created == Summed([usc |-> 1, uuid |-> Uuid, dirty |-> 1, sum |-> <<>>])
Init ==
    /\ usc = 1
    /\ \/ sds = Created /\ pc = "open" /\ modified = TRUE /\ unclosed = TRUE
       \/ sds = Zeroed /\ pc = "closed" /\ modified = FALSE /\ unclosed = FALSE
    /\ smedia = {sds} /\ checks = 0 /\ data = "deep" /\ lost = {} /\ hit = FALSE
    /\ adrs = 0 /\ stops = 0

Open ==
    /\ pc = "closed"
    /\ pc' = "check" /\ checks' = 0 /\ modified' = FALSE
    /\ UNCHANGED <<sds, smedia, usc, data, history>>

(* shutdown_state_check(), from util_header_check() and again from         *)
(* util_replica_check().                                                   *)
Refused ==
    /\ sds # Zeroed /\ sds.sum = Sum(sds)
    /\ <<sds.usc, sds.uuid>> # <<usc, Uuid>> /\ sds.dirty = 1
Accepted ==
    /\ sds # Zeroed /\ sds.sum = Sum(sds)
    /\ <<sds.usc, sds.uuid>> = <<usc, Uuid>> /\ sds.dirty = 0

CheckAccepts ==
    /\ pc = "check" /\ Accepted
    /\ pc' = "set_dirty" /\ checks' = checks + 1
    /\ UNCHANGED <<sds, smedia, usc, modified, data, history>>

(* The opening fails; its cleanup leaves a flag it has not set. *)
CheckRefuses ==
    /\ pc = "check" /\ Refused
    /\ pc' = IF modified THEN "clear_dirty" ELSE "closed"
    /\ UNCHANGED <<sds, smedia, usc, modified, checks, data, history>>

(* shutdown_state_reinit() *)
CheckReinits ==
    /\ pc = "check" /\ ~Accepted /\ ~Refused
    /\ Store(Zeroed)
    /\ pc' = "reinit" /\ checks' = checks + 1
    /\ UNCHANGED <<usc, modified, data, history>>

ReinitFields ==
    /\ pc = "reinit"
    /\ Store([sds EXCEPT !.usc = usc, !.uuid = Uuid, !.dirty = 0])
    /\ pc' = "reinit_sum"
    /\ UNCHANGED <<usc, modified, checks, data, history>>

ReinitSum ==
    /\ pc = "reinit_sum"
    /\ Store(Summed(sds))
    /\ pc' = "set_dirty"
    /\ UNCHANGED <<usc, modified, checks, data, history>>

(* shutdown_state_set_dirty() *)
SetDirty ==
    /\ pc = "set_dirty"
    /\ Store([sds EXCEPT !.dirty = 1])
    /\ modified' = TRUE /\ unclosed' = TRUE
    /\ pc' = "dirty_sum"
    /\ UNCHANGED <<usc, checks, data, lost, hit, adrs, stops>>

DirtySum ==
    /\ pc = "dirty_sum"
    /\ Store(Summed(sds))
    /\ pc' = "dirty_flush"
    /\ UNCHANGED <<usc, modified, checks, data, history>>

(* Mutant: the dirty flag is not flushed. *)
DirtyNoFlush ==
    /\ pc = "dirty_flush"
    /\ pc' = IF checks = 2 THEN "open" ELSE "check"
    /\ UNCHANGED <<sds, smedia, usc, modified, checks, data, history>>

DirtyFlush ==
    /\ pc = "dirty_flush"
    /\ Flushed
    /\ pc' = IF checks = 2 THEN "open" ELSE "check"
    /\ UNCHANGED <<usc, modified, checks, data, history>>

(* The program makes changes and persists them, without a deep flush. *)
Persist ==
    /\ pc = "open"
    /\ data' = "mine"
    /\ UNCHANGED <<sds, smedia, usc, modified, pc, checks, history>>

(* Mutant: the dirty flag is left set. *)
CloseKeepsFlag ==
    /\ pc = "open"
    /\ data' = "deep"
    /\ pc' = "closed" /\ unclosed' = FALSE
    /\ UNCHANGED <<sds, smedia, usc, modified, checks, lost, hit, adrs, stops>>

(* util_replica_close(): a deep drain of the replica, then                 *)
(* shutdown_state_clear_dirty().                                           *)
Close ==
    /\ pc = "open"
    /\ data' = "deep"
    /\ IF modified THEN pc' = "clear_dirty" /\ UNCHANGED unclosed
                   ELSE pc' = "closed" /\ unclosed' = FALSE
    /\ UNCHANGED <<sds, smedia, usc, modified, checks, lost, hit, adrs, stops>>

ClearDirty ==
    /\ pc = "clear_dirty"
    /\ Store([sds EXCEPT !.dirty = 0])
    /\ pc' = "clear_sum"
    /\ UNCHANGED <<usc, modified, checks, data, history>>

ClearSum ==
    /\ pc = "clear_sum"
    /\ Store(Summed(sds))
    /\ pc' = "clear_flush"
    /\ UNCHANGED <<usc, modified, checks, data, history>>

ClearFlush ==
    /\ pc = "clear_flush"
    /\ Flushed
    /\ pc' = "closed" /\ unclosed' = FALSE
    /\ UNCHANGED <<usc, modified, checks, data, lost, hit, adrs, stops>>

(* The process is killed: the caches keep what it has stored. *)
Kill ==
    /\ pc # "closed" /\ stops < MaxStop
    /\ pc' = "closed" /\ stops' = stops + 1
    /\ data' = IF data = "mine" THEN "orphan" ELSE data
    /\ UNCHANGED <<sds, smedia, usc, modified, checks, lost, unclosed, hit, adrs>>

(* The power goes, and what has been persisted is saved. *)
PowerLoss ==
    /\ stops < MaxStop /\ stops' = stops + 1
    /\ \E s \in smedia : sds' = s /\ smedia' = {s}
    /\ pc' = "closed" /\ data' = "deep"
    /\ UNCHANGED <<usc, modified, checks, lost, unclosed, hit, adrs>>

(* The power goes, and what has not been flushed deep is lost. *)
AdrFailure ==
    /\ adrs < MaxAdr /\ adrs' = adrs + 1
    /\ usc' = usc + 1
    /\ \E s \in smedia : sds' = s /\ smedia' = {s}
    /\ lost' = lost \cup ({data} \ {"deep"}) /\ hit' = (hit \/ unclosed)
    /\ pc' = "closed" /\ data' = "deep"
    /\ UNCHANGED <<modified, checks, unclosed, stops>>

Next ==
    \/ Open \/ CheckAccepts \/ CheckRefuses \/ CheckReinits \/ ReinitFields \/ ReinitSum
    \/ SetDirty \/ DirtySum \/ DirtyFlush
    \/ Persist \/ Close \/ ClearDirty \/ ClearSum \/ ClearFlush
    \/ Kill \/ PowerLoss \/ AdrFailure

Spec == Init /\ [][Next]_vars

-----------------------------------------------------------------------------
(* A pool is not opened any more once an unsafe shutdown has cut off data  *)
(* that the process it ended had persisted, whenever between two flushes   *)
(* the power went and however often it is tried (shutdown_state_check()).  *)
LossReported == "mine" \in lost => pc # "open"

(* A pool is only refused for an unsafe shutdown that happened before it   *)
(* was closed: neither a checksum that was being updated nor a count that  *)
(* has grown while the pool was closed is a reason.                        *)
NoFalseAlarm == pc = "check" /\ Refused => hit
=============================================================================
