------------------------------- MODULE MCObj -------------------------------
(***************************************************************************)
(* How an object pool changes and recovers, for TLC: transactions (Tx),    *)
(* the vector of their undo log (PVector), the redo log (RedoLog) and the  *)
(* replica on another node (Rpmem).                                        *)
(*                                                                         *)
(* The modules share no state: a behaviour is one of the component that    *)
(* part names, and the others rest in one of their initial states.         *)
(***************************************************************************)
EXTENDS Tx, TLC

VARIABLES
    part,
    arrays, nvalues, recovery, pushes, undo_log, vec_pc, vec_crashes,
    rmem, rmedia, scratch, rlog, ext, capacity, shadow, transient, todo, redo_pc, before,
    goal, redo_ops, redo_crashes,
    method, up, closing, error, rpmem_pc, call, event, pmsg, sq, cq, recv, at, scq, smsg,
    srecv, ssq, recv_posted, send_posted, remote, dur, ver, told

Vector == INSTANCE PVector WITH
    Shift <- 1, MaxArrays <- 2, Offset <- {1, 2}, MaxCommit <- 2, MaxPush <- 6,
    MaxCrash <- 3,
    log <- undo_log, pc <- vec_pc, crashes <- vec_crashes
Redo == INSTANCE RedoLog WITH
    Word <- {"w1", "w2"}, Bit <- {"b1"}, BaseCap <- 2, ExtCap <- 1, MergeSearch <- 2,
    FlushOrdered <- TRUE, MaxEntries <- 3, MaxOps <- 1, MaxCrash <- 2,
    mem <- rmem, media <- rmedia, log <- rlog, pc <- redo_pc,
    ops <- redo_ops, crashes <- redo_crashes
(* A lane that goes through the ways to persist in any order, with the     *)
(* send queue that rpmem_fip_tx_size() asks for and with one that never    *)
(* fills up, and two lanes on one worker.                                  *)
Ways == INSTANCE Rpmem WITH
    NLanes <- 2, NThreads <- 1, Units <- 2, SqSize <- 2, CqSize <- 3,
    Modes <- {"send", "write", "deep", "read"}, Methods <- {"APM", "GPSPM"},
    FirstCalls <- 3, OtherCalls <- 0, pc <- rpmem_pc, rmem <- remote
Wide == INSTANCE Rpmem WITH
    NLanes <- 2, NThreads <- 1, Units <- 2, SqSize <- 4, CqSize <- 3,
    Modes <- {"send", "write", "deep", "read"}, Methods <- {"APM", "GPSPM"},
    FirstCalls <- 3, OtherCalls <- 0, pc <- rpmem_pc, rmem <- remote
Shared == INSTANCE Rpmem WITH
    NLanes <- 2, NThreads <- 1, Units <- 1, SqSize <- 2, CqSize <- 3,
    Modes <- {"deep"}, Methods <- {"GPSPM"},
    FirstCalls <- 2, OtherCalls <- 1, pc <- rpmem_pc, rmem <- remote

vectorVars == <<arrays, nvalues, recovery, pushes, undo_log, vec_pc, vec_crashes>>
redoVars == <<rmem, rmedia, scratch, rlog, ext, capacity, shadow, transient, todo,
              redo_pc, before, goal, redo_ops, redo_crashes>>
rpmemVars == <<method, up, closing, error, rpmem_pc, call, event, pmsg, sq, cq, recv, at,
               scq, smsg, srecv, ssq, recv_posted, send_posted, remote, dur, ver, told>>
all == <<part, vars, vectorVars, redoVars, rpmemVars>>

ObjInit ==
    /\ part \in {"tx", "vector", "redo", "ways", "wide", "shared"}
    /\ Init /\ (part # "tx" => heap = {})
    /\ Vector!Init
    /\ Redo!Init /\ (part # "redo" => \A w \in {"w1", "w2"} : rmem[w] = {})
    /\ IF part \in {"ways", "wide"} THEN Ways!Init ELSE Shared!Init

ObjNext ==
    \/ part = "tx" /\ Next /\ UNCHANGED <<part, vectorVars, redoVars, rpmemVars>>
    \/ part = "vector" /\ Vector!Next /\ UNCHANGED <<part, vars, redoVars, rpmemVars>>
    \/ part = "redo" /\ Redo!Next /\ UNCHANGED <<part, vars, vectorVars, rpmemVars>>
    \/ part = "ways" /\ Ways!Next /\ UNCHANGED <<part, vars, vectorVars, redoVars>>
    \/ part = "wide" /\ Wide!Next /\ UNCHANGED <<part, vars, vectorVars, redoVars>>
    \/ part = "shared" /\ Shared!Next /\ UNCHANGED <<part, vars, vectorVars, redoVars>>

ObjSpec == ObjInit /\ [][ObjNext]_all

-----------------------------------------------------------------------------
(* The properties of the parts; those of Tx are TypeOK, SnapshotOnce,      *)
(* NprevAdjacent, RangesExact and AllOrNothing.                            *)

(* A crash leaves all modifications of an operation or none                *)
(* (operation_process()).                                                  *)
AllOrNone == part = "redo" => Redo!AllOrNone

(* A finished operation is durable (operation_process()). *)
DurableWhenIdle == part = "redo" => Redo!DurableWhenIdle

(* Transient entries come after persistent ones (operation_process()). *)
TransientLast == part = "redo" => Redo!TransientLast

(* A rollback restores the snapshots of its transaction, all of them and   *)
(* no others (pvector_new(), tx_foreach_set()).                            *)
RollsBackExactly == part = "vector" => Vector!RollsBackExactly

(* Between calls the vector counts the snapshots of the transaction        *)
(* (pvector_push_back(), pvector_pop_back(), pvector_resize()).            *)
CountsValues == part = "vector" => Vector!CountsValues

(* What rpmem_persist() returned 0 for is durable on the target. *)
RemoteDurable == IF part \in {"ways", "wide"} THEN Ways!RemoteDurable ELSE Shared!RemoteDurable

(* Messages find buffers and completions find room                         *)
(* (rpmem_fip_lane_attrs).                                                 *)
BuffersSuffice == Ways!BuffersSuffice

(* A message buffer is not written while it is being sent                  *)
(* (rpmem_fip_persist_send(), rpmem_fip_persist_saw()).                    *)
BufferStable == Ways!BufferStable
=============================================================================
