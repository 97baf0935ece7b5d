------------------------------ MODULE MCRuntime ------------------------------
(***************************************************************************)
(* Runtime for TLC, together with two more parts in which somebody waits:  *)
(* the readers and writers of an arena of a block pool (BTT), and the two  *)
(* ends of a pool's copy on another node (Rpmem).                          *)
(*                                                                         *)
(* Four reads and writes of one block, of which one write may fail, are    *)
(* enough for a lane to be given back the data block that another lane     *)
(* still reads.                                                            *)
(***************************************************************************)
EXTENDS Runtime

VARIABLES
    map, pmap, flog, bdata, perr, rt, rtt, map_lock, err, rec,
    lane_at, call, lba, ent, old, scan, buf, res, calls, machine_crashes, write_fails,
    method, up, closing, error, rpmem_pc, persist, event, pmsg, sq, cq, recv, recv_at, scq,
    smsg, srecv, ssq, recv_posted, send_posted, rmem, dur, ver, told

Arena == INSTANCE BTT WITH
    ExternalNlba <- 2, NFree <- 2, NLane <- 2, LockSpan <- 1, Data <- {"d"}, Stale <- "d",
    Ops <- {"read", "write"}, MaxCall <- 4, MaxCrash <- 0, MaxFail <- 1,
    data <- bdata, lock <- map_lock, pc <- lane_at, op <- call, crashes <- machine_crashes,
    fails <- write_fails

Remote == INSTANCE Rpmem WITH
    NLanes <- 1, NThreads <- 1, Units <- 2, SqSize <- 2, CqSize <- 3,
    Modes <- {"send", "write"}, Methods <- {"APM", "GPSPM"},
    FirstCalls <- 2, OtherCalls <- 0, pc <- rpmem_pc, call <- persist, at <- recv_at

arenaVars == <<map, pmap, flog, bdata, perr, rt, rtt, map_lock, err, rec, lane_at, call, lba, ent,
               old, scan, buf, res, calls, machine_crashes, write_fails>>

remoteVars == <<method, up, closing, error, rpmem_pc, persist, event, pmsg, sq, cq, recv,
                recv_at, scq, smsg, srecv, ssq, recv_posted, send_posted, rmem, dur, ver,
                told>>
mcVars == <<all, arenaVars, remoteVars>>

OfArena(A) ==
    part = "arena" /\ A /\ (\A l \in Arena!Lane : lba'[l] = 0) /\ UNCHANGED <<all, remoteVars>>
OfRemote(A) ==
    part = "remote" /\ A /\ UNCHANGED <<all, arenaVars>>

(* Threads may stay out of an arena and leave a replica alone, and         *)
(* btt_write() spins on the read tracking table; any other call that       *)
(* cannot go on is a deadlock.                                             *)
Outside ==
    /\ \/ part = "arena" /\ \A l \in Arena!Lane : lane_at[l] \in {"idle", "wr_scan"}
       \/ part = "remote" /\ rpmem_pc[0] = "idle"
    /\ UNCHANGED mcVars

MCInit ==
    /\ part \in Parts \cup {"arena", "remote"}
    /\ RuntimeInit /\ Arena!Init
    /\ Remote!Init /\ (part # "remote" => method = "APM")

MCNext ==
    \/ RuntimeNext /\ UNCHANGED <<arenaVars, remoteVars>>
    \/ OfArena(Arena!Next)
    \/ OfRemote(Remote!Next)
    \/ Outside

(* A thread inside a call keeps running; the two ends of a replica and the *)
(* network between them do not all stop.                                   *)
MCSpec ==
    /\ MCInit /\ [][MCNext]_mcVars
    /\ \A t \in Caller : WF_vars(OfSync(GetStep(t)))
    /\ \A t \in Thread : WF_laneVars(OfLane(Lanes!Acquire(t) \/ Lanes!TryNext(t)))
    /\ \A l \in Arena!Lane :
        WF_arenaVars(OfArena(\/ Arena!ReadStep(l) \/ Arena!WriteStep(l) \/ Arena!MapLock(l)
                             \/ Arena!ErrorStep(l) \/ Arena!Return(l)))
    /\ WF_remoteVars(OfRemote(Remote!Progress))

-----------------------------------------------------------------------------
(* A btt_write() that started returns: the scan of the read tracking table *)
(* ends and the map locks are released.                                    *)
WritesReturn == Arena!WritesReturn

(* rpmem_persist() returns, with a connection or without one. *)
PersistReturns == Remote!PersistReturns
=============================================================================
