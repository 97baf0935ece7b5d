------------------------------- MODULE MCPool -------------------------------
(***************************************************************************)
(* What a pool keeps on its media, for TLC: a log pool (PmemLog), the heap *)
(* of an object pool (Heap) and its lists (PList).                         *)
(*                                                                         *)
(* The modules share no state: a behaviour is one of the component that    *)
(* part names, and the others rest in one of their initial states.         *)
(***************************************************************************)
EXTENDS PmemLog

CONSTANTS byteA, byteB,
          NChunk, NUnit, NActor, NArena, NLocks, Threshold, EarlyFree, MaxActs, MaxOps

(* One buffer, an empty one, and two gathered ones. *)
Buffers == {<<<<byteA>>>>, <<<<>>>>, <<<<byteB>>, <<byteA, byteB>>>>}

VARIABLES
    part,
    hdr, bitmap, objs, populated, default, dlock, active, blocks, alock, nresv, runs, pending,
    unaccounted, total, run_lock, heap_pc, acts, todo, at, heap_call, empty, ops,
    field, links, list_objs, list_mutex, lanes, list_call, list_log, list_ops, list_pc,
    list_crashes

Blocks == INSTANCE Heap WITH pc <- heap_pc, call <- heap_call
Lists == INSTANCE PList WITH
    NList <- 2, NObj <- 3, Thread <- {"t1", "t2"}, NLanes <- 2, MaxShared <- 1,
    MaxMoved <- 2, MaxOps <- 2, MaxCrash <- 1,
    mem <- links, heap <- list_objs, mutex <- list_mutex, call <- list_call,
    log <- list_log, ops <- list_ops, pc <- list_pc, crashes <- list_crashes

heapVars == <<hdr, bitmap, objs, populated, default, dlock, active, blocks, alock, nresv, runs,
              pending, unaccounted, total, run_lock, heap_pc, acts, todo, at, heap_call, empty,
              ops>>
listVars == <<field, links, list_objs, list_mutex, lanes, list_call, list_log, list_ops,
              list_pc, list_crashes>>
all == <<part, vars, heapVars, listVars>>

(* The used units of a run found at start are its first ones. *)
PoolInit ==
    /\ part \in {"heap", "log", "lists"}
    /\ Init
    /\ Blocks!Init /\ (part # "heap" => hdr[1] = [type |-> "free", size |-> NChunk])
    /\ \A c \in Blocks!Chunk : \E n \in 0..NUnit : bitmap[c] = 1..n
    /\ Lists!Init /\ (part # "lists" => list_objs = {} /\ field = [l \in 1..2 |-> l])

(* Whoever uses the heap, the lists or the log may stop doing so between   *)
(* two calls, so that a call that cannot return is a deadlock.             *)
Rest ==
    /\ \/ part = "heap" /\ \A t \in Blocks!Actor : heap_pc[t] = "idle"
       \/ part = "lists" /\ \A t \in {"t1", "t2"} : list_pc[t] = "idle"
       \/ part = "log" /\ \A t \in Thread : pc[t] = "idle"
    /\ UNCHANGED all

PoolNext ==
    \/ part = "log" /\ Next /\ UNCHANGED <<part, heapVars, listVars>>
    \/ part = "heap" /\ Blocks!Next /\ UNCHANGED <<part, vars, listVars>>
    \/ part = "lists" /\ Lists!Next /\ UNCHANGED <<part, vars, heapVars>>
    \/ Rest

PoolSpec == PoolInit /\ [][PoolNext]_all

-----------------------------------------------------------------------------
(* The properties of the parts; those of PmemLog are OffsetCoversDurable   *)
(* and ImplementsLogDevice.                                                *)

(* No unit is at once in two objects, reservations or free blocks that a   *)
(* bucket may grant (palloc.c, heap.c).                                    *)
NoDoubleGrant == part = "heap" => Blocks!NoDoubleGrant

(* A reserved block does not go back to the global state (palloc.c). *)
ReservedNotGlobal == part = "heap" => Blocks!ReservedNotGlobal

(* No run and no free chunk is lost or found twice (heap.c, recycler.c). *)
TrackedOnce == part = "heap" => Blocks!TrackedOnce

(* The type assertion of heap_memblock_on_free() holds under the lock. *)
RunWhileLocked == part = "heap" => Blocks!RunWhileLocked

(* Headers and bitmaps say which objects are allocated (memblock.c). *)
HeapMatchesObjects == part = "heap" => Blocks!HeapMatchesObjects

(* No two publications wait for each other (palloc_exec_actions()). *)
NoLockCycle == part = "heap" => Blocks!NoLockCycle

(* The lists are doubly linked rings of allocated objects (list.c). *)
ListsAreRings == part = "lists" => Lists!ListsAreRings

(* A call on a list takes effect entirely, as documented, or not at all    *)
(* (list.c).                                                               *)
EntirelyOrNot == Lists!EntirelyOrNot

(* No two callers wait for each other's lists (list_mutexes_lock()). *)
NoDeadlock == part = "lists" => Lists!NoDeadlock
=============================================================================
