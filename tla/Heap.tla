-------------------------------- MODULE Heap --------------------------------
(***************************************************************************)
(* The persistent allocator of libpmemobj (palloc.c, heap.c, memblock.c,   *)
(* recycler.c): one zone of chunks, one allocation class of runs that are  *)
(* one chunk long, and huge blocks of whole chunks.                        *)
(*                                                                         *)
(* Persistent are the chunk headers and the bitmaps of the runs.  All else *)
(* is run-time state: the default bucket with the free chunks, the bucket  *)
(* of each arena with the free blocks of its active run, the recycler with *)
(* the other runs that have room, and the runs whose reservations have not *)
(* been published yet.  A block is reserved in the run-time state alone    *)
(* and becomes an object when its reservation is published.                *)
(*                                                                         *)
(* Locks that a thread takes and gives back within one step are a guard of *)
(* the step; run locks are held across steps by a publication only, and    *)
(* the locks of buckets by an allocation.  A publication's redo log is     *)
(* applied in one step (RedoLog).                                          *)
(***************************************************************************)
EXTENDS Integers, Sequences, FiniteSets, FiniteSetsExt, SequencesExt

CONSTANTS NChunk, NUnit, NActor, NArena, NLocks,
          Threshold,   \* recalc_threshold
          EarlyFree,   \* objects are freed before the zone is in the buckets
          MaxActs,     \* actions of one publication
          MaxOps       \* calls and crashes

Chunk == 1..NChunk
Unit == 1..NUnit
Actor == 1..NActor
Arena == 1..NArena

VARIABLES
    hdr, bitmap,            \* chunk headers, allocated units of the runs
    objs,                   \* allocated objects
    populated,              \* zones_exhausted
    default,                \* default_bucket: free chunks
    dlock,                  \* holder of its lock, 0 if none
    active, blocks,         \* the buckets of the arenas
    alock,                  \* holders of their locks
    nresv,                  \* unpublished reservations of each run
    runs, pending,          \* the recycler
    unaccounted, total,     \* unaccounted_units, unaccounted_total
    run_lock,               \* holders of the run locks
    pc, acts, todo, at, call, empty,  \* locals
    ops

media == <<hdr, bitmap, objs>>
recycler == <<runs, pending, unaccounted, total>>
bucket == <<active, blocks, alock>>
locals == <<acts, todo, at, call, empty>>
vars == <<media, populated, default, dlock, bucket, nresv, recycler, run_lock,
          pc, locals, ops>>

ArenaOf(t) == ((t - 1) % NArena) + 1
(* unaccounted_total is a uint64_t; no count comes near this bound. *)
UInt == 2^16

Goto(t, l) == pc' = [pc EXCEPT ![t] = l]

-----------------------------------------------------------------------------
(* Chunks and runs *)

Huge(c, n) == [kind |-> "huge", c |-> c, off |-> 0, n |-> n]
Run(c, off, n) == [kind |-> "run", c |-> c, off |-> off, n |-> n]

(* The places a block occupies. *)
Extent(b) ==
    IF b.kind = "huge" THEN (b.c..(b.c + b.n - 1)) \X Unit
    ELSE {b.c} \X (b.off..(b.off + b.n - 1))

(* heap_chunk_init(), huge_prep_operation_hdr(): a header and its footer. *)
WriteHdr(h, c, type, n) ==
    [x \in Chunk |->
        IF x = c THEN [type |-> type, size |-> n]
        ELSE IF x = c + n - 1 THEN [type |-> "footer", size |-> n]
        ELSE h[x]]

(* The chunks that a walk over the headers visits. *)
Visited ==
    LET F[i \in 0..NChunk] ==
            IF i = 0 THEN {1}
            ELSE F[i - 1] \cup {c + hdr[c].size : c \in F[i - 1] \cap Chunk}
    IN  F[NChunk]
Heads == Visited \cap Chunk

FreeUnits(c) == Unit \ bitmap[c]
Intervals(s) == {p \in Unit \X Unit : p[1] <= p[2] /\ p[1]..p[2] \subseteq s}

(* recycler_element_new() *)
Element(c) ==
    [c |-> c, free |-> Cardinality(FreeUnits(c)),
     max |-> Max({p[2] - p[1] + 1 : p \in Intervals(FreeUnits(c))} \cup {0})]

(* recycler_element_cmp(): by max_free_block, free_space and chunk_id. *)
Rank(e) == (e.max * (NUnit + 1) + e.free) * (NChunk + 1) + e.c

(* heap_run_process_bitmap_value(): the longest stretches of clear bits. *)
FreeBlocks(c) ==
    LET all == Intervals(FreeUnits(c))
    IN  {Run(c, p[1], p[2] - p[1] + 1) :
            p \in {q \in all : \A r \in all :
                        r[1] <= q[1] /\ q[2] <= r[2] => r = q}}

(* Mutant: a neighbour is joined that is free by its header alone. *)
ReuseAnyFree(h, d, c, n) ==
    LET x == c + h[c].size
        near == {k \in {x} \cap Chunk : h[k].type = "free"}
        m == [c |-> c, n |-> n + MapThenSumSet(LAMBDA k : h[k].size, near)]
    IN  [end |-> m.c + m.n,
         hdr |-> IF near = {} THEN h ELSE WriteHdr(h, m.c, "free", m.n),
         default |-> (d \ {[c |-> k, n |-> h[k].size] : k \in near}) \cup {m}]

(* heap_free_chunk_reuse() with heap_coalesce_huge(): the block is joined  *)
(* with the free chunks around it that are in the bucket.                  *)
Reuse(h, d, c, n) ==
    LET p == c - h[c - 1].size
        x == c + h[c].size
        In(k) == k \in Chunk /\ h[k].type = "free" /\ [c |-> k, n |-> h[k].size] \in d
        prev == IF c > 1 /\ In(p) THEN {p} ELSE {}
        next == IF In(x) THEN {x} ELSE {}
        near == prev \cup next
        m == [c |-> Min(prev \cup {c}), n |-> n + MapThenSumSet(LAMBDA k : h[k].size, near)]
    IN  [end |-> m.c + m.n,
         hdr |-> IF near = {} THEN h ELSE WriteHdr(h, m.c, "free", m.n),
         default |-> (d \ {[c |-> k, n |-> h[k].size] : k \in near}) \cup {m}]

(* heap_run_into_free_chunk() *)
RunIntoFree(h, d, c) == Reuse(WriteHdr(h, c, "free", h[c].size), d, c, h[c].size)

(* Mutant: a publication locks the neighbour of its run. *)
LockOfNext(b) == IF b.kind = "huge" THEN 0 ELSE ((b.c + 1) % NLocks) + 1

LockOf(b) == IF b.kind = "huge" THEN 0 ELSE (b.c % NLocks) + 1
Unlocked(c) == run_lock[(c % NLocks) + 1] = 0

-----------------------------------------------------------------------------
(* Reserving a block: palloc_reservation_create() *)

NoCall == [kind |-> "", n |-> 0, try |-> 0, c |-> 0, units |-> 0]

(* The units asked of the default bucket: a run takes one chunk. *)
Chunks(t) == IF call[t].kind = "huge" THEN call[t].n ELSE 1

(* Any heap that a previous execution may have left. *)
Init ==
    /\ hdr \in [Chunk -> [type : {"free", "used", "run", "lost"}, size : 0..NChunk]]
    /\ \A c \in Chunk :
        IF c \in Heads
        THEN /\ hdr[c].type # "lost" /\ hdr[c].size > 0
             /\ c + hdr[c].size - 1 \in Chunk
             /\ hdr[c].type = "run" => hdr[c].size = 1
        ELSE hdr[c] = [type |-> "lost", size |-> 0]
    /\ bitmap \in [Chunk -> SUBSET Unit]
    /\ \A c \in Chunk : hdr[c].type # "run" => bitmap[c] = Unit
    /\ objs = {Huge(c, hdr[c].size) : c \in {x \in Heads : hdr[x].type = "used"}}
            \cup {Run(p[1], p[2], 1) : p \in {q \in Chunk \X Unit :
                        hdr[q[1]].type = "run" /\ q[2] \in bitmap[q[1]]}}
    /\ populated = FALSE
    /\ default = {} /\ dlock = 0
    /\ active = [a \in Arena |-> 0] /\ blocks = [a \in Arena |-> {}]
    /\ alock = [a \in Arena |-> 0]
    /\ nresv = [c \in Chunk |-> 0]
    /\ runs = {} /\ pending = {}
    /\ unaccounted = [c \in Chunk |-> 0] /\ total = 0
    /\ run_lock = [l \in 1..NLocks |-> 0]
    /\ pc = [t \in Actor |-> "idle"]
    /\ acts = [t \in Actor |-> {}]
    /\ todo = [t \in Actor |-> <<>>]
    /\ at = [t \in Actor |-> 0]
    /\ call = [t \in Actor |-> NoCall]
    /\ empty = [t \in Actor |-> {}]
    /\ ops = 0

(* A thread calls the allocator.  Threads are alike: 1 is the first one. *)
MayCall(t) ==
    pc[t] = "idle" /\ ops < MaxOps /\ Cardinality(acts[t]) < MaxActs /\ (ops = 0 => t = 1)

(* heap_bucket_acquire(): the bucket of the arena, or the default one. *)
Reserve(t, kind, n) ==
    /\ MayCall(t)
    /\ ops' = ops + 1
    /\ call' = [call EXCEPT ![t] = [NoCall EXCEPT !.kind = kind, !.n = n]]
    /\ IF kind = "huge"
       THEN /\ dlock = 0 /\ dlock' = t
            /\ Goto(t, "huge")
            /\ UNCHANGED alock
       ELSE /\ alock[ArenaOf(t)] = 0 /\ alock' = [alock EXCEPT ![ArenaOf(t)] = t]
            /\ Goto(t, "fit")
            /\ UNCHANGED dlock
    /\ UNCHANGED <<media, populated, default, active, blocks, nresv, recycler,
                   run_lock, acts, todo, at, empty>>

(* heap_get_bestfit_block() in the bucket of an arena.  The constructor of *)
(* the object may fail: the units are then lost to this bucket.            *)
Fit(t) ==
    LET a == ArenaOf(t)
        n == call[t].n
        fits == {b \in blocks[a] : b.n >= n}
    IN  /\ pc[t] = "fit"
        /\ \E b \in fits :
            /\ \A x \in fits : b.n <= x.n
            /\ blocks' = [blocks EXCEPT ![a] = (@ \ {b}) \cup
                            (IF b.n = n THEN {} ELSE {Run(b.c, b.off + n, b.n - n)})]
            /\ \/ /\ acts' = [acts EXCEPT ![t] = @ \cup
                                {[new |-> "allocated", b |-> Run(b.c, b.off, n)]}]
                  /\ nresv' = [nresv EXCEPT ![active[a]] = @ + 1]
               \/ UNCHANGED <<acts, nresv>>
        /\ alock' = [alock EXCEPT ![a] = 0]
        /\ call' = [call EXCEPT ![t] = NoCall]
        /\ Goto(t, "idle")
        /\ UNCHANGED <<media, populated, default, dlock, active, recycler, run_lock,
                       todo, at, empty, ops>>

(* Mutant: a run with reservations goes to the recycler. *)
DetachReserved(t) ==
    LET a == ArenaOf(t)
        c == active[a]
    IN  /\ pc[t] = "fit" /\ \A b \in blocks[a] : b.n < call[t].n
        /\ active' = [active EXCEPT ![a] = 0]
        /\ blocks' = [blocks EXCEPT ![a] = {}]
        /\ c # 0 => Unlocked(c)
        /\ runs' = runs \cup {Element(x) : x \in {c} \ {0}}
        /\ Goto(t, "get")
        /\ call' = [call EXCEPT ![t].try = 1]
        /\ UNCHANGED <<media, populated, default, dlock, alock, nresv, pending, unaccounted,
                       total, run_lock, acts, todo, at, empty, ops>>

(* Mutant: a run with reservations is forgotten. *)
DetachNoPending(t) ==
    LET a == ArenaOf(t)
        c == active[a]
        full == c # 0 /\ nresv[c] = 0 /\ FreeUnits(c) = Unit
    IN  /\ pc[t] = "fit" /\ \A b \in blocks[a] : b.n < call[t].n
        /\ active' = [active EXCEPT ![a] = 0]
        /\ blocks' = [blocks EXCEPT ![a] = {}]
        /\ c # 0 /\ nresv[c] = 0 => Unlocked(c)
        /\ runs' = runs \cup {Element(x) : x \in {y \in {c} \ {0} : nresv[y] = 0 /\ ~full}}
        /\ empty' = [empty EXCEPT ![t] = IF full THEN {c} ELSE {}]
        /\ Goto(t, IF full THEN "acquire" ELSE "get")
        /\ call' = [call EXCEPT ![t].try = 1]
        /\ UNCHANGED <<media, populated, default, dlock, alock, nresv, pending, unaccounted,
                       total, run_lock, acts, todo, at, ops>>

(* heap_ensure_run_bucket_filled(): the active run leaves the bucket. *)
Detach(t) ==
    LET a == ArenaOf(t)
        c == active[a]
        full == c # 0 /\ nresv[c] = 0 /\ FreeUnits(c) = Unit
    IN  /\ pc[t] = "fit" /\ \A b \in blocks[a] : b.n < call[t].n
        /\ active' = [active EXCEPT ![a] = 0]
        /\ blocks' = [blocks EXCEPT ![a] = {}]
        /\ pending' = pending \cup {x \in {c} \ {0} : nresv[x] # 0}
        /\ c # 0 /\ nresv[c] = 0 => Unlocked(c)
        /\ runs' = runs \cup {Element(x) : x \in {y \in {c} \ {0} : nresv[y] = 0 /\ ~full}}
        /\ empty' = [empty EXCEPT ![t] = IF full THEN {c} ELSE {}]
        /\ Goto(t, IF full THEN "acquire" ELSE "get")
        /\ call' = [call EXCEPT ![t].try = 1]
        /\ UNCHANGED <<media, populated, default, dlock, alock, nresv, unaccounted, total,
                       run_lock, acts, todo, at, ops>>

(* recycler_get() after recycler_pending_check(), which erases from the    *)
(* vector it iterates over and may pass over runs; heap_run_reuse().       *)
RecyclerGet(t) ==
    LET idle == {c \in pending : nresv[c] = 0}
        a == ArenaOf(t)
    IN  /\ pc[t] = "get"
        /\ \E done \in SUBSET idle :
            LET all == runs \cup {Element(c) : c \in done}
                fits == {e \in all : e.max >= call[t].n}
            IN  /\ idle # {} => done # {}
                /\ \A c \in done : Unlocked(c)
                /\ pending' = pending \ done
                /\ \/ \E e \in fits :
                        /\ \A x \in fits : Rank(e) <= Rank(x)
                        /\ Unlocked(e.c)
                        /\ runs' = all \ {e}
                        /\ active' = [active EXCEPT ![a] = e.c]
                        /\ blocks' = [blocks EXCEPT ![a] = FreeBlocks(e.c)]
                        /\ Goto(t, "fit")
                        /\ UNCHANGED <<alock, call>>
                   \/ /\ fits = {} /\ runs' = all
                      /\ Goto(t, <<"recalc", "hugeacquire", "recalc", "idle">>[call[t].try])
                      /\ IF call[t].try = 4
                         THEN /\ alock' = [alock EXCEPT ![a] = 0]
                              /\ call' = [call EXCEPT ![t] = NoCall]
                         ELSE UNCHANGED <<alock, call>>
                      /\ UNCHANGED <<active, blocks>>
        /\ UNCHANGED <<media, populated, default, dlock, nresv, unaccounted, total,
                       run_lock, acts, todo, at, empty, ops>>

(* recycler_recalc() is forced when the default bucket has run dry; it     *)
(* goes on with the empty runs it has found, if any.                       *)
Forced(t) == dlock = t
AfterRecalc(t, found) ==
    IF found = {} THEN IF Forced(t) THEN "extend" ELSE "get"
    ELSE IF Forced(t) THEN "reclaim" ELSE "acquire"

(* heap_reuse_from_recycler(), heap_ensure_huge_bucket_filled():           *)
(* recycler_recalc() reads the number of freed units without a lock, ...   *)
RecalcRead(t) ==
    /\ pc[t] = "recalc" \/ (pc[t] = "huge" /\ \A m \in default : m.n < Chunks(t))
    /\ IF total = 0 \/ (~Forced(t) /\ total < Threshold)
       THEN Goto(t, AfterRecalc(t, {})) ELSE Goto(t, "walk")
    /\ call' = [call EXCEPT ![t].try = IF pc[t] = "recalc" THEN @ + 1 ELSE @,
                            ![t].units = IF pc'[t] = "walk" THEN total ELSE 0]
    /\ UNCHANGED <<media, populated, default, dlock, bucket, nresv, recycler, run_lock,
                   acts, todo, at, empty, ops>>

(* ... gives up if another thread may hold the lock of the recycler, or    *)
(* gives new scores to the runs in it and takes out those that have become *)
(* empty.  Unless forced, the search ends when it has found as many units  *)
(* as were freed.                                                          *)
RecalcWalk(t) ==
    LET Diff(e) == Element(e.c).free - e.free
        new == {e \in runs : (Forced(t) \/ unaccounted[e.c] # 0) /\ Diff(e) # 0}
        seen == {e \in new : Forced(t)
                    \/ MapThenSumSet(Diff, {x \in new : Rank(x) < Rank(e)}) < call[t].units}
    IN  /\ pc[t] = "walk"
        /\ \/ /\ \E u \in Actor \ {t} : pc[u] \in {"fit", "get", "walk"}
              /\ Goto(t, AfterRecalc(t, {}))
              /\ UNCHANGED <<runs, unaccounted, empty>>
           \/ /\ \A e \in runs : Unlocked(e.c)
              /\ runs' = (runs \ seen)
                         \cup {x \in {Element(e.c) : e \in seen} : x.free # NUnit}
              /\ empty' = [empty EXCEPT ![t] = {e.c : e \in {x \in seen : FreeUnits(x.c) = Unit}}]
              /\ unaccounted' = [c \in Chunk |-> unaccounted[c] - MapThenSumSet(
                    LAMBDA e : Min({unaccounted[c], Element(c).free - e.free + NUnit}),
                    {e \in seen : e.c = c})]
              /\ Goto(t, "account")
        /\ UNCHANGED <<media, populated, default, dlock, bucket, nresv, pending, total,
                       run_lock, acts, todo, at, call, ops>>

(* ... and subtracts what it had read: twice what was freed, when two      *)
(* threads have read it.                                                   *)
RecalcAccount(t) ==
    /\ pc[t] = "account"
    /\ total' = (total - call[t].units) % UInt
    /\ call' = [call EXCEPT ![t].units = 0]
    /\ Goto(t, AfterRecalc(t, empty[t]))
    /\ UNCHANGED <<media, populated, default, dlock, bucket, nresv, runs, pending,
                   unaccounted, run_lock, acts, todo, at, empty, ops>>

(* heap_bucket_acquire_by_id(DEFAULT_ALLOC_CLASS_ID) *)
Acquire(t) ==
    /\ pc[t] \in {"acquire", "hugeacquire"}
    /\ dlock = 0 /\ dlock' = t
    /\ Goto(t, IF pc[t] = "acquire" THEN "convert" ELSE "huge")
    /\ UNCHANGED <<media, populated, default, bucket, nresv, recycler, run_lock, locals,
                   ops>>

(* heap_run_into_free_chunk() of the empty runs, one by one. *)
Convert(t) ==
    /\ pc[t] \in {"convert", "reclaim"}
    /\ \E c \in empty[t] :
        LET r == RunIntoFree(hdr, default, c)
        IN  /\ Unlocked(c)
            /\ hdr' = r.hdr /\ default' = r.default
            /\ empty' = [empty EXCEPT ![t] = @ \ {c}]
            /\ IF empty[t] = {c}
               THEN /\ Goto(t, IF pc[t] = "convert" THEN "get" ELSE "huge")
                    /\ dlock' = IF pc[t] = "convert" THEN 0 ELSE dlock
               ELSE UNCHANGED <<pc, dlock>>
    /\ UNCHANGED <<bitmap, objs, populated, bucket, nresv, recycler, run_lock,
                   acts, todo, at, call, ops>>

(* Mutant: the header of the block is written before that of the rest. *)
HugeFitBlockFirst(t) ==
    LET n == Chunks(t)
        fits == {m \in default : m.n >= n}
    IN  /\ pc[t] = "huge"
        /\ \E m \in fits :
            /\ default' = default \ {m}
            /\ call' = [call EXCEPT ![t].c = m.c]
            /\ hdr' = WriteHdr(hdr, m.c, "free", n)
        /\ Goto(t, "take")
        /\ UNCHANGED <<bitmap, objs, populated, dlock, bucket, nresv, recycler, run_lock,
                       acts, todo, at, empty, ops>>

(* heap_get_bestfit_block() in the default bucket, for a huge object or    *)
(* for a new run: the smallest chunk that fits.  heap_resize_chunk() first *)
(* writes the header of the rest.                                          *)
HugeFit(t) ==
    LET n == Chunks(t)
        fits == {m \in default : m.n >= n}
    IN  /\ pc[t] = "huge"
        /\ \E m \in fits :
            /\ \A x \in fits : m.n < x.n \/ (m.n = x.n /\ m.c <= x.c)
            /\ default' = default \ {m}
            /\ call' = [call EXCEPT ![t].c = m.c]
            /\ IF m.n = n THEN Goto(t, "take") /\ UNCHANGED hdr
               ELSE /\ Goto(t, "resize")
                    /\ hdr' = WriteHdr(hdr, m.c + n, "free", hdr[m.c].size - n)
        /\ UNCHANGED <<bitmap, objs, populated, dlock, bucket, nresv, recycler, run_lock,
                       acts, todo, at, empty, ops>>

(* The rest of heap_resize_chunk(): the header of the block. *)
Resize(t) ==
    LET c == call[t].c
        n == Chunks(t)
    IN  /\ pc[t] = "resize"
        /\ default' = default \cup {[c |-> c + n, n |-> hdr[c].size - n]}
        /\ hdr' = WriteHdr(hdr, c, "free", n)
        /\ Goto(t, "take")
        /\ UNCHANGED <<bitmap, objs, populated, dlock, bucket, nresv, recycler, run_lock,
                       locals, ops>>

(* A huge block is reserved, or its constructor fails and it goes back. *)
Take(t) ==
    /\ pc[t] = "take" /\ call[t].kind = "huge"
    /\ \/ /\ acts' = [acts EXCEPT ![t] = @ \cup 
                    {[new |-> "allocated", b |-> Huge(call[t].c, call[t].n)]}]
          /\ UNCHANGED default
       \/ /\ default' = default \cup {[c |-> call[t].c, n |-> call[t].n]}
          /\ UNCHANGED acts
    /\ dlock' = 0
    /\ call' = [call EXCEPT ![t] = NoCall]
    /\ Goto(t, "idle")
    /\ UNCHANGED <<media, populated, bucket, nresv, recycler, run_lock,
                   todo, at, empty, ops>>

(* heap_run_init(): first the bitmap. *)
RunInit(t) ==
    /\ pc[t] = "take" /\ call[t].kind = "run"
    /\ bitmap' = [bitmap EXCEPT ![call[t].c] = {}]
    /\ Goto(t, "header")
    /\ UNCHANGED <<hdr, objs, populated, default, dlock, bucket, nresv, recycler, run_lock,
                   locals, ops>>

(* heap_run_init() then sets the type of the chunk, and the run becomes    *)
(* the active one.                                                         *)
RunHeader(t) ==
    LET a == ArenaOf(t)
        c == call[t].c
    IN  /\ pc[t] = "header"
        /\ hdr' = WriteHdr(hdr, c, "run", 1)
        /\ active' = [active EXCEPT ![a] = c]
        /\ blocks' = [blocks EXCEPT ![a] = FreeBlocks(c)]
        /\ dlock' = 0
        /\ Goto(t, "fit")
        /\ UNCHANGED <<bitmap, objs, populated, default, alock, nresv, recycler, run_lock,
                       locals, ops>>

(* heap_reclaim_zone_garbage(): all footers are recreated. *)
Footers ==
    [x \in Chunk |->
        LET own == {c \in Heads : hdr[c].type # "run" /\ x # c /\ x = c + hdr[c].size - 1}
        IN  IF own = {} THEN hdr[x]
            ELSE [type |-> "footer", size |-> hdr[CHOOSE c \in own : TRUE].size]]

(* heap_ensure_huge_bucket_filled(), when no empty run was reclaimed: the  *)
(* zone is put into the buckets; the heap does not grow.                   *)
HugeRefill(t) ==
    /\ pc[t] = "extend"
    /\ \/ /\ ~populated
          /\ populated' = TRUE /\ hdr' = Footers
          /\ at' = [at EXCEPT ![t] = 1]
          /\ Goto(t, "populate")
          /\ UNCHANGED <<dlock, call>>
       \/ /\ populated
          /\ dlock' = 0
          /\ IF call[t].kind = "huge"
             THEN call' = [call EXCEPT ![t] = NoCall] /\ Goto(t, "idle")
             ELSE call' = [call EXCEPT ![t].try = 3] /\ Goto(t, "get")
          /\ UNCHANGED <<hdr, populated, at>>
    /\ UNCHANGED <<bitmap, objs, default, bucket, nresv, recycler, run_lock,
                   acts, todo, empty, ops>>

(* heap_reclaim_zone_garbage(): one chunk header after the other. *)
Populate(t) ==
    LET c == at[t]
        full == FreeUnits(c) = Unit
        r == IF hdr[c].type = "run" THEN RunIntoFree(hdr, default, c)
             ELSE Reuse(hdr, default, c, hdr[c].size)
    IN  /\ pc[t] = "populate"
        /\ IF c \notin Chunk
           THEN /\ Goto(t, "huge") /\ at' = [at EXCEPT ![t] = 0]
                /\ UNCHANGED <<hdr, default, runs>>
           ELSE /\ hdr[c].type = "run" => Unlocked(c)
                /\ IF hdr[c].type = "free" \/ (hdr[c].type = "run" /\ full)
                   THEN /\ hdr' = r.hdr /\ default' = r.default
                        /\ at' = [at EXCEPT ![t] = r.end]
                   ELSE at' = [at EXCEPT ![t] = @ + hdr[c].size] /\ UNCHANGED <<hdr, default>>
                /\ runs' = runs \cup
                        IF hdr[c].type = "run" /\ ~full THEN {Element(c)} ELSE {}
                /\ UNCHANGED pc
        /\ UNCHANGED <<bitmap, objs, populated, dlock, bucket, nresv, pending, unaccounted,
                       total, run_lock, acts, todo, call, empty, ops>>

-----------------------------------------------------------------------------
(* Publishing: palloc_exec_actions(), also for palloc_operation() *)

(* The zone is in the buckets. *)
Ready == populated /\ \A t \in Actor : pc[t] # "populate"

(* palloc_defer_free_create(): objects that nobody else is freeing. *)
DeferFree(t, bs) ==
    /\ MayCall(t) /\ bs # {} /\ Cardinality(acts[t]) + Cardinality(bs) <= MaxActs
    /\ EarlyFree \/ Ready
    /\ \A u \in Actor : \A a \in acts[u] : a.b \notin bs
    /\ ops' = ops + 1
    /\ acts' = [acts EXCEPT ![t] = @ \cup {[new |-> "free", b |-> b] : b \in bs}]
    /\ UNCHANGED <<media, populated, default, dlock, bucket, nresv, recycler, run_lock, pc,
                   todo, at, call, empty>>

LockAt(t, i) == LockOf(todo[t][i].b)

(* The first action of those that share a lock. *)
Leads(t, i) == LockAt(t, i) # 0 /\ (i = 1 \/ LockAt(t, i) # LockAt(t, i - 1))

(* Mutant: the actions are not sorted. *)
PublishUnsorted(t) ==
    /\ pc[t] = "idle" /\ acts[t] # {}
    /\ \E s \in SetToSeqs(acts[t]) : todo' = [todo EXCEPT ![t] = s]
    /\ at' = [at EXCEPT ![t] = 1]
    /\ Goto(t, "lock")
    /\ UNCHANGED <<media, populated, default, dlock, bucket, nresv, recycler, run_lock,
                   acts, call, empty, ops>>

(* The actions are sorted by their locks, ... *)
Publish(t) ==
    /\ pc[t] = "idle" /\ acts[t] # {}
    /\ \E s \in SetToSeqs(acts[t]) :
        /\ \A i \in 1..(Len(s) - 1) : LockOf(s[i].b) <= LockOf(s[i + 1].b)
        /\ todo' = [todo EXCEPT ![t] = s]
    /\ at' = [at EXCEPT ![t] = 1]
    /\ Goto(t, "lock")
    /\ UNCHANGED <<media, populated, default, dlock, bucket, nresv, recycler, run_lock,
                   acts, call, empty, ops>>

(* ... every lock is taken once, ... *)
TakeLock(t) ==
    LET l == LockAt(t, at[t])
    IN  IF Leads(t, at[t])
        THEN run_lock[l] = 0 /\ run_lock' = [run_lock EXCEPT ![l] = t]
        ELSE UNCHANGED run_lock

Lock(t) ==
    /\ pc[t] = "lock" /\ at[t] < Len(todo[t])
    /\ TakeLock(t)
    /\ at' = [at EXCEPT ![t] = @ + 1]
    /\ UNCHANGED <<media, populated, default, dlock, bucket, nresv, recycler, pc,
                   acts, todo, call, empty, ops>>

Of(t, new, kind) == {a.b : a \in {x \in Range(todo[t]) : x.new = new /\ x.b.kind = kind}}

(* ... the last one and then the redo log sets the headers and the bitmaps *)
(* (the program goes on to write to its new objects), ...                  *)
Process(t) ==
    LET new == Of(t, "allocated", "huge")
        old == Of(t, "free", "huge")
        Units(bs, c) == UNION {b.off..(b.off + b.n - 1) : b \in {x \in bs : x.c = c}}
    IN  /\ pc[t] = "lock" /\ at[t] = Len(todo[t])
        /\ TakeLock(t)
        /\ at' = [at EXCEPT ![t] = 1]
        /\ hdr' = [x \in Chunk |->
             IF \E b \in new \cup old : x \in {b.c, b.c + b.n - 1}
             THEN LET b == CHOOSE y \in new \cup old : x \in {y.c, y.c + y.n - 1}
                  IN  [size |-> b.n,
                       type |-> IF x # b.c THEN "footer" ELSE IF b \in new THEN "used" ELSE "free"]
             ELSE hdr[x]]
        /\ bitmap' = [c \in Chunk |->
             IF \E b \in new : c \in b.c..(b.c + b.n - 1) THEN Unit
             ELSE (bitmap[c] \cup Units(Of(t, "allocated", "run"), c))
                    \ Units(Of(t, "free", "run"), c)]
        /\ objs' = (objs \cup new \cup Of(t, "allocated", "run"))
                        \ (old \cup Of(t, "free", "run"))
        /\ Goto(t, "processed")
        /\ UNCHANGED <<populated, default, dlock, bucket, nresv, recycler,
                       acts, todo, call, empty, ops>>

(* heap_memblock_on_free(): the units that the recycler is told of.  If    *)
(* the run is gone its assertion fails (RunWhileLocked); without           *)
(* assertions the recycler is told of them or not, as the allocation class *)
(* found in what is there now decides.                                     *)
Freed(a) ==
    IF a.b.kind # "run" \/ a.new # "free" THEN {0}
    ELSE IF hdr[a.b.c].type = "run" THEN {a.b.n} ELSE {0, a.b.n}

(* ... palloc_heap_action_on_process() of each action, after the first of  *)
(* those that share a lock the lock is given back, ...                     *)
OnProcess(t) ==
    LET i == at[t]
        a == todo[t][i]
        run == a.b.kind = "run"
    IN  /\ pc[t] = "processed"
        /\ nresv' = IF run /\ a.new = "allocated"
                    THEN [nresv EXCEPT ![a.b.c] = @ - 1] ELSE nresv
        /\ \E n \in Freed(a) :
            /\ total' = (total + n) % UInt
            /\ unaccounted' = [unaccounted EXCEPT ![a.b.c] = @ + n]
        /\ run_lock' = IF Leads(t, i) THEN [run_lock EXCEPT ![LockAt(t, i)] = 0] ELSE run_lock
        /\ at' = [at EXCEPT ![t] = IF i = Len(todo[t]) THEN 1 ELSE i + 1]
        /\ Goto(t, IF i = Len(todo[t]) THEN "unlocked" ELSE "processed")
        /\ UNCHANGED <<media, populated, default, dlock, bucket, runs, pending,
                       acts, todo, call, empty, ops>>

(* ... palloc_heap_action_on_unlock(): a freed huge block goes to the      *)
(* default bucket.                                                         *)
OnUnlock(t) ==
    LET i == at[t]
        a == todo[t][i]
        r == Reuse(hdr, default, a.b.c, a.b.n)
        last == i = Len(todo[t])
    IN  /\ pc[t] = "unlocked"
        /\ IF a.new = "free" /\ a.b.kind = "huge"
           THEN dlock = 0 /\ hdr' = r.hdr /\ default' = r.default
           ELSE UNCHANGED <<hdr, default>>
        /\ at' = [at EXCEPT ![t] = IF last THEN 0 ELSE i + 1]
        /\ acts' = [acts EXCEPT ![t] = @ \ {a}]
        /\ todo' = IF last THEN [todo EXCEPT ![t] = <<>>] ELSE todo
        /\ Goto(t, IF last THEN "idle" ELSE "unlocked")
        /\ UNCHANGED <<bitmap, objs, populated, dlock, bucket, nresv, recycler, run_lock,
                       call, empty, ops>>

(* palloc_heap_action_on_cancel() *)
Cancel(t) ==
    /\ pc[t] = "idle"
    /\ \E a \in acts[t] :
        LET r == Reuse(hdr, default, a.b.c, a.b.n)
        IN  /\ IF a.new = "allocated" /\ a.b.kind = "huge"
               THEN dlock = 0 /\ hdr' = r.hdr /\ default' = r.default
               ELSE UNCHANGED <<hdr, default>>
            /\ nresv' = IF a.new = "allocated" /\ a.b.kind = "run"
                        THEN [nresv EXCEPT ![a.b.c] = @ - 1] ELSE nresv
            /\ acts' = [acts EXCEPT ![t] = @ \ {a}]
    /\ UNCHANGED <<bitmap, objs, populated, dlock, bucket, recycler, run_lock, pc,
                   todo, at, call, empty, ops>>

(* The machine stops: the run-time state is gone, footers were never       *)
(* flushed.                                                                *)
Crash ==
    /\ ops < MaxOps /\ ops' = ops + 1
    /\ hdr' \in {hdr, [c \in Chunk |-> IF hdr[c].type = "footer"
                                      THEN [type |-> "lost", size |-> 0] ELSE hdr[c]]}
    /\ populated' = FALSE
    /\ default' = {} /\ dlock' = 0
    /\ active' = [a \in Arena |-> 0] /\ blocks' = [a \in Arena |-> {}]
    /\ alock' = [a \in Arena |-> 0]
    /\ nresv' = [c \in Chunk |-> 0]
    /\ runs' = {} /\ pending' = {}
    /\ unaccounted' = [c \in Chunk |-> 0] /\ total' = 0
    /\ run_lock' = [l \in 1..NLocks |-> 0]
    /\ pc' = [t \in Actor |-> "idle"]
    /\ acts' = [t \in Actor |-> {}]
    /\ todo' = [t \in Actor |-> <<>>]
    /\ at' = [t \in Actor |-> 0]
    /\ call' = [t \in Actor |-> NoCall]
    /\ empty' = [t \in Actor |-> {}]
    /\ UNCHANGED <<bitmap, objs>>

Step(t) ==
    \/ Fit(t) \/ Detach(t) \/ RecyclerGet(t) \/ RecalcRead(t) \/ RecalcWalk(t)
    \/ RecalcAccount(t) \/ Acquire(t) \/ Convert(t)
    \/ HugeFit(t) \/ Resize(t) \/ Take(t) \/ RunInit(t) \/ RunHeader(t) \/ HugeRefill(t)
    \/ Populate(t)
    \/ Lock(t) \/ Process(t) \/ OnProcess(t) \/ OnUnlock(t)

Next ==
    \/ \E t \in Actor :
        \/ Step(t) \/ Publish(t) \/ Cancel(t)
        \/ \E n \in 1..NChunk : Reserve(t, "huge", n)
        \/ \E n \in Unit : Reserve(t, "run", n)
        \/ \E bs \in SUBSET objs : DeferFree(t, bs)
    \/ Crash

Spec == Init /\ [][Next]_vars

-----------------------------------------------------------------------------
(* What the allocator promises *)

Unpublished(t) ==
    IF pc[t] \in {"processed", "unlocked"} THEN {}
    ELSE {a.b : a \in {x \in acts[t] : x.new = "allocated"}}

(* Everybody who may hand a block out or use it, with the block. *)
Holders ==
    ({<<"object", 0>>} \X objs)
    \cup UNION {{<<"reservation", t>>} \X Unpublished(t) : t \in Actor}
    \cup {<<<<"default", 0>>, Huge(m.c, m.n)>> : m \in default}
    \cup UNION {{<<"bucket", a>>} \X blocks[a] : a \in Arena}
    \cup {<<<<"in hand", t>>, Huge(call[t].c, Chunks(t))>> : t \in {x \in Actor : pc[x] \in {"resize", "take", "header"}}}

(* No unit is at once part of two objects, reservations or free blocks     *)
(* that a bucket may grant.                                                *)
NoDoubleGrant ==
    \A x, y \in Holders : x # y => Extent(x[2]) \cap Extent(y[2]) = {}

(* palloc_reservation_create(): "The memory block cannot be put back into  *)
(* the global state unless there are no active reservations."              *)
ReservedNotGlobal ==
    \A t \in Actor : \A b \in Unpublished(t) :
        /\ \A m \in default : Extent(b) \cap Extent(Huge(m.c, m.n)) = {}
        /\ b.kind = "run" =>
            \A c \in {e.c : e \in runs} \cup UNION {empty[u] : u \in Actor} : b.c # c

(* Once the zone is in the buckets, every run is tracked by exactly one    *)
(* arena, the recycler, its pending runs or the thread that frees it, and  *)
(* every free chunk by the default bucket, a reservation or the thread     *)
(* that works on it: none is lost, none is found twice.                    *)
TrackedOnce ==
    Ready =>
        \A c \in Heads :
            /\ hdr[c].type = "run" =>
                1 = Cardinality({a \in Arena : active[a] = c})
                    + Cardinality({e \in runs : e.c = c})
                    + Cardinality({c} \cap pending)
                    + Cardinality({t \in Actor : c \in empty[t]})
            /\ hdr[c].type = "free" =>
                1 = Cardinality({m \in default : m.c = c})
                    + Cardinality({t \in Actor :
                        \/ pc[t] \in {"resize", "take", "header"} /\ call[t].c = c
                        \/ \E a \in acts[t] : a.b.c = c /\ a.b.kind = "huge"})

(* heap_memblock_on_free(): ASSERTeq(hdr->type, CHUNK_TYPE_RUN) holds for  *)
(* a freed block as long as the lock of its run has not been given back.   *)
RunWhileLocked ==
    \A t \in Actor :
        pc[t] = "processed" /\ Leads(t, at[t]) /\ todo[t][at[t]].new = "free"
            => hdr[todo[t][at[t]].b.c].type = "run"

(* The chunk headers always tile the zone, and say with the bitmaps of the *)
(* runs which objects are allocated, also after a crash at any point.      *)
HeapMatchesObjects ==
    /\ NChunk + 1 \in Visited
    /\ {b \in objs : b.kind = "huge"}
        = {Huge(c, hdr[c].size) : c \in {x \in Heads : hdr[x].type = "used"}}
    /\ \A c \in Heads : hdr[c].type = "run" =>
            {c} \X bitmap[c] = UNION {Extent(b) : b \in {x \in objs : x.kind = "run" /\ x.c = c}}
    /\ \A b \in objs : b.kind = "run" => b.c \in Heads /\ hdr[b.c].type = "run"

(* palloc_exec_actions(): "The operations array is sorted so that proper   *)
(* lock ordering is ensured", no two publications wait for each other.     *)
NoLockCycle ==
    LET Waits(t, u) == /\ pc[t] = "lock" /\ Leads(t, at[t])
                       /\ run_lock[LockAt(t, at[t])] = u
    IN  \A t, u \in Actor : ~(Waits(t, u) /\ Waits(u, t))

=============================================================================
