--------------------------------- MODULE Tx ---------------------------------
(***************************************************************************)
(* Transactions of libpmemobj (libpmemobj/tx.c and pvector.c): one thread  *)
(* on one lane of a pool, over several transactions and restarts.          *)
(*                                                                         *)
(* Memory is a line of 8-byte words.  mem is what the CPU sees; media[w]   *)
(* holds the values a power loss may leave in w, one value once the word   *)
(* has been flushed and drained.  The allocator's operations are atomic:   *)
(* its redo log, modelled in RedoLog, is replayed before the undo log.     *)
(***************************************************************************)
EXTENDS Integers, Sequences, FiniteSets

CONSTANTS
    Root,           \* words of objects that stay allocated
    Obj,            \* one-word objects that are allocated and freed
    Val,            \* contents of a word; 0 is what memset writes
    CacheSize,      \* words of a range cache (tx_params.cache_size)
    Threshold,      \* tx_params.cache_threshold
    MemsetInOrder,  \* whether a memset reaches the media in address order
    Calls,          \* what a program does in a transaction
    MaxDepth,       \* bound on nested transactions
    MaxTx,          \* bound on transactions
    MaxCrash        \* bound on power losses

ASSUME WordAssumption ==
    /\ Root \subseteq Nat /\ Obj \subseteq Nat /\ IsFiniteSet(Root)
    /\ \A o \in Obj : {o - 1, o, o + 1} \cap (Root \cup Obj) = {o} /\ o \notin Root
ASSUME ValAssumption == 0 \in Val /\ 1 \in Val
ASSUME CacheAssumption == CacheSize \in Nat /\ Threshold \in Nat
ASSUME BoundAssumption == MaxDepth \in Nat /\ MaxTx \in Nat

Hdr == 1            \* sizeof(struct tx_range), in words of the model
None == [off |-> -1, size |-> 0]

(* An object's header lies between it and its neighbours: no two words of  *)
(* different objects are adjacent.                                         *)
Word == Root \cup Obj

VARIABLES
    mem, media,
    heap,           \* objects allocated in the heap, on the media
    large,          \* undo log UNDO_SET: a sequence of snapshots
    vec,            \* undo log UNDO_SET_CACHE: a sequence of caches, each a
                    \* sequence of snapshots up to the first invalid one
    nc,             \* ctx[UNDO_SET_CACHE]->nvalues
    cache_offset,
    ranges,         \* lane->ranges
    actions,        \* lane->actions
    stage, depth, last_errnum,
    pc, r, nprev, pred, snap, zero_all,
    list, ri,       \* where tx_foreach_set() is
    allowed,        \* contents the pool may have when no transaction runs
    txs, crashes

persistent == <<media, heap, large, vec>>
lane == <<nc, cache_offset, ranges, actions>>
tx == <<stage, depth, last_errnum>>
locals == <<r, nprev, pred, snap, zero_all, list, ri>>
vars == <<mem, persistent, lane, tx, pc, locals, allowed, txs, crashes>>

Words(x) == x.off .. x.off + x.size - 1
Covered == UNION {Words(x) : x \in ranges}
Acted(type) == {a.what : a \in {b \in actions : b.type = type}}
Action(t, x) == [type |-> t, what |-> x]

(* The contents of the pool as its user understands them. *)
Contents(h, m) == <<h, [w \in Root \cup h |-> m[w]]>>

-----------------------------------------------------------------------------
Init ==
    /\ mem = [w \in Word |-> 1] /\ media = [w \in Word |-> {1}]
    /\ heap \in SUBSET Obj
    /\ large = <<>> /\ vec = <<>> /\ nc = 0 /\ cache_offset = 0
    /\ ranges = {} /\ actions = {}
    /\ stage = "none" /\ depth = 0 /\ last_errnum = FALSE
    /\ pc = "user" /\ r = None /\ nprev = None /\ pred = "le" /\ snap = None
    /\ zero_all = FALSE /\ list = 0 /\ ri = 0
    /\ allowed = {Contents(heap, mem)}
    /\ txs = 0 /\ crashes = 0

InUser == pc = "user" /\ UNCHANGED <<crashes, large, vec, nc>>
InWork == InUser /\ stage = "work" /\ UNCHANGED txs

(* pmemobj_tx_begin *)
Begin ==
    /\ InUser /\ depth < MaxDepth
    /\ \/ depth = 0 /\ txs < MaxTx /\ txs' = txs + 1
          /\ ranges' = {} /\ actions' = {} /\ cache_offset' = 0
       \/ depth > 0 /\ stage = "work" /\ UNCHANGED <<txs, ranges, actions, cache_offset>>
    /\ depth' = depth + 1 /\ stage' = "work" /\ last_errnum' = FALSE
    /\ UNCHANGED <<mem, media, heap, pc, locals, allowed>>

(* The program stores to a word it has added or allocated. *)
Store ==
    /\ InWork
    /\ \E w \in Covered \ Acted("free"), v \in Val :
          /\ v # mem[w]
          /\ mem' = [mem EXCEPT ![w] = v]
          /\ media' = [media EXCEPT ![w] = @ \cup {v}]
    /\ UNCHANGED <<heap, cache_offset, ranges, actions, tx, pc, locals, allowed>>

(* tx_alloc_common; the constructor zeroes the object. *)
Alloc ==
    /\ InWork /\ "alloc" \in Calls
    /\ \E o \in Obj \ (heap \cup Acted("alloc")) :
          /\ mem' = [mem EXCEPT ![o] = 0]
          /\ media' = [media EXCEPT ![o] = @ \cup {0}]
          /\ actions' = actions \cup {Action("alloc", o)}
          /\ ranges' = ranges \cup {[off |-> o, size |-> 1]}
    /\ UNCHANGED <<heap, cache_offset, tx, pc, locals, allowed>>

(* pmemobj_tx_free: of an object of this transaction, or of an older one. *)
Free ==
    /\ InWork /\ "free" \in Calls
    /\ \/ \E o \in Acted("alloc") :
             /\ ranges' = {x \in ranges : x.off # o}
             /\ actions' = actions \ {Action("alloc", o)}
       \/ \E o \in heap \ Acted("free") :
             actions' = actions \cup {Action("free", o)} /\ UNCHANGED ranges
    /\ UNCHANGED <<mem, media, heap, cache_offset, tx, pc, locals, allowed>>

-----------------------------------------------------------------------------
(* pmemobj_tx_add_common: one iteration of the loop is one step. *)
AddRange ==
    /\ InWork /\ "add" \in Calls
    /\ \E x \in [off : Root \cup heap, size : 1 .. Cardinality(Root)] :
          /\ Words(x) \subseteq Root \cup (heap \ Acted("free"))
          /\ r' = x /\ nprev' = None /\ pred' = "le"
    /\ pc' = "add"
    /\ UNCHANGED <<mem, media, heap, cache_offset, ranges, actions, tx, snap,
                   zero_all, list, ri, allowed>>

(* ravl_find of the end of r *)
Below(e) == {x \in ranges : x.off < e \/ (pred = "le" /\ x.off = e)}
Found(e) ==
    IF Below(e) = {} THEN None
    ELSE CHOOSE x \in Below(e) : \A y \in Below(e) : y.off <= x.off

Larger(a, b) == IF a > b THEN a ELSE b

InAdd ==
    /\ pc = "add" /\ pred' = "lt"
    /\ UNCHANGED <<mem, persistent, nc, cache_offset, actions, tx, zero_all,
                   list, ri, allowed, txs, crashes>>

\* Mutant: the range on the right is moved and does not grow.
AddNewNotGrown ==
    LET f == Found(r.off + r.size) IN
    /\ InAdd /\ r.size # 0 /\ (f = None \/ f.off + f.size < r.off)
    /\ ranges' = IF nprev = None THEN ranges \cup {r}
                 ELSE (ranges \ {nprev}) \cup {[nprev EXCEPT !.off = @ - r.size]}
    /\ snap' = r /\ r' = None
    /\ pc' = "snap" /\ UNCHANGED nprev

(* nothing found on the left: a new range, or a longer one on the right *)
AddNew ==
    LET f == Found(r.off + r.size) IN
    /\ InAdd /\ r.size # 0 /\ (f = None \/ f.off + f.size < r.off)
    /\ ranges' = IF nprev = None THEN ranges \cup {r}
                 ELSE (ranges \ {nprev}) \cup
                         {[off |-> nprev.off - r.size, size |-> nprev.size + r.size]}
    /\ snap' = r /\ r' = None
    /\ pc' = "snap" /\ UNCHANGED nprev

\* Mutant: the snapshot takes in what f has already.
AddInsideAgain ==
    LET rend == r.off + r.size
        f == Found(rend)
        fend == f.off + f.size
        g == [f EXCEPT !.size = @ + (rend - fend) + nprev.size]
    IN  /\ InAdd /\ r.size # 0 /\ f # None /\ r.off <= fend /\ fend <= rend
        /\ ranges' = (ranges \ {f, nprev}) \cup {g}
        /\ r' = [r EXCEPT !.size = @ - (rend - Larger(f.off, r.off))]
        /\ nprev' = g
        /\ snap' = [off |-> f.off, size |-> rend - f.off]
        /\ pc' = IF fend = rend THEN "add" ELSE "snap"

\* Mutant: the words r and f share are left in r.
AddInsideRest ==
    LET rend == r.off + r.size
        f == Found(rend)
        fend == f.off + f.size
        g == [f EXCEPT !.size = @ + (rend - fend) + nprev.size]
    IN  /\ InAdd /\ r.size # 0 /\ f # None /\ r.off <= fend /\ fend <= rend
        /\ ranges' = (ranges \ {f, nprev}) \cup {g}
        /\ r' = [r EXCEPT !.size = @ - (rend - fend)]
        /\ nprev' = g
        /\ snap' = [off |-> fend, size |-> rend - fend]
        /\ pc' = IF fend = rend THEN "add" ELSE "snap"

(* f ends inside r: f grows to the end of r, and takes in nprev *)
AddInside ==
    LET rend == r.off + r.size
        f == Found(rend)
        fend == f.off + f.size
        g == [f EXCEPT !.size = @ + (rend - fend) + nprev.size]
    IN  /\ InAdd /\ r.size # 0 /\ f # None /\ r.off <= fend /\ fend <= rend
        /\ ranges' = (ranges \ {f, nprev}) \cup {g}
        /\ r' = [r EXCEPT !.size = @ - (rend - Larger(f.off, r.off))]
        /\ nprev' = g
        /\ snap' = [off |-> fend, size |-> rend - fend]
        /\ pc' = IF fend = rend THEN "add" ELSE "snap"

(* f ends beyond r *)
AddBeyond ==
    LET rend == r.off + r.size
        f == Found(rend)
    IN  /\ InAdd /\ r.size # 0 /\ f # None /\ f.off + f.size > rend
        /\ r' = [r EXCEPT !.size = @ - (rend - Larger(f.off, r.off))]
        /\ nprev' = f
        /\ UNCHANGED <<ranges, snap, pc>>

AddDone ==
    /\ InAdd /\ r.size = 0 /\ pc' = "user"
    /\ r' = None /\ nprev' = None /\ snap' = None
    /\ UNCHANGED ranges

-----------------------------------------------------------------------------
\* Mutant: the header is stored before the data is on the media.
SnapshotUnordered(x) ==
    [off |-> x.off, size |-> x.size, data |-> [w \in Words(x) |-> mem[w]],
     dat |-> FALSE]

(* Snapshots.  dat tells whether the data is on the media.                 *)
Snapshot(x) ==
    [off |-> x.off, size |-> x.size, data |-> [w \in Words(x) |-> mem[w]],
     dat |-> TRUE]
OnMedia(e) == [e EXCEPT !.dat = TRUE]

InSnap ==
    /\ pc = "snap" /\ snap.size # 0
    /\ UNCHANGED <<mem, media, heap, ranges, tx, r, nprev, pred, zero_all, list, ri,
                   allowed, txs, crashes>>

(* pmemobj_tx_add_large: the object and its entry in the vector appear at  *)
(* once; its actions, to free it and to reset the entry, are implied.      *)
SnapLarge ==
    /\ InSnap /\ snap.size > Threshold
    /\ large' = Append(large, OnMedia(Snapshot(snap)))
    /\ snap' = None
    /\ pc' = "add"
    /\ UNCHANGED <<vec, nc, cache_offset, actions>>

CacheLeft == CacheSize - cache_offset
NeedsCache == nc = 0 \/ CacheLeft <= Hdr

(* pmemobj_tx_get_range_cache: the last cache is full, or there is none *)
NewCache ==
    /\ InSnap /\ snap.size <= Threshold /\ NeedsCache
    /\ vec' = SubSeq(vec, 1, nc) \o <<<<>>>> \o SubSeq(vec, nc + 2, Len(vec))
    /\ nc' = nc + 1
    /\ cache_offset' = 0
    /\ LET is_first == nc <= 1 IN
       actions' = actions \cup {Action(IF is_first THEN "clear" ELSE "drop", nc + 1)}
    /\ UNCHANGED <<large, snap, pc>>

\* Mutant: a snapshot is never split.
SnapSmallUnsplit ==
    LET n == snap.size
        e == Snapshot(snap)
    IN  /\ InSnap /\ snap.size <= Threshold /\ ~NeedsCache
        /\ vec' = [vec EXCEPT ![nc] = Append(@, e)]
        /\ cache_offset' = cache_offset + n + Hdr
        /\ snap' = [off |-> snap.off + n, size |-> 0]
        /\ pc' = "header"
        /\ UNCHANGED <<large, nc, actions>>

(* pmemobj_tx_add_small: the data is on the media before the header is     *)
(* stored; what does not fit goes to the next cache.                       *)
SnapSmall ==
    LET n == IF CacheLeft < snap.size + Hdr THEN CacheLeft - Hdr ELSE snap.size
        e == Snapshot([snap EXCEPT !.size = n])
    IN  /\ InSnap /\ snap.size <= Threshold /\ ~NeedsCache
        /\ vec' = [vec EXCEPT ![nc] = Append(@, e)]
        /\ cache_offset' = cache_offset + n + Hdr
        /\ snap' = [off |-> snap.off + n, size |-> snap.size - n]
        /\ pc' = "header"
        /\ UNCHANGED <<large, nc, actions>>

(* and the header is persisted. *)
SnapHeader ==
    /\ pc = "header"
    /\ vec' = [vec EXCEPT ![nc][Len(vec[nc])] = OnMedia(@)]
    /\ pc' = IF snap.size = 0 THEN "add" ELSE "snap"
    /\ UNCHANGED <<mem, media, heap, large, lane, tx, locals, allowed, txs, crashes>>

-----------------------------------------------------------------------------
(* obj_tx_abort(), with d transactions open: only the outermost one undoes *)
(* anything.                                                               *)
AbortTx(d) ==
    /\ stage' = "onabort" /\ last_errnum' = TRUE
    /\ IF d = 1
         THEN actions' = {} /\ ranges' = {} /\ pc' = "restore" /\ list' = 0 /\ ri' = 0
         ELSE pc' = "user" /\ UNCHANGED <<actions, ranges, list, ri>>
    /\ r' = None /\ nprev' = None /\ snap' = None /\ zero_all' = FALSE
    /\ UNCHANGED <<mem, media, heap, cache_offset, pred, allowed>>

(* pmemobj_tx_abort *)
Abort == InWork /\ "abort" \in Calls /\ AbortTx(depth) /\ UNCHANGED depth

(* No memory for a new object, a snapshot or a cache.  After a failed      *)
(* pmalloc_construct(), pmemobj_tx_add_large() still adds the actions that *)
(* would free the snapshot of the popped entry and zero the entry.  An     *)
(* abort always follows and cancels them: palloc_cancel() does nothing for *)
(* freeing and for setting a value.                                        *)
OutOfMemory ==
    /\ "oom" \in Calls
    /\ \/ InWork /\ "alloc" \in Calls
       \/ pc = "snap" /\ (snap.size > Threshold \/ NeedsCache)
    /\ AbortTx(depth)
    /\ UNCHANGED <<large, vec, nc, depth, txs, crashes>>

(* pmemobj_tx_commit; an inner transaction only changes the stage *)
CommitInner ==
    /\ InWork /\ depth > 1 /\ stage' = "oncommit"
    /\ UNCHANGED <<mem, media, heap, cache_offset, ranges, actions, depth,
                   last_errnum, pc, locals, allowed>>

(* tx_pre_commit and the drain: every range is on the media *)
PreCommit ==
    /\ InWork /\ depth = 1
    /\ media' = [w \in Word |-> IF w \in Covered THEN {mem[w]} ELSE media[w]]
    /\ ranges' = {}
    /\ allowed' = allowed \cup
          {Contents((heap \cup Acted("alloc")) \ Acted("free"), mem)}
    /\ pc' = "publish"
    /\ UNCHANGED <<mem, heap, cache_offset, actions, tx, locals>>

(* palloc_publish: the redo log does all of this or nothing *)
Publish ==
    /\ pc = "publish"
    /\ heap' = (heap \cup Acted("alloc")) \ Acted("free")
    /\ large' = <<>>
    /\ vec' = [i \in 1 .. Len(vec) - Cardinality(Acted("drop")) |->
                  IF i \in Acted("clear") THEN <<>> ELSE vec[i]]
    /\ pc' = "post"
    /\ UNCHANGED <<mem, media, lane, tx, locals, allowed, txs, crashes>>

(* The size tx_clear_set_cache_but_first() gives to memset. *)
ToZero(all) == IF all THEN CacheSize ELSE cache_offset

CommitDone ==
    /\ stage' = "oncommit" /\ pc' = "user"
    /\ actions' = {}
    /\ allowed' = {Contents(heap, mem)}
    /\ UNCHANGED <<depth, last_errnum>>

(* tx_post_commit: the vector forgets all caches but the first ... *)
PostCommit ==
    /\ pc = "post"
    /\ nc' = IF nc > 1 THEN 1 ELSE nc
    /\ IF nc > 0 /\ ToZero(nc > 1) # 0
         THEN pc' = "zero" /\ UNCHANGED <<actions, tx, allowed>>
         ELSE CommitDone
    /\ UNCHANGED <<mem, persistent, cache_offset, ranges, locals, txs, crashes>>

-----------------------------------------------------------------------------
(* The undo log: list 0 is UNDO_SET, the others are the caches. *)
Last == IF nc < Len(vec) THEN nc ELSE Len(vec)
Snapshots(k) == IF k = 0 THEN large ELSE vec[k]
Undo == UNION {{k} \X (1 .. Len(Snapshots(k))) : k \in 0 .. Last}
At(p) == Snapshots(p[1])[p[2]]
Saved == UNION {Words(At(p)) : p \in Undo}

InUndo == UNCHANGED <<mem, media, heap, cache_offset, ranges, allowed, txs, crashes>>

(* tx_abort_set(), in a transaction or at restart: restore each range, *)
RestoreRange ==
    /\ pc = "restore" /\ ri < Len(Snapshots(list))
    /\ LET e == Snapshots(list)[ri + 1] IN
       /\ mem' = [w \in Word |-> IF w \in Words(e) THEN e.data[w] ELSE mem[w]]
       /\ media' = [w \in Word |-> IF w \in Words(e) THEN {e.data[w]} ELSE media[w]]
    /\ ri' = ri + 1
    /\ UNCHANGED <<heap, large, vec, lane, tx, pc, r, nprev, pred, snap, zero_all,
                   list, allowed, txs, crashes>>

(* list after list, *)
RestoreNext ==
    /\ pc = "restore" /\ ri = Len(Snapshots(list)) /\ list < Last
    /\ list' = list + 1 /\ ri' = 0
    /\ UNCHANGED <<large, vec, nc, actions, tx, pc, r, nprev, pred, snap, zero_all>>
    /\ InUndo

(* free the caches, at restart all of them, else all but the first, *)
Kept == IF depth = 0 THEN 0 ELSE 1

Restored == pc = "pop" \/ (pc = "restore" /\ list = Last /\ ri = Len(Snapshots(list)))

PopCache ==
    /\ Restored
    /\ nc > Kept
    /\ vec' = SubSeq(vec, 1, nc - 1) /\ nc' = nc - 1
    /\ zero_all' = TRUE /\ list' = 0 /\ ri' = 0 /\ pc' = "pop"
    /\ UNCHANGED <<large, actions, tx, r, nprev, pred, snap>> /\ InUndo

(* clear the first, *)
PopDone ==
    /\ Restored
    /\ nc <= Kept
    /\ pc' = IF nc > 0 /\ ToZero(zero_all) # 0 THEN "zero" ELSE "poplarge"
    /\ list' = 0 /\ ri' = 0
    /\ UNCHANGED <<large, vec, nc, actions, tx, r, nprev, pred, snap, zero_all>>
    /\ InUndo

Zeroed ==
    /\ pc = "zero"
    /\ vec' = [vec EXCEPT ![1] = <<>>]
    /\ IF stage = "work" THEN CommitDone
       ELSE pc' = "poplarge" /\ UNCHANGED <<actions, tx, allowed>>
    /\ UNCHANGED <<mem, media, heap, large, nc, cache_offset, ranges, locals,
                   txs, crashes>>

(* and free the large snapshots. *)
PopLarge ==
    /\ pc = "poplarge"
    /\ IF large = <<>> THEN pc' = "user" /\ UNCHANGED large
       ELSE large' = SubSeq(large, 1, Len(large) - 1) /\ UNCHANGED pc
    /\ UNCHANGED <<vec, nc, actions, tx, locals>> /\ InUndo

(* pmemobj_tx_process, outside of WORK *)
Process ==
    /\ InUser /\ depth > 0
    /\ \/ stage \in {"onabort", "oncommit"} /\ stage' = "finally"
       \/ stage = "finally" /\ stage' = "none"
    /\ UNCHANGED <<mem, media, heap, cache_offset, ranges, actions, depth,
                   last_errnum, pc, locals, allowed, txs>>

(* pmemobj_tx_end: an error in an inner transaction aborts the outer one *)
End ==
    /\ InUser /\ depth > 0 /\ stage # "work"
    /\ depth' = depth - 1
    /\ \/ depth > 1 /\ last_errnum /\ AbortTx(depth - 1)
       \/ /\ depth > 1 => ~last_errnum
          /\ stage' = IF depth = 1 THEN "none" ELSE "work"
          /\ UNCHANGED <<mem, media, heap, cache_offset, ranges, actions,
                         last_errnum, pc, locals, allowed>>
    /\ UNCHANGED txs

-----------------------------------------------------------------------------
(* What a power loss may leave of the caches: a snapshot is being made in  *)
(* the last one, or the first one is being zeroed.                         *)
Lost(e) ==
    {[OnMedia(e) EXCEPT !.data = [w \in Words(e) |-> IF w \in z THEN 0 ELSE e.data[w]]]
        : z \in SUBSET Words(e)}

Made(c) ==
    LET e == c[Len(c)]
        kept == SubSeq(c, 1, Len(c) - 1)
    IN  {kept} \cup {Append(kept, x) : x \in IF e.dat THEN {OnMedia(e)} ELSE Lost(e)}

TornZero(c) ==
    IF MemsetInOrder THEN {c, <<>>}
    ELSE UNION {{d \in [1 .. k -> UNION {Lost(c[i]) : i \in 1 .. k}] :
                    \A i \in 1 .. k : d[i] \in Lost(c[i])} : k \in 0 .. Len(c)}

AfterCrash ==
    CASE pc = "header" -> {[vec EXCEPT ![nc] = c] : c \in Made(vec[nc])}
      [] pc = "zero"   -> {[vec EXCEPT ![1] = c] : c \in TornZero(vec[1])}
      [] OTHER         -> {vec}

(* A power loss, and the restart up to the recovery of the lane: pvector_new *)
(* counts the caches it finds.                                               *)
Crash ==
    /\ crashes < MaxCrash /\ crashes' = crashes + 1
    /\ \E m \in [{w \in Word : media[w] # {mem[w]}} -> Val] :
          /\ \A w \in DOMAIN m : m[w] \in media[w]
          /\ mem' = [w \in Word |-> IF w \in DOMAIN m THEN m[w] ELSE mem[w]]
          /\ media' = [w \in Word |-> {mem'[w]}]
    /\ vec' \in AfterCrash
    /\ nc' = Len(vec) /\ cache_offset' = 0 /\ ranges' = {} /\ actions' = {}
    /\ stage' = "none" /\ depth' = 0 /\ last_errnum' = FALSE
    /\ pc' = "restore" /\ r' = None /\ nprev' = None /\ pred' = "le" /\ snap' = None
    /\ zero_all' = FALSE /\ list' = 0 /\ ri' = 0
    /\ UNCHANGED <<heap, large, allowed, txs>>

Next ==
    \/ Begin \/ Store \/ Alloc \/ Free \/ AddRange
    \/ AddNew \/ AddInside \/ AddBeyond \/ AddDone
    \/ SnapLarge \/ NewCache \/ SnapSmall \/ SnapHeader
    \/ Abort \/ OutOfMemory \/ CommitInner \/ PreCommit \/ Publish \/ PostCommit
    \/ RestoreRange \/ RestoreNext \/ PopCache \/ PopDone \/ Zeroed \/ PopLarge
    \/ Process \/ End \/ Crash

Spec == Init /\ [][Next]_vars

-----------------------------------------------------------------------------
TxRange == [off : Nat, size : Nat]

(* The values of the pool, of the undo vector and of struct tx; a cache    *)
(* is only ever filled at the end of the vector of caches.                 *)
TypeOK ==
    /\ mem \in [Word -> Val]
    /\ media \in [Word -> SUBSET Val] /\ \A w \in Word : mem[w] \in media[w]
    /\ heap \subseteq Obj
    /\ nc \in Nat /\ (pc # "post" => nc <= Len(vec) /\ (nc > 1 => nc = Len(vec)))
    /\ cache_offset \in 0 .. CacheSize
    /\ ranges \subseteq TxRange
    /\ stage \in {"none", "work", "oncommit", "onabort", "finally"}
    /\ depth \in 0 .. MaxDepth
    /\ pc \in {"user", "add", "snap", "header", "publish", "post", "restore", "pop",
               "zero", "poplarge"}

Quiet == pc = "user" /\ (depth = 0 \/ (depth = 1 /\ stage # "work"))

(* After tx_commit, tx_abort or the recovery of the lane, the pool holds   *)
(* what it held before the last transaction or all that this one did, the  *)
(* latter if it committed, and holds it on the media.                      *)
AllOrNothing ==
    Quiet => /\ Contents(heap, mem) \in allowed
             /\ \A w \in Root \cup heap : media[w] = {mem[w]}

(* pmemobj_tx_add_common() never takes a second snapshot of a word, however *)
(* the ranges overlap: the younger one could hold a value of the           *)
(* transaction itself.                                                     *)
SnapshotOnce ==
    \A p, q \in Undo : p # q => Words(At(p)) \cap Words(At(q)) = {}

(* The ranges in tx->ranges, which the next pmemobj_tx_add_common() and    *)
(* tx_flush_range rely on, are apart, and cover just the words with a      *)
(* snapshot and the new objects.                                           *)
RangesExact ==
    pc = "user" /\ stage = "work" =>
        /\ \A x, y \in ranges : x # y => Words(x) \cap Words(y) = {}
        /\ Covered = Saved \cup Acted("alloc")

(* "ASSERTeq(rend, fprev->offset)" of pmemobj_tx_add_common: the range it  *)
(* remembers from the previous turn is still there and starts where the    *)
(* rest of the argument ends.                                              *)
NprevAdjacent ==
    LET rend == r.off + r.size
        f == Found(rend)
    IN  pc = "add" /\ r.size # 0 /\ nprev # None /\ (f = None \/ f.off + f.size <= rend)
            => nprev.off = rend /\ nprev \in ranges

=============================================================================
