------------------------------- MODULE BTT -------------------------------
(***************************************************************************)
(* One arena of the Block Translation Table of libpmemblk                  *)
(* (src/libpmemblk/btt.c), after its layout has been written and loaded.   *)
(*                                                                         *)
(* A lane is a thread inside btt.c: lane_enter() of blk.c hands each lane  *)
(* number to one thread at a time.  Every namespace I/O of the code (an    *)
(* nsread or an nswrite) is a step of its own, so lanes interleave and the *)
(* machine may crash between any two of them.                              *)
(*                                                                         *)
(* `map' is the map as the CPUs see it and `pmap' as the media holds it: a *)
(* store is visible at once and durable when nswrite's drain returns.      *)
(* Flog entries and data blocks are read by others only through the map,   *)
(* or after a crash, so one copy of each is enough.                        *)
(***************************************************************************)
EXTENDS Integers, FiniteSets

CONSTANTS
    ExternalNlba,   \* blocks the arena offers (arena.external_nlba)
    NFree,          \* flog pairs, hence free blocks (btt.nfree)
    NLane,          \* threads allowed inside (btt.nlane)
    LockSpan,       \* map entries per map lock (BTT_MAP_LOCK_ALIGN / BTT_MAP_ENTRY_SIZE)
    Data,           \* contents of half a block
    Stale,          \* what the namespace held before it was laid out
    Ops,            \* the entry points the threads call
    MaxCall,        \* bound on calls of an entry point
    MaxCrash,       \* bound on crashes
    MaxFail         \* bound on failing nswrite calls

ASSUME SizeAssumption ==
    /\ ExternalNlba \in Nat /\ NFree \in Nat /\ NLane \in Nat /\ LockSpan \in Nat
    /\ 0 < NLane /\ NLane <= NFree /\ NFree <= ExternalNlba /\ 0 < LockSpan
ASSUME DataAssumption == Stale \in Data
ASSUME OpsAssumption == Ops \subseteq {"read", "write", "zero", "error"}
ASSUME BoundAssumption == MaxCall \in Nat /\ MaxCrash \in Nat /\ MaxFail \in Nat

Lba   == 0 .. ExternalNlba - 1
Block == 0 .. ExternalNlba + NFree - 1      \* arena.internal_nlba of them
Flogs == 0 .. NFree - 1
Lane  == 0 .. NLane - 1
NoLane == -1

\* A map entry: a post-map LBA and the two flag bits.
Entry == [blk : Block, st : {"initial", "zero", "error", "normal"}]

Initial == [blk |-> 0, st |-> "initial"]
Normal(b) == [blk |-> b, st |-> "normal"]
RttUnused == [blk |-> 0, st |-> "error"]

\* map_entry_is_zero_or_initial
ReadsAsZero(e) == e.st \in {"initial", "zero"}

\* An entry never written stands for the block of the same number.
Resolve(e, x) == IF e.st = "initial" THEN Normal(x) ELSE e

\* get_map_lock_num
LockNum(x) == (x \div LockSpan) % NFree

\* One struct btt_flog; sequence numbers cycle 1, 2, 3 and 0 is "never written".
FlogEntry == [lba : Lba, old : Entry, new : Entry, seq : 0 .. 3]
Zflog == [lba |-> 0, old |-> Initial, new |-> Initial, seq |-> 0]
\* Mutation: the sequence number wraps to 0.
NseqWrapsToZero == [s \in 0 .. 3 |-> (s + 1) % 4]

Nseq == [s \in 0 .. 3 |-> IF s = 0 THEN 0 ELSE IF s = 3 THEN 1 ELSE s + 1]

\* Mutation: a pair of which one slot was never written is refused.
FlogValidBoth(p) == p[0].seq # p[1].seq /\ p[0].seq # 0 /\ p[1].seq # 0

\* btt_flog_get_valid: the current entry of a pair.
FlogValid(p) == p[0].seq # p[1].seq
CurrentFlog(p) ==
    IF p[0].seq = 0 THEN 1
    ELSE IF p[1].seq = 0 THEN 0
    ELSE IF Nseq[p[0].seq] = p[1].seq THEN 1 ELSE 0

VARIABLES
    map, pmap,      \* the map: cached and durable
    flog,           \* the flog pairs on media
    data,           \* the data blocks, two halves each
    perr,           \* BTTINFO_FLAG_ERROR in the info block on media
    rt,             \* arena.flogs: current entry and next slot of each pair
    rtt,            \* read tracking table
    lock,           \* holder of each map lock
    err,            \* BTTINFO_FLAG_ERROR in arena.flags
    rec,            \* flog pairs loaded since the last (re)start
    pc, op, lba, ent, old, scan, buf, res,    \* the lanes' program counters and locals
    calls, crashes, fails

media == <<map, pmap, flog, data, perr>>
runtime == <<rt, rtt, lock, err, rec>>
locals == <<op, lba, ent, old, scan, buf, res>>
counters == <<calls, crashes, fails>>
vars == <<media, runtime, pc, locals, counters>>

Up == rec = NFree
Pcs == {"idle", "enter", "rd_check", "rd_reread", "rd_half1", "rd_half2", "rd_clear",
        "wr_scan", "wr_half1", "wr_half2", "lock", "flog1", "flog2", "setf",
        "map_store", "map_drain", "set_err", "ret"}

NoBuf == <<Stale, Stale>>
Slots == {0, 1}

\* write_layout: the initial flog pair of lane i, and the run-time state read_flog_pair loads from it.
InitFlog(i) == [lba |-> i, old |-> [blk |-> ExternalNlba + i, st |-> "zero"],
                new |-> [blk |-> ExternalNlba + i, st |-> "zero"], seq |-> 1]

Init ==
    /\ map = [x \in Lba |-> Initial]
    /\ pmap = map
    /\ flog = [i \in Flogs |-> [s \in Slots |-> IF s = 0 THEN InitFlog(i) ELSE Zflog]]
    /\ data = [b \in Block |-> NoBuf]
    /\ perr = FALSE
    /\ rt = [i \in Flogs |-> [flog |-> InitFlog(i), next |-> 1]]
    /\ rtt = [i \in Flogs |-> RttUnused]
    /\ lock = [n \in Flogs |-> NoLane]
    /\ err = FALSE
    /\ rec = NFree
    /\ pc = [l \in Lane |-> "idle"]
    /\ op = [l \in Lane |-> "none"]
    /\ lba = [l \in Lane |-> 0]
    /\ ent = [l \in Lane |-> Initial]
    /\ old = [l \in Lane |-> Initial]
    /\ scan = [l \in Lane |-> 0]
    /\ buf = [l \in Lane |-> NoBuf]
    /\ res = [l \in Lane |-> "none"]
    /\ calls = 0 /\ crashes = 0 /\ fails = 0

------------------------------------------------------------------------------
At(l, here) == pc[l] = here
Goto(l, there) == pc' = [pc EXCEPT ![l] = there]
Finish(l, r) == Goto(l, "ret") /\ res' = [res EXCEPT ![l] = r]
Unlock(l) == lock' = [lock EXCEPT ![LockNum(lba[l])] = NoLane]

\* A thread enters btt.c with operation o on block x (and d to write).
Call(l, o, x, d) ==
    /\ Up /\ At(l, "idle") /\ Goto(l, "enter")
    /\ o \in Ops /\ (o # "write" => d = Stale)
    /\ calls < MaxCall /\ calls' = calls + 1
    /\ op' = [op EXCEPT ![l] = o]
    /\ lba' = [lba EXCEPT ![l] = x]
    /\ buf' = [buf EXCEPT ![l] = <<d, d>>]
    /\ UNCHANGED <<media, runtime, ent, old, scan, res, crashes, fails>>

\* The thread leaves with res[l].
Return(l) ==
    /\ At(l, "ret") /\ Goto(l, "idle")
    /\ op' = [op EXCEPT ![l] = "none"]
    /\ lba' = [lba EXCEPT ![l] = 0]
    /\ ent' = [ent EXCEPT ![l] = Initial]
    /\ old' = [old EXCEPT ![l] = Initial]
    /\ scan' = [scan EXCEPT ![l] = 0]
    /\ buf' = [buf EXCEPT ![l] = NoBuf]
    /\ res' = [res EXCEPT ![l] = "none"]
    /\ UNCHANGED <<media, runtime, counters>>

------------------------------------------------------------------------------
\* btt_read: the first nsread of the map entry
ReadEntry(l) ==
    /\ At(l, "enter") /\ op[l] = "read" /\ Goto(l, "rd_check")
    /\ ent' = [ent EXCEPT ![l] = map[lba[l]]]
    /\ UNCHANGED <<media, runtime, op, lba, old, scan, buf, res, counters>>

\* Mutation: a block marked bad reads as zeros.
ReadCheckErrorMissed(l) ==
    /\ At(l, "rd_check") /\ ent[l].st = "error"
    /\ Finish(l, "zeros")
    /\ UNCHANGED <<media, runtime, op, lba, ent, old, scan, buf, counters>>

\* the top of the retry loop: error, zeros, or publish the entry in the rtt
ReadCheckError(l) ==
    /\ At(l, "rd_check") /\ ent[l].st = "error"
    /\ Finish(l, "EIO")
    /\ UNCHANGED <<media, runtime, op, lba, ent, old, scan, buf, counters>>

ReadCheckZero(l) ==
    /\ At(l, "rd_check") /\ ReadsAsZero(ent[l])
    /\ Finish(l, "zeros")
    /\ UNCHANGED <<media, runtime, op, lba, ent, old, scan, buf, counters>>

ReadTrack(l) ==
    /\ At(l, "rd_check") /\ ent[l].st = "normal" /\ Goto(l, "rd_reread")
    /\ rtt' = [rtt EXCEPT ![l] = ent[l]]
    /\ UNCHANGED <<media, rt, lock, err, rec, locals, counters>>

\* the second nsread of the map entry: go on if it is the same, else retry with it
ReadRecheck(l) ==
    /\ At(l, "rd_reread")
    /\ Goto(l, IF map[lba[l]] = ent[l] THEN "rd_half1" ELSE "rd_check")
    /\ ent' = [ent EXCEPT ![l] = map[lba[l]]]
    /\ UNCHANGED <<media, runtime, op, lba, old, scan, buf, res, counters>>

\* the nsread of the block, half by half
ReadHalf1(l) ==
    /\ At(l, "rd_half1") /\ Goto(l, "rd_half2")
    /\ buf' = [buf EXCEPT ![l][1] = data[ent[l].blk][1]]
    /\ UNCHANGED <<media, runtime, op, lba, ent, old, scan, res, counters>>

ReadHalf2(l) ==
    /\ At(l, "rd_half2") /\ Goto(l, "rd_clear")
    /\ buf' = [buf EXCEPT ![l][2] = data[ent[l].blk][2]]
    /\ UNCHANGED <<media, runtime, op, lba, ent, old, scan, res, counters>>

\* Mutation: the rtt entry stays behind.
ReadClearForgotten(l) ==
    /\ At(l, "rd_clear") /\ Finish(l, "ok")
    /\ UNCHANGED <<media, runtime, op, lba, ent, old, scan, buf, counters>>

ReadClear(l) ==
    /\ At(l, "rd_clear") /\ Finish(l, "ok")
    /\ rtt' = [rtt EXCEPT ![l] = RttUnused]
    /\ UNCHANGED <<media, rt, lock, err, rec, op, lba, ent, old, scan, buf, counters>>

------------------------------------------------------------------------------
\* An arena in error refuses btt_write and map_entry_setf.
Refuse(l) ==
    /\ At(l, "enter") /\ op[l] # "read" /\ err
    /\ Finish(l, "EIO")
    /\ UNCHANGED <<media, runtime, op, lba, ent, old, scan, buf, counters>>

\* btt_write: take the lane's free block
WriteStart(l) ==
    /\ At(l, "enter") /\ op[l] = "write" /\ ~err /\ Goto(l, "wr_scan")
    /\ ent' = [ent EXCEPT ![l] = Normal(rt[l].flog.old.blk)]
    /\ UNCHANGED <<media, runtime, op, lba, old, scan, buf, res, counters>>

\* Mutation: nobody waits for the readers.
WriteScanNoWait(l) ==
    /\ At(l, "wr_scan") /\ Goto(l, "wr_half1")
    /\ scan' = [scan EXCEPT ![l] = NLane]
    /\ UNCHANGED <<media, runtime, op, lba, ent, old, buf, res, counters>>

\* wait until rtt[scan] is not the free block, lane after lane
WriteScan(l) ==
    /\ At(l, "wr_scan") /\ rtt[scan[l]] # ent[l]
    /\ scan' = [scan EXCEPT ![l] = @ + 1]
    /\ Goto(l, IF scan[l] + 1 = NLane THEN "wr_half1" ELSE "wr_scan")
    /\ UNCHANGED <<media, runtime, op, lba, ent, old, buf, res, counters>>

\* the nswrite of the block, half by half
WriteHalf1(l) ==
    /\ At(l, "wr_half1") /\ Goto(l, "wr_half2")
    /\ data' = [data EXCEPT ![ent[l].blk][1] = buf[l][1]]
    /\ UNCHANGED <<map, pmap, flog, perr, runtime, locals, counters>>

WriteHalf2(l) ==
    /\ At(l, "wr_half2") /\ Goto(l, "lock")
    /\ data' = [data EXCEPT ![ent[l].blk][2] = buf[l][2]]
    /\ UNCHANGED <<map, pmap, flog, perr, runtime, locals, counters>>

\* map_lock
MapLock(l) ==
    /\ At(l, "lock") /\ lock[LockNum(lba[l])] = NoLane
    /\ lock' = [lock EXCEPT ![LockNum(lba[l])] = l]
    /\ old' = [old EXCEPT ![l] = Resolve(map[lba[l]], lba[l])]
    /\ Goto(l, IF op[l] = "write" THEN "flog1" ELSE "setf")
    /\ UNCHANGED <<media, rt, rtt, err, rec, op, lba, ent, scan, buf, res, counters>>

\* flog_update: lba and old_map, into the slot not in use
FlogWrite1(l) ==
    /\ At(l, "flog1") /\ Goto(l, "flog2")
    /\ flog' = [flog EXCEPT ![l][rt[l].next] = [@ EXCEPT !.lba = lba[l], !.old = old[l]]]
    /\ UNCHANGED <<map, pmap, data, perr, runtime, locals, counters>>

\* new_map and seq, in one 8-byte write that makes the slot current
FlogWrite2(l) ==
    LET seq == Nseq[rt[l].flog.seq] IN
    /\ At(l, "flog2") /\ Goto(l, "map_store")
    /\ flog' = [flog EXCEPT ![l][rt[l].next] = [@ EXCEPT !.new = ent[l], !.seq = seq]]
    /\ rt' = [rt EXCEPT ![l] =
                [flog |-> [lba |-> lba[l], old |-> old[l], new |-> ent[l], seq |-> seq],
                 next |-> 1 - rt[l].next]]
    /\ UNCHANGED <<map, pmap, data, perr, rtt, lock, err, rec, locals, counters>>

\* map_unlock: the store into the map, then its drain and the unlock
MapStore(l) ==
    /\ At(l, "map_store") /\ Goto(l, "map_drain")
    /\ map' = [map EXCEPT ![lba[l]] = ent[l]]
    /\ UNCHANGED <<pmap, flog, data, perr, runtime, locals, counters>>

MapDrain(l) ==
    /\ At(l, "map_drain") /\ Finish(l, "ok") /\ Unlock(l)
    /\ pmap' = [pmap EXCEPT ![lba[l]] = map[lba[l]]]
    /\ UNCHANGED <<map, flog, data, perr, rt, rtt, err, rec,
                   op, lba, ent, old, scan, buf, counters>>

------------------------------------------------------------------------------
\* map_entry_setf (btt_set_zero, btt_set_error)
SetfStart(l) ==
    /\ At(l, "enter") /\ op[l] \in {"zero", "error"} /\ ~err /\ Goto(l, "lock")
    /\ UNCHANGED <<media, runtime, locals, counters>>

SetfNothing(l) ==
    /\ At(l, "setf") /\ op[l] = "zero" /\ ReadsAsZero(old[l])
    /\ Finish(l, "ok") /\ Unlock(l)
    /\ UNCHANGED <<media, rt, rtt, err, rec, op, lba, ent, old, scan, buf, counters>>

SetfEntry(l) ==
    /\ At(l, "setf") /\ ~(op[l] = "zero" /\ ReadsAsZero(old[l])) /\ Goto(l, "map_store")
    /\ ent' = [ent EXCEPT ![l] = [blk |-> old[l].blk, st |-> op[l]]]
    /\ UNCHANGED <<media, runtime, op, lba, old, scan, buf, res, counters>>

------------------------------------------------------------------------------
\* An nswrite that fails has written nothing.  Of the block: give up.
DataFail(l) ==
    /\ fails < MaxFail /\ fails' = fails + 1
    /\ At(l, "wr_half1") /\ Finish(l, "EIO")
    /\ UNCHANGED <<media, runtime, op, lba, ent, old, scan, buf, calls, crashes>>

\* Of the flog: map_abort.
FlogFail(l) ==
    /\ fails < MaxFail /\ fails' = fails + 1
    /\ pc[l] \in {"flog1", "flog2"} /\ Finish(l, "EIO") /\ Unlock(l)
    /\ UNCHANGED <<media, rt, rtt, err, rec, op, lba, ent, old, scan, buf, calls, crashes>>

\* Mutation: map_unlock's result is ignored.
MapFailIgnored(l) ==
    /\ fails < MaxFail /\ fails' = fails + 1
    /\ At(l, "map_store") /\ Unlock(l) /\ Finish(l, "ok")
    /\ UNCHANGED <<media, rt, rtt, err, rec, op, lba, ent, old, scan, buf, calls, crashes>>

\* Of the map: unlock; a write has moved its flog on and must stop all writers.
MapFail(l) ==
    /\ fails < MaxFail /\ fails' = fails + 1
    /\ At(l, "map_store") /\ Unlock(l)
    /\ IF op[l] = "write" THEN Goto(l, "set_err") /\ res' = res ELSE Finish(l, "EIO")
    /\ UNCHANGED <<media, rt, rtt, err, rec, op, lba, ent, old, scan, buf, calls, crashes>>

\* set_arena_error: the run-time flag,
SetErrFlag(l) ==
    /\ At(l, "set_err") /\ ~err /\ err' = TRUE
    /\ UNCHANGED <<media, rt, rtt, lock, rec, pc, locals, counters>>

\* then arena_setf writes the info block, or fails to.  A crash in the middle of it
\* would leave a torn info block, hence no layout: that is a matter of the layout.
SetErrInfo(l) ==
    /\ At(l, "set_err") /\ err /\ (perr' = TRUE \/ UNCHANGED perr) /\ Finish(l, "EIO")
    /\ UNCHANGED <<map, pmap, flog, data, runtime, op, lba, ent, old, scan, buf, counters>>

------------------------------------------------------------------------------
\* Power loss: each store not yet drained survives or not; run-time state is gone.
\* During a restart also a failing nsread or nswrite of read_flog_pair: the arena is
\* not in use yet, so nothing is marked on media and the opening is given up.
Crash ==
    /\ crashes < MaxCrash /\ crashes' = crashes + 1
    /\ \E lost \in SUBSET {x \in Lba : map[x] # pmap[x]} :
          map' = [x \in Lba |-> IF x \in lost THEN pmap[x] ELSE map[x]]
    /\ pmap' = map'
    /\ rt' = [i \in Flogs |-> [flog |-> Zflog, next |-> 0]]
    /\ rtt' = [i \in Flogs |-> RttUnused]
    /\ lock' = [n \in Flogs |-> NoLane]
    /\ err' = perr
    /\ rec' = 0
    /\ pc' = [l \in Lane |-> "idle"]
    /\ op' = [l \in Lane |-> "none"]
    /\ lba' = [l \in Lane |-> 0]
    /\ ent' = [l \in Lane |-> Initial]
    /\ old' = [l \in Lane |-> Initial]
    /\ scan' = [l \in Lane |-> 0]
    /\ buf' = [l \in Lane |-> NoBuf]
    /\ res' = [l \in Lane |-> "none"]
    /\ UNCHANGED <<flog, data, perr, calls, fails>>

\* Mutation: an initial map entry is not taken for the block of the same number.
IncompleteRaw(f, m) == f.old # f.new /\ f.new # m[f.lba] /\ f.old = m[f.lba]

\* The update a current flog entry f still asks for (read_flog_pair).
Incomplete(f, m) ==
    LET e == Resolve(m[f.lba], f.lba) IN f.old # f.new /\ f.new # e /\ f.old = e

\* read_flogs loads pair `rec': the next step of the restart.
RecoverFlog ==
    LET p == flog[rec]
        cur == CurrentFlog(p)
        f == p[cur]
    IN
    /\ rec < NFree /\ rec' = rec + 1
    /\ err' = (err \/ ~FlogValid(p))
    /\ rt' = IF FlogValid(p) THEN [rt EXCEPT ![rec] = [flog |-> f, next |-> 1 - cur]] ELSE rt
    /\ map' = IF FlogValid(p) /\ Incomplete(f, map) THEN [map EXCEPT ![f.lba] = f.new] ELSE map
    /\ pmap' = map'
    /\ UNCHANGED <<flog, data, perr, rtt, lock, pc, locals, counters>>
------------------------------------------------------------------------------
ReadStep(l) ==
    \/ ReadEntry(l) \/ ReadCheckError(l) \/ ReadCheckZero(l) \/ ReadTrack(l) \/ ReadRecheck(l)
    \/ ReadHalf1(l) \/ ReadHalf2(l) \/ ReadClear(l)

WriteStep(l) ==
    \/ Refuse(l) \/ WriteStart(l) \/ WriteScan(l) \/ WriteHalf1(l) \/ WriteHalf2(l)
    \/ FlogWrite1(l) \/ FlogWrite2(l) \/ MapStore(l) \/ MapDrain(l)

SetfStep(l) == SetfStart(l) \/ SetfNothing(l) \/ SetfEntry(l)

FailStep(l) == DataFail(l) \/ FlogFail(l) \/ MapFail(l)

ErrorStep(l) == SetErrFlag(l) \/ SetErrInfo(l)

Next ==
    \/ \E l \in Lane :
        \/ \E o \in Ops, x \in Lba, d \in Data : Call(l, o, x, d)
        \/ ReadStep(l) \/ WriteStep(l) \/ MapLock(l) \/ SetfStep(l) \/ FailStep(l)
        \/ ErrorStep(l) \/ Return(l)
    \/ Crash
    \/ RecoverFlog

Spec == Init /\ [][Next]_vars

(***************************************************************************)
(* Fairness.  A thread inside btt.c keeps running and a restart goes on;   *)
(* the map locks are mutexes no waiter starves on.  Nothing forces a       *)
(* thread to enter, a write to fail or the machine to crash.               *)
(***************************************************************************)
Fairness ==
    /\ \A l \in Lane :
        /\ WF_vars(ReadStep(l) \/ WriteStep(l) \/ SetfStep(l) \/ ErrorStep(l) \/ Return(l))
        /\ SF_vars(MapLock(l))
    /\ WF_vars(RecoverFlog)

FairSpec == Spec /\ Fairness

------------------------------------------------------------------------------
(* The ranges of the map, the flog pairs, the read tracking table and a    *)
(* thread's locals: an arena never holds a block number outside it.        *)
TypeOK ==
    /\ map \in [Lba -> Entry] /\ pmap \in [Lba -> Entry]
    /\ flog \in [Flogs -> [Slots -> FlogEntry]]
    /\ data \in [Block -> [{1, 2} -> Data]]
    /\ rt \in [Flogs -> [flog : FlogEntry, next : Slots]]
    /\ rtt \in [Flogs -> Entry]
    /\ lock \in [Flogs -> Lane \cup {NoLane}]
    /\ err \in BOOLEAN /\ perr \in BOOLEAN
    /\ rec \in 0 .. NFree
    /\ pc \in [Lane -> Pcs]
    /\ op \in [Lane -> {"none", "read", "write", "zero", "error"}]
    /\ lba \in [Lane -> Lba]
    /\ ent \in [Lane -> Entry] /\ old \in [Lane -> Entry]
    /\ scan \in [Lane -> 0 .. NLane]
    /\ buf \in [Lane -> [{1, 2} -> Data]]
    /\ res \in [Lane -> {"none", "ok", "zeros", "EIO"}]
    /\ calls \in 0 .. MaxCall /\ crashes \in 0 .. MaxCrash /\ fails \in 0 .. MaxFail

\* The flog entry of pair i that counts: the run-time copy once it is loaded.
Current(i) == IF i < rec THEN rt[i].flog ELSE flog[i][CurrentFlog(flog[i])]

\* Pair i has moved on and the map has not followed: a lane about to store into
\* the map, or an update the restart still owes.
Owes(i) ==
    IF i < rec THEN i \in Lane /\ pc[i] = "map_store" /\ op[i] = "write"
    ELSE Incomplete(Current(i), map)

OwedTo(x) == {i \in Flogs : Owes(i) /\ Current(i).lba = x}

\* The block that holds x once what is owed to it is done.
HomeOf(x) ==
    IF OwedTo(x) = {} THEN Resolve(map[x], x).blk
    ELSE Current(CHOOSE i \in OwedTo(x) : TRUE).new.blk

FreeOf(i) == Current(i).old.blk

(***************************************************************************)
(* Every block of the arena is home of exactly one LBA or free block of    *)
(* exactly one flog pair, at any moment, a crash or a half-done restart    *)
(* included: the consistency check_arena() tests on an idle arena (no      *)
(* duplicate entry in map and flog, no unreferenced lba).                  *)
(***************************************************************************)
BlocksPartitioned ==
    fails = 0 =>
        /\ \A x, y \in Lba : x # y => HomeOf(x) # HomeOf(y)
        /\ \A i, j \in Flogs : i # j => FreeOf(i) # FreeOf(j)
        /\ \A x \in Lba, i \in Flogs : HomeOf(x) # FreeOf(i)
        /\ \A b \in Block : (\E x \in Lba : HomeOf(x) = b) \/ (\E i \in Flogs : FreeOf(i) = b)

(***************************************************************************)
(* The block a btt_write is filling is neither in the map nor being read:  *)
(* what the read tracking table and the second read of the map entry in    *)
(* btt_read() are for.                                                     *)
(***************************************************************************)
NoWriteUnderReader ==
    \A w \in Lane : pc[w] \in {"wr_half1", "wr_half2"} =>
        /\ \A x \in Lba : map[x].st # "initial" => map[x].blk # ent[w].blk
        /\ \A r \in Lane : pc[r] \in {"rd_half1", "rd_half2"} => ent[r].blk # ent[w].blk

(***************************************************************************)
(* Unless an nswrite has failed, btt_write(), btt_set_zero() and           *)
(* btt_set_error() do not fail: no restart finds a flog pair that it       *)
(* cannot decide and that puts the arena in error.                         *)
(***************************************************************************)
RefusedForCause == fails = 0 => \A l \in Lane : res[l] = "EIO" => op[l] = "read"

(***************************************************************************)
(* Whenever the machine stops, each flog pair has one current entry, the   *)
(* one the lane was working from: flog_update() never overwrites it and    *)
(* the 2-bit sequence numbers never tie, however often they wrap.          *)
(***************************************************************************)
FlogDecidable ==
    \A i \in Flogs :
        /\ FlogValid(flog[i])
        /\ i < rec => flog[i][CurrentFlog(flog[i])] = rt[i].flog

(***************************************************************************)
(* A btt_write that started returns, unless the machine crashes: the scan  *)
(* of the read tracking table ends and the map locks are always released.  *)
(***************************************************************************)
WritesReturn == \A l \in Lane : (op[l] = "write") ~> (op[l] = "none")
==============================================================================
