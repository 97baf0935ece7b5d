----------------------------- MODULE BTTProofs -----------------------------
(***************************************************************************)
(* The lanes and flogs of an arena, for every number of blocks, free       *)
(* blocks, lanes and map locks: types and control flow, lock ownership,    *)
(* what a locked map entry may be, what a lane is about to store, how far  *)
(* the media may differ from what the CPUs see, and which of two flog      *)
(* slots counts.                                                           *)
(***************************************************************************)
EXTENDS BTT, TLAPS

\* Every map entry has a lock: get_map_lock_num() stays inside the table.
LEMMA LockNumInRange == \A x \in Lba : LockNum(x) \in Flogs
  <1> SUFFICES ASSUME NEW x \in Lba PROVE LockNum(x) \in Flogs
    OBVIOUS
  <1>1. x \in Nat
    BY SizeAssumption DEF Lba
  <1>2. x \div LockSpan \in Int
    BY <1>1, SizeAssumption
  <1>3. (x \div LockSpan) % NFree \in 0 .. NFree - 1
    BY <1>2, SizeAssumption
  <1> QED
    BY <1>3 DEF LockNum, Flogs

\* How the index sets lie in one another: lanes, flogs, LBAs, blocks.
LEMMA Sizes ==
    /\ ExternalNlba \in Nat /\ NFree \in Nat /\ NLane \in Nat
    /\ 0 \in Lba /\ 0 \in Block /\ 0 \in Flogs /\ 0 \in Lane
    /\ Lba \subseteq Block /\ Lane \subseteq Flogs /\ Flogs \subseteq Lba
    /\ Lane \subseteq Nat /\ Flogs \subseteq Nat
    /\ \A i \in Flogs : ExternalNlba + i \in Block
    /\ NoLane \notin Lane
  BY SizeAssumption DEF Lba, Block, Flogs, Lane, NoLane

\* The entries the code builds are map entries and flog entries.
LEMMA EntryTypes ==
    /\ Initial \in Entry /\ RttUnused \in Entry
    /\ \A b \in Block : Normal(b) \in Entry
    /\ \A e \in Entry, x \in Lba : Resolve(e, x) \in Entry
    /\ Zflog \in FlogEntry
    /\ \A i \in Flogs : InitFlog(i) \in FlogEntry
  BY Sizes DEF Initial, RttUnused, Normal, Resolve, Zflog, InitFlog, Entry, FlogEntry

\* The table behind NSEQ() has sequence numbers of two bits.
LEMMA NseqType == Nseq \in [0 .. 3 -> 0 .. 3]
  BY DEF Nseq

\* A buffer is the two halves of a block.
LEMMA BufType == NoBuf \in [{1, 2} -> Data] /\ \A d \in Data : <<d, d>> \in [{1, 2} -> Data]
  BY DataAssumption DEF NoBuf

\* Where a lane can be, given what it was called for, and how far a scan can be.
ControlOK ==
    \A l \in Lane :
        /\ pc[l] \in {"rd_check", "rd_reread", "rd_half1", "rd_half2", "rd_clear"} => op[l] = "read"
        /\ pc[l] \in {"wr_scan", "wr_half1", "wr_half2", "flog1", "flog2", "set_err"} => op[l] = "write"
        /\ pc[l] = "setf" => op[l] \in {"zero", "error"}
        /\ pc[l] \in {"lock", "map_store", "map_drain"} => op[l] \in {"write", "zero", "error"}
        /\ pc[l] = "enter" => op[l] \in {"read", "write", "zero", "error"}
        /\ pc[l] \in {"idle", "enter"} => scan[l] = 0
        /\ pc[l] = "wr_scan" => scan[l] < NLane

\* The arena starts well-typed: what read_arena() loads after write_layout().
LEMMA TypeInit == Init => TypeOK /\ ControlOK
  <1> SUFFICES ASSUME Init PROVE TypeOK /\ ControlOK
    OBVIOUS
  <1> USE Sizes, EntryTypes, BufType DEF Init
  <1>1. map \in [Lba -> Entry] /\ pmap \in [Lba -> Entry]
    OBVIOUS
  <1>2. flog \in [Flogs -> [Slots -> FlogEntry]]
    BY DEF Slots
  <1>3. data \in [Block -> [{1, 2} -> Data]]
    OBVIOUS
  <1>4. rt \in [Flogs -> [flog : FlogEntry, next : Slots]]
    BY DEF Slots
  <1>5. /\ rtt \in [Flogs -> Entry]
        /\ lock \in [Flogs -> Lane \cup {NoLane}]
        /\ rec \in 0 .. NFree
    OBVIOUS
  <1>8. err \in BOOLEAN /\ perr \in BOOLEAN
    BY Zenon
  <1>6. /\ pc \in [Lane -> Pcs]
        /\ op \in [Lane -> {"none", "read", "write", "zero", "error"}]
        /\ lba \in [Lane -> Lba]
        /\ ent \in [Lane -> Entry] /\ old \in [Lane -> Entry]
        /\ scan \in [Lane -> 0 .. NLane]
        /\ buf \in [Lane -> [{1, 2} -> Data]]
        /\ res \in [Lane -> {"none", "ok", "zeros", "EIO"}]
    BY DEF Pcs
  <1>7. calls \in 0 .. MaxCall /\ crashes \in 0 .. MaxCrash /\ fails \in 0 .. MaxFail
    BY BoundAssumption
  <1>9. ControlOK
    BY SMTT(40), SizeAssumption DEF ControlOK
  <1> QED
    BY <1>1, <1>2, <1>3, <1>4, <1>5, <1>6, <1>7, <1>8, <1>9 DEF TypeOK


------------------------------------------------------------------------------
\* While a restart loads the flogs nobody is inside: btt_init() has not returned.
QuietOK == rec < NFree => \A l \in Lane : pc[l] = "idle"

\* A lane between map_lock() and map_unlock() or map_abort() holds its lock.
LockOK ==
    \A l \in Lane : pc[l] \in {"flog1", "flog2", "setf", "map_store", "map_drain"} =>
        lock[LockNum(lba[l])] = l

\* The map entry map_lock() returned stays the one in the map until the lane stores its own.
OldOK ==
    \A l \in Lane : pc[l] \in {"flog1", "flog2", "setf", "map_store"} =>
        old[l] = Resolve(map[lba[l]], lba[l])

\* What a lane is about to store, or has just stored, into the map.
EntOK ==
    \A l \in Lane :
        /\ (op[l] = "write" /\ pc[l] \in {"wr_scan", "wr_half1", "wr_half2", "lock", "flog1", "flog2"}) =>
              ent[l] = Normal(rt[l].flog.old.blk)
        /\ (op[l] = "write" /\ pc[l] \in {"map_store", "map_drain"}) =>
              rt[l].flog.lba = lba[l] /\ rt[l].flog.new = ent[l] /\ ent[l].st = "normal"
        /\ (op[l] = "write" /\ pc[l] = "map_store") => rt[l].flog.old = old[l]
        /\ (op[l] # "write" /\ pc[l] = "map_store") => ent[l].st = op[l] /\ ent[l].blk = old[l].blk

\* A map entry differs from the media only while a lane drains it, and then by that lane's store.
DrainingOK(l) ==
    /\ map[lba[l]] = ent[l]
    /\ op[l] = "write" => Resolve(pmap[lba[l]], lba[l]) = rt[l].flog.old
    /\ op[l] # "write" => ent[l].st = op[l] /\ Resolve(pmap[lba[l]], lba[l]).blk = ent[l].blk

DrainOK ==
    /\ \A x \in Lba : map[x] # pmap[x] => \E l \in Lane : pc[l] = "map_drain" /\ lba[l] = x
    /\ \A l \in Lane : pc[l] = "map_drain" => DrainingOK(l)

\* One entry of every pair is current, the other older, and a loaded pair agrees with the media.
FlogPairOK(i) ==
    LET c == CurrentFlog(flog[i])
        s == flog[i][1 - c].seq
    IN  /\ flog[i][c].seq \in 1 .. 3
        /\ s = 0 \/ Nseq[s] = flog[i][c].seq
        /\ i < rec => rt[i].flog = flog[i][c] /\ rt[i].next = 1 - c

FlogOK == \A i \in Flogs : FlogPairOK(i)

\* Between its two writes flog_update() has lba and old_map in place.
HalfOK ==
    \A l \in Lane : pc[l] = "flog2" =>
        flog[l][rt[l].next].lba = lba[l] /\ flog[l][rt[l].next].old = old[l]

\* A reader past its first look at the map has announced the block it goes for.
TrackOK ==
    \A r \in Lane : pc[r] \in {"rd_reread", "rd_half1", "rd_half2"} =>
        rtt[r] = ent[r] /\ ent[r].st = "normal"

\* Lane r reads a data block.
Reading(r) == pc[r] \in {"rd_half1", "rd_half2"}

------------------------------------------------------------------------------
\* A step of the thread in lane l.
LaneStep(l) ==
    \/ \E o \in Ops, x \in Lba, d \in Data : Call(l, o, x, d)
    \/ ReadStep(l) \/ WriteStep(l) \/ MapLock(l) \/ SetfStep(l) \/ FailStep(l)
    \/ ErrorStep(l) \/ Return(l)

\* Marking the arena as being in error changes nothing else, and at last answers.
LEMMA ErrorFrame ==
    ASSUME NEW l \in Lane, ErrorStep(l)
    PROVE  /\ pc[l] = "set_err"
           /\ UNCHANGED <<map, pmap, flog, data, rt, rtt, lock, rec>>
           /\ UNCHANGED <<op, lba, ent, old, scan, buf, calls, crashes, fails>>
           /\ \/ SetErrFlag(l) /\ UNCHANGED <<pc, res>>
              \/ pc' = [pc EXCEPT ![l] = "ret"] /\ res' = [res EXCEPT ![l] = "EIO"]
  <1>1. CASE SetErrFlag(l)
    BY Zenon, <1>1 DEF SetErrFlag, At, media, locals, counters
  <1>2. CASE SetErrInfo(l)
    BY Zenon, <1>2 DEF SetErrInfo, At, Goto, Finish, runtime, counters
  <1> QED
    BY <1>1, <1>2 DEF ErrorStep

\* What such a step leaves alone: the locals, the flog pair and the rtt entry of the others.
Keeps(l) ==
    /\ \A k \in Lane : k # l =>
          /\ pc'[k] = pc[k] /\ op'[k] = op[k] /\ lba'[k] = lba[k] /\ ent'[k] = ent[k]
          /\ old'[k] = old[k] /\ scan'[k] = scan[k] /\ buf'[k] = buf[k] /\ res'[k] = res[k]
    /\ \A i \in Flogs : i # l => rt'[i] = rt[i] /\ rtt'[i] = rtt[i] /\ flog'[i] = flog[i]
    /\ rec' = rec

\* Every step of a lane does.
LEMMA LaneFrame == ASSUME TypeOK, NEW l \in Lane, LaneStep(l) PROVE Keeps(l)
  <1> USE Sizes DEF TypeOK, Keeps, Goto, Finish, media, runtime, locals
  <1>1. ASSUME NEW o \in Ops, NEW x \in Lba, NEW d \in Data, Call(l, o, x, d) PROVE Keeps(l)
    BY <1>1 DEF Call
  <1>2. CASE ReadStep(l)
    BY <1>2 DEF ReadStep, ReadEntry, ReadCheckError, ReadCheckZero, ReadTrack, ReadRecheck,
                ReadHalf1, ReadHalf2, ReadClear
  <1>3. CASE WriteStep(l)
    BY <1>3 DEF WriteStep, Refuse, WriteStart, WriteScan, WriteHalf1, WriteHalf2, FlogWrite1,
                FlogWrite2, MapStore, MapDrain
  <1>4. CASE MapLock(l) \/ SetfStep(l)
    BY <1>4 DEF MapLock, SetfStep, SetfStart, SetfNothing, SetfEntry
  <1>5. CASE FailStep(l)
    BY <1>5 DEF FailStep, DataFail, FlogFail, MapFail
  <1>6. CASE ErrorStep(l)
    BY <1>6, ErrorFrame
  <1>7. CASE Return(l)
    BY <1>7 DEF Return
  <1> QED
    BY Zenon, <1>1, <1>2, <1>3, <1>4, <1>5, <1>6, <1>7 DEF LaneStep

\* Which steps store into what the lanes share.
LEMMA Stores ==
    ASSUME NEW l \in Lane, LaneStep(l)
    PROVE  /\ flog' = flog \/ FlogWrite1(l) \/ FlogWrite2(l)
           /\ rt' = rt \/ FlogWrite2(l)
           /\ map' = map \/ MapStore(l)
           /\ pmap' = pmap \/ MapDrain(l)
           /\ data' = data \/ WriteHalf1(l) \/ WriteHalf2(l)
           /\ fails' = fails \/ FailStep(l)
           /\ \/ lock' = lock \/ MapLock(l)
              \/ /\ pc[l] \in {"flog1", "flog2", "setf", "map_store", "map_drain"}
                 /\ lock' = [lock EXCEPT ![LockNum(lba[l])] = NoLane]
  <1> USE DEF At, media, runtime, locals, counters
  <1>1. ASSUME NEW o \in Ops, NEW x \in Lba, NEW d \in Data, Call(l, o, x, d)
        PROVE  UNCHANGED <<flog, rt, map, pmap, data, fails, lock>>
    BY <1>1 DEF Call
  <1>2. CASE ReadStep(l)
    BY <1>2 DEF ReadStep, ReadEntry, ReadCheckError, ReadCheckZero, ReadTrack, ReadRecheck,
                ReadHalf1, ReadHalf2, ReadClear
  <1>3. CASE WriteStep(l)
    BY Zenon, <1>3 DEF WriteStep, Refuse, WriteStart, WriteScan, WriteHalf1, WriteHalf2, FlogWrite1,
                FlogWrite2, MapStore, MapDrain, Unlock
  <1>4. CASE MapLock(l) \/ SetfStep(l)
    BY Zenon, <1>4 DEF MapLock, SetfStep, SetfStart, SetfNothing, SetfEntry, Unlock
  <1>5. CASE FailStep(l) \/ ErrorStep(l)
    BY Zenon, <1>5 DEF FailStep, DataFail, FlogFail, MapFail, ErrorStep, SetErrFlag, SetErrInfo, Unlock
  <1>6. CASE Return(l)
    BY <1>6 DEF Return
  <1> QED
    BY Zenon, <1>1, <1>2, <1>3, <1>4, <1>5, <1>6 DEF LaneStep

\* Which step brings a thread to a place, or takes it from there.
LEMMA Moves ==
    ASSUME TypeOK, NEW l \in Lane, LaneStep(l)
    PROVE  /\ pc[l] # "idle" \/ (\E o \in Ops, x \in Lba, d \in Data : Call(l, o, x, d))
           /\ pc'[l] = "rd_check" => ReadEntry(l) \/ ReadRecheck(l)
           /\ pc'[l] = "rd_reread" => ReadTrack(l)
           /\ pc'[l] = "rd_half1" => ReadRecheck(l)
           /\ pc'[l] = "rd_half2" => ReadHalf1(l)
           /\ pc'[l] = "rd_clear" => ReadHalf2(l)
           /\ pc'[l] = "wr_scan" => WriteStart(l) \/ WriteScan(l)
           /\ pc'[l] = "wr_half1" => WriteScan(l)
           /\ pc'[l] = "wr_half2" => WriteHalf1(l)
           /\ pc'[l] = "lock" => WriteHalf2(l) \/ SetfStart(l)
           /\ pc'[l] \in {"flog1", "setf"} => MapLock(l)
           /\ pc'[l] = "flog2" => FlogWrite1(l)
           /\ pc'[l] = "map_store" => FlogWrite2(l) \/ SetfEntry(l)
           /\ pc'[l] = "map_drain" => MapStore(l)
           /\ pc'[l] = "set_err" => MapFail(l) \/ SetErrFlag(l)
           /\ pc'[l] = "enter" => \E o \in Ops, x \in Lba, d \in Data : Call(l, o, x, d)
           /\ pc'[l] = "idle" => Return(l)
           /\ pc[l] = "map_store" => MapStore(l) \/ MapFail(l)
           /\ pc[l] = "map_drain" => MapDrain(l)
  <1>t. pc \in [Lane -> Pcs]
    BY DEF TypeOK
  <1> USE <1>t DEF At, Goto, Finish
  <1>1. ASSUME NEW o \in Ops, NEW x \in Lba, NEW d \in Data, Call(l, o, x, d)
        PROVE  pc[l] = "idle" /\ pc'[l] = "enter"
    BY <1>1 DEF Call
  <1>2. CASE ReadStep(l)
    BY <1>2 DEF ReadStep, ReadEntry, ReadCheckError, ReadCheckZero, ReadTrack, ReadRecheck,
                ReadHalf1, ReadHalf2, ReadClear
  <1>3. CASE WriteStep(l)
    BY Zenon, <1>3 DEF WriteStep, Refuse, WriteStart, WriteScan, WriteHalf1, WriteHalf2, FlogWrite1,
                FlogWrite2, MapStore, MapDrain
  <1>4. CASE MapLock(l) \/ SetfStep(l)
    BY Zenon, <1>4 DEF MapLock, SetfStep, SetfStart, SetfNothing, SetfEntry
  <1>5. CASE FailStep(l)
    BY <1>5 DEF FailStep, DataFail, FlogFail, MapFail
  <1>6. CASE ErrorStep(l)
    BY <1>6, ErrorFrame
  <1>7. CASE Return(l)
    BY <1>7 DEF Return
  <1> QED
    BY Zenon, <1>1, <1>2, <1>3, <1>4, <1>5, <1>6, <1>7 DEF LaneStep

\* Lanes stay where their operation can take them.
LEMMA ControlNext == TypeOK /\ ControlOK /\ [Next]_vars => ControlOK'
  <1> SUFFICES ASSUME TypeOK, ControlOK, [Next]_vars PROVE ControlOK'
    OBVIOUS
  <1>1. ASSUME NEW l \in Lane, LaneStep(l) PROVE ControlOK'
    <2>t. /\ pc \in [Lane -> Pcs] /\ op \in [Lane -> {"none", "read", "write", "zero", "error"}]
          /\ scan \in [Lane -> 0 .. NLane] /\ 0 < NLane /\ NLane \in Nat
      BY SizeAssumption DEF TypeOK
    <2> USE <2>t DEF At, Goto, Finish, locals, ControlOK
    <2>1. CASE ReadStep(l)
      BY <2>1 DEF ReadStep, ReadEntry, ReadCheckError, ReadCheckZero, ReadTrack, ReadRecheck,
                  ReadHalf1, ReadHalf2, ReadClear
    <2>2. CASE WriteStep(l)
      <3>1. CASE Refuse(l) \/ WriteStart(l) \/ WriteScan(l)
        BY <3>1 DEF Refuse, WriteStart, WriteScan
      <3>2. CASE WriteHalf1(l) \/ WriteHalf2(l) \/ FlogWrite1(l)
        BY <3>2 DEF WriteHalf1, WriteHalf2, FlogWrite1
      <3>3. CASE FlogWrite2(l) \/ MapStore(l) \/ MapDrain(l)
        BY <3>3 DEF FlogWrite2, MapStore, MapDrain
      <3> QED
        BY Zenon, <2>2, <3>1, <3>2, <3>3 DEF WriteStep
    <2>3. CASE MapLock(l) \/ SetfStep(l)
      BY <2>3 DEF MapLock, SetfStep, SetfStart, SetfNothing, SetfEntry
    <2>4. CASE FailStep(l)
      BY <2>4 DEF FailStep, DataFail, FlogFail, MapFail
    <2>5. CASE ErrorStep(l)
      <3>1. /\ UNCHANGED <<op, scan>>
            /\ UNCHANGED pc \/ pc' = [pc EXCEPT ![l] = "ret"]
        BY Zenon, <2>5, ErrorFrame
      <3> QED
        BY <3>1
    <2>6. CASE Return(l)
      BY <2>6 DEF Return
    <2>7. ASSUME NEW o \in Ops, NEW x \in Lba, NEW d \in Data, Call(l, o, x, d) PROVE ControlOK'
      BY <2>7, OpsAssumption DEF Call
    <2> QED
      BY Zenon, <1>1, <2>1, <2>2, <2>3, <2>4, <2>5, <2>6, <2>7 DEF LaneStep
  <1>2. CASE Crash
    <2>1. pc' = [l \in Lane |-> "idle"] /\ scan' = [l \in Lane |-> 0]
      BY Zenon, <1>2 DEF Crash
    <2> QED
      BY <2>1, SizeAssumption DEF ControlOK
  <1>3. CASE RecoverFlog \/ UNCHANGED vars
    <2>1. UNCHANGED <<pc, op, scan>>
      BY <1>3 DEF RecoverFlog, vars, locals
    <2> QED
      BY <2>1 DEF ControlOK
  <1> QED
    BY <1>1, <1>2, <1>3 DEF Next, LaneStep

\* Only idle lanes while the flogs are loaded.
LEMMA QuietNext == TypeOK /\ QuietOK /\ [Next]_vars => QuietOK'
  <1> SUFFICES ASSUME TypeOK, QuietOK, [Next]_vars PROVE QuietOK'
    OBVIOUS
  <1>1. ASSUME NEW l \in Lane, LaneStep(l) PROVE QuietOK'
    <2>1. rec' = rec
      BY <1>1, LaneFrame DEF Keeps
    <2>2. rec = NFree \/ pc[l] # "idle"
      BY Zenon, <1>1, Moves DEF Call, Up
    <2> QED
      BY <2>1, <2>2, Sizes DEF QuietOK, TypeOK
  <1>2. CASE Crash
    BY Zenon, <1>2 DEF QuietOK, Crash
  <1>3. CASE RecoverFlog
    BY <1>3, Sizes DEF QuietOK, RecoverFlog, TypeOK
  <1>4. CASE UNCHANGED vars
    BY <1>4 DEF QuietOK, vars, runtime
  <1> QED
    BY <1>1, <1>2, <1>3, <1>4 DEF Next, LaneStep

\* Map locks are held by the lanes inside their critical sections.
LEMMA LockNext == TypeOK /\ LockOK /\ [Next]_vars => LockOK'
  <1> SUFFICES ASSUME TypeOK, LockOK, [Next]_vars PROVE LockOK'
    OBVIOUS
  <1> DEFINE Locked == {"flog1", "flog2", "setf", "map_store", "map_drain"}
  <1>1. ASSUME NEW l \in Lane, LaneStep(l), NEW k \in Lane, pc'[k] \in Locked
        PROVE  lock'[LockNum(lba'[k])] = k
    <2>1. LockNum(lba[l]) \in Flogs /\ LockNum(lba[k]) \in Flogs
      BY LockNumInRange DEF TypeOK
    <2>2. CASE k # l
      <3>1. lba'[k] = lba[k] /\ lock[LockNum(lba[k])] = k
        BY <1>1, <2>2, LaneFrame DEF Keeps, LockOK
      <3>2. lock'[LockNum(lba[k])] = lock[LockNum(lba[k])]
        <4>1. \/ lock' = lock
              \/ lock[LockNum(lba[l])] # k /\ \E h : lock' = [lock EXCEPT ![LockNum(lba[l])] = h]
          BY <1>1, <2>2, Stores, Sizes DEF LockOK, MapLock
        <4> QED
          BY <2>1, <3>1, <4>1 DEF TypeOK
      <3> QED
        BY <3>1, <3>2
    <2>3. CASE k = l
      <3>1. MapLock(l) \/ FlogWrite1(l) \/ FlogWrite2(l) \/ SetfEntry(l) \/ MapStore(l)
        BY Zenon, <1>1, <2>3, Moves
      <3> QED
        BY <2>1, <2>3, <3>1 DEF LockOK, TypeOK, MapLock, FlogWrite1, FlogWrite2, SetfEntry, MapStore,
           At, runtime, locals
    <2> QED
      BY <2>2, <2>3
  <1>2. CASE Crash
    BY Zenon, <1>2 DEF LockOK, Crash
  <1>3. CASE RecoverFlog \/ UNCHANGED vars
    BY Zenon, <1>3 DEF LockOK, RecoverFlog, vars, runtime, locals
  <1> QED
    BY Zenon, <1>1, <1>2, <1>3 DEF Next, LaneStep, LockOK

\* The map entry of a locked LBA does not change under the lane that holds the lock.
LEMMA OldNext == TypeOK /\ QuietOK /\ LockOK /\ OldOK /\ [Next]_vars => OldOK'
  <1> SUFFICES ASSUME TypeOK, QuietOK, LockOK, OldOK, [Next]_vars PROVE OldOK'
    OBVIOUS
  <1> DEFINE Inside == {"flog1", "flog2", "setf", "map_store"}
  <1>1. ASSUME NEW l \in Lane, LaneStep(l), NEW k \in Lane, pc'[k] \in Inside
        PROVE  old'[k] = Resolve(map'[lba'[k]], lba'[k])
    <2>1. CASE k # l
      <3>1. /\ pc[k] \in Inside /\ lba'[k] = lba[k] /\ old'[k] = old[k] /\ lba[k] \in Lba
            /\ old[k] = Resolve(map[lba[k]], lba[k])
        BY Zenon, <1>1, <2>1, LaneFrame DEF Keeps, OldOK, TypeOK
      <3>2. map'[lba[k]] = map[lba[k]]
        <4>1. CASE map' = map
          BY Zenon, <4>1
        <4>2. CASE MapStore(l)
          <5>1. pc[l] = "map_store" /\ map' = [map EXCEPT ![lba[l]] = ent[l]]
            BY Zenon, <4>2 DEF MapStore, At
          <5>2. lock[LockNum(lba[l])] = l /\ lock[LockNum(lba[k])] = k
            BY Zenon, <3>1, <5>1 DEF LockOK
          <5>3. lba[k] # lba[l] /\ map = [x \in Lba |-> map[x]]
            BY Zenon, <2>1, <5>2 DEF TypeOK
          <5> QED
            BY Zenon, <3>1, <5>1, <5>3
        <4> QED
          BY Zenon, <1>1, <4>1, <4>2, Stores
      <3> QED
        BY <3>1, <3>2
    <2>2. CASE k = l
      <3>1. MapLock(l) \/ FlogWrite1(l) \/ FlogWrite2(l) \/ SetfEntry(l)
        BY Zenon, <1>1, <2>2, Moves
      <3> QED
        BY <2>2, <3>1 DEF OldOK, TypeOK, MapLock, FlogWrite1, FlogWrite2, SetfEntry, At, media, locals
    <2> QED
      BY Zenon, <2>1, <2>2
  <1>2. CASE Crash
    BY <1>2 DEF OldOK, Crash
  <1>3. CASE RecoverFlog
    BY Zenon, <1>3 DEF OldOK, QuietOK, RecoverFlog
  <1>4. CASE UNCHANGED vars
    BY Zenon, <1>4 DEF OldOK, vars, media, locals
  <1> QED
    BY Zenon, <1>1, <1>2, <1>3, <1>4 DEF Next, LaneStep, OldOK

\* A reader's announcement stands while it reads.
LEMMA TrackNext == TypeOK /\ TrackOK /\ [Next]_vars => TrackOK'
  <1> SUFFICES ASSUME TypeOK, TrackOK, [Next]_vars PROVE TrackOK'
    OBVIOUS
  <1>1. ASSUME NEW l \in Lane, LaneStep(l), NEW r \in Lane, pc'[r] \in {"rd_reread", "rd_half1", "rd_half2"}
        PROVE  rtt'[r] = ent'[r] /\ ent'[r].st = "normal"
    <2>1. CASE r # l
      <3>1. pc'[r] = pc[r] /\ ent'[r] = ent[r] /\ rtt'[r] = rtt[r]
        BY Zenon, <1>1, <2>1, LaneFrame, Sizes DEF Keeps
      <3> QED
        BY Zenon, <1>1, <3>1 DEF TrackOK
    <2>2. CASE r = l
      <3>1. ReadTrack(l) \/ ReadRecheck(l) \/ ReadHalf1(l)
        BY Zenon, <1>1, <2>2, Moves
      <3>2. l \in Flogs /\ rtt \in [Flogs -> Entry] /\ pc \in [Lane -> Pcs] /\ ent \in [Lane -> Entry]
        BY Zenon, Sizes DEF TypeOK
      <3> QED
        BY <1>1, <2>2, <3>1, <3>2 DEF TrackOK, ReadTrack, ReadRecheck, ReadHalf1, At, Goto, runtime, locals
    <2> QED
      BY <2>1, <2>2
  <1>2. CASE Crash
    <2>1. pc' = [l \in Lane |-> "idle"]
      BY Zenon, <1>2 DEF Crash
    <2> QED
      BY <2>1 DEF TrackOK
  <1>3. CASE RecoverFlog \/ UNCHANGED vars
    BY Zenon, <1>3 DEF TrackOK, RecoverFlog, vars, runtime, locals
  <1> QED
    BY Zenon, <1>1, <1>2, <1>3 DEF Next, LaneStep, TrackOK

\* The entry a lane writes is its free block, or the old block with a flag.
LEMMA EntNext == TypeOK /\ ControlOK /\ QuietOK /\ EntOK /\ [Next]_vars => EntOK'
  <1> SUFFICES ASSUME TypeOK, ControlOK, QuietOK, EntOK, [Next]_vars PROVE EntOK'
    OBVIOUS
  <1>1. ASSUME NEW l \in Lane, LaneStep(l) PROVE EntOK'
    <2>t. /\ pc \in [Lane -> Pcs] /\ op \in [Lane -> {"none", "read", "write", "zero", "error"}]
          /\ ent \in [Lane -> Entry] /\ rt \in [Flogs -> [flog : FlogEntry, next : Slots]]
          /\ Lane \subseteq Flogs
      BY Sizes DEF TypeOK
    <2> DEFINE Filling == {"wr_scan", "wr_half1", "wr_half2", "lock", "flog1", "flog2"}
    <2>1. ASSUME op'[l] = "write", pc'[l] \in Filling PROVE ent'[l] = Normal(rt'[l].flog.old.blk)
      <3>1. \/ WriteStart(l) \/ WriteScan(l) \/ WriteHalf1(l) \/ WriteHalf2(l) \/ SetfStart(l)
            \/ MapLock(l) \/ FlogWrite1(l)
        BY Zenon, <1>1, <2>1, Moves
      <3> QED
        BY <2>t, <2>1, <3>1 DEF EntOK, WriteStart, WriteScan, WriteHalf1, WriteHalf2, SetfStart, MapLock,
           FlogWrite1, At, runtime, locals
    <2>2. ASSUME pc'[l] \in {"map_store", "map_drain"}
          PROVE  IF op'[l] = "write"
                 THEN /\ rt'[l].flog.lba = lba'[l] /\ rt'[l].flog.new = ent'[l] /\ ent'[l].st = "normal"
                      /\ pc'[l] = "map_store" => rt'[l].flog.old = old'[l]
                 ELSE pc'[l] = "map_store" => ent'[l].st = op'[l] /\ ent'[l].blk = old'[l].blk
      <3>1. FlogWrite2(l) \/ SetfEntry(l) \/ MapStore(l)
        BY Zenon, <1>1, <2>2, Moves
      <3> QED
        BY <2>t, <2>2, <3>1 DEF EntOK, ControlOK, Normal, FlogWrite2, SetfEntry, MapStore,
           At, Goto, runtime, locals
    <2>3. ASSUME NEW k \in Lane, k # l
          PROVE  /\ pc'[k] = pc[k] /\ op'[k] = op[k] /\ lba'[k] = lba[k] /\ ent'[k] = ent[k]
                 /\ old'[k] = old[k] /\ rt'[k] = rt[k]
      BY Zenon, <1>1, <2>t, <2>3, LaneFrame DEF Keeps
    <2>4. ASSUME NEW k \in Lane, k # l
          PROVE  /\ (op'[k] = "write" /\ pc'[k] \in {"wr_scan", "wr_half1", "wr_half2", "lock", "flog1", "flog2"}) =>
                        ent'[k] = Normal(rt'[k].flog.old.blk)
                 /\ (op'[k] = "write" /\ pc'[k] \in {"map_store", "map_drain"}) =>
                        rt'[k].flog.lba = lba'[k] /\ rt'[k].flog.new = ent'[k] /\ ent'[k].st = "normal"
                 /\ (op'[k] = "write" /\ pc'[k] = "map_store") => rt'[k].flog.old = old'[k]
                 /\ (op'[k] # "write" /\ pc'[k] = "map_store") => ent'[k].st = op'[k] /\ ent'[k].blk = old'[k].blk
      <3>1. /\ (op[k] = "write" /\ pc[k] \in {"wr_scan", "wr_half1", "wr_half2", "lock", "flog1", "flog2"}) =>
                   ent[k] = Normal(rt[k].flog.old.blk)
            /\ (op[k] = "write" /\ pc[k] \in {"map_store", "map_drain"}) =>
                   rt[k].flog.lba = lba[k] /\ rt[k].flog.new = ent[k] /\ ent[k].st = "normal"
            /\ (op[k] = "write" /\ pc[k] = "map_store") => rt[k].flog.old = old[k]
            /\ (op[k] # "write" /\ pc[k] = "map_store") => ent[k].st = op[k] /\ ent[k].blk = old[k].blk
        BY Zenon DEF EntOK
      <3>2. /\ pc'[k] = pc[k] /\ op'[k] = op[k] /\ lba'[k] = lba[k] /\ ent'[k] = ent[k]
            /\ old'[k] = old[k] /\ rt'[k] = rt[k]
        BY Zenon, <2>3, <2>4
      <3> QED
        BY ZenonT(30), <3>1, <3>2
    <2> QED
      BY Zenon, <2>1, <2>2, <2>4 DEF EntOK
  <1>2. CASE Crash
    <2>1. pc' = [l \in Lane |-> "idle"]
      BY Zenon, <1>2 DEF Crash
    <2> QED
      BY Zenon, <2>1 DEF EntOK
  <1>3. CASE RecoverFlog
    <2>1. rec < NFree /\ pc' = pc
      BY Zenon, <1>3 DEF RecoverFlog
    <2> QED
      BY Zenon, <2>1 DEF EntOK, QuietOK
  <1>4. CASE UNCHANGED vars
    BY Zenon, <1>4 DEF EntOK, vars, runtime, locals
  <1> QED
    BY <1>1, <1>2, <1>3, <1>4 DEF Next, LaneStep

\* The current slot of a flog pair and the other one are its two slots.
LEMMA CurrentFlogSlot == \A q : CurrentFlog(q) \in Slots /\ 1 - CurrentFlog(q) \in Slots
  BY DEF CurrentFlog, Slots

\* Every step of a lane, of a crash and of a restart keeps the types.
LEMMA TypeNext == TypeOK /\ ControlOK /\ [Next]_vars => TypeOK'
  <1>0. SUFFICES ASSUME TypeOK, ControlOK, [Next]_vars PROVE TypeOK'
    OBVIOUS
  <1>h. TypeOK /\ ControlOK
    BY <1>0
  <1> USE <1>h, Sizes, EntryTypes, BufType DEF At, Goto, Finish, Unlock, media, runtime, locals, counters
  <1>1. ASSUME NEW l \in Lane, ReadEntry(l) PROVE TypeOK'
    BY ZenonT(40), <1>1 DEF TypeOK, ReadEntry, Pcs
  <1>2. ASSUME NEW l \in Lane, ReadCheckError(l) \/ ReadCheckZero(l) PROVE TypeOK'
    BY Zenon, <1>2 DEF TypeOK, ReadCheckError, Pcs, ReadCheckZero
  <1>3. ASSUME NEW l \in Lane, ReadTrack(l) \/ ReadClear(l) PROVE TypeOK'
    BY SMTT(60), <1>3 DEF TypeOK, ReadTrack, Pcs, ReadClear
  <1>4. ASSUME NEW l \in Lane, ReadRecheck(l) PROVE TypeOK'
    BY ZenonT(40), <1>4 DEF TypeOK, ReadRecheck, Pcs
  <1>5. ASSUME NEW l \in Lane, ReadHalf1(l) PROVE TypeOK'
    <2>1. ent[l].blk \in Block
      BY DEF TypeOK, Entry
    <2>2. data[ent[l].blk] \in [{1, 2} -> Data]
      BY ZenonT(40), <2>1 DEF TypeOK
    <2>3. data[ent[l].blk][1] \in Data
      BY Zenon, <2>2
    <2>4. buf' \in [Lane -> [{1, 2} -> Data]]
      BY Zenon, <1>5, <2>3 DEF TypeOK, ReadHalf1
    <2> QED
      BY Zenon, <1>5, <2>4 DEF TypeOK, ReadHalf1, Pcs
  <1>6. ASSUME NEW l \in Lane, ReadHalf2(l) PROVE TypeOK'
    <2>1. ent[l].blk \in Block
      BY DEF TypeOK, Entry
    <2>2. data[ent[l].blk] \in [{1, 2} -> Data]
      BY ZenonT(40), <2>1 DEF TypeOK
    <2>3. data[ent[l].blk][2] \in Data
      BY <2>2
    <2>4. buf' \in [Lane -> [{1, 2} -> Data]]
      BY Zenon, <1>6, <2>3 DEF TypeOK, ReadHalf2
    <2> QED
      BY Zenon, <1>6, <2>4 DEF TypeOK, ReadHalf2, Pcs
  <1>7. ASSUME NEW l \in Lane, Refuse(l) \/ WriteScan(l) PROVE TypeOK'
    BY SMTT(60), <1>7, SizeAssumption DEF TypeOK, Refuse, Pcs, ControlOK, WriteScan
  <1>8. ASSUME NEW l \in Lane, WriteStart(l) PROVE TypeOK'
    <2>1. Normal(rt[l].flog.old.blk) \in Entry
      BY Zenon DEF TypeOK, FlogEntry, Entry, Normal
    <2> QED
      BY Zenon, <1>8, <2>1 DEF TypeOK, WriteStart, Pcs
  <1>9. ASSUME NEW l \in Lane, WriteHalf1(l) \/ WriteHalf2(l) PROVE TypeOK'
    BY SMTT(60), <1>9 DEF TypeOK, WriteHalf1, Pcs, WriteHalf2
  <1>10. ASSUME NEW l \in Lane, FlogWrite1(l) PROVE TypeOK'
    <2> DEFINE s == rt[l].next
    <2>1. s \in Slots
      BY DEF TypeOK
    <2>2. flog[l][s] \in FlogEntry
      BY <2>1 DEF TypeOK
    <2>3. [[flog[l][s] EXCEPT !.lba = lba[l]] EXCEPT !.old = old[l]] \in FlogEntry
      BY ZenonT(40), <2>2 DEF TypeOK, FlogEntry
    <2>4. flog' \in [Flogs -> [Slots -> FlogEntry]]
      BY SMTT(40), <1>10, <2>1, <2>3 DEF TypeOK, FlogWrite1
    <2> QED
      BY Zenon, <1>10, <2>4 DEF TypeOK, FlogWrite1, Pcs
  <1>11. ASSUME NEW l \in Lane, FlogWrite2(l) PROVE TypeOK'
    <2> DEFINE s == rt[l].next
               q == Nseq[rt[l].flog.seq]
               f == [lba |-> lba[l], old |-> old[l], new |-> ent[l], seq |-> q]
    <2>1. s \in Slots /\ 1 - s \in Slots
      BY DEF TypeOK, Slots
    <2>2. q \in 0 .. 3
      BY Zenon, NseqType DEF TypeOK, FlogEntry
    <2>3. flog[l][s] \in FlogEntry
      BY <2>1 DEF TypeOK
    <2>4. [[flog[l][s] EXCEPT !.new = ent[l]] EXCEPT !.seq = q] \in FlogEntry
      BY ZenonT(40), <2>2, <2>3 DEF TypeOK, FlogEntry
    <2>5. flog' \in [Flogs -> [Slots -> FlogEntry]]
      BY SMTT(40), <1>11, <2>1, <2>4 DEF TypeOK, FlogWrite2
    <2>6. f \in FlogEntry
      BY Zenon, <2>2 DEF TypeOK, FlogEntry
    <2>7. rt' \in [Flogs -> [flog : FlogEntry, next : Slots]]
      BY SMTT(40), <1>11, <2>1, <2>6 DEF TypeOK, FlogWrite2
    <2> QED
      BY <1>11, <2>5, <2>7 DEF TypeOK, FlogWrite2, Pcs
  <1>12. ASSUME NEW l \in Lane, MapStore(l) PROVE TypeOK'
    BY Zenon, <1>12 DEF TypeOK, MapStore, Pcs
  <1>13. ASSUME NEW l \in Lane, MapDrain(l) PROVE TypeOK'
    BY ZenonT(40), <1>13 DEF TypeOK, MapDrain, Pcs
  <1>14. ASSUME NEW l \in Lane, MapLock(l) PROVE TypeOK'
    BY ZenonT(40), <1>14 DEF TypeOK, MapLock, Pcs
  <1>15. ASSUME NEW l \in Lane, SetfStart(l) \/ SetfNothing(l) PROVE TypeOK'
    BY Zenon, <1>15 DEF TypeOK, SetfStart, Pcs, SetfNothing
  <1>16. ASSUME NEW l \in Lane, SetfEntry(l) PROVE TypeOK'
    <2>1. [blk |-> old[l].blk, st |-> op[l]] \in Entry
      BY ZenonT(40), <1>16 DEF TypeOK, ControlOK, Entry, SetfEntry
    <2> QED
      BY Zenon, <1>16, <2>1 DEF TypeOK, SetfEntry, Pcs
  <1>17. ASSUME NEW l \in Lane, DataFail(l) PROVE TypeOK'
    <2>1. fails' \in 0 .. MaxFail
      BY SMTT(40), <1>17, BoundAssumption DEF TypeOK, DataFail
    <2>2. pc' \in [Lane -> Pcs] /\ res' \in [Lane -> {"none", "ok", "zeros", "EIO"}]
      BY Zenon, <1>17 DEF TypeOK, DataFail, Pcs
    <2>3. lock' \in [Flogs -> Lane \cup {NoLane}]
      BY Zenon, <1>17 DEF TypeOK, DataFail
    <2> QED
      BY Zenon, <1>17, <2>1, <2>2, <2>3 DEF TypeOK, DataFail
  <1>18. ASSUME NEW l \in Lane, FlogFail(l) PROVE TypeOK'
    <2>1. fails' \in 0 .. MaxFail
      BY SMTT(40), <1>18, BoundAssumption DEF TypeOK, FlogFail
    <2>2. pc' \in [Lane -> Pcs] /\ res' \in [Lane -> {"none", "ok", "zeros", "EIO"}]
      BY Zenon, <1>18 DEF TypeOK, FlogFail, Pcs
    <2>3. lock' \in [Flogs -> Lane \cup {NoLane}]
      BY ZenonT(40), <1>18 DEF TypeOK, FlogFail
    <2> QED
      BY Zenon, <1>18, <2>1, <2>2, <2>3 DEF TypeOK, FlogFail
  <1>19. ASSUME NEW l \in Lane, MapFail(l) PROVE TypeOK'
    <2>1. fails' \in 0 .. MaxFail
      BY SMTT(40), <1>19, BoundAssumption DEF TypeOK, MapFail
    <2>2. pc' \in [Lane -> Pcs] /\ res' \in [Lane -> {"none", "ok", "zeros", "EIO"}]
      BY Zenon, <1>19 DEF TypeOK, MapFail, Pcs
    <2>3. lock' \in [Flogs -> Lane \cup {NoLane}]
      BY ZenonT(40), <1>19 DEF TypeOK, MapFail
    <2> QED
      BY Zenon, <1>19, <2>1, <2>2, <2>3 DEF TypeOK, MapFail
  <1>20. ASSUME NEW l \in Lane, SetErrFlag(l) PROVE TypeOK'
    BY Zenon, <1>20 DEF TypeOK, SetErrFlag, Pcs
  <1>21. ASSUME NEW l \in Lane, SetErrInfo(l) PROVE TypeOK'
    BY Zenon, <1>21 DEF TypeOK, SetErrInfo, Pcs
  <1>22. ASSUME NEW l \in Lane, Return(l) PROVE TypeOK'
    BY SMTT(40), <1>22 DEF TypeOK, Return, Pcs
  <1>23. ASSUME NEW l \in Lane, NEW o \in Ops, NEW x \in Lba, NEW d \in Data, Call(l, o, x, d)
         PROVE TypeOK'
    BY SMTT(40), <1>23, OpsAssumption, BoundAssumption DEF TypeOK, Call, Pcs
  <1>24. CASE Crash
    <2>1. map' \in [Lba -> Entry] /\ pmap' \in [Lba -> Entry]
      BY Zenon, <1>24 DEF TypeOK, Crash
    <2>2. rt' \in [Flogs -> [flog : FlogEntry, next : Slots]]
      BY Zenon, <1>24 DEF Crash, Slots
    <2>3. err' \in BOOLEAN /\ perr' \in BOOLEAN
      BY <1>24, Zenon DEF TypeOK, Crash
    <2>4. rec' \in 0 .. NFree /\ crashes' \in 0 .. MaxCrash
      BY SMTT(40), <1>24, BoundAssumption DEF TypeOK, Crash
    <2> QED
      BY SMTT(40), <1>24, <2>1, <2>2, <2>3, <2>4 DEF TypeOK, Crash, Pcs
  <1>25. CASE RecoverFlog
    <2> DEFINE c == CurrentFlog(flog[rec])
               f == flog[rec][c]
    <2>1. rec \in Flogs /\ rec' \in 0 .. NFree
      BY SMTT(40), <1>25 DEF TypeOK, RecoverFlog, Flogs
    <2>2. c \in Slots /\ 1 - c \in Slots
      BY CurrentFlogSlot
    <2>3. f \in FlogEntry
      BY SMTT(40), <2>1, <2>2 DEF TypeOK
    <2>4. rt' \in [Flogs -> [flog : FlogEntry, next : Slots]]
      BY Zenon, <1>25, <2>1, <2>2, <2>3 DEF TypeOK, RecoverFlog
    <2>5. map' \in [Lba -> Entry] /\ pmap' \in [Lba -> Entry]
      BY Zenon, <1>25, <2>3 DEF TypeOK, RecoverFlog, FlogEntry
    <2>6. err' \in BOOLEAN
      BY <1>25, Zenon DEF TypeOK, RecoverFlog
    <2> QED
      BY Zenon, <1>25, <2>1, <2>4, <2>5, <2>6 DEF TypeOK, RecoverFlog
  <1>26. CASE UNCHANGED vars
    BY Zenon, <1>26 DEF TypeOK, Pcs, vars
  <1> QED
    BY <1>0, <1>1, <1>2, <1>3, <1>4, <1>5, <1>6, <1>7, <1>8, <1>9, <1>10, <1>11, <1>12, <1>13, <1>14, <1>15,
       <1>16, <1>17, <1>18, <1>19, <1>20, <1>21, <1>22, <1>23, <1>24, <1>25, <1>26 DEF Next, WriteStep,
       ErrorStep, FailStep, ReadStep, SetfStep

------------------------------------------------------------------------------
\* NSEQ() goes round 1, 2, 3 in a cycle of three and never leaves it.
LEMMA NseqFacts ==
    /\ \A s \in 1 .. 3 : Nseq[s] \in 1 .. 3 /\ Nseq[s] # s /\ Nseq[Nseq[s]] # s
    /\ \A s \in 0 .. 3 : Nseq[s] \in 1 .. 3 => s \in 1 .. 3
  BY DEF Nseq

\* The number before another one differs from it.
LEMMA NseqApart == \A s \in 0 .. 3, t \in 1 .. 3 : s = 0 \/ Nseq[s] = t => t # s
  <1>1. \A s \in 0 .. 3 : s = 0 \/ s \in 1 .. 3
    OBVIOUS
  <1>2. \A t \in 1 .. 3 : t # 0
    OBVIOUS
  <1> QED
    BY Zenon, <1>1, <1>2, NseqFacts

\* A slot with a valid sequence number is current when the other's is 0 or the one before it.
LEMMA CurrentFlogIs ==
    ASSUME NEW q, NEW c \in Slots, q[c].seq \in 1 .. 3, q[1 - c].seq \in 0 .. 3,
           q[1 - c].seq = 0 \/ Nseq[q[1 - c].seq] = q[c].seq
    PROVE  CurrentFlog(q) = c
  <1>1. CASE c = 0
    <2>1. q[1].seq # 0 => Nseq[q[0].seq] # q[1].seq
      BY <1>1, NseqFacts
    <2> QED
      BY <1>1, <2>1 DEF CurrentFlog
  <1>2. CASE c = 1
    BY <1>2 DEF CurrentFlog
  <1> QED
    BY <1>1, <1>2 DEF Slots

\* A map entry and its durable copy differ only by the store being drained.
LEMMA DrainNext == TypeOK /\ ControlOK /\ QuietOK /\ LockOK /\ OldOK /\ EntOK /\ DrainOK /\ [Next]_vars => DrainOK'
  <1> SUFFICES ASSUME TypeOK, ControlOK, QuietOK, LockOK, OldOK, EntOK, DrainOK, [Next]_vars PROVE DrainOK'
    OBVIOUS
  <1> USE Sizes DEF At, Goto, Finish, Unlock, vars, media, runtime, locals, counters
  <1>0. ASSUME UNCHANGED <<map, pmap>>,
               \A k \in Lane : pc'[k] = "map_drain" <=> pc[k] = "map_drain",
               \A k \in Lane : pc[k] = "map_drain" =>
                   op'[k] = op[k] /\ lba'[k] = lba[k] /\ ent'[k] = ent[k] /\ rt'[k] = rt[k]
        PROVE DrainOK'
    <2>1. \A x \in Lba : map'[x] # pmap'[x] => \E k \in Lane : pc'[k] = "map_drain" /\ lba'[k] = x
      <3> SUFFICES ASSUME NEW x \in Lba, map'[x] # pmap'[x]
                   PROVE  \E k \in Lane : pc'[k] = "map_drain" /\ lba'[k] = x
        BY Zenon
      <3>1. map[x] # pmap[x]
        BY Zenon, <1>0
      <3>2. PICK k \in Lane : pc[k] = "map_drain" /\ lba[k] = x
        BY Zenon, <3>1 DEF DrainOK
      <3> QED
        BY Zenon, <1>0, <3>2
    <2>2. ASSUME NEW k \in Lane, pc'[k] = "map_drain" PROVE DrainingOK(k)'
      <3>1. DrainingOK(k)
        BY Zenon, <1>0, <2>2 DEF DrainOK
      <3>2. op'[k] = op[k] /\ lba'[k] = lba[k] /\ ent'[k] = ent[k] /\ rt'[k] = rt[k]
        BY <1>0, <2>2
      <3>3. map' = map /\ pmap' = pmap
        BY <1>0
      <3> QED
        BY Zenon, <3>1, <3>2, <3>3 DEF DrainingOK
    <2> QED
      BY Zenon, <2>1, <2>2 DEF DrainOK
  <1>1. ASSUME NEW l \in Lane, MapStore(l) PROVE DrainOK'
    <2> USE <1>1 DEF TypeOK, ControlOK, MapStore
    <2>1. \A k \in Lane : pc[k] = "map_drain" => lba[k] # lba[l]
      BY DEF LockOK
    <2>2. pmap[lba[l]] = map[lba[l]]
      <3>1. map[lba[l]] # pmap[lba[l]] => \E k \in Lane : pc[k] = "map_drain" /\ lba[k] = lba[l]
        BY Zenon DEF DrainOK
      <3> QED
        BY Zenon, <2>1, <3>1
    <2>3. \A x \in Lba : map'[x] # pmap'[x] => \E k \in Lane : pc'[k] = "map_drain" /\ lba'[k] = x
      <3> SUFFICES ASSUME NEW x \in Lba, map'[x] # pmap'[x]
                   PROVE \E k \in Lane : pc'[k] = "map_drain" /\ lba'[k] = x
        OBVIOUS
      <3>1. CASE x = lba[l]
        BY Zenon, <3>1
      <3>2. CASE x # lba[l]
        <4>1. PICK k \in Lane : pc[k] = "map_drain" /\ lba[k] = x
          BY <3>2 DEF DrainOK
        <4> QED
          BY Zenon, <4>1
      <3> QED
        BY Zenon, <3>1, <3>2
    <2>4. \A k \in Lane : k # l /\ pc'[k] = "map_drain" => DrainingOK(k)'
      BY <2>1 DEF DrainOK, DrainingOK
    <2>5. op[l] = "write" => Resolve(pmap[lba[l]], lba[l]) = rt[l].flog.old
      BY Zenon, <2>2 DEF OldOK, EntOK
    <2>6. ASSUME op[l] # "write" PROVE ent[l].st = op[l] /\ Resolve(pmap[lba[l]], lba[l]).blk = ent[l].blk
      <3>1. pc[l] = "map_store"
        BY Zenon DEF At
      <3>2. ent[l].st = op[l] /\ ent[l].blk = old[l].blk
        BY Zenon, <2>6, <3>1 DEF EntOK
      <3>3. old[l] = Resolve(map[lba[l]], lba[l])
        BY Zenon, <3>1 DEF OldOK
      <3> QED
        BY Zenon, <2>2, <3>2, <3>3
    <2>7. DrainingOK(l)'
      BY Zenon, <2>5, <2>6 DEF DrainingOK
    <2> QED
      BY <2>3, <2>4, <2>7 DEF DrainOK
  <1>2. ASSUME NEW l \in Lane, MapDrain(l) PROVE DrainOK'
    <2> USE <1>2 DEF TypeOK, MapDrain
    <2>1. \A k \in Lane : k # l /\ pc[k] = "map_drain" => lba[k] # lba[l]
      BY DEF LockOK
    <2>2. \A x \in Lba : map'[x] # pmap'[x] => x # lba[l] /\ map[x] # pmap[x]
      OBVIOUS
    <2>3. \A x \in Lba : map'[x] # pmap'[x] => \E k \in Lane : pc'[k] = "map_drain" /\ lba'[k] = x
      <3> SUFFICES ASSUME NEW x \in Lba, map'[x] # pmap'[x]
                   PROVE \E k \in Lane : pc'[k] = "map_drain" /\ lba'[k] = x
        OBVIOUS
      <3>1. PICK k \in Lane : pc[k] = "map_drain" /\ lba[k] = x
        BY Zenon, <2>2 DEF DrainOK
      <3> QED
        BY Zenon, <2>2, <3>1
    <2>4. \A k \in Lane : pc'[k] = "map_drain" =>
             k # l /\ pc[k] = "map_drain" /\ pmap'[lba[k]] = pmap[lba[k]]
      BY <2>1
    <2>5. \A k \in Lane : pc'[k] = "map_drain" => DrainingOK(k)'
      <3>1. UNCHANGED <<map, rt, op, lba, ent>>
        BY Zenon
      <3> HIDE <1>2 DEF TypeOK, MapDrain
      <3>2. \A k \in Lane : pc[k] = "map_drain" => DrainingOK(k)
        BY Zenon DEF DrainOK
      <3> QED
        BY Zenon, <2>4, <3>1, <3>2 DEF DrainingOK
    <2> QED
      BY Zenon, <2>3, <2>5 DEF DrainOK
  <1>3. ASSUME NEW l \in Lane, LaneStep(l), ~MapStore(l), ~MapDrain(l) PROVE DrainOK'
    <2>1. map' = map /\ pmap' = pmap
      BY <1>3, Stores
    <2>2. Keeps(l)
      BY <1>3, LaneFrame
    <2>3. pc[l] # "map_drain" /\ pc'[l] # "map_drain"
      BY <1>3, Moves
    <2> QED
      BY Zenon, <2>1, <2>2, <2>3, <1>0 DEF Keeps
  <1>4. CASE Crash
    BY <1>4 DEF DrainOK, Crash
  <1>5. CASE RecoverFlog
    BY Zenon, <1>5 DEF TypeOK, DrainOK, DrainingOK, QuietOK, RecoverFlog
  <1>6. CASE UNCHANGED vars
    BY <1>6, <1>0
  <1> QED
    BY <1>1, <1>2, <1>3, <1>4, <1>5, <1>6 DEF Next, LaneStep

\* Nobody else writes the slot a lane is filling.
LEMMA HalfNext == TypeOK /\ QuietOK /\ HalfOK /\ [Next]_vars => HalfOK'
  <1> SUFFICES ASSUME TypeOK, QuietOK, HalfOK, [Next]_vars PROVE HalfOK'
    OBVIOUS
  <1>1. ASSUME NEW l \in Lane, LaneStep(l), NEW k \in Lane, pc'[k] = "flog2"
        PROVE  flog'[k][rt'[k].next].lba = lba'[k] /\ flog'[k][rt'[k].next].old = old'[k]
    <2>1. CASE k # l
      BY Zenon, <1>1, <2>1, LaneFrame, Sizes DEF Keeps, HalfOK
    <2>2. CASE k = l
      <3>1. FlogWrite1(l)
        BY Zenon, <1>1, <2>2, Moves
      <3>2. rt[l].next \in Slots /\ flog[l][rt[l].next] \in FlogEntry /\ l \in Flogs
        BY Sizes DEF TypeOK
      <3>3. flog'[l][rt[l].next].lba = lba[l] /\ flog'[l][rt[l].next].old = old[l]
        BY <3>1, <3>2 DEF TypeOK, FlogWrite1, FlogEntry
      <3> QED
        BY <2>2, <3>1, <3>3 DEF FlogWrite1, runtime, locals
    <2> QED
      BY Zenon, <2>1, <2>2
  <1>2. CASE Crash
    BY Zenon, <1>2 DEF HalfOK, Crash
  <1>3. CASE RecoverFlog
    BY Zenon, <1>3 DEF QuietOK, HalfOK, RecoverFlog
  <1>4. CASE UNCHANGED vars
    BY Zenon, <1>4 DEF HalfOK, vars, media, runtime, locals
  <1> QED
    BY Zenon, <1>1, <1>2, <1>3, <1>4 DEF Next, LaneStep, HalfOK

\* flog_update() writes the slot that is not current and then makes it current.
LEMMA FlogNext == TypeOK /\ QuietOK /\ HalfOK /\ FlogOK /\ [Next]_vars => FlogOK'
  <1> SUFFICES ASSUME TypeOK, QuietOK, HalfOK, FlogOK, [Next]_vars PROVE FlogOK'
    OBVIOUS
  <1> USE Sizes DEF At, Goto, Finish, Unlock, vars, media, runtime, locals, counters
  <1>1. ASSUME NEW l \in Lane, FlogWrite1(l) PROVE FlogOK'
    <2> DEFINE c == CurrentFlog(flog[l])
    <2>1. l \in Flogs /\ l < rec
      BY <1>1, SizeAssumption DEF TypeOK, QuietOK, FlogWrite1, Flogs, Lane
    <2>2. c \in Slots /\ 1 - c \in Slots /\ c # 1 - c
      BY CurrentFlogSlot DEF Slots
    <2>10. /\ flog[l][c].seq \in 1 .. 3
           /\ flog[l][1 - c].seq = 0 \/ Nseq[flog[l][1 - c].seq] = flog[l][c].seq
      BY Zenon, <2>1 DEF FlogOK, FlogPairOK
    <2>3. rt[l].next = 1 - c
      BY Zenon, <2>1 DEF FlogOK, FlogPairOK
    <2>4. flog'[l][c] = flog[l][c]
      BY <1>1, <2>1, <2>2, <2>3 DEF TypeOK, FlogWrite1
    <2>5. flog'[l][1 - c].seq = flog[l][1 - c].seq
      BY <1>1, <2>1, <2>2, <2>3 DEF TypeOK, FlogWrite1, FlogEntry
    <2>6. CurrentFlog(flog'[l]) = c
      <3>1. flog'[l][1 - c].seq \in 0 .. 3
        BY <2>1, <2>2, <2>5 DEF TypeOK, FlogEntry
      <3> HIDE DEF c
      <3> QED
        BY Zenon, <3>1, <2>2, <2>10, <2>4, <2>5, CurrentFlogIs
    <2>7. \A i \in Flogs : i # l => flog'[i] = flog[i]
      BY <1>1 DEF TypeOK, FlogWrite1
    <2>8. FlogPairOK(l)'
      BY Zenon, <1>1, <2>1, <2>4, <2>5, <2>6 DEF FlogOK, FlogPairOK, FlogWrite1
    <2>9. \A i \in Flogs : i # l => FlogPairOK(i)'
      BY <1>1, <2>7 DEF FlogOK, FlogPairOK, FlogWrite1
    <2> QED
      BY <2>8, <2>9 DEF FlogOK
  <1>2. ASSUME NEW l \in Lane, FlogWrite2(l) PROVE FlogOK'
    <2> DEFINE c == CurrentFlog(flog[l])
               q == Nseq[rt[l].flog.seq]
               f == [lba |-> lba[l], old |-> old[l], new |-> ent[l], seq |-> q]
    <2>1. l \in Flogs /\ l < rec
      BY <1>2, SizeAssumption DEF TypeOK, QuietOK, FlogWrite2, Flogs, Lane
    <2>2. c \in Slots /\ 1 - c \in Slots /\ c # 1 - c
      BY CurrentFlogSlot DEF Slots
    <2>3. rt[l].next = 1 - c /\ rt[l].flog = flog[l][c] /\ flog[l][c].seq \in 1 .. 3
      BY Zenon, <2>1 DEF FlogOK, FlogPairOK
    <2>4. flog'[l][c] = flog[l][c]
      BY <1>2, <2>1, <2>2, <2>3 DEF TypeOK, FlogWrite2
    <2>5. flog'[l][1 - c].seq = q
      BY <1>2, <2>1, <2>2, <2>3 DEF TypeOK, FlogWrite2, FlogEntry
    <2>6. q \in 1 .. 3 /\ q = Nseq[flog[l][c].seq] /\ Nseq[q] # flog[l][c].seq
      BY Zenon, <2>3, NseqFacts
    <2>7. CurrentFlog(flog'[l]) = 1 - c
      <3>1. 1 - (1 - c) = c /\ q \in 0 .. 3
        BY <2>2, <2>6 DEF Slots
      <3> HIDE DEF c, q
      <3> QED
        BY <3>1, <2>2, <2>3, <2>4, <2>5, <2>6, CurrentFlogIs
    <2>8. \A i \in Flogs : i # l => flog'[i] = flog[i] /\ rt'[i] = rt[i]
      BY <1>2 DEF TypeOK, FlogWrite2
    <2>9. rt'[l].flog = f /\ rt'[l].next = c
      BY <1>2, <2>1, <2>2, <2>3 DEF TypeOK, FlogWrite2, Slots
    <2>10. flog'[l][1 - c] = f
      <3>1. flog[l][1 - c] \in FlogEntry
        BY <2>1, <2>2 DEF TypeOK
      <3>2. flog'[l][1 - c] = [flog[l][1 - c] EXCEPT !.new = ent[l], !.seq = q]
        BY Zenon, <1>2, <2>1, <2>2, <2>3 DEF TypeOK, FlogWrite2
      <3>3. flog[l][1 - c].lba = lba[l] /\ flog[l][1 - c].old = old[l]
        BY <1>2, <2>1, <2>3 DEF HalfOK, FlogWrite2
      <3> QED
        BY Zenon, <3>1, <3>2, <3>3 DEF FlogEntry
    <2>11. 1 - (1 - c) = c
      BY <2>2 DEF Slots
    <2>12. FlogPairOK(l)'
      BY Zenon, <2>1, <2>4, <2>5, <2>6, <2>7, <2>9, <2>10, <2>11 DEF FlogPairOK
    <2>13. \A i \in Flogs : i # l => FlogPairOK(i)'
      BY <1>2, <2>8 DEF FlogOK, FlogPairOK, FlogWrite2
    <2> QED
      BY <2>12, <2>13 DEF FlogOK
  <1>3. ASSUME NEW l \in Lane, LaneStep(l), ~FlogWrite1(l), ~FlogWrite2(l) PROVE FlogOK'
    <2>1. flog' = flog /\ rt' = rt /\ rec' = rec
      BY <1>3, Stores, LaneFrame DEF Keeps
    <2> QED
      BY Zenon, <2>1 DEF FlogOK, FlogPairOK
  <1>4. CASE Crash
    BY <1>4 DEF FlogOK, FlogPairOK, Crash
  <1>5. CASE RecoverFlog
    <2>0. PICK k \in Flogs : k = rec
      <3>1. rec \in 0 .. NFree /\ rec < NFree
        BY Zenon, <1>5 DEF TypeOK, RecoverFlog
      <3> QED
        BY <3>1, Sizes DEF Flogs
    <2> DEFINE c == CurrentFlog(flog[k])
    <2>1. FlogPairOK(k)
      BY DEF FlogOK
    <2>2. c \in Slots /\ 1 - c \in Slots
      BY CurrentFlogSlot
    <2>3. flog[k][1 - c].seq \in 0 .. 3
      BY <2>2 DEF TypeOK, FlogEntry
    <2>4. flog[k][c].seq # flog[k][1 - c].seq
      <3>1. /\ flog[k][c].seq \in 1 .. 3
            /\ flog[k][1 - c].seq = 0 \/ Nseq[flog[k][1 - c].seq] = flog[k][c].seq
        BY Zenon, <2>1 DEF FlogPairOK
      <3> QED
        BY Zenon, <2>3, <3>1, NseqApart
    <2>5. FlogValid(flog[k])
      BY Zenon, <2>2, <2>4 DEF FlogValid, Slots
    <2>6. rt' = [rt EXCEPT ![k] = [flog |-> flog[k][c], next |-> 1 - c]] /\ flog' = flog
      BY Zenon, <1>5, <2>0, <2>5 DEF RecoverFlog
    <2>7. FlogPairOK(k)'
      BY Zenon, <2>1, <2>6 DEF FlogPairOK, TypeOK
    <2>8. \A i \in Flogs : i # k => (i < rec' <=> i < rec)
      <3>1. rec' = rec + 1
        BY Zenon, <1>5 DEF RecoverFlog
      <3> QED
        BY <2>0, <3>1, Sizes
    <2>9. \A i \in Flogs : i # k => FlogPairOK(i)'
      BY Zenon, <2>6, <2>8 DEF FlogOK, FlogPairOK, TypeOK
    <2> QED
      BY <2>7, <2>9 DEF FlogOK
  <1>6. CASE UNCHANGED vars
    BY Zenon, <1>6 DEF FlogOK, FlogPairOK
  <1> QED
    BY Zenon, <1>1, <1>2, <1>3, <1>4, <1>5, <1>6 DEF Next, LaneStep

------------------------------------------------------------------------------
\* The inductive invariant of the lanes, the map locks and the flogs.
LaneInv ==
    /\ TypeOK /\ ControlOK /\ QuietOK /\ LockOK /\ OldOK /\ EntOK /\ DrainOK
    /\ HalfOK /\ FlogOK /\ TrackOK

\* The invariant of the lanes holds when the arena has been loaded ...
LEMMA LaneInit == Init => LaneInv
  <1> SUFFICES ASSUME Init PROVE LaneInv
    OBVIOUS
  <1>1. TypeOK /\ ControlOK
    BY TypeInit
  <1>2. QuietOK /\ LockOK /\ OldOK /\ EntOK /\ HalfOK /\ TrackOK
    BY Zenon, Sizes DEF Init, QuietOK, LockOK, OldOK, EntOK, HalfOK, TrackOK
  <1>3. DrainOK
    BY DEF Init, DrainOK
  <1>4. ASSUME NEW i \in Flogs PROVE FlogPairOK(i)
    <2>1. flog[i][0] = InitFlog(i) /\ flog[i][1] = Zflog
      BY DEF Init, Slots
    <2>2. InitFlog(i).seq = 1 /\ Zflog.seq = 0
      BY DEF InitFlog, Zflog
    <2>3. CurrentFlog(flog[i]) = 0
      BY <2>1, <2>2 DEF CurrentFlog
    <2>4. rt[i] = [flog |-> InitFlog(i), next |-> 1]
      BY DEF Init
    <2> QED
      BY <2>1, <2>2, <2>3, <2>4 DEF FlogPairOK
  <1> QED
    BY <1>1, <1>2, <1>3, <1>4 DEF LaneInv, FlogOK

\* ... and every step of btt.c, a failed write, a crash and a restart keep it.
LEMMA LaneNext == LaneInv /\ [Next]_vars => LaneInv'
  BY TypeNext, ControlNext, QuietNext, LockNext, OldNext, EntNext, DrainNext, HalfNext, FlogNext, TrackNext
     DEF LaneInv

\* Whatever btt_read(), btt_write() and map_entry_setf() do to one another, the invariant of
\* the lanes, the map locks and the flogs holds.
THEOREM LanesConsistent == Spec => []LaneInv
  BY LaneInit, LaneNext, PTL DEF Spec

(***************************************************************************)
(* Every variable keeps its type: in particular the run-time index `next'  *)
(* names one of the two slots of a flog pair and a scan of the read        *)
(* tracking table stays within the lanes.                                  *)
(***************************************************************************)
THEOREM TypeCorrect == Spec => []TypeOK
  <1>1. LaneInv => TypeOK
    BY DEF LaneInv
  <1> QED
    BY <1>1, LanesConsistent, PTL

\* btt_flog_get_valid() can tell the entries of a pair apart.
LEMMA LanesDecide == LaneInv => FlogDecidable
  <1> SUFFICES ASSUME LaneInv, NEW i \in Flogs
               PROVE  /\ FlogValid(flog[i])
                      /\ i < rec => flog[i][CurrentFlog(flog[i])] = rt[i].flog
    BY DEF FlogDecidable
  <1> DEFINE c == CurrentFlog(flog[i])
  <1>1. FlogPairOK(i)
    BY DEF LaneInv, FlogOK
  <1>2. c \in Slots /\ 1 - c \in Slots
    BY Zenon, CurrentFlogSlot
  <1>3. flog[i][1 - c].seq \in 0 .. 3
    BY <1>2 DEF LaneInv, TypeOK, FlogEntry
  <1>4. flog[i][c].seq # flog[i][1 - c].seq
    BY <1>1, <1>3, NseqFacts DEF FlogPairOK
  <1>5. FlogValid(flog[i])
    BY <1>2, <1>4 DEF FlogValid, Slots
  <1> QED
    BY Zenon, <1>1, <1>5 DEF FlogPairOK

(***************************************************************************)
(* Whatever the lanes did and however often the sequence numbers wrapped,  *)
(* btt_flog_get_valid() finds the current entry of every pair, and it is   *)
(* the one the running arena works from.                                   *)
(***************************************************************************)
THEOREM FlogsDecidable == Spec => []FlogDecidable
  BY LanesDecide, LanesConsistent, PTL

==============================================================================
