-------------------------- MODULE BTTDeviceProofs --------------------------
(***************************************************************************)
(* A BTT arena implements a block device, for every size of the arena and  *)
(* every number of lanes and calls.                                        *)
(***************************************************************************)
EXTENDS BTTCallProofs, BTTBlockProofs

\* The store into the map is where a call takes effect.
LEMMA MapStoreSim ==
    ASSUME LaneInv, BufOK, AnswerOK, NEW l \in Lane, MapStore(l)
    PROVE  Abstract(l)
  <1>1. TypeOK /\ ControlOK /\ Keeps(l)
    BY LaneFrame DEF LaneInv, LaneStep, WriteStep
  <1>2. pc[l] = "map_store" /\ pc'[l] = "map_drain" /\ op[l] \in {"write", "zero", "error"}
        /\ res[l] = "none"
    BY <1>1 DEF MapStore, At, Goto, TypeOK, ControlOK, AnswerOK
  <1>3. UNCHANGED <<pmap, data, rec, op, lba, buf, ent, res>>
    BY DEF MapStore, runtime, locals
  <1>4. rec = NFree /\ rec' = NFree
    BY <1>2, <1>3, Inside
  <1>5. lba[l] \in Lba /\ ent[l] \in Entry /\ pmap[lba[l]] \in Entry
    BY <1>1 DEF TypeOK
  <1>6. \A x \in Lba : map'[x] = IF x = lba[l] THEN ent[l] ELSE map[x]
    BY <1>1 DEF MapStore, TypeOK
  <1>7. \A e : Contents(e)' = Contents(e)
    BY <1>3, SameContents
  <1>8. \A x \in Lba : DevOf(x) = Contents(map[x]) /\ DevOf(x)' = Contents(map[x])'
    BY <1>4, SizeAssumption DEF DevOf
  <1>9. Contents(ent[l]) = ArgumentOf(l)
    <2>1. CASE op[l] = "write"
      <3>1. data[ent[l].blk] = buf[l] /\ ent[l].st = "normal"
        BY <1>2, <2>1 DEF BufOK, LaneInv, EntOK
      <3> QED
        BY <2>1, <3>1 DEF Contents, ArgumentOf, ReadsAsZero
    <2>2. CASE op[l] # "write"
      <3>1. ent[l].st = op[l]
        BY <1>2, <2>2 DEF LaneInv, EntOK
      <3> QED
        BY <1>2, <2>2, <3>1 DEF Contents, ArgumentOf, ReadsAsZero
    <2> QED
      BY <2>1, <2>2
  <1>10. ASSUME NEW x \in Lba PROVE DevOf(x)' = IF x = lba[l] THEN ArgumentOf(l) ELSE DevOf(x)
    <2>1. Contents(map[x])' = Contents(map'[x])
      BY <1>3 DEF Contents
    <2> QED
      BY <1>6, <1>8, <1>9, <2>1
  <1>11. OnlyCall(l)
    <2> SUFFICES ASSUME NEW k \in Lane, k # l PROVE CallOf(k)' = CallOf(k)
      BY DEF OnlyCall
    <2>1. Contents(ent[k])' = Contents(ent[k]) /\ Contents(pmap[lba[k]])' = Contents(pmap[lba[k]])
      BY <1>3 DEF Contents
    <2> QED
      BY Zenon, <1>1, <2>1, CallSame DEF Keeps
  <1>12. StageOf(l) = "called" /\ GoesOn(l)
    BY <1>2, <1>3 DEF StageOf, GoesOn
  <1>13. CASE op[l] = "write"
    <2>1. StageOf(l)' = "done"
      BY <1>2, <1>3, <1>13 DEF StageOf
    <2>2. ResultOf(l)' = Plain("ok")
      BY <1>2, <1>3, <1>13, <2>1 DEF ResultOf, Plain
    <2> QED
      BY <1>5, <1>10, <1>11, <1>12, <1>13, <2>1, <2>2, IsWrite
  <1>14. CASE op[l] # "write"
    <2>1. StageOf(l)' = "marked"
      BY <1>2, <1>3, <1>14 DEF StageOf
    <2>2. pmap[lba[l]] = map[lba[l]]
      <3>1. lock[LockNum(lba[l])] = l
        BY <1>2 DEF LaneInv, LockOK
      <3>2. \A k \in Lane : pc[k] = "map_drain" => lba[k] # lba[l]
        BY <1>2, <3>1 DEF LaneInv, LockOK
      <3> QED
        BY <1>5, <3>2 DEF LaneInv, DrainOK
    <2>3. Contents(pmap[lba[l]])' = DevOf(lba[l])
      BY Zenon, <1>3, <1>5, <1>8, <2>2 DEF Contents
    <2>4. UndoOf(l)' = DevOf(lba[l])
      BY <2>1, <2>3 DEF UndoOf
    <2> QED
      BY <1>2, <1>5, <1>10, <1>11, <1>12, <1>14, <2>1, <2>4, IsMark
  <1> QED
    BY <1>13, <1>14

\* The drain settles a mark; a write has its flog entry.
LEMMA MapDrainSim ==
    ASSUME LaneInv, AnswerOK, NEW l \in Lane, MapDrain(l)
    PROVE  Abstract(l)
  <1>1. TypeOK /\ ControlOK /\ Keeps(l)
    BY LaneFrame DEF LaneInv, LaneStep, WriteStep
  <1>2. /\ pc[l] = "map_drain" /\ pc'[l] = "ret" /\ res[l] = "none" /\ res'[l] = "ok"
        /\ op[l] \in {"write", "zero", "error"}
    BY <1>1 DEF MapDrain, At, Goto, Finish, TypeOK, ControlOK, AnswerOK
  <1>3. UNCHANGED <<map, data, rec, op, lba, buf, ent>>
    BY DEF MapDrain
  <1>4. rec = NFree /\ rec' = NFree
    BY <1>2, <1>3, Inside
  <1>5. DevKept
    <2> SUFFICES ASSUME NEW x \in Lba PROVE DevOf(x)' = DevOf(x)
      BY DEF DevKept
    <2>1. DevOf(x) = Contents(map[x]) /\ DevOf(x)' = Contents(map[x])'
      BY <1>4, SizeAssumption DEF DevOf
    <2>2. Contents(map[x])' = Contents(map[x])
      BY <1>3 DEF Contents
    <2> QED
      BY <2>1, <2>2
  <1>6. OnlyCall(l)
    <2> SUFFICES ASSUME NEW k \in Lane, k # l PROVE CallOf(k)' = CallOf(k)
      BY DEF OnlyCall
    <2>1. Contents(ent[k])' = Contents(ent[k])
      BY <1>3 DEF Contents
    <2>2. Contents(pmap[lba[k]])' = Contents(pmap[lba[k]]) \/ pc[k] # "map_drain"
      <3> SUFFICES ASSUME pc[k] = "map_drain" PROVE Contents(pmap[lba[k]])' = Contents(pmap[lba[k]])
        OBVIOUS
      <3>1. lock[LockNum(lba[l])] = l /\ lock[LockNum(lba[k])] = k
        BY <1>2 DEF LaneInv, LockOK
      <3>2. lba[k] # lba[l] /\ lba[k] \in Lba
        BY <1>1, <3>1 DEF TypeOK
      <3>3. pmap'[lba[k]] = pmap[lba[k]]
        BY <1>1, <3>2 DEF MapDrain, TypeOK
      <3> QED
        BY <1>3, <3>3 DEF Contents
    <2> QED
      BY Zenon, <1>1, <2>1, <2>2, CallSame DEF Keeps
  <1>7. StageOf(l)' = "done" /\ GoesOn(l)
    BY <1>2, <1>3 DEF StageOf, GoesOn
  <1>8. ResultOf(l)' = Plain("ok")
    BY <1>2, <1>3, <1>7 DEF ResultOf, Plain
  <1>9. CASE op[l] = "write"
    <2>1. StageOf(l) = "done"
      BY <1>2, <1>9 DEF StageOf
    <2>2. ResultOf(l) = Plain("ok")
      BY <1>2, <1>9, <2>1 DEF ResultOf, Plain
    <2> QED
      BY <1>5, <1>6, <1>7, <1>8, <2>1, <2>2, NotYet
  <1>10. CASE op[l] # "write"
    <2>1. StageOf(l) = "marked"
      BY <1>2, <1>10 DEF StageOf
    <2> QED
      BY <1>5, <1>6, <1>7, <1>8, <2>1, IsSettle
  <1> QED
    BY <1>9, <1>10

\* A step of a lane is a step of its call, or none.
LEMMA LaneSim ==
    ASSUME LaneInv, Apart, BufOK, AnswerOK, NEW l \in Lane, LaneStep(l)
    PROVE  Abstract(l)
  <1>1. CASE Return(l) \/ \E o \in Ops, x \in Lba, d \in Data : Call(l, o, x, d)
    BY <1>1, CallReturnSim
  <1>2. CASE ReadStep(l)
    BY <1>2, ReadSim
  <1>3. CASE WriteStep(l)
    BY <1>3, WaitSim, FailSim, FillSim, MapStoreSim, MapDrainSim DEF WriteStep
  <1>4. CASE MapLock(l) \/ SetfStep(l)
    BY <1>4, WaitSim, SetfNothingSim DEF SetfStep
  <1>5. CASE FailStep(l) \/ ErrorStep(l)
    BY <1>5, FailSim, ErrorSim DEF FailStep
  <1> QED
    BY <1>1, <1>2, <1>3, <1>4, <1>5 DEF LaneStep

------------------------------------------------------------------------------
\* The free block of a lane is its own: what the partition of the blocks says of the writers.
LEMMA BlocksApart == LaneInv /\ BlockInv => Apart
  <1> SUFFICES ASSUME LaneInv, BlockInv, NEW w \in Lane, pc[w] \in {"wr_half1", "wr_half2"}
               PROVE  /\ \A x \in Lba : Resolve(map[x], x).blk # ent[w].blk
                      /\ \A r \in Lane : Reading(r) => ent[r].blk # ent[w].blk
                      /\ \A v \in Lane : (/\ v # w /\ op[v] = "write"
                                          /\ pc[v] \in {"wr_half2", "lock", "flog1", "flog2", "map_store"}) =>
                                              ent[v].blk # ent[w].blk
    BY DEF Apart
  <1>1. \A x \in Lba : Resolve(map[x], x).blk # ent[w].blk
    BY FreeNotMapped DEF BlockInv
  <1>2. \A r \in Lane : Reading(r) => ent[r].blk # ent[w].blk
    BY DEF BlockInv, ScanOK, Scanned
  <1>3. ASSUME NEW v \in Lane, v # w, op[v] = "write",
               pc[v] \in {"wr_half2", "lock", "flog1", "flog2", "map_store"}
        PROVE ent[v].blk # ent[w].blk
    <2>1. op[w] = "write" /\ rec = NFree /\ v \in Flogs /\ w \in Flogs /\ v < rec /\ w < rec
      BY SMTT(20), <1>3, Sizes, SizeAssumption DEF LaneInv, ControlOK, QuietOK, TypeOK, Flogs, Lane
    <2>2. Current(v) = rt[v].flog /\ Current(w) = rt[w].flog
      BY <2>1 DEF Current
    <2>3. ent[w].blk = OldBlk[w]
      <3>1. ent[w] = Normal(rt[w].flog.old.blk)
        BY <2>1 DEF LaneInv, EntOK
      <3> QED
        BY <2>1, <2>2, <3>1 DEF Normal, OldBlk
    <2>4. CASE pc[v] # "map_store"
      <3>1. ent[v] = Normal(rt[v].flog.old.blk)
        BY <1>3, <2>4 DEF LaneInv, EntOK
      <3>2. ent[v].blk = OldBlk[v]
        BY <2>1, <2>2, <3>1 DEF Normal, OldBlk
      <3> QED
        BY <1>3, <2>1, <2>3, <3>2 DEF BlockInv, PartOK, Parted
    <2>5. CASE pc[v] = "map_store"
      <3>1. ent[v].blk = NewBlk[v]
        BY <1>3, <2>1, <2>2, <2>5 DEF LaneInv, EntOK, NewBlk
      <3>2. v \in PendingSet
        BY <1>3, <2>1, <2>5 DEF BlockInv, PendingOK, PendingSet
      <3> QED
        BY <2>1, <2>3, <3>1, <3>2 DEF BlockInv, PartOK, Parted
    <2> QED
      BY <2>4, <2>5
  <1> QED
    BY <1>1, <1>2, <1>3

\* An update the restart still owes decides what its block holds,
LEMMA DevOwed ==
    ASSUME NEW x \in Lba, NEW i \in Flogs, rec \in Nat, rec <= i, Pending(i), Current(i).lba = x,
           \A j \in Flogs : (rec <= j /\ Pending(j) /\ Current(j).lba = x) => j = i
    PROVE  DevOf(x) = Contents(Current(i).new)
  <1> DEFINE D(j) == Current(j).lba = x /\ Incomplete(Current(j), map)
  <1>1. \A j \in rec .. NFree - 1 : D(j) => j = i
    BY SizeAssumption DEF Pending, Flogs
  <1>2. i \in rec .. NFree - 1 /\ D(i)
    BY SizeAssumption DEF Pending, Flogs
  <1>3. (CHOOSE j \in rec .. NFree - 1 : D(j)) = i
    BY <1>1, <1>2
  <1> QED
    BY Zenon, <1>2, <1>3 DEF DevOf

\* before a step and after it;
LEMMA DevOwedNext ==
    ASSUME NEW x \in Lba, NEW i \in Flogs, rec' \in Nat, rec' <= i, Pending(i)', Current(i)'.lba = x,
           \A j \in Flogs : (rec' <= j /\ Pending(j)' /\ Current(j)'.lba = x) => j = i
    PROVE  DevOf(x)' = Contents(Current(i).new)'
  <1> DEFINE D(j) == Current(j)'.lba = x /\ Incomplete(Current(j), map)'
  <1>1. \A j \in rec' .. NFree - 1 : D(j) => j = i
    BY SizeAssumption DEF Pending, Flogs
  <1>2. i \in rec' .. NFree - 1 /\ D(i)
    BY SizeAssumption DEF Pending, Flogs
  <1>3. (CHOOSE j \in rec' .. NFree - 1 : D(j)) = i
    BY <1>1, <1>2
  <1> QED
    BY Zenon, <1>2, <1>3 DEF DevOf

\* without one the map does.
LEMMA DevMapped ==
    ASSUME NEW x \in Lba, rec \in Nat, \A j \in Flogs : ~(rec <= j /\ Pending(j) /\ Current(j).lba = x)
    PROVE  DevOf(x) = Contents(map[x])
  BY SizeAssumption DEF DevOf, Pending, Flogs

\* ... and so it does after the step.
LEMMA DevMappedNext ==
    ASSUME NEW x \in Lba, rec' \in Nat, \A j \in Flogs : ~(rec' <= j /\ Pending(j)' /\ Current(j)'.lba = x)
    PROVE  DevOf(x)' = Contents(map[x])'
  BY SizeAssumption DEF DevOf, Pending, Flogs

\* No two flog pairs have the same free block.
LEMMA OneOwner ==
    ASSUME PartOK, NEW i \in Flogs, NEW j \in Flogs, Current(i).old = Current(j).old
    PROVE  i = j
  <1>1. OldBlk[i] = OldBlk[j]
    BY DEF OldBlk
  <1> QED
    BY <1>1 DEF PartOK, Parted

\* What a crash may leave, for the block device.
LEMMA IsCrash ==
    ASSUME \A l \in Lane : CallOf(l)' = Device!NoCall,
           \A x \in Lba :
              \/ DevOf(x)' = DevOf(x)
              \/ \E l \in Lane : /\ CallOf(l).st = "called" /\ CallOf(l).op = "write" /\ CallOf(l).lba = x
                                 /\ DevOf(x)' = CallOf(l).arg
              \/ \E l \in Lane : CallOf(l).st = "marked" /\ CallOf(l).lba = x /\ DevOf(x)' = CallOf(l).undo
    PROVE  Device!Crash
  <1>1. CallState' = [l \in Lane |-> Device!NoCall]
    BY DEF CallState
  <1>2. ASSUME NEW x \in Lba PROVE DevState'[x] \in Device!AfterCrash(x)
    <2>1. DevState'[x] = DevOf(x)' /\ DevState[x] = DevOf(x) /\ \A l \in Lane : CallState[l] = CallOf(l)
      BY Zenon, <1>2 DEF DevState, CallState
    <2>2. CASE DevOf(x)' = DevOf(x)
      BY Zenon, <2>1, <2>2 DEF Device!AfterCrash, DevState
    <2>3. ASSUME NEW l \in Lane, CallOf(l).st = "called", CallOf(l).op = "write", CallOf(l).lba = x,
                 DevOf(x)' = CallOf(l).arg
          PROVE DevState'[x] \in Device!AfterCrash(x)
      <3>1. CallState[l].arg \in {CallState[c].arg : c \in {c \in Lane : /\ CallState[c].st = "called"
                                                                     /\ CallState[c].op = "write"
                                                                     /\ CallState[c].lba = x}}
        BY Zenon, <2>1, <2>3
      <3> QED
        BY Zenon, <2>1, <2>3, <3>1 DEF Device!AfterCrash, CallState
    <2>4. ASSUME NEW l \in Lane, CallOf(l).st = "marked", CallOf(l).lba = x, DevOf(x)' = CallOf(l).undo
          PROVE DevState'[x] \in Device!AfterCrash(x)
      <3>1. CallState[l].undo \in {CallState[c].undo : c \in {c \in Lane : /\ CallState[c].st = "marked"
                                                                       /\ CallState[c].lba = x}}
        BY Zenon, <2>1, <2>4
      <3> QED
        BY Zenon, <2>1, <2>4, <3>1 DEF Device!AfterCrash, CallState
    <2> QED
      BY Zenon, <2>2, <2>3, <2>4
  <1>3. DOMAIN DevState' = Lba
    BY DEF DevState
  <1> QED
    BY Zenon, <1>1, <1>2, <1>3 DEF Device!Crash, DevState, CallState

\* A restart that loads a flog pair and completes its update: nobody inside, no block changes.
LEMMA RecoverSim ==
    ASSUME LaneInv, BlockInv, RecoverFlog
    PROVE  UNCHANGED <<DevState, CallState>>
  <1>1. TypeOK /\ PartOK /\ PendingOK
    BY DEF LaneInv, BlockInv
  <1>2. rec \in Flogs /\ rec \in Nat /\ rec' = rec + 1
    BY <1>1, SizeAssumption DEF RecoverFlog, TypeOK, Flogs
  <1>3. FlogValid(flog[rec])
    BY <1>2, LanesDecide DEF FlogDecidable
  <1>4. UNCHANGED <<flog, data, pc, op, lba, ent, buf, res>>
    BY DEF RecoverFlog, locals
  <1>5. Current(rec) = flog[rec][CurrentFlog(flog[rec])]
    BY <1>2 DEF Current
  <1>6. /\ rt' = [rt EXCEPT ![rec] = [flog |-> Current(rec), next |-> 1 - CurrentFlog(flog[rec])]]
        /\ map' = IF Pending(rec) THEN [map EXCEPT ![Current(rec).lba] = Current(rec).new] ELSE map
    BY Zenon, <1>3, <1>5 DEF RecoverFlog, Pending
  <1>7. ASSUME NEW i \in Flogs PROVE Current(i)' = Current(i)
    <2>1. i \in Nat
      BY DEF Flogs
    <2>2. CASE i < rec
      <3>1. rt'[i] = rt[i] /\ i < rec'
        BY <1>1, <1>2, <1>6, <2>1, <2>2 DEF TypeOK
      <3> QED
        BY <2>2, <3>1 DEF Current
    <2>3. CASE i = rec
      <3>1. rt'[i].flog = Current(rec) /\ i < rec'
        BY <1>1, <1>2, <1>6, <2>3 DEF TypeOK
      <3> QED
        BY <2>3, <3>1 DEF Current
    <2>4. CASE i > rec
      BY <1>2, <1>4, <2>1, <2>4 DEF Current
    <2> QED
      BY <1>2, <2>1, <2>2, <2>3, <2>4
  <1>8. PendingSet' = PendingSet \ {rec}
    <2>1. CASE Pending(rec)
      <3>1. Current(rec).new.st = "normal"
        BY <1>1, <1>2, <2>1 DEF PendingOK, Pending, Incomplete
      <3> QED
        BY Zenon, <1>1, <1>2, <1>6, <1>7, <2>1, <3>1, Completed
    <2>2. CASE ~Pending(rec)
      BY <1>6, <1>7, <2>2 DEF PendingSet, Pending
    <2> QED
      BY <2>1, <2>2
  <1>9. \A i \in Flogs : /\ Pending(i)' <=> Pending(i) /\ i # rec
                         /\ Current(i)' = Current(i) /\ i \in Nat
    BY <1>7, <1>8 DEF PendingSet, Flogs
  <1>10. ASSUME NEW x \in Lba PROVE DevOf(x)' = DevOf(x)
    <2>1. \A i, j \in Flogs : Pending(i) /\ Pending(j) /\ Current(i).lba = x /\ Current(j).lba = x => i = j
      BY <1>1, OneOwner DEF Pending, Incomplete
    <2>2. ASSUME NEW i \in Flogs, rec < i, Pending(i), Current(i).lba = x PROVE DevOf(x)' = DevOf(x)
      <3>1. DevOf(x) = Contents(Current(i).new)
        BY <1>2, <1>9, <2>1, <2>2, DevOwed
      <3>2. DevOf(x)' = Contents(Current(i).new)'
        BY <1>2, <1>9, <2>1, <2>2, DevOwedNext
      <3>3. Contents(Current(i).new)' = Contents(Current(i).new)
        BY Zenon, <1>4, <1>9 DEF Contents
      <3> QED
        BY <3>1, <3>2, <3>3
    <2>3. ASSUME \A i \in Flogs : ~(rec < i /\ Pending(i) /\ Current(i).lba = x) PROVE DevOf(x)' = DevOf(x)
      <3>1. DevOf(x)' = Contents(map[x])'
        BY <1>2, <1>9, <2>3, DevMappedNext
      <3>2. CASE Pending(rec) /\ Current(rec).lba = x
        <4>1. DevOf(x) = Contents(Current(rec).new)
          BY SMTT(20), <1>2, <1>9, <2>1, <3>2, DevOwed
        <4>2. map'[x] = Current(rec).new
          BY Zenon, <1>1, <1>6, <3>2 DEF TypeOK
        <4>3. Contents(map[x])' = Contents(Current(rec).new)
          BY <1>4, <4>2 DEF Contents
        <4> QED
          BY <3>1, <4>1, <4>3
      <3>3. CASE ~(Pending(rec) /\ Current(rec).lba = x)
        <4>0. \A i \in Flogs : rec <= i => ~(Pending(i) /\ Current(i).lba = x)
          BY <1>2, <1>9, <2>3, <3>3
        <4>1. DevOf(x) = Contents(map[x])
          BY <1>2, <4>0, DevMapped
        <4>2. map'[x] = map[x]
          BY Zenon, <1>1, <1>6, <3>3 DEF TypeOK
        <4>3. Contents(map[x])' = Contents(map[x])
          BY <1>4, <4>2 DEF Contents
        <4> QED
          BY <3>1, <4>1, <4>3
      <3> QED
        BY <3>2, <3>3
    <2> QED
      BY <2>2, <2>3
  <1>11. ASSUME NEW k \in Lane PROVE CallOf(k)' = CallOf(k)
    <2>1. pc[k] = "idle"
      BY Zenon, <1>2 DEF LaneInv, QuietOK, RecoverFlog
    <2> QED
      BY Zenon, <1>4, <2>1, CallSame DEF Reading
  <1> QED
    BY <1>10, <1>11 DEF DevState, CallState

\* Power loss: every block keeps its contents, or gets those of a write whose flog entry is there,
\* or loses a mark that was not drained.
LEMMA CrashSim ==
    ASSUME LaneInv, BlockInv, BufOK, Crash
    PROVE  Device!Crash
  <1>1. TypeOK /\ PartOK /\ PendingOK /\ DrainOK /\ EntOK
    BY DEF LaneInv, BlockInv
  <1>2. PICK lost \in SUBSET {x \in Lba : map[x] # pmap[x]} :
           map' = [x \in Lba |-> IF x \in lost THEN pmap[x] ELSE map[x]]
    BY Zenon DEF Crash
  <1>3. rec' = 0 /\ flog' = flog /\ data' = data
    BY DEF Crash
  <1>4. ASSUME NEW i \in Flogs PROVE Current(i)' = Current(i) /\ i \in Nat /\ 0 <= i
    <2>1. i \in Nat /\ ~(i < 0)
      BY DEF Flogs
    <2>2. Current(i)' = flog[i][CurrentFlog(flog[i])]
      BY <1>3, <2>1 DEF Current
    <2>3. FlogPairOK(i)
      BY DEF LaneInv, FlogOK
    <2> QED
      BY <2>1, <2>2, <2>3 DEF Current, FlogPairOK
  <1>5. ASSUME NEW l \in Lane PROVE CallOf(l)' = Device!NoCall
    <2>1. pc'[l] = "idle" /\ op'[l] = "none"
      BY DEF Crash
    <2> QED
      BY Zenon, <2>1 DEF CallOf, UndoOf, StageOf, ResultOf, ArgumentOf, Device!NoCall, Device!Ok, Device!Zeros, Plain
  <1>6. \A e : Contents(e)' = Contents(e)
    BY Zenon, <1>3, SameContents
  <1>7. \A i, j \in Flogs : Pending(i)' /\ Pending(j)' /\ Current(i).lba = Current(j).lba => i = j
    BY <1>1, <1>4, OneOwner DEF Pending, Incomplete
  <1>8. \A i, j \in Flogs : Pending(i) /\ Pending(j) /\ Current(i).lba = Current(j).lba => i = j
    BY Zenon, <1>1, OneOwner DEF Pending, Incomplete
  <1>9. rec \in Nat /\ rec' \in Nat
    BY <1>1, <1>3 DEF TypeOK
  <1> DEFINE Kept(x) == DevOf(x)' = DevOf(x)
             Redone(x) == \E l \in Lane : /\ CallOf(l).st = "called" /\ CallOf(l).op = "write" /\ CallOf(l).lba = x
                                          /\ DevOf(x)' = CallOf(l).arg
             Undone(x) == \E l \in Lane : CallOf(l).st = "marked" /\ CallOf(l).lba = x /\ DevOf(x)' = CallOf(l).undo
  <1>10. ASSUME NEW x \in Lba, map'[x] # map[x]
         PROVE  map'[x] = pmap[x] /\ \E l \in Lane : pc[l] = "map_drain" /\ lba[l] = x
    BY Zenon, <1>1, <1>2, <1>10 DEF DrainOK
  <1>11. ASSUME NEW l \in Lane, pc[l] = "map_drain"
         PROVE  /\ l \in Flogs /\ rec = NFree /\ Current(l) = rt[l].flog /\ ~Pending(l) /\ lba[l] \in Lba
                /\ DevOf(lba[l]) = Contents(map[lba[l]])
    <2>1. rec = NFree /\ l \in Flogs /\ l < rec /\ lba[l] \in Lba
      BY SMTT(20), <1>1, <1>11, Inside, Sizes, SizeAssumption DEF Lane, Flogs, TypeOK
    <2>2. Current(l) = rt[l].flog /\ ~Pending(l)
      BY Zenon, <1>1, <1>11, <2>1 DEF Current, PendingOK
    <2> QED
      BY <2>1, <2>2, DevWhenUp
  <1>12. ASSUME NEW x \in Lba, NEW i \in Flogs, Pending(i)', Current(i).lba = x
         PROVE  Kept(x) \/ Redone(x)
    <2>1. DevOf(x)' = Contents(Current(i).new)
      <3>1. DevOf(x)' = Contents(Current(i).new)'
        BY Zenon, <1>3, <1>4, <1>7, <1>9, <1>12, DevOwedNext
      <3> QED
        BY Zenon, <1>3, <1>4, <3>1 DEF Contents
    <2>2. CASE Pending(i) /\ rec <= i
      BY Zenon, <1>8, <1>9, <1>12, <2>1, <2>2, DevOwed
    <2>3. CASE Pending(i) /\ ~(rec <= i)
      <3>1. i \in Lane /\ pc[i] = "map_store" /\ op[i] = "write" /\ i < rec
        BY <1>1, <1>4, <1>9, <2>3 DEF PendingOK
      <3>2. Current(i) = rt[i].flog /\ Current(i).lba = lba[i] /\ Current(i).new = ent[i] /\ ent[i].st = "normal"
        BY Zenon, <1>1, <3>1 DEF Current, EntOK
      <3>3. Contents(ent[i]) = Filled(buf[i])
        BY <3>1, <3>2 DEF BufOK, Contents, ReadsAsZero
      <3>4. StageOf(i) = "called" /\ ArgumentOf(i) = Filled(buf[i])
        BY <3>1 DEF StageOf, ArgumentOf
      <3>5. CallOf(i).st = "called" /\ CallOf(i).op = "write" /\ CallOf(i).lba = x /\ CallOf(i).arg = Filled(buf[i])
        BY Zenon, <1>12, <3>1, <3>2, <3>4 DEF CallOf
      <3> QED
        BY Zenon, <2>1, <3>1, <3>2, <3>3, <3>5
    <2>4. CASE ~Pending(i)
      <3>1. map'[x] # map[x]
        BY <1>4, <1>12, <2>4 DEF Pending, Incomplete
      <3>2. PICK l \in Lane : pc[l] = "map_drain" /\ lba[l] = x /\ map'[x] = pmap[x]
        BY <1>10, <3>1
      <3>3. Resolve(pmap[x], x) = Current(i).old
        BY Zenon, <1>4, <1>12, <3>2 DEF Pending, Incomplete
      <3>4. DrainingOK(l)
        BY <1>1, <3>2 DEF DrainOK
      <3>5. CASE op[l] = "write"
        <4>1. i = l
          BY Zenon, <1>1, <1>11, <3>2, <3>3, <3>4, <3>5, OneOwner DEF DrainingOK
        <4>2. Current(i).new = map[x]
          BY Zenon, <1>1, <1>11, <3>2, <3>4, <3>5, <4>1 DEF DrainingOK, EntOK
        <4> QED
          BY Zenon, <1>11, <2>1, <3>2, <4>2
      <3>6. CASE op[l] # "write"
        <4>1. op[l] \in {"zero", "error"}
          BY Zenon, <3>2, <3>6 DEF LaneInv, ControlOK
        <4>2. Resolve(map[x], x).blk = Current(i).old.blk
          BY <3>2, <3>3, <3>4, <3>6, <4>1 DEF DrainingOK, Resolve
        <4>3. RawMap[x] = OldBlk[i]
          BY <4>2 DEF RawMap, OldBlk
        <4>4. i \in PendingSet
          BY <1>1, <4>3 DEF PartOK, Parted
        <4> QED
          BY Zenon, <2>4, <4>4 DEF PendingSet
      <3> QED
        BY Zenon, <3>5, <3>6
    <2> QED
      BY Zenon, <2>2, <2>3, <2>4
  <1>13. ASSUME NEW x \in Lba, \A i \in Flogs : ~(Pending(i)' /\ Current(i).lba = x)
         PROVE  Kept(x) \/ Undone(x)
    <2>1. DevOf(x)' = Contents(map'[x])
      <3>1. DevOf(x)' = Contents(map[x])'
        BY Zenon, <1>4, <1>9, <1>13, DevMappedNext
      <3> QED
        BY <1>3, <3>1 DEF Contents
    <2>2. CASE map'[x] = map[x]
      <3>1. \A i \in Flogs : ~(Pending(i) /\ Current(i).lba = x)
        BY <1>4, <1>13, <2>2 DEF Pending, Incomplete
      <3>2. DevOf(x) = Contents(map[x])
        BY <1>9, <3>1, DevMapped
      <3> QED
        BY <2>1, <2>2, <3>2
    <2>3. CASE map'[x] # map[x]
      <3>1. PICK l \in Lane : pc[l] = "map_drain" /\ lba[l] = x /\ map'[x] = pmap[x]
        BY <1>10, <2>3
      <3>2. DrainingOK(l)
        BY <1>1, <3>1 DEF DrainOK
      <3>3. op[l] # "write"
        <4> SUFFICES ASSUME op[l] = "write" PROVE FALSE
          BY Zenon
        <4>1. Current(l).lba = x /\ Current(l).new = ent[l] /\ ent[l].st = "normal" /\ map[x] = ent[l]
          BY Zenon, <1>1, <1>11, <3>1, <3>2 DEF EntOK, DrainingOK
        <4>2. Resolve(pmap[x], x) = Current(l).old
          BY Zenon, <1>11, <3>1, <3>2 DEF DrainingOK
        <4>3. RawMap[x] = Current(l).new.blk
          BY <4>1 DEF RawMap, Resolve
        <4>4. RawMap[x] # OldBlk[l]
          BY Zenon, <1>1, <1>11, <3>1 DEF PartOK, Parted, PendingSet
        <4>5. Current(l).old # Current(l).new
          BY Zenon, <1>11, <3>1, <4>3, <4>4 DEF OldBlk
        <4>6. Pending(l)'
          BY Zenon, <1>4, <1>11, <3>1, <4>1, <4>2, <4>5 DEF Pending, Incomplete
        <4> QED
          BY <1>11, <1>13, <3>1, <4>1, <4>6
      <3>4. StageOf(l) = "marked"
        BY Zenon, <3>1, <3>3 DEF StageOf
      <3>5. CallOf(l).st = "marked" /\ CallOf(l).lba = x /\ CallOf(l).undo = Contents(pmap[x])
        BY Zenon, <3>1, <3>4 DEF CallOf, UndoOf
      <3> QED
        BY <2>1, <3>1, <3>5
    <2> QED
      BY <2>2, <2>3
  <1>14. \A x \in Lba : Kept(x) \/ Redone(x) \/ Undone(x)
    BY Zenon, <1>12, <1>13
  <1> QED
    BY Zenon, <1>5, <1>14, IsCrash

\* An arena starts as a block device of zeros with no calls.
LEMMA InitSim == Init => Device!Init /\ BufOK /\ AnswerOK
  <1> SUFFICES ASSUME Init PROVE Device!Init /\ BufOK /\ AnswerOK
    OBVIOUS
  <1>1. ASSUME NEW x \in Lba PROVE DevOf(x) = Device!Zeros
    <2>1. rec = NFree /\ map[x] = Initial
      BY DEF Init
    <2> QED
      BY <2>1, DevWhenUp DEF Contents, ReadsAsZero, Initial, Plain, Device!Zeros
  <1>2. ASSUME NEW l \in Lane PROVE CallOf(l) = Device!NoCall
    <2>1. pc[l] = "idle" /\ op[l] = "none"
      BY DEF Init
    <2> QED
      BY <2>1 DEF CallOf, UndoOf, StageOf, ResultOf, ArgumentOf, Device!NoCall, Device!Ok, Device!Zeros, Plain
  <1>3. Device!Init
    BY <1>1, <1>2 DEF Device!Init
  <1>4. BufOK /\ AnswerOK
    BY DEF Init, BufOK, AnswerOK
  <1> QED
    BY <1>3, <1>4

(***************************************************************************)
(* Only a failing namespace write makes btt_write(), btt_set_zero() or     *)
(* btt_set_error() fail: a restart never puts the arena in error.          *)
(***************************************************************************)
THEOREM RefusalsHaveCause == Spec => []RefusedForCause
  <1>1. AnswerOK => RefusedForCause
    BY DEF AnswerOK, RefusedForCause
  <1> QED
    BY <1>1, LanesConsistent, InitSim, AnswerNext, PTL DEF Spec

(***************************************************************************)
(* As long as no namespace write fails, an arena is a block device, for    *)
(* every size of the arena and every number of lanes, calls and crashes.   *)
(***************************************************************************)
THEOREM ImplementsUnlessFailing == ASSUME MaxFail = 0 PROVE Spec => ImplementsBlockDevice
  <1> DEFINE Inv == LaneInv /\ BlockInv
  <1>1. LaneInv /\ (fails = 0 => BlockInv) => Inv
    BY DEF LaneInv, TypeOK
  <1>2. Spec => []Inv
    BY <1>1, LanesConsistent, BlocksConsistent, PTL
  <1>3. Inv /\ BufOK /\ AnswerOK /\ [Next]_vars => (BufOK /\ AnswerOK)'
    BY BlocksApart, BufNext, AnswerNext
  <1>4. Spec => [](BufOK /\ AnswerOK)
    BY <1>2, <1>3, InitSim, PTL DEF Spec
  <1>5. Inv /\ BufOK /\ AnswerOK /\ [Next]_vars => [Device!Next]_<<DevState, CallState>>
    <2> SUFFICES ASSUME Inv, BufOK, AnswerOK, [Next]_vars PROVE Device!Next \/ UNCHANGED <<DevState, CallState>>
      OBVIOUS
    <2>1. ASSUME NEW l \in Lane, LaneStep(l) PROVE Device!Next \/ UNCHANGED <<DevState, CallState>>
      BY <2>1, BlocksApart, LaneSim DEF Abstract, Device!Next
    <2>2. CASE Crash
      BY <2>2, CrashSim DEF Device!Next
    <2>3. CASE RecoverFlog
      BY <2>3, RecoverSim
    <2>4. CASE UNCHANGED vars
      <3>0. UNCHANGED <<map, pmap, flog, data, rt, rec, pc, op, lba, ent, buf, res>>
        BY Zenon, <2>4 DEF vars, media, runtime, locals
      <3>1. ASSUME NEW x \in Lba PROVE DevOf(x)' = DevOf(x)
        BY <3>0 DEF DevOf, Contents, Current, Incomplete
      <3>2. ASSUME NEW l \in Lane PROVE CallOf(l)' = CallOf(l)
        <4>1. Contents(ent[l])' = Contents(ent[l]) /\ Contents(pmap[lba[l]])' = Contents(pmap[lba[l]])
          BY <3>0 DEF Contents
        <4> QED
          BY Zenon, <3>0, <4>1, CallSame
      <3> QED
        BY Zenon, <3>1, <3>2 DEF DevState, CallState
    <2> QED
      BY <2>1, <2>2, <2>3, <2>4 DEF Next, LaneStep
  <1> QED
    BY <1>2, <1>4, <1>5, InitSim, PTL DEF Spec, ImplementsBlockDevice, Device!Spec, DevState, CallState
==============================================================================
