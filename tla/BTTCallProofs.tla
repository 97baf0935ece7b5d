--------------------------- MODULE BTTCallProofs ---------------------------
(***************************************************************************)
(* A lane inside btt.c as a caller of a block device: each step of a lane  *)
(* up to its store into the map is a step of its call, or none.            *)
(***************************************************************************)
EXTENDS BTTRefinement, BTTProofs

\* The state of the block device an arena stands for.
DevState == [x \in Lba |-> DevOf(x)]
CallState == [l \in Lane |-> CallOf(l)]

\* The block holds what is being written, the buffer what is being read.
BufOK ==
    \A l \in Lane :
        /\ pc[l] \in {"wr_half2", "rd_half2"} => data[ent[l].blk][1] = buf[l][1]
        /\ (op[l] = "write" /\ pc[l] \in {"lock", "flog1", "flog2", "map_store"}) =>
              data[ent[l].blk] = buf[l]

\* A call has an answer when it is about to return; errors come from failed writes.
AnswerOK ==
    /\ \A l \in Lane : /\ pc[l] = "idle" => op[l] = "none"
                       /\ pc[l] # "ret" => res[l] = "none"
                       /\ pc[l] = "set_err" => fails > 0
                       /\ res[l] = "EIO" => op[l] = "read" \/ fails > 0
    /\ err \/ perr => fails > 0

\* The block a btt_write fills is not mapped, not being read, and nobody else's to fill.
Apart ==
    \A w \in Lane : pc[w] \in {"wr_half1", "wr_half2"} =>
        /\ \A x \in Lba : Resolve(map[x], x).blk # ent[w].blk
        /\ \A r \in Lane : Reading(r) => ent[r].blk # ent[w].blk
        /\ \A v \in Lane : (/\ v # w /\ op[v] = "write"
                            /\ pc[v] \in {"wr_half2", "lock", "flog1", "flog2", "map_store"}) =>
                                ent[v].blk # ent[w].blk

------------------------------------------------------------------------------
\* What an entry stands for depends on the data blocks alone.
LEMMA SameContents ==
    ASSUME NEW e, data' = data
    PROVE  Contents(e)' = Contents(e)
  BY DEF Contents

\* After the restart a block holds what its map entry says.
LEMMA DevWhenUp ==
    ASSUME rec = NFree, NEW x \in Lba
    PROVE  DevOf(x) = Contents(map[x])
  BY SizeAssumption DEF DevOf

\* Threads are inside only after the restart.
LEMMA Inside == ASSUME LaneInv, NEW l \in Lane, pc[l] # "idle" PROVE rec = NFree
  BY SizeAssumption DEF LaneInv, QuietOK, TypeOK

\* The call of a lane nothing happens to.
LEMMA CallSame ==
    ASSUME NEW k \in Lane, pc'[k] = pc[k], op'[k] = op[k], lba'[k] = lba[k],
           ent'[k] = ent[k], buf'[k] = buf[k], res'[k] = res[k],
           Contents(ent[k])' = Contents(ent[k]) \/ ~(Reading(k) \/ (pc[k] = "rd_check" /\ ent[k].st # "normal")),
           Contents(pmap[lba[k]])' = Contents(pmap[lba[k]]) \/ pc[k] # "map_drain" \/ op[k] = "write"
    PROVE  CallOf(k)' = CallOf(k)
  <1>1. StageOf(k)' = StageOf(k)
    BY DEF StageOf
  <1>2. ArgumentOf(k)' = ArgumentOf(k)
    BY DEF ArgumentOf
  <1>3. ResultOf(k)' = ResultOf(k)
    BY <1>1 DEF ResultOf, Reading, StageOf
  <1>4. StageOf(k) = "marked" => pc[k] = "map_drain" /\ op[k] # "write"
    BY DEF StageOf
  <1> QED
    BY <1>1, <1>2, <1>3, <1>4 DEF CallOf, UndoOf

\* A step that leaves map and data blocks alone changes no block and no other call.
LEMMA Steady ==
    ASSUME NEW l \in Lane, Keeps(l), rec = NFree, UNCHANGED <<map, pmap, data, rec>>
    PROVE  /\ \A x \in Lba : DevOf(x)' = DevOf(x)
           /\ \A k \in Lane : k # l => CallOf(k)' = CallOf(k)
  <1>1. ASSUME NEW x \in Lba PROVE DevOf(x)' = DevOf(x)
    <2>1. DevOf(x) = Contents(map[x])
      BY DevWhenUp
    <2>2. DevOf(x)' = Contents(map[x])'
      BY SizeAssumption DEF DevOf
    <2>3. Contents(map[x])' = Contents(map[x])
      BY DEF Contents
    <2> QED
      BY <2>1, <2>2, <2>3
  <1>2. ASSUME NEW k \in Lane, k # l PROVE CallOf(k)' = CallOf(k)
    <2>1. Contents(ent[k])' = Contents(ent[k]) /\ Contents(pmap[lba[k]])' = Contents(pmap[lba[k]])
      BY Zenon, <1>2 DEF Contents, Keeps
    <2> QED
      BY Zenon, <1>2, <2>1, CallSame DEF Keeps
  <1> QED
    BY <1>1, <1>2

------------------------------------------------------------------------------
\* A call record, and the one that differs in stage, result and undo value.
IsCall(c) ==
    c = [st |-> c.st, op |-> c.op, lba |-> c.lba, arg |-> c.arg, res |-> c.res, undo |-> c.undo]

\* The call c with another stage, answer and content to fall back to.
Changed(c, s, r, u) == [st |-> s, op |-> c.op, lba |-> c.lba, arg |-> c.arg, res |-> r, undo |-> u]

\* What the updates of stage and answer in the actions of BlockDevice make of a call.
LEMMA Exchange ==
    ASSUME NEW c, IsCall(c), NEW s, NEW v
    PROVE  /\ [c EXCEPT !.st = s] = Changed(c, s, c.res, c.undo)
           /\ [c EXCEPT !.st = s, !.res = v] = Changed(c, s, v, c.undo)
  <1> DEFINE S == {c.st, c.op, c.lba, c.arg, c.res, c.undo, s, v}
             C == [st : S, op : S, lba : S, arg : S, res : S, undo : S]
             d1 == [c EXCEPT !.st = s]
             d2 == [c EXCEPT !.st = s, !.res = v]
             e1 == Changed(c, s, c.res, c.undo)
             e2 == Changed(c, s, v, c.undo)
  <1>1. c \in C
    BY DEF IsCall
  <1>2. d1 \in C /\ d2 \in C
    BY Zenon, <1>1
  <1>3. e1 \in C /\ e2 \in C
    BY Zenon DEF Changed
  <1>4. d1.st = e1.st /\ d1.op = e1.op /\ d1.lba = e1.lba /\ d1.arg = e1.arg /\ d1.res = e1.res /\ d1.undo = e1.undo
    BY <1>1 DEF Changed
  <1>5. d2.st = e2.st /\ d2.op = e2.op /\ d2.lba = e2.lba /\ d2.arg = e2.arg /\ d2.res = e2.res /\ d2.undo = e2.undo
    BY <1>1 DEF Changed
  <1> HIDE DEF d1, d2, e1, e2, S
  <1>6. d1 = e1 /\ d2 = e2
    BY <1>2, <1>3, <1>4, <1>5
  <1> QED
    BY <1>6 DEF d1, d2, e1, e2

\* The same for the updates that also keep the content to fall back to.
LEMMA ExchangeUndo ==
    ASSUME NEW c, IsCall(c), NEW s, NEW v
    PROVE  [c EXCEPT !.st = s, !.undo = v] = Changed(c, s, c.res, v)
  <1> DEFINE S == {c.st, c.op, c.lba, c.arg, c.res, c.undo, s, v}
             C == [st : S, op : S, lba : S, arg : S, res : S, undo : S]
             d == [c EXCEPT !.st = s, !.undo = v]
             e == Changed(c, s, c.res, v)
  <1>1. c \in C
    BY DEF IsCall
  <1>2. d \in C
    BY Zenon, <1>1
  <1>3. e \in C
    BY Zenon DEF Changed
  <1>4. d.st = e.st /\ d.op = e.op /\ d.lba = e.lba /\ d.arg = e.arg /\ d.res = e.res /\ d.undo = e.undo
    BY <1>1 DEF Changed
  <1> HIDE DEF d, e, S
  <1>5. d = e
    BY <1>2, <1>3, <1>4
  <1> QED
    BY <1>5 DEF d, e

------------------------------------------------------------------------------
\* The steps of the block device, call by call.
OnlyCall(l) == \A k \in Lane : k # l => CallOf(k)' = CallOf(k)

\* No LBA gets another content.
DevKept == \A x \in Lba : DevOf(x)' = DevOf(x)

\* A thread inside that stores neither into the map nor into a block is seen by nobody else.
LEMMA Unseen ==
    ASSUME LaneInv, NEW l \in Lane, LaneStep(l), pc[l] # "idle",
           ~MapStore(l), ~MapDrain(l), ~WriteHalf1(l), ~WriteHalf2(l)
    PROVE  /\ TypeOK /\ Keeps(l) /\ rec = NFree /\ OnlyCall(l) /\ DevKept
           /\ map' = map /\ pmap' = pmap /\ data' = data
  <1>1. TypeOK /\ Keeps(l) /\ rec = NFree /\ rec' = rec
    BY LaneFrame, Inside DEF LaneInv, Keeps
  <1>2. map' = map /\ pmap' = pmap /\ data' = data
    BY Stores
  <1> QED
    BY <1>1, <1>2, Steady DEF OnlyCall, DevKept

\* A step that the caller of no operation can tell is a stuttering step of the device.
LEMMA IsStutter ==
    ASSUME NEW l \in Lane, OnlyCall(l), DevKept, CallOf(l)' = CallOf(l)
    PROVE  UNCHANGED <<DevState, CallState>>
  BY DEF OnlyCall, DevKept, DevState, CallState

\* What a step of a lane may be for the block device.
Abstract(l) ==
    \/ UNCHANGED <<DevState, CallState>>
    \/ Device!Enter(l) \/ Device!Read(l) \/ Device!Write(l) \/ Device!Mark(l)
    \/ Device!Settle(l) \/ Device!AlreadyZero(l) \/ Device!Fail(l) \/ Device!Return(l)

\* A call under way goes on.
GoesOn(l) ==
    /\ pc[l] # "idle" /\ pc'[l] # "idle" /\ op'[l] = op[l] /\ lba'[l] = lba[l]
    /\ buf'[l] = buf[l] \/ op[l] # "write"

\* Its stage, its result and what a crash may undo are all that changes.
LEMMA CallIs ==
    ASSUME NEW l \in Lane, GoesOn(l)
    PROVE  /\ IsCall(CallOf(l))
           /\ CallOf(l).st = StageOf(l) /\ CallOf(l).op = op[l] /\ CallOf(l).lba = lba[l]
           /\ CallOf(l).arg = ArgumentOf(l) /\ CallOf(l).res = ResultOf(l) /\ CallOf(l).undo = UndoOf(l)
           /\ CallOf(l)' = Changed(CallOf(l), StageOf(l)', ResultOf(l)', UndoOf(l)')
           /\ StageOf(l) # "done" => ResultOf(l) = Plain("ok")
           /\ StageOf(l)' # "done" => ResultOf(l)' = Plain("ok")
           /\ StageOf(l) # "marked" => UndoOf(l) = Plain("zeros")
           /\ StageOf(l)' # "marked" => UndoOf(l)' = Plain("zeros")
  <1>1. ArgumentOf(l)' = ArgumentOf(l)
    BY DEF ArgumentOf, GoesOn
  <1>2. /\ IsCall(CallOf(l))
        /\ CallOf(l).st = StageOf(l) /\ CallOf(l).op = op[l] /\ CallOf(l).lba = lba[l]
        /\ CallOf(l).arg = ArgumentOf(l) /\ CallOf(l).res = ResultOf(l) /\ CallOf(l).undo = UndoOf(l)
    BY DEF CallOf, IsCall, GoesOn
  <1>3. CallOf(l)' = Changed(CallOf(l), StageOf(l)', ResultOf(l)', UndoOf(l)')
    BY <1>1, <1>2 DEF CallOf, Changed, GoesOn
  <1>4. /\ StageOf(l) # "done" => ResultOf(l) = Plain("ok")
        /\ StageOf(l)' # "done" => ResultOf(l)' = Plain("ok")
    BY DEF ResultOf, Plain
  <1>5. /\ StageOf(l) # "marked" => UndoOf(l) = Plain("zeros")
        /\ StageOf(l)' # "marked" => UndoOf(l)' = Plain("zeros")
    BY DEF UndoOf, Plain
  <1> QED
    BY <1>2, <1>3, <1>4, <1>5

\* Nothing the caller or others can see.
LEMMA NotYet ==
    ASSUME NEW l \in Lane, OnlyCall(l), DevKept, GoesOn(l),
           StageOf(l)' = StageOf(l), StageOf(l) # "marked", ResultOf(l)' = ResultOf(l) \/ StageOf(l) # "done"
    PROVE  Abstract(l)
  <1>1. CallOf(l)' = CallOf(l)
    BY CallIs DEF Changed, IsCall
  <1> QED
    BY <1>1, IsStutter DEF Abstract

\* A read takes effect: it answers what the block holds.
LEMMA IsRead ==
    ASSUME NEW l \in Lane, OnlyCall(l), DevKept, GoesOn(l), op[l] = "read", lba[l] \in Lba,
           StageOf(l) = "called", StageOf(l)' = "done", ResultOf(l)' = DevOf(lba[l])
    PROVE  Abstract(l)
  <1>1. IsCall(CallOf(l)) /\ CallOf(l)' = Changed(CallOf(l), "done", DevOf(lba[l]), CallOf(l).undo)
    BY CallIs
  <1>2. [CallOf(l) EXCEPT !.st = "done", !.res = DevOf(lba[l])] = CallOf(l)'
    BY Zenon, <1>1, Exchange
  <1>3. /\ CallOf(l).st = StageOf(l) /\ CallOf(l).op = op[l]
        /\ CallOf(l).lba = lba[l] /\ CallOf(l).arg = ArgumentOf(l)
    BY CallIs
  <1>4. Device!Read(l)
    BY Zenon, <1>2, <1>3 DEF OnlyCall, DevKept, Device!Read
  <1> QED
    BY <1>4 DEF Abstract

\* A write takes effect.
LEMMA IsWrite ==
    ASSUME NEW l \in Lane, OnlyCall(l), GoesOn(l), op[l] = "write", lba[l] \in Lba,
           \A x \in Lba : DevOf(x)' = IF x = lba[l] THEN ArgumentOf(l) ELSE DevOf(x),
           StageOf(l) = "called", StageOf(l)' = "done", ResultOf(l)' = Plain("ok")
    PROVE  Abstract(l)
  <1>1. IsCall(CallOf(l)) /\ CallOf(l)' = Changed(CallOf(l), "done", CallOf(l).res, CallOf(l).undo)
    BY CallIs
  <1>2. [CallOf(l) EXCEPT !.st = "done"] = CallOf(l)'
    BY Zenon, <1>1, Exchange
  <1>3. /\ CallOf(l).st = StageOf(l) /\ CallOf(l).op = op[l]
        /\ CallOf(l).lba = lba[l] /\ CallOf(l).arg = ArgumentOf(l)
    BY CallIs
  <1>4. Device!Write(l)
    BY Zenon, <1>2, <1>3 DEF OnlyCall, Device!Write
  <1> QED
    BY <1>4 DEF Abstract

\* set_zero or set_error takes effect, and may still be undone by a crash.
LEMMA IsMark ==
    ASSUME NEW l \in Lane, OnlyCall(l), GoesOn(l), op[l] \in {"zero", "error"}, lba[l] \in Lba,
           \A x \in Lba : DevOf(x)' = IF x = lba[l] THEN ArgumentOf(l) ELSE DevOf(x),
           StageOf(l) = "called", StageOf(l)' = "marked", UndoOf(l)' = DevOf(lba[l])
    PROVE  Abstract(l)
  <1>0. IsCall(CallOf(l))
    BY CallIs
  <1>1. CallOf(l)' = Changed(CallOf(l), "marked", CallOf(l).res, DevOf(lba[l]))
    BY CallIs
  <1>2. [CallOf(l) EXCEPT !.st = "marked", !.undo = DevOf(lba[l])] =
           Changed(CallOf(l), "marked", CallOf(l).res, DevOf(lba[l]))
    BY Zenon, <1>0, ExchangeUndo
  <1>3. /\ CallOf(l).st = StageOf(l) /\ CallOf(l).op = op[l]
        /\ CallOf(l).lba = lba[l] /\ CallOf(l).arg = ArgumentOf(l)
    BY CallIs
  <1>4. Device!Mark(l)
    BY Zenon, <1>1, <1>2, <1>3 DEF OnlyCall, Device!Mark
  <1> QED
    BY <1>4 DEF Abstract

\* It is durable.
LEMMA IsSettle ==
    ASSUME NEW l \in Lane, OnlyCall(l), DevKept, GoesOn(l),
           StageOf(l) = "marked", StageOf(l)' = "done", ResultOf(l)' = Plain("ok")
    PROVE  Abstract(l)
  <1>0. IsCall(CallOf(l))
    BY CallIs
  <1>1. CallOf(l)' = Changed(CallOf(l), "done", CallOf(l).res, Device!Zeros)
    BY CallIs DEF Plain, Device!Zeros
  <1>2. [CallOf(l) EXCEPT !.st = "done", !.undo = Device!Zeros] =
           Changed(CallOf(l), "done", CallOf(l).res, Device!Zeros)
    BY Zenon, <1>0, ExchangeUndo
  <1>3. /\ CallOf(l).st = StageOf(l) /\ CallOf(l).op = op[l]
        /\ CallOf(l).lba = lba[l] /\ CallOf(l).arg = ArgumentOf(l)
    BY CallIs
  <1>4. Device!Settle(l)
    BY Zenon, <1>1, <1>2, <1>3 DEF OnlyCall, DevKept, Device!Settle
  <1> QED
    BY <1>4 DEF Abstract

\* set_zero of a block of zeros.
LEMMA IsAlreadyZero ==
    ASSUME NEW l \in Lane, OnlyCall(l), DevKept, GoesOn(l), op[l] = "zero", lba[l] \in Lba,
           DevOf(lba[l]) = Device!Zeros,
           StageOf(l) = "called", StageOf(l)' = "done", ResultOf(l)' = Plain("ok")
    PROVE  Abstract(l)
  <1>1. IsCall(CallOf(l)) /\ CallOf(l)' = Changed(CallOf(l), "done", CallOf(l).res, CallOf(l).undo)
    BY CallIs
  <1>2. [CallOf(l) EXCEPT !.st = "done"] = CallOf(l)'
    BY Zenon, <1>1, Exchange
  <1>3. /\ CallOf(l).st = StageOf(l) /\ CallOf(l).op = op[l]
        /\ CallOf(l).lba = lba[l] /\ CallOf(l).arg = ArgumentOf(l)
    BY CallIs
  <1>4. Device!AlreadyZero(l)
    BY Zenon, <1>2, <1>3 DEF OnlyCall, DevKept, Device!AlreadyZero
  <1> QED
    BY <1>4 DEF Abstract

\* A call that fails has no effect.
LEMMA IsFail ==
    ASSUME NEW l \in Lane, OnlyCall(l), DevKept, GoesOn(l), op[l] # "read", MaxFail > 0,
           StageOf(l) = "called", StageOf(l)' = "done", ResultOf(l)' = Device!Error
    PROVE  Abstract(l)
  <1>1. IsCall(CallOf(l)) /\ CallOf(l)' = Changed(CallOf(l), "done", Device!Error, CallOf(l).undo)
    BY CallIs
  <1>2. [CallOf(l) EXCEPT !.st = "done", !.res = Device!Error] = CallOf(l)'
    BY Zenon, <1>1, Exchange
  <1>3. /\ CallOf(l).st = StageOf(l) /\ CallOf(l).op = op[l]
        /\ CallOf(l).lba = lba[l] /\ CallOf(l).arg = ArgumentOf(l)
    BY CallIs
  <1>4. Device!Fail(l)
    BY Zenon, <1>2, <1>3 DEF OnlyCall, DevKept, Device!Fail
  <1> QED
    BY <1>4 DEF Abstract

\* btt_read(), btt_write(), btt_set_zero() or btt_set_error() returns its answer.
LEMMA IsReturn ==
    ASSUME NEW l \in Lane, OnlyCall(l), DevKept, CallOf(l).st = "done", CallOf(l)' = Device!NoCall
    PROVE  Device!Return(l)
  BY Zenon DEF OnlyCall, DevKept, Device!Return

\* ... or is called.
LEMMA IsInvoke ==
    ASSUME NEW l \in Lane, OnlyCall(l), DevKept, CallOf(l).st = "idle",
           NEW o \in {"read", "write", "zero", "error"}, NEW x \in Lba, NEW d \in [{1, 2} -> Data],
           CallOf(l)' = [st |-> "called", op |-> o, lba |-> x, arg |-> Device!Argument(o, d),
                         res |-> Device!Ok, undo |-> Device!Zeros]
    PROVE  Device!Enter(l)
  <1> DEFINE a == Device!Argument(o, d)
             e == [st |-> "called", op |-> o, lba |-> x, arg |-> a, res |-> Device!Ok, undo |-> Device!Zeros]
             n == [Device!NoCall EXCEPT !.st = "called", !.op = o, !.lba = x, !.arg = a]
             S == {"idle", "none", -1, Device!Zeros, Device!Ok, "called", o, x, a}
             C == [st : S, op : S, lba : S, arg : S, res : S, undo : S]
  <1> HIDE DEF a
  <1>1. Device!NoCall \in C
    BY Zenon DEF Device!NoCall
  <1>2. n \in C
    BY Zenon, <1>1
  <1>3. e \in C
    BY Zenon
  <1>4. n.st = e.st /\ n.op = e.op /\ n.lba = e.lba /\ n.arg = e.arg /\ n.res = e.res /\ n.undo = e.undo
    BY <1>1 DEF Device!NoCall
  <1> HIDE DEF n, e, S
  <1>5. n = e
    BY <1>2, <1>3, <1>4
  <1>6. Device!Invoke(l, o, x, d)
    BY Zenon, <1>5 DEF n, e, a, OnlyCall, DevKept, Device!Invoke
  <1>7. CallState[l].st = "idle"
    BY DEF CallState
  <1> QED
    BY Zenon, <1>6, <1>7 DEF Device!Enter

------------------------------------------------------------------------------
\* Errors are answered only after a namespace write has failed.
LEMMA AnswerNext == LaneInv /\ AnswerOK /\ [Next]_vars => AnswerOK'
  <1> SUFFICES ASSUME LaneInv, AnswerOK, [Next]_vars PROVE AnswerOK'
    OBVIOUS
  <1>0. TypeOK
    BY DEF LaneInv
  <1>5. \A l \in Lane : pc[l] = "rd_check" => op[l] = "read"
    BY DEF LaneInv, ControlOK
  <1>1. ASSUME NEW l \in Lane, LaneStep(l) PROVE AnswerOK'
    <2> DEFINE Kept == /\ pc'[l] = "idle" => op'[l] = "none"
                       /\ pc'[l] # "ret" => res'[l] = "none"
                       /\ pc'[l] = "set_err" => fails' > 0
                       /\ res'[l] = "EIO" => op'[l] = "read" \/ fails' > 0
                       /\ err' \/ perr' => fails' > 0
                       /\ fails > 0 => fails' > 0
    <2> SUFFICES Kept
      BY <1>0, <1>1, LaneFrame DEF AnswerOK, Keeps
    <2> USE <1>0 DEF AnswerOK, TypeOK, Goto, Finish, At, locals, media, runtime, counters
    <2>1. ASSUME NEW o \in Ops, NEW x \in Lba, NEW d \in Data, Call(l, o, x, d) PROVE Kept
      BY <2>1, OpsAssumption DEF Call
    <2>2. CASE ReadStep(l)
      <3>1. CASE ReadCheckError(l)
        BY <1>5, <3>1 DEF ReadCheckError
      <3>2. CASE ReadEntry(l) \/ ReadCheckZero(l) \/ ReadTrack(l) \/ ReadRecheck(l)
        BY <3>2 DEF ReadEntry, ReadCheckZero, ReadTrack, ReadRecheck
      <3>3. CASE ReadHalf1(l) \/ ReadHalf2(l) \/ ReadClear(l)
        BY <3>3 DEF ReadHalf1, ReadHalf2, ReadClear
      <3> QED
        BY Zenon, <2>2, <3>1, <3>2, <3>3 DEF ReadStep
    <2>3. CASE WriteStep(l)
      BY <2>3 DEF WriteStep, Refuse, WriteStart, WriteScan, WriteHalf1, WriteHalf2, FlogWrite1,
                  FlogWrite2, MapStore, MapDrain
    <2>4. CASE MapLock(l) \/ SetfStep(l)
      BY <2>4 DEF MapLock, SetfStep, SetfStart, SetfNothing, SetfEntry
    <2>5. CASE FailStep(l)
      BY <2>5 DEF FailStep, DataFail, FlogFail, MapFail
    <2>6. CASE ErrorStep(l)
      <3>1. /\ pc[l] = "set_err" /\ op' = op /\ fails' = fails
            /\ (pc' = pc /\ res' = res) \/ pc' = [pc EXCEPT ![l] = "ret"]
        BY Zenon, <2>6, ErrorFrame
      <3> QED
        BY <3>1
    <2>7. CASE Return(l)
      BY <2>7 DEF Return
    <2> HIDE DEF Kept, AnswerOK, TypeOK
    <2> QED
      BY <1>1, <2>1, <2>2, <2>3, <2>4, <2>5, <2>6, <2>7 DEF LaneStep
  <1>2. CASE Crash
    BY <1>2 DEF Crash, AnswerOK
  <1>3. CASE RecoverFlog
    <2>1. rec \in Flogs
      BY <1>0, <1>3, SizeAssumption DEF RecoverFlog, TypeOK, Flogs
    <2>2. FlogValid(flog[rec])
      BY <2>1, LanesDecide DEF FlogDecidable
    <2> QED
      BY <1>0, <1>3, <2>2 DEF TypeOK,  RecoverFlog, AnswerOK, locals, counters
  <1>4. CASE UNCHANGED vars
    BY Zenon, <1>4 DEF AnswerOK, vars, locals, media, runtime, counters
  <1> QED
    BY <1>1, <1>2, <1>3, <1>4 DEF Next, LaneStep

------------------------------------------------------------------------------
\* Nobody overwrites a block another lane has filled or is reading.
LEMMA BufNext == LaneInv /\ Apart /\ BufOK /\ [Next]_vars => BufOK'
  <1> SUFFICES ASSUME LaneInv, Apart, BufOK, [Next]_vars PROVE BufOK'
    OBVIOUS
  <1>0. TypeOK /\ ControlOK /\ TrackOK
    BY DEF LaneInv
  <1> DEFINE Fits(l) == /\ pc[l] \in {"wr_half2", "rd_half2"} => data[ent[l].blk][1] = buf[l][1]
                        /\ (op[l] = "write" /\ pc[l] \in {"lock", "flog1", "flog2", "map_store"}) =>
                              data[ent[l].blk] = buf[l]
  <1>1. ASSUME NEW l \in Lane, LaneStep(l) PROVE BufOK'
    <2>0. Keeps(l) /\ Fits(l)
      BY <1>0, <1>1, LaneFrame DEF BufOK
    <2>1. ASSUME data' = data, Fits(l)' PROVE BufOK'
      BY <2>0, <2>1 DEF BufOK, Keeps
    <2> USE DEF TypeOK, ControlOK, Goto, Finish, At, locals, media, runtime, counters
    <2>2. ASSUME NEW o \in Ops, NEW x \in Lba, NEW d \in Data, Call(l, o, x, d) PROVE data' = data /\ Fits(l)'
      BY Zenon, <1>0, <2>0, <2>2, OpsAssumption DEF Call
    <2>3. CASE ReadHalf1(l)
      <3>1. data' = data /\ Fits(l)'
        BY <1>0, <2>3 DEF ReadHalf1
      <3> QED
        BY <2>1, <3>1
    <2>4. CASE ReadEntry(l) \/ ReadCheckError(l) \/ ReadCheckZero(l) \/ ReadTrack(l) \/ ReadRecheck(l)
               \/ ReadHalf2(l) \/ ReadClear(l)
      BY Zenon, <1>0, <2>0, <2>1, <2>4 DEF ReadEntry, ReadCheckError, ReadCheckZero, ReadTrack, ReadRecheck, ReadHalf2, ReadClear
    <2>5. CASE Refuse(l) \/ WriteStart(l) \/ WriteScan(l) \/ FlogWrite1(l) \/ FlogWrite2(l) \/ MapStore(l)
               \/ MapDrain(l)
      BY <1>0, <2>0, <2>1, <2>5 DEF Refuse, WriteStart, WriteScan, FlogWrite1, FlogWrite2, MapStore, MapDrain
    <2>6. CASE WriteHalf1(l) \/ WriteHalf2(l)
      <3>1. ASSUME NEW k \in Lane, k # l PROVE Fits(k)'
        <4>1. Fits(k)
          BY DEF BufOK
        <4>2. pc[l] \in {"wr_half1", "wr_half2"} /\ \A b \in Block : b # ent[l].blk => data'[b] = data[b]
          BY Zenon, <1>0, <2>6 DEF WriteHalf1, WriteHalf2
        <4>3. CASE pc[k] = "rd_half2"
          <5>1. ent[k].blk # ent[l].blk
            BY <4>2, <4>3 DEF Apart, Reading
          <5> QED
            BY <1>0, <2>0, <3>1, <4>1, <4>2, <4>3, <5>1 DEF Keeps, Entry
        <4>4. CASE op[k] = "write" /\ pc[k] \in {"wr_half2", "lock", "flog1", "flog2", "map_store"}
          <5>1. ent[k].blk # ent[l].blk
            BY Zenon, <3>1, <4>2, <4>4 DEF Apart
          <5> QED
            BY <1>0, <2>0, <3>1, <4>1, <4>2, <4>4, <5>1 DEF Keeps, Entry
        <4> QED
          BY Zenon, <1>0, <2>0, <3>1, <4>3, <4>4 DEF Keeps
      <3>2. CASE WriteHalf1(l)
        <4>1. Fits(l)'
          BY <1>0, <3>2 DEF WriteHalf1, Entry
        <4> QED
          BY Zenon, <3>1, <4>1 DEF BufOK
      <3>3. CASE WriteHalf2(l)
        <4>1. data'[ent[l].blk] = [data[ent[l].blk] EXCEPT ![2] = buf[l][2]]
          BY Zenon, <1>0, <3>3 DEF WriteHalf2, Entry
        <4>2. data'[ent[l].blk] = buf[l]
          BY <1>0, <2>0, <3>3, <4>1 DEF WriteHalf2, Entry
        <4>3. Fits(l)'
          BY Zenon, <1>0, <3>3, <4>2 DEF WriteHalf2
        <4> QED
          BY Zenon, <3>1, <4>3 DEF BufOK
      <3> QED
        BY <2>6, <3>2, <3>3
    <2>7. CASE MapLock(l) \/ SetfStep(l)
      BY Zenon, <1>0, <2>0, <2>1, <2>7 DEF MapLock, SetfStep, SetfStart, SetfNothing, SetfEntry
    <2>8. CASE FailStep(l)
      BY Zenon, <1>0, <2>0, <2>1, <2>8 DEF FailStep, DataFail, FlogFail, MapFail
    <2>9. CASE ErrorStep(l)
      <3>1. /\ data' = data /\ ent' = ent /\ buf' = buf /\ op' = op
            /\ pc' = pc \/ pc' = [pc EXCEPT ![l] = "ret"]
        BY Zenon, <2>9, ErrorFrame
      <3> QED
        BY <1>0, <2>0, <2>1, <3>1
    <2>10. CASE Return(l)
      BY Zenon, <1>0, <2>0, <2>1, <2>10 DEF Return
    <2> HIDE DEF TypeOK, ControlOK
    <2> QED
      BY Zenon, <1>1, <2>1, <2>2, <2>3, <2>4, <2>5, <2>6, <2>7, <2>8, <2>9, <2>10
         DEF LaneStep, ReadStep, WriteStep
  <1>2. CASE Crash
    BY Zenon, <1>2 DEF Crash, BufOK
  <1>3. CASE RecoverFlog
    BY Zenon, <1>3 DEF RecoverFlog, BufOK, locals
  <1>4. CASE UNCHANGED vars
    BY <1>4 DEF BufOK, vars, locals, media
  <1> QED
    BY <1>1, <1>2, <1>3, <1>4 DEF Next, LaneStep

------------------------------------------------------------------------------
\* Where a call that has not taken effect can be.
Waiting == {"enter", "rd_reread", "wr_scan", "wr_half1", "wr_half2", "lock", "flog1", "flog2",
            "setf", "map_store"}

\* Call and return of a thread.
LEMMA CallReturnSim ==
    ASSUME LaneInv, AnswerOK, NEW l \in Lane,
           Return(l) \/ \E o \in Ops, x \in Lba, d \in Data : Call(l, o, x, d)
    PROVE  Abstract(l)
  <1>1. TypeOK
    BY DEF LaneInv
  <1>2. Keeps(l)
    BY <1>1, LaneFrame DEF LaneStep
  <1>3. ASSUME NEW o \in Ops, NEW x \in Lba, NEW d \in Data, Call(l, o, x, d) PROVE Abstract(l)
    <2>1. OnlyCall(l) /\ DevKept
      BY <1>2, <1>3, Steady DEF Call, Up, media, runtime, OnlyCall, DevKept
    <2>2. /\ pc[l] = "idle" /\ pc'[l] = "enter" /\ op'[l] = o /\ lba'[l] = x
          /\ buf'[l] = <<d, d>>
      BY Zenon, <1>1, <1>3 DEF Call, At, Goto, TypeOK
    <2>3. CallOf(l).st = "idle"
      BY <2>2 DEF CallOf, StageOf
    <2>4. StageOf(l)' = "called"
      BY <2>2 DEF StageOf
    <2>5. ArgumentOf(l)' = Device!Argument(o, <<d, d>>)
      BY <2>2 DEF ArgumentOf, Device!Argument, Device!Written, Device!Error, Device!Zeros, Filled, Plain
    <2>6. CallOf(l)' = [st |-> "called", op |-> o, lba |-> x, arg |-> Device!Argument(o, <<d, d>>),
                         res |-> Device!Ok, undo |-> Device!Zeros]
      BY Zenon, <2>2, <2>4, <2>5 DEF CallOf, UndoOf, ResultOf, Device!Ok, Device!Zeros, Plain
    <2>7. o \in {"read", "write", "zero", "error"} /\ <<d, d>> \in [{1, 2} -> Data]
      BY OpsAssumption, BufType
    <2> QED
      BY <2>1, <2>3, <2>6, <2>7, IsInvoke DEF Abstract
  <1>4. CASE Return(l)
    <2>1. pc[l] = "ret" /\ pc'[l] = "idle" /\ op'[l] = "none"
      BY Zenon, <1>1, <1>4 DEF Return, At, Goto, TypeOK
    <2>5. rec = NFree
      BY <2>1, Inside
    <2>2. OnlyCall(l) /\ DevKept
      BY Zenon, <1>2, <1>4, <2>5, Steady DEF Return, media, runtime, OnlyCall, DevKept
    <2>3. CallOf(l).st = "done"
      BY <2>1 DEF CallOf, StageOf
    <2>4. CallOf(l)' = Device!NoCall
      BY <2>1 DEF CallOf, UndoOf, StageOf, ResultOf, ArgumentOf, Device!NoCall, Device!Ok, Device!Zeros, Plain
    <2> QED
      BY <2>2, <2>3, <2>4, IsReturn DEF Abstract
  <1> QED
    BY <1>3, <1>4

\* btt_read
LEMMA ReadSim ==
    ASSUME LaneInv, BufOK, AnswerOK, NEW l \in Lane, ReadStep(l)
    PROVE  Abstract(l)
  <1>0. /\ pc[l] \in {"enter", "rd_check", "rd_reread", "rd_half1", "rd_half2", "rd_clear"}
        /\ op[l] = "read" /\ op' = op /\ lba' = lba
    BY DEF LaneInv, ControlOK, At, ReadStep, ReadEntry, ReadCheckError, ReadCheckZero, ReadTrack,
       ReadRecheck, ReadHalf1, ReadHalf2, ReadClear, locals
  <1>1. /\ TypeOK /\ op[l] = "read" /\ rec = NFree /\ OnlyCall(l) /\ DevKept
        /\ map' = map /\ pmap' = pmap /\ data' = data
    BY Zenon, <1>0, Unseen DEF LaneStep, MapStore, MapDrain, WriteHalf1, WriteHalf2, At
  <1>2. UNCHANGED <<map, pmap, data, op, lba>>
    BY <1>0, <1>1
  <1>3. OnlyCall(l) /\ DevKept
    BY <1>1
  <1>4. lba[l] \in Lba /\ map[lba[l]] \in Entry /\ ent[l] \in Entry /\ DevOf(lba[l]) = Contents(map[lba[l]])
    BY <1>1, DevWhenUp DEF TypeOK
  <1>6. GoesOn(l) /\ pc[l] # "ret" /\ res[l] = "none"
    <2>1. pc'[l] # "idle"
      BY Zenon, <1>0, <1>1, Moves DEF LaneStep, Return, At
    <2> QED
      BY <1>0, <2>1 DEF AnswerOK, GoesOn
  <1>7. ASSUME StageOf(l) = "called", StageOf(l)' = "called" PROVE Abstract(l)
    BY <1>3, <1>6, <1>7, NotYet
  <1>8. ASSUME StageOf(l) = "called", StageOf(l)' = "done", ResultOf(l)' = Contents(map[lba[l]]) PROVE Abstract(l)
    BY Zenon, <1>0, <1>3, <1>4, <1>6, <1>8, IsRead
  <1>9. ASSUME StageOf(l) = "done", StageOf(l)' = "done", ResultOf(l)' = ResultOf(l) PROVE Abstract(l)
    BY Zenon, <1>3, <1>6, <1>9, NotYet
  <1>10. \A e : Contents(e)' = Contents(e)
    BY <1>2, SameContents
  <1> USE DEF TypeOK, At, Goto, Finish
  <1>11. CASE ReadEntry(l)
    <2>1. pc[l] = "enter" /\ pc'[l] = "rd_check" /\ ent'[l] = map[lba[l]] /\ res'[l] = "none"
      BY Zenon, <1>1, <1>6, <1>11 DEF ReadEntry
    <2>2. StageOf(l) = "called"
      BY <2>1 DEF StageOf
    <2>3. CASE map[lba[l]].st = "normal"
      <3>1. StageOf(l)' = "called"
        BY <2>1, <2>3 DEF StageOf
      <3> QED
        BY <1>7, <2>2, <3>1
    <2>4. CASE map[lba[l]].st # "normal"
      <3>1. StageOf(l)' = "done"
        BY <2>1, <2>4 DEF StageOf
      <3>2. ResultOf(l)' = Contents(map[lba[l]])
        BY Zenon, <1>1, <1>2, <1>10, <2>1, <3>1 DEF ResultOf
      <3> QED
        BY <1>8, <2>2, <3>1, <3>2
    <2> QED
      BY <2>3, <2>4
  <1>12. CASE ReadCheckError(l)
    <2>1. pc[l] = "rd_check" /\ ent[l].st = "error" /\ pc'[l] = "ret" /\ res'[l] = "EIO"
      BY Zenon, <1>1, <1>12 DEF ReadCheckError
    <2>2. StageOf(l) = "done" /\ StageOf(l)' = "done"
      BY <2>1 DEF StageOf
    <2>3. Contents(ent[l]) = Plain("error")
      BY <2>1 DEF Contents, ReadsAsZero
    <2>4. ResultOf(l)' = ResultOf(l)
      BY Zenon, <1>1, <1>6, <2>1, <2>2, <2>3 DEF ResultOf
    <2> QED
      BY <1>9, <2>2, <2>4
  <1>13. CASE ReadCheckZero(l)
    <2>1. pc[l] = "rd_check" /\ ReadsAsZero(ent[l]) /\ pc'[l] = "ret" /\ res'[l] = "zeros"
      BY Zenon, <1>1, <1>13 DEF ReadCheckZero
    <2>2. StageOf(l) = "done" /\ StageOf(l)' = "done"
      BY <2>1 DEF StageOf, ReadsAsZero
    <2>3. Contents(ent[l]) = Plain("zeros")
      BY <2>1 DEF Contents, ReadsAsZero
    <2>4. ResultOf(l)' = ResultOf(l)
      BY Zenon, <1>1, <1>6, <2>1, <2>2, <2>3 DEF ResultOf
    <2> QED
      BY <1>9, <2>2, <2>4
  <1>14. CASE ReadTrack(l)
    <2>1. pc[l] = "rd_check" /\ ent[l].st = "normal" /\ pc'[l] = "rd_reread"
      BY Zenon, <1>1, <1>14 DEF ReadTrack
    <2>2. StageOf(l) = "called" /\ StageOf(l)' = "called"
      BY <2>1 DEF StageOf
    <2> QED
      BY <1>7, <2>2
  <1>15. CASE ReadRecheck(l)
    <2>1. /\ pc[l] = "rd_reread" /\ pc'[l] = IF map[lba[l]] = ent[l] THEN "rd_half1" ELSE "rd_check"
          /\ ent'[l] = map[lba[l]] /\ res'[l] = "none"
      BY Zenon, <1>1, <1>6, <1>15 DEF ReadRecheck
    <2>2. StageOf(l) = "called"
      BY <2>1 DEF StageOf
    <2>3. CASE map[lba[l]] # ent[l] /\ map[lba[l]].st = "normal"
      <3>1. StageOf(l)' = "called"
        BY <2>1, <2>3 DEF StageOf
      <3> QED
        BY <1>7, <2>2, <3>1
    <2>4. CASE map[lba[l]] = ent[l] \/ map[lba[l]].st # "normal"
      <3>1. StageOf(l)' = "done"
        BY <2>1, <2>4 DEF StageOf
      <3>2. ResultOf(l)' = Contents(map[lba[l]])
        BY Zenon, <1>1, <1>2, <1>10, <2>1, <3>1 DEF ResultOf
      <3> QED
        BY Zenon, <1>8, <2>2, <3>1, <3>2
    <2> QED
      BY <2>3, <2>4
  <1>16. CASE ReadHalf1(l)
    <2>1. pc[l] = "rd_half1" /\ pc'[l] = "rd_half2" /\ ent'[l] = ent[l] /\ res'[l] = res[l]
      BY <1>1, <1>16 DEF ReadHalf1
    <2>2. StageOf(l) = "done" /\ StageOf(l)' = "done"
      BY <2>1 DEF StageOf
    <2>3. ResultOf(l)' = ResultOf(l)
      BY Zenon, <1>1, <1>2, <1>6, <1>10, <2>1, <2>2 DEF ResultOf
    <2> QED
      BY <1>9, <2>2, <2>3
  <1>17. CASE ReadHalf2(l)
    <2>1. /\ pc[l] = "rd_half2" /\ pc'[l] = "rd_clear" /\ ent'[l] = ent[l] /\ res'[l] = res[l]
          /\ buf'[l] = [buf[l] EXCEPT ![2] = data[ent[l].blk][2]]
      BY <1>1, <1>17 DEF ReadHalf2
    <2>2. StageOf(l) = "done" /\ StageOf(l)' = "done"
      BY <2>1 DEF StageOf
    <2>3. data[ent[l].blk] \in [{1, 2} -> Data] /\ buf[l] \in [{1, 2} -> Data]
      BY <1>1, <1>4 DEF Entry
    <2>4. buf'[l] = data[ent[l].blk]
      BY <2>1, <2>3 DEF BufOK
    <2>5. Contents(ent[l]) = Filled(buf'[l])
      <3>1. ent[l].st = "normal"
        BY Zenon, <2>1 DEF LaneInv, TrackOK
      <3> QED
        BY <2>4, <3>1 DEF Contents, ReadsAsZero
    <2>6. ResultOf(l)' = ResultOf(l)
      BY Zenon, <1>1, <1>2, <1>6, <2>1, <2>2, <2>5 DEF ResultOf, Filled
    <2> QED
      BY <1>9, <2>2, <2>6
  <1>18. CASE ReadClear(l)
    <2>1. pc[l] = "rd_clear" /\ pc'[l] = "ret" /\ buf'[l] = buf[l] /\ res'[l] = "ok"
      BY <1>1, <1>18 DEF ReadClear
    <2>2. StageOf(l) = "done" /\ StageOf(l)' = "done"
      BY <2>1 DEF StageOf
    <2>3. ResultOf(l)' = ResultOf(l)
      BY Zenon, <1>1, <1>2, <1>6, <2>1, <2>2 DEF ResultOf, Filled
    <2> QED
      BY <1>9, <2>2, <2>3
  <1> QED
    BY <1>11, <1>12, <1>13, <1>14, <1>15, <1>16, <1>17, <1>18 DEF ReadStep

------------------------------------------------------------------------------
\* The steps of btt_write() and map_entry_setf() before the map is stored, except those that write the block.
LEMMA WaitSim ==
    ASSUME LaneInv, NEW l \in Lane,
           \/ WriteStart(l) \/ WriteScan(l) \/ MapLock(l) \/ FlogWrite1(l) \/ FlogWrite2(l)
           \/ SetfStart(l) \/ SetfEntry(l)
    PROVE  Abstract(l)
  <1>1. LaneStep(l) /\ pc \in [Lane -> Pcs]
    BY Zenon DEF LaneStep, WriteStep, SetfStep, LaneInv, TypeOK
  <1>2. /\ pc[l] \in {"enter", "wr_scan", "lock", "flog1", "flog2", "setf"} /\ pc'[l] \in Waiting
        /\ UNCHANGED <<op, lba, buf>>
    BY <1>1 DEF WriteStart, WriteScan, MapLock, FlogWrite1, FlogWrite2, SetfStart, SetfEntry,
       At, Goto, Waiting, locals
  <1>3. pc[l] \in Waiting
    BY <1>2 DEF Waiting
  <1>5. OnlyCall(l) /\ DevKept
    BY Zenon, <1>1, <1>2, Unseen DEF MapStore, MapDrain, WriteHalf1, WriteHalf2, At
  <1>6. StageOf(l) = "called" /\ StageOf(l)' = "called"
    BY <1>2, <1>3 DEF StageOf, Waiting
  <1>7. GoesOn(l)
    BY <1>2, <1>3 DEF GoesOn, Waiting
  <1> QED
    BY <1>5, <1>6, <1>7, NotYet

\* A refused call, or one whose namespace write fails, changes nothing and answers EIO.
LEMMA FailSim ==
    ASSUME LaneInv, AnswerOK, NEW l \in Lane, Refuse(l) \/ DataFail(l) \/ FlogFail(l) \/ MapFail(l)
    PROVE  Abstract(l)
  <1>1. LaneStep(l) /\ ControlOK /\ pc \in [Lane -> Pcs] /\ res \in [Lane -> {"none", "ok", "zeros", "EIO"}]
    BY Zenon DEF LaneStep, WriteStep, FailStep, LaneInv, TypeOK
  <1>2. /\ pc[l] \in {"enter", "wr_half1", "flog1", "flog2", "map_store"} /\ op[l] # "read"
        /\ pc'[l] = "set_err" \/ (pc'[l] = "ret" /\ res'[l] = "EIO")
    BY Zenon, <1>1 DEF ControlOK, Refuse, DataFail, FlogFail, MapFail, At, Goto, Finish
  <1>3. UNCHANGED <<op, lba, buf, map, data>>
    BY DEF Refuse, DataFail, FlogFail, MapFail, media
  <1>4. MaxFail > 0
    <2>1. fails \in Nat /\ fails <= MaxFail /\ MaxFail \in Nat
      BY BoundAssumption DEF LaneInv, TypeOK
    <2>2. fails > 0 \/ fails < MaxFail
      BY Zenon DEF AnswerOK, Refuse, DataFail, FlogFail, MapFail
    <2> QED
      BY <2>1, <2>2
  <1>5. ~MapStore(l) /\ ~MapDrain(l) /\ ~WriteHalf1(l) /\ ~WriteHalf2(l)
    BY <1>1, <1>2 DEF MapStore, MapDrain, WriteHalf1, WriteHalf2, At, Goto
  <1>6. OnlyCall(l) /\ DevKept
    BY Zenon, <1>1, <1>2, <1>5, Unseen
  <1>7. StageOf(l) = "called" /\ StageOf(l)' = "done"
    BY <1>2 DEF StageOf
  <1>8. ResultOf(l)' = Device!Error
    BY Zenon, <1>2, <1>7 DEF ResultOf, Plain, Device!Error
  <1>9. GoesOn(l)
    BY Zenon, <1>2, <1>3 DEF GoesOn
  <1> QED
    BY Zenon, <1>2, <1>4, <1>6, <1>7, <1>8, <1>9, IsFail

\* set_arena_error()
LEMMA ErrorSim ==
    ASSUME LaneInv, NEW l \in Lane, ErrorStep(l)
    PROVE  Abstract(l)
  <1>1. pc \in [Lane -> Pcs] /\ res \in [Lane -> {"none", "ok", "zeros", "EIO"}]
    BY DEF LaneInv, TypeOK
  <1>2. pc[l] = "set_err" /\ (pc'[l] = "set_err" \/ (pc'[l] = "ret" /\ res'[l] = "EIO"))
    BY Zenon, <1>1, ErrorFrame
  <1>3. UNCHANGED <<op, lba, buf>>
    BY Zenon, ErrorFrame
  <1>5. OnlyCall(l) /\ DevKept
    BY Zenon, <1>2, Unseen DEF LaneStep, MapStore, MapDrain, WriteHalf1, WriteHalf2, At
  <1>6. StageOf(l) = "done" /\ StageOf(l)' = "done"
    BY <1>2 DEF StageOf
  <1>7. ResultOf(l)' = ResultOf(l)
    BY Zenon, <1>2, <1>6 DEF ResultOf, Plain
  <1>8. GoesOn(l)
    BY Zenon, <1>2, <1>3 DEF GoesOn
  <1> QED
    BY <1>5, <1>6, <1>7, <1>8, NotYet

\* btt_set_zero() of a block that reads as zeros
LEMMA SetfNothingSim ==
    ASSUME LaneInv, AnswerOK, NEW l \in Lane, SetfNothing(l)
    PROVE  Abstract(l)
  <1>1. TypeOK
    BY DEF LaneInv
  <1>2. pc[l] = "setf" /\ op[l] = "zero" /\ ReadsAsZero(old[l]) /\ pc'[l] = "ret" /\ res'[l] = "ok"
    BY <1>1 DEF SetfNothing, TypeOK, At, Goto, Finish
  <1>3. UNCHANGED <<op, lba, buf>>
    BY Zenon DEF SetfNothing
  <1>4. rec = NFree
    BY Zenon, <1>2, Inside
  <1>5. OnlyCall(l) /\ DevKept
    BY Zenon, <1>2, Unseen DEF LaneStep, SetfStep, MapStore, MapDrain, WriteHalf1, WriteHalf2, At
  <1>6. lba[l] \in Lba /\ DevOf(lba[l]) = Contents(map[lba[l]])
    BY <1>1, <1>4, DevWhenUp DEF TypeOK
  <1>7. ReadsAsZero(map[lba[l]])
    <2>1. old[l] = Resolve(map[lba[l]], lba[l])
      BY <1>2 DEF LaneInv, OldOK
    <2> QED
      BY <1>2, <2>1 DEF Resolve, ReadsAsZero, Normal
  <1>8. DevOf(lba[l]) = Device!Zeros
    BY <1>6, <1>7 DEF Contents, ReadsAsZero, Plain, Device!Zeros
  <1>9. StageOf(l) = "called" /\ StageOf(l)' = "done"
    BY <1>2 DEF StageOf
  <1>10. ResultOf(l)' = Plain("ok")
    BY Zenon, <1>2, <1>3, <1>9 DEF ResultOf, Plain
  <1>11. GoesOn(l)
    BY <1>2, <1>3 DEF GoesOn
  <1> QED
    BY Zenon, <1>2, <1>5, <1>6, <1>8, <1>9, <1>10, <1>11, IsAlreadyZero

------------------------------------------------------------------------------
\* The nswrite of the block: nobody sees it, because the block is nobody's.
LEMMA FillSim ==
    ASSUME LaneInv, Apart, NEW l \in Lane, WriteHalf1(l) \/ WriteHalf2(l)
    PROVE  Abstract(l)
  <1>1. TypeOK /\ ControlOK /\ Keeps(l)
    BY LaneFrame DEF LaneInv, LaneStep, WriteStep
  <1>2. /\ pc[l] \in {"wr_half1", "wr_half2"} /\ pc'[l] \in Waiting
        /\ \A b \in Block : b # ent[l].blk => data'[b] = data[b]
    BY Zenon, <1>1 DEF WriteHalf1, WriteHalf2, At, Goto, TypeOK, Waiting
  <1>3. UNCHANGED <<map, pmap, rec, op, lba, buf, ent, res>>
    BY DEF WriteHalf1, WriteHalf2, runtime, locals
  <1>4. rec = NFree /\ rec' = NFree
    BY <1>2, <1>3, Inside
  <1>5. ASSUME NEW e \in Entry, e.st # "normal" \/ e.blk # ent[l].blk PROVE Contents(e)' = Contents(e)
    <2>1. CASE e.st = "normal"
      <3>1. data'[e.blk] = data[e.blk]
        BY <1>2, <1>5, <2>1 DEF Entry
      <3> QED
        BY <2>1, <3>1 DEF Contents, ReadsAsZero
    <2>2. CASE e.st # "normal"
      BY <2>2 DEF Contents, ReadsAsZero, Entry
    <2> QED
      BY <2>1, <2>2
  <1>6. ASSUME NEW x \in Lba PROVE DevOf(x)' = DevOf(x)
    <2>1. Resolve(map[x], x).blk # ent[l].blk /\ map[x] \in Entry
      BY Zenon, <1>1, <1>2 DEF Apart, TypeOK
    <2>2. map[x].st # "normal" \/ map[x].blk # ent[l].blk
      BY <2>1 DEF Resolve
    <2>3. Contents(map[x])' = Contents(map[x])
      BY Zenon, <1>3, <1>5, <2>1, <2>2
    <2>4. DevOf(x) = Contents(map[x]) /\ DevOf(x)' = Contents(map[x])'
      BY <1>4, SizeAssumption DEF DevOf
    <2> QED
      BY <2>3, <2>4
  <1>7. ASSUME NEW k \in Lane, k # l PROVE CallOf(k)' = CallOf(k)
    <2>1. ent[k] \in Entry /\ pmap[lba[k]] \in Entry /\ lba[k] \in Lba
      BY <1>1 DEF TypeOK
    <2>2. Contents(ent[k])' = Contents(ent[k]) \/ ~(Reading(k) \/ (pc[k] = "rd_check" /\ ent[k].st # "normal"))
      <3>1. CASE Reading(k)
        BY Zenon, <1>2, <1>3, <1>5, <2>1, <3>1 DEF Apart
      <3>2. CASE ent[k].st # "normal"
        BY Zenon, <1>3, <1>5, <2>1, <3>2
      <3> QED
        BY <3>1, <3>2
    <2>3. Contents(pmap[lba[k]])' = Contents(pmap[lba[k]]) \/ pc[k] # "map_drain" \/ op[k] = "write"
      <3> SUFFICES ASSUME pc[k] = "map_drain", op[k] # "write"
                   PROVE  Contents(pmap[lba[k]])' = Contents(pmap[lba[k]])
        OBVIOUS
      <3>1. map[lba[k]] = ent[k] /\ ent[k].st = op[k] /\ Resolve(pmap[lba[k]], lba[k]).blk = ent[k].blk
        BY DEF LaneInv, DrainOK, DrainingOK
      <3>2. op[k] \in {"zero", "error"}
        BY Zenon, <1>1 DEF ControlOK
      <3>3. Resolve(map[lba[k]], lba[k]).blk # ent[l].blk
        BY Zenon, <1>2, <2>1 DEF Apart
      <3>5. ent[k].blk # ent[l].blk
        BY Zenon, <3>1, <3>2, <3>3 DEF Resolve
      <3>4. pmap[lba[k]].st # "normal" \/ pmap[lba[k]].blk # ent[l].blk
        BY <3>1, <3>5 DEF Resolve
      <3> QED
        BY <1>3, <1>5, <2>1, <3>4
    <2> QED
      BY Zenon, <1>1, <1>7, <2>2, <2>3, CallSame DEF Keeps
  <1>8. StageOf(l) = "called" /\ StageOf(l)' = "called"
    BY <1>2 DEF StageOf, Waiting
  <1>9. GoesOn(l)
    BY <1>2, <1>3 DEF GoesOn, Waiting
  <1> QED
    BY <1>6, <1>7, <1>8, <1>9, NotYet DEF OnlyCall, DevKept
==============================================================================
