--------------------------- MODULE BTTRefinement ---------------------------
(***************************************************************************)
(* A BTT arena implements a block device: the refinement mapping.          *)
(***************************************************************************)
EXTENDS BTT

Plain(k) == [kind |-> k, d |-> NoBuf]
Filled(d) == [kind |-> "data", d |-> d]

Contents(e) ==
    CASE ReadsAsZero(e)   -> Plain("zeros")
      [] e.st = "error"   -> Plain("error")
      [] e.st = "normal"  -> Filled(data[e.blk])

\* What x holds: its map entry, or the one the restart is about to put there.
DevOf(x) ==
    IF \E i \in rec .. NFree - 1 : Current(i).lba = x /\ Incomplete(Current(i), map)
    THEN Contents(Current(CHOOSE i \in rec .. NFree - 1 :
                            Current(i).lba = x /\ Incomplete(Current(i), map)).new)
    ELSE Contents(map[x])

\* How far lane l's call has come.
StageOf(l) ==
    CASE pc[l] = "idle" -> "idle"
      [] pc[l] = "map_drain" -> IF op[l] = "write" THEN "done" ELSE "marked"
      [] pc[l] = "rd_check" -> IF ent[l].st = "normal" THEN "called" ELSE "done"
      [] pc[l] \in {"rd_half1", "rd_half2", "rd_clear", "set_err", "ret"} -> "done"
      [] OTHER -> "called"

ResultOf(l) ==
    IF StageOf(l) # "done" THEN Plain("ok")
    ELSE IF pc[l] = "set_err" \/ res[l] = "EIO" THEN Plain("error")
    ELSE IF res[l] = "zeros" THEN Plain("zeros")
    ELSE IF op[l] # "read" THEN Plain("ok")
    ELSE IF pc[l] \in {"rd_check", "rd_half1", "rd_half2"} THEN Contents(ent[l])
    ELSE Filled(buf[l])

ArgumentOf(l) ==
    CASE op[l] = "write" -> Filled(buf[l])
      [] op[l] = "error" -> Plain("error")
      [] OTHER -> Plain("zeros")

\* What a crash may bring back: the mark of set_zero or set_error is not on the media yet.
UndoOf(l) == IF StageOf(l) = "marked" THEN Contents(pmap[lba[l]]) ELSE Plain("zeros")

CallOf(l) ==
    [st |-> StageOf(l), op |-> op[l], lba |-> IF pc[l] = "idle" THEN -1 ELSE lba[l],
     arg |-> ArgumentOf(l), res |-> ResultOf(l), undo |-> UndoOf(l)]

Device == INSTANCE BlockDevice WITH
    Client <- Lane, Buffer <- [{1, 2} -> Data], Blank <- NoBuf, MayFail <- MaxFail > 0,
    dev <- [x \in Lba |-> DevOf(x)], call <- [l \in Lane |-> CallOf(l)]

(***************************************************************************)
(* btt_read, btt_write, btt_set_zero and btt_set_error take effect         *)
(* atomically between call and return; no read returns a mix of two        *)
(* writes; after a crash and a restart (itself interrupted any number of   *)
(* times) each block holds its last value, or the whole new value of a     *)
(* write that was under way.                                               *)
(***************************************************************************)
ImplementsBlockDevice == Device!Spec
=============================================================================
