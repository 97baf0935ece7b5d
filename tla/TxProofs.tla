------------------------------ MODULE TxProofs ------------------------------
(***************************************************************************)
(* Transactions happen entirely or not at all, for every pool, every size  *)
(* of the caches and every number of power losses: the inductive invariant *)
(* of a lane, and why a rollback restores the pool wherever the power was  *)
(* lost.                                                                   *)
(***************************************************************************)
EXTENDS TxLogProofs

\* In a transaction, the ranges are what has a snapshot, what is about to get one, and the new objects.
ExactOK ==
    Open => /\ Covered = Saved \cup Acted("alloc") \cup Words(snap)
            /\ Words(snap) \cap Saved = {}
            /\ Words(snap) \cup Saved \subseteq Root \cup heap
            /\ Acted("alloc") \subseteq Obj \ heap

\* The words with a snapshot, after a step.
LEMMA SavedIs ==
    /\ UndoSame => Saved' = Saved
    /\ UndoKept => Saved' \subseteq Saved
    /\ \A q, e : Undo' = Undo \cup {q} /\ At(q)' = e /\ (\A p \in Undo : At(p)' = At(p)) => Saved' = Saved \cup Words(e)
  <1>1. ASSUME UndoSame PROVE Saved' = Saved
    <2>1. Saved' = UNION {Words(At(p)') : p \in Undo'}
      BY DEF Saved, Words
    <2> QED
      BY <1>1, <2>1 DEF Saved, UndoSame
  <1>2. ASSUME UndoKept, NEW w \in Saved' PROVE w \in Saved
    <2>1. PICK p \in Undo' : w \in Words(At(p)')
      BY <1>2 DEF Saved, Words
    <2>2. p \in Undo /\ Words(At(p)') = Words(At(p))
      BY <1>2 DEF UndoKept, Alike, Words
    <2> QED
      BY <2>1, <2>2 DEF Saved
  <1>3. ASSUME NEW q, NEW e, Undo' = Undo \cup {q}, At(q)' = e, \A p \in Undo : At(p)' = At(p)
        PROVE  Saved' = Saved \cup Words(e)
    <2>1. \A w : w \in Saved <=> \E p \in Undo : w \in Words(At(p))
      BY DEF Saved
    <2>2. \A w : w \in Saved' <=> \E p \in Undo' : w \in Words(At(p)')
      BY DEF Saved, Words
    <2>3. ASSUME NEW w PROVE w \in Saved' <=> w \in Saved \/ w \in Words(e)
      BY <1>3, <2>1, <2>2
    <2> QED
      BY Zenon, <2>3
  <1> QED
    BY <1>1, <1>2, <1>3

\* A new object and a freed one among the ranges.
LEMMA ObjRange ==
    ASSUME RangeOK, PoolOK, NEW o \in Obj
    PROVE  /\ o \notin Covered => \A x \in ranges : x.off + x.size <= o \/ o + 1 <= x.off
           /\ \A x \in ranges : o \in Words(x) => x.off = o /\ x.size = 1
           /\ \A x \in ranges : x.off = o => Words(x) = {o}
  <1>1. ASSUME NEW x \in ranges
        PROVE  x.off \in Nat /\ x.size \in Nat /\ x.size > 0 /\ Words(x) \subseteq Word /\ Words(x) \subseteq Covered
    BY DEF RangeOK, TxRange, Covered
  <1>2. o \in Nat /\ o - 1 \notin Word /\ o + 1 \notin Word
    <2>1. o \in Nat /\ {o - 1, o, o + 1} \cap (Root \cup Obj) = {o}
      BY WordAssumption
    <2>2. o - 1 # o /\ o + 1 # o
      BY <2>1
    <2> QED
      BY <2>1, <2>2 DEF Word
  <1>3. ASSUME o \notin Covered, NEW x \in ranges PROVE x.off + x.size <= o \/ o + 1 <= x.off
    BY <1>1, <1>2, <1>3 DEF Words
  <1>4. ASSUME NEW x \in ranges, o \in Words(x) PROVE x.off = o /\ x.size = 1
    <2>1. x.off <= o /\ o <= x.off + x.size - 1
      BY <1>1, <1>2, <1>4 DEF Words
    <2>2. ~ (x.off < o)
      BY <1>1, <1>2, <2>1 DEF Words
    <2>3. ~ (o < x.off + x.size - 1)
      BY <1>1, <1>2, <2>1 DEF Words
    <2> QED
      BY <1>1, <1>2, <2>1, <2>2, <2>3
  <1>5. ASSUME NEW x \in ranges, x.off = o PROVE Words(x) = {o}
    <2>1. o \in Words(x)
      BY <1>1, <1>2, <1>5 DEF Words
    <2> QED
      BY <1>2, <1>4, <2>1 DEF Words
  <1> QED
    BY <1>3, <1>4, <1>5

\* The empty range covers no word.
LEMMA NoneIs == None \in Span /\ None.size = 0 /\ Words(None) = {}
  BY DEF None, Span, Words

\* The invariant of the control, the pool and the log of a lane, for all these lemmas.
BaseOK ==
    /\ ControlOK /\ stage \in Stages /\ depth \in 0 .. MaxDepth /\ pc \in Places
    /\ PoolOK /\ ActOK /\ LogOK /\ DropOK /\ CursorOK

\* What is about to get a snapshot are words of the pool.
LEMMA SnapWords ==
    ASSUME BaseOK, RangeOK, LoopOK, ExactOK
    PROVE  Words(snap) \subseteq Word /\ (pc = "snap" => snap.off \in Nat) /\ (pc \in {"snap", "header"} => Open)
  <1>1. CASE pc \in {"snap", "header"}
    <2>1. Open
      BY Zenon, <1>1 DEF BaseOK, ControlOK, Open
    <2> QED
      BY <1>1, <2>1 DEF BaseOK, PoolOK, LoopOK, ExactOK, Word
  <1>2. CASE pc \notin {"snap", "header"}
    BY <1>2 DEF RangeOK, Span, Words
  <1> QED
    BY <1>1, <1>2

\* The ranges stay apart: a turn of the loop, a new object, a freed one.
LEMMA RangeNext == ASSUME BaseOK, RangeOK, LoopOK, ExactOK, Next PROVE RangeOK'
  <1>1. CASE UNCHANGED <<ranges, r, nprev, snap>> /\ (pc' \in {"snap", "header"} \/ snap.size = 0)
    BY <1>1 DEF RangeOK, Apart, Covered
  <1>2. CASE /\ ranges' \subseteq ranges /\ pc' \notin {"snap", "header"} /\ r' \in Span /\ nprev' \in Span
             /\ snap' \in Span /\ snap'.size = 0
    BY <1>2 DEF RangeOK, Apart, Covered
  <1>3. CASE AddNew \/ AddInside \/ AddBeyond
    <2>1. heap \subseteq Obj /\ Words(r) \subseteq Root \cup heap
      BY <1>3 DEF AddNew, AddInside, AddBeyond, InAdd, LoopOK, BaseOK, PoolOK
    <2>2. Covered' \subseteq Word
      BY <1>3, <2>1, Turn DEF RangeOK, Word
    <2> QED
      BY Zenon, <1>3, <2>2, Turn DEF RangeOK
  <1>4. CASE Alloc
    <2>1. PICK o \in Obj \ (heap \cup Acted("alloc")) : ranges' = ranges \cup {[off |-> o, size |-> 1]}
      BY <1>4 DEF Alloc
    <2>2. Open /\ snap.size = 0 /\ pc' = "user" /\ UNCHANGED <<r, nprev, snap>> /\ o \in Nat /\ o \notin Root
      BY <1>4, WordAssumption DEF Alloc, InWork, InUser, Open, BaseOK, ControlOK, RangeOK, locals
    <2>3. o \notin Covered
      BY <2>1, <2>2 DEF ExactOK, Words, RangeOK, Span
    <2>4. PICK n : n = [off |-> o, size |-> 1]
      BY Zenon
    <2>5. n \in TxRange /\ n.size > 0 /\ n.off = o /\ n.size = 1 /\ Words(n) = {o} /\ ranges' = ranges \cup {n}
      BY <2>1, <2>2, <2>4 DEF TxRange, Words
    <2>6. \A x \in ranges : x.off + x.size <= n.off \/ n.off + n.size <= x.off
      BY <2>3, <2>5, ObjRange DEF BaseOK
    <2>7. Apart'
      BY <2>5, <2>6 DEF Apart, RangeOK
    <2>8. Covered' = Covered \cup {o}
      BY <2>5 DEF Covered
    <2> QED
      BY <2>2, <2>5, <2>7, <2>8 DEF RangeOK, Word
  <1>5. CASE Free
    <2>1. ranges' \subseteq ranges /\ UNCHANGED <<pc, r, nprev, snap>> /\ pc = "user"
      BY <1>5 DEF Free, InWork, InUser, locals
    <2> QED
      BY <1>2, <2>1 DEF RangeOK
  <1>6. CASE SnapLarge
    BY <1>2, <1>6, NoneIs DEF SnapLarge, InSnap, RangeOK
  <1>7. CASE SnapSmall
    <2>1. pc = "snap" /\ pc' = "header" /\ UNCHANGED <<ranges, r, nprev>>
      BY <1>7 DEF SnapSmall, InSnap
    <2>2. snap' \in Span
      BY Zenon, <1>7, <2>1, SnapWords, SnapTaken DEF BaseOK, LogOK, RangeOK
    <2> QED
      BY <2>1, <2>2 DEF RangeOK, Apart, Covered
  <1>8. CASE SnapHeader
    <2>1. UNCHANGED <<ranges, r, nprev, snap>> /\ (pc' \in {"snap", "header"} \/ snap.size = 0)
      BY <1>8 DEF SnapHeader, lane, locals
    <2> QED
      BY <1>1, <2>1
  <1>9. CASE NewCache
    BY <1>1, <1>9 DEF NewCache, InSnap
  <1>10. CASE Abort \/ OutOfMemory \/ Crash \/ AddDone
    <2>1. /\ ranges' = {} \/ ranges' = ranges
          /\ pc' \notin {"snap", "header"} /\ r' = None /\ nprev' = None /\ snap' = None
      BY Zenon, <1>10 DEF Abort, OutOfMemory, Crash, AddDone, AbortTx
    <2> QED
      BY <1>2, <2>1, NoneIs
  <1>11. CASE End
    <2>1. CASE AbortTx(depth - 1)
      <3>1. (ranges' = {} \/ ranges' = ranges) /\ pc' \notin {"snap", "header"} /\ r' = None /\ nprev' = None /\ snap' = None
        BY Zenon, <2>1 DEF AbortTx
      <3> QED
        BY <1>2, <3>1, NoneIs
    <2>2. CASE ~ AbortTx(depth - 1)
      <3>1. UNCHANGED <<ranges, r, nprev, snap, pc>> /\ pc = "user"
        BY Zenon, <1>11, <2>2 DEF End, InUser, locals
      <3> QED
        BY <1>1, <3>1 DEF RangeOK
    <2> QED
      BY <2>1, <2>2
  <1>12. CASE AddRange
    <2>1. PICK x \in [off : Root \cup heap, size : 1 .. Cardinality(Root)] : r' = x
      BY <1>12 DEF AddRange
    <2>2. x \in Span
      <3>1. Cardinality(Root) \in Nat
        BY WordAssumption, FS_CardinalityType
      <3>2. Root \cup heap \subseteq Nat
        BY WordAssumption DEF BaseOK, PoolOK
      <3> QED
        BY <2>1, <3>1, <3>2 DEF Span
    <2>3. UNCHANGED <<ranges, snap>> /\ pc = "user" /\ pc' = "add" /\ nprev' = None
      BY <1>12 DEF AddRange, InWork, InUser
    <2>4. snap.size = 0 /\ snap \in Span
      BY <2>3 DEF RangeOK
    <2> QED
      BY Zenon, <1>2, <2>1, <2>2, <2>3, <2>4, NoneIs
  <1>13. CASE Begin \/ Store \/ CommitInner \/ PreCommit \/ Publish \/ PostCommit \/ RestoreRange \/ RestoreNext
                \/ PopCache \/ PopDone \/ Zeroed \/ PopLarge \/ Process
    <2>1. /\ UNCHANGED <<r, nprev, snap>> /\ (ranges' = {} \/ ranges' = ranges)
          /\ pc \notin {"snap", "header"} /\ pc' \notin {"snap", "header"}
      BY Zenon, <1>13 DEF Begin, Store, CommitInner, PreCommit, Publish, PostCommit, CommitDone, RestoreRange, RestoreNext,
         PopCache, PopDone, Zeroed, PopLarge, Process, InUser, InWork, InUndo, Restored, locals, lane
    <2> QED
      BY <1>2, <2>1 DEF RangeOK
  <1> QED
    BY Zenon, <1>3, <1>4, <1>5, <1>6, <1>7, <1>8, <1>9, <1>10, <1>11, <1>12, <1>13 DEF Next

\* Between two turns of the loop its variables fit together.
LEMMA LoopNext == ASSUME BaseOK, RangeOK, LoopOK, ExactOK, Next PROVE LoopOK'
  <1> SUFFICES ASSUME pc' \in {"add", "snap", "header"} PROVE LoopOK'
    BY DEF LoopOK
  <1>1. CASE AddRange
    <2>1. PICK x \in [off : Root \cup heap, size : 1 .. Cardinality(Root)] :
             Words(x) \subseteq Root \cup (heap \ Acted("free")) /\ r' = x
      BY <1>1 DEF AddRange
    <2>2. pc' = "add" /\ nprev' = None /\ pred' = "le" /\ UNCHANGED heap /\ x.off \in Nat
      BY Zenon, <1>1, <2>1, WordAssumption DEF AddRange, BaseOK, PoolOK
    <2>3. Words(r)' \subseteq (Root \cup heap)'
      BY <2>1, <2>2 DEF Words
    <2> QED
      BY Zenon, <2>1, <2>2, <2>3 DEF LoopOK
  <1>2. CASE AddNew \/ AddInside \/ AddBeyond
    <2>1. UNCHANGED heap /\ pred' = "lt" /\ pc = "add"
      BY Zenon, <1>2 DEF AddNew, AddInside, AddBeyond, InAdd, persistent
    <2>2. Words(r) \subseteq Root \cup heap
      BY <2>1 DEF LoopOK
    <2>3. Words(r)' \subseteq (Root \cup heap)'
      BY Zenon, <1>2, <2>1, <2>2, Turn
    <2> QED
      BY <1>2, <2>1, <2>3, Turn DEF LoopOK
  <1>3. CASE SnapLarge \/ SnapSmall \/ NewCache
    <2>1. UNCHANGED <<heap, ranges, r, nprev, pred>> /\ pc = "snap" /\ (pc' = "snap" => NewCache) /\ (pc' = "header" => SnapSmall)
      BY Zenon, <1>3 DEF SnapLarge, SnapSmall, NewCache, InSnap
    <2>2. NewCache => UNCHANGED snap
      BY DEF NewCache
    <2>3. SnapSmall => snap'.off \in Nat
      BY Zenon, <2>1, SnapWords, SnapTaken DEF BaseOK, LogOK, RangeOK
    <2> QED
      BY <2>1, <2>2, <2>3 DEF LoopOK, Words
  <1>4. CASE SnapHeader
    BY <1>4 DEF SnapHeader, lane, locals, LoopOK, Words, RangeOK, Span
  <1> QED
    <2>1. AddRange \/ AddNew \/ AddInside \/ AddBeyond \/ SnapLarge \/ SnapSmall \/ NewCache \/ SnapHeader
      BY Zenon DEF Next, Begin, Store, Alloc, Free, AddDone,
         Abort, OutOfMemory, CommitInner, PreCommit, Publish, PostCommit, CommitDone,
         RestoreRange, RestoreNext, PopCache, PopDone, Zeroed, PopLarge, Process, End, Crash, InUser, InWork,
         AbortTx, Restored
    <2> QED
      BY Zenon, <1>1, <1>2, <1>3, <1>4, <2>1

\* The log holds a snapshot of every word the transaction has added.
LEMMA ExactNext == ASSUME BaseOK, RangeOK, LoopOK, ExactOK, Next PROVE ExactOK'
  <1> SUFFICES ASSUME Open' PROVE ExactOK'
    BY DEF ExactOK
  <1>0. depth \in Nat /\ nc \in Nat /\ LenOK /\ TornOK /\ heap \subseteq Obj /\ ControlOK
    BY BoundAssumption DEF BaseOK, LogOK, LenOK, PoolOK
  <1>1. CASE Begin /\ depth = 0
    <2>1. Quiet /\ ranges' = {} /\ actions' = {} /\ UNCHANGED <<large, vec, nc, snap>> /\ snap.size = 0
      BY <1>1 DEF Begin, InUser, Quiet, RangeOK, locals
    <2>2. large = <<>> /\ Empty
      BY <2>1 DEF BaseOK, LogOK, ClearOK
    <2>3. \A k \in 0 .. Last : Snapshots(k) = <<>>
      BY <1>0, <2>2 DEF Last, Snapshots, Empty, LenOK, UndoTypes
    <2>4. Undo = {}
      BY <2>3 DEF Undo
    <2>5. Saved' = {} /\ Words(snap)' = {}
      BY <2>1, <2>4, Untouched DEF Saved, UndoSame, Words, RangeOK, Span
    <2> QED
      BY <2>1, <2>5 DEF ExactOK, Covered, Acted
  <1> SUFFICES ASSUME Open PROVE ExactOK'
    BY <1>0, <1>1, OpenSteps
  <1>2. /\ Covered = Saved \cup Acted("alloc") \cup Words(snap)
        /\ Words(snap) \cap Saved = {}
        /\ Words(snap) \cup Saved \subseteq Root \cup heap
        /\ Acted("alloc") \subseteq Obj \ heap
    BY DEF ExactOK
  <1>3. CASE UNCHANGED <<heap, ranges>> /\ Acted("alloc")' = Acted("alloc") /\ Saved' = Saved /\ Words(snap)' = Words(snap)
    BY <1>2, <1>3 DEF ExactOK, Covered
  <1>4. CASE UNCHANGED <<heap, large, vec, nc, ranges, actions, snap>>
    <2>1. Saved' = Saved /\ Acted("alloc")' = Acted("alloc") /\ Words(snap)' = Words(snap)
      BY <1>4, Untouched, SavedIs DEF Acted, Words
    <2> QED
      BY Zenon, <1>3, <1>4, <2>1
  <1>5. CASE AddDone
    <2>1. UNCHANGED <<heap, large, vec, nc, ranges, actions>> /\ snap' = None /\ snap.size = 0 /\ pc = "add"
      BY <1>5 DEF AddDone, InAdd, persistent, RangeOK
    <2>2. Saved' = Saved /\ Acted("alloc")' = Acted("alloc") /\ Words(snap)' = Words(snap)
      BY <2>1, Untouched, SavedIs, NoneIs DEF Acted, Words, RangeOK, Span
    <2> QED
      BY Zenon, <1>3, <2>1, <2>2
  <1>6. CASE SnapHeader
    <2>1. UNCHANGED <<heap, large, vec, nc, ranges, actions, snap>>
      BY Zenon, <1>0, <1>6, HeaderStored DEF SnapHeader, lane, locals, TornOK
    <2> QED
      BY Zenon, <1>4, <2>1
  <1>7. CASE PreCommit
    BY <1>7 DEF PreCommit, Open
  <1>8. CASE Alloc
    <2>1. PICK o \in Obj \ (heap \cup Acted("alloc")) :
             actions' = actions \cup {Action("alloc", o)} /\ ranges' = ranges \cup {[off |-> o, size |-> 1]}
      BY <1>8 DEF Alloc
    <2>2. UNCHANGED <<heap, large, vec, nc, snap>>
      BY <1>8 DEF Alloc, InWork, InUser, locals
    <2>3. Saved' = Saved /\ Words(snap)' = Words(snap) /\ Acted("alloc")' = Acted("alloc") \cup {o}
      BY Zenon, <2>1, <2>2, Untouched, SavedIs, ActedAdd DEF Words
    <2>4. Covered' = Covered \cup {o}
      <3>1. o \in Nat /\ Words([off |-> o, size |-> 1]) = {o}
        BY WordAssumption DEF Words
      <3> QED
        BY <2>1, <3>1 DEF Covered
    <2> QED
      BY <1>2, <2>1, <2>2, <2>3, <2>4 DEF ExactOK
  <1>9. CASE Free
    <2>1. UNCHANGED <<heap, large, vec, nc, snap>>
      BY <1>9 DEF Free, InWork, InUser, locals
    <2>2. Saved' = Saved /\ Words(snap)' = Words(snap)
      BY <2>1, Untouched, SavedIs DEF Words
    <2>3. ASSUME NEW o \in Acted("alloc"), ranges' = {x \in ranges : x.off # o}, actions' = actions \ {Action("alloc", o)}
          PROVE  ExactOK'
      <3>1. Acted("alloc")' = Acted("alloc") \ {o}
        BY <2>3, ActedDel DEF BaseOK
      <3>2. o \in Obj /\ o \notin heap /\ o \notin Root
        BY Zenon, <1>2, WordAssumption
      <3>3. Covered' = Covered \ {o}
        <4>1. \A x \in ranges : x.off = o => Words(x) = {o}
          BY <3>2, ObjRange DEF BaseOK
        <4>2. \A x \in ranges : o \in Words(x) => x.off = o
          BY <3>2, ObjRange DEF BaseOK
        <4>3. \A w : w \in Covered <=> \E x \in ranges : w \in Words(x)
          BY DEF Covered
        <4>4. \A w : w \in Covered' <=> \E x \in ranges' : w \in Words(x)
          BY DEF Covered
        <4>5. ASSUME NEW w PROVE w \in Covered' <=> w \in Covered /\ w # o
          BY Zenon, <2>3, <4>1, <4>2, <4>3, <4>4
        <4> QED
          BY <4>5
      <3> QED
        BY Zenon, <1>2, <2>1, <2>2, <3>1, <3>2, <3>3 DEF ExactOK
    <2>4. ASSUME NEW o, actions' = actions \cup {Action("free", o)}, UNCHANGED ranges
          PROVE  ExactOK'
      <3>1. Acted("alloc")' = Acted("alloc")
        BY <2>4, ActedAdd
      <3> QED
        BY Zenon, <1>3, <2>1, <2>2, <2>4, <3>1
    <2> QED
      BY Zenon, <1>9, <2>3, <2>4 DEF Free
  <1>10. CASE AddNew \/ AddInside \/ AddBeyond
    <2>1. UNCHANGED <<heap, large, vec, nc, actions>> /\ pc = "add"
      BY Zenon, <1>10 DEF AddNew, AddInside, AddBeyond, InAdd, persistent
    <2>2. Saved' = Saved /\ Acted("alloc")' = Acted("alloc")
      BY Zenon, <2>1, Untouched, SavedIs DEF Acted
    <2>3. Words(snap) = {} /\ Words(r) \subseteq Root \cup heap
      BY <2>1 DEF RangeOK, Words, Span, LoopOK
    <2>4. Covered' = Covered \cup Words(snap)' /\ Words(snap)' \cap Covered = {} /\ Words(snap)' \subseteq Words(r)
      BY Zenon, <1>10, Turn
    <2> QED
      BY Zenon, <1>2, <2>1, <2>2, <2>3, <2>4 DEF ExactOK
  <1>11. CASE SnapLarge \/ SnapSmall
    <2>1. UNCHANGED <<heap, ranges, actions>> /\ pc = "snap"
      BY Zenon, <1>11 DEF SnapLarge, SnapSmall, InSnap
    <2>2. PICK e \in Snap, q \in Undo' :
             /\ Words(snap) = Words(e) \cup Words(snap)' /\ Words(e) \cap Words(snap)' = {}
             /\ Undo' = Undo \cup {q} /\ At(q)' = e /\ \A p \in Undo : At(p)' = At(p)
      BY Zenon, <1>0, <1>11, <2>1, SnapTaken, SnapWords DEF BaseOK, RangeOK
    <2>3. Saved' = Saved \cup Words(e) /\ Acted("alloc")' = Acted("alloc") /\ UNCHANGED Covered
      BY <2>1, <2>2, SavedIs DEF Acted, Covered
    <2> QED
      BY <1>2, <2>1, <2>2, <2>3 DEF ExactOK
  <1>12. CASE NewCache
    <2>1. UNCHANGED <<heap, ranges, snap>> /\ pc # "post"
      BY Zenon, <1>12 DEF NewCache, InSnap
    <2>2. actions' = actions \cup {Action("clear", nc + 1)} \/ actions' = actions \cup {Action("drop", nc + 1)}
      BY <1>12 DEF NewCache
    <2>3. Acted("alloc")' = Acted("alloc") /\ Saved' = Saved /\ Words(snap)' = Words(snap)
      <3>1. Acted("alloc")' = Acted("alloc")
        BY <2>2, ActedAdd
      <3>2. Saved' = Saved
        BY Zenon, <1>0, <1>12, <2>1, CacheMade, SavedIs
      <3> QED
        BY <2>1, <3>1, <3>2 DEF Words
    <2> QED
      BY Zenon, <1>3, <2>1, <2>3
  <1> QED
    BY Zenon, <1>0, <1>1, <1>4, <1>5, <1>6, <1>7, <1>8, <1>9, <1>10, <1>11, <1>12, OpenSteps

\* Taking snapshots away, or damaging their data, makes none overlap.
LEMMA OnceKept == ASSUME SnapshotOnce, UndoSame \/ UndoKept PROVE SnapshotOnce'
  <1>1. \A p \in Undo' : p \in Undo /\ Words(At(p))' = Words(At(p))
    BY DEF UndoSame, UndoKept, Alike, Words
  <1> QED
    BY <1>1 DEF SnapshotOnce

\* Which steps keep the log as it is, and which only take snapshots from it.
LEMMA LogSteps ==
    ASSUME BaseOK, LenOK', Next
    PROVE  \/ UndoSame \/ SnapLarge \/ SnapSmall
           \/ UndoKept /\ (Publish \/ Crash \/ PostCommit \/ PopCache \/ Zeroed \/ PopLarge)
  <1>0. LenOK /\ TornOK /\ DropOK /\ nc' \in Nat
    BY Zenon DEF BaseOK, LogOK, LenOK
  <1>1. CASE UNCHANGED <<large, vec, nc>>
    BY Zenon, <1>1, Untouched
  <1>2. CASE NewCache
    BY Zenon, <1>0, <1>2, CacheMade DEF NewCache, InSnap
  <1>3. CASE SnapHeader
    BY Zenon, <1>0, <1>3, HeaderStored, Untouched DEF TornOK
  <1>4. ASSUME TrimOK PROVE UndoKept
    BY Zenon, <1>0, <1>4, Trimmed DEF TrimOK
  <1>5. CASE Publish \/ Crash
    BY Zenon, <1>0, <1>4, <1>5, PublishTrims, CrashTrims
  <1>6. CASE PostCommit \/ PopCache \/ Zeroed \/ PopLarge
    <2>1. pc = "pop" \/ pc = "restore" \/ pc = "zero" \/ pc = "poplarge" \/ pc = "post"
      BY Zenon, <1>6 DEF PostCommit, PopCache, Restored, Zeroed, PopLarge
    <2> QED
      BY Zenon, <1>0, <1>4, <1>6, <2>1, ClearTrims
  <1> QED
    BY Zenon, <1>1, <1>2, <1>3, <1>5, <1>6, UndoFrame

\* No word gets a second snapshot.
LEMMA OnceNext == ASSUME BaseOK, LenOK', RangeOK, LoopOK, ExactOK, SnapshotOnce, Next PROVE SnapshotOnce'
  <1>1. CASE SnapLarge \/ SnapSmall
    <2>1. pc = "snap"
      BY Zenon, <1>1 DEF SnapLarge, SnapSmall, InSnap
    <2>2. PICK e \in Snap, q \in Undo' :
             /\ Words(snap) = Words(e) \cup Words(snap)'
             /\ q \notin Undo /\ Undo' = Undo \cup {q} /\ At(q)' = e /\ \A p \in Undo : At(p)' = At(p)
      BY Zenon, <1>1, <2>1, SnapTaken, SnapWords DEF BaseOK, LogOK, RangeOK
    <2>3. Words(e) \cap Saved = {}
      BY Zenon, <2>1, <2>2, SnapWords DEF ExactOK
    <2>4. Words(At(q))' = Words(e) /\ \A p \in Undo : Words(At(p))' = Words(At(p))
      BY <2>2 DEF Words
    <2>5. \A p \in Undo : Words(e) \cap Words(At(p)) = {}
      BY <2>3 DEF Saved
    <2> QED
      BY <2>2, <2>4, <2>5 DEF SnapshotOnce
  <1> QED
    BY Zenon, <1>1, LogSteps, OnceKept

\* The inductive invariant of a lane.
LaneOK == BaseOK /\ RangeOK /\ LoopOK /\ ExactOK /\ SnapshotOnce

\* A new lane satisfies the invariant.
LEMMA LaneInit == Init => LaneOK
  <1> SUFFICES ASSUME Init PROVE LaneOK
    OBVIOUS
  <1>1. Undo = {}
    BY DEF Init, Undo, Last, Snapshots
  <1>2. /\ mem \in [Word -> Val] /\ media \in [Word -> SUBSET Val] /\ heap \subseteq Obj
        /\ \A w \in Word : mem[w] \in media[w]
    BY ValAssumption DEF Init
  <1>3. LenOK /\ TornOK /\ ClearOK
    BY CacheAssumption DEF Init, LenOK, UndoTypes, TornOK, ClearOK, Empty
  <1>4. stage \in Stages /\ depth \in 0 .. MaxDepth /\ pc \in Places /\ ~ (depth > 0) /\ ~ (depth > 1)
    BY BoundAssumption DEF Init, Stages, Places
  <1>5. ControlOK /\ ActOK /\ DropOK
    BY Zenon, <1>4 DEF Init, ControlOK, ActOK, DropOK, Open
  <1>6. CursorOK
    <2>1. zero_all \in BOOLEAN
      BY Zenon DEF Init
    <2>2. pc # "restore"
      BY DEF Init
    <2> QED
      BY Zenon, <2>1, <2>2 DEF CursorOK
  <1>7. RangeOK /\ LoopOK
    BY NoneIs DEF Init, RangeOK, Apart, Covered, LoopOK
  <1>8. ExactOK /\ SnapshotOnce
    BY <1>1 DEF Init, ExactOK, SnapshotOnce, Open
  <1> QED
    BY Zenon, <1>2, <1>3, <1>4, <1>5, <1>6, <1>7, <1>8 DEF LaneOK, BaseOK, LogOK, PoolOK

\* Every step keeps the invariant of a lane.
LEMMA LaneNext == LaneOK /\ [Next]_vars => LaneOK'
  <1> SUFFICES ASSUME LaneOK, [Next]_vars PROVE LaneOK'
    OBVIOUS
  <1>1. CASE Next
    <2>0. BaseOK /\ RangeOK /\ LoopOK /\ ExactOK /\ SnapshotOnce /\ Next
      BY Zenon, <1>1 DEF LaneOK
    <2>1. /\ depth \in Nat /\ nc \in Nat /\ UndoTypes /\ LenOK /\ LogOK /\ DropOK /\ PoolOK /\ ActOK /\ CursorOK /\ ControlOK
          /\ snap \in Span /\ (pc = "snap" => snap.off \in Nat) /\ Words(snap) \subseteq Word /\ Covered \subseteq Word
          /\ stage \in Stages /\ depth \in 0 .. MaxDepth /\ pc \in Places
      BY <2>0, SnapWords, BoundAssumption DEF BaseOK, LogOK, LenOK, RangeOK
    <2>2. LenOK'
      BY Zenon, <2>0, <2>1, LenNext
    <2>3. LogOK'
      BY Zenon, <2>0, <2>1, <2>2, TornNext, ClearNext DEF LogOK
    <2>4. (ControlOK /\ stage \in Stages /\ depth \in 0 .. MaxDepth /\ pc \in Places)'
      BY Zenon, <2>0, <2>1, ControlNext
    <2>5. (PoolOK /\ ActOK /\ DropOK /\ CursorOK)'
      BY Zenon, <2>0, <2>1, <2>2, PoolNext, ActNext, DropNext, CursorNext
    <2>6. (RangeOK /\ LoopOK /\ ExactOK /\ SnapshotOnce)'
      BY Zenon, <2>0, <2>2, RangeNext, LoopNext, ExactNext, OnceNext
    <2> QED
      BY Zenon, <2>3, <2>4, <2>5, <2>6 DEF LaneOK, BaseOK
  <1>2. CASE UNCHANGED vars
    <2>1. /\ UNCHANGED <<mem, media, heap, large, vec, nc, cache_offset, ranges, actions, stage, depth, last_errnum>>
          /\ UNCHANGED <<pc, r, nprev, pred, snap, zero_all, list, ri>>
      BY Zenon, <1>2 DEF vars, persistent, lane, tx, locals
    <2>2. BaseOK /\ RangeOK /\ LoopOK /\ ExactOK /\ SnapshotOnce
      BY Zenon DEF LaneOK
    <2>3. UNCHANGED <<Covered, Saved, Acted("alloc"), Acted("drop"), Acted("clear"), Words(snap), Words(r), Open>>
      BY Zenon, <2>1, Untouched, SavedIs DEF Covered, Acted, Words, Open
    <2>4. (ControlOK /\ stage \in Stages /\ depth \in 0 .. MaxDepth /\ pc \in Places /\ PoolOK /\ ActOK)'
      BY Zenon, <2>1, <2>2 DEF BaseOK, ControlOK, PoolOK, ActOK
    <2>5. (LenOK /\ TornOK /\ ClearOK)'
      BY <2>1, <2>2 DEF BaseOK, LogOK, LenOK, UndoTypes, TornOK, ClearOK, Quiet, Empty
    <2>6. (DropOK /\ CursorOK)'
      BY Zenon, <2>1, <2>2, <2>3 DEF BaseOK, DropOK, CursorOK, Last, Snapshots
    <2>7. (RangeOK /\ LoopOK)'
      BY <2>1, <2>2, <2>3 DEF RangeOK, Apart, LoopOK
    <2>8. (ExactOK /\ SnapshotOnce)'
      BY <2>1, <2>2, <2>3, Untouched, OnceKept DEF ExactOK
    <2> QED
      BY Zenon, <2>4, <2>5, <2>6, <2>7, <2>8 DEF LaneOK, BaseOK, LogOK
  <1> QED
    BY <1>1, <1>2

\* The invariant of a lane holds in every state.
LEMMA LaneInv == Spec => []LaneOK
  BY LaneInit, LaneNext, PTL DEF Spec

\* The pool, the undo vector and struct tx hold values of their types, and a cache is only filled at the end of the vector.
THEOREM Typed == Spec => []TypeOK
  <1>1. LaneOK => TypeOK
    <2> SUFFICES ASSUME LaneOK PROVE TypeOK
      OBVIOUS
    <2>1. nc \in Nat /\ (pc # "post" => nc <= Len(vec) /\ (nc > 1 => nc = Len(vec))) /\ cache_offset \in 0 .. CacheSize
      BY DEF LaneOK, BaseOK, LogOK, LenOK
    <2> QED
      BY <2>1 DEF LaneOK, BaseOK, PoolOK, RangeOK, Stages, Places, TypeOK
  <1> QED
    BY <1>1, LaneInv, PTL

\* pmemobj_tx_add_common() never takes a second snapshot of a word, whatever ranges are added in whatever order.
THEOREM SavedOnce == Spec => []SnapshotOnce
  <1>1. LaneOK => SnapshotOnce
    BY DEF LaneOK
  <1> QED
    BY <1>1, LaneInv, PTL

\* The tree of ranges that pmemobj_tx_add_common() searches covers just what has a snapshot and the new objects.
THEOREM CoveredExactly == Spec => []RangesExact
  <1>1. LaneOK => RangesExact
    <2> SUFFICES ASSUME LaneOK, pc = "user", stage = "work"
                 PROVE  /\ \A x, y \in ranges : x # y => Words(x) \cap Words(y) = {}
                        /\ Covered = Saved \cup Acted("alloc")
      BY DEF RangesExact
    <2>1. Open
      BY DEF LaneOK, BaseOK, ControlOK, Open
    <2>2. Words(snap) = {}
      BY DEF LaneOK, RangeOK, Span, Words
    <2>3. Covered = Saved \cup Acted("alloc")
      BY <2>1, <2>2 DEF LaneOK, ExactOK
    <2>4. \A x, y \in ranges : x # y => Words(x) \cap Words(y) = {}
      BY DEF LaneOK, RangeOK, Apart, Words, TxRange
    <2> QED
      BY <2>3, <2>4
  <1> QED
    BY <1>1, LaneInv, PTL

\* The assertion in pmemobj_tx_add_common() cannot fail.
THEOREM AssertHolds == Spec => []NprevAdjacent
  <1>1. LaneOK => NprevAdjacent
    BY DEF LaneOK, LoopOK, NprevAdjacent
  <1> QED
    BY <1>1, LaneInv, PTL
------------------------------------------------------------------------------
\* A snapshot whose words hold its data again, on the media too.
Settled(e) == \A w \in Words(e) : mem[w] = e.data[w] /\ media[w] = {mem[w]}

\* What tx_foreach_set() has been through.
Done(p) == p[1] < list \/ (p[1] = list /\ p[2] <= ri)

\* The log leads back to f: what has no snapshot is as in f, and so are the snapshots.
Old(f) ==
    /\ <<heap, f>> \in allowed /\ f = [w \in Root \cup heap |-> f[w]]
    /\ \A w \in (Root \cup heap) \ Saved : mem[w] = f[w] /\ media[w] = {mem[w]}
    /\ \A p \in Undo : \A w \in Words(At(p)) \cap (Root \cup heap) : At(p).data[w] = f[w]

\* A snapshot is taken from the log only once its words are restored, or before they could be changed.
RollOK ==
    /\ pc \in {"pop", "zero", "poplarge"} => \A p \in Undo : Settled(At(p))
    /\ pc = "restore" => \A p \in Undo : Done(p) => Settled(At(p))
    /\ pc = "header" => Settled(vec[nc][Len(vec[nc])])

\* palloc_publish() makes the new contents valid and the log empty at once.
NewHeap == (heap \cup Acted("alloc")) \ Acted("free")
CommitOK ==
    /\ pc = "publish" => /\ Contents(NewHeap, mem) \in allowed
                         /\ \A w \in Root \cup NewHeap : media[w] = {mem[w]}
    /\ pc = "post" \/ (pc = "zero" /\ stage = "work") => Undo = {}

\* It does so if this transaction has made its first cache itself.
FirstOK == (Open \/ pc = "publish") /\ nc > 0 => 1 \in Acted("clear")
FreshBegin == depth = 0 /\ depth' = 1 => nc = 0

AtomicOK == (\E f : Old(f)) /\ RollOK /\ CommitOK /\ FirstOK

\* With the memset in order of addresses, a snapshot that stays in the log keeps its data.
LEMMA Unharmed ==
    ASSUME MemsetInOrder, UndoSame \/ UndoKept
    PROVE  Undo' \subseteq Undo /\ \A p \in Undo' : At(p)' = At(p)
  BY Zenon DEF UndoSame, UndoKept, Alike

\* Steps that only touch words with a snapshot, and only drop snapshots of restored words.
LEMMA OldKept ==
    ASSUME MemsetInOrder, NEW f, Old(f), UNCHANGED heap, <<heap, f>> \in allowed', UndoSame \/ UndoKept,
           \A w \in (Root \cup heap) \ Saved' : media[w] = {mem[w]} => mem'[w] = mem[w] /\ media'[w] = {mem'[w]},
           \A p \in Undo : p \in Undo' \/ Settled(At(p))
    PROVE  Old(f)'
  <1>1. Undo' \subseteq Undo /\ \A p \in Undo' : At(p)' = At(p)
    BY Zenon, Unharmed
  <1>2. ASSUME NEW w \in (Root \cup heap) \ Saved' PROVE mem'[w] = f[w] /\ media'[w] = {mem'[w]}
    <2>1. CASE w \notin Saved
      BY Zenon, <1>2, <2>1 DEF Old
    <2>2. CASE w \in Saved
      <3>1. PICK p \in Undo : w \in Words(At(p))
        BY Zenon, <2>2 DEF Saved
      <3>2. p \notin Undo'
        BY Zenon, <1>1, <1>2, <3>1 DEF Saved, Words
      <3>3. mem[w] = At(p).data[w] /\ media[w] = {mem[w]} /\ At(p).data[w] = f[w]
        BY ZenonT(30), <1>2, <3>1, <3>2 DEF Settled, Old
      <3> QED
        BY Zenon, <1>2, <3>3
    <2> QED
      BY <2>1, <2>2
  <1>3. ASSUME NEW p \in Undo', NEW w \in Words(At(p)') \cap (Root \cup heap) PROVE At(p)'.data[w] = f[w]
    BY <1>1, <1>3 DEF Old
  <1>4. <<heap, f>> \in allowed' /\ heap' = heap /\ f = [w \in Root \cup heap |-> f[w]]
    BY Zenon DEF Old
  <1> QED
    BY Zenon, <1>2, <1>3, <1>4 DEF Old, Words

\* A log with nothing in any list.
LEMMA NoUndo ==
    ASSUME nc' \in Nat, Len(vec') \in Nat, large' = <<>>, \A k \in 1 .. Len(vec') : vec'[k] = <<>>
    PROVE  Undo' = {}
  <1>1. \A k \in (0 .. Last)' : Len(Snapshots(k)') = 0
    BY DEF Last, Snapshots
  <1> QED
    BY <1>1 DEF Undo

\* A power loss takes at most the snapshot that is being made, or the first cache that is being zeroed.
LEMMA CrashTakes ==
    ASSUME LenOK, TornOK, Crash, NEW p \in Undo, p \notin Undo'
    PROVE  pc = "zero" \/ (pc = "header" /\ At(p) = vec[nc][Len(vec[nc])])
  <1>1. /\ UNCHANGED large /\ vec' \in AfterCrash /\ vec \in Seq(Seq(Snap)) /\ large \in Seq(Snap) /\ nc \in Nat
        /\ nc' = Len(vec) /\ Len(vec') = Len(vec) /\ UndoTypes'
    BY Zenon, CrashTrims DEF Crash, LenOK, UndoTypes, TrimOK
  <1>2. /\ p = <<p[1], p[2]>> /\ p[1] \in 0 .. Last /\ p[2] \in 1 .. Len(Snapshots(p[1]))
        /\ Last \in Nat /\ Last <= Len(vec) /\ Last <= nc /\ p[1] \in Nat
    BY <1>1, UndoIs DEF Last
  <1>3. Last' = Len(vec) /\ p[1] \in 0 .. Len(vec)
    BY <1>1, <1>2 DEF Last
  <1>4. p[2] \notin 1 .. Len(Snapshots(p[1])')
    BY <1>2, <1>3 DEF Undo
  <1>5. p[1] # 0 /\ p[1] \in 1 .. Len(vec) /\ p[2] \in 1 .. Len(vec[p[1]]) /\ p[2] \notin 1 .. Len(vec'[p[1]])
    BY <1>1, <1>2, <1>3, <1>4 DEF Snapshots
  <1>6. vec' # vec
    BY Zenon, <1>5
  <1>7. ASSUME pc = "header" PROVE At(p) = vec[nc][Len(vec[nc])]
    <2>1. nc \in 1 .. Len(vec) /\ vec[nc] \in Seq(Snap) /\ vec[nc] # <<>>
      BY SMTT(20), <1>1, <1>2, <1>5, <1>7 DEF LenOK, TornOK
    <2>2. PICK c \in Made(vec[nc]) : vec' = [vec EXCEPT ![nc] = c]
      BY Zenon, <1>1, <1>7 DEF AfterCrash
    <2>3. p[1] = nc /\ vec'[nc] = c
      BY SMTT(20), <1>1, <1>5, <2>1, <2>2
    <2>4. Len(c) \in Nat /\ Len(c) >= Len(vec[nc]) - 1
      BY <2>1 DEF Made
    <2>5. p[2] = Len(vec[nc])
      BY SMTT(20), <1>5, <2>1, <2>3, <2>4
    <2> QED
      BY Zenon, <1>5, <2>3, <2>5 DEF At, Snapshots
  <1> QED
    BY Zenon, <1>1, <1>6, <1>7 DEF AfterCrash

\* When tx_foreach_set() is through, every snapshot of the log is restored.
LEMMA AllDone ==
    ASSUME BaseOK, RollOK, Restored, NEW p \in Undo
    PROVE  Settled(At(p))
  <1>1. CASE pc = "pop"
    BY Zenon, <1>1 DEF RollOK
  <1>2. CASE pc = "restore" /\ list = Last /\ ri = Len(Snapshots(list))
    <2>1. p[1] \in 0 .. Last /\ p[2] \in 1 .. Len(Snapshots(p[1])) /\ Last \in Nat /\ Len(Snapshots(p[1])) \in Nat
      BY Zenon, UndoIs, Listed DEF BaseOK, LogOK, LenOK
    <2>2. Done(p)
      BY <1>2, <2>1 DEF Done
    <2> QED
      BY Zenon, <1>2, <2>2 DEF RollOK
  <1> QED
    BY Zenon, <1>1, <1>2 DEF Restored

\* What is taken from the log, other than by a commit, has been restored.
LEMMA Dropped ==
    ASSUME BaseOK, LenOK', RollOK, CommitOK, Next, ~ Publish, ~ SnapLarge, ~ SnapSmall, NEW p \in Undo, p \notin Undo'
    PROVE  Settled(At(p))
  <1>1. CASE PopCache
    BY Zenon, <1>1, AllDone DEF PopCache
  <1>2. CASE Zeroed \/ PopLarge
    BY Zenon, <1>2 DEF Zeroed, PopLarge, RollOK
  <1>3. CASE PostCommit
    BY Zenon, <1>3 DEF PostCommit, CommitOK
  <1>4. CASE Crash
    BY ZenonT(30), <1>4, CrashTakes DEF RollOK, BaseOK, LogOK
  <1> QED
    BY Zenon, <1>1, <1>2, <1>3, <1>4, LogSteps DEF UndoSame

\* The steps that change what the pool may contain.
LEMMA AllowedFrame ==
    ASSUME Next
    PROVE  UNCHANGED allowed \/ PreCommit \/ (CommitDone /\ (PostCommit \/ Zeroed))
  BY Zenon DEF Next, Begin, Store, Alloc, Free, AddRange, AddNew, AddInside, AddBeyond, AddDone, SnapLarge, NewCache,
     SnapSmall, SnapHeader, Abort, OutOfMemory, CommitInner, Publish, PostCommit,
     RestoreRange, RestoreNext, PopCache, PopDone, Zeroed, PopLarge, Process, End, Crash, InAdd, InSnap, InUndo,
     AbortTx

\* Words without a snapshot are changed only by a power loss, and not if they are on the media.
LEMMA OthersKept ==
    ASSUME LaneOK, Next, ~ Publish, ~ SnapLarge, ~ SnapSmall, LenOK',
           NEW w \in (Root \cup heap) \ Saved', media[w] = {mem[w]}
    PROVE  mem'[w] = mem[w] /\ media'[w] = {mem'[w]}
  <1>0. /\ BaseOK /\ RangeOK /\ ExactOK /\ ControlOK /\ w \in Word /\ mem \in [Word -> Val] /\ media \in [Word -> SUBSET Val]
        /\ \A o \in Obj : o \notin Root
    BY Zenon, WordAssumption DEF LaneOK, BaseOK, PoolOK, Word
  <1>1. CASE UNCHANGED <<mem, media>>
    BY Zenon, <1>1
  <1>2. CASE Store
    <2>1. UNCHANGED <<large, vec, nc>> /\ pc = "user" /\ stage = "work"
      BY Zenon, <1>2 DEF Store, InWork, InUser
    <2>2. Saved' = Saved
      BY Zenon, <2>1, Untouched, SavedIs
    <2>3. Open /\ Words(snap) = {}
      BY <1>0, <2>1 DEF Open, ControlOK, RangeOK, Span, Words
    <2>4. w \notin Covered
      BY Zenon, <1>0, <2>2, <2>3 DEF ExactOK
    <2> QED
      BY <1>0, <1>2, <2>4 DEF Store
  <1>3. CASE Alloc
    <2>1. PICK o \in Obj \ heap : mem' = [mem EXCEPT ![o] = 0] /\ media' = [media EXCEPT ![o] = @ \cup {0}]
      BY Zenon, <1>3 DEF Alloc
    <2> QED
      BY <1>0, <2>1
  <1>4. CASE PreCommit
    BY Zenon, <1>0, <1>4 DEF PreCommit
  <1>5. CASE RestoreRange
    <2>1. UNCHANGED <<large, vec, nc>> /\ pc = "restore" /\ ri < Len(Snapshots(list)) /\ CursorOK /\ nc \in Nat /\ UndoTypes
      BY Zenon, <1>0, <1>5 DEF RestoreRange, lane, BaseOK, LogOK, LenOK
    <2>2. Saved' = Saved
      BY Zenon, <2>1, Untouched, SavedIs
    <2>3. <<list, ri + 1>> \in Undo
      BY SMTT(20), <2>1, UndoIs, Listed DEF CursorOK
    <2>4. Words(Snapshots(list)[ri + 1]) \subseteq Saved
      BY <2>3 DEF Saved, At
    <2> QED
      BY Zenon, <1>0, <1>5, <2>2, <2>4 DEF RestoreRange
  <1>6. CASE Crash
    BY <1>0, <1>6 DEF Crash
  <1> QED
    BY Zenon, <1>1, <1>2, <1>3, <1>4, <1>5, <1>6, PoolFrame

\* palloc_publish() empties the log.
LEMMA PublishEmpties == ASSUME BaseOK, LenOK', FirstOK, Publish PROVE Undo' = {}
  <1>0. LenOK /\ DropOK /\ pc = "publish" /\ nc \in Nat /\ nc' \in Nat /\ UndoTypes'
    BY Zenon DEF BaseOK, LogOK, LenOK, Publish
  <1>1. LenOK /\ DropOK /\ pc = "publish" /\ nc \in Nat /\ nc' \in Nat /\ Len(vec') \in Nat
    BY <1>0 DEF UndoTypes
  <1>2. /\ large' = <<>> /\ Len(vec') = (IF nc > 2 THEN 2 ELSE Len(vec))
        /\ 1 \in Acted("clear") => \A k \in 1 .. Len(vec') : vec'[k] = <<>>
    BY Zenon, <1>1, PublishTrims
  <1>3. CASE nc > 0
    BY Zenon, <1>1, <1>2, <1>3, NoUndo DEF FirstOK
  <1>4. CASE nc = 0
    <2>1. \A k \in 1 .. Len(vec') : vec'[k] = <<>>
      BY SMTT(20), <1>1, <1>2, <1>4 DEF LenOK
    <2> QED
      BY Zenon, <1>1, <1>2, <2>1, NoUndo
  <1> QED
    BY <1>1, <1>3, <1>4

\* With an empty log, the pool itself is what the log leads back to.
LEMMA Fresh ==
    ASSUME Undo' = {}, Contents(heap', mem') \in allowed', \A w \in Root \cup heap' : media'[w] = {mem'[w]}
    PROVE  \E f : Old(f)'
  <1>1. PICK f : f = [w \in Root \cup heap' |-> mem'[w]]
    BY Zenon
  <1>2. <<heap', f>> \in allowed' /\ f = [w \in Root \cup heap' |-> f[w]] /\ \A w \in Root \cup heap' : f[w] = mem'[w]
    BY <1>1 DEF Contents
  <1>3. Old(f)'
    BY Zenon, <1>2 DEF Old
  <1> QED
    BY <1>3

\* The log always leads back to contents the pool may have.
LEMMA OldNext ==
    ASSUME MemsetInOrder, LaneOK, LenOK', AtomicOK, Next
    PROVE  \E f : Old(f)'
  <1>0. BaseOK /\ RangeOK /\ LoopOK /\ ExactOK /\ RollOK /\ CommitOK /\ FirstOK /\ LenOK /\ PoolOK
    BY Zenon DEF LaneOK, AtomicOK, BaseOK, LogOK
  <1>1. PICK f : Old(f)
    BY Zenon DEF AtomicOK
  <1>2. CASE SnapLarge \/ SnapSmall
    <2>1. UNCHANGED <<mem, media, heap, allowed>> /\ pc = "snap"
      BY Zenon, <1>2 DEF SnapLarge, SnapSmall, InSnap
    <2>2. PICK e \in Snap, q \in Undo' :
             /\ Words(snap) = Words(e) \cup Words(snap)' /\ e.data = [w \in Words(e) |-> mem[w]]
             /\ Undo' = Undo \cup {q} /\ At(q)' = e /\ \A p \in Undo : At(p)' = At(p)
      BY Zenon, <1>0, <1>2, <2>1, SnapTaken, SnapWords DEF BaseOK, RangeOK
    <2>3. Words(snap) \cap Saved = {} /\ Words(snap) \subseteq Root \cup heap
      BY <1>0, <2>1, SnapWords DEF ExactOK
    <2>4. Saved' = Saved \cup Words(e)
      BY Zenon, <2>2, SavedIs
    <2>5. \A w \in Words(e) : e.data[w] = f[w]
      BY Zenon, <1>1, <2>2, <2>3 DEF Old
    <2>6. ASSUME NEW p \in Undo', NEW w \in Words(At(p)') \cap (Root \cup heap) PROVE At(p)'.data[w] = f[w]
      <3>1. CASE p = q
        BY Zenon, <2>2, <2>5, <2>6, <3>1
      <3>2. CASE p \in Undo
        <4>1. At(p)' = At(p) /\ w \in Words(At(p)) \cap (Root \cup heap)
          BY Zenon, <2>2, <2>6, <3>2
        <4>2. At(p).data[w] = f[w]
          BY Zenon, <1>1, <3>2, <4>1 DEF Old
        <4> QED
          BY Zenon, <4>1, <4>2
      <3> QED
        BY Zenon, <2>2, <3>1, <3>2
    <2>7. \A w \in (Root \cup heap) \ Saved' : mem[w] = f[w] /\ media[w] = {mem[w]}
      BY Zenon, <1>1, <2>4 DEF Old
    <2>8. <<heap, f>> \in allowed' /\ f = [w \in Root \cup heap |-> f[w]]
      BY Zenon, <1>1, <2>1 DEF Old
    <2>9. Old(f)'
      BY Zenon, <2>1, <2>6, <2>7, <2>8 DEF Old, Words
    <2> QED
      BY <2>9
  <1>3. CASE Publish
    <2>1. pc = "publish" /\ UNCHANGED <<mem, media, allowed>> /\ heap' = NewHeap /\ Undo' = {}
      BY Zenon, <1>0, <1>3, PublishEmpties DEF Publish, NewHeap
    <2> QED
      BY Zenon, <1>0, <2>1, Fresh DEF CommitOK
  <1>4. CASE CommitDone /\ (PostCommit \/ Zeroed)
    <2>1. UNCHANGED <<mem, media, heap>> /\ allowed' = {Contents(heap, mem)} /\ Undo = {}
      BY Zenon, <1>0, <1>4 DEF PostCommit, Zeroed, CommitDone, CommitOK, persistent
    <2>2. Undo' = {} /\ Saved = {}
      BY Zenon, <1>0, <1>4, <2>1, LogSteps, Unharmed DEF Saved, PostCommit, Zeroed, SnapLarge, SnapSmall, InSnap
    <2>3. Contents(heap', mem') \in allowed' /\ \A w \in Root \cup heap' : media'[w] = {mem'[w]}
      BY Zenon, <1>1, <2>1, <2>2 DEF Old
    <2> QED
      BY Zenon, <2>2, <2>3, Fresh
  <1>5. ASSUME ~ SnapLarge, ~ SnapSmall, ~ Publish, UNCHANGED allowed \/ PreCommit PROVE Old(f)'
    <2>1. UNCHANGED heap
      BY Zenon, <1>5, PoolFrame DEF Store, Alloc, PreCommit, RestoreRange, Crash
    <2>2. <<heap, f>> \in allowed'
      BY Zenon, <1>1, <1>5 DEF Old, PreCommit
    <2>3. UndoSame \/ UndoKept
      BY Zenon, <1>0, <1>5, LogSteps
    <2>4. \A w \in (Root \cup heap) \ Saved' : media[w] = {mem[w]} => mem'[w] = mem[w] /\ media'[w] = {mem'[w]}
      BY Zenon, <1>5, OthersKept
    <2>5. \A p \in Undo : p \in Undo' \/ Settled(At(p))
      BY Zenon, <1>0, <1>5, Dropped
    <2> QED
      BY Zenon, <1>1, <2>1, <2>2, <2>3, <2>4, <2>5, OldKept
  <1> QED
    BY Zenon, <1>2, <1>3, <1>4, <1>5, AllowedFrame

\* No snapshot is dropped before its words are restored.
LEMMA RollNext ==
    ASSUME MemsetInOrder, LaneOK, LenOK', AtomicOK, Next
    PROVE  RollOK'
  <1>0. BaseOK /\ RangeOK /\ LoopOK /\ ExactOK /\ SnapshotOnce /\ RollOK /\ CommitOK /\ LenOK /\ PoolOK /\ nc \in Nat
    BY Zenon DEF LaneOK, AtomicOK, BaseOK, LogOK, LenOK
  <1>1. ASSUME UNCHANGED <<mem, media>>, UndoSame \/ UndoKept, NEW p \in Undo', p \in Undo => Settled(At(p))
        PROVE  Settled(At(p))'
    <2>1. At(p)' = At(p) /\ p \in Undo
      BY Zenon, <1>1, Unharmed
    <2> QED
      BY Zenon, <1>1, <2>1 DEF Settled, Words
  <1>2. ASSUME pc' \in {"pop", "zero", "poplarge"}, NEW p \in Undo' PROVE Settled(At(p))'
    <2>1. PopCache \/ PopDone \/ PostCommit \/ PopLarge \/ Zeroed
      BY Zenon, <1>2, PcFrame
    <2>2. UNCHANGED <<mem, media>> /\ ~ SnapLarge /\ ~ SnapSmall
      BY Zenon, <2>1 DEF PopCache, PopDone, PostCommit, PopLarge, Zeroed, InUndo, persistent, Restored, SnapLarge, SnapSmall, InSnap
    <2>3. ASSUME p \in Undo PROVE Settled(At(p))
      BY Zenon, <1>0, <2>1, <2>3, AllDone DEF PopCache, PopDone, PostCommit, PopLarge, Zeroed, RollOK, CommitOK
    <2> QED
      BY Zenon, <1>0, <1>1, <2>2, <2>3, LogSteps
  <1>3. ASSUME pc' = "restore", NEW p \in Undo', Done(p)' PROVE Settled(At(p))'
    <2>1. CASE RestoreRange \/ RestoreNext
      <3>1. UNCHANGED <<large, vec, nc>> /\ pc = "restore" /\ CursorOK
        BY Zenon, <1>0, <2>1 DEF RestoreRange, RestoreNext, lane, BaseOK
      <3>2. At(p)' = At(p) /\ p \in Undo /\ UndoSame
        BY Zenon, <1>3, <3>1, Untouched DEF UndoSame
      <3>3. p = <<p[1], p[2]>> /\ p[1] \in 0 .. Last /\ p[2] \in 1 .. Len(Snapshots(p[1])) /\ Len(Snapshots(p[1])) \in Nat
        BY Zenon, <1>0, <3>2, UndoIs, Listed DEF LenOK
      <3>4. list \in 0 .. Last /\ ri \in 0 .. Len(Snapshots(list)) /\ Last \in Nat /\ Len(Snapshots(list)) \in Nat
        BY Zenon, <1>0, <3>1, Listed DEF LenOK, CursorOK
      <3>5. CASE RestoreNext
        <4>1. Done(p)
          BY <1>3, <3>3, <3>4, <3>5 DEF RestoreNext, Done
        <4>2. Settled(At(p)) /\ UNCHANGED <<mem, media>>
          BY Zenon, <1>0, <3>1, <3>2, <3>5, <4>1 DEF RollOK, RestoreNext, InUndo
        <4> QED
          BY Zenon, <1>1, <1>3, <3>2, <4>2
      <3>6. CASE RestoreRange
        <4>1. PICK q : q = <<list, ri + 1>>
          BY Zenon
        <4>2. q \in Undo
          BY <3>4, <3>6, <4>1, UndoIs DEF RestoreRange
        <4>3. PICK e \in Snap : e = At(q)
          BY Zenon, <1>0, <4>2, Listed DEF LenOK
        <4>4. /\ mem' = [w \in Word |-> IF w \in Words(e) THEN e.data[w] ELSE mem[w]]
              /\ media' = [w \in Word |-> IF w \in Words(e) THEN {e.data[w]} ELSE media[w]]
          BY <3>6, <4>1, <4>3 DEF RestoreRange, At
        <4>5. Words(At(p)) \subseteq Word
          BY Zenon, <1>0, <3>2, Listed DEF LenOK, Snap
        <4>6. CASE p = q
          <5>1. Settled(e)'
            BY <4>3, <4>4, <4>5, <4>6 DEF Settled
          <5> QED
            BY Zenon, <3>2, <4>3, <4>6, <5>1 DEF Settled, Words
        <4>7. CASE p # q
          <5>1. Done(p)
            BY SMTT(20), <1>3, <3>3, <3>4, <3>6, <4>1, <4>7 DEF RestoreRange, Done
          <5>2. Settled(At(p)) /\ Words(At(p)) \cap Words(e) = {}
            BY Zenon, <1>0, <3>1, <3>2, <4>2, <4>3, <4>7, <5>1 DEF RollOK, SnapshotOnce
          <5>3. \A w \in Words(At(p)) : mem'[w] = At(p).data[w] /\ media'[w] = {mem'[w]}
            BY Zenon, <4>4, <4>5, <5>2 DEF Settled
          <5> QED
            BY Zenon, <3>2, <5>3 DEF Settled, Words
        <4> QED
          BY <4>6, <4>7
      <3> QED
        BY Zenon, <2>1, <3>5, <3>6
    <2>2. CASE list' = 0 /\ ri' = 0
      <3>1. p[1] \in Nat /\ p[2] \in Nat /\ p[2] > 0
        BY DEF Undo
      <3> QED
        BY SMTT(20), <1>3, <2>2, <3>1 DEF Done
    <2> QED
      BY Zenon, <1>3, <2>1, <2>2, PcFrame
  <1>4. ASSUME pc' = "header" PROVE Settled(vec[nc][Len(vec[nc])])'
    <2>1. SnapSmall /\ pc = "snap" /\ UNCHANGED <<mem, media, nc>>
      BY Zenon, <1>4, PcFrame DEF SnapSmall, InSnap
    <2>2. PICK e \in Snap, q \in Undo' :
             /\ Words(snap) = Words(e) \cup Words(snap)' /\ e.data = [w \in Words(e) |-> mem[w]]
             /\ vec'[nc][Len(vec'[nc])] = e
      BY Zenon, <1>0, <2>1, SnapTaken, SnapWords DEF BaseOK, RangeOK
    <2>3. Words(snap) \cap Saved = {} /\ Words(snap) \subseteq Root \cup heap
      BY Zenon, <1>0, <2>1, SnapWords DEF ExactOK
    <2>4. PICK f : Old(f)
      BY Zenon DEF AtomicOK
    <2>5. \A w \in Words(e) : mem[w] = e.data[w] /\ media[w] = {mem[w]}
      BY Zenon, <2>2, <2>3, <2>4 DEF Old
    <2> QED
      BY Zenon, <2>1, <2>2, <2>5 DEF Settled, Words
  <1> QED
    BY Zenon, <1>2, <1>3, <1>4 DEF RollOK

\* What is published is what tx_pre_commit() has put on the media.
LEMMA CommitNext ==
    ASSUME MemsetInOrder, LaneOK, LenOK', AtomicOK, Next
    PROVE  CommitOK'
  <1>0. BaseOK /\ RangeOK /\ ExactOK /\ CommitOK /\ FirstOK /\ ControlOK /\ LenOK /\ PoolOK
    BY Zenon DEF LaneOK, AtomicOK, BaseOK, LogOK
  <1>1. ASSUME pc' = "publish"
        PROVE  (Contents(NewHeap, mem) \in allowed /\ \A w \in Root \cup NewHeap : media[w] = {mem[w]})'
    <2>1. /\ PreCommit /\ pc = "user" /\ stage = "work" /\ UNCHANGED <<mem, heap, actions>>
          /\ media' = [w \in Word |-> IF w \in Covered THEN {mem[w]} ELSE media[w]]
          /\ Contents(NewHeap, mem) \in allowed'
      BY Zenon, <1>1, PcFrame DEF PreCommit, InWork, InUser, NewHeap
    <2>2. UNCHANGED NewHeap
      BY <2>1 DEF NewHeap, Acted
    <2>3. Open
      BY Zenon, <1>0, <2>1 DEF Open, ControlOK
    <2>4. PICK f : Old(f)
      BY Zenon DEF AtomicOK
    <2>5. ASSUME NEW w \in Root \cup NewHeap PROVE media'[w] = {mem[w]}
      <3>1. w \in Word /\ (w \in Covered \/ w \in (Root \cup heap) \ Saved)
        BY <1>0, <2>3, <2>5 DEF ExactOK, NewHeap, PoolOK, Word
      <3>2. w \notin Covered => media[w] = {mem[w]}
        BY Zenon, <2>4, <3>1 DEF Old
      <3> QED
        BY Zenon, <2>1, <3>1, <3>2
    <2>6. Contents(NewHeap', mem') \in allowed' /\ \A w \in Root \cup NewHeap' : media'[w] = {mem'[w]}
      BY Zenon, <2>1, <2>2, <2>5
    <2> QED
      BY Zenon, <2>6 DEF Contents
  <1>2. ASSUME pc' = "post" PROVE Undo' = {}
    BY Zenon, <1>0, <1>2, PcFrame, PublishEmpties
  <1>3. ASSUME pc' = "zero", stage' = "work" PROVE Undo' = {}
    <2>1. PostCommit
      BY Zenon, <1>0, <1>3, PcFrame DEF PopDone, Restored, ControlOK, tx
    <2>2. Undo = {} /\ ~ SnapLarge /\ ~ SnapSmall
      BY Zenon, <1>0, <2>1 DEF PostCommit, CommitOK, SnapLarge, SnapSmall, InSnap
    <2> QED
      BY Zenon, <1>0, <2>2, LogSteps, Unharmed
  <1> QED
    BY Zenon, <1>1, <1>2, <1>3 DEF CommitOK

\* A lane without a cache gets an action that clears the first one when it is made.
LEMMA FirstNext ==
    ASSUME BaseOK, FirstOK, FreshBegin, Next
    PROVE  FirstOK'
  <1> SUFFICES ASSUME Open' \/ pc' = "publish", nc' > 0 PROVE 1 \in Acted("clear")'
    BY DEF FirstOK
  <1>0. depth \in Nat /\ ControlOK /\ ActOK /\ nc \in Nat /\ LenOK /\ TornOK
    BY BoundAssumption DEF BaseOK, LogOK, LenOK
  <1>1. ~ (Begin /\ depth = 0)
    BY <1>0 DEF Begin, InUser, FreshBegin
  <1>2. Open /\ (nc > 0 => 1 \in Acted("clear"))
    BY Zenon, <1>0, <1>1, OpenSteps DEF FirstOK
  <1>3. CASE NewCache
    <2>1. CASE nc = 0
      <3>1. actions' = actions \cup {Action("clear", 1)}
        BY SMTT(20), <1>3, <2>1 DEF NewCache
      <3> QED
        BY <3>1, ActedAdd
    <2>2. CASE nc > 0
      BY <1>2, <1>3, <2>2 DEF NewCache, Acted
    <2> QED
      BY <1>0, <2>1, <2>2
  <1>4. CASE ~ NewCache
    BY Zenon, <1>0, <1>1, <1>2, <1>4, ActionsKept
  <1> QED
    BY <1>3, <1>4

\* The pool as it was made.
LEMMA AtomicInit == Init => AtomicOK
  <1> SUFFICES ASSUME Init PROVE AtomicOK
    OBVIOUS
  <1>1. Undo = {} /\ Saved = {}
    BY DEF Init, Undo, Last, Snapshots, Saved
  <1>2. /\ pc = "user" /\ stage = "none" /\ depth = 0 /\ allowed = {Contents(heap, mem)} /\ heap \subseteq Obj
        /\ mem = [w \in Word |-> 1] /\ media = [w \in Word |-> {1}]
    BY Zenon DEF Init
  <1>3. PICK f : f = [w \in Root \cup heap |-> mem[w]]
    BY Zenon
  <1>4. \A w \in Root \cup heap : mem[w] = f[w] /\ media[w] = {mem[w]}
    BY <1>2, <1>3 DEF Word
  <1>5. <<heap, f>> \in allowed /\ f = [w \in Root \cup heap |-> f[w]]
    BY <1>2, <1>3 DEF Contents
  <1>6. Old(f)
    BY Zenon, <1>1, <1>4, <1>5 DEF Old
  <1>7. RollOK /\ CommitOK /\ FirstOK
    BY <1>2 DEF RollOK, CommitOK, FirstOK, Open
  <1> QED
    BY Zenon, <1>6, <1>7 DEF AtomicOK

\* Every step of a lane that begins its transactions without a kept cache.
LEMMA AtomicNext ==
    ASSUME MemsetInOrder, LaneOK, LaneOK', AtomicOK, [Next]_vars, [FreshBegin]_vars
    PROVE  AtomicOK'
  <1>1. CASE Next /\ FreshBegin
    BY Zenon, <1>1, OldNext, RollNext, CommitNext, FirstNext DEF AtomicOK, LaneOK, BaseOK, LogOK
  <1>2. CASE UNCHANGED vars
    <2>1. /\ UNCHANGED <<mem, media, heap, large, vec, nc, allowed, pc, stage, list, ri, Open>>
          /\ UNCHANGED <<Acted("clear"), NewHeap>>
      BY Zenon, <1>2 DEF vars, persistent, lane, tx, locals, Open, Acted, NewHeap
    <2>2. Undo' = Undo /\ Saved' = Saved /\ \A p \in Undo : At(p)' = At(p)
      BY Zenon, <2>1, Untouched, SavedIs DEF UndoSame
    <2>3. \A e : Settled(e)' = Settled(e)
      BY <2>1 DEF Settled
    <2>4. \E f : Old(f)'
      <3>1. PICK f : Old(f)
        BY Zenon DEF AtomicOK
      <3>2. Old(f)'
        BY SMTT(20), <2>1, <2>2, <3>1 DEF Old
      <3> QED
        BY <3>2
    <2>5. RollOK'
      BY SMTT(20), <2>1, <2>2 DEF AtomicOK, RollOK, Done, Settled
    <2>6. (CommitOK /\ FirstOK)'
      BY <2>1, <2>2 DEF AtomicOK, CommitOK, FirstOK, Contents
    <2> QED
      BY Zenon, <2>4, <2>5, <2>6 DEF AtomicOK
  <1> QED
    BY Zenon, <1>1, <1>2

\* The pool after a commit, a rollback or a recovery.
LEMMA AtomicGives == LaneOK /\ AtomicOK => AllOrNothing
  <1> SUFFICES ASSUME LaneOK, AtomicOK, Quiet
               PROVE  Contents(heap, mem) \in allowed /\ \A w \in Root \cup heap : media[w] = {mem[w]}
    BY Zenon DEF AllOrNothing
  <1>1. large = <<>> /\ Empty /\ nc \in Nat /\ Len(vec) \in Nat
    BY DEF LaneOK, BaseOK, LogOK, LenOK, UndoTypes, ClearOK
  <1>2. \A k \in 0 .. Last : Snapshots(k) = <<>>
    BY <1>1 DEF Last, Snapshots, Empty
  <1>3. Undo = {}
    BY <1>2 DEF Undo
  <1>4. PICK f : Old(f)
    BY Zenon DEF AtomicOK
  <1>5. \A w \in Root \cup heap : mem[w] = f[w] /\ media[w] = {mem[w]}
    BY Zenon, <1>3, <1>4 DEF Old, Saved
  <1>6. f = [w \in Root \cup heap |-> mem[w]] /\ <<heap, f>> \in allowed
    BY <1>4, <1>5 DEF Old
  <1> QED
    BY Zenon, <1>5, <1>6 DEF Contents

\* A transaction happens as a whole or not at all, whatever fails and whenever the power does, on a lane where
\* each outermost transaction begins without a cache kept from an earlier one.
THEOREM Atomic == ASSUME MemsetInOrder PROVE Spec /\ [][FreshBegin]_vars => []AllOrNothing
  <1>1. LaneOK /\ LaneOK' /\ AtomicOK /\ [Next]_vars /\ [FreshBegin]_vars => AtomicOK'
    BY Zenon, AtomicNext
  <1> QED
    BY <1>1, AtomicInit, AtomicGives, LaneInv, PTL DEF Spec

\* A lane that has run no transaction has no cache.
NewLane == txs \in Nat /\ (txs = 0 => depth = 0 /\ nc = 0 /\ Len(vec) = 0)

\* A lane stays new until its first transaction.
LEMMA NewNext ==
    ASSUME LaneOK, NewLane, Next
    PROVE  NewLane' /\ (txs' = txs \/ (Begin /\ txs < MaxTx /\ txs' = txs + 1)) /\ (depth = 0 /\ depth' = 1 => txs' # txs)
  <1>0. /\ LenOK /\ TornOK /\ ControlOK /\ depth \in Nat /\ nc \in Nat /\ txs \in Nat
        /\ stage = "work" => depth > 0
    BY SMTT(20), BoundAssumption DEF LaneOK, BaseOK, LogOK, LenOK, ControlOK, NewLane
  <1>1. \/ UNCHANGED <<txs, depth>>
        \/ Begin
        \/ UNCHANGED txs /\ depth > 0 /\ depth' = depth - 1
        \/ Crash
    BY Zenon DEF Next, Store, Alloc, Free, AddRange, AddNew, AddInside, AddBeyond, AddDone, SnapLarge, NewCache,
       SnapSmall, SnapHeader, Abort, OutOfMemory, CommitInner, PreCommit, Publish, PostCommit, CommitDone,
       RestoreRange, RestoreNext, PopCache, PopDone, Zeroed, PopLarge, Process, End, InWork, InAdd, InSnap, InUndo, tx
  <1>2. Begin => \/ depth = 0 /\ txs < MaxTx /\ txs' = txs + 1
                 \/ UNCHANGED txs /\ depth > 0 /\ depth' = depth + 1
    BY Zenon DEF Begin
  <1>3. Crash => UNCHANGED txs /\ depth' = 0 /\ nc' = Len(vec) /\ Len(vec') = Len(vec)
    BY Zenon, <1>0, CrashTrims DEF Crash
  <1>4. ASSUME txs = 0, txs' = 0, ~ Crash PROVE UNCHANGED <<vec, nc>>
    <2>1. depth = 0 /\ nc = 0
      BY Zenon, <1>4 DEF NewLane
    <2>2. pc \notin {"snap", "header", "publish", "post"} /\ pc # "zero" /\ ~ (nc > Kept)
      BY SMTT(20), <1>0, <2>1 DEF ControlOK, TornOK, Kept
    <2> QED
      BY Zenon, <1>4, <2>2, UndoFrame DEF SnapLarge, NewCache, SnapSmall, SnapHeader, InSnap, Publish, PostCommit,
         PopCache, Zeroed, PopLarge
  <1>5. txs' \in Nat /\ (txs' = txs \/ (Begin /\ txs < MaxTx /\ txs' = txs + 1)) /\ (txs' = 0 => txs = 0 /\ depth' = 0)
    BY SMTT(20), <1>0, <1>1, <1>2, <1>3 DEF NewLane
  <1>6. depth = 0 /\ depth' = 1 => txs' # txs
    BY SMTT(20), <1>0, <1>1, <1>2, <1>3
  <1>7. txs' = 0 => nc' = 0 /\ Len(vec') = 0
    BY Zenon, <1>3, <1>4, <1>5 DEF NewLane
  <1> QED
    BY Zenon, <1>5, <1>6, <1>7 DEF NewLane

\* So the first transaction of a lane, however deeply nested and however often its recovery is cut short by
\* another power loss, happens as a whole or not at all.
THEOREM AtomicFirst == ASSUME MemsetInOrder, MaxTx = 1 PROVE Spec => []AllOrNothing
  <1>1. Init => NewLane
    BY DEF Init, NewLane
  <1>2. LaneOK /\ NewLane /\ [Next]_vars => NewLane' /\ [FreshBegin]_vars
    <2> SUFFICES ASSUME LaneOK, NewLane, [Next]_vars PROVE NewLane' /\ [FreshBegin]_vars
      OBVIOUS
    <2>1. CASE Next
      <3>1. txs \in Nat /\ (txs = 0 => nc = 0) /\ NewLane' /\ (depth = 0 /\ depth' = 1 => txs < MaxTx)
        BY Zenon, <2>1, NewNext DEF NewLane
      <3>2. FreshBegin
        BY SMTT(20), <3>1 DEF FreshBegin
      <3> QED
        BY Zenon, <3>1, <3>2
    <2>2. CASE UNCHANGED vars
      BY <2>2 DEF vars, persistent, lane, tx, NewLane
    <2> QED
      BY <2>1, <2>2
  <1>3. Spec => [][FreshBegin]_vars
    BY <1>1, <1>2, LaneInv, PTL DEF Spec
  <1> QED
    BY <1>3, Atomic, PTL
==============================================================================
