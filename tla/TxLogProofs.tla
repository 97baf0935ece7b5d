----------------------------- MODULE TxLogProofs -----------------------------
(***************************************************************************)
(* The undo log of a transaction, for every pool, every size of the caches *)
(* and every number of transactions and power losses: which ranges and     *)
(* snapshots pmemobj_tx_add_common() makes, and what the steps of a        *)
(* commit, a rollback and a power loss leave of them.                      *)
(***************************************************************************)
EXTENDS Tx, TLAPS, FiniteSetTheorems

\* A non-empty set of naturals has a least element.
LEMMA Least == ASSUME NEW T \in SUBSET Nat, T # {} PROVE \E n \in T : \A m \in T : n <= m
  <1>1. IsWellFoundedOn(OpToRel(<, Nat), Nat)
    BY Zenon, NatLessThanWellFounded
  <1>2. PICK n \in T : \A m \in T : ~ (<<m, n>> \in OpToRel(<, Nat))
    BY Zenon, <1>1, WFMin
  <1>3. \A m \in T : ~ (m < n)
    BY Zenon, <1>2 DEF OpToRel
  <1> QED
    BY <1>3

------------------------------------------------------------------------------
\* A range of words, possibly empty: what `r', `nprev' and `snap' hold.
Span == [off : Int, size : Nat]

\* The ranges of the transaction are neither empty nor do they overlap.
Apart == \A x, y \in ranges : x # y => x.off + x.size <= y.off \/ y.off + y.size <= x.off

RangeOK ==
    /\ ranges \subseteq TxRange /\ (\A x \in ranges : x.size > 0) /\ Apart
    /\ Covered \subseteq Word
    /\ r \in Span /\ nprev \in Span /\ snap \in Span
    /\ pc \notin {"snap", "header"} => snap.size = 0

\* Between two turns of its loop: what is left of the argument, and the range on its right.
LoopOK ==
    pc \in {"add", "snap", "header"} =>
        /\ Words(r) \subseteq Root \cup heap
        /\ pred \in {"le", "lt"} /\ (pred = "le" => nprev = None)
        /\ r.size # 0 => /\ r.off \in Nat
                         /\ pred = "lt" => nprev # None
                         /\ nprev # None => nprev \in ranges /\ nprev.off = r.off + r.size
        /\ pc # "add" => pred = "lt" /\ snap.off \in Nat /\ (pc = "snap" => snap.size > 0)

\* ravl_find() of a non-empty tree finds the last range that does not begin behind e.
LEMMA FoundIs ==
    ASSUME ranges \subseteq TxRange, NEW e \in Int
    PROVE  \/ Found(e) = None /\ Below(e) = {}
           \/ Found(e) \in Below(e) /\ \A x \in Below(e) : x.off <= Found(e).off
  <1>1. CASE Below(e) = {}
    BY <1>1 DEF Found
  <1>2. CASE Below(e) # {}
    <2> DEFINE T == {e - x.off : x \in Below(e)}
    <2>1. T \in SUBSET Nat /\ T # {}
      BY <1>2 DEF Below, TxRange
    <2>2. PICK n \in T : \A m \in T : n <= m
      BY Zenon, <2>1, Least
    <2>3. PICK f \in Below(e) : n = e - f.off
      BY <2>2
    <2>4. \A x \in Below(e) : x.off <= f.off
      BY <2>2, <2>3 DEF Below, TxRange
    <2> QED
      BY <1>2, <2>4 DEF Found
  <1> QED
    BY <1>1, <1>2

\* The ranges on either side of the end of r: they end before f or begin behind r.
LEMMA Around ==
    ASSUME RangeOK, LoopOK, pc = "add", r.size # 0
    PROVE  LET rend == r.off + r.size
               f == Found(rend)
           IN  /\ r.off \in Nat /\ rend \in Nat /\ r.size \in Nat
               /\ f = None \/ (f \in ranges /\ f.off \in Nat /\ f.size \in Nat /\ f.size > 0 /\ f.off <= rend)
               /\ f # None /\ f.off = rend => pred = "le"
               /\ \A x \in ranges : \/ x = f
                                    \/ f # None /\ x.off + x.size <= f.off
                                    \/ x.off >= rend /\ (x = nprev \/ x.off >= rend + nprev.size)
  <1> DEFINE rend == r.off + r.size
             f == Found(rend)
  <1>1. r.off \in Nat /\ r.size \in Nat /\ rend \in Nat
    BY DEF RangeOK, LoopOK, Span
  <1>2. \/ f = None /\ Below(rend) = {}
        \/ f \in Below(rend) /\ \A x \in Below(rend) : x.off <= f.off
    BY <1>1, FoundIs DEF RangeOK
  <1>3. f # None => f \in ranges /\ f.off <= rend /\ (f.off = rend => pred = "le")
    BY <1>1, <1>2 DEF Below, RangeOK, TxRange
  <1>4. ASSUME NEW x \in ranges, x # f, x \in Below(rend)
        PROVE  f # None /\ x.off + x.size <= f.off
    <2>1. f \in Below(rend) /\ x.off <= f.off
      BY <1>2, <1>4
    <2>3. f \in ranges /\ None \notin ranges
      BY <2>1 DEF Below, RangeOK, TxRange, None
    <2>2. x.off + x.size <= f.off \/ f.off + f.size <= x.off
      BY <1>4, <2>3 DEF RangeOK, Apart
    <2> QED
      BY <2>1, <2>2, <2>3 DEF RangeOK, TxRange
  <1>5. ASSUME NEW x \in ranges, x \notin Below(rend)
        PROVE  x.off >= rend /\ (x = nprev \/ x.off >= rend + nprev.size)
    <2>1. x.off >= rend /\ x.off \in Nat
      BY <1>1, <1>5 DEF Below, RangeOK, TxRange
    <2>2. CASE nprev = None
      BY <2>1, <2>2, <1>1 DEF None
    <2>3. CASE nprev # None
      BY <2>1, <2>3, <1>1 DEF RangeOK, LoopOK, Apart, TxRange
    <2> QED
      BY <2>1, <2>2, <2>3
  <1>6. f # None => f.off \in Nat /\ f.size \in Nat /\ f.size > 0
    BY <1>3 DEF RangeOK, TxRange
  <1> QED
    BY <1>1, <1>3, <1>4, <1>5, <1>6

\* What a turn of the loop does to the ranges: they grow by the words to be saved.
LEMMA Turn ==
    ASSUME RangeOK, LoopOK, AddNew \/ AddInside \/ AddBeyond
    PROVE  /\ ranges' \subseteq TxRange /\ (\A x \in ranges' : x.size > 0) /\ Apart'
           /\ Covered' = Covered \cup Words(snap)'
           /\ Words(snap)' \cap Covered = {} /\ Words(snap)' \subseteq Words(r) /\ Words(r)' \subseteq Words(r)
           /\ r' \in Span /\ nprev' \in Span /\ snap' \in Span
           /\ IF pc' = "snap" THEN snap'.off \in Nat /\ snap'.size > 0 ELSE pc' = "add" /\ snap'.size = 0
           /\ r'.size # 0 => /\ r'.off \in Nat /\ nprev' # None
                             /\ nprev' \in ranges' /\ nprev'.off = r'.off + r'.size
  <1> DEFINE rend == r.off + r.size
             f == Found(rend)
             fend == f.off + f.size
  <1>0. pc = "add" /\ r.size # 0 /\ r \in Span /\ nprev \in Span /\ snap \in Span /\ snap.size = 0
    BY DEF AddNew, AddInside, AddBeyond, InAdd, RangeOK
  <1>1. /\ r.off \in Nat /\ rend \in Nat /\ r.size \in Nat
        /\ f = None \/ (f \in ranges /\ f.off \in Nat /\ f.size \in Nat /\ f.size > 0 /\ f.off <= rend)
        /\ f # None /\ f.off = rend => pred = "le"
        /\ \A x \in ranges : \/ x = f
                             \/ f # None /\ x.off + x.size <= f.off
                             \/ x.off >= rend /\ (x = nprev \/ x.off >= rend + nprev.size)
    BY <1>0, Around
  <1>2. nprev = None \/ (nprev \in ranges /\ nprev.off = rend /\ nprev.size > 0)
    BY <1>0 DEF LoopOK, RangeOK
  <1>3. ranges \subseteq TxRange /\ (\A x \in ranges : x.size > 0) /\ Apart
    BY DEF RangeOK
  <1> HIDE DEF f, rend
  <1>4. CASE AddNew
    <2>1. /\ f = None \/ f.off + f.size < r.off
          /\ ranges' = IF nprev = None THEN ranges \cup {r}
                       ELSE (ranges \ {nprev}) \cup {[off |-> nprev.off - r.size, size |-> nprev.size + r.size]}
          /\ snap' = r /\ r' = None /\ nprev' = nprev /\ pc' = "snap"
      BY <1>4 DEF AddNew, f, rend
    <2> DEFINE n == IF nprev = None THEN r ELSE [off |-> nprev.off - r.size, size |-> nprev.size + r.size]
    <2>2. ranges' = (ranges \ {nprev}) \cup {n}
      BY <1>3, <2>1 DEF None, TxRange
    <2>3. n \in TxRange /\ n.off = r.off /\ n.size = r.size + nprev.size
      BY <1>0, <1>1, <1>2 DEF TxRange, Span, None, rend
    <2>a. ASSUME NEW x \in ranges
          PROVE  /\ x.off \in Nat /\ x.size \in Nat
                 /\ \/ x.off + x.size <= r.off
                    \/ x.off >= rend /\ (x = nprev \/ x.off >= rend + nprev.size)
      <3>1. x.off \in Nat /\ x.size \in Nat
        BY <1>3 DEF TxRange
      <3>2. CASE x = f
        BY <2>1, <3>1, <3>2, <1>1 DEF TxRange, None
      <3>3. CASE x # f
        BY <1>1, <2>1, <3>1, <3>3
      <3> QED
        BY <3>1, <3>2, <3>3
    <2>4. \A x \in ranges \ {nprev} : x.off + x.size <= n.off \/ n.off + n.size <= x.off
      BY <1>0, <1>1, <2>3, <2>a DEF Span, rend
    <2>5. Words(n) = Words(r) \cup Words(nprev)
      BY <1>0, <1>1, <1>2, <2>3 DEF Words, Span, None, rend
    <2>6. \A x \in ranges : Words(x) \cap Words(r) = {}
      BY <1>1, <2>a DEF Words, rend
    <2> HIDE DEF n
    <2>7. Apart'
      BY <1>3, <2>2, <2>4 DEF Apart
    <2>8. Covered' = Covered \cup Words(r)
      BY <1>2, <2>2, <2>5 DEF Covered, None, Words
    <2> QED
      BY <1>0, <1>1, <1>3, <2>1, <2>2, <2>3, <2>6, <2>7, <2>8 DEF Covered, Span, None, Words
  <1>5. CASE AddInside
    <2> DEFINE g == [f EXCEPT !.size = @ + (rend - fend) + nprev.size]
    <2>1. /\ f # None /\ r.off <= fend /\ fend <= rend
          /\ ranges' = (ranges \ {f, nprev}) \cup {g}
          /\ r' = [r EXCEPT !.size = @ - (rend - Larger(f.off, r.off))]
          /\ nprev' = g /\ snap' = [off |-> fend, size |-> rend - fend]
          /\ pc' = IF fend = rend THEN "add" ELSE "snap"
      BY <1>5 DEF AddInside, f, rend
    <2>2. /\ f \in TxRange /\ f.off \in Nat /\ f.size \in Nat /\ f.off < rend
          /\ g \in TxRange /\ g.off = f.off /\ g.size = (rend - f.off) + nprev.size
      BY <1>0, <1>1, <1>3, <2>1 DEF TxRange, Span
    <2>3. r' \in Span /\ r'.off = r.off /\ r'.size = Larger(f.off, r.off) - r.off
      <3>1. Larger(f.off, r.off) \in Nat /\ Larger(f.off, r.off) >= r.off
        BY <1>1, <2>2 DEF Larger
      <3> QED
        BY <1>0, <1>1, <2>1, <3>1 DEF Span, rend
    <2>4. ASSUME NEW x \in ranges, x # f
          PROVE  /\ x.off \in Nat /\ x.size \in Nat
                 /\ x.off + x.size <= f.off \/ (x.off >= rend /\ (x = nprev \/ x.off >= rend + nprev.size))
      BY <1>1, <1>3, <2>4 DEF TxRange
    <2>5. \A x \in ranges \ {f, nprev} : x.off + x.size <= g.off \/ g.off + g.size <= x.off
      BY <1>0, <1>1, <2>2, <2>4 DEF Span
    <2>6. Words(g) = Words(f) \cup Words(snap)' \cup Words(nprev)
      BY <1>0, <1>1, <1>2, <2>1, <2>2 DEF Words, Span, None
    <2>7. \A x \in ranges : Words(x) \cap Words(snap)' = {}
      BY <1>1, <2>1, <2>2, <2>4 DEF Words
    <2>8. Words(snap)' \subseteq Words(r) /\ Words(r)' \subseteq Words(r)
      BY <1>1, <2>1, <2>2, <2>3 DEF Words, Larger, rend
    <2> HIDE DEF g
    <2>9. Apart'
      BY <1>3, <2>1, <2>5 DEF Apart
    <2>10. Covered' = Covered \cup Words(snap)'
      BY <1>1, <1>2, <2>1, <2>6 DEF Covered, None, Words
    <2>11. g.size > 0 /\ snap' \in Span /\ nprev' \in Span
      BY <1>0, <1>1, <2>1, <2>2 DEF TxRange, Span
    <2>12. r'.size # 0 => nprev'.off = r'.off + r'.size /\ nprev' # None
      BY <1>1, <2>1, <2>2, <2>3 DEF Larger, None
    <2>13. IF pc' = "snap" THEN snap'.off \in Nat /\ snap'.size > 0 ELSE pc' = "add" /\ snap'.size = 0
      BY <1>1, <2>1, <2>2
    <2> QED
      BY SMTT(20), <1>1, <1>3, <2>1, <2>2, <2>3, <2>7, <2>8, <2>9, <2>10, <2>11, <2>12, <2>13 DEF Covered
  <1>6. CASE AddBeyond
    <2>1. /\ f # None /\ fend > rend
          /\ r' = [r EXCEPT !.size = @ - (rend - Larger(f.off, r.off))]
          /\ nprev' = f /\ UNCHANGED <<ranges, snap, pc>>
      BY <1>6 DEF AddBeyond, f, rend
    <2>2. r' \in Span /\ r'.off = r.off /\ r'.size = Larger(f.off, r.off) - r.off
      BY <1>0, <1>1, <2>1 DEF Span, Larger, rend
    <2>3. Words(snap)' = {} /\ Words(r)' \subseteq Words(r)
      BY <1>0, <1>1, <2>1, <2>2 DEF Span, Words, Larger, rend
    <2>4. Apart' /\ Covered' = Covered
      BY <1>3, <2>1 DEF Apart, Covered
    <2>5. r'.size # 0 => nprev'.off = r'.off + r'.size
      BY <1>1, <2>1, <2>2 DEF Larger
    <2> QED
      BY <1>0, <1>1, <1>3, <2>1, <2>2, <2>3, <2>4, <2>5 DEF TxRange, Span
  <1> QED
    BY <1>4, <1>5, <1>6

------------------------------------------------------------------------------
\* A snapshot of words of the pool.
Snap ==
    {e \in [off : Nat, size : Nat \ {0}, data : UNION {[S -> Val] : S \in SUBSET Word}, dat : {TRUE}] :
        Words(e) \subseteq Word /\ e.data \in [Words(e) -> Val]}

UndoTypes == large \in Seq(Snap) /\ vec \in Seq(Seq(Snap))

\* The data of a snapshot is on the media before its header is stored.
LEMMA SnapshotIs ==
    ASSUME mem \in [Word -> Val], NEW x, x.off \in Nat, x.size \in Nat \ {0}, Words(x) \subseteq Word
    PROVE  /\ Snapshot(x) \in Snap /\ Words(Snapshot(x)) = Words(x)
           /\ Snapshot(x).data = [w \in Words(x) |-> mem[w]]
  <1>1. Words(Snapshot(x)) = Words(x) /\ [w \in Words(x) |-> mem[w]] \in [Words(x) -> Val]
    BY DEF Snapshot, Words
  <1> QED
    BY Zenon, <1>1 DEF Snap, Snapshot

\* A snapshot is on the media as it was taken.
LEMMA OnMediaIs == \A e \in Snap : OnMedia(e) = e
  BY Zenon DEF OnMedia, Snap

\* The undo log as pairs of a list and a place in it.
LEMMA UndoIs ==
    /\ \A k, i : <<k, i>> \in Undo <=> k \in 0 .. Last /\ i \in 1 .. Len(Snapshots(k))
    /\ \A p \in Undo : p = <<p[1], p[2]>> /\ p[1] \in 0 .. Last /\ p[2] \in 1 .. Len(Snapshots(p[1]))
  BY DEF Undo

\* What a power loss may do to a snapshot; the first cache is not zeroed in order of addresses.
Alike(a, b) == a.off = b.off /\ a.size = b.size /\ (MemsetInOrder => a = b)

UndoSame == Undo' = Undo /\ \A p \in Undo : At(p)' = At(p)
UndoKept == Undo' \subseteq Undo /\ \A p \in Undo' : Alike(At(p)', At(p))

\* A step that leaves lists and counter alone.
LEMMA Untouched == ASSUME UNCHANGED <<large, vec, nc>> PROVE UndoSame
  BY DEF UndoSame, Undo, At, Snapshots, Last

\* A step that shortens lists.
LEMMA Shortened ==
    ASSUME \A k \in (0 .. Last)' : \A i \in 1 .. Len(Snapshots(k)') :
              k \in 0 .. Last /\ i \in 1 .. Len(Snapshots(k)) /\ Alike(Snapshots(k)'[i], Snapshots(k)[i])
    PROVE  UndoKept
  <1>1. ASSUME NEW p \in Undo' PROVE p \in Undo /\ Alike(At(p)', At(p))
    <2>1. p = <<p[1], p[2]>> /\ p[1] \in (0 .. Last)' /\ p[2] \in 1 .. Len(Snapshots(p[1])')
      BY <1>1 DEF Undo
    <2> QED
      BY <2>1, UndoIs DEF At
  <1> QED
    BY <1>1 DEF UndoKept

\* A step that adds empty lists.
LEMMA Relisted ==
    ASSUME \A k \in 0 .. Last : k \in (0 .. Last)' /\ Snapshots(k)' = Snapshots(k),
           \A k \in (0 .. Last)' : k \in 0 .. Last \/ Len(Snapshots(k)') = 0
    PROVE  UndoSame
  <1>1. ASSUME NEW p \in Undo PROVE p \in Undo' /\ At(p)' = At(p)
    <2>1. p = <<p[1], p[2]>> /\ p[1] \in 0 .. Last /\ p[2] \in 1 .. Len(Snapshots(p[1]))
      BY <1>1, UndoIs
    <2> QED
      BY <2>1 DEF Undo, At
  <1>2. ASSUME NEW p \in Undo' PROVE p \in Undo
    <2>1. p = <<p[1], p[2]>> /\ p[1] \in (0 .. Last)' /\ p[2] \in 1 .. Len(Snapshots(p[1])')
      BY <1>2 DEF Undo
    <2> QED
      BY <2>1, UndoIs
  <1> QED
    BY Zenon, <1>1, <1>2 DEF UndoSame

\* A step that appends a snapshot to a list.
LEMMA Appended ==
    ASSUME UNCHANGED Last, NEW k \in 0 .. Last, NEW e,
           Snapshots(k) \in Seq(Snap), Snapshots(k)' = Append(Snapshots(k), e),
           \A m \in 0 .. Last : m # k => Snapshots(m)' = Snapshots(m)
    PROVE  \E q : /\ q \notin Undo /\ Undo' = Undo \cup {q} /\ At(q)' = e
                  /\ \A p \in Undo : At(p)' = At(p)
  <1>1. PICK n \in Nat : Len(Snapshots(k)) = n
    OBVIOUS
  <1> DEFINE q == <<k, n + 1>>
  <1>2. /\ Len(Snapshots(k)') = n + 1 /\ Snapshots(k)'[n + 1] = e
        /\ \A i \in 1 .. n : Snapshots(k)'[i] = Snapshots(k)[i]
    BY <1>1
  <1>3. q \notin Undo
    BY <1>1, UndoIs
  <1>4. ASSUME NEW p \in Undo PROVE p \in Undo' /\ At(p)' = At(p)
    <2>1. p = <<p[1], p[2]>> /\ p[1] \in 0 .. Last /\ p[2] \in 1 .. Len(Snapshots(p[1]))
      BY UndoIs
    <2>2. p[2] \in 1 .. Len(Snapshots(p[1])') /\ Snapshots(p[1])'[p[2]] = Snapshots(p[1])[p[2]]
      BY <1>1, <1>2, <2>1
    <2> QED
      BY <2>1, <2>2 DEF Undo, At
  <1>5. q \in Undo' /\ At(q)' = e
    BY <1>2 DEF Undo, At
  <1>6. ASSUME NEW p \in Undo', p # q PROVE p \in Undo
    <2>1. p = <<p[1], p[2]>> /\ p[1] \in 0 .. Last /\ p[2] \in 1 .. Len(Snapshots(p[1])')
      BY <1>6 DEF Undo
    <2>2. p[2] \in 1 .. Len(Snapshots(p[1]))
      BY <1>1, <1>2, <1>6, <2>1
    <2> QED
      BY <2>1, <2>2, UndoIs
  <1> HIDE DEF q
  <1>7. Undo' = Undo \cup {q}
    BY Zenon, <1>4, <1>5, <1>6
  <1> QED
    BY Zenon, <1>3, <1>4, <1>5, <1>7

------------------------------------------------------------------------------
\* Where a thread can be, given the stage and the depth of its transaction.
ControlOK ==
    /\ last_errnum \in BOOLEAN /\ (stage = "work" => depth > 0 /\ last_errnum = FALSE)
    /\ pc \in {"add", "snap", "header"} => stage = "work"
    /\ pc \in {"publish", "post"} => stage = "work" /\ depth = 1
    /\ pc \in {"restore", "pop", "poplarge"} =>
          (depth = 0 /\ stage = "none") \/ (depth = 1 /\ stage = "onabort")
    /\ pc = "zero" => (depth = 0 /\ stage = "none") \/ (depth = 1 /\ stage \in {"onabort", "work"})
    /\ pc = "user" /\ depth = 0 => stage = "none"

Stages == {"none", "work", "oncommit", "onabort", "finally"}
Places == {"user", "add", "snap", "header", "publish", "post", "restore", "pop", "zero", "poplarge"}

\* The control of a transaction stays where it can be.
LEMMA ControlNext ==
    ASSUME ControlOK, stage \in Stages, depth \in 0 .. MaxDepth, pc \in Places, Next
    PROVE  (ControlOK /\ stage \in Stages /\ depth \in 0 .. MaxDepth /\ pc \in Places)'
  <1> USE BoundAssumption DEF Stages, Places
  <1>1. CASE Begin
    <2>1. pc' = "user" /\ depth' \in 1 .. MaxDepth /\ stage' = "work" /\ last_errnum' = FALSE
      BY <1>1 DEF Begin, InUser
    <2>2. last_errnum' \in BOOLEAN
      BY Zenon, <2>1
    <2> HIDE DEF Places, Stages
    <2>3. stage' \in Stages /\ depth' \in 0 .. MaxDepth /\ depth' > 0 /\ depth' # 0 /\ pc' \in Places
      BY <2>1 DEF Stages, Places
    <2> QED
      BY Zenon, <2>1, <2>2, <2>3 DEF ControlOK
  <1>2. CASE Store
    BY <1>2 DEF Store, InWork, InUser, ControlOK, tx
  <1>3. CASE Alloc
    BY <1>3 DEF Alloc, InWork, InUser, ControlOK, tx
  <1>4. CASE Free
    BY <1>4 DEF Free, InWork, InUser, ControlOK, tx
  <1>5. CASE AddRange
    BY <1>5 DEF AddRange, InWork, InUser, ControlOK, tx
  <1>6. CASE AddNew
    BY <1>6 DEF AddNew, InAdd, ControlOK, tx
  <1>7. CASE AddInside
    <2>1. pc' \in {"add", "snap"} /\ UNCHANGED tx /\ pc = "add"
      BY <1>7 DEF AddInside, InAdd
    <2> QED
      BY <2>1 DEF ControlOK, tx
  <1>8. CASE AddBeyond
    BY <1>8 DEF AddBeyond, InAdd, ControlOK, tx
  <1>9. CASE AddDone
    BY <1>9 DEF AddDone, InAdd, ControlOK, tx
  <1>10. CASE SnapLarge
    BY <1>10 DEF SnapLarge, InSnap, ControlOK, tx
  <1>11. CASE NewCache
    BY <1>11 DEF NewCache, InSnap, ControlOK, tx
  <1>12. CASE SnapSmall
    BY <1>12 DEF SnapSmall, InSnap, ControlOK, tx
  <1>13. CASE SnapHeader
    BY <1>13 DEF SnapHeader, ControlOK, tx
  <1>14. CASE Abort
    BY <1>14 DEF Abort, AbortTx, InWork, InUser, ControlOK
  <1>15. CASE OutOfMemory
    BY <1>15 DEF OutOfMemory, AbortTx, InWork, InUser, ControlOK
  <1>16. CASE CommitInner
    BY <1>16 DEF CommitInner, InWork, InUser, ControlOK
  <1>17. CASE PreCommit
    BY <1>17 DEF PreCommit, InWork, InUser, ControlOK, tx
  <1>18. CASE Publish
    BY <1>18 DEF Publish, ControlOK, tx
  <1>19. CASE PostCommit
    BY <1>19 DEF PostCommit, CommitDone, ControlOK, tx
  <1>20. CASE RestoreRange
    BY <1>20 DEF RestoreRange, ControlOK, tx
  <1>21. CASE RestoreNext
    BY <1>21 DEF RestoreNext, ControlOK, tx
  <1>22. CASE PopCache
    BY <1>22 DEF PopCache, Restored, ControlOK, tx
  <1>23. CASE PopDone
    BY <1>23 DEF PopDone, Restored, ControlOK, tx
  <1>24. CASE Zeroed
    BY <1>24 DEF Zeroed, CommitDone, ControlOK, tx
  <1>25. CASE PopLarge
    BY <1>25 DEF PopLarge, ControlOK, tx
  <1>26. CASE Process
    BY <1>26 DEF Process, InUser, ControlOK
  <1>27. CASE End
    <2>1. CASE AbortTx(depth - 1)
      <3>1. /\ stage' = "onabort" /\ last_errnum' = TRUE /\ depth' = depth - 1 /\ depth > 0
            /\ pc' = IF depth - 1 = 1 THEN "restore" ELSE "user"
        BY <1>27, <2>1 DEF End, AbortTx
      <3> QED
        BY <3>1, <2>1, <1>27 DEF ControlOK, End
    <2>2. CASE ~ AbortTx(depth - 1)
      <3>1. /\ depth > 0 /\ depth' = depth - 1 /\ pc' = "user" /\ UNCHANGED last_errnum
            /\ stage' = IF depth = 1 THEN "none" ELSE "work"
        BY <1>27, <2>2 DEF End, InUser
      <3>2. depth > 1 => last_errnum = FALSE
        BY Zenon, <1>27, <2>2 DEF End, ControlOK
      <3> QED
        BY <3>1, <3>2 DEF ControlOK
    <2> QED
      BY <2>1, <2>2
  <1>28. CASE Crash
    <2>1. pc' = "restore" /\ depth' = 0 /\ stage' = "none" /\ last_errnum' = FALSE
      BY Zenon, <1>28 DEF Crash
    <2>2. last_errnum' \in BOOLEAN
      BY Zenon, <2>1
    <2> HIDE DEF Places, Stages
    <2>3. stage' \in Stages /\ depth' \in 0 .. MaxDepth /\ pc' \in Places
      BY <2>1 DEF Stages, Places
    <2> QED
      BY Zenon, <2>1, <2>2, <2>3 DEF ControlOK
  <1> QED
    BY Zenon, <1>1, <1>2, <1>3, <1>4, <1>5, <1>6, <1>7, <1>8, <1>9, <1>10, <1>11, <1>12, <1>13, <1>14, <1>15,
       <1>16, <1>17, <1>18, <1>19, <1>20, <1>21, <1>22, <1>23, <1>24, <1>25, <1>26, <1>27, <1>28 DEF Next

\* The steps that touch the pool.
LEMMA PoolFrame ==
    ASSUME Next
    PROVE  UNCHANGED <<mem, media, heap>> \/ Store \/ Alloc \/ PreCommit \/ Publish \/ RestoreRange \/ Crash
  BY Zenon DEF Next, Begin, Free, AddRange, AddNew, AddInside, AddBeyond, AddDone, SnapLarge, NewCache,
     SnapSmall, SnapHeader, Abort, OutOfMemory, CommitInner, PostCommit, RestoreNext, PopCache, PopDone,
     Zeroed, PopLarge, Process, End, InAdd, InSnap, InUndo, AbortTx, persistent

\* The steps that touch the undo log.
LEMMA UndoFrame ==
    ASSUME Next
    PROVE  \/ /\ UNCHANGED <<large, vec, nc>> /\ (cache_offset' = 0 \/ UNCHANGED cache_offset)
              /\ pc # "post" /\ pc' # "post" /\ pc # "zero" /\ (pc = "pop" => PopDone)
              /\ \/ depth = 0 /\ Begin
                 \/ UNCHANGED cache_offset /\ (UNCHANGED depth \/ depth' = depth - 1 \/ (depth > 0 /\ Begin))
           \/ SnapLarge \/ NewCache \/ SnapSmall \/ SnapHeader \/ Publish \/ PostCommit
           \/ PopCache \/ Zeroed \/ PopLarge \/ Crash
  BY Zenon DEF Next, Begin, Store, Alloc, Free, AddRange, AddNew, AddInside, AddBeyond, AddDone,
     Abort, OutOfMemory, CommitInner, PreCommit, RestoreRange, RestoreNext, PopDone, Restored, AbortTx,
     Process, End, InUser, InWork, InAdd, InUndo, persistent, lane, tx

\* The values in the pool.
PoolOK ==
    /\ mem \in [Word -> Val] /\ media \in [Word -> SUBSET Val] /\ heap \subseteq Obj
    /\ \A w \in Word : mem[w] \in media[w]

ActOK == actions \subseteq [type : {"alloc", "free"}, what : Obj] \cup [type : {"clear", "drop"}, what : Nat]

\* The snapshot that is restored next is one of the log.
CursorOK == zero_all \in BOOLEAN /\ (pc = "restore" => list \in 0 .. Last /\ ri \in 0 .. Len(Snapshots(list)))

\* The lists of the undo log hold snapshots.
LEMMA Listed ==
    ASSUME UndoTypes, nc \in Nat
    PROVE  /\ Last \in Nat /\ \A k \in 0 .. Last : Snapshots(k) \in Seq(Snap) /\ Len(Snapshots(k)) \in Nat
           /\ \A p \in Undo : At(p) \in Snap
  <1>1. Len(vec) \in Nat /\ Last \in 0 .. Len(vec)
    BY DEF UndoTypes, Last
  <1>2. ASSUME NEW k \in 0 .. Last PROVE Snapshots(k) \in Seq(Snap)
    BY <1>1 DEF UndoTypes, Snapshots
  <1>3. \A k \in 0 .. Last : Len(Snapshots(k)) \in Nat
    BY <1>2
  <1>4. ASSUME NEW p \in Undo PROVE At(p) \in Snap
    BY <1>2, UndoIs DEF At
  <1> QED
    BY <1>1, <1>2, <1>3, <1>4

\* The pool keeps values of its type, one of which is what the CPU sees.
LEMMA PoolNext ==
    ASSUME PoolOK, ActOK, UndoTypes, nc \in Nat, CursorOK, Covered \subseteq Word, Next
    PROVE  PoolOK'
  <1>1. CASE UNCHANGED <<mem, media, heap>>
    BY <1>1 DEF PoolOK
  <1>2. CASE Store
    BY <1>2 DEF Store, PoolOK
  <1>3. CASE Alloc
    BY <1>3, ValAssumption DEF Alloc, PoolOK, Word
  <1>4. CASE PreCommit
    BY <1>4 DEF PreCommit, PoolOK
  <1>5. CASE Publish
    <2>1. heap' \subseteq Obj
      BY <1>5 DEF Publish, Acted, ActOK, PoolOK
    <2> QED
      BY <1>5, <2>1 DEF Publish, PoolOK
  <1>6. CASE RestoreRange
    <2> DEFINE e == Snapshots(list)[ri + 1]
    <2>1. e \in Snap
      BY <1>6, Listed DEF RestoreRange, CursorOK
    <2>2. \A w \in Words(e) : e.data[w] \in Val
      BY Zenon, <2>1 DEF Snap
    <2> QED
      BY <1>6, <2>2 DEF RestoreRange, PoolOK
  <1>7. CASE Crash
    <2>1. PICK m \in [{w \in Word : media[w] # {mem[w]}} -> Val] :
             /\ \A w \in DOMAIN m : m[w] \in media[w]
             /\ mem' = [w \in Word |-> IF w \in DOMAIN m THEN m[w] ELSE mem[w]]
             /\ media' = [w \in Word |-> {mem'[w]}]
      BY Zenon, <1>7 DEF Crash
    <2>2. mem' \in [Word -> Val]
      BY <2>1 DEF PoolOK
    <2> QED
      BY <1>7, <2>1, <2>2 DEF Crash, PoolOK
  <1> QED
    BY Zenon, <1>1, <1>2, <1>3, <1>4, <1>5, <1>6, <1>7, PoolFrame

------------------------------------------------------------------------------
\* How many caches there are, and how many of them are in use.
LenOK ==
    /\ nc \in Nat /\ cache_offset \in 0 .. CacheSize /\ UndoTypes
    /\ IF pc = "post" THEN Len(vec) <= 2 /\ (nc > 0 <=> Len(vec) > 0)
       ELSE nc <= Len(vec) /\ (nc # 1 => Len(vec) = nc) /\ (nc = 1 => Len(vec) <= 2)
    /\ \A k \in nc + 1 .. Len(vec) : vec[k] = <<>>

\* A transaction that is not to be aborted.
Open == pc \in {"user", "add", "snap", "header"} /\ last_errnum = FALSE /\ (stage = "work" \/ depth > 1)

\* tx_publish() frees every cache but the first two, and empties the second.
DropOK == Open \/ pc = "publish" => Acted("drop") = 3 .. nc /\ (nc > 1 => 2 \in Acted("clear"))

\* pmemobj_tx_get_range_cache() puts an empty cache behind the ones in use.
LEMMA CacheMade ==
    ASSUME LenOK, pc # "post", NewCache
    PROVE  /\ UndoTypes' /\ Len(vec') = nc + 1 /\ vec'[nc + 1] = <<>>
           /\ \A k \in 1 .. nc : vec'[k] = vec[k]
           /\ UndoSame
  <1> DEFINE a == SubSeq(vec, 1, nc)
             b == SubSeq(vec, nc + 2, Len(vec))
  <1>1. vec \in Seq(Seq(Snap)) /\ nc \in Nat /\ Len(vec) \in nc .. nc + 1 /\ vec' = a \o <<<<>>>> \o b
    BY DEF LenOK, UndoTypes, NewCache
  <1>2. a \in Seq(Seq(Snap)) /\ Len(a) = nc /\ \A k \in 1 .. nc : a[k] = vec[k]
    BY <1>1
  <1>3. b = <<>>
    BY <1>1
  <1> HIDE DEF a, b
  <1>4. <<>> \in Seq(Snap)
    OBVIOUS
  <1>5. vec' = Append(a, <<>>) /\ UNCHANGED large /\ nc' = nc + 1
    <2>2. a \o <<<<>>>> = Append(a, <<>>) /\ Append(a, <<>>) \in Seq(Seq(Snap))
      BY <1>2, <1>4
    <2>3. vec' = Append(a, <<>>)
      BY <1>1, <1>3, <2>2
    <2> QED
      BY Zenon, <2>3 DEF NewCache
  <1>6. vec' \in Seq(Seq(Snap)) /\ Len(vec') = nc + 1 /\ vec'[nc + 1] = <<>> /\ \A k \in 1 .. nc : vec'[k] = vec[k]
    <2>1. Append(a, <<>>) \in Seq(Seq(Snap)) /\ Len(Append(a, <<>>)) = nc + 1 /\ Append(a, <<>>)[nc + 1] = <<>>
      BY <1>1, <1>2, <1>4
    <2>2. \A k \in 1 .. nc : Append(a, <<>>)[k] = vec[k]
      BY <1>1, <1>2, <1>4
    <2> QED
      BY Zenon, <1>5, <2>1, <2>2
  <1>7. UndoTypes'
    BY <1>5, <1>6 DEF LenOK, UndoTypes
  <1>8. UndoSame
    <2>1. Last = nc /\ Last' = nc + 1
      BY <1>1, <1>5, <1>6 DEF Last
    <2>2. ASSUME NEW k \in 0 .. nc PROVE Snapshots(k)' = Snapshots(k)
      BY <1>1, <1>5, <1>6 DEF Snapshots
    <2>3. ASSUME NEW k, k = nc + 1 PROVE Len(Snapshots(k)') = 0
      BY <1>1, <1>5, <1>6, <2>3 DEF Snapshots
    <2> QED
      BY <1>1, <2>1, <2>2, <2>3, Relisted
  <1> QED
    BY <1>6, <1>7, <1>8

\* A snapshot, or the part of it that fits into the cache, is added to the log.
LEMMA SnapTaken ==
    ASSUME LenOK, PoolOK, snap \in Span, snap.off \in Nat, Words(snap) \subseteq Word, SnapLarge \/ SnapSmall
    PROVE  \E e \in Snap, q \in Undo' :
              /\ Words(snap) = Words(e) \cup Words(snap)' /\ Words(e) \cap Words(snap)' = {}
              /\ e.data = [w \in Words(e) |-> mem[w]]
              /\ q \notin Undo /\ Undo' = Undo \cup {q} /\ At(q)' = e /\ \A p \in Undo : At(p)' = At(p)
              /\ UndoTypes' /\ Len(vec') = Len(vec) /\ \A k \in nc + 1 .. Len(vec) : vec'[k] = vec[k]
              /\ snap' \in Span
              /\ SnapSmall => /\ nc > 0 /\ Len(vec'[nc]) > 0 /\ vec'[nc][Len(vec'[nc])] = e
                              /\ snap'.off \in Nat /\ cache_offset' \in 1 .. CacheSize
  <1>0. snap.size \in Nat \ {0} /\ snap.size \in Nat /\ pc = "snap"
    BY DEF SnapLarge, SnapSmall, InSnap, Span
  <1>1. CASE SnapLarge
    <2> DEFINE e == Snapshot(snap)
    <2>1. e \in Snap /\ Words(e) = Words(snap) /\ e.data = [w \in Words(snap) |-> mem[w]]
      BY <1>0, SnapshotIs DEF PoolOK
    <2>2. OnMedia(e) = e /\ snap' = None /\ UNCHANGED <<vec, nc>> /\ large' = Append(large, OnMedia(e)) /\ ~ SnapSmall
      BY <1>1, <2>1, OnMediaIs DEF SnapLarge, SnapSmall, Span
    <2>3. Words(snap)' = {} /\ snap' \in Span
      BY <2>2 DEF Words, None, Span
    <2> HIDE DEF e
    <2>4. large \in Seq(Snap) /\ vec \in Seq(Seq(Snap)) /\ large' = Append(large, e) /\ UndoTypes'
      BY <2>1, <2>2 DEF LenOK, UndoTypes
    <2>5. UNCHANGED Last /\ 0 \in 0 .. Last /\ Snapshots(0) = large /\ Snapshots(0)' = large'
      BY <2>2, <2>4 DEF Last, Snapshots, LenOK
    <2>6. ASSUME NEW m \in 0 .. Last, m # 0 PROVE Snapshots(m)' = Snapshots(m)
      BY <2>2, <2>6 DEF Snapshots
    <2>7. \E q : q \notin Undo /\ Undo' = Undo \cup {q} /\ At(q)' = e /\ \A p \in Undo : At(p)' = At(p)
      BY Zenon, <2>4, <2>5, <2>6, Appended
    <2> QED
      BY Zenon, <2>1, <2>2, <2>3, <2>4, <2>7
  <1>2. CASE SnapSmall
    <2> DEFINE n == IF CacheLeft < snap.size + Hdr THEN CacheLeft - Hdr ELSE snap.size
               x == [snap EXCEPT !.size = n]
               e == Snapshot(x)
    <2>1. CacheLeft \in Nat /\ CacheLeft > 1 /\ nc > 0 /\ nc \in Nat /\ cache_offset \in Nat /\ CacheSize \in Nat
      BY <1>2, CacheAssumption DEF SnapSmall, NeedsCache, CacheLeft, Hdr, LenOK
    <2>2. n \in 1 .. snap.size /\ n \in Nat /\ cache_offset + n + 1 <= CacheSize
      BY <1>0, <2>1 DEF Hdr, CacheLeft
    <2>3. /\ vec' = [vec EXCEPT ![nc] = Append(@, e)] /\ UNCHANGED <<large, nc>>
          /\ cache_offset' = cache_offset + n + 1
          /\ snap' = [off |-> snap.off + n, size |-> snap.size - n]
      BY <1>2 DEF SnapSmall, Hdr
    <2>4. x.off = snap.off /\ x.size = n
      BY DEF Span
    <2> HIDE DEF n, x
    <2>5. snap' \in Span /\ snap'.off \in Nat /\ cache_offset' \in 1 .. CacheSize
      BY SMTT(20), <1>0, <2>1, <2>2, <2>3 DEF Span
    <2>6. Words(snap) = Words(x) \cup Words(snap)' /\ Words(x) \cap Words(snap)' = {}
      BY SMTT(20), <1>0, <2>2, <2>3, <2>4 DEF Words
    <2>7. e \in Snap /\ Words(e) = Words(x) /\ e.data = [w \in Words(x) |-> mem[w]]
      BY <2>2, <2>4, <2>6, SnapshotIs DEF PoolOK
    <2> HIDE DEF e
    <2>8. large \in Seq(Snap) /\ vec \in Seq(Seq(Snap)) /\ nc \in 1 .. Len(vec) /\ Last = nc
      BY <1>0, <2>1 DEF LenOK, UndoTypes, Last
    <2>9. vec[nc] \in Seq(Snap) /\ Append(vec[nc], e) \in Seq(Snap)
      BY <2>7, <2>8
    <2>10. /\ vec' \in Seq(Seq(Snap)) /\ Len(vec') = Len(vec) /\ vec'[nc] = Append(vec[nc], e)
           /\ \A k \in 1 .. Len(vec) : k # nc => vec'[k] = vec[k]
      BY SMTT(20), <2>3, <2>8, <2>9
    <2>11. UndoTypes' /\ \A k \in nc + 1 .. Len(vec) : vec'[k] = vec[k]
      BY <2>3, <2>8, <2>10 DEF UndoTypes
    <2>12. Len(vec'[nc]) > 0 /\ vec'[nc][Len(vec'[nc])] = e
      BY <2>9, <2>10, <2>7
    <2>13. UNCHANGED Last
      BY Zenon, <2>3, <2>8, <2>10 DEF Last
    <2>14. PICK k \in 0 .. Last : k = nc
      BY <2>8
    <2>15. Snapshots(k) = vec[nc] /\ Snapshots(k)' = Append(vec[nc], e)
      BY <2>1, <2>10, <2>14 DEF Snapshots
    <2>16. ASSUME NEW m \in 0 .. Last, m # k PROVE Snapshots(m)' = Snapshots(m)
      BY <2>3, <2>8, <2>10, <2>14, <2>16 DEF Snapshots
    <2>17. \E q : q \notin Undo /\ Undo' = Undo \cup {q} /\ At(q)' = e /\ \A p \in Undo : At(p)' = At(p)
      BY Zenon, <2>9, <2>13, <2>15, <2>16, Appended
    <2> QED
      BY Zenon, <2>1, <2>5, <2>6, <2>7, <2>10, <2>11, <2>12, <2>17
  <1> QED
    BY Zenon, <1>1, <1>2

\* Storing the header of a snapshot changes nothing that a rollback sees.
LEMMA HeaderStored ==
    ASSUME LenOK, pc = "header" => nc > 0 /\ Len(vec[nc]) > 0, SnapHeader
    PROVE  UNCHANGED <<large, vec, nc>>
  <1> DEFINE c == vec[nc]
             i == Len(c)
  <1>1. vec \in Seq(Seq(Snap)) /\ nc \in 1 .. Len(vec) /\ i > 0
    BY DEF SnapHeader, LenOK, UndoTypes
  <1>2. c \in Seq(Snap) /\ i \in 1 .. Len(c) /\ c[i] \in Snap
    BY <1>1
  <1>3. [c EXCEPT ![i] = OnMedia(c[i])] = c
    BY <1>2, OnMediaIs
  <1>4. vec' = [vec EXCEPT ![nc] = [c EXCEPT ![i] = OnMedia(c[i])]]
    BY <1>1, <1>2 DEF SnapHeader
  <1>5. vec' = vec
    <2> HIDE DEF i
    <2> QED
      BY <1>1, <1>3, <1>4
  <1> QED
    BY <1>5 DEF SnapHeader, lane

Prefix(s, t) == Len(s) <= Len(t) /\ \A i \in 1 .. Len(s) : Alike(s[i], t[i])

\* A list is a prefix of itself, the empty list is one, and so is what a pop leaves.
LEMMA PrefixSame == \A s \in Seq(Snap) : Prefix(s, s) /\ Prefix(<<>>, s) /\ <<>> \in Seq(Snap)
  BY DEF Prefix, Alike

\* Without its last snapshot a list is a prefix of what it was.
LEMMA PrefixPop ==
    ASSUME NEW s \in Seq(Snap), s # <<>>
    PROVE  SubSeq(s, 1, Len(s) - 1) \in Seq(Snap) /\ Prefix(SubSeq(s, 1, Len(s) - 1), s)
  BY DEF Prefix, Alike

\* A step that only takes snapshots away from the ends of lists.
LEMMA Trimmed ==
    ASSUME LenOK, UndoTypes', nc' \in Nat, Prefix(large', large), Len(vec') <= Len(vec),
           \A k \in 1 .. Len(vec') : Prefix(vec'[k], vec[k])
    PROVE  UndoKept
  <1>1. Len(vec) \in Nat /\ Len(vec') \in Nat /\ nc \in Nat /\ Len(large') \in Nat /\ Len(large) \in Nat
    BY DEF LenOK, UndoTypes
  <1>2. ASSUME NEW k \in (0 .. Last)', NEW i \in 1 .. Len(Snapshots(k)')
        PROVE  k \in 0 .. Last /\ i \in 1 .. Len(Snapshots(k)) /\ Alike(Snapshots(k)'[i], Snapshots(k)[i])
    <2>1. CASE k = 0
      BY <1>1, <1>2, <2>1 DEF Snapshots, Prefix, Last
    <2>2. CASE k # 0
      <3>1. k \in 1 .. Len(vec') /\ k \in 1 .. Len(vec) /\ Prefix(vec'[k], vec[k]) /\ i \in 1 .. Len(vec'[k])
        BY <1>1, <1>2, <2>2 DEF Last, Snapshots
      <3>2. vec[k] \in Seq(Snap) /\ vec'[k] \in Seq(Snap)
        BY SMTT(20), <3>1 DEF LenOK, UndoTypes
      <3>3. i \in 1 .. Len(vec[k]) /\ Alike(vec'[k][i], vec[k][i])
        BY <3>1, <3>2 DEF Prefix
      <3>4. k <= nc
        BY <1>1, <3>1, <3>3 DEF LenOK
      <3> QED
        BY <1>1, <2>2, <3>1, <3>3, <3>4 DEF Last, Snapshots
    <2> QED
      BY <2>1, <2>2
  <1> QED
    BY <1>2, Shortened

\* What the steps that follow a decision do to the log.
TrimOK ==
    /\ UndoTypes' /\ Prefix(large', large) /\ Len(vec') <= Len(vec)
    /\ \A k \in 1 .. Len(vec') : Prefix(vec'[k], vec[k])

\* The cache that a power loss may find half written or half zeroed.
TornOK ==
    /\ pc = "header" => nc > 0 /\ Len(vec[nc]) > 0
    /\ pc = "zero" => nc = 1

\* A power loss in the middle of a snapshot keeps it or not; in the middle of zeroing it keeps the first ones.
LEMMA CrashTrims == ASSUME LenOK, TornOK, Crash PROVE TrimOK /\ Len(vec') = Len(vec)
  <1>1. UNCHANGED large /\ vec' \in AfterCrash /\ vec \in Seq(Seq(Snap)) /\ large \in Seq(Snap)
    BY DEF Crash, LenOK, UndoTypes
  <1>2. ASSUME NEW m \in 1 .. Len(vec), NEW c \in Seq(Snap), Prefix(c, vec[m]), vec' = [vec EXCEPT ![m] = c]
        PROVE  TrimOK /\ Len(vec') = Len(vec)
    <2>1. vec' \in Seq(Seq(Snap)) /\ Len(vec') = Len(vec) /\ vec'[m] = c
      BY <1>1, <1>2
    <2>2. \A k \in 1 .. Len(vec) : k # m => vec'[k] = vec[k]
      BY <1>1, <1>2
    <2>3. \A k \in 1 .. Len(vec) : vec[k] \in Seq(Snap)
      BY <1>1
    <2> QED
      BY <1>1, <1>2, <2>1, <2>2, <2>3, PrefixSame DEF TrimOK, UndoTypes
  <1>3. CASE pc = "header"
    <2>1. nc \in 1 .. Len(vec) /\ vec[nc] \in Seq(Snap) /\ vec[nc] # <<>>
      BY <1>1, <1>3 DEF LenOK, TornOK
    <2>2. PICK c \in Made(vec[nc]) : vec' = [vec EXCEPT ![nc] = c]
      BY <1>1, <1>3 DEF AfterCrash
    <2>3. PICK s \in Seq(Snap) : s = vec[nc]
      BY <2>1
    <2>4. Len(s) \in Nat /\ Len(s) > 0 /\ s[Len(s)] \in Snap /\ s # <<>>
      BY <2>1, <2>3
    <2>5. c = SubSeq(s, 1, Len(s) - 1) \/ c = Append(SubSeq(s, 1, Len(s) - 1), s[Len(s)])
      BY Zenon, <2>2, <2>3, <2>4, OnMediaIs DEF Made, Snap
    <2>6. Append(SubSeq(s, 1, Len(s) - 1), s[Len(s)]) = s
      BY <2>4
    <2>7. c \in Seq(Snap) /\ Prefix(c, s)
      BY Zenon, <2>4, <2>5, <2>6, PrefixSame, PrefixPop
    <2> QED
      BY Zenon, <1>2, <2>1, <2>2, <2>3, <2>7
  <1>4. CASE pc = "zero"
    <2>1. 1 \in 1 .. Len(vec) /\ vec[1] \in Seq(Snap)
      BY <1>1, <1>4 DEF LenOK, TornOK
    <2>2. PICK c \in TornZero(vec[1]) : vec' = [vec EXCEPT ![1] = c]
      BY <1>1, <1>4 DEF AfterCrash
    <2>3. CASE MemsetInOrder
      <3>1. c = vec[1] \/ c = <<>>
        BY <2>2, <2>3 DEF TornZero
      <3>2. c \in Seq(Snap) /\ Prefix(c, vec[1])
        BY Zenon, <2>1, <3>1, PrefixSame
      <3> QED
        BY Zenon, <1>2, <2>1, <2>2, <3>2
    <2>4. CASE ~ MemsetInOrder
      <3>1. PICK s \in Seq(Snap) : s = vec[1]
        BY <2>1
      <3>2. PICK k \in 0 .. Len(s) : /\ c \in [1 .. k -> UNION {Lost(s[i]) : i \in 1 .. k}]
                                     /\ \A i \in 1 .. k : c[i] \in Lost(s[i])
        BY <2>2, <2>4, <3>1 DEF TornZero
      <3>3. ASSUME NEW e \in Snap, NEW x \in Lost(e) PROVE x \in Snap /\ Alike(x, e)
        <4>1. PICK z \in SUBSET Words(e) :
                 x = [OnMedia(e) EXCEPT !.data = [w \in Words(e) |-> IF w \in z THEN 0 ELSE e.data[w]]]
          BY Zenon, <3>3 DEF Lost
        <4>2. [w \in Words(e) |-> IF w \in z THEN 0 ELSE e.data[w]] \in [Words(e) -> Val]
          BY ValAssumption DEF Snap
        <4>3. x = [e EXCEPT !.data = [w \in Words(e) |-> IF w \in z THEN 0 ELSE e.data[w]]]
          BY <4>1, OnMediaIs
        <4>4. x \in [off : Nat, size : Nat \ {0}, data : UNION {[S -> Val] : S \in SUBSET Word}, dat : {TRUE}]
              /\ x.off = e.off /\ x.size = e.size /\ x.data \in [Words(e) -> Val]
          BY Zenon, <4>2, <4>3 DEF Snap
        <4>5. Words(x) = Words(e) /\ Words(e) \subseteq Word
          BY <4>4 DEF Words, Snap
        <4> QED
          BY Zenon, <4>4, <4>5, <2>4 DEF Snap, Alike
      <3>4. k \in Nat /\ k <= Len(s) /\ \A i \in 1 .. k : s[i] \in Snap /\ c[i] \in Snap /\ Alike(c[i], s[i])
        BY <3>2, <3>3
      <3>5. c \in Seq(Snap) /\ Len(c) = k
        <4>1. c \in [1 .. k -> Snap]
          BY <3>2, <3>4
        <4> QED
          BY <3>4, <4>1
      <3>6. Prefix(c, s)
        BY <3>4, <3>5 DEF Prefix
      <3> QED
        BY Zenon, <1>2, <2>1, <2>2, <3>1, <3>5, <3>6
    <2> QED
      BY <2>3, <2>4
  <1>5. CASE pc \notin {"header", "zero"}
    <2>1. vec' = vec
      BY <1>1, <1>5 DEF AfterCrash
    <2> QED
      BY <1>1, <2>1, PrefixSame DEF TrimOK, UndoTypes
  <1> QED
    BY <1>3, <1>4, <1>5

\* palloc_publish() empties UNDO_SET and every cache it does not free but the first.
LEMMA PublishTrims ==
    ASSUME LenOK, DropOK, Publish
    PROVE  /\ TrimOK /\ large' = <<>> /\ Len(vec') = IF nc > 2 THEN 2 ELSE Len(vec)
           /\ \A k \in 2 .. Len(vec') : vec'[k] = <<>>
           /\ 1 \in Acted("clear") => \A k \in 1 .. Len(vec') : vec'[k] = <<>>
  <1> DEFINE n == Len(vec) - Cardinality(Acted("drop"))
  <1>1. /\ pc = "publish" /\ nc \in Nat /\ Len(vec) \in Nat /\ vec \in Seq(Seq(Snap)) /\ large \in Seq(Snap)
        /\ nc <= Len(vec) /\ (nc # 1 => Len(vec) = nc) /\ (nc = 1 => Len(vec) <= 2)
    BY DEF Publish, LenOK, UndoTypes
  <1>2. n = IF nc > 2 THEN 2 ELSE Len(vec)
    <2>1. Acted("drop") = 3 .. nc
      BY <1>1 DEF DropOK
    <2>2. Cardinality(3 .. nc) = IF 3 > nc THEN 0 ELSE nc - 3 + 1
      BY <1>1, FS_Interval
    <2> QED
      BY <1>1, <2>1, <2>2
  <1>3. n \in Nat /\ n <= Len(vec) /\ n <= 2
    BY <1>1, <1>2
  <1>4. vec' = [i \in 1 .. n |-> IF i \in Acted("clear") THEN <<>> ELSE vec[i]] /\ large' = <<>>
    BY DEF Publish
  <1> HIDE DEF n
  <1>5. vec' \in Seq(Seq(Snap)) /\ Len(vec') = n /\ \A k \in 1 .. n : vec'[k] = vec[k] \/ vec'[k] = <<>>
    <2>1. vec' \in [1 .. n -> Seq(Snap)]
      BY <1>1, <1>3, <1>4
    <2> QED
      BY <1>3, <1>4, <2>1
  <1>6. \A k \in 1 .. n : vec[k] \in Seq(Snap)
    BY <1>1, <1>3
  <1>7. TrimOK
    BY <1>1, <1>3, <1>4, <1>5, <1>6, PrefixSame DEF TrimOK, UndoTypes
  <1>8. ASSUME NEW k \in 2 .. n PROVE vec'[k] = <<>>
    <2>1. k = 2 /\ 2 \in 1 .. n
      BY <1>3
    <2>2. CASE nc > 1
      BY <1>1, <1>4, <2>1, <2>2 DEF DropOK
    <2>3. CASE ~ (nc > 1)
      BY <1>1, <1>3, <1>5, <2>1, <2>3 DEF LenOK
    <2> QED
      BY <2>2, <2>3
  <1>9. ASSUME 1 \in Acted("clear"), NEW k \in 1 .. n PROVE vec'[k] = <<>>
    BY <1>3, <1>4, <1>8, <1>9
  <1> QED
    BY Zenon, <1>2, <1>4, <1>5, <1>7, <1>8, <1>9

\* So do tx_post_commit() and the three steps that clear the log after a rollback.
LEMMA ClearTrims ==
    ASSUME LenOK, TornOK, pc = "pop" \/ pc = "restore" \/ pc = "zero" \/ pc = "poplarge" \/ pc = "post",
           PostCommit \/ PopCache \/ Zeroed \/ PopLarge
    PROVE  /\ TrimOK
           /\ PopCache => Len(vec') = nc'
           /\ Zeroed => vec'[1] = <<>> /\ Len(vec') = Len(vec) /\ \A k \in 2 .. Len(vec) : vec'[k] = vec[k]
  <1>1. nc \in Nat /\ Len(vec) \in Nat /\ vec \in Seq(Seq(Snap)) /\ large \in Seq(Snap)
    BY DEF LenOK, UndoTypes
  <1>2. \A k \in 1 .. Len(vec) : vec[k] \in Seq(Snap)
    BY <1>1
  <1>3. CASE PostCommit
    <2>1. UNCHANGED <<large, vec>> /\ ~ PopCache /\ ~ Zeroed
      BY <1>3 DEF PostCommit, persistent, PopCache, Zeroed, Restored
    <2> QED
      BY SMTT(20), <1>1, <1>2, <2>1, PrefixSame DEF TrimOK, UndoTypes
  <1>4. CASE PopCache
    <2>0. nc > Kept /\ vec' = SubSeq(vec, 1, nc - 1) /\ nc' = nc - 1 /\ UNCHANGED large /\ pc # "post"
      BY Zenon, <1>4 DEF PopCache, Restored
    <2>1. nc > 0 /\ nc <= Len(vec) /\ vec' = SubSeq(vec, 1, nc - 1) /\ nc' = nc - 1 /\ UNCHANGED large
      BY <1>1, <2>0 DEF Kept, LenOK
    <2>2. vec' \in Seq(Seq(Snap)) /\ Len(vec') = nc - 1 /\ \A k \in 1 .. nc - 1 : vec'[k] = vec[k]
      BY SMTT(20), <1>1, <2>1
    <2>3. \A k \in 1 .. nc - 1 : Prefix(vec'[k], vec[k])
      BY SMTT(20), <1>1, <1>2, <2>1, <2>2, PrefixSame
    <2>4. TrimOK
      BY SMTT(20), <1>1, <2>1, <2>2, <2>3, PrefixSame DEF TrimOK, UndoTypes
    <2> QED
      BY <1>4, <2>1, <2>2, <2>4 DEF PopCache, Zeroed, Restored
  <1>5. CASE Zeroed
    <2>1. 1 \in 1 .. Len(vec) /\ vec' = [vec EXCEPT ![1] = <<>>] /\ UNCHANGED large
      BY <1>1, <1>5 DEF Zeroed, LenOK, TornOK
    <2>2. vec' \in Seq(Seq(Snap)) /\ Len(vec') = Len(vec) /\ vec'[1] = <<>> /\ \A k \in 2 .. Len(vec) : vec'[k] = vec[k]
      BY <1>1, <2>1
    <2>3. ASSUME NEW k \in 1 .. Len(vec) PROVE Prefix(vec'[k], vec[k])
      <3>1. k = 1 \/ k \in 2 .. Len(vec)
        BY <1>1
      <3> QED
        BY Zenon, <1>2, <2>2, <3>1, PrefixSame
    <2>4. TrimOK
      BY SMTT(20), <1>1, <2>1, <2>2, <2>3, PrefixSame DEF TrimOK, UndoTypes
    <2> QED
      BY Zenon, <1>5, <2>2, <2>4 DEF PopCache, Zeroed, Restored
  <1>6. CASE PopLarge
    <2>1. UNCHANGED vec /\ (large' = large \/ (large # <<>> /\ large' = SubSeq(large, 1, Len(large) - 1)))
      BY Zenon, <1>6 DEF PopLarge
    <2>2. large' \in Seq(Snap) /\ Prefix(large', large)
      BY Zenon, <1>1, <2>1, PrefixSame, PrefixPop
    <2>3. TrimOK
      BY <1>1, <1>2, <2>1, <2>2, PrefixSame DEF TrimOK, UndoTypes
    <2> QED
      BY Zenon, <1>6, <2>3 DEF PopLarge, PopCache, Zeroed, Restored
  <1> QED
    BY <1>3, <1>4, <1>5, <1>6

Empty == \A k \in 1 .. Len(vec) : vec[k] = <<>>

\* How far a commit or a rollback has cleared the log.  The first cache is left alone if nothing was put in it.
ClearOK ==
    /\ pc = "post" => large = <<>> /\ \A k \in 2 .. Len(vec) : vec[k] = <<>>
    /\ pc = "zero" /\ stage = "work" => large = <<>>
    /\ pc = "poplarge" => nc <= 1 /\ Empty
    /\ Quiet => nc <= 1 /\ large = <<>> /\ Empty
    /\ CacheSize = 0 => Empty
    /\ depth > 0 /\ nc = 1 /\ cache_offset = 0 /\ pc # "zero" /\ (pc = "pop" => zero_all = FALSE) => vec[1] = <<>>

LogOK == LenOK /\ TornOK /\ ClearOK

\* The caches in use are counted right.
LEMMA LenNext == ASSUME LogOK, DropOK, PoolOK, snap \in Span, pc = "snap" => snap.off \in Nat, Words(snap) \subseteq Word, Next
                 PROVE  LenOK'
  <1> USE DEF LogOK
  <1>0. nc \in Nat /\ Len(vec) \in Nat /\ Len(large) \in Nat /\ CacheSize \in Nat
    BY CacheAssumption DEF LenOK, UndoTypes
  <1>1. CASE /\ UNCHANGED <<large, vec, nc>> /\ (cache_offset' = 0 \/ UNCHANGED cache_offset)
             /\ pc # "post" /\ pc' # "post"
    BY <1>0, <1>1 DEF LenOK, UndoTypes
  <1>2. CASE SnapLarge \/ SnapSmall
    <2>1. pc = "snap" /\ pc' # "post" /\ UNCHANGED nc
      BY Zenon, <1>2 DEF SnapLarge, SnapSmall, InSnap
    <2>2. UndoTypes' /\ Len(vec') = Len(vec) /\ \A k \in nc + 1 .. Len(vec) : vec'[k] = vec[k]
      BY Zenon, <1>2, <2>1, SnapTaken
    <2>3. cache_offset' \in 0 .. CacheSize
      <3>1. CASE SnapLarge
        BY <3>1 DEF SnapLarge, LenOK
      <3>2. CASE SnapSmall
        <4>1. cache_offset' \in 1 .. CacheSize
          BY Zenon, <2>1, <3>2, SnapTaken
        <4> QED
          BY <1>0, <4>1
      <3> QED
        BY Zenon, <1>2, <3>1, <3>2
    <2> QED
      BY Zenon, <1>0, <2>1, <2>2, <2>3 DEF LenOK
  <1>3. CASE NewCache
    <2>1. UndoTypes' /\ Len(vec') = nc + 1 /\ nc' = nc + 1 /\ cache_offset' = 0 /\ pc' = "snap"
      BY Zenon, <1>3, CacheMade DEF NewCache, InSnap
    <2> QED
      BY <1>0, <2>1 DEF LenOK
  <1>4. CASE SnapHeader
    <2>1. UNCHANGED <<large, vec, nc, cache_offset>> /\ pc # "post" /\ pc' # "post"
      BY Zenon, <1>4, HeaderStored DEF SnapHeader, lane, TornOK
    <2> QED
      BY <1>0, <2>1 DEF LenOK, UndoTypes
  <1>5. CASE Publish
    <2>1. /\ UndoTypes' /\ Len(vec') = (IF nc > 2 THEN 2 ELSE Len(vec)) /\ (\A k \in 2 .. Len(vec') : vec'[k] = <<>>)
          /\ UNCHANGED <<nc, cache_offset>> /\ pc = "publish" /\ pc' = "post"
      BY Zenon, <1>5, PublishTrims DEF Publish, TrimOK, lane
    <2>2. Len(vec') <= 2 /\ (nc > 0 <=> Len(vec') > 0) /\ (nc = 0 => Len(vec') = 0)
      BY <1>0, <2>1 DEF LenOK
    <2>3. \A k \in nc + 1 .. Len(vec') : vec'[k] = <<>>
      BY <1>0, <2>1, <2>2
    <2> QED
      BY <2>1, <2>2, <2>3 DEF LenOK
  <1>6. CASE PostCommit
    <2>1. /\ UNCHANGED <<large, vec, cache_offset>> /\ nc' = (IF nc > 1 THEN 1 ELSE nc)
          /\ pc = "post" /\ pc' # "post"
      BY <1>6 DEF PostCommit, CommitDone, persistent
    <2> QED
      BY <1>0, <2>1 DEF LenOK, ClearOK, UndoTypes
  <1>7. CASE PopCache
    <2>1. UndoTypes' /\ Len(vec') = nc' /\ UNCHANGED cache_offset /\ pc' = "pop" /\ nc' = nc - 1 /\ nc > 0
      BY SMTT(20), <1>0, <1>7, ClearTrims DEF PopCache, InUndo, TrimOK, Restored, Kept
    <2> QED
      BY SMTT(20), <1>0, <2>1 DEF LenOK
  <1>8. CASE Zeroed
    <2>1. /\ UndoTypes' /\ Len(vec') = Len(vec) /\ (\A k \in 2 .. Len(vec) : vec'[k] = vec[k])
          /\ UNCHANGED <<nc, cache_offset>> /\ pc = "zero" /\ pc' # "post"
      BY Zenon, <1>8, ClearTrims DEF Zeroed, CommitDone, TrimOK
    <2> QED
      BY SMTT(20), <1>0, <2>1 DEF LenOK, TornOK
  <1>9. CASE PopLarge
    <2>1. UndoTypes' /\ UNCHANGED <<vec, nc, cache_offset>> /\ pc # "post" /\ pc' # "post"
      BY ZenonT(30), <1>9, ClearTrims DEF PopLarge, InUndo, TrimOK
    <2> QED
      BY ZenonT(30), <1>0, <2>1 DEF LenOK
  <1>10. CASE Crash
    <2>1. UndoTypes' /\ Len(vec') = Len(vec) /\ nc' = Len(vec) /\ cache_offset' = 0 /\ pc' = "restore"
      BY Zenon, <1>10, CrashTrims DEF Crash, TrimOK
    <2> QED
      BY SMTT(20), <1>0, <2>1 DEF LenOK
  <1> QED
    BY Zenon, <1>1, <1>2, <1>3, <1>4, <1>5, <1>6, <1>7, <1>8, <1>9, <1>10, UndoFrame

\* What can happen in a transaction that is not to be aborted.
LEMMA OpenSteps ==
    ASSUME ControlOK, depth \in Nat, Next, Open' \/ pc' = "publish"
    PROVE  \/ Begin /\ depth = 0
           \/ /\ Open
              /\ \/ UNCHANGED <<heap, large, vec, nc, ranges, actions, snap>>
                 \/ AddDone \/ SnapHeader \/ PreCommit
                 \/ Alloc \/ Free \/ AddNew \/ AddInside \/ AddBeyond \/ SnapLarge \/ SnapSmall \/ NewCache
  <1>1. CASE Begin
    <2>1. depth > 0 => stage = "work" /\ UNCHANGED <<heap, large, vec, nc, ranges, actions, snap>>
      BY <1>1 DEF Begin, InUser, locals
    <2> QED
      BY Zenon, <1>1, <2>1 DEF Begin, InUser, Open, ControlOK
  <1>2. CASE Store \/ AddRange \/ CommitInner
    <2>1. UNCHANGED <<heap, large, vec, nc, ranges, actions, snap>> /\ pc = "user" /\ stage = "work"
      BY Zenon, <1>2 DEF Store, AddRange, CommitInner, InWork, InUser, locals
    <2> QED
      BY Zenon, <2>1 DEF Open, ControlOK
  <1>3. CASE Alloc \/ Free \/ PreCommit
    <2>1. pc = "user" /\ stage = "work"
      BY Zenon, <1>3 DEF Alloc, Free, PreCommit, InWork, InUser
    <2> QED
      BY Zenon, <1>3, <2>1 DEF Open, ControlOK
  <1>4. CASE AddNew \/ AddInside \/ AddBeyond \/ AddDone
    <2>1. pc = "add"
      BY Zenon, <1>4 DEF AddNew, AddInside, AddBeyond, AddDone, InAdd
    <2> QED
      BY Zenon, <1>4, <2>1 DEF Open, ControlOK
  <1>5. CASE SnapLarge \/ SnapSmall \/ NewCache \/ SnapHeader
    <2>1. pc \in {"snap", "header"}
      BY Zenon, <1>5 DEF SnapLarge, SnapSmall, NewCache, SnapHeader, InSnap
    <2> QED
      BY Zenon, <1>5, <2>1 DEF Open, ControlOK
  <1>6. CASE Process
    <2>1. /\ UNCHANGED <<heap, large, vec, nc, ranges, actions, snap, depth, last_errnum, pc>>
          /\ pc = "user" /\ stage' # "work"
      BY Zenon, <1>6 DEF Process, InUser, locals
    <2> QED
      BY Zenon, <2>1 DEF Open
  <1>7. CASE End
    <2>1. CASE AbortTx(depth - 1)
      <3>1. last_errnum' = TRUE /\ pc' # "publish"
        BY Zenon, <2>1 DEF AbortTx
      <3> QED
        BY Zenon, <3>1 DEF Open
    <2>2. CASE ~ AbortTx(depth - 1)
      <3>1. /\ UNCHANGED <<heap, large, vec, nc, ranges, actions, snap, last_errnum, pc>>
            /\ pc = "user" /\ depth' = depth - 1 /\ stage' = (IF depth = 1 THEN "none" ELSE "work")
            /\ depth > 0 /\ (depth > 1 => ~ last_errnum)
        BY Zenon, <1>7, <2>2 DEF End, InUser, locals
      <3>2. depth > 1
        BY <3>1 DEF Open
      <3>3. last_errnum = FALSE
        BY Zenon, <3>1, <3>2 DEF ControlOK
      <3> QED
        BY Zenon, <3>1, <3>2, <3>3 DEF Open
    <2> QED
      BY <2>1, <2>2
  <1>8. CASE Abort \/ OutOfMemory
    <2>1. last_errnum' = TRUE /\ pc' # "publish"
      BY Zenon, <1>8 DEF Abort, OutOfMemory, AbortTx
    <2> QED
      BY Zenon, <2>1 DEF Open
  <1>9. CASE Publish \/ PostCommit \/ Zeroed \/ PopLarge
    <2>1. /\ pc' \in {"post", "zero", "poplarge"} \/ (pc' = "user" /\ stage' # "work")
          /\ UNCHANGED depth /\ depth \in {0, 1}
      BY Zenon, <1>9 DEF Publish, PostCommit, Zeroed, PopLarge, CommitDone, ControlOK, tx
    <2> QED
      BY <2>1 DEF Open
  <1>10. CASE RestoreRange \/ RestoreNext \/ PopCache \/ PopDone \/ Crash
    <2>1. pc' \in {"restore", "pop", "zero", "poplarge"}
      BY Zenon, <1>10 DEF RestoreRange, RestoreNext, PopCache, PopDone, Crash
    <2> QED
      BY <2>1 DEF Open
  <1> QED
    BY Zenon, <1>1, <1>2, <1>3, <1>4, <1>5, <1>6, <1>7, <1>8, <1>9, <1>10 DEF Next

\* Where a step leads.
LEMMA PcFrame ==
    ASSUME Next
    PROVE  /\ pc' = "header" => SnapSmall
           /\ pc' = "zero" => PostCommit \/ PopDone
           /\ pc' = "publish" => PreCommit
           /\ pc' = "post" => Publish
           /\ pc' = "pop" => PopCache
           /\ pc' = "poplarge" => PopDone \/ Zeroed \/ PopLarge
           /\ pc' = "restore" => RestoreRange \/ RestoreNext \/ (list' = 0 /\ ri' = 0)
  BY Zenon DEF Next, Begin, Store, Alloc, Free, AddRange, AddNew, AddInside, AddBeyond, AddDone, SnapLarge, NewCache,
     SnapSmall, SnapHeader, Abort, OutOfMemory, CommitInner, PreCommit, Publish, PostCommit, CommitDone,
     RestoreRange, RestoreNext, PopCache, PopDone, Zeroed, PopLarge, Process, End, Crash, InUser, InWork, InAdd, InSnap,
     AbortTx, Restored

\* A half-written cache is the last one, a half-zeroed one the first.
LEMMA TornNext ==
    ASSUME LenOK, depth \in Nat, PoolOK, snap \in Span, pc = "snap" => snap.off \in Nat, Words(snap) \subseteq Word, Next
    PROVE  TornOK'
  <1>1. CASE pc' = "header"
    <2>1. SnapSmall /\ pc = "snap" /\ UNCHANGED nc
      BY Zenon, <1>1, PcFrame DEF SnapSmall, InSnap
    <2>2. nc > 0 /\ Len(vec'[nc]) > 0
      BY Zenon, <2>1, SnapTaken
    <2> QED
      BY Zenon, <1>1, <2>1, <2>2 DEF TornOK
  <1>2. CASE pc' = "zero"
    <2>1. nc > 0 /\ nc' = (IF nc > 1 THEN 1 ELSE nc)
      BY <1>2, PcFrame DEF PostCommit, PopDone, CommitDone, LenOK, Kept
    <2> QED
      BY SMTT(20), <1>2, <2>1 DEF TornOK, LenOK
  <1> QED
    BY <1>1, <1>2 DEF TornOK

\* Only the empty list is a prefix of the empty list.
LEMMA PrefixEmpty == \A s \in Seq(Snap) : Prefix(s, <<>>) => s = <<>>
  BY DEF Prefix

\* Lists that are trimmed stay empty when they are.
LEMMA TrimEmpty ==
    ASSUME UndoTypes, TrimOK
    PROVE  /\ \A k \in 1 .. Len(vec') : vec[k] = <<>> => vec'[k] = <<>>
           /\ Empty => Empty'
  <1>1. \A k \in 1 .. Len(vec') : vec'[k] \in Seq(Snap) /\ Prefix(vec'[k], vec[k]) /\ k \in 1 .. Len(vec)
    BY DEF UndoTypes, TrimOK
  <1>2. \A k \in 1 .. Len(vec') : vec[k] = <<>> => vec'[k] = <<>>
    BY Zenon, <1>1, PrefixEmpty
  <1> QED
    BY Zenon, <1>1, <1>2 DEF Empty

\* The steps that can end with no transaction running.
LEMMA QuietSteps ==
    ASSUME ControlOK, depth \in Nat, Next, Quiet'
    PROVE  (Quiet /\ UNCHANGED <<large, vec, nc>>) \/ PostCommit \/ Zeroed \/ PopLarge
  <1>1. CASE Begin
    BY <1>1 DEF Begin, Quiet
  <1>2. CASE Store \/ Alloc \/ Free \/ CommitInner
    <2>1. UNCHANGED depth /\ pc = "user" /\ stage = "work" /\ depth > 0 /\ (UNCHANGED stage \/ depth > 1)
      BY Zenon, <1>2 DEF Store, Alloc, Free, CommitInner, InWork, InUser, tx, ControlOK
    <2> QED
      BY <2>1 DEF Quiet
  <1>3. CASE AddDone
    <2>1. UNCHANGED <<depth, stage>> /\ stage = "work" /\ depth > 0
      BY Zenon, <1>3 DEF AddDone, InAdd, tx, ControlOK
    <2> QED
      BY <2>1 DEF Quiet
  <1>4. CASE Abort \/ OutOfMemory
    <2>1. UNCHANGED depth /\ stage = "work" /\ depth > 0 /\ (depth = 1 => pc' = "restore")
      BY Zenon, <1>4 DEF Abort, OutOfMemory, InWork, InUser, AbortTx, ControlOK
    <2> QED
      BY <2>1 DEF Quiet
  <1>5. CASE Process
    BY <1>5 DEF Process, InUser, Quiet
  <1>6. CASE End
    BY <1>6 DEF End, InUser, Quiet, AbortTx
  <1>7. CASE ~ (PostCommit \/ Zeroed \/ PopLarge \/ Begin \/ Store \/ Alloc \/ Free \/ CommitInner \/ AddDone
                  \/ Abort \/ OutOfMemory \/ Process \/ End)
    <2>1. pc' # "user"
      BY Zenon, <1>7 DEF Next, AddRange, AddNew, AddInside, AddBeyond, SnapLarge, NewCache,
         SnapSmall, SnapHeader, PreCommit, Publish, RestoreRange, RestoreNext, PopCache, PopDone, Crash, InAdd, InSnap
    <2> QED
      BY Zenon, <2>1 DEF Quiet
  <1> QED
    BY Zenon, <1>1, <1>2, <1>3, <1>4, <1>5, <1>6, <1>7

\* A commit or a rollback leaves an empty log.
LEMMA ClearNext ==
    ASSUME LogOK, LenOK', DropOK, ControlOK, CursorOK, depth \in Nat, PoolOK, snap \in Span, pc = "snap" => snap.off \in Nat,
           Words(snap) \subseteq Word, Next
    PROVE  ClearOK'
  <1> USE DEF LogOK
  <1>0. nc \in Nat /\ Len(vec) \in Nat /\ cache_offset \in Nat /\ UndoTypes /\ CacheSize \in Nat
    BY CacheAssumption DEF LenOK, UndoTypes
  <1>1. pc' = "post" => (large = <<>> /\ \A k \in 2 .. Len(vec) : vec[k] = <<>>)'
    BY PcFrame, PublishTrims
  <1>2. pc' = "zero" /\ stage' = "work" => large' = <<>>
    <2>1. CASE PostCommit
      BY Zenon, <2>1 DEF PostCommit, ClearOK, persistent
    <2>2. CASE PopDone
      BY Zenon, <2>2 DEF PopDone, Restored, ControlOK, tx
    <2> QED
      BY <2>1, <2>2, PcFrame
  <1>3. Zeroed => nc' <= 1 /\ Empty'
    <2>1. ASSUME Zeroed PROVE nc' <= 1 /\ Empty'
      <3>1. nc = 1 /\ UNCHANGED nc /\ Len(vec') = Len(vec) /\ vec'[1] = <<>> /\ \A k \in 2 .. Len(vec) : vec'[k] = vec[k]
        BY Zenon, <2>1, ClearTrims DEF Zeroed, TornOK
      <3>2. \A k \in 2 .. Len(vec) : vec[k] = <<>>
        BY <3>1 DEF LenOK
      <3> QED
        BY <1>0, <3>1, <3>2 DEF Empty
    <2> QED
      BY <2>1
  <1>4. ASSUME nc = 1, depth > 0, cache_offset = 0, pc # "zero", pc = "pop" => zero_all = FALSE PROVE Empty
    <2>1. vec[1] = <<>> /\ \A k \in 2 .. Len(vec) : vec[k] = <<>>
      BY SMTT(20), <1>4 DEF ClearOK, LenOK
    <2> QED
      BY SMTT(20), <1>0, <2>1 DEF Empty
  <1>5. ASSUME PopDone, pc' = "poplarge" PROVE nc' <= 1 /\ Empty'
    <2>1. UNCHANGED <<vec, nc>> /\ nc <= Kept /\ (nc = 0 \/ ToZero(zero_all) = 0) /\ pc \in {"pop", "restore"}
      BY <1>0, <1>5 DEF PopDone, Restored
    <2>2. CASE nc = 0
      BY <1>0, <2>1, <2>2 DEF LenOK, Empty
    <2>3. CASE nc # 0
      <3>1. nc = 1 /\ depth > 0
        BY <1>0, <2>1, <2>3 DEF Kept
      <3>2. ASSUME zero_all = TRUE PROVE Empty
        BY Zenon, <2>1, <2>3, <3>2 DEF ToZero, ClearOK
      <3>3. ASSUME zero_all = FALSE PROVE Empty
        BY Zenon, <1>4, <2>1, <2>3, <3>1, <3>3 DEF ToZero
      <3>4. Empty
        BY Zenon, <3>2, <3>3 DEF CursorOK
      <3> QED
        BY <2>1, <3>1, <3>4 DEF Empty
    <2> QED
      BY <2>2, <2>3
  <1>6. ASSUME PostCommit, pc' = "user" PROVE nc' <= 1 /\ large' = <<>> /\ Empty'
    <2>1. /\ pc = "post" /\ UNCHANGED <<large, vec>> /\ nc' = (IF nc > 1 THEN 1 ELSE nc)
          /\ nc = 0 \/ (IF nc > 1 THEN CacheSize = 0 ELSE cache_offset = 0)
      BY <1>0, <1>6 DEF PostCommit, persistent, ToZero
    <2>2. CASE nc = 0
      BY <1>0, <2>1, <2>2 DEF LenOK, Empty, ClearOK
    <2>3. CASE nc > 1
      BY <2>1, <2>3 DEF Empty, ClearOK
    <2>4. CASE nc = 1
      <3>1. depth > 0
        BY <2>1 DEF ControlOK
      <3>2. Empty
        BY <1>4, <2>1, <2>4, <3>1
      <3> QED
        BY <2>1, <2>4, <3>2 DEF Empty, ClearOK
    <2> QED
      BY <1>0, <2>2, <2>3, <2>4
  <1>7. pc' = "poplarge" => nc' <= 1 /\ Empty'
    <2>1. CASE PopLarge
      BY Zenon, <2>1 DEF PopLarge, ClearOK, Empty
    <2> QED
      BY Zenon, <1>3, <1>5, <2>1, PcFrame
  <1>8. Quiet' => nc' <= 1 /\ large' = <<>> /\ Empty'
    <2>1. ASSUME Quiet, UNCHANGED <<large, vec, nc>> PROVE nc' <= 1 /\ large' = <<>> /\ Empty'
      BY Zenon, <2>1 DEF ClearOK, Empty
    <2>2. ASSUME Zeroed, pc' = "user" PROVE large' = <<>>
      BY Zenon, <2>2 DEF Zeroed, ClearOK
    <2>3. ASSUME PopLarge, pc' = "user" PROVE nc' <= 1 /\ large' = <<>> /\ Empty'
      <3>1. pc = "poplarge" /\ large' = <<>> /\ UNCHANGED <<vec, nc>>
        BY Zenon, <2>3 DEF PopLarge
      <3> QED
        BY Zenon, <3>1 DEF ClearOK, Empty
    <2> QED
      BY Zenon, <1>3, <1>6, <2>1, <2>2, <2>3, QuietSteps DEF Quiet
  <1>9. SnapSmall => cache_offset' \in 1 .. CacheSize
    BY Zenon, SnapTaken DEF SnapSmall, InSnap
  <1>10. ASSUME CacheSize = 0 PROVE Empty'
    <2>1. Empty
      BY <1>10 DEF ClearOK
    <2>2. CASE UNCHANGED vec
      BY <2>1, <2>2 DEF Empty
    <2>3. CASE NewCache
      <3>1. pc # "post"
        BY <2>3 DEF NewCache, InSnap
      <3>2. Len(vec') = nc + 1 /\ vec'[nc + 1] = <<>> /\ \A k \in 1 .. nc : vec'[k] = vec[k]
        BY Zenon, <2>3, <3>1, CacheMade
      <3>0. nc <= Len(vec)
        BY Zenon, <3>1 DEF LenOK
      <3>3. \A k \in 1 .. nc : k \in 1 .. Len(vec)
        BY <1>0, <3>0
      <3>4. \A k \in 1 .. nc + 1 : k \in 1 .. nc \/ k = nc + 1
        BY <1>0
      <3> QED
        BY Zenon, <2>1, <3>2, <3>3, <3>4 DEF Empty
    <2>4. ~ SnapSmall
      BY <1>9, <1>10
    <2>5. CASE TrimOK
      BY <1>0, <2>1, <2>5, TrimEmpty
    <2> QED
      BY Zenon, <2>2, <2>3, <2>4, <2>5, UndoFrame, HeaderStored, PublishTrims, ClearTrims, CrashTrims
         DEF TornOK, SnapLarge, PostCommit, PopCache, Restored, Zeroed, PopLarge
  <1>11. ASSUME depth' > 0, nc' = 1, cache_offset' = 0, pc' # "zero", pc' = "pop" => zero_all' = FALSE
         PROVE  vec'[1] = <<>>
    <2>1. 1 \in 1 .. Len(vec') /\ Len(vec') \in Nat
      BY <1>11, <1>1 DEF LenOK, UndoTypes
    <2>2. CASE pc' = "poplarge" \/ Quiet'
      BY Zenon, <1>7, <1>8, <2>1, <2>2 DEF Empty
    <2>3. CASE UNCHANGED <<vec, nc, cache_offset>> /\ depth > 0 /\ pc # "zero" /\ pc # "pop"
      BY Zenon, <1>11, <2>3 DEF ClearOK
    <2>4. CASE depth = 0 /\ Begin /\ UNCHANGED <<large, vec, nc>>
      <3>1. Quiet
        BY <2>4 DEF Begin, InUser, Quiet
      <3> QED
        BY Zenon, <2>1, <2>4, <3>1 DEF ClearOK, Empty
    <2>5. CASE /\ UNCHANGED <<large, vec, nc>> /\ pc # "zero" /\ (pc = "pop" => PopDone)
               /\ UNCHANGED cache_offset /\ (UNCHANGED depth \/ depth' = depth - 1 \/ (depth > 0 /\ Begin))
      <3>1. depth > 0
        BY <1>11, <2>5
      <3>2. PopDone => pc' = "poplarge"
        BY Zenon, <1>11 DEF PopDone
      <3> QED
        BY Zenon, <2>2, <2>3, <2>5, <3>1, <3>2
    <2>6. CASE SnapLarge \/ SnapHeader
      <3>1. UNCHANGED <<vec, nc, cache_offset, depth>> /\ pc # "zero" /\ pc # "pop"
        BY Zenon, <2>6, HeaderStored DEF SnapLarge, SnapHeader, InSnap, lane, tx, TornOK
      <3> QED
        BY Zenon, <1>11, <2>3, <3>1
    <2>7. CASE SnapSmall
      BY <1>9, <1>11, <2>7
    <2>8. CASE NewCache
      BY Zenon, <1>0, <1>11, <2>8, CacheMade DEF NewCache, InSnap
    <2>9. CASE Publish
      <3>1. UNCHANGED <<nc, cache_offset, depth>> /\ pc = "publish" /\ TrimOK
        BY Zenon, <2>9, PublishTrims DEF Publish, lane, tx
      <3>2. vec[1] = <<>>
        BY <1>11, <3>1 DEF ClearOK
      <3> QED
        BY Zenon, <1>0, <2>1, <3>1, <3>2, TrimEmpty
    <2>10. CASE PostCommit \/ PopLarge
      <3>1. UNCHANGED depth /\ depth \in {0, 1} /\ (pc' = "user" => stage' # "work") /\ pc' \in {"user", "poplarge"}
        BY Zenon, <1>11, <2>10 DEF PostCommit, PopLarge, CommitDone, tx, ControlOK
      <3> QED
        BY Zenon, <2>2, <3>1 DEF Quiet
    <2>11. CASE PopCache \/ Crash
      <3>1. (pc' = "pop" /\ zero_all' = TRUE) \/ depth' = 0
        BY Zenon, <2>11 DEF PopCache, Crash
      <3> QED
        BY <1>11, <3>1
    <2>12. CASE Zeroed
      BY Zenon, <1>3, <2>1, <2>12 DEF Empty
    <2> QED
      BY Zenon, <2>4, <2>5, <2>6, <2>7, <2>8, <2>9, <2>10, <2>11, <2>12, UndoFrame
  <1> QED
    BY Zenon, <1>1, <1>2, <1>7, <1>8, <1>10, <1>11 DEF ClearOK

\* tx_foreach_set() goes through the log from its beginning and stays in it.
LEMMA CursorNext == ASSUME LenOK, LenOK', CursorOK, Next PROVE CursorOK'
  <1>1. zero_all' \in BOOLEAN
    <2>1. UNCHANGED zero_all \/ zero_all' = TRUE \/ zero_all' = FALSE
      BY Zenon DEF Next, Begin, Store, Alloc, Free, AddRange, AddNew, AddInside, AddBeyond, AddDone, SnapLarge, NewCache,
         SnapSmall, SnapHeader, Abort, OutOfMemory, CommitInner, PreCommit, Publish, PostCommit,
         RestoreRange, RestoreNext, PopCache, PopDone, Zeroed, PopLarge, Process, End, Crash, InAdd, InSnap,
         AbortTx, locals
    <2> QED
      BY Zenon, <2>1 DEF CursorOK
  <1>2. ASSUME pc' = "restore" PROVE list' \in (0 .. Last)' /\ ri' \in 0 .. Len(Snapshots(list))'
    <2>1. CASE RestoreRange \/ RestoreNext
      <3>1. UNCHANGED <<large, vec, nc>> /\ pc = "restore"
        BY Zenon, <2>1 DEF RestoreRange, RestoreNext, lane
      <3>2. UNCHANGED Last /\ Last \in Nat /\ \A k \in 0 .. Last : Len(Snapshots(k)) \in Nat /\ Snapshots(k)' = Snapshots(k)
        BY Zenon, <3>1, Listed DEF Last, Snapshots, LenOK
      <3>3. CASE RestoreRange
        BY <3>1, <3>2, <3>3 DEF RestoreRange, CursorOK, Snapshots
      <3>4. CASE RestoreNext
        <4>1. list' = list + 1 /\ ri' = 0 /\ list + 1 \in 0 .. Last
          BY <3>1, <3>2, <3>4 DEF RestoreNext, CursorOK
        <4>2. Len(Snapshots(list))' \in Nat
          BY <3>1, <3>2, <4>1 DEF Snapshots
        <4> QED
          BY <3>2, <4>1, <4>2
      <3> QED
        BY <2>1, <3>3, <3>4
    <2>2. CASE list' = 0 /\ ri' = 0
      BY <2>2 DEF LenOK, UndoTypes, Last, Snapshots
    <2> QED
      BY Zenon, <1>2, <2>1, <2>2, PcFrame
  <1> QED
    BY <1>1, <1>2 DEF CursorOK

\* Making and cancelling an action.
LEMMA ActedAdd ==
    ASSUME NEW u, NEW x, actions' = actions \cup {Action(u, x)}
    PROVE  Acted(u)' = Acted(u) \cup {x} /\ \A t : t # u => Acted(t)' = Acted(t)
  <1>1. PICK b : b = Action(u, x)
    OBVIOUS
  <1>2. b.type = u /\ b.what = x /\ actions' = actions \cup {b}
    BY <1>1 DEF Action
  <1>3. Acted(u)' = Acted(u) \cup {x}
    BY <1>2 DEF Acted
  <1>4. ASSUME NEW t, t # u PROVE Acted(t)' = Acted(t)
    BY <1>2, <1>4 DEF Acted
  <1> QED
    BY <1>3, <1>4

\* A cancelled allocation is taken off the actions of the transaction.
LEMMA ActedDel ==
    ASSUME ActOK, NEW x, actions' = actions \ {Action("alloc", x)}
    PROVE  Acted("alloc")' = Acted("alloc") \ {x} /\ \A t : t # "alloc" => Acted(t)' = Acted(t)
  <1>1. \A a \in actions : a.type = "alloc" /\ a.what = x => a = Action("alloc", x)
    BY DEF ActOK, Action
  <1>2. Action("alloc", x).type = "alloc" /\ Action("alloc", x).what = x
    BY DEF Action
  <1> QED
    BY <1>1, <1>2 DEF Acted

\* The steps that touch the actions of the transaction.
LEMMA ActNext ==
    ASSUME ActOK, PoolOK, nc \in Nat, Next
    PROVE  ActOK'
  <1>1. UNCHANGED actions \/ actions' = {} \/ Alloc \/ Free \/ NewCache
    BY Zenon DEF Next, Begin, Store, AddRange, AddNew, AddInside, AddBeyond, AddDone, SnapLarge,
       SnapSmall, SnapHeader, Abort, OutOfMemory, CommitInner, PreCommit, Publish, PostCommit, CommitDone,
       RestoreRange, RestoreNext, PopCache, PopDone, Zeroed, PopLarge, Process, End, Crash, InAdd,
       AbortTx, lane
  <1>2. CASE UNCHANGED actions \/ actions' = {}
    BY Zenon, <1>2 DEF ActOK
  <1>3. CASE Alloc
    BY <1>3 DEF Alloc, Action, ActOK
  <1>4. CASE Free
    <2>1. \/ actions' \subseteq actions
          \/ \E o \in Obj : actions' = actions \cup {[type |-> "free", what |-> o]}
      BY <1>4 DEF Free, Action, PoolOK
    <2> QED
      BY <2>1 DEF ActOK
  <1>5. CASE NewCache
    <2>1. PICK t \in {"clear", "drop"} : actions' = actions \cup {[type |-> t, what |-> nc + 1]}
      BY <1>5 DEF NewCache, Action
    <2> QED
      BY <2>1 DEF ActOK
  <1> QED
    BY Zenon, <1>1, <1>2, <1>3, <1>4, <1>5

\* No step of a transaction but pmemobj_tx_get_range_cache() makes or cancels an action on a cache.
LEMMA ActionsKept ==
    ASSUME ActOK, ControlOK, depth \in Nat, LenOK, TornOK, Next, Open' \/ pc' = "publish", ~ NewCache, ~ (Begin /\ depth = 0)
    PROVE  UNCHANGED nc /\ Acted("drop")' = Acted("drop") /\ Acted("clear")' = Acted("clear")
  <1>1. CASE Alloc
    <2>1. PICK o : actions' = actions \cup {Action("alloc", o)}
      BY <1>1 DEF Alloc
    <2> QED
      BY <1>1, <2>1, ActedAdd DEF Alloc, InWork, InUser
  <1>2. CASE Free
    <2>1. PICK o : actions' = actions \ {Action("alloc", o)} \/ actions' = actions \cup {Action("free", o)}
      BY <1>2 DEF Free
    <2> QED
      BY <1>2, <2>1, ActedAdd, ActedDel DEF Free, InWork, InUser
  <1>3. CASE ~ Alloc /\ ~ Free
    <2>1. UNCHANGED <<nc, actions>>
      BY Zenon, <1>3, OpenSteps DEF AddDone, SnapHeader, PreCommit, AddNew, AddInside, AddBeyond, SnapLarge, SnapSmall,
         InAdd, InWork, InUser, lane
    <2> QED
      BY <2>1 DEF Acted
  <1> QED
    BY <1>1, <1>2, <1>3

\* There is an action for every cache that the commit has to free or to empty.
LEMMA DropNext ==
    ASSUME LogOK, DropOK, ActOK, ControlOK, depth \in Nat, Next
    PROVE  DropOK'
  <1> SUFFICES ASSUME Open' \/ pc' = "publish"
               PROVE  (Acted("drop") = 3 .. nc /\ (nc > 1 => 2 \in Acted("clear")))'
    BY DEF DropOK
  <1>0. nc \in Nat
    BY DEF LogOK, LenOK
  <1>1. CASE Begin /\ depth = 0
    <2>1. actions' = {} /\ UNCHANGED nc /\ Quiet
      BY <1>1 DEF Begin, InUser, Quiet
    <2>2. nc <= 1
      BY <2>1 DEF LogOK, ClearOK
    <2> QED
      BY <1>0, <2>1, <2>2 DEF Acted
  <1> SUFFICES ASSUME Open PROVE (Acted("drop") = 3 .. nc /\ (nc > 1 => 2 \in Acted("clear")))'
    BY <1>1, OpenSteps
  <1>2. Acted("drop") = 3 .. nc /\ (nc > 1 => 2 \in Acted("clear"))
    BY DEF DropOK
  <1>3. CASE ~ NewCache /\ ~ (Begin /\ depth = 0)
    BY Zenon, <1>2, <1>3, ActionsKept DEF LogOK
  <1>4. CASE NewCache
    <2>1. CASE nc <= 1
      <3>1. nc' = nc + 1 /\ actions' = actions \cup {Action("clear", nc + 1)}
        BY <1>4, <2>1 DEF NewCache
      <3>2. Acted("clear")' = Acted("clear") \cup {nc + 1} /\ Acted("drop")' = Acted("drop")
        BY <3>1, ActedAdd
      <3> QED
        BY <1>0, <1>2, <2>1, <3>1, <3>2
    <2>2. CASE nc > 1
      <3>1. nc' = nc + 1 /\ actions' = actions \cup {Action("drop", nc + 1)}
        BY <1>0, <1>4, <2>2 DEF NewCache
      <3>2. Acted("drop")' = Acted("drop") \cup {nc + 1} /\ Acted("clear")' = Acted("clear")
        BY <3>1, ActedAdd
      <3>3. 3 .. nc + 1 = (3 .. nc) \cup {nc + 1}
        BY <1>0, <2>2
      <3> QED
        BY Zenon, <1>2, <2>2, <3>1, <3>2, <3>3
    <2> QED
      BY <1>0, <2>1, <2>2
  <1> QED
    BY Zenon, <1>1, <1>3, <1>4

==============================================================================
