--------------------------- MODULE BTTBlockProofs ---------------------------
(***************************************************************************)
(* The blocks of an arena, for every size: how map and flogs divide them   *)
(* while updates are pending, and why no block is ever lost or shared, or  *)
(* overwritten while it is mapped or read.                                 *)
(***************************************************************************)
EXTENDS BTTProofs

(***************************************************************************)
(* R maps each LBA to its block, F each flog pair to its old block, N to   *)
(* its new one and L to its LBA; P holds the pairs whose update is pending.*)
(***************************************************************************)
Parted(R, F, N, L, P) ==
    /\ \A x, y \in Lba : R[x] = R[y] => x = y
    /\ \A i, j \in Flogs : F[i] = F[j] => i = j
    /\ \A x \in Lba, i \in Flogs : R[x] = F[i] <=> (i \in P /\ L[i] = x)
    /\ \A i \in P : \A x \in Lba : N[i] # R[x]
    /\ \A i \in P : \A j \in Flogs : N[i] # F[j]
    /\ \A i, j \in P : N[i] = N[j] => i = j
    /\ \A b \in Block : \/ \E x \in Lba : R[x] = b
                        \/ \E i \in Flogs : F[i] = b
                        \/ \E i \in P : N[i] = b

\* flog_update() of pair k for LBA x: the free block becomes the new one, the mapped one the old.
LEMMA FlogMoves ==
    ASSUME NEW R, NEW P \in SUBSET Flogs, NEW k \in Flogs \ P, NEW x \in Lba,
           NEW F \in [Flogs -> Block], NEW N \in [Flogs -> Block], NEW L \in [Flogs -> Lba],
           Parted(R, F, N, L, P), \A i \in P : L[i] # x
    PROVE  Parted(R, [F EXCEPT ![k] = R[x]], [N EXCEPT ![k] = F[k]], [L EXCEPT ![k] = x], P \cup {k})
  <1> DEFINE G == [F EXCEPT ![k] = R[x]]
             M == [N EXCEPT ![k] = F[k]]
             K == [L EXCEPT ![k] = x]
             Q == P \cup {k}
  <1>1. /\ G[k] = R[x] /\ M[k] = F[k] /\ K[k] = x
        /\ \A i \in Flogs : i # k => G[i] = F[i] /\ M[i] = N[i] /\ K[i] = L[i]
    OBVIOUS
  <1> HIDE DEF G, M, K
  <1> USE <1>1 DEF Parted
  <1>2. \A i, j \in Flogs : G[i] = G[j] => i = j
    OBVIOUS
  <1>3. \A y \in Lba, i \in Flogs : R[y] = G[i] <=> (i \in Q /\ K[i] = y)
    OBVIOUS
  <1>4. \A i \in Q : \A y \in Lba : M[i] # R[y]
    OBVIOUS
  <1>5. \A i \in Q : \A j \in Flogs : M[i] # G[j]
    OBVIOUS
  <1>6. \A i, j \in Q : M[i] = M[j] => i = j
    OBVIOUS
  <1>7. ASSUME NEW b \in Block
        PROVE  \/ \E y \in Lba : R[y] = b
               \/ \E i \in Flogs : G[i] = b
               \/ \E i \in Q : M[i] = b
    <2>1. CASE \E i \in Flogs : F[i] = b
      <3>1. PICK i \in Flogs : F[i] = b
        BY <2>1
      <3> QED
        BY <3>1
    <2>2. CASE \E i \in P : N[i] = b
      <3>1. PICK i \in P : N[i] = b
        BY <2>2
      <3> QED
        BY <3>1
    <2> QED
      BY <2>1, <2>2
  <1> QED
    BY <1>2, <1>3, <1>4, <1>5, <1>6, <1>7 DEF G, M, K

\* The map update of a pending pair k: its new block is mapped, its old one free.
LEMMA MapFollows ==
    ASSUME NEW R \in [Lba -> Block], NEW P \in SUBSET Flogs, NEW k \in P,
           NEW F, NEW N, NEW L \in [Flogs -> Lba],
           Parted(R, F, N, L, P)
    PROVE  Parted([R EXCEPT ![L[k]] = N[k]], F, N, L, P \ {k})
  <1> DEFINE S == [R EXCEPT ![L[k]] = N[k]]
             Q == P \ {k}
  <1>1. L[k] \in Lba /\ S[L[k]] = N[k] /\ \A y \in Lba : y # L[k] => S[y] = R[y]
    OBVIOUS
  <1>2. R[L[k]] = F[k]
    BY DEF Parted
  <1> HIDE DEF S
  <1> USE <1>1, <1>2 DEF Parted
  <1>3. \A x, y \in Lba : S[x] = S[y] => x = y
    OBVIOUS
  <1>4. \A y \in Lba, i \in Flogs : S[y] = F[i] <=> (i \in Q /\ L[i] = y)
    OBVIOUS
  <1>5. \A i \in Q : \A y \in Lba : N[i] # S[y]
    OBVIOUS
  <1>6. ASSUME NEW b \in Block
        PROVE  \/ \E y \in Lba : S[y] = b
               \/ \E i \in Flogs : F[i] = b
               \/ \E i \in Q : N[i] = b
    <2>1. CASE \E y \in Lba : R[y] = b
      <3>1. PICK y \in Lba : R[y] = b
        BY <2>1
      <3> QED
        BY <3>1
    <2>2. CASE \E i \in P : N[i] = b
      <3>1. PICK i \in P : N[i] = b
        BY <2>2
      <3> QED
        BY <3>1
    <2> QED
      BY <2>1, <2>2
  <1> QED
    BY <1>3, <1>4, <1>5, <1>6 DEF S

\* Power loss undoes the map updates of the pairs in D, which had not been drained.
LEMMA MapUndone ==
    ASSUME NEW R, NEW S, NEW P \in SUBSET Flogs, NEW D \in SUBSET Flogs, NEW F, NEW N,
           NEW L \in [Flogs -> Lba],
           Parted(R, F, N, L, P),
           \A i \in D : i \notin P /\ R[L[i]] = N[i] /\ S[L[i]] = F[i],
           \A i, j \in D : L[i] = L[j] => i = j,
           \A i \in D, j \in P : L[i] # L[j],
           \A x \in Lba : (\A i \in D : L[i] # x) => S[x] = R[x]
    PROVE  Parted(S, F, N, L, P \cup D)
  <1> DEFINE Q == P \cup D
  <1>1. \A x \in Lba : S[x] = R[x] \/ \E i \in D : L[i] = x /\ S[x] = F[i]
    OBVIOUS
  <1>2. \A i \in D : L[i] \in Lba
    OBVIOUS
  <1>3. ASSUME NEW x \in Lba, NEW y \in Lba, S[x] = S[y] PROVE x = y
    <2>0. /\ R[x] = R[y] => x = y
          /\ \A i, j \in D : F[i] = F[j] => i = j
          /\ \A i \in D : F[i] # R[x] /\ F[i] # R[y]
      BY DEF Parted
    <2>1. CASE S[x] = R[x] /\ S[y] = R[y]
      BY Zenon, <1>3, <2>0, <2>1
    <2>2. ASSUME NEW i \in D, L[i] = x, S[x] = F[i] PROVE x = y
      <3>1. S[y] # R[y]
        BY <1>3, <2>0, <2>2
      <3>2. PICK j \in D : L[j] = y /\ S[y] = F[j]
        BY <1>1, <3>1
      <3>3. F[i] = F[j]
        BY Zenon, <1>3, <2>2, <3>2
      <3>4. i = j
        BY <2>0, <3>3
      <3> QED
        BY <2>2, <3>2, <3>4
    <2>3. ASSUME NEW j \in D, L[j] = y, S[y] = F[j], S[x] = R[x] PROVE x = y
      BY <1>3, <2>0, <2>3
    <2> QED
      BY <1>1, <2>1, <2>2, <2>3
  <1>4. ASSUME NEW x \in Lba, NEW i \in Flogs PROVE S[x] = F[i] <=> (i \in Q /\ L[i] = x)
    <2>1. ASSUME NEW j \in D, L[j] = x, S[x] = F[j] PROVE S[x] = F[i] <=> (i \in Q /\ L[i] = x)
      BY <2>1 DEF Parted
    <2>2. CASE \A j \in D : L[j] # x
      BY <2>2 DEF Parted
    <2> QED
      BY <2>1, <2>2
  <1>5. ASSUME NEW i \in Q, NEW x \in Lba PROVE N[i] # S[x]
    <2>1. CASE S[x] = R[x] /\ \A j \in D : L[j] # x
      BY <2>1 DEF Parted
    <2>2. ASSUME NEW j \in D, L[j] = x, S[x] = F[j] PROVE N[i] # S[x]
      BY <2>2, <1>2 DEF Parted
    <2> QED
      BY <2>1, <2>2
  <1>6. \A i \in Q : \A j \in Flogs : N[i] # F[j]
    BY <1>2 DEF Parted
  <1>7. \A i, j \in Q : N[i] = N[j] => i = j
    BY <1>2 DEF Parted
  <1>8. ASSUME NEW b \in Block
        PROVE  \/ \E y \in Lba : S[y] = b
               \/ \E i \in Flogs : F[i] = b
               \/ \E i \in Q : N[i] = b
    <2>1. ASSUME NEW y \in Lba, R[y] = b
          PROVE (\E z \in Lba : S[z] = b) \/ \E i \in Q : N[i] = b
      <3>1. CASE \A j \in D : L[j] # y
        BY <2>1, <3>1
      <3>2. ASSUME NEW j \in D, L[j] = y PROVE \E i \in Q : N[i] = b
        BY <2>1, <3>2
      <3> QED
        BY <3>1, <3>2
    <2> QED
      BY <2>1 DEF Parted
  <1> QED
    BY <1>3, <1>4, <1>5, <1>6, <1>7, <1>8 DEF Parted

------------------------------------------------------------------------------
\* Pair i asks for a map update that has not been made.
Pending(i) == Incomplete(Current(i), map)

\* A loaded pair asks for one only between its lane's flog and map updates.
PendingOK ==
    \A i \in Flogs :
        /\ i < rec => (Pending(i) <=> i \in Lane /\ pc[i] = "map_store" /\ op[i] = "write")
        /\ Current(i).old = Current(i).new \/ Current(i).new.st = "normal"

RawMap == [x \in Lba |-> Resolve(map[x], x).blk]
OldBlk == [i \in Flogs |-> Current(i).old.blk]
NewBlk == [i \in Flogs |-> Current(i).new.blk]
FlogLba == [i \in Flogs |-> Current(i).lba]
PendingSet == {i \in Flogs : Pending(i)}

PartOK == Parted(RawMap, OldBlk, NewBlk, FlogLba, PendingSet)

\* The maps `Parted' is about have the types its lemmas ask for.
LEMMA CurrentTypes ==
    TypeOK => /\ \A i \in Flogs : Current(i) \in FlogEntry
              /\ RawMap \in [Lba -> Block] /\ OldBlk \in [Flogs -> Block]
              /\ NewBlk \in [Flogs -> Block] /\ FlogLba \in [Flogs -> Lba]
              /\ PendingSet \in SUBSET Flogs
  <1> SUFFICES ASSUME TypeOK
               PROVE /\ \A i \in Flogs : Current(i) \in FlogEntry
                     /\ RawMap \in [Lba -> Block] /\ OldBlk \in [Flogs -> Block]
                     /\ NewBlk \in [Flogs -> Block] /\ FlogLba \in [Flogs -> Lba]
                     /\ PendingSet \in SUBSET Flogs
    OBVIOUS
  <1>1. ASSUME NEW i \in Flogs PROVE Current(i) \in FlogEntry
    <2>1. rt[i].flog \in FlogEntry /\ flog[i] \in [Slots -> FlogEntry]
      BY DEF TypeOK
    <2> QED
      BY <2>1, CurrentFlogSlot DEF Current
  <1>2. \A x \in Lba : Resolve(map[x], x) \in Entry
    BY EntryTypes DEF TypeOK
  <1>3. \A i \in Flogs : Current(i).old.blk \in Block /\ Current(i).new.blk \in Block /\ Current(i).lba \in Lba
    BY <1>1 DEF FlogEntry, Entry
  <1> QED
    BY <1>1, <1>2, <1>3 DEF RawMap, OldBlk, NewBlk, FlogLba, PendingSet, Entry

\* With unchanged pairs the bookkeeping depends on the map alone.
LEMMA SamePairs ==
    ASSUME \A i \in Flogs : Current(i)' = Current(i)
    PROVE  OldBlk' = OldBlk /\ NewBlk' = NewBlk /\ FlogLba' = FlogLba
  BY DEF OldBlk, NewBlk, FlogLba

\* Completing the update of pair k, by its lane or by a restart.
LEMMA Completed ==
    ASSUME TypeOK, PartOK, NEW k \in Flogs, Pending(k),
           \A i \in Flogs : Current(i)' = Current(i),
           Current(k).new.st = "normal",
           map' = [map EXCEPT ![Current(k).lba] = Current(k).new]
    PROVE  PartOK' /\ PendingSet' = PendingSet \ {k}
  <1> DEFINE x == Current(k).lba
             n == Current(k).new
  <1>0. /\ x \in Lba /\ n \in Entry /\ \A i \in Flogs : Current(i).lba \in Lba
        /\ map'[x] = n /\ \A y \in Lba : y # x => map'[y] = map[y]
    BY CurrentTypes DEF FlogEntry, TypeOK
  <1>1. Resolve(map'[x], x) = n /\ \A y \in Lba : y # x => Resolve(map'[y], y) = Resolve(map[y], y)
    BY <1>0 DEF Resolve
  <1>2. RawMap' = [RawMap EXCEPT ![FlogLba[k]] = NewBlk[k]]
    <2>1. FlogLba[k] = x /\ NewBlk[k] = n.blk
      BY DEF FlogLba, NewBlk
    <2>2. \A y \in Lba : Resolve(map'[y], y).blk = IF y = x THEN n.blk ELSE Resolve(map[y], y).blk
      BY <1>0, <1>1
    <2> HIDE DEF x, n
    <2>3. [y \in Lba |-> Resolve(map'[y], y).blk] =
             [[y \in Lba |-> Resolve(map[y], y).blk] EXCEPT ![x] = n.blk]
      BY Zenon, <1>0, <2>2
    <2> QED
      BY <2>1, <2>3 DEF RawMap
  <1>3. k \in PendingSet
    BY DEF PendingSet
  <1>4. ASSUME NEW i \in Flogs PROVE Pending(i)' <=> Pending(i) /\ i # k
    <2>1. CASE Current(i).lba # x
      BY <2>1, <1>0, <1>1 DEF Pending, Incomplete
    <2>2. CASE Current(i).lba = x /\ i # k
      <3>1. FlogLba[i] = FlogLba[k] /\ FlogLba[k] \in Lba
        BY <2>2, <1>0 DEF FlogLba
      <3>2. ~Pending(i)
        BY <1>3, <2>2, <3>1 DEF PartOK, Parted, PendingSet
      <3>3. NewBlk[k] # OldBlk[i]
        BY <1>3 DEF PartOK, Parted
      <3>4. n # Current(i).old
        BY <3>3 DEF NewBlk, OldBlk
      <3> QED
        BY <2>2, <3>2, <3>4, <1>1 DEF Pending, Incomplete
    <2>3. CASE i = k
      BY <2>3, <1>1 DEF Pending, Incomplete
    <2> QED
      BY <2>1, <2>2, <2>3
  <1>5. PendingSet' = PendingSet \ {k}
    BY <1>4 DEF PendingSet
  <1>6. Parted([RawMap EXCEPT ![FlogLba[k]] = NewBlk[k]], OldBlk, NewBlk, FlogLba, PendingSet \ {k})
    BY Zenon, <1>3, CurrentTypes, MapFollows DEF PartOK
  <1> QED
    BY <1>2, <1>5, <1>6, SamePairs DEF PartOK

\* A crash undoes map updates that had not been drained; the flogs make them pending again.
LEMMA CrashParts == LaneInv /\ PendingOK /\ PartOK /\ Crash => PendingOK' /\ PartOK'
  <1> SUFFICES ASSUME LaneInv, PendingOK, PartOK, Crash PROVE PendingOK' /\ PartOK'
    OBVIOUS
  <1> USE Sizes DEF LaneInv
  <1>1. PICK lost \in SUBSET {x \in Lba : map[x] # pmap[x]} :
           map' = [x \in Lba |-> IF x \in lost THEN pmap[x] ELSE map[x]]
    BY DEF Crash
  <1> DEFINE D == {i \in Flogs : i \in Lane /\ pc[i] = "map_drain" /\ op[i] = "write" /\ lba[i] \in lost}
             R == RawMap
             S == RawMap'
             F == OldBlk
             N == NewBlk
             L == FlogLba
             P == PendingSet
  <1>2. rec' = 0 /\ flog' = flog
    BY DEF Crash
  <1>3. ASSUME NEW i \in Flogs PROVE Current(i)' = Current(i)
    <2>1. Current(i)' = flog[i][CurrentFlog(flog[i])]
      BY <1>2 DEF Current
    <2>2. FlogPairOK(i)
      BY DEF FlogOK
    <2> QED
      BY <2>1, <2>2 DEF Current, FlogPairOK
  <1>4. \A l \in Lane : pc[l] = "map_drain" => rec = NFree
    BY DEF QuietOK, TypeOK
  <1>5. ASSUME NEW i \in D
        PROVE /\ i \notin P /\ L[i] = lba[i] /\ L[i] \in lost
              /\ Resolve(map[L[i]], L[i]) = Current(i).new /\ R[L[i]] = N[i]
              /\ Resolve(map'[L[i]], L[i]) = Current(i).old /\ S[L[i]] = F[i]
    <2>1. i < rec /\ lba[i] \in Lba
      BY <1>4, SizeAssumption DEF Flogs, TypeOK
    <2>2. i \notin P
      BY Zenon, <2>1 DEF PendingOK, PendingSet
    <2>3. Current(i) = rt[i].flog /\ L[i] = lba[i]
      BY <2>1 DEF Current, FlogLba, EntOK
    <2>4. DrainingOK(i) /\ ent[i].st = "normal" /\ rt[i].flog.new = ent[i]
      BY DEF DrainOK, EntOK
    <2>5. Resolve(map[lba[i]], lba[i]) = Current(i).new
      BY <2>3, <2>4 DEF DrainingOK, Resolve
    <2>6. map'[lba[i]] = pmap[lba[i]]
      BY <1>1, <2>1
    <2>7. Resolve(map'[lba[i]], lba[i]) = Current(i).old
      BY <2>3, <2>4, <2>6 DEF DrainingOK
    <2>8. R[lba[i]] = N[i]
      BY <2>1, <2>5 DEF RawMap, NewBlk
    <2>9. S[lba[i]] = F[i]
      BY <2>1, <2>7 DEF RawMap, OldBlk
    <2> QED
      BY <2>2, <2>3, <2>5, <2>7, <2>8, <2>9
  <1>6. \A i, j \in D : L[i] = L[j] => i = j
    <2>1. \A i, j \in D : lba[i] = lba[j] => i = j
      BY Zenon DEF LockOK
    <2> QED
      BY Zenon, <2>1, <1>5
  <1>7. ASSUME NEW j \in P PROVE L[j] \in Lba /\ map'[L[j]] = map[L[j]]
    <2>1. j \in Flogs /\ L[j] \in Lba
      BY CurrentTypes DEF PendingSet
    <2>2. ASSUME L[j] \in lost PROVE FALSE
      <3>1. PICK l \in Lane : pc[l] = "map_drain" /\ lba[l] = L[j]
        BY Zenon, <2>1, <2>2 DEF DrainOK
      <3>2. j < rec
        BY <1>4, <2>1, <3>1, SizeAssumption DEF Flogs
      <3>3. j \in Lane /\ pc[j] = "map_store" /\ op[j] = "write"
        BY Zenon, <2>1, <3>2 DEF PendingOK, PendingSet
      <3>4. L[j] = lba[j]
        BY Zenon, <2>1, <3>2, <3>3 DEF EntOK, FlogLba, Current
      <3> QED
        BY <3>1, <3>3, <3>4 DEF LockOK
    <2> QED
      BY <1>1, <2>1, <2>2
  <1>8. \A i \in D, j \in P : L[i] # L[j]
    <2> SUFFICES ASSUME NEW i \in D, NEW j \in P, L[i] = L[j] PROVE FALSE
      OBVIOUS
    <2>1. map'[L[j]] = pmap[L[j]] /\ map[L[j]] # pmap[L[j]]
      BY Zenon, <1>1, <1>5, <1>7
    <2> QED
      BY <1>7, <2>1
  <1>9. ASSUME NEW x \in Lba, \A i \in D : L[i] # x PROVE S[x] = R[x]
    <2>1. CASE x \notin lost
      BY <1>1, <2>1 DEF RawMap
    <2>2. CASE x \in lost
      <3>1. PICK l \in Lane : pc[l] = "map_drain" /\ lba[l] = x
        BY <2>2 DEF DrainOK
      <3>2. op[l] # "write"
        BY <1>5, <1>9, <2>2, <3>1
      <3>3. /\ ent[l].st = op[l] /\ Resolve(pmap[x], x).blk = ent[l].blk /\ map[x] = ent[l]
            /\ op[l] # "initial"
        BY <3>1, <3>2 DEF DrainOK, DrainingOK, TypeOK
      <3>4. Resolve(map[x], x).blk = ent[l].blk
        BY <3>3 DEF Resolve
      <3>5. map'[x] = pmap[x]
        BY Zenon, <1>1, <2>2
      <3> QED
        BY <3>3, <3>4, <3>5 DEF RawMap
    <2> QED
      BY <2>1, <2>2
  <1>10. Parted(S, F, N, L, P \cup D)
    <2>1. P \in SUBSET Flogs /\ L \in [Flogs -> Lba]
      BY CurrentTypes
    <2>2. D \in SUBSET Flogs
      OBVIOUS
    <2>3. Parted(R, F, N, L, P)
      BY DEF PartOK
    <2>4. \A i \in D : i \notin P /\ R[L[i]] = N[i] /\ S[L[i]] = F[i]
      BY Zenon, <1>5
    <2> HIDE DEF D, R, S, F, N, L, P
    <2> QED
      BY <1>6, <1>8, <1>9, <2>1, <2>2, <2>3, <2>4, MapUndone
  <1>11. ASSUME NEW i \in Flogs PROVE Pending(i)' <=> i \in P \cup D
    <2>1. CASE i \in D
      <3>1. L[i] \in Lba /\ L[i] = Current(i).lba
        BY Zenon, CurrentTypes DEF FlogLba
      <3>2. R[L[i]] # F[i]
        BY Zenon, <1>5, <2>1, <3>1 DEF PartOK, Parted
      <3>3. Current(i).new # Current(i).old
        BY <1>5, <2>1, <3>2 DEF NewBlk, OldBlk
      <3> QED
        BY Zenon, <1>3, <1>5, <2>1, <3>1, <3>3 DEF Pending, Incomplete
    <2>2. CASE i \in P
      <3>1. L[i] = Current(i).lba
        BY DEF FlogLba
      <3> QED
        BY <1>3, <1>7, <2>2, <3>1 DEF PendingSet, Pending, Incomplete
    <2>3. CASE i \notin P \cup D
      <3>1. L[i] \in Lba /\ L[i] = Current(i).lba
        BY Zenon, CurrentTypes DEF FlogLba
      <3>2. S[L[i]] # F[i]
        <4> HIDE DEF D, R, S, F, N, L, P
        <4> QED
          BY Zenon, <1>10, <2>3, <3>1 DEF Parted
      <3>3. Resolve(map'[L[i]], L[i]) # Current(i).old
        BY <3>1, <3>2 DEF RawMap, OldBlk
      <3> QED
        BY Zenon, <1>3, <2>3, <3>1, <3>3 DEF Pending, Incomplete
    <2> QED
      BY <2>1, <2>2, <2>3
  <1>12. PendingSet' = P \cup D
    <2>1. P \in SUBSET Flogs
      BY DEF PendingSet
    <2>2. D \in SUBSET Flogs
      OBVIOUS
    <2>3. \A i : i \in PendingSet' <=> i \in Flogs /\ Pending(i)'
      BY Zenon DEF PendingSet
    <2> HIDE DEF D, R, S, F, N, L, P
    <2> QED
      BY Zenon, <1>11, <2>1, <2>2, <2>3
  <1>13. PartOK'
    BY Zenon, <1>3, <1>10, <1>12, SamePairs DEF PartOK
  <1>14. PendingOK'
    BY <1>2, <1>3 DEF PendingOK
  <1> QED
    BY <1>13, <1>14

------------------------------------------------------------------------------
\* Two map entries in one state differ in their block.
LEMMA SameState == ASSUME NEW e \in Entry, NEW f \in Entry, e.st = f.st, e # f PROVE e.blk # f.blk
  BY DEF Entry

------------------------------------------------------------------------------
\* A writer that has scanned a reader's slot does not go for the block that reader reads.
Scanned(w, r) == (pc[w] = "wr_scan" /\ r < scan[w]) \/ pc[w] \in {"wr_half1", "wr_half2"}
ScanOK == \A r, w \in Lane : Reading(r) /\ Scanned(w, r) => ent[r].blk # ent[w].blk

\* The free block a btt_write goes for is not in the map.
LEMMA FreeNotMapped ==
    ASSUME LaneInv, PendingOK, PartOK, NEW w \in Lane,
           pc[w] \in {"wr_scan", "wr_half1", "wr_half2"}, NEW x \in Lba
    PROVE  Resolve(map[x], x).blk # ent[w].blk
  <1>1. op[w] = "write" /\ rec = NFree /\ w < rec /\ w \in Flogs
    BY SizeAssumption DEF LaneInv, ControlOK, QuietOK, TypeOK, Flogs, Lane
  <1>2. ent[w].blk = OldBlk[w]
    <2>1. ent[w] = Normal(rt[w].flog.old.blk)
      BY Zenon, <1>1 DEF LaneInv, EntOK
    <2>2. Current(w) = rt[w].flog
      BY <1>1 DEF Current
    <2> QED
      BY <1>1, <2>1, <2>2 DEF Normal, OldBlk
  <1>3. w \notin PendingSet
    BY <1>1 DEF PendingOK, PendingSet
  <1>4. RawMap[x] # OldBlk[w]
    BY <1>1, <1>3 DEF PartOK, Parted
  <1> QED
    BY <1>2, <1>4 DEF RawMap

\* The second look at the map and the scan of the read tracking table keep readers and writers apart.
LEMMA ScanNext == LaneInv /\ PendingOK /\ PartOK /\ ScanOK /\ [Next]_vars => ScanOK'
  <1> SUFFICES ASSUME LaneInv, PendingOK, PartOK, ScanOK, [Next]_vars PROVE ScanOK'
    OBVIOUS
  <1> USE Sizes DEF At, Goto, Finish, media, runtime, locals
  <1>1. ASSUME NEW l \in Lane, ReadRecheck(l) PROVE ScanOK'
    <2>1. ASSUME NEW w \in Lane, Reading(l)', Scanned(w, l)' PROVE ent'[l].blk # ent'[w].blk
      <3>1. /\ w # l /\ pc[w] \in {"wr_scan", "wr_half1", "wr_half2"} /\ ent'[w] = ent[w]
            /\ lba[l] \in Lba /\ ent'[l] = map[lba[l]] /\ map[lba[l]] = ent[l]
        BY <1>1, <2>1 DEF LaneInv, TypeOK, ReadRecheck, Reading, Scanned
      <3>2. ent[l].st = "normal"
        BY Zenon, <1>1 DEF LaneInv, TrackOK, ReadRecheck
      <3>3. Resolve(map[lba[l]], lba[l]).blk = ent[l].blk
        BY <3>1, <3>2 DEF Resolve
      <3> QED
        BY Zenon, <3>1, <3>3, FreeNotMapped
    <2>2. ASSUME NEW r \in Lane, NEW w \in Lane, r # l, Reading(r)', Scanned(w, r)'
          PROVE ent'[r].blk # ent'[w].blk
      BY <1>1, <2>2 DEF LaneInv, TypeOK, ScanOK, ReadRecheck, Reading, Scanned
    <2> QED
      BY <2>1, <2>2 DEF ScanOK
  <1>2. ASSUME NEW l \in Lane, WriteScan(l) PROVE ScanOK'
    <2>1. ASSUME NEW r \in Lane, Reading(r)', Scanned(l, r)' PROVE ent'[r].blk # ent'[l].blk
      <3>1. Reading(r) /\ ent' = ent /\ r # l /\ pc[l] = "wr_scan"
        BY Zenon, <1>2, <2>1 DEF LaneInv, TypeOK, WriteScan, Reading, Scanned
      <3>2. r < scan[l] \/ r = scan[l]
        <4>1. r \in 0 .. NLane - 1 /\ scan[l] \in 0 .. NLane
          BY DEF LaneInv, TypeOK, Lane
        <4>2. r < scan[l] + 1 \/ scan[l] + 1 = NLane
          BY Zenon, <1>2, <2>1 DEF LaneInv, TypeOK, WriteScan, Scanned
        <4> QED
          BY <4>1, <4>2, SizeAssumption
      <3>3. CASE r < scan[l]
        BY <3>1, <3>3 DEF ScanOK, Scanned
      <3>4. CASE r = scan[l]
        <4>1. rtt[r] = ent[r] /\ ent[r].st = "normal" /\ ent[r] # ent[l]
          BY Zenon, <1>2, <3>1, <3>4 DEF LaneInv, TrackOK, Reading, WriteScan
        <4>2. ent[l].st = "normal"
          <5>1. ent[l] = Normal(rt[l].flog.old.blk)
            BY Zenon, <3>1 DEF LaneInv, ControlOK, EntOK
          <5> QED
            BY <5>1 DEF Normal
        <4>3. ent[r] \in Entry /\ ent[l] \in Entry
          BY DEF LaneInv, TypeOK
        <4>4. ent[r].blk # ent[l].blk
          BY <4>1, <4>2, <4>3, SameState
        <4> QED
          BY <3>1, <4>4
      <3> QED
        BY <3>2, <3>3, <3>4
    <2>2. ASSUME NEW r \in Lane, NEW w \in Lane, w # l, Reading(r)', Scanned(w, r)'
          PROVE ent'[r].blk # ent'[w].blk
      BY Zenon, <1>2, <2>2 DEF LaneInv, TypeOK, ScanOK, WriteScan, Reading, Scanned
    <2> QED
      BY <2>1, <2>2 DEF ScanOK
  <1>3. ASSUME NEW l \in Lane, LaneStep(l), ~ReadRecheck(l), ~WriteScan(l),
               NEW r \in Lane, NEW w \in Lane, Reading(r)', Scanned(w, r)'
        PROVE  ent'[r].blk # ent'[w].blk
    <2>1. Keeps(l) /\ TypeOK
      BY <1>3, LaneFrame DEF LaneInv
    <2>2. Reading(r) /\ ent'[r] = ent[r]
      <3>1. CASE r # l
        BY Zenon, <1>3, <2>1, <3>1 DEF Keeps, Reading
      <3>2. CASE r = l
        <4>1. ReadHalf1(l)
          BY Zenon, <1>3, <2>1, <3>2, Moves DEF Reading
        <4> QED
          BY <3>2, <4>1 DEF ReadHalf1, Reading
      <3> QED
        BY <3>1, <3>2
    <2>3. Scanned(w, r) /\ ent'[w] = ent[w]
      <3>1. CASE w # l
        BY <1>3, <2>1, <3>1 DEF Keeps, Scanned
      <3>2. CASE w = l
        <4>1. WriteStart(l) \/ WriteHalf1(l)
          BY Zenon, <1>3, <2>1, <3>2, Moves DEF Scanned
        <4>2. ASSUME WriteStart(l) PROVE FALSE
          <5>1. scan[l] = 0 /\ scan' = scan
            BY <4>2 DEF WriteStart, LaneInv, ControlOK
          <5>2. pc'[l] = "wr_scan"
            BY <2>1, <4>2 DEF WriteStart, TypeOK
          <5>3. r < 0
            BY <1>3, <3>2, <5>1, <5>2 DEF Scanned
          <5> QED
            BY <5>3
        <4> QED
          BY <3>2, <4>1, <4>2 DEF WriteHalf1, Scanned
      <3> QED
        BY Zenon, <3>1, <3>2
    <2> QED
      BY Zenon, <2>2, <2>3 DEF ScanOK
  <1>4. CASE Crash
    BY Zenon, <1>4 DEF ScanOK, Crash, Reading
  <1>5. CASE RecoverFlog \/ UNCHANGED vars
    BY Zenon, <1>5 DEF ScanOK, RecoverFlog, Reading, Scanned, vars
  <1> QED
    BY <1>1, <1>2, <1>3, <1>4, <1>5 DEF Next, LaneStep, ScanOK

\* Every step keeps the blocks parted, unless a namespace write fails.
LEMMA BlocksNext == LaneInv /\ PendingOK /\ PartOK /\ fails' = fails /\ [Next]_vars => PendingOK' /\ PartOK'
  <1> SUFFICES ASSUME LaneInv, PendingOK, PartOK, fails' = fails PROVE [Next]_vars => PendingOK' /\ PartOK'
    OBVIOUS
  <1> USE Sizes DEF At, Goto, Finish, Unlock, vars, media, runtime, locals, counters
  <1>0. ASSUME UNCHANGED <<map, rt, rec>>, rec = NFree \/ UNCHANGED flog,
               \A i \in Lane : pc'[i] = "map_store" /\ op'[i] = "write" <=>
                                pc[i] = "map_store" /\ op[i] = "write"
        PROVE PendingOK' /\ PartOK'
    <2>1. \A i \in Flogs : Current(i)' = Current(i)
      BY <1>0, SizeAssumption DEF Current, Flogs
    <2>2. \A i \in Flogs : Pending(i)' <=> Pending(i)
      BY <1>0, <2>1 DEF Pending
    <2>3. PendingSet' = PendingSet /\ RawMap' = RawMap
      BY Zenon, <1>0, <2>2 DEF PendingSet, RawMap
    <2>4. PartOK'
      BY <2>1, <2>3, SamePairs DEF PartOK
    <2>5. PendingOK'
      BY <1>0, <2>1, <2>2 DEF PendingOK
    <2> QED
      BY <2>4, <2>5
  <1>1. ASSUME NEW l \in Lane, FlogWrite1(l) PROVE PendingOK' /\ PartOK'
    <2>1. rec = NFree
      <3>1. pc[l] = "flog1"
        BY <1>1 DEF FlogWrite1
      <3>2. ~(rec < NFree)
        BY <3>1 DEF LaneInv, QuietOK
      <3> QED
        BY <3>2 DEF LaneInv, TypeOK
    <2> QED
      BY <1>1, <1>0, <2>1 DEF LaneInv, TypeOK, FlogWrite1
  <1>2. ASSUME NEW l \in Lane, FlogWrite2(l) PROVE PendingOK' /\ PartOK'
    <2> USE <1>2 DEF LaneInv
    <2> DEFINE x == lba[l]
               q == Nseq[rt[l].flog.seq]
               f == [lba |-> x, old |-> old[l], new |-> ent[l], seq |-> q]
    <2>1. /\ pc[l] = "flog2" /\ op[l] = "write" /\ rec = NFree /\ x \in Lba /\ l \in Flogs
          /\ \A i \in Flogs : i < rec
      BY SizeAssumption DEF FlogWrite2, ControlOK, QuietOK, TypeOK, Flogs, Lane
    <2>2. /\ ent[l] = Normal(rt[l].flog.old.blk) /\ old[l] = Resolve(map[x], x)
      BY <2>1 DEF EntOK, OldOK
    <2>3. /\ rt'[l].flog = f /\ \A i \in Flogs : i # l => rt'[i] = rt[i]
          /\ map' = map /\ rec' = rec
          /\ pc'[l] = "map_store" /\ op' = op /\ \A i \in Lane : i # l => pc'[i] = pc[i]
      BY Zenon, <2>1 DEF FlogWrite2, TypeOK
    <2>4. /\ Current(l) = rt[l].flog /\ Current(l)' = f
          /\ \A i \in Flogs : i # l => Current(i)' = Current(i)
      BY Zenon, <2>1, <2>3 DEF Current
    <2>5. l \notin PendingSet
      BY Zenon, <2>1 DEF PendingOK, PendingSet
    <2>6. \A i \in PendingSet : FlogLba[i] # x
      <3> SUFFICES ASSUME NEW i \in PendingSet, FlogLba[i] = x PROVE FALSE
        OBVIOUS
      <3>1. i \in Flogs /\ i \in Lane /\ pc[i] = "map_store" /\ op[i] = "write"
        BY Zenon, <2>1 DEF PendingOK, PendingSet
      <3>2. FlogLba[i] = lba[i]
        BY Zenon, <2>1, <3>1 DEF EntOK, FlogLba, Current
      <3> QED
        <4>1. lba[i] = x
          BY <3>2
        <4>2. lock[LockNum(x)] = i
          BY Zenon, <3>1, <4>1 DEF LockOK
        <4>3. lock[LockNum(x)] = l
          BY <2>1 DEF LockOK
        <4> QED
          BY Zenon, <2>1, <3>1, <4>2, <4>3
    <2>7. /\ RawMap' = RawMap /\ OldBlk' = [OldBlk EXCEPT ![l] = RawMap[x]]
          /\ NewBlk' = [NewBlk EXCEPT ![l] = OldBlk[l]] /\ FlogLba' = [FlogLba EXCEPT ![l] = x]
      <3>1. f.old.blk = RawMap[x] /\ f.new.blk = OldBlk[l] /\ f.lba = x
        <4>1. f.lba = x /\ f.old = old[l] /\ f.new = ent[l]
          BY Zenon
        <4>2. RawMap[x] = Resolve(map[x], x).blk
          BY Zenon, <2>1 DEF RawMap
        <4>3. OldBlk[l] = rt[l].flog.old.blk
          BY Zenon, <2>1, <2>4 DEF OldBlk
        <4>4. Normal(rt[l].flog.old.blk).blk = rt[l].flog.old.blk
          BY Zenon DEF Normal
        <4> HIDE DEF f, x
        <4> QED
          BY Zenon, <2>2, <4>1, <4>2, <4>3, <4>4
      <3> HIDE DEF f, x
      <3>2. \A i \in Flogs : Current(i)' = IF i = l THEN f ELSE Current(i)
        BY Zenon, <2>4
      <3> QED
        BY Zenon, <2>1, <2>3, <3>1, <3>2 DEF RawMap, OldBlk, NewBlk, FlogLba
    <2>8. PendingSet' = PendingSet \cup {l}
      <3>1. RawMap[x] # OldBlk[l]
        BY Zenon, <2>1, <2>5 DEF PartOK, Parted
      <3>2. f.new # f.old
        <4>1. f.old = old[l] /\ f.new = ent[l]
          BY Zenon
        <4>2. RawMap[x] = Resolve(map[x], x).blk
          BY Zenon, <2>1 DEF RawMap
        <4>3. OldBlk[l] = rt[l].flog.old.blk
          BY Zenon, <2>1, <2>4 DEF OldBlk
        <4>4. Normal(rt[l].flog.old.blk).blk = rt[l].flog.old.blk
          BY Zenon DEF Normal
        <4> HIDE DEF f, x
        <4> QED
          BY Zenon, <2>2, <3>1, <4>1, <4>2, <4>3, <4>4
      <3>3. Pending(l)'
        <4>1. Current(l)' = f
          BY Zenon, <2>1, <2>4
        <4>2. f.lba = x /\ f.old = Resolve(map'[x], x)
          BY Zenon, <2>2, <2>3
        <4> HIDE DEF f, x
        <4> QED
          BY Zenon, <3>2, <4>1, <4>2 DEF Pending, Incomplete
      <3>4. \A i \in Flogs : i # l => (Pending(i)' <=> Pending(i))
        BY <2>3, <2>4 DEF Pending
      <3> QED
        BY Zenon, <2>1, <3>3, <3>4 DEF PendingSet
    <2>9. PartOK'
      <3>1. Parted(RawMap, [OldBlk EXCEPT ![l] = RawMap[x]], [NewBlk EXCEPT ![l] = OldBlk[l]],
                   [FlogLba EXCEPT ![l] = x], PendingSet \cup {l})
        <4> HIDE DEF x
        <4> QED
          BY Zenon, <2>1, <2>5, <2>6, CurrentTypes, FlogMoves DEF PartOK
      <3> QED
        BY Zenon, <2>7, <2>8, <3>1 DEF PartOK
    <2>10. f.new.st = "normal"
      BY <2>2 DEF Normal
    <2>11. PendingOK'
      <3> SUFFICES ASSUME NEW i \in Flogs
                   PROVE  /\ Pending(i)' <=> i \in Lane /\ pc'[i] = "map_store" /\ op'[i] = "write"
                          /\ Current(i)'.old = Current(i)'.new \/ Current(i)'.new.st = "normal"
        BY DEF PendingOK
      <3>1. Pending(i)' <=> i \in PendingSet \cup {l}
        BY Zenon, <2>8 DEF PendingSet
      <3>2. CASE i = l
        BY Zenon, <2>1, <2>3, <2>4, <2>10, <3>1, <3>2
      <3>3. CASE i # l
        BY <2>1, <2>3, <2>4, <3>1, <3>3 DEF PendingOK, PendingSet
      <3> QED
        BY Zenon, <3>2, <3>3
    <2> QED
      BY <2>9, <2>11
  <1>3. ASSUME NEW l \in Lane, MapStore(l) PROVE PendingOK' /\ PartOK'
    <2> USE <1>3 DEF LaneInv
    <2> DEFINE x == lba[l]
    <2>1. /\ pc[l] = "map_store" /\ op[l] \in {"write", "zero", "error"} /\ rec = NFree
          /\ x \in Lba /\ l \in Flogs /\ \A i \in Flogs : i < rec
      BY SizeAssumption DEF MapStore, ControlOK, QuietOK, TypeOK, Flogs, Lane
    <2>2. /\ map' = [map EXCEPT ![x] = ent[l]] /\ rt' = rt /\ rec' = rec /\ op' = op
          /\ pc'[l] = "map_drain" /\ \A i \in Lane : i # l => pc'[i] = pc[i]
      BY DEF MapStore, TypeOK
    <2>3. \A i \in Flogs : Current(i) = rt[i].flog /\ Current(i)' = Current(i)
      BY Zenon, <2>1, <2>2 DEF Current
    <2>4. CASE op[l] = "write"
      <3>1. Pending(l)
        BY Zenon, <2>1, <2>4 DEF PendingOK
      <3>2. Current(l).lba = x /\ Current(l).new = ent[l] /\ ent[l].st = "normal"
        BY Zenon, <2>1, <2>3, <2>4 DEF EntOK
      <3>3. PartOK' /\ PendingSet' = PendingSet \ {l}
        BY Zenon, <2>1, <2>2, <2>3, <3>1, <3>2, Completed
      <3>4. PendingOK'
        <4> SUFFICES ASSUME NEW i \in Flogs
                     PROVE  /\ Pending(i)' <=> i \in Lane /\ pc'[i] = "map_store" /\ op'[i] = "write"
                            /\ Current(i)'.old = Current(i)'.new \/ Current(i)'.new.st = "normal"
          BY DEF PendingOK
        <4>1. Pending(i)' <=> Pending(i) /\ i # l
          BY Zenon, <3>3 DEF PendingSet
        <4> QED
          BY Zenon, <2>1, <2>2, <2>3, <4>1 DEF PendingOK
      <3> QED
        BY <3>3, <3>4
    <2>5. CASE op[l] # "write"
      <3>1. ent[l].st \in {"zero", "error"} /\ ent[l].blk = Resolve(map[x], x).blk
        BY Zenon, <2>1, <2>5 DEF EntOK, OldOK
      <3>2. Resolve(map'[x], x).blk = Resolve(map[x], x).blk
        BY Zenon, <2>1, <2>2, <3>1 DEF Resolve, TypeOK
      <3>3. \A y \in Lba : y # x => map'[y] = map[y]
        BY Zenon, <2>2 DEF TypeOK
      <3>4. RawMap' = RawMap
        BY <3>2, <3>3 DEF RawMap
      <3>5. ASSUME NEW i \in Flogs PROVE Pending(i)' <=> Pending(i)
        <4>1. Current(i).lba \in Lba
          BY CurrentTypes DEF FlogEntry
        <4>2. CASE Current(i).lba # x
          BY Zenon, <2>3, <3>3, <4>1, <4>2 DEF Pending, Incomplete
        <4>3. CASE Current(i).lba = x
          <5>1. ~Pending(i)
            <6> SUFFICES ASSUME Pending(i) PROVE FALSE
              OBVIOUS
            <6>1. i \in Lane /\ pc[i] = "map_store" /\ op[i] = "write"
              BY Zenon, <2>1 DEF PendingOK
            <6>2. lba[i] = x
              BY Zenon, <2>3, <4>3, <6>1 DEF EntOK
            <6> QED
              BY <2>1, <2>5, <6>1, <6>2 DEF LockOK
          <5>2. RawMap[x] # OldBlk[i]
            BY Zenon, <2>1, <5>1 DEF PartOK, Parted, PendingSet
          <5>3. Resolve(map'[x], x) # Current(i).old
            BY Zenon, <2>1, <3>2, <5>2 DEF RawMap, OldBlk
          <5> QED
            BY Zenon, <2>3, <4>3, <5>1, <5>3 DEF Pending, Incomplete
        <4> QED
          BY Zenon, <4>2, <4>3
      <3>6. PendingSet' = PendingSet
        BY Zenon, <3>5 DEF PendingSet
      <3>7. PartOK'
        BY Zenon, <2>3, <3>4, <3>6, SamePairs DEF PartOK
      <3>8. PendingOK'
        <4> SUFFICES ASSUME NEW i \in Flogs
                     PROVE  /\ Pending(i)' <=> i \in Lane /\ pc'[i] = "map_store" /\ op'[i] = "write"
                            /\ Current(i)'.old = Current(i)'.new \/ Current(i)'.new.st = "normal"
          BY DEF PendingOK
        <4> QED
          BY <2>1, <2>2, <2>3, <2>5, <3>5 DEF PendingOK
      <3> QED
        BY <3>7, <3>8
    <2> QED
      BY <2>4, <2>5
  <1>4. ASSUME NEW l \in Lane, LaneStep(l), ~FlogWrite1(l), ~FlogWrite2(l), ~MapStore(l)
        PROVE  PendingOK' /\ PartOK'
    <2>1. ~FailStep(l)
      BY DEF FailStep, DataFail, FlogFail, MapFail, LaneInv, TypeOK
    <2>2. map' = map /\ rt' = rt /\ flog' = flog
      BY Zenon, <1>4, Stores
    <2>3. Keeps(l)
      BY <1>4, LaneFrame DEF LaneInv
    <2>4. pc[l] # "map_store"
      BY Zenon, <1>4, <2>1, Moves DEF LaneInv, FailStep
    <2>5. pc'[l] = "map_store" => op'[l] # "write"
      <3>1. pc'[l] = "map_store" => SetfEntry(l)
        BY Zenon, <1>4, Moves DEF LaneInv
      <3> QED
        BY Zenon, <3>1 DEF SetfEntry, LaneInv, ControlOK
    <2> QED
      BY Zenon, <2>2, <2>3, <2>4, <2>5, <1>0 DEF Keeps
  <1>5. ASSUME Crash PROVE PendingOK' /\ PartOK'
    BY <1>5, CrashParts
  <1>6. ASSUME RecoverFlog PROVE PendingOK' /\ PartOK'
    <2> USE <1>6 DEF LaneInv
    <2>0. PICK k \in Flogs : k = rec
      BY DEF TypeOK, RecoverFlog, Flogs
    <2> DEFINE c == CurrentFlog(flog[k])
               f == flog[k][c]
    <2>1. rec < NFree /\ rec' = rec + 1 /\ rec \in Nat /\ \A l \in Lane : pc[l] = "idle" /\ pc' = pc
      BY DEF RecoverFlog, TypeOK, QuietOK
    <2>2. FlogValid(flog[k])
      <3>1. FlogPairOK(k)
        BY DEF FlogOK
      <3>2. c \in Slots /\ 1 - c \in Slots
        BY CurrentFlogSlot
      <3>3. flog[k][1 - c].seq \in 0 .. 3
        BY <3>2 DEF TypeOK, FlogEntry
      <3>4. flog[k][c].seq # flog[k][1 - c].seq
        BY <3>1, <3>3, NseqFacts DEF FlogPairOK
      <3> QED
        BY Zenon, <3>2, <3>4 DEF FlogValid, Slots
    <2>3. /\ flog' = flog /\ rt'[k].flog = f /\ \A i \in Flogs : i # k => rt'[i] = rt[i]
          /\ map' = IF Incomplete(f, map) THEN [map EXCEPT ![f.lba] = f.new] ELSE map
      BY Zenon, <2>0, <2>2 DEF RecoverFlog, TypeOK
    <2>4. Current(k) = f /\ Current(k)' = f
      <3>1. ~(k < rec) /\ k < rec'
        BY <2>0, <2>1
      <3> QED
        BY Zenon, <2>3, <3>1 DEF Current
    <2>5. \A i \in Flogs : Current(i)' = Current(i)
      <3> SUFFICES ASSUME NEW i \in Flogs, i # k PROVE Current(i)' = Current(i)
        BY <2>4
      <3>1. i < rec' <=> i < rec
        BY <2>0, <2>1
      <3> QED
        BY Zenon, <2>3, <3>1 DEF Current
    <2>6. PartOK' /\ PendingSet' = PendingSet \ {k}
      <3>1. CASE Pending(k)
        <4>1. f.new.st = "normal"
          BY Zenon, <2>4, <3>1 DEF PendingOK, Pending, Incomplete
        <4>2. map' = [map EXCEPT ![Current(k).lba] = Current(k).new]
          BY Zenon, <2>3, <2>4, <3>1 DEF Pending
        <4> QED
          BY Zenon, <2>4, <2>5, <3>1, <4>1, <4>2, Completed
      <3>2. CASE ~Pending(k)
        <4>1. map' = map
          BY Zenon, <2>3, <2>4, <3>2 DEF Pending
        <4>2. PendingSet' = PendingSet /\ k \notin PendingSet
          BY Zenon, <2>5, <3>2, <4>1 DEF PendingSet, Pending
        <4>3. RawMap' = RawMap
          BY <4>1 DEF RawMap
        <4> QED
          BY Zenon, <2>5, <4>2, <4>3, SamePairs DEF PartOK
      <3> QED
        BY <3>1, <3>2
    <2>7. ASSUME NEW i \in Flogs, i < rec' PROVE ~Pending(i)' /\ (i \in Lane => pc'[i] # "map_store")
      <3>1. Pending(i)' => Pending(i) /\ i # k
        BY <2>6 DEF PendingSet
      <3>2. i = k \/ i < rec
        BY <2>0, <2>1, <2>7
      <3> QED
        BY Zenon, <2>1, <3>1, <3>2 DEF PendingOK
    <2> QED
      BY Zenon, <2>5, <2>6, <2>7 DEF PendingOK
  <1>7. ASSUME UNCHANGED vars PROVE PendingOK' /\ PartOK'
    BY <1>7, <1>0
  <1> QED
    BY Zenon, <1>1, <1>2, <1>3, <1>4, <1>5, <1>6, <1>7 DEF Next, LaneStep

------------------------------------------------------------------------------
BlockInv == PendingOK /\ PartOK /\ ScanOK

\* A freshly laid out arena: every LBA has its own block, every flog the free one behind them.
LEMMA BlockInit == Init => BlockInv
  <1> SUFFICES ASSUME Init PROVE BlockInv
    OBVIOUS
  <1>1. \A i \in Flogs : Current(i) = InitFlog(i)
    BY SizeAssumption DEF Init, Current, Flogs
  <1>2. /\ \A i \in Flogs : OldBlk[i] = ExternalNlba + i /\ ~Pending(i)
        /\ \A i \in Flogs : Current(i).old = Current(i).new
    BY <1>1 DEF OldBlk, Pending, Incomplete, InitFlog
  <1>3. \A x \in Lba : RawMap[x] = x
    BY DEF Init, RawMap, Resolve, Initial, Normal
  <1>4. PendingSet = {}
    BY Zenon, <1>2 DEF PendingSet
  <1>5. PartOK
    <2>1. \A x \in Lba, i \in Flogs : RawMap[x] # OldBlk[i]
      BY <1>2, <1>3, SizeAssumption DEF Lba, Flogs
    <2>2. \A i, j \in Flogs : OldBlk[i] = OldBlk[j] => i = j
      BY <1>2, SizeAssumption DEF Flogs
    <2>3. ASSUME NEW b \in Block PROVE (\E x \in Lba : RawMap[x] = b) \/ (\E i \in Flogs : OldBlk[i] = b)
      <3>1. CASE b < ExternalNlba
        <4>1. b \in Lba
          BY <3>1, SizeAssumption DEF Lba, Block
        <4> QED
          BY <1>3, <4>1
      <3>2. CASE ~(b < ExternalNlba)
        <4>1. b - ExternalNlba \in Flogs /\ ExternalNlba + (b - ExternalNlba) = b
          BY <3>2, SizeAssumption DEF Block, Flogs
        <4> QED
          BY <1>2, <4>1
      <3> QED
        BY <3>1, <3>2
    <2> QED
      BY <1>3, <1>4, <2>1, <2>2, <2>3 DEF PartOK, Parted
  <1>6. PendingOK
    BY Zenon, <1>2, Sizes DEF PendingOK, Init
  <1>7. ScanOK
    BY DEF ScanOK, Reading, Init
  <1> QED
    BY <1>5, <1>6, <1>7 DEF BlockInv

\* The invariant of the blocks, as long as no namespace write has failed.
THEOREM BlocksConsistent == Spec => [](fails = 0 => BlockInv)
  <1> DEFINE I == LaneInv /\ (fails = 0 => BlockInv)
  <1>1. Init => I
    BY LaneInit, BlockInit
  <1>2. I /\ [Next]_vars => I'
    <2> SUFFICES ASSUME LaneInv, fails = 0 => BlockInv, [Next]_vars, fails' = 0 PROVE BlockInv'
      BY LaneNext
    <2>1. fails' = fails \/ fails' = fails + 1
      <3>1. ASSUME NEW l \in Lane, LaneStep(l) PROVE fails' = fails \/ fails' = fails + 1
        BY Zenon, <3>1, Stores DEF FailStep, DataFail, FlogFail, MapFail
      <3>2. CASE Crash \/ RecoverFlog \/ UNCHANGED vars
        BY Zenon, <3>2 DEF Crash, RecoverFlog, vars, counters
      <3> QED
        BY <3>1, <3>2 DEF Next, LaneStep
    <2>2. fails' = fails
      BY <2>1 DEF LaneInv, TypeOK
    <2> QED
      BY <2>2, BlocksNext, ScanNext DEF BlockInv
  <1>3. I => (fails = 0 => BlockInv)
    OBVIOUS
  <1> QED
    BY <1>1, <1>2, <1>3, PTL DEF Spec

(***************************************************************************)
(* For every size of the arena and every number of lanes, calls and        *)
(* crashes: each block is home of exactly one LBA or free block of exactly *)
(* one flog pair (unless a namespace write failed).                        *)
(***************************************************************************)
THEOREM NoBlockLostOrShared == Spec => []BlocksPartitioned
  <1>1. ASSUME TypeOK, BlockInv, fails = 0 PROVE BlocksPartitioned
    <2> USE <1>1 DEF BlockInv
    <2>1. \A i \in Flogs : Owes(i) <=> i \in PendingSet
      BY DEF Owes, PendingOK, PendingSet, Pending
    <2>2. \A x \in Lba, i \in Flogs : i \in OwedTo(x) <=> i \in PendingSet /\ FlogLba[i] = x
      BY <2>1 DEF OwedTo, FlogLba
    <2>3. ASSUME NEW x \in Lba
          PROVE \/ HomeOf(x) = RawMap[x] /\ \A i \in PendingSet : FlogLba[i] # x
                \/ \E i \in PendingSet : FlogLba[i] = x /\ HomeOf(x) = NewBlk[i]
      <3>1. CASE OwedTo(x) = {}
        <4>1. \A i \in PendingSet : FlogLba[i] # x
          BY <2>2, <3>1 DEF PendingSet
        <4> QED
          BY Zenon, <3>1, <4>1 DEF HomeOf, RawMap
      <3>2. CASE OwedTo(x) # {}
        <4> DEFINE i == CHOOSE i \in OwedTo(x) : TRUE
        <4>1. i \in OwedTo(x)
          BY <3>2
        <4>2. i \in Flogs
          BY <4>1 DEF OwedTo
        <4>3. HomeOf(x) = NewBlk[i]
          BY <3>2, <4>2 DEF HomeOf, NewBlk
        <4>4. i \in PendingSet /\ FlogLba[i] = x
          BY <2>2, <4>1, <4>2
        <4> QED
          BY Zenon, <4>3, <4>4
      <3> QED
        BY <3>1, <3>2
    <2>4. \A i \in Flogs : FreeOf(i) = OldBlk[i]
      BY DEF FreeOf, OldBlk
    <2>5. PendingSet \subseteq Flogs
      BY DEF PendingSet
    <2>6. ASSUME NEW x \in Lba, NEW y \in Lba, HomeOf(x) = HomeOf(y) PROVE x = y
      <3>1. CASE HomeOf(x) = RawMap[x] /\ HomeOf(y) = RawMap[y]
        <4>1. RawMap[x] = RawMap[y]
          BY Zenon, <2>6, <3>1
        <4> QED
          BY <4>1 DEF PartOK, Parted
      <3>2. ASSUME NEW i \in PendingSet, FlogLba[i] = x, HomeOf(x) = NewBlk[i] PROVE x = y
        <4>1. HomeOf(y) # RawMap[y]
          BY <2>6, <3>2 DEF PartOK, Parted
        <4>2. PICK j \in PendingSet : FlogLba[j] = y /\ HomeOf(y) = NewBlk[j]
          BY Zenon, <2>3, <4>1
        <4>3. NewBlk[i] = NewBlk[j]
          BY Zenon, <2>6, <3>2, <4>2
        <4>4. i = j
          BY <4>3 DEF PartOK, Parted
        <4> QED
          BY <3>2, <4>2, <4>4
      <3>3. ASSUME NEW j \in PendingSet, FlogLba[j] = y, HomeOf(y) = NewBlk[j], HomeOf(x) = RawMap[x]
            PROVE x = y
        BY <2>6, <3>3 DEF PartOK, Parted
      <3> QED
        BY <2>3, <3>1, <3>2, <3>3
    <2>7. \A i, j \in Flogs : i # j => FreeOf(i) # FreeOf(j)
      BY <2>4 DEF PartOK, Parted
    <2>8. ASSUME NEW x \in Lba, NEW i \in Flogs PROVE HomeOf(x) # FreeOf(i)
      <3>1. CASE HomeOf(x) = RawMap[x] /\ \A j \in PendingSet : FlogLba[j] # x
        BY <2>4, <3>1 DEF PartOK, Parted
      <3>2. ASSUME NEW j \in PendingSet, HomeOf(x) = NewBlk[j] PROVE HomeOf(x) # FreeOf(i)
        BY <2>4, <3>2 DEF PartOK, Parted
      <3> QED
        BY <2>3, <3>1, <3>2
    <2>9. ASSUME NEW b \in Block PROVE (\E x \in Lba : HomeOf(x) = b) \/ (\E i \in Flogs : FreeOf(i) = b)
      <3>1. ASSUME NEW x \in Lba, RawMap[x] = b
            PROVE (\E y \in Lba : HomeOf(y) = b) \/ (\E i \in Flogs : FreeOf(i) = b)
        <4>1. CASE HomeOf(x) = RawMap[x]
          BY <3>1, <4>1
        <4>2. ASSUME NEW i \in PendingSet, FlogLba[i] = x PROVE \E j \in Flogs : FreeOf(j) = b
          <5>1. OldBlk[i] = RawMap[x] /\ i \in Flogs
            BY Zenon, <2>5, <4>2 DEF PartOK, Parted
          <5> QED
            BY <2>4, <3>1, <5>1
        <4> QED
          BY <2>3, <4>1, <4>2
      <3>2. ASSUME NEW i \in PendingSet, NewBlk[i] = b PROVE \E y \in Lba : HomeOf(y) = b
        <4>1. i \in Flogs /\ FlogLba[i] \in Lba
          BY <2>5, CurrentTypes
        <4>2. PICK j \in PendingSet : FlogLba[j] = FlogLba[i] /\ HomeOf(FlogLba[i]) = NewBlk[j]
          BY <2>3, <3>2, <4>1
        <4>3. OldBlk[j] = RawMap[FlogLba[i]] /\ OldBlk[i] = RawMap[FlogLba[i]]
          BY <2>5, <4>1, <4>2 DEF PartOK, Parted
        <4>4. i = j
          BY <2>5, <4>3 DEF PartOK, Parted
        <4> QED
          BY <3>2, <4>1, <4>2, <4>4
      <3>3. CASE \E i \in Flogs : OldBlk[i] = b
        BY <2>4, <3>3
      <3> QED
        BY Zenon, <3>1, <3>2, <3>3 DEF PartOK, Parted
    <2> QED
      BY <2>6, <2>7, <2>8, <2>9 DEF BlocksPartitioned
  <1>2. TypeOK /\ (fails = 0 => BlockInv) => BlocksPartitioned
    BY <1>1 DEF BlocksPartitioned
  <1> QED
    BY <1>2, TypeCorrect, BlocksConsistent, PTL

(***************************************************************************)
(* For every size of the arena and every number of lanes, calls and        *)
(* crashes: a btt_write never fills a block that is mapped or being read   *)
(* (unless a namespace write failed).                                      *)
(***************************************************************************)
THEOREM NeverWriteUnderReader == Spec => [](fails = 0 => NoWriteUnderReader)
  <1>1. ASSUME LaneInv, BlockInv PROVE NoWriteUnderReader
    <2> SUFFICES ASSUME NEW w \in Lane, pc[w] \in {"wr_half1", "wr_half2"}
                 PROVE  /\ \A x \in Lba : map[x].st # "initial" => map[x].blk # ent[w].blk
                        /\ \A r \in Lane : pc[r] \in {"rd_half1", "rd_half2"} => ent[r].blk # ent[w].blk
      BY DEF NoWriteUnderReader
    <2>1. ASSUME NEW x \in Lba, map[x].st # "initial" PROVE map[x].blk # ent[w].blk
      <3>1. Resolve(map[x], x).blk # ent[w].blk
        BY <1>1, FreeNotMapped DEF BlockInv
      <3> QED
        BY <2>1, <3>1 DEF Resolve
    <2>2. \A r \in Lane : pc[r] \in {"rd_half1", "rd_half2"} => ent[r].blk # ent[w].blk
      BY <1>1 DEF BlockInv, ScanOK, Reading, Scanned
    <2> QED
      BY <2>1, <2>2
  <1>2. LaneInv /\ (fails = 0 => BlockInv) => (fails = 0 => NoWriteUnderReader)
    BY <1>1
  <1> QED
    BY <1>2, LanesConsistent, BlocksConsistent, PTL
==============================================================================
