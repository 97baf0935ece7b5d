---------------------------- MODULE PmemLogProofs ----------------------------
(***************************************************************************)
(* A log pool for every capacity, number of threads and choice of buffers: *)
(* data goes to the media before the offset that covers it, and the pool   *)
(* implements LogDevice, the log whose calls happen at an instant.         *)
(***************************************************************************)
EXTENDS PmemLog, TLAPS, SequenceTheorems, WellFoundedInduction

Buffers == Seq(Seq(Val))

\* A non-empty set of naturals has a least element.
LEMMA Least == ASSUME NEW T \in SUBSET Nat, T # {} PROVE \E n \in T : \A m \in T : n <= m
  <1>1. IsWellFoundedOn(OpToRel(<, Nat), Nat)
    BY Zenon, NatLessThanWellFounded
  <1>2. PICK n \in T : \A m \in T : ~ (<<m, n>> \in OpToRel(<, Nat))
    BY Zenon, <1>1, WFMin
  <1>3. \A m \in T : ~ (m < n)
    BY Zenon, <1>2 DEF OpToRel
  <1> QED
    BY <1>3

\* f[i] is the first i of the buffers p, one after the other.
IsFlat(f, p, n) ==
    /\ f \in [0 .. n -> Seq(Val)] /\ f[0] = <<>>
    /\ \A i \in 1 .. n : f[i] = f[i - 1] \o p[i]

\* The buffers of an append.
LEMMA BufferTypes == ASSUME NEW p \in Buffers PROVE Len(p) \in Nat /\ \A i \in 1 .. Len(p) : p[i] \in Seq(Val)
  BY DEF Buffers

\* There is such an f.
LEMMA FlatExists ==
    ASSUME NEW n \in Nat, NEW p, \A i \in 1 .. n : p[i] \in Seq(Val)
    PROVE  \E f : IsFlat(f, p, n)
  <1> DEFINE T == {k \in 0 .. n : ~ \E f : IsFlat(f, p, k)}
  <1>1. n \in 0 .. n /\ T \in SUBSET Nat
    OBVIOUS
  <1>2. SUFFICES ASSUME T # {} PROVE FALSE
    BY Zenon, <1>1
  <1>3. PICK k \in T : \A m \in T : k <= m
    <2> HIDE DEF T
    <2> QED
      BY Zenon, <1>1, <1>2, Least
  <1>4. IsFlat([i \in 0 .. 0 |-> <<>>], p, 0)
    BY DEF IsFlat
  <1>5. k # 0
    BY Zenon, <1>3, <1>4
  <1>6. k - 1 \in 0 .. n /\ k \in 1 .. n /\ ~ (k <= k - 1)
    BY <1>3, <1>5
  <1>7. PICK f : IsFlat(f, p, k - 1)
    BY Zenon, <1>3, <1>6
  <1> DEFINE a == f[k - 1] \o p[k]
             g == [i \in 0 .. k |-> IF i = k THEN a ELSE f[i]]
  <1>8. f \in [0 .. k - 1 -> Seq(Val)] /\ f[0] = <<>> /\ \A i \in 1 .. k - 1 : f[i] = f[i - 1] \o p[i]
    BY Zenon, <1>7 DEF IsFlat
  <1>9. a \in Seq(Val)
    <2>1. f[k - 1] \in Seq(Val) /\ p[k] \in Seq(Val)
      BY <1>6, <1>8
    <2> QED
      BY Zenon, <2>1, ConcatProperties
  <1>10. g[0] = <<>> /\ g \in [0 .. k -> Seq(Val)]
    <2> HIDE DEF a
    <2> QED
      BY <1>6, <1>8, <1>9
  <1>11. ASSUME NEW i \in 1 .. k PROVE g[i] = g[i - 1] \o p[i]
    <2>1. i - 1 \in 0 .. k /\ i - 1 # k /\ i \in 0 .. k /\ (i # k => i \in 1 .. k - 1)
      BY <1>6
    <2>2. g[i - 1] = f[i - 1] /\ g[i] = IF i = k THEN a ELSE f[i]
      BY Zenon, <2>1
    <2> QED
      BY Zenon, <1>8, <2>1, <2>2
  <1>12. IsFlat(g, p, k)
    BY Zenon, <1>10, <1>11 DEF IsFlat
  <1> QED
    BY Zenon, <1>3, <1>12

\* Bytes() puts all of them one after the other.
LEMMA FlatIs ==
    ASSUME NEW p \in Buffers, NEW f, IsFlat(f, p, Len(p))
    PROVE  Device!Bytes(p) = f[Len(p)]
  <1>1. PICK n : n = Len(p)
    BY Zenon
  <1> DEFINE Unrolled(c) == [i \in 0 .. n |-> IF i = 0 THEN <<>> ELSE c[i - 1] \o p[i]]
             c == CHOOSE c : c = Unrolled(c)
  <1>2. n \in Nat
    BY Zenon, <1>1, BufferTypes
  <1>3. f \in [0 .. n -> Seq(Val)] /\ f[0] = <<>> /\ \A i \in 1 .. n : f[i] = f[i - 1] \o p[i]
    BY Zenon, <1>1 DEF IsFlat
  <1>4. \A i \in 0 .. n : i # 0 => i \in 1 .. n /\ i - 1 \in 0 .. n /\ ~ (i <= i - 1)
    BY <1>2
  <1>5. f = Unrolled(f)
    <2>1. \A i \in 0 .. n : f[i] = IF i = 0 THEN <<>> ELSE f[i - 1] \o p[i]
      BY Zenon, <1>3, <1>4
    <2> QED
      BY Zenon, <1>3, <2>1
  <1>6. c = Unrolled(c)
    <2> HIDE DEF Unrolled
    <2> QED
      BY Zenon, <1>5
  <1>7. Device!Bytes(p) = c[n]
    BY Zenon, <1>1 DEF Device!Bytes
  <1>8. \A i \in 0 .. n : c[i] = IF i = 0 THEN <<>> ELSE c[i - 1] \o p[i]
    <2> HIDE DEF c
    <2> QED
      BY Zenon, <1>6
  <1> HIDE DEF c
  <1> DEFINE T == {i \in 0 .. n : c[i] # f[i]}
  <1>9. ASSUME T # {} PROVE FALSE
    <2>1. T \in SUBSET Nat
      BY <1>2
    <2>2. PICK i \in T : \A m \in T : i <= m
      <3> HIDE DEF T
      <3> QED
        BY Zenon, <1>9, <2>1, Least
    <2>3. i # 0
      BY Zenon, <1>3, <1>8, <2>2
    <2>4. c[i - 1] = f[i - 1]
      BY Zenon, <1>4, <2>2, <2>3
    <2> QED
      BY Zenon, <1>3, <1>4, <1>8, <2>2, <2>3, <2>4
  <1>10. n \in 0 .. n
    BY <1>2
  <1> QED
    BY Zenon, <1>1, <1>7, <1>9, <1>10

\* Concatenating buffers is associative.
LEMMA Assoc == \A s, t, u \in Seq(Val) : (s \o t) \o u = s \o (t \o u)
  <1> SUFFICES ASSUME NEW s \in Seq(Val), NEW t \in Seq(Val), NEW u \in Seq(Val)
               PROVE  (s \o t) \o u = s \o (t \o u)
    BY Zenon
  <1> QED
    BY ConcatAssociative

\* What an append adds to the log.
Flat(p) == Device!Bytes(p)

\* It holds the first buffer and then the others.
LEMMA FlatFacts ==
    /\ Flat(<<>>) = <<>>
    /\ \A p \in Buffers : /\ Flat(p) \in Seq(Val) /\ Total(p) = Len(Flat(p))
                          /\ p # <<>> => Flat(p) = Head(p) \o Flat(Tail(p))
  <1>1. Flat(<<>>) = <<>>
    <2>1. <<>> \in Buffers /\ Len(<<>>) = 0 /\ (\A i \in 1 .. 0 : <<>>[i] \in Seq(Val))
      BY DEF Buffers
    <2>2. PICK f : IsFlat(f, <<>>, 0)
      BY Zenon, <2>1, FlatExists
    <2> QED
      BY Zenon, <2>1, <2>2, FlatIs DEF Flat, IsFlat
  <1>2. ASSUME NEW p \in Buffers PROVE Flat(p) \in Seq(Val) /\ Total(p) = Len(Flat(p))
    <2>0. PICK n : n = Len(p)
      BY Zenon
    <2>1. n \in Nat /\ \A i \in 1 .. n : p[i] \in Seq(Val)
      BY Zenon, <2>0, BufferTypes
    <2>2. PICK f : IsFlat(f, p, n)
      BY Zenon, <2>1, FlatExists
    <2>3. Flat(p) = f[n]
      BY Zenon, <2>0, <2>2, FlatIs DEF Flat
    <2>4. n \in 0 .. n /\ \A i \in 1 .. n : i \in 0 .. n /\ i - 1 \in 0 .. n /\ i # 0
      BY <2>1
    <2>5. /\ f \in [0 .. n -> Seq(Val)] /\ f[0] = <<>>
          /\ \A i \in 1 .. n : f[i] = f[i - 1] \o p[i]
      BY Zenon, <2>2 DEF IsFlat
    <2>6. f[n] \in Seq(Val)
      BY Zenon, <2>4, <2>5
    <2> DEFINE Unrolled(c) == [i \in 0 .. n |-> IF i = 0 THEN 0 ELSE c[i - 1] + Len(p[i])]
               h == [i \in 0 .. n |-> Len(f[i])]
               c == CHOOSE c : c = Unrolled(c)
    <2>7. Len(f[0]) = 0
      BY <2>5
    <2>8. ASSUME NEW i \in 1 .. n PROVE Len(f[i]) = Len(f[i - 1]) + Len(p[i])
      <3>1. f[i - 1] \in Seq(Val) /\ p[i] \in Seq(Val) /\ f[i] = f[i - 1] \o p[i]
        BY Zenon, <2>1, <2>4, <2>5
      <3>2. Len(f[i - 1] \o p[i]) = Len(f[i - 1]) + Len(p[i])
        BY Zenon, <3>1, ConcatProperties
      <3> QED
        BY Zenon, <3>1, <3>2
    <2>9. \A i \in 0 .. n : i # 0 => i \in 1 .. n
      BY <2>1
    <2>10. h = Unrolled(h)
      <3>1. ASSUME NEW i \in 0 .. n PROVE h[i] = IF i = 0 THEN 0 ELSE h[i - 1] + Len(p[i])
        BY Zenon, <2>4, <2>7, <2>8, <2>9
      <3> QED
        BY Zenon, <3>1
    <2>11. c = Unrolled(c)
      <3> HIDE DEF Unrolled
      <3> QED
        BY Zenon, <2>10
    <2>12. Total(p) = c[n]
      BY Zenon, <2>0 DEF Total
    <2>13. \A i \in 0 .. n : c[i] = IF i = 0 THEN 0 ELSE c[i - 1] + Len(p[i])
      <3> HIDE DEF c
      <3> QED
        BY Zenon, <2>11
    <2> HIDE DEF c, h
    <2> DEFINE T == {i \in 0 .. n : c[i] # Len(f[i])}
    <2>14. ASSUME T # {} PROVE FALSE
      <3>1. T \in SUBSET Nat
        BY <2>1
      <3>2. PICK i \in T : \A m \in T : i <= m
        <4> HIDE DEF T
        <4> QED
          BY Zenon, <2>14, <3>1, Least
      <3>3. i # 0
        BY Zenon, <2>7, <2>13, <3>2
      <3>4. i - 1 \in 0 .. n /\ ~ (i <= i - 1)
        BY <2>1, <3>2, <3>3
      <3>5. c[i - 1] = Len(f[i - 1])
        BY Zenon, <3>2, <3>4
      <3>6. Len(f[i]) = Len(f[i - 1]) + Len(p[i]) /\ c[i] = c[i - 1] + Len(p[i])
        BY Zenon, <2>8, <2>9, <2>13, <3>2, <3>3
      <3> QED
        BY Zenon, <3>2, <3>5, <3>6
    <2> QED
      BY Zenon, <2>3, <2>4, <2>6, <2>12, <2>14
  <1>3. ASSUME NEW p \in Buffers, p # <<>> PROVE Flat(p) = Head(p) \o Flat(Tail(p))
    <2> DEFINE a == Head(p)
               q == Tail(p)
    <2>1. a \in Seq(Val) /\ q \in Buffers /\ a = p[1] /\ Len(q) = Len(p) - 1 /\ \A i \in 1 .. Len(q) : q[i] = p[i + 1]
      BY <1>3, HeadTailProperties DEF Buffers
    <2>0. PICK n : n = Len(p)
      BY Zenon
    <2>2. n \in Nat /\ n # 0 /\ Len(q) = n - 1
      <3>1. n # 0
        BY <1>3, <2>0 DEF Buffers
      <3> QED
        BY Zenon, <2>0, <2>1, <3>1, BufferTypes
    <2> HIDE DEF a, q
    <2>3. PICK f : IsFlat(f, q, n - 1)
      BY Zenon, <2>1, <2>2, BufferTypes, FlatExists
    <2>4. Flat(q) = f[n - 1]
      BY Zenon, <2>1, <2>2, <2>3, FlatIs DEF Flat
    <2>5. /\ f \in [0 .. n - 1 -> Seq(Val)] /\ f[0] = <<>>
          /\ \A i \in 1 .. n - 1 : f[i] = f[i - 1] \o q[i]
      BY Zenon, <2>3 DEF IsFlat
    <2> DEFINE g == [i \in 0 .. n |-> IF i = 0 THEN <<>> ELSE a \o f[i - 1]]
    <2>6. \A i \in 0 .. n : i # 0 => i - 1 \in 0 .. n - 1
      BY <2>2
    <2>7. g \in [0 .. n -> Seq(Val)]
      <3>1. ASSUME NEW i \in 0 .. n, i # 0 PROVE a \o f[i - 1] \in Seq(Val)
        BY Zenon, <2>1, <2>5, <2>6, <3>1, ConcatProperties
      <3>2. <<>> \in Seq(Val)
        OBVIOUS
      <3> QED
        BY Zenon, <3>1, <3>2
    <2>8. ASSUME NEW i \in 1 .. n PROVE g[i] = g[i - 1] \o p[i]
      <3>1. CASE i = 1
        <4>1. i - 1 = 0 /\ 0 \in 0 .. n /\ i \in 0 .. n /\ i # 0
          BY <2>2, <3>1
        <4>2. a \o <<>> = a /\ <<>> \o a = a
          BY Zenon, <2>1, ConcatEmptySeq
        <4>3. g[0] = <<>> /\ g[i] = a \o f[0]
          BY Zenon, <4>1
        <4>4. g[i] = a /\ p[i] = a
          BY Zenon, <2>1, <2>5, <3>1, <4>2, <4>3
        <4>5. g[i - 1] = <<>>
          BY Zenon, <4>1, <4>3
        <4> HIDE DEF g
        <4> QED
          BY Zenon, <4>2, <4>4, <4>5
      <3>2. CASE i # 1
        <4>1. /\ i - 1 \in 1 .. n - 1 /\ i - 1 \in 0 .. n - 1 /\ (i - 1) - 1 \in 0 .. n - 1 /\ i \in 0 .. n /\ i - 1 \in 0 .. n
              /\ i # 0 /\ i - 1 # 0 /\ (i - 1) + 1 = i
          BY <2>2, <3>2
        <4>2. f[i - 1] = f[(i - 1) - 1] \o p[i] /\ p[i] \in Seq(Val) /\ f[(i - 1) - 1] \in Seq(Val)
          BY Zenon, <2>0, <2>1, <2>2, <2>5, <4>1, BufferTypes
        <4>3. a \o (f[(i - 1) - 1] \o p[i]) = (a \o f[(i - 1) - 1]) \o p[i]
          BY Zenon, <2>1, <4>2, Assoc
        <4>4. g[i] = a \o f[i - 1] /\ g[i - 1] = a \o f[(i - 1) - 1]
          BY Zenon, <4>1
        <4> QED
          BY Zenon, <4>2, <4>3, <4>4
      <3> QED
        BY Zenon, <3>1, <3>2
    <2>9. 0 \in 0 .. n /\ n \in 0 .. n
      BY <2>2
    <2>10. IsFlat(g, p, n)
      BY Zenon, <2>7, <2>8, <2>9 DEF IsFlat
    <2>11. Flat(p) = g[n]
      BY Zenon, <2>0, <2>10, FlatIs DEF Flat
    <2> QED
      BY Zenon, <2>2, <2>4, <2>9, <2>11 DEF a, q
  <1> QED
    BY Zenon, <1>1, <1>2, <1>3

------------------------------------------------------------------------------
Places == {"idle", "lock", "copy", "offset", "persist", "walk", "done"}

SpaceOK ==
    /\ data \in [Pos -> Val \cup {Junk}]
    /\ media \in [Pos -> SUBSET (Val \cup {Junk})]
    /\ write_offset \in Nat /\ poffset \subseteq Nat
    /\ off \in [Thread -> Nat]
    /\ pc \in [Thread -> Places]
    /\ parts \in [Thread -> Buffers]

Writing(t) == pc[t] \in {"copy", "offset", "persist"}

(* A thread past the write lock is its holder.                             *)
WriterOK == \A t \in Thread : Writing(t) => wrlock = t

(* The media has one write_offset, except between its store and its drain. *)
OffsetOK ==
    /\ write_offset \in poffset
    /\ (\A t \in Thread : pc[t] # "persist") => poffset = {write_offset}

(* What a writer has copied so far follows the log, and is durable when    *)
(* the offset is about to be stored.                                       *)
CopyOK ==
    \A t \in Thread :
        /\ pc[t] = "copy" => /\ off[t] >= write_offset
                             /\ \A i \in Pos : i <= off[t] => data[i] # Junk
        /\ pc[t] = "offset" => \A i \in Pos : i <= off[t] =>
                                   media[i] = {data[i]} /\ data[i] # Junk

(* What a caller passed, and only walkers walk.                            *)
CallOK ==
    /\ call = [t \in Thread |-> call[t]]
    /\ \A t \in Thread : /\ call[t].op = "append" => call[t].parts \in AppendArg
                         /\ call[t].op = "walk" => call[t].chunk \in ChunkArg
                         /\ pc[t] = "walk" => call[t].op = "walk"

LogInv == SpaceOK /\ WriterOK /\ OffsetOK /\ CopyOK /\ CallOK /\ OffsetCoversDurable

\* A new pool is empty and nobody is inside.
LEMMA LogInit == Init => LogInv
  <1> SUFFICES ASSUME Init PROVE LogInv
    OBVIOUS
  <1> USE DEF Init
  <1>1. SpaceOK
    <2>1. <<>> \in Buffers
      BY DEF Buffers
    <2> QED
      BY <2>1 DEF SpaceOK, Places
  <1>2. WriterOK /\ OffsetOK /\ CopyOK
    BY DEF WriterOK, OffsetOK, CopyOK, Writing
  <1>3. CallOK
    BY DEF CallOK, Idle
  <1>4. OffsetCoversDurable
    BY SMTT(40), LogAssumption DEF OffsetCoversDurable, Pos
  <1> QED
    BY SMTT(40), <1>1, <1>2, <1>3, <1>4 DEF LogInv

\* Entering and returning touch nothing but the caller's own state.
LEMMA Outside ==
    ASSUME LogInv, NEW t \in Thread, UNCHANGED <<space, write_offset, poffset, locks, off, parts>>,
           ~Writing(t), NEW l \in {"idle", "lock", "done"}, Goto(t, l),
           NEW c, call' = [call EXCEPT ![t] = c], c.op = "append" => c.parts \in AppendArg,
           c.op = "walk" => c.chunk \in ChunkArg
    PROVE  LogInv'
  <1> USE DEF Goto, space, locks
  <1>1. SpaceOK' /\ WriterOK' /\ OffsetOK'
    BY SMTT(40) DEF LogInv, SpaceOK, WriterOK, OffsetOK, Writing, Places
  <1>2. CopyOK' /\ OffsetCoversDurable'
    BY DEF LogInv, SpaceOK, CopyOK, OffsetCoversDurable
  <1>3. CallOK'
    BY DEF LogInv, SpaceOK, CallOK
  <1> QED
    BY SMTT(40), <1>1, <1>2, <1>3 DEF LogInv

\* Each step keeps data ahead of the offset.
LEMMA LogNext == LogInv /\ [Next]_vars => LogInv'
  <1> SUFFICES ASSUME LogInv, [Next]_vars PROVE LogInv'
    OBVIOUS
  <1> USE DEF Goto, space, locks, Done
  <1>1. ASSUME NEW t \in Thread, NEW p \in AppendArg, Enter(t, [op |-> "append", parts |-> p]) PROVE LogInv'
    <2> DEFINE c == [op |-> "append", parts |-> p]
    <2>1. ~Writing(t)
      BY SMTT(40), <1>1 DEF Enter, Writing
    <2>2. UNCHANGED <<space, write_offset, poffset, locks, off, parts>> /\ Goto(t, "lock")
          /\ call' = [call EXCEPT ![t] = c]
      BY SMTT(40), <1>1 DEF Enter
    <2> QED
      BY ZenonT(40), <2>1, <2>2, Outside
  <1>2. ASSUME NEW t \in Thread, NEW c, Enter(t, c), c.op # "append",
               c.op = "walk" => c.chunk \in ChunkArg
        PROVE LogInv'
    <2>1. ~Writing(t)
      BY SMTT(40), <1>2 DEF Enter, Writing
    <2>2. UNCHANGED <<space, write_offset, poffset, locks, off, parts>> /\ Goto(t, "lock")
          /\ call' = [call EXCEPT ![t] = c]
      BY SMTT(40), <1>2 DEF Enter
    <2> QED
      BY ZenonT(40), <1>2, <2>1, <2>2, Outside
  <1>3. ASSUME NEW t \in Thread, AppendLock(t) PROVE LogInv'
    <2>1. /\ pc[t] = "lock" /\ wrlock = NoOne /\ wrlock' = t /\ pc' = [pc EXCEPT ![t] = "copy"]
          /\ off' = [off EXCEPT ![t] = write_offset] /\ parts' = [parts EXCEPT ![t] = call[t].parts]
          /\ UNCHANGED <<data, media, write_offset, poffset, call>> /\ call[t].op = "append"
      BY SMTT(40), <1>3 DEF AppendLock, WrLocked
    <2>2. \A u \in Thread : ~Writing(u)
      BY SMTT(40), <2>1, LogAssumption DEF LogInv, WriterOK
    <2>3. call[t].parts \in Buffers
      BY SMTT(40), <2>1, LogAssumption DEF LogInv, CallOK, Buffers
    <2>4. SpaceOK'
      BY SMTT(40), <2>1, <2>3 DEF LogInv, SpaceOK, Places
    <2>5. poffset = {write_offset}
      BY SMTT(40), <2>2 DEF LogInv, OffsetOK, Writing
    <2>6. WriterOK' /\ OffsetOK' /\ CallOK'
      BY SMTT(40), <2>1, <2>2, <2>5 DEF LogInv, SpaceOK, WriterOK, OffsetOK, CallOK, Writing
    <2>7. CopyOK' /\ OffsetCoversDurable'
      BY SMTT(40), <2>1, <2>2, <2>5 DEF LogInv, SpaceOK, CopyOK, OffsetCoversDurable, Writing
    <2> QED
      BY SMTT(40), <2>4, <2>6, <2>7 DEF LogInv
  <1>4. ASSUME NEW t \in Thread, AppendRefused(t) PROVE LogInv'
    <2>1. ~Writing(t)
      BY SMTT(40), <1>4 DEF AppendRefused, WrLocked, Writing
    <2> QED
      BY ZenonT(40), <1>4, <2>1, Outside DEF AppendRefused
  <1>5. ASSUME NEW t \in Thread, Copy(t) PROVE LogInv'
    <2> DEFINE b == Head(parts[t])
               here == off[t] + 1 .. off[t] + Len(b)
    <2>1. b \in Seq(Val) /\ Tail(parts[t]) \in Buffers /\ Len(b) \in Nat
      <3>1. parts[t] \in Seq(Seq(Val)) /\ parts[t] # <<>>
        BY SMTT(40), <1>5 DEF Copy, LogInv, SpaceOK, Buffers
      <3>2. b \in Seq(Val) /\ Tail(parts[t]) \in Seq(Seq(Val))
        BY SMTT(40), <3>1
      <3> QED
        BY SMTT(40), <3>2 DEF Buffers
    <2>2. \A k \in 1 .. Len(b) : b[k] \in Val
      BY SMTT(40), <2>1
    <2>3. /\ pc[t] = "copy" /\ off' = [off EXCEPT ![t] = @ + Len(b)]
          /\ data' = [i \in Pos |-> IF i \in here THEN b[i - off[t]] ELSE data[i]]
          /\ media' = [i \in Pos |-> IF i \in here THEN media[i] \cup {data'[i]} ELSE media[i]]
          /\ parts' = [parts EXCEPT ![t] = Tail(@)]
          /\ UNCHANGED <<write_offset, poffset, wrlock, pc, call>>
      BY SMTT(40), <1>5 DEF Copy
    <2>4. off[t] \in Nat /\ write_offset \in Nat /\ off[t] >= write_offset
      BY SMTT(40), <2>3 DEF LogInv, SpaceOK, CopyOK
    <2> HIDE DEF b
    <2>5. \A i \in Pos : i \in here => data'[i] \in Val
      BY SMTT(40), <2>1, <2>2, <2>3, <2>4, LogAssumption DEF Pos
    <2>6. \A i \in Pos : i \notin here => data'[i] = data[i] /\ media'[i] = media[i]
      BY SMTT(40), <2>3
    <2>7. wrlock = t /\ \A u \in Thread : Writing(u) => u = t
      BY SMTT(40), <2>3 DEF LogInv, WriterOK, Writing
    <2>8. poffset = {write_offset}
      BY SMTT(40), <2>3, <2>7 DEF LogInv, OffsetOK, Writing
    <2>9. SpaceOK'
      <3>1. data' \in [Pos -> Val \cup {Junk}]
        BY SMTT(40), <2>3, <2>5, <2>6 DEF LogInv, SpaceOK
      <3>2. media' \in [Pos -> SUBSET (Val \cup {Junk})]
        BY SMTT(40), <2>3, <3>1 DEF LogInv, SpaceOK
      <3>3. off' \in [Thread -> Nat] /\ parts' \in [Thread -> Buffers]
        BY SMTT(40), <2>1, <2>3, <2>4 DEF LogInv, SpaceOK
      <3> QED
        BY SMTT(40), <2>3, <3>1, <3>2, <3>3 DEF LogInv, SpaceOK
    <2>10. WriterOK' /\ OffsetOK' /\ CallOK'
      BY SMTT(40), <2>3 DEF LogInv, WriterOK, OffsetOK, CallOK, Writing
    <2>11. OffsetCoversDurable'
      <3> SUFFICES ASSUME NEW i \in Pos, i <= write_offset
                   PROVE  media'[i] = {data'[i]} /\ data'[i] # Junk
        BY SMTT(40), <2>3, <2>8 DEF OffsetCoversDurable
      <3>1. i \notin here
        BY SMTT(40), <2>4 DEF Pos
      <3> QED
        BY SMTT(40), <2>6, <2>8, <3>1 DEF LogInv, OffsetCoversDurable
    <2>12. CopyOK'
      <3>1. ASSUME NEW i \in Pos, i <= off[t] + Len(b) PROVE data'[i] # Junk
        <4>1. CASE i \in here
          BY SMTT(40), <2>5, <4>1, LogAssumption
        <4>2. CASE i \notin here
          <5>1. i <= off[t]
            BY SMTT(40), <2>1, <2>4, <3>1, <4>2, LogAssumption DEF Pos
          <5> QED
            BY SMTT(40), <2>3, <2>6, <4>2, <5>1 DEF LogInv, CopyOK
        <4> QED
          BY SMTT(40), <4>1, <4>2
      <3>2. off'[t] = off[t] + Len(b) /\ off'[t] >= write_offset'
        BY SMTT(40), <2>1, <2>3, <2>4 DEF LogInv, SpaceOK
      <3>3. \A u \in Thread : pc'[u] \in {"copy", "offset"} => u = t /\ pc'[u] = "copy"
        BY SMTT(40), <2>3, <2>7 DEF Writing
      <3> QED
        BY SMTT(40), <3>1, <3>2, <3>3 DEF CopyOK
    <2> QED
      BY SMTT(40), <2>9, <2>10, <2>11, <2>12 DEF LogInv
  <1>6. ASSUME NEW t \in Thread, PersistData(t) PROVE LogInv'
    <2>1. /\ pc[t] = "copy" /\ media' = [i \in Pos |-> {data[i]}]
          /\ pc' = [pc EXCEPT ![t] = "offset"]
          /\ UNCHANGED <<data, write_offset, poffset, wrlock, call, parts, off>>
      BY SMTT(40), <1>6 DEF PersistData
    <2>2. \A u \in Thread : Writing(u) => u = t
      BY SMTT(40), <2>1 DEF LogInv, WriterOK, Writing
    <2>3. SpaceOK'
      BY SMTT(40), <2>1 DEF LogInv, SpaceOK, Places
    <2>4. WriterOK' /\ OffsetOK' /\ CallOK'
      BY SMTT(40), <2>1, <2>2 DEF LogInv, SpaceOK, WriterOK, OffsetOK, CallOK, Writing
    <2>5. CopyOK'
      BY SMTT(40), <2>1, <2>2 DEF LogInv, SpaceOK, CopyOK, Writing
    <2>6. OffsetCoversDurable'
      BY SMTT(40), <2>1 DEF LogInv, OffsetCoversDurable
    <2> QED
      BY SMTT(40), <2>3, <2>4, <2>5, <2>6 DEF LogInv
  <1>7. ASSUME NEW t \in Thread, RewindLock(t) PROVE LogInv'
    <2>1. /\ pc[t] = "lock" /\ wrlock = NoOne /\ wrlock' = t
          /\ off' = [off EXCEPT ![t] = 0] /\ pc' = [pc EXCEPT ![t] = "offset"]
          /\ UNCHANGED <<data, media, write_offset, poffset, call, parts>>
      BY SMTT(40), <1>7 DEF RewindLock, WrLocked, Goto, space
    <2>2. \A u \in Thread : ~Writing(u)
      BY SMTT(40), <2>1, LogAssumption DEF LogInv, WriterOK
    <2>3. SpaceOK'
      BY SMTT(40), <2>1 DEF LogInv, SpaceOK, Places
    <2>4. WriterOK' /\ OffsetOK' /\ CallOK' /\ OffsetCoversDurable'
      BY SMTT(40), <2>1, <2>2 DEF LogInv, SpaceOK, WriterOK, OffsetOK, CallOK, Writing, OffsetCoversDurable
    <2>5. CopyOK'
      <3>1. \A i \in Pos : ~(i <= 0)
        BY SMTT(40) DEF Pos
      <3> QED
        BY SMTT(40), <2>1, <2>2, <3>1 DEF LogInv, SpaceOK, CopyOK, Writing
    <2> QED
      BY SMTT(40), <2>3, <2>4, <2>5 DEF LogInv
  <1>8. ASSUME NEW t \in Thread, StoreOffset(t) PROVE LogInv'
    <2>1. /\ pc[t] = "offset" /\ write_offset' = off[t] /\ poffset' = poffset \cup {off[t]}
          /\ pc' = [pc EXCEPT ![t] = "persist"]
          /\ UNCHANGED <<data, media, wrlock, call, parts, off>>
      BY SMTT(40), <1>8 DEF StoreOffset, Goto, space, locks
    <2>2. \A u \in Thread : Writing(u) => u = t
      BY SMTT(40), <2>1 DEF LogInv, WriterOK, Writing
    <2>3. SpaceOK'
      BY ZenonT(40), <2>1 DEF LogInv, SpaceOK, Places
    <2>4. pc'[t] = "persist" /\ \A u \in Thread : u # t => pc'[u] = pc[u]
      BY SMTT(40), <2>1 DEF LogInv, SpaceOK
    <2>5. WriterOK' /\ OffsetOK' /\ CallOK' /\ CopyOK'
      BY SMTT(40), <2>1, <2>2, <2>4 DEF LogInv, WriterOK, OffsetOK, CallOK, CopyOK, Writing
    <2>6. OffsetCoversDurable'
      BY SMTT(40), <2>1 DEF LogInv, CopyOK, OffsetCoversDurable
    <2> QED
      BY SMTT(40), <2>3, <2>5, <2>6 DEF LogInv
  <1>9. ASSUME NEW t \in Thread, PersistOffset(t) PROVE LogInv'
    <2>1. /\ pc[t] = "persist" /\ poffset' = {write_offset}
          /\ pc' = [pc EXCEPT ![t] = "done"]
          /\ call' = [call EXCEPT ![t] = [op |-> "done", answer |-> "ok"]]
          /\ UNCHANGED <<data, media, write_offset, parts, off>>
      BY SMTT(40), <1>9 DEF PersistOffset, Done, Goto, space
    <2>2. \A u \in Thread : Writing(u) => u = t
      BY SMTT(40), <2>1 DEF LogInv, WriterOK, Writing
    <2>3. SpaceOK'
      BY SMTT(40), <2>1 DEF LogInv, SpaceOK, Places
    <2>4. pc'[t] = "done" /\ \A u \in Thread : u # t => pc'[u] = pc[u]
      BY SMTT(40), <2>1 DEF LogInv, SpaceOK
    <2>5. WriterOK' /\ OffsetOK' /\ CopyOK'
      BY SMTT(40), <2>1, <2>2, <2>4 DEF LogInv, WriterOK, OffsetOK, CopyOK, Writing
    <2>6. CallOK'
      BY SMTT(40), <2>1 DEF LogInv, CallOK
    <2>7. write_offset \in poffset
      BY SMTT(40) DEF LogInv, OffsetOK
    <2>8. OffsetCoversDurable'
      BY SMTT(40), <2>1, <2>7 DEF LogInv, OffsetCoversDurable
    <2> QED
      BY SMTT(40), <2>3, <2>5, <2>6, <2>8 DEF LogInv
  <1>10. ASSUME NEW t \in Thread, Tell(t) \/ Return(t) PROVE LogInv'
    <2>1. ~Writing(t)
      BY SMTT(40), <1>10 DEF Tell, Return, Writing
    <2>2. UNCHANGED <<space, write_offset, poffset, locks, off, parts>>
      BY SMTT(40), <1>10 DEF Tell, Return
    <2>3. CASE Tell(t)
      <3> DEFINE c == [op |-> "done", answer |-> write_offset]
      <3>1. Goto(t, "done") /\ call' = [call EXCEPT ![t] = c] /\ c.op = "done"
        BY SMTT(40), <2>3 DEF Tell
      <3> HIDE DEF c
      <3> QED
        BY ZenonT(40), <2>1, <2>2, <3>1, Outside
    <2>4. CASE Return(t)
      <3>1. Goto(t, "idle") /\ call' = [call EXCEPT ![t] = Idle] /\ Idle.op = "idle"
        BY SMTT(40), <2>4 DEF Return, Idle
      <3> QED
        BY ZenonT(40), <2>1, <2>2, <3>1, Outside
    <2> QED
      BY SMTT(40), <1>10, <2>3, <2>4
  <1>11. ASSUME NEW t \in Thread, WalkLock(t) \/ WalkChunk(t) \/ WalkEnd(t) PROVE LogInv'
    <2>1. /\ ~Writing(t)
          /\ pc' \in {pc, [pc EXCEPT ![t] = "walk"], [pc EXCEPT ![t] = "done"]}
          /\ UNCHANGED <<data, media, write_offset, poffset, wrlock, parts>>
      BY SMTT(40), <1>11 DEF WalkLock, WalkChunk, WalkEnd, Writing
    <2>2. off' = [off EXCEPT ![t] = off'[t]] /\ off'[t] \in Nat
      <3>1. CASE WalkLock(t)
        BY SMTT(40), <3>1 DEF WalkLock, LogInv, SpaceOK
      <3>2. CASE WalkEnd(t)
        BY SMTT(40), <3>2 DEF WalkEnd, LogInv, SpaceOK
      <3>3. CASE WalkChunk(t)
        <4> DEFINE left == write_offset - off[t]
                   len == IF call[t].chunk = 0 \/ call[t].chunk > left THEN left
                          ELSE call[t].chunk
        <4>1. off' = [off EXCEPT ![t] = @ + len] /\ off[t] < write_offset /\ call[t].op = "walk"
          BY SMTT(40), <3>3 DEF WalkChunk, LogInv, CallOK
        <4>2. len \in Nat
          BY SMTT(40), <4>1, LogAssumption DEF LogInv, SpaceOK, CallOK
        <4> HIDE DEF len
        <4> QED
          BY SMTT(40), <4>1, <4>2 DEF LogInv, SpaceOK
      <3> QED
        BY SMTT(40), <1>11, <3>1, <3>2, <3>3
    <2>3. \A u \in Thread : /\ u # t => pc'[u] = pc[u] /\ off'[u] = off[u]
                           /\ pc'[u] \in Places /\ off'[u] \in Nat
      BY SMTT(40), <2>1, <2>2 DEF LogInv, SpaceOK, Places
    <2>4. pc'[t] \in {"walk", "done", pc[t]}
      BY SMTT(40), <2>1 DEF LogInv, SpaceOK
    <2>5. SpaceOK'
      BY SMTT(40), <2>1, <2>2, <2>3 DEF LogInv, SpaceOK
    <2>6. WriterOK' /\ OffsetOK' /\ CopyOK' /\ OffsetCoversDurable'
      BY SMTT(40), <2>1, <2>3, <2>4 DEF LogInv, WriterOK, OffsetOK, CopyOK, OffsetCoversDurable, Writing
    <2>7. CallOK'
      <3>1. CASE WalkLock(t)
        <4>1. pc' = [pc EXCEPT ![t] = "walk"] /\ call' = call /\ call[t].op = "walk"
          BY SMTT(40), <3>1 DEF WalkLock
        <4> QED
          BY SMTT(40), <4>1 DEF LogInv, SpaceOK, CallOK
      <3>2. CASE WalkChunk(t)
        BY SMTT(40), <3>2 DEF WalkChunk, LogInv, CallOK
      <3>3. CASE WalkEnd(t)
        <4> DEFINE c == [op |-> "done", answer |-> seen[t]]
        <4>1. pc' = [pc EXCEPT ![t] = "done"] /\ call' = [call EXCEPT ![t] = c] /\ c.op = "done"
          BY SMTT(40), <3>3 DEF WalkEnd
        <4> HIDE DEF c
        <4> QED
          BY SMTT(40), <4>1 DEF LogInv, SpaceOK, CallOK
      <3> QED
        BY SMTT(40), <1>11, <3>1, <3>2, <3>3
    <2> QED
      BY SMTT(40), <2>5, <2>6, <2>7 DEF LogInv
  <1>12. CASE Crash
    <2>1. PICK d \in [Pos -> Val \cup {Junk}] :
             (\A i \in Pos : d[i] \in media[i]) /\ data' = d /\ media' = [i \in Pos |-> {d[i]}]
      BY SMTT(40), <1>12 DEF Crash
    <2>2. PICK o \in poffset : write_offset' = o /\ poffset' = {o}
      BY SMTT(40), <1>12 DEF Crash
    <2>3. /\ pc' = [t \in Thread |-> "idle"] /\ call' = [t \in Thread |-> Idle]
          /\ parts' = [t \in Thread |-> <<>>] /\ off' = off
      BY SMTT(40), <1>12 DEF Crash
    <2>4. <<>> \in Buffers
      BY SMTT(40) DEF Buffers
    <2>5. SpaceOK'
      BY SMTT(40), <2>1, <2>2, <2>3, <2>4 DEF LogInv, SpaceOK, Places
    <2>6. WriterOK' /\ OffsetOK' /\ CopyOK'
      BY SMTT(40), <2>2, <2>3 DEF WriterOK, OffsetOK, CopyOK, Writing
    <2>7. CallOK'
      BY SMTT(40), <2>3 DEF CallOK, Idle
    <2>8. OffsetCoversDurable'
      BY SMTT(40), <2>1, <2>2 DEF LogInv, OffsetCoversDurable
    <2> QED
      BY SMTT(40), <2>5, <2>6, <2>7, <2>8 DEF LogInv
  <1>14. CASE UNCHANGED vars
    BY SMTT(40), <1>14 DEF LogInv, SpaceOK, WriterOK, OffsetOK, CopyOK, CallOK, OffsetCoversDurable, Writing, vars
  <1>15. ASSUME NEW t \in Thread, Step(t) PROVE LogInv'
    BY SMTT(40), <1>3, <1>4, <1>5, <1>6, <1>7, <1>8, <1>9, <1>10, <1>11, <1>15 DEF Step
  <1>16. ASSUME NEW t \in Thread,
                \/ \E c \in ChunkArg : Enter(t, [op |-> "walk", chunk |-> c])
                \/ Enter(t, [op |-> "rewind"]) \/ Enter(t, [op |-> "tell"])
         PROVE  LogInv'
    BY ZenonT(40), <1>2, <1>16
  <1> QED
    BY ZenonT(40), <1>1, <1>12, <1>14, <1>15, <1>16 DEF Next

(* log_persist() orders data before the offset: whichever write_offset a   *)
(* power failure may leave on the media, every byte below it is there as   *)
(* it was appended, for every number of threads, capacity and buffers.     *)
THEOREM DataBeforeOffset == Spec => []OffsetCoversDurable
  <1>1. LogInv => OffsetCoversDurable
    BY DEF LogInv
  <1> QED
    BY LogInit, LogNext, <1>1, PTL DEF Spec

------------------------------------------------------------------------------
(* The first n bytes, and the log with what a thread is about to append.   *)
UpTo(n) == [i \in 1 .. n |-> data[i]]
Longer(t) == UpTo(Committed) \o Flat(call[t].parts)
Fits(t) == Committed < Cap /\ Committed + Len(Flat(call[t].parts)) <= Cap

(* Where a thread is tells which call it is in; readers keep writers out.  *)
TurnOK ==
    /\ rdlock # {} => wrlock = NoOne
    /\ \A t \in Thread :
        /\ pc[t] = "idle" => call[t] = Idle
        /\ pc[t] = "copy" => call[t].op = "append"
        /\ pc[t] \in {"offset", "persist"} => call[t].op \in {"append", "rewind"}
        /\ pc[t] = "done" => call[t].op = "done"
        /\ pc[t] = "walk" => t \in rdlock

(* What a writer has copied and has yet to copy make up the longer log.    *)
AppendOK(t) ==
    /\ pc[t] = "copy" => /\ Fits(t) /\ off[t] + Len(Flat(parts[t])) <= Cap
                         /\ UpTo(off[t]) \o Flat(parts[t]) = Longer(t)
    /\ pc[t] \in {"offset", "persist"} =>
          \/ call[t].op = "append" /\ Fits(t) /\ off[t] <= Cap /\ UpTo(off[t]) = Longer(t)
          \/ call[t].op = "rewind" /\ off[t] = 0
    /\ pc[t] = "persist" => write_offset = off[t] /\ poffset = {Committed, off[t]}

(* The callback of a walk has been given the log as far as the walk is.    *)
WalkOK(t) ==
    pc[t] = "walk" =>
        /\ off[t] <= write_offset /\ seen[t] = UpTo(off[t])
        /\ off[t] = 0 \/ off[t] = write_offset \/ (call[t].chunk > 0 /\ off[t] % call[t].chunk = 0)

SimOK ==
    /\ TurnOK /\ poffset \subseteq 0 .. Cap
    /\ seen = [t \in Thread |-> seen[t]]
    /\ \A t \in Thread : AppendOK(t) /\ WalkOK(t)

(* One of the offsets on the media counts.                                 *)
LEMMA CommittedIn ==
    ASSUME write_offset \in poffset
    PROVE  Committed \in poffset /\ (poffset = {write_offset} => Committed = write_offset)
  <1>1. CASE poffset = {write_offset}
    BY Zenon, <1>1 DEF Committed
  <1>2. CASE poffset # {write_offset}
    <2>1. \E o \in poffset : o # write_offset
      BY Zenon, <1>2
    <2> QED
      BY Zenon, <1>2, <2>1 DEF Committed
  <1> QED
    BY Zenon, <1>1, <1>2

(* The bytes that have been appended are a sequence of bytes.              *)
LEMMA UpToIs ==
    ASSUME SpaceOK, NEW n \in Nat, n <= Cap, \A i \in Pos : i <= n => data[i] # Junk
    PROVE  UpTo(n) \in Seq(Val) /\ Len(UpTo(n)) = n /\ \A i \in 1 .. n : UpTo(n)[i] = data[i]
  <1>1. \A i \in 1 .. n : i \in Pos /\ i <= n
    BY LogAssumption DEF Pos
  <1>2. \A i \in 1 .. n : data[i] \in Val
    BY Zenon, <1>1 DEF SpaceOK
  <1>3. UpTo(n) \in [1 .. n -> Val]
    BY Zenon, <1>2 DEF UpTo
  <1>4. \A i \in 1 .. n : UpTo(n)[i] = data[i]
    BY Zenon DEF UpTo
  <1>5. UpTo(n) \in Seq(Val) /\ Len(UpTo(n)) = n
    <2> HIDE DEF UpTo
    <2> QED
      BY <1>3
  <1> QED
    BY Zenon, <1>4, <1>5

(* s is what d holds in its first n places.                                *)
Holds(d, n, s) == s = [i \in 1 .. n |-> d[i]]

(* More bytes follow the first m.                                          *)
LEMMA Follows ==
    ASSUME NEW d, NEW m \in Nat, NEW b \in Seq(Val), NEW u \in Seq(Val), Len(u) = m,
           \A i \in 1 .. m : u[i] = d[i], \A i \in 1 .. Len(b) : b[i] = d[m + i]
    PROVE  Holds(d, m + Len(b), u \o b)
  <1> DEFINE n == m + Len(b)
             w == [i \in 1 .. n |-> d[i]]
  <1>1. Len(b) \in Nat /\ n \in Nat
    OBVIOUS
  <1>2. /\ u \o b \in Seq(Val) /\ Len(u \o b) = n
        /\ \A i \in 1 .. n : (u \o b)[i] = IF i <= m THEN u[i] ELSE b[i - m]
    BY Zenon, ConcatProperties
  <1>3. ASSUME NEW i \in 1 .. n PROVE (u \o b)[i] = d[i]
    <2>1. CASE i <= m
      <3>1. i \in 1 .. m
        BY <1>1, <2>1
      <3> QED
        BY Zenon, <1>2, <2>1, <3>1
    <2>2. CASE ~ (i <= m)
      <3>1. i - m \in 1 .. Len(b) /\ m + (i - m) = i
        BY <1>1, <2>2
      <3> QED
        BY Zenon, <1>2, <2>2, <3>1
    <2> QED
      BY Zenon, <2>1, <2>2
  <1>4. u \o b = [i \in 1 .. n |-> (u \o b)[i]]
    <2>1. PICK v \in Seq(Val) : v = u \o b
      BY Zenon, <1>2
    <2>2. v = [i \in 1 .. Len(v) |-> v[i]]
      OBVIOUS
    <2> QED
      BY Zenon, <1>2, <2>1, <2>2
  <1> QED
    BY Zenon, <1>3, <1>4 DEF Holds

(* A thread that is not in the log has nothing to keep.                    *)
LEMMA Outsider ==
    ASSUME NEW u \in Thread, pc'[u] \in {"idle", "lock", "done"}
    PROVE  AppendOK(u)' /\ WalkOK(u)'
  BY DEF AppendOK, WalkOK

(* The log stays the same while its bytes and offsets do.                  *)
LEMMA LogSame ==
    ASSUME UNCHANGED <<data, write_offset, poffset>>
    PROVE  Committed' = Committed /\ UpTo(Committed)' = UpTo(Committed)
  <1>1. data' = data /\ write_offset' = write_offset /\ poffset' = poffset
    BY Zenon
  <1>2. Committed' = Committed
    BY <1>1 DEF Committed
  <1> QED
    BY <1>1, <1>2 DEF UpTo

(* A thread keeps what it has while nobody touches the log or its state.   *)
LEMMA Bystander ==
    ASSUME NEW u \in Thread, AppendOK(u), WalkOK(u), UNCHANGED <<data, write_offset, poffset>>, pc'[u] = pc[u],
           call'[u] = call[u], parts'[u] = parts[u], off'[u] = off[u], seen'[u] = seen[u]
    PROVE  AppendOK(u)' /\ WalkOK(u)'
  <1>1. Committed' = Committed /\ UpTo(Committed)' = UpTo(Committed)
    BY Zenon, LogSame
  <1>2. Fits(u)' <=> Fits(u)
    BY Zenon, <1>1 DEF Fits
  <1>0. Longer(u)' = Longer(u)
    BY Zenon, <1>1 DEF Longer
  <1>3. UpTo(off[u])' = UpTo(off[u]) /\ Flat(parts[u])' = Flat(parts[u])
    BY Zenon DEF UpTo
  <1>4. AppendOK(u)'
    BY Zenon, <1>0, <1>1, <1>2, <1>3 DEF AppendOK
  <1>5. WalkOK(u)'
    BY Zenon, <1>3 DEF WalkOK
  <1> QED
    BY Zenon, <1>4, <1>5

(* A step of t that leaves the log alone: only what t does matters.        *)
LEMMA Quietly ==
    ASSUME LogInv, SimOK, NEW t \in Thread, UNCHANGED <<data, write_offset, poffset>>,
           \A u \in Thread \ {t} : /\ pc'[u] = pc[u] /\ call'[u] = call[u] /\ parts'[u] = parts[u]
                                   /\ off'[u] = off[u] /\ seen'[u] = seen[u],
           TurnOK', AppendOK(t)', WalkOK(t)', seen' = [u \in Thread |-> seen'[u]]
    PROVE  SimOK' /\ UpTo(Committed)' = UpTo(Committed)
  <1>1. \A u \in Thread : AppendOK(u)' /\ WalkOK(u)'
    <2> SUFFICES ASSUME NEW u \in Thread, u # t PROVE AppendOK(u)' /\ WalkOK(u)'
      BY Zenon
    <2>1. AppendOK(u) /\ WalkOK(u)
      BY Zenon DEF SimOK
    <2> QED
      BY Zenon, <2>1, Bystander
  <1>2. UpTo(Committed)' = UpTo(Committed)
    BY Zenon, LogSame
  <1> QED
    BY Zenon, <1>1, <1>2 DEF SimOK

(* A step that answers or begins a call and changes nothing else.          *)
LEMMA CallOnly ==
    ASSUME LogInv, SimOK, NEW t \in Thread, UNCHANGED <<space, write_offset, poffset, locks, off, parts, seen>>,
           pc[t] # "walk", ~Writing(t), NEW l \in {"idle", "lock", "done"}, Goto(t, l),
           NEW c, call' = [call EXCEPT ![t] = c], l = "idle" => c = Idle, l = "done" => c.op = "done"
    PROVE  SimOK' /\ UpTo(Committed)' = UpTo(Committed)
  <1>1. /\ pc'[t] = l /\ call'[t] = c
        /\ \A u \in Thread \ {t} : pc'[u] = pc[u] /\ call'[u] = call[u]
    BY Zenon DEF Goto, LogInv, SpaceOK, CallOK
  <1>2. AppendOK(t)' /\ WalkOK(t)'
    BY Zenon, <1>1, Outsider
  <1>3. TurnOK'
    <2>1. TurnOK
      BY Zenon DEF SimOK
    <2> QED
      BY <1>1, <2>1 DEF TurnOK, locks
  <1>4. seen' = [u \in Thread |-> seen'[u]]
    BY Zenon DEF SimOK
  <1> QED
    BY Zenon, <1>1, <1>2, <1>3, <1>4, Quietly DEF space

(* A writer is alone in the log.                                           *)
LEMMA Alone ==
    ASSUME LogInv, SimOK, NEW t \in Thread, Writing(t)
    PROVE  wrlock = t /\ rdlock = {} /\ \A u \in Thread \ {t} : pc[u] \in {"idle", "lock", "done"}
  <1>1. wrlock = t /\ t # NoOne
    BY Zenon, LogAssumption DEF LogInv, WriterOK
  <1>2. rdlock = {} /\ \A u \in Thread : pc[u] # "walk"
    BY Zenon, <1>1 DEF SimOK, TurnOK
  <1>3. \A u \in Thread \ {t} : pc[u] \in Places /\ pc[u] \notin {"copy", "offset", "persist"}
    BY Zenon, <1>1 DEF LogInv, SpaceOK, WriterOK, Writing
  <1> QED
    BY <1>1, <1>2, <1>3 DEF Places

(* The bytes below the committed offset are the log.                       *)
LEMMA LogIs ==
    ASSUME LogInv, SimOK
    PROVE  /\ Committed \in poffset /\ Committed \in Nat /\ Committed <= Cap /\ write_offset \in Nat /\ write_offset <= Cap
           /\ \A o \in poffset : UpTo(o) \in Seq(Val) /\ Len(UpTo(o)) = o
           /\ UpTo(Committed) \in Seq(Val) /\ Len(UpTo(Committed)) = Committed
  <1>1. write_offset \in poffset /\ Committed \in poffset
    BY Zenon, CommittedIn DEF LogInv, OffsetOK
  <1>2. ASSUME NEW o \in poffset PROVE o \in Nat /\ o <= Cap /\ UpTo(o) \in Seq(Val) /\ Len(UpTo(o)) = o
    <2>1. o \in Nat /\ o <= Cap
      <3>1. o \in 0 .. Cap
        BY Zenon DEF SimOK
      <3> QED
        BY <3>1, LogAssumption
    <2>2. \A i \in Pos : i <= o => data[i] # Junk
      BY Zenon DEF LogInv, OffsetCoversDurable
    <2>3. SpaceOK
      BY Zenon DEF LogInv
    <2> QED
      BY Zenon, <2>1, <2>2, <2>3, UpToIs
  <1> QED
    BY Zenon, <1>1, <1>2

(* Nobody writes: the offset that counts is the one in memory.             *)
LEMMA NoWriter ==
    ASSUME LogInv, wrlock = NoOne
    PROVE  poffset = {write_offset} /\ Committed = write_offset /\ \A u \in Thread : ~Writing(u)
  <1>1. \A u \in Thread : ~Writing(u)
    BY Zenon, LogAssumption DEF LogInv, WriterOK
  <1>2. poffset = {write_offset}
    BY Zenon, <1>1 DEF LogInv, OffsetOK, Writing
  <1> QED
    BY Zenon, <1>1, <1>2 DEF Committed

(* The space pmemlog_appendv() asks for is the length of what it appends.  *)
LEMMA SpaceIs ==
    ASSUME LogInv, SimOK, NEW t \in Thread, call[t].op = "append"
    PROVE  /\ call[t].parts \in Buffers /\ Flat(call[t].parts) \in Seq(Val) /\ Len(Flat(call[t].parts)) \in Nat
           /\ Device!Fits(call[t]) <=> Fits(t)
           /\ Committed = write_offset => (HasSpace(t) <=> Fits(t))
  <1>1. call[t].parts \in Buffers
    BY Zenon, LogAssumption DEF LogInv, CallOK, Buffers
  <1>2. Flat(call[t].parts) \in Seq(Val) /\ Total(call[t].parts) = Len(Flat(call[t].parts))
    BY Zenon, <1>1, FlatFacts
  <1>3. Len(Flat(call[t].parts)) \in Nat
    BY Zenon, <1>2, LenProperties
  <1>4. Device!Fits(call[t]) <=> Fits(t)
    <2>1. Len(UpTo(Committed)) = Committed
      BY Zenon, LogIs
    <2> QED
      BY Zenon, <2>1 DEF Device!Fits, Fits, Flat, UpTo
  <1>5. Committed = write_offset => (HasSpace(t) <=> Fits(t))
    <2>1. write_offset \in Nat /\ Cap \in Nat
      BY Zenon, LogIs, LogAssumption
    <2> QED
      BY <1>2, <1>3, <2>1 DEF HasSpace, Fits
  <1> QED
    BY Zenon, <1>1, <1>2, <1>3, <1>4, <1>5

(* What a step of the log is for the log device.                           *)
Simulated == SimOK' /\ (Device!Next \/ UNCHANGED Device!vars)

(* A step of one call that leaves the log alone.                           *)
LEMMA Unheard ==
    ASSUME UpTo(Committed)' = UpTo(Committed), call' = call
    PROVE  UNCHANGED Device!vars
  BY Zenon DEF UpTo, Device!vars

(* A call begins.                                                          *)
LEMMA EnterSim ==
    ASSUME LogInv, SimOK, NEW t \in Thread, NEW c, Enter(t, c)
    PROVE  SimOK' /\ Device!Invoke(t, c)
  <1>1. /\ pc[t] = "idle" /\ Goto(t, "lock") /\ call' = [call EXCEPT ![t] = c]
        /\ UNCHANGED <<space, write_offset, poffset, locks, off, parts, seen>>
    BY Zenon DEF Enter
  <1>2. pc[t] # "walk" /\ ~Writing(t)
    BY <1>1 DEF Writing
  <1>3. SimOK' /\ UpTo(Committed)' = UpTo(Committed)
    BY Zenon, <1>1, <1>2, CallOnly
  <1>4. call[t] = Idle
    BY Zenon, <1>1 DEF SimOK, TurnOK
  <1> QED
    BY Zenon, <1>1, <1>3, <1>4 DEF Device!Invoke, Device!Idle, Idle, UpTo

(* A full log refuses.                                                     *)
LEMMA RefusedSim ==
    ASSUME LogInv, SimOK, NEW t \in Thread, AppendRefused(t)
    PROVE  SimOK' /\ Device!NoSpace(t)
  <1> DEFINE c == [op |-> "done", answer |-> "ENOSPC"]
  <1>1. /\ pc[t] = "lock" /\ Goto(t, "done") /\ call' = [call EXCEPT ![t] = c] /\ c.op = "done"
        /\ UNCHANGED <<space, write_offset, poffset, locks, off, parts, seen>>
        /\ call[t].op = "append" /\ wrlock = NoOne /\ ~HasSpace(t)
    BY Zenon DEF AppendRefused, Done, WrLocked
  <1>2. pc[t] # "walk" /\ ~Writing(t)
    BY <1>1 DEF Writing
  <1>3. SimOK' /\ UpTo(Committed)' = UpTo(Committed)
    <2> HIDE DEF c
    <2> QED
      BY Zenon, <1>1, <1>2, CallOnly
  <1>4. ~Device!Fits(call[t])
    BY Zenon, <1>1, NoWriter, SpaceIs
  <1> QED
    BY Zenon, <1>1, <1>3, <1>4 DEF Device!NoSpace, Device!Answer, UpTo

(* pmemlog_tell() answers the length of the log.                           *)
LEMMA TellSim ==
    ASSUME LogInv, SimOK, NEW t \in Thread, Tell(t)
    PROVE  SimOK' /\ Device!Tell(t)
  <1> DEFINE c == [op |-> "done", answer |-> write_offset]
  <1>1. /\ pc[t] = "lock" /\ Goto(t, "done") /\ call' = [call EXCEPT ![t] = c] /\ c.op = "done"
        /\ UNCHANGED <<space, write_offset, poffset, locks, off, parts, seen>>
        /\ call[t].op = "tell" /\ wrlock = NoOne
    BY Zenon DEF Tell, Done
  <1>2. pc[t] # "walk" /\ ~Writing(t)
    BY <1>1 DEF Writing
  <1>3. SimOK' /\ UpTo(Committed)' = UpTo(Committed)
    <2> HIDE DEF c
    <2> QED
      BY Zenon, <1>1, <1>2, CallOnly
  <1>4. Len(UpTo(Committed)) = write_offset
    BY Zenon, <1>1, NoWriter, LogIs
  <1> QED
    BY Zenon, <1>1, <1>3, <1>4 DEF Device!Tell, Device!Answer, UpTo

(* A call returns.                                                         *)
LEMMA ReturnSim ==
    ASSUME LogInv, SimOK, NEW t \in Thread, Return(t)
    PROVE  SimOK' /\ Device!Return(t)
  <1>1. /\ pc[t] = "done" /\ Goto(t, "idle") /\ call' = [call EXCEPT ![t] = Idle]
        /\ UNCHANGED <<space, write_offset, poffset, locks, off, parts, seen>>
    BY Zenon DEF Return
  <1>2. pc[t] # "walk" /\ ~Writing(t)
    BY <1>1 DEF Writing
  <1>3. SimOK' /\ UpTo(Committed)' = UpTo(Committed)
    BY Zenon, <1>1, <1>2, CallOnly
  <1>4. call[t].op = "done"
    BY Zenon, <1>1 DEF SimOK, TurnOK
  <1> QED
    BY Zenon, <1>1, <1>3, <1>4 DEF Device!Return, Device!Idle, Idle, UpTo

(* A walk takes the lock and starts at the beginning of the log.           *)
LEMMA WalkLockSim ==
    ASSUME LogInv, SimOK, NEW t \in Thread, WalkLock(t)
    PROVE  SimOK' /\ UNCHANGED Device!vars
  <1>1. /\ wrlock = NoOne /\ rdlock' = rdlock \cup {t} /\ call[t].op = "walk"
        /\ off' = [off EXCEPT ![t] = 0] /\ seen' = [seen EXCEPT ![t] = <<>>] /\ pc' = [pc EXCEPT ![t] = "walk"]
        /\ UNCHANGED <<data, write_offset, poffset, wrlock, call, parts>>
    BY Zenon DEF WalkLock, Goto, space
  <1>2. seen = [u \in Thread |-> seen[u]] /\ off \in [Thread -> Nat] /\ pc \in [Thread -> Places]
    BY Zenon DEF SimOK, LogInv, SpaceOK
  <1>3. /\ pc'[t] = "walk" /\ off'[t] = 0 /\ seen'[t] = <<>> /\ seen' = [u \in Thread |-> seen'[u]]
        /\ \A u \in Thread \ {t} : pc'[u] = pc[u] /\ off'[u] = off[u] /\ seen'[u] = seen[u]
    <2>1. seen' = [u \in Thread |-> IF u = t THEN <<>> ELSE seen[u]]
      BY Zenon, <1>1, <1>2
    <2>2. seen'[t] = <<>> /\ seen' = [u \in Thread |-> seen'[u]] /\ \A u \in Thread \ {t} : seen'[u] = seen[u]
      BY Zenon, <2>1
    <2>3. pc'[t] = "walk" /\ off'[t] = 0 /\ \A u \in Thread \ {t} : pc'[u] = pc[u] /\ off'[u] = off[u]
      BY Zenon, <1>1, <1>2
    <2> QED
      BY Zenon, <2>2, <2>3
  <1>4. AppendOK(t)'
    BY <1>3 DEF AppendOK
  <1>5. WalkOK(t)'
    <2>1. UpTo(off[t])' = <<>>
      BY <1>3 DEF UpTo
    <2>2. off'[t] <= write_offset'
      BY <1>1, <1>3 DEF LogInv, SpaceOK
    <2> QED
      BY Zenon, <1>3, <2>1, <2>2 DEF WalkOK
  <1>6. TurnOK'
    <2>1. TurnOK
      BY Zenon DEF SimOK
    <2> QED
      BY <1>1, <1>3, <2>1 DEF TurnOK
  <1> QED
    BY Zenon, <1>1, <1>3, <1>4, <1>5, <1>6, Quietly, Unheard

(* A multiple of the size of a chunk, one chunk later.                     *)
LEMMA NextMultiple == ASSUME NEW a \in Nat, NEW c \in Nat, c > 0, a % c = 0 PROVE (a + c) % c = 0
  <1>1. PICK q \in Nat : a = c * q
    <2>1. a = c * (a \div c)
      BY Z3
    <2>2. a \div c \in Nat
      BY Z3
    <2> QED
      BY Zenon, <2>1, <2>2
  <1>2. PICK k \in Nat : k = q + 1
    OBVIOUS
  <1>3. PICK b \in Nat : b = a + c
    OBVIOUS
  <1>4. b = c * k
    BY <1>1, <1>2, <1>3
  <1>5. (c * k) % c = 0
    BY Z3
  <1> QED
    BY Zenon, <1>3, <1>4, <1>5

(* The callback gets the next bytes of the log.                            *)
LEMMA WalkChunkSim ==
    ASSUME LogInv, SimOK, NEW t \in Thread, WalkChunk(t)
    PROVE  SimOK' /\ UNCHANGED Device!vars
  <1> DEFINE left == write_offset - off[t]
             len == IF call[t].chunk = 0 \/ call[t].chunk > left THEN left ELSE call[t].chunk
             more == [i \in 1 .. len |-> data[off[t] + i]]
  <1>1. /\ pc[t] = "walk" /\ off[t] < write_offset
        /\ seen' = [seen EXCEPT ![t] = @ \o more] /\ off' = [off EXCEPT ![t] = @ + len]
        /\ UNCHANGED <<data, write_offset, poffset, wrlock, rdlock, pc, call, parts>>
    BY Zenon DEF WalkChunk, space, locks
  <1>2. /\ seen = [u \in Thread |-> seen[u]] /\ off \in [Thread -> Nat] /\ off[t] \in Nat
        /\ call[t].op = "walk" /\ call[t].chunk \in Nat
    BY Zenon, <1>1, LogAssumption DEF SimOK, LogInv, SpaceOK, CallOK
  <1>3. /\ seen[t] = UpTo(off[t])
        /\ off[t] = 0 \/ off[t] = write_offset \/ (call[t].chunk > 0 /\ off[t] % call[t].chunk = 0)
    BY Zenon, <1>1 DEF SimOK, WalkOK
  <1>4. write_offset \in Nat /\ write_offset <= Cap
    BY Zenon, LogIs
  <1>5. len \in Nat /\ off[t] + len <= write_offset
    BY <1>1, <1>2, <1>4
  <1>6. \/ off[t] + len = write_offset
        \/ call[t].chunk > 0 /\ (off[t] + len) % call[t].chunk = 0
    <2>1. CASE call[t].chunk = 0 \/ call[t].chunk > left
      BY <1>2, <1>4, <2>1
    <2>2. CASE ~ (call[t].chunk = 0 \/ call[t].chunk > left)
      <3>1. len = call[t].chunk /\ call[t].chunk > 0 /\ off[t] # write_offset
        BY <1>1, <1>2, <1>4, <2>2
      <3>2. off[t] % call[t].chunk = 0
        BY <1>2, <1>3, <3>1
      <3> HIDE DEF len
      <3> QED
        BY Zenon, <1>2, <3>1, <3>2, NextMultiple
    <2> QED
      BY Zenon, <2>1, <2>2
  <1> HIDE DEF len
  <1>7. \A i \in Pos : i <= write_offset => data[i] # Junk
    BY Zenon DEF LogInv, OffsetOK, OffsetCoversDurable
  <1>8. seen[t] \o more = UpTo(off[t] + len)
    <2>1. \A i \in 1 .. len : off[t] + i \in Pos /\ off[t] + i <= write_offset
      BY <1>2, <1>4, <1>5, LogAssumption DEF Pos
    <2>2. more \in [1 .. len -> Val]
      <3>1. ASSUME NEW i \in 1 .. len PROVE data[off[t] + i] \in Val
        <4>1. data[off[t] + i] \in Val \cup {Junk} /\ data[off[t] + i] # Junk
          BY Zenon, <1>7, <2>1 DEF LogInv, SpaceOK
        <4> QED
          BY Zenon, <4>1
      <3> QED
        BY Zenon, <3>1
    <2>3. more \in Seq(Val) /\ Len(more) = len
      <3> HIDE DEF more
      <3> QED
        BY <1>5, <2>2
    <2>4. \A i \in 1 .. Len(more) : more[i] = data[off[t] + i]
      BY Zenon, <2>3
    <2>5. UpTo(off[t]) \in Seq(Val) /\ Len(UpTo(off[t])) = off[t] /\ \A i \in 1 .. off[t] : UpTo(off[t])[i] = data[i]
      <3>1. off[t] <= Cap /\ (\A i \in Pos : i <= off[t] => i <= write_offset)
        BY <1>1, <1>2, <1>4, LogAssumption DEF Pos
      <3>2. \A i \in Pos : i <= off[t] => data[i] # Junk
        BY Zenon, <1>7, <3>1
      <3> QED
        BY Zenon, <1>2, <3>1, <3>2, UpToIs DEF LogInv
    <2> HIDE DEF more
    <2>6. Holds(data, off[t] + Len(more), UpTo(off[t]) \o more)
      BY Zenon, <1>2, <2>3, <2>4, <2>5, Follows
    <2> QED
      BY Zenon, <1>3, <2>3, <2>6 DEF UpTo, Holds
  <1>9. /\ off'[t] = off[t] + len /\ seen'[t] = seen[t] \o more /\ seen' = [u \in Thread |-> seen'[u]]
        /\ \A u \in Thread \ {t} : off'[u] = off[u] /\ seen'[u] = seen[u]
    <2> HIDE DEF more
    <2>1. seen' = [u \in Thread |-> IF u = t THEN seen[t] \o more ELSE seen[u]]
      BY Zenon, <1>1, <1>2
    <2>2. seen'[t] = seen[t] \o more /\ seen' = [u \in Thread |-> seen'[u]] /\ \A u \in Thread \ {t} : seen'[u] = seen[u]
      BY Zenon, <2>1
    <2>3. off'[t] = off[t] + len /\ \A u \in Thread \ {t} : off'[u] = off[u]
      BY Zenon, <1>1, <1>2
    <2> QED
      BY Zenon, <2>2, <2>3
  <1> HIDE DEF more
  <1>10. AppendOK(t)'
    BY <1>1 DEF AppendOK
  <1>11. WalkOK(t)'
    <2>1. UpTo(off[t])' = UpTo(off[t] + len)
      BY Zenon, <1>1, <1>9 DEF UpTo
    <2>2. seen'[t] = UpTo(off[t])'
      BY Zenon, <1>8, <1>9, <2>1
    <2> QED
      BY Zenon, <1>1, <1>5, <1>6, <1>9, <2>2 DEF WalkOK
  <1>12. TurnOK'
    BY Zenon, <1>1 DEF SimOK, TurnOK
  <1> QED
    BY Zenon, <1>1, <1>9, <1>10, <1>11, <1>12, Quietly, Unheard

(* A walk ends; its callback has seen the log, or so many whole chunks.    *)
LEMMA WalkEndSim ==
    ASSUME LogInv, SimOK, NEW t \in Thread, WalkEnd(t)
    PROVE  SimOK' /\ Device!Walk(t)
  <1> DEFINE c == [op |-> "done", answer |-> seen[t]]
  <1>1. /\ pc[t] = "walk" /\ (off[t] >= write_offset \/ seen[t] # <<>>) /\ rdlock' = rdlock \ {t}
        /\ pc' = [pc EXCEPT ![t] = "done"] /\ call' = [call EXCEPT ![t] = c] /\ c.op = "done"
        /\ UNCHANGED <<data, write_offset, poffset, wrlock, parts, off, seen>>
    BY Zenon DEF WalkEnd, Done, Goto, space
  <1>2. /\ pc'[t] = "done" /\ call'[t] = c
        /\ \A u \in Thread \ {t} : pc'[u] = pc[u] /\ call'[u] = call[u]
    <2> HIDE DEF c
    <2> QED
      BY Zenon, <1>1 DEF LogInv, SpaceOK, CallOK
  <1>3. AppendOK(t)' /\ WalkOK(t)'
    BY Zenon, <1>2, Outsider
  <1>4. TurnOK'
    <2>1. TurnOK
      BY Zenon DEF SimOK
    <2> HIDE DEF c
    <2> QED
      BY <1>1, <1>2, <2>1 DEF TurnOK
  <1>5. SimOK' /\ UpTo(Committed)' = UpTo(Committed)
    <2>1. seen' = [u \in Thread |-> seen'[u]]
      BY Zenon, <1>1 DEF SimOK
    <2> QED
      BY Zenon, <1>1, <1>2, <1>3, <1>4, <2>1, Quietly
  <1>6. wrlock = NoOne /\ Committed = write_offset
    <2>1. wrlock = NoOne
      BY Zenon, <1>1 DEF SimOK, TurnOK
    <2> QED
      BY Zenon, <2>1, NoWriter
  <1>7. /\ seen[t] = UpTo(off[t]) /\ off[t] <= write_offset /\ off[t] \in Nat
        /\ off[t] = 0 \/ off[t] = write_offset \/ (call[t].chunk > 0 /\ off[t] % call[t].chunk = 0)
        /\ call[t].op = "walk"
    BY Zenon, <1>1 DEF SimOK, WalkOK, LogInv, SpaceOK, CallOK
  <1>8. write_offset \in Nat /\ Len(UpTo(Committed)) = Committed
    BY Zenon, LogIs
  <1>9. off[t] = Committed \/ (call[t].chunk > 0 /\ off[t] > 0 /\ off[t] % call[t].chunk = 0)
    <2>1. off[t] = 0 => seen[t] = <<>>
      BY <1>7 DEF UpTo
    <2> QED
      BY <1>1, <1>6, <1>7, <1>8, <2>1
  <1>10. seen[t] = SubSeq(UpTo(Committed), 1, off[t])
    <2>1. \A i \in 1 .. off[t] : i \in 1 .. Committed
      BY <1>6, <1>7, <1>8
    <2>2. SubSeq(UpTo(Committed), 1, off[t]) = [i \in 1 .. off[t] |-> UpTo(Committed)[i]]
      BY <1>7
    <2>3. \A i \in 1 .. off[t] : UpTo(Committed)[i] = data[i]
      BY Zenon, <2>1 DEF UpTo
    <2> QED
      BY Zenon, <1>7, <2>2, <2>3 DEF UpTo
  <1>11. off[t] \in 0 .. Len(UpTo(Committed))
    BY <1>6, <1>7, <1>8
  <1> QED
    BY Zenon, <1>1, <1>5, <1>7, <1>8, <1>9, <1>10, <1>11 DEF Device!Walk, Device!Answer, UpTo

(* An append takes the lock; the log has the space.                        *)
LEMMA AppendLockSim ==
    ASSUME LogInv, SimOK, NEW t \in Thread, AppendLock(t)
    PROVE  SimOK' /\ UNCHANGED Device!vars
  <1>1. /\ call[t].op = "append" /\ wrlock = NoOne /\ rdlock = {} /\ HasSpace(t) /\ wrlock' = t
        /\ parts' = [parts EXCEPT ![t] = call[t].parts] /\ off' = [off EXCEPT ![t] = write_offset]
        /\ pc' = [pc EXCEPT ![t] = "copy"]
        /\ UNCHANGED <<data, write_offset, poffset, rdlock, call, seen>>
    BY Zenon DEF AppendLock, WrLocked, Goto, space
  <1>2. /\ pc'[t] = "copy" /\ parts'[t] = call[t].parts /\ off'[t] = write_offset
        /\ \A u \in Thread \ {t} : pc'[u] = pc[u] /\ parts'[u] = parts[u] /\ off'[u] = off[u]
    BY Zenon, <1>1 DEF LogInv, SpaceOK
  <1>3. Committed = write_offset /\ Fits(t)
    BY Zenon, <1>1, NoWriter, SpaceIs
  <1>4. Committed' = Committed /\ UpTo(Committed)' = UpTo(Committed)
    BY Zenon, <1>1, LogSame
  <1>5. AppendOK(t)'
    <2>1. Fits(t)' /\ Longer(t)' = Longer(t)
      BY Zenon, <1>1, <1>3, <1>4 DEF Fits, Longer
    <2>2. (off[t] + Len(Flat(parts[t])))' = Committed + Len(Flat(call[t].parts))
      BY Zenon, <1>2, <1>3
    <2>3. (UpTo(off[t]) \o Flat(parts[t]))' = Longer(t)
      BY Zenon, <1>1, <1>2, <1>3 DEF UpTo, Longer
    <2>4. pc'[t] \notin {"offset", "persist"}
      BY <1>2
    <2> QED
      BY Zenon, <1>2, <1>3, <2>1, <2>2, <2>3, <2>4 DEF AppendOK, Fits
  <1>6. WalkOK(t)'
    BY <1>2 DEF WalkOK
  <1>7. TurnOK'
    <2>1. TurnOK
      BY Zenon DEF SimOK
    <2> QED
      BY <1>1, <1>2, <2>1 DEF TurnOK
  <1>8. seen' = [u \in Thread |-> seen'[u]]
    BY Zenon, <1>1 DEF SimOK
  <1> QED
    BY Zenon, <1>1, <1>2, <1>5, <1>6, <1>7, <1>8, Quietly, Unheard

(* A rewind takes the lock.                                                *)
LEMMA RewindLockSim ==
    ASSUME LogInv, SimOK, NEW t \in Thread, RewindLock(t)
    PROVE  SimOK' /\ UNCHANGED Device!vars
  <1>1. /\ call[t].op = "rewind" /\ wrlock = NoOne /\ rdlock = {} /\ wrlock' = t
        /\ off' = [off EXCEPT ![t] = 0] /\ pc' = [pc EXCEPT ![t] = "offset"]
        /\ UNCHANGED <<data, write_offset, poffset, rdlock, call, parts, seen>>
    BY Zenon DEF RewindLock, WrLocked, Goto, space
  <1>2. /\ pc'[t] = "offset" /\ off'[t] = 0
        /\ \A u \in Thread \ {t} : pc'[u] = pc[u] /\ off'[u] = off[u]
    BY Zenon, <1>1 DEF LogInv, SpaceOK
  <1>3. AppendOK(t)'
    <2>1. pc'[t] # "copy" /\ pc'[t] # "persist" /\ call'[t].op = "rewind"
      BY <1>1, <1>2
    <2> QED
      BY Zenon, <1>2, <2>1 DEF AppendOK
  <1>4. WalkOK(t)'
    BY <1>2 DEF WalkOK
  <1>5. TurnOK'
    <2>1. TurnOK
      BY Zenon DEF SimOK
    <2> QED
      BY <1>1, <1>2, <2>1 DEF TurnOK
  <1>6. seen' = [u \in Thread |-> seen'[u]]
    BY Zenon, <1>1 DEF SimOK
  <1> QED
    BY Zenon, <1>1, <1>2, <1>3, <1>4, <1>5, <1>6, Quietly, Unheard

(* A writer that has not yet stored the offset: the old one counts, and    *)
(* what it has copied is a sequence of bytes.                              *)
LEMMA BeforeStore ==
    ASSUME LogInv, SimOK, NEW t \in Thread, pc[t] \in {"copy", "offset"}
    PROVE  /\ poffset = {write_offset} /\ Committed = write_offset /\ write_offset \in Nat /\ write_offset <= Cap
           /\ off[t] \in Nat /\ off[t] <= Cap
           /\ \A u \in Thread \ {t} : pc[u] \in {"idle", "lock", "done"}
           /\ UpTo(off[t]) \in Seq(Val) /\ Len(UpTo(off[t])) = off[t]
           /\ \A i \in 1 .. off[t] : UpTo(off[t])[i] = data[i]
  <1>1. \A u \in Thread \ {t} : pc[u] \in {"idle", "lock", "done"}
    BY Zenon, Alone DEF Writing
  <1>2. \A u \in Thread : pc[u] # "persist"
    BY Zenon, <1>1
  <1>3. poffset = {write_offset} /\ Committed = write_offset
    BY Zenon, <1>2 DEF LogInv, OffsetOK, Committed
  <1>4. write_offset \in Nat /\ write_offset <= Cap
    BY Zenon, LogIs
  <1>5. off[t] \in Nat /\ parts[t] \in Buffers
    BY Zenon DEF LogInv, SpaceOK
  <1>6. off[t] <= Cap
    <2>1. CASE pc[t] = "copy"
      <3>1. off[t] + Len(Flat(parts[t])) <= Cap
        BY Zenon, <2>1 DEF SimOK, AppendOK
      <3>2. Len(Flat(parts[t])) \in Nat
        BY Zenon, <1>5, FlatFacts, LenProperties
      <3> QED
        BY <1>5, <3>1, <3>2, LogAssumption
    <2>2. CASE pc[t] = "offset"
      <3>1. off[t] <= Cap \/ off[t] = 0
        BY Zenon, <2>2 DEF SimOK, AppendOK
      <3> QED
        BY <1>5, <3>1, LogAssumption
    <2> QED
      BY Zenon, <2>1, <2>2
  <1>7. \A i \in Pos : i <= off[t] => data[i] # Junk
    BY Zenon DEF LogInv, CopyOK
  <1>8. /\ UpTo(off[t]) \in Seq(Val) /\ Len(UpTo(off[t])) = off[t]
        /\ \A i \in 1 .. off[t] : UpTo(off[t])[i] = data[i]
    BY Zenon, <1>5, <1>6, <1>7, UpToIs DEF LogInv
  <1> QED
    BY Zenon, <1>1, <1>3, <1>4, <1>5, <1>6, <1>8

(* The data is durable: what has been copied is the longer log.            *)
LEMMA PersistDataSim ==
    ASSUME LogInv, SimOK, NEW t \in Thread, PersistData(t)
    PROVE  SimOK' /\ UNCHANGED Device!vars
  <1>1. /\ pc[t] = "copy" /\ parts[t] = <<>> /\ pc' = [pc EXCEPT ![t] = "offset"]
        /\ UNCHANGED <<data, write_offset, poffset, wrlock, rdlock, call, parts, off, seen>>
    BY Zenon DEF PersistData, Goto, locks
  <1>2. pc'[t] = "offset" /\ \A u \in Thread \ {t} : pc'[u] = pc[u]
    BY Zenon, <1>1 DEF LogInv, SpaceOK
  <1>3. UpTo(off[t]) \in Seq(Val) /\ off[t] <= Cap
    BY Zenon, <1>1, BeforeStore
  <1>4. UpTo(off[t]) = Longer(t) /\ Fits(t) /\ call[t].op = "append"
    <2>1. UpTo(off[t]) \o <<>> = Longer(t) /\ Fits(t) /\ call[t].op = "append"
      BY Zenon, <1>1, FlatFacts DEF SimOK, AppendOK, TurnOK
    <2>2. \A s \in Seq(Val) : s \o <<>> = s
      OBVIOUS
    <2> QED
      BY Zenon, <1>3, <2>1, <2>2
  <1>5. AppendOK(t)'
    <2>1. Committed' = Committed /\ UpTo(Committed)' = UpTo(Committed)
      BY Zenon, <1>1, LogSame
    <2>2. Fits(t)' /\ Longer(t)' = Longer(t) /\ UpTo(off[t])' = UpTo(off[t])
      BY Zenon, <1>1, <1>4, <2>1 DEF Fits, Longer, UpTo
    <2>3. pc'[t] # "copy" /\ pc'[t] # "persist"
      BY <1>2
    <2> QED
      BY Zenon, <1>1, <1>3, <1>4, <2>2, <2>3 DEF AppendOK
  <1>6. WalkOK(t)'
    BY <1>2 DEF WalkOK
  <1>7. TurnOK'
    <2>1. TurnOK
      BY Zenon DEF SimOK
    <2> QED
      BY <1>1, <1>2, <1>4, <2>1 DEF TurnOK
  <1>8. seen' = [u \in Thread |-> seen'[u]]
    BY Zenon, <1>1 DEF SimOK
  <1> QED
    BY Zenon, <1>1, <1>2, <1>5, <1>6, <1>7, <1>8, Quietly, Unheard

(* A buffer is copied behind what has been copied.                         *)
LEMMA CopySim ==
    ASSUME LogInv, SimOK, NEW t \in Thread, Copy(t)
    PROVE  SimOK' /\ UNCHANGED Device!vars
  <1>1. PICK b, o : b = Head(parts[t]) /\ o = off[t]
    BY Zenon
  <1>2. /\ pc[t] = "copy" /\ parts[t] # <<>>
        /\ data' = [i \in Pos |-> IF i \in o + 1 .. o + Len(b) THEN b[i - o] ELSE data[i]]
        /\ off' = [off EXCEPT ![t] = @ + Len(b)] /\ parts' = [parts EXCEPT ![t] = Tail(@)]
        /\ UNCHANGED <<write_offset, poffset, wrlock, rdlock, pc, call, seen>>
    BY Zenon, <1>1 DEF Copy, locks
  <1>3. /\ poffset = {write_offset} /\ Committed = write_offset /\ write_offset \in Nat /\ write_offset <= Cap
        /\ o \in Nat /\ o <= Cap /\ o >= write_offset
        /\ \A u \in Thread \ {t} : pc[u] \in {"idle", "lock", "done"}
        /\ UpTo(o) \in Seq(Val) /\ Len(UpTo(o)) = o
        /\ \A i \in 1 .. o : UpTo(o)[i] = data[i]
    BY Zenon, <1>1, <1>2, BeforeStore DEF LogInv, CopyOK
  <1>4. /\ parts[t] \in Buffers /\ b \in Seq(Val) /\ Tail(parts[t]) \in Buffers
        /\ off'[t] = o + Len(b) /\ parts'[t] = Tail(parts[t])
    <2>1. parts[t] \in Buffers /\ off'[t] = o + Len(b) /\ parts'[t] = Tail(parts[t])
      BY Zenon, <1>1, <1>2 DEF LogInv, SpaceOK
    <2>2. Head(parts[t]) \in Seq(Val) /\ Tail(parts[t]) \in Buffers
      BY Zenon, <1>2, <2>1, HeadTailProperties DEF Buffers
    <2> QED
      BY Zenon, <1>1, <2>1, <2>2
  <1>5. PICK r : r = Flat(Tail(parts[t]))
    BY Zenon
  <1>6. Flat(parts[t]) = b \o r /\ r \in Seq(Val)
    BY Zenon, <1>1, <1>2, <1>4, <1>5, FlatFacts
  <1>7. Len(b) \in Nat /\ Len(r) \in Nat /\ Len(b \o r) = Len(b) + Len(r)
    BY <1>4, <1>6
  <1>8. o + Len(b \o r) <= Cap /\ UpTo(o) \o (b \o r) = Longer(t) /\ Fits(t) /\ call[t].op = "append"
    BY Zenon, <1>1, <1>2, <1>6 DEF SimOK, AppendOK, TurnOK
  <1>9. (o + Len(b)) + Len(r) <= Cap /\ o + Len(b) <= Cap
    BY <1>3, <1>7, <1>8, LogAssumption
  <1>10. \A i \in 1 .. o : data'[i] = data[i]
    <2>1. \A i \in 1 .. o : i \in Pos /\ i \notin o + 1 .. o + Len(b)
      BY <1>3, <1>7, LogAssumption DEF Pos
    <2> QED
      BY Zenon, <1>2, <2>1
  <1>11. \A i \in 1 .. Len(b) : b[i] = data'[o + i]
    <2>1. \A i \in 1 .. Len(b) : o + i \in Pos /\ o + i \in o + 1 .. o + Len(b) /\ (o + i) - o = i
      BY <1>3, <1>7, <1>9, LogAssumption DEF Pos
    <2> QED
      BY Zenon, <1>2, <2>1
  <1>12. UpTo(off[t])' = UpTo(o) \o b
    <2>1. PICK d, v : d = data' /\ v = UpTo(o)
      BY Zenon
    <2>2. /\ o \in Nat /\ b \in Seq(Val) /\ v \in Seq(Val) /\ Len(v) = o
          /\ \A i \in 1 .. o : v[i] = d[i]
          /\ \A i \in 1 .. Len(b) : b[i] = d[o + i]
      BY Zenon, <1>3, <1>4, <1>10, <1>11, <2>1
    <2>3. Holds(d, o + Len(b), v \o b)
      BY Zenon, <2>2, Follows
    <2> QED
      BY Zenon, <1>4, <2>1, <2>3 DEF UpTo, Holds
  <1>13. Committed' = Committed /\ UpTo(Committed)' = UpTo(Committed)
    <2>1. Committed' = write_offset
      BY Zenon, <1>2, <1>3 DEF Committed
    <2>2. \A i \in 1 .. write_offset : i \in 1 .. o
      BY <1>3
    <2> QED
      BY Zenon, <1>3, <1>10, <2>1, <2>2 DEF UpTo
  <1>14. AppendOK(t)'
    <2>1. Fits(t)' /\ Longer(t)' = Longer(t)
      BY Zenon, <1>2, <1>8, <1>13 DEF Fits, Longer
    <2>2. (UpTo(o) \o b) \o r = UpTo(o) \o (b \o r)
      BY Zenon, <1>3, <1>4, <1>6, Assoc
    <2>3. (UpTo(off[t]) \o Flat(parts[t]))' = Longer(t)
      BY Zenon, <1>4, <1>5, <1>8, <1>12, <2>2
    <2>4. (off[t] + Len(Flat(parts[t])))' = (o + Len(b)) + Len(r)
      BY Zenon, <1>4, <1>5
    <2>5. pc'[t] = "copy" /\ pc'[t] \notin {"offset", "persist"}
      BY <1>2
    <2> QED
      BY Zenon, <1>9, <2>1, <2>3, <2>4, <2>5 DEF AppendOK
  <1>15. WalkOK(t)'
    BY <1>2 DEF WalkOK
  <1>16. SimOK'
    <2>1. TurnOK' /\ (poffset \subseteq 0 .. Cap)' /\ seen' = [u \in Thread |-> seen'[u]]
      BY Zenon, <1>2 DEF SimOK, TurnOK
    <2>2. \A u \in Thread \ {t} : AppendOK(u)' /\ WalkOK(u)'
      BY Zenon, <1>2, <1>3, Outsider
    <2> QED
      BY Zenon, <1>14, <1>15, <2>1, <2>2 DEF SimOK
  <1> QED
    BY Zenon, <1>2, <1>13, <1>16, Unheard

(* The new offset is stored; until it is durable the old one counts.       *)
LEMMA StoreOffsetSim ==
    ASSUME LogInv, SimOK, NEW t \in Thread, StoreOffset(t)
    PROVE  SimOK' /\ UNCHANGED Device!vars
  <1>1. /\ pc[t] = "offset" /\ write_offset' = off[t] /\ poffset' = poffset \cup {off[t]}
        /\ pc' = [pc EXCEPT ![t] = "persist"]
        /\ UNCHANGED <<data, wrlock, rdlock, call, parts, off, seen>>
    BY Zenon DEF StoreOffset, Goto, space, locks
  <1>2. pc'[t] = "persist" /\ \A u \in Thread \ {t} : pc'[u] = pc[u]
    BY Zenon, <1>1 DEF LogInv, SpaceOK
  <1>3. /\ poffset = {write_offset} /\ Committed = write_offset /\ off[t] \in Nat /\ off[t] <= Cap
        /\ \A u \in Thread \ {t} : pc[u] \in {"idle", "lock", "done"}
    BY Zenon, <1>1, BeforeStore
  <1>4. Committed' = Committed
    <2>1. CASE off[t] = write_offset
      <3>1. poffset' = {write_offset'} /\ write_offset' = write_offset
        BY Zenon, <1>1, <1>3, <2>1
      <3> QED
        BY Zenon, <1>3, <3>1 DEF Committed
    <2>2. CASE off[t] # write_offset
      <3>1. write_offset \in poffset' /\ poffset' # {write_offset'}
        BY Zenon, <1>1, <1>3, <2>2
      <3>2. \A x : x \in poffset' /\ x # write_offset' <=> x = write_offset
        BY Zenon, <1>1, <1>3, <2>2
      <3>3. Committed' = CHOOSE x \in poffset' : x # write_offset'
        BY Zenon, <3>1 DEF Committed
      <3> QED
        BY Zenon, <1>3, <3>1, <3>2, <3>3
    <2> QED
      BY Zenon, <2>1, <2>2
  <1>5. UpTo(Committed)' = UpTo(Committed)
    BY Zenon, <1>1, <1>4 DEF UpTo
  <1>6. AppendOK(t)'
    <2>1. Fits(t)' <=> Fits(t)
      BY Zenon, <1>1, <1>4 DEF Fits
    <2>2. Longer(t)' = Longer(t) /\ UpTo(off[t])' = UpTo(off[t])
      BY Zenon, <1>1, <1>5 DEF Longer, UpTo
    <2>3. \/ call[t].op = "append" /\ Fits(t) /\ off[t] <= Cap /\ UpTo(off[t]) = Longer(t)
          \/ call[t].op = "rewind" /\ off[t] = 0
      BY Zenon, <1>1 DEF SimOK, AppendOK
    <2>4. write_offset' = off'[t] /\ poffset' = {Committed', off'[t]}
      BY Zenon, <1>1, <1>3, <1>4
    <2>5. pc'[t] # "copy"
      BY <1>2
    <2> QED
      BY Zenon, <1>1, <2>1, <2>2, <2>3, <2>4, <2>5 DEF AppendOK
  <1>7. WalkOK(t)'
    BY <1>2 DEF WalkOK
  <1>8. TurnOK'
    <2>1. TurnOK
      BY Zenon DEF SimOK
    <2> QED
      BY <1>1, <1>2, <2>1 DEF TurnOK
  <1>9. poffset' \subseteq 0 .. Cap
    <2>1. off[t] \in 0 .. Cap
      BY <1>3, LogAssumption
    <2> QED
      BY Zenon, <1>1, <2>1 DEF SimOK
  <1>10. SimOK'
    <2>1. seen' = [u \in Thread |-> seen'[u]]
      BY Zenon, <1>1 DEF SimOK
    <2>2. \A u \in Thread \ {t} : AppendOK(u)' /\ WalkOK(u)'
      BY Zenon, <1>2, <1>3, Outsider
    <2> QED
      BY Zenon, <1>6, <1>7, <1>8, <1>9, <2>1, <2>2 DEF SimOK
  <1> QED
    BY Zenon, <1>1, <1>5, <1>10, Unheard

(* What the log becomes when the offset of a writer counts.                *)
Written(t, new) ==
    \/ call[t].op = "append" /\ Fits(t) /\ new = Longer(t)
    \/ call[t].op = "rewind" /\ new = <<>>

(* Once the offset is stored, the bytes below it are that log.             *)
LEMMA NewLog ==
    ASSUME SimOK, NEW t \in Thread, pc[t] = "persist"
    PROVE  write_offset = off[t] /\ poffset = {Committed, off[t]} /\ Written(t, UpTo(off[t]))
  <1>1. UpTo(0) = <<>>
    BY DEF UpTo
  <1> QED
    BY Zenon, <1>1 DEF SimOK, AppendOK, Written

(* The new offset is durable: the append or the rewind has happened.       *)
LEMMA PersistOffsetSim ==
    ASSUME LogInv, SimOK, NEW t \in Thread, PersistOffset(t)
    PROVE  SimOK' /\ (Device!AppendAll(t) \/ Device!Rewind(t))
  <1> DEFINE c == [op |-> "done", answer |-> "ok"]
  <1>1. /\ pc[t] = "persist" /\ poffset' = {write_offset} /\ wrlock' = NoOne
        /\ pc' = [pc EXCEPT ![t] = "done"] /\ call' = [call EXCEPT ![t] = c] /\ c.op = "done"
        /\ UNCHANGED <<data, write_offset, rdlock, parts, off, seen>>
    BY Zenon DEF PersistOffset, Done, Goto, space
  <1>2. /\ pc'[t] = "done" /\ call'[t] = c
        /\ \A u \in Thread \ {t} : pc'[u] = pc[u] /\ call'[u] = call[u]
    <2> HIDE DEF c
    <2> QED
      BY Zenon, <1>1 DEF LogInv, SpaceOK, CallOK
  <1>3. rdlock = {} /\ \A u \in Thread \ {t} : pc[u] \in {"idle", "lock", "done"}
    BY Zenon, <1>1, Alone DEF Writing
  <1>4. TurnOK'
    <2>1. TurnOK
      BY Zenon DEF SimOK
    <2> HIDE DEF c
    <2> QED
      BY <1>1, <1>2, <1>3, <2>1 DEF TurnOK
  <1>5. write_offset = off[t] /\ Written(t, UpTo(off[t]))
    BY Zenon, <1>1, NewLog
  <1>6. SimOK'
    <2>1. seen' = [u \in Thread |-> seen'[u]] /\ poffset' \subseteq 0 .. Cap
      BY Zenon, <1>1 DEF SimOK, LogInv, OffsetOK
    <2>2. \A u \in Thread : pc'[u] \in {"idle", "lock", "done"}
      BY <1>2, <1>3
    <2>3. \A u \in Thread : AppendOK(u)' /\ WalkOK(u)'
      BY Zenon, <2>2, Outsider
    <2> QED
      BY Zenon, <1>4, <2>1, <2>3 DEF SimOK
  <1>7. UpTo(Committed)' = UpTo(off[t])
    <2>1. Committed' = off[t]
      BY Zenon, <1>1, <1>5 DEF Committed
    <2> QED
      BY Zenon, <1>1, <2>1 DEF UpTo
  <1>8. CASE call[t].op = "append" /\ Fits(t) /\ UpTo(off[t]) = Longer(t)
    <2>1. Device!Fits(call[t])
      BY Zenon, <1>8, SpaceIs
    <2> QED
      BY Zenon, <1>1, <1>6, <1>7, <1>8, <2>1 DEF Device!AppendAll, Device!Answer, UpTo, Longer, Flat
  <1>9. CASE call[t].op = "rewind" /\ UpTo(off[t]) = <<>>
    BY Zenon, <1>1, <1>6, <1>7, <1>9 DEF Device!Rewind, Device!Answer, UpTo
  <1> QED
    BY Zenon, <1>5, <1>8, <1>9 DEF Written

(* A power failure leaves the log, or what a writer was making of it.      *)
LEMMA CrashSim ==
    ASSUME LogInv, SimOK, Crash
    PROVE  SimOK' /\ Device!Crash
  <1>1. /\ \A i \in Pos : data'[i] \in media[i]
        /\ pc' = [t \in Thread |-> "idle"] /\ call' = [t \in Thread |-> Idle]
        /\ rdlock' = {} /\ seen' = seen
    BY Zenon DEF Crash
  <1>2. PICK o \in poffset : write_offset' = o /\ poffset' = {o}
    BY Zenon DEF Crash
  <1>3. SimOK'
    <2>1. seen' = [u \in Thread |-> seen'[u]] /\ poffset' \subseteq 0 .. Cap
      BY Zenon, <1>1, <1>2 DEF SimOK
    <2>2. \A u \in Thread : pc'[u] = "idle" /\ call'[u] = Idle
      BY Zenon, <1>1
    <2>3. \A u \in Thread : AppendOK(u)' /\ WalkOK(u)'
      BY Zenon, <2>2, Outsider
    <2>4. TurnOK'
      BY <1>1, <2>2 DEF TurnOK
    <2> QED
      BY Zenon, <2>1, <2>3, <2>4 DEF SimOK
  <1>4. UpTo(Committed)' = UpTo(o)
    <2>1. Committed' = o
      BY Zenon, <1>2 DEF Committed
    <2>2. o \in 0 .. Cap
      BY Zenon DEF SimOK
    <2>3. \A i \in 1 .. o : i \in Pos /\ i <= o
      BY <2>2, LogAssumption DEF Pos
    <2>4. \A i \in 1 .. o : data'[i] = data[i]
      BY Zenon, <1>1, <2>3 DEF LogInv, OffsetCoversDurable
    <2> QED
      BY Zenon, <2>1, <2>4 DEF UpTo
  <1>5. CASE o = Committed
    BY Zenon, <1>1, <1>3, <1>4, <1>5 DEF Device!Crash, Device!Idle, Idle, UpTo
  <1>6. CASE o # Committed
    <2>1. PICK t \in Thread : pc[t] = "persist"
      <3>1. poffset = {write_offset} => o = Committed
        BY Zenon DEF Committed
      <3> QED
        BY Zenon, <1>6, <3>1 DEF LogInv, OffsetOK
    <2>2. poffset = {Committed, off[t]} /\ Written(t, UpTo(off[t]))
      BY Zenon, <2>1, NewLog
    <2>3. o = off[t]
      BY Zenon, <1>6, <2>2
    <2>4. CASE call[t].op = "append" /\ Fits(t) /\ UpTo(o) = Longer(t)
      <3>1. Device!Fits(call[t])
        BY Zenon, <2>4, SpaceIs
      <3> QED
        BY Zenon, <1>1, <1>3, <1>4, <2>4, <3>1 DEF Device!Crash, Device!Idle, Idle, UpTo, Longer, Flat
    <2>5. CASE call[t].op = "rewind" /\ UpTo(o) = <<>>
      BY Zenon, <1>1, <1>3, <1>4, <2>5 DEF Device!Crash, Device!Idle, Idle, UpTo
    <2> QED
      BY Zenon, <2>2, <2>3, <2>4, <2>5 DEF Written
  <1> QED
    BY Zenon, <1>5, <1>6

(* A new pool is an empty log.                                             *)
LEMMA SimInit == Init => SimOK /\ Device!Init
  <1> SUFFICES ASSUME Init PROVE SimOK /\ Device!Init
    OBVIOUS
  <1>1. /\ write_offset = 0 /\ poffset = {0} /\ rdlock = {}
        /\ call = [t \in Thread |-> Idle] /\ seen = [t \in Thread |-> <<>>]
        /\ \A t \in Thread : pc[t] = "idle"
    BY Zenon DEF Init
  <1>2. TurnOK /\ poffset \subseteq 0 .. Cap /\ seen = [t \in Thread |-> seen[t]]
    BY <1>1, LogAssumption DEF TurnOK
  <1>3. \A t \in Thread : AppendOK(t) /\ WalkOK(t)
    BY Zenon, <1>1 DEF AppendOK, WalkOK
  <1>4. UpTo(Committed) = <<>>
    <2>1. Committed = 0
      BY Zenon, <1>1 DEF Committed
    <2> QED
      BY <2>1 DEF UpTo
  <1> QED
    BY Zenon, <1>1, <1>2, <1>3, <1>4 DEF SimOK, Device!Init, Device!Idle, Idle, UpTo

(* Every step of the log is a step of the log device, or none.             *)
LEMMA SimNext ==
    ASSUME LogInv, SimOK, [Next]_vars
    PROVE  SimOK' /\ [Device!Next]_(Device!vars)
  <1>1. CASE UNCHANGED vars
    <2>1. UNCHANGED <<data, write_offset, poffset, wrlock, rdlock, pc, call, parts, off, seen>>
      BY Zenon, <1>1 DEF vars, space, locks
    <2>2. \A u \in Thread : AppendOK(u)' /\ WalkOK(u)'
      BY Zenon, <2>1, Bystander DEF SimOK
    <2>3. SimOK'
      BY Zenon, <2>1, <2>2 DEF SimOK, TurnOK
    <2>4. UpTo(Committed)' = UpTo(Committed)
      BY Zenon, <2>1, LogSame
    <2> QED
      BY Zenon, <2>1, <2>3, <2>4, Unheard
  <1>2. CASE Crash
    BY Zenon, <1>2, CrashSim DEF Device!Next
  <1>3. ASSUME NEW t \in Thread, NEW p \in AppendArg, Enter(t, [op |-> "append", parts |-> p])
        PROVE  SimOK' /\ Device!Next
    BY Zenon, <1>3, EnterSim DEF Device!Next
  <1>4. ASSUME NEW t \in Thread, NEW c \in ChunkArg, Enter(t, [op |-> "walk", chunk |-> c])
        PROVE  SimOK' /\ Device!Next
    BY Zenon, <1>4, EnterSim DEF Device!Next
  <1>5. ASSUME NEW t \in Thread, Enter(t, [op |-> "rewind"]) \/ Enter(t, [op |-> "tell"])
        PROVE  SimOK' /\ Device!Next
    BY Zenon, <1>5, EnterSim DEF Device!Next
  <1>6. ASSUME NEW t \in Thread, AppendLock(t) \/ Copy(t) \/ PersistData(t) \/ RewindLock(t) \/ StoreOffset(t)
                                 \/ WalkLock(t) \/ WalkChunk(t)
        PROVE  SimOK' /\ UNCHANGED Device!vars
    BY Zenon, <1>6, AppendLockSim, CopySim, PersistDataSim, RewindLockSim, StoreOffsetSim, WalkLockSim, WalkChunkSim
  <1>7. ASSUME NEW t \in Thread, AppendRefused(t) \/ PersistOffset(t) \/ Tell(t) \/ WalkEnd(t) \/ Return(t)
        PROVE  SimOK' /\ Device!Next
    BY Zenon, <1>7, RefusedSim, PersistOffsetSim, TellSim, WalkEndSim, ReturnSim DEF Device!Next
  <1> QED
    BY Zenon, <1>1, <1>2, <1>3, <1>4, <1>5, <1>6, <1>7 DEF Next, Step

(* However many threads append, rewind, tell and walk, and whenever the    *)
(* power fails, the pool of log.c behaves as one log whose calls happen at *)
(* an instant: the run's refinement property, for every size of the pool,  *)
(* number of threads and content of the appends.                           *)
THEOREM ImplementsLog == Spec => ImplementsLogDevice
  <1>1. Init => LogInv /\ SimOK /\ Device!Init
    BY Zenon, LogInit, SimInit
  <1>2. LogInv /\ SimOK /\ [Next]_vars => LogInv' /\ SimOK' /\ [Device!Next]_(Device!vars)
    BY Zenon, LogNext, SimNext
  <1> QED
    BY <1>1, <1>2, PTL DEF Spec, ImplementsLogDevice, Device!Spec

==============================================================================
