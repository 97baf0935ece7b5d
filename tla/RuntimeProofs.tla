---------------------------- MODULE RuntimeProofs ----------------------------
(***************************************************************************)
(* Proofs about an open pool and about opening one, for every number of    *)
(* threads, lanes, pools, arenas, openings, crashes and failures: locks in *)
(* persistent objects exclude and are initialised once per opening before  *)
(* they are used, and a lane belongs to one thread; the shutdown state     *)
(* tells of every unsafe shutdown and of no other, and a block pool is     *)
(* laid out once, with flogs of its own.                                   *)
(***************************************************************************)
EXTENDS Runtime, TLAPS

-----------------------------------------------------------------------------
(* The places of a thread inside write_layout().                           *)
LayingOut == {"map", "flog", "info", "infoend"}

(* Types of the media, the runtime state and the threads.                  *)
LayoutTypes ==
    /\ uuid \in [Pool -> Nat] /\ laidout \in [Pool -> BOOLEAN]
    /\ open \in [Pool -> BOOLEAN] /\ written \in [Pool -> BOOLEAN]
    /\ flogged \in [Pool -> [Layout!Arena -> Nat]] /\ info \in [Pool -> [Layout!Arena -> Nat]]
    /\ mutex \in [Pool -> Writer \cup {Layout!NoOne}]
    /\ btt_pc \in [Writer -> LayingOut \cup {"idle", "lock", "unlock", "write", "flag"}]
    /\ btt_at \in [Writer -> Pool] /\ arena \in [Writer -> Layout!Arena]
    /\ btt_fails \in Nat

(* A thread in write_layout() holds layout_write_mutex, has finished the   *)
(* arenas before the present one and has written the flogs of the present  *)
(* one before its info block.                                              *)
WriterOK(t) ==
    /\ btt_pc[t] # "idle" => open[btt_at[t]]
    /\ btt_pc[t] \in LayingOut \cup {"unlock"} => mutex[btt_at[t]] = t
    /\ btt_pc[t] \in LayingOut =>
          /\ ~laidout[btt_at[t]]
          /\ \A a \in Layout!Arena : a < arena[t] => info[btt_at[t]][a] = uuid[btt_at[t]]
    /\ btt_pc[t] \in {"info", "infoend"} => flogged[btt_at[t]][arena[t]] = uuid[btt_at[t]]
    /\ btt_pc[t] \in {"unlock", "write", "flag"} => laidout[btt_at[t]]

(* An info block with the uuid of the pool vouches for flogs of the pool.  *)
PoolOK(p) ==
    /\ open[p] => uuid[p] > 0
    /\ laidout[p] => open[p] /\ \A a \in Layout!Arena : flogged[p][a] = uuid[p]
    /\ \A a \in Layout!Arena :
          /\ info[p][a] <= uuid[p]
          /\ uuid[p] > 0 /\ info[p][a] = uuid[p] => flogged[p][a] = uuid[p]

(* While no namespace write has failed, a pool that holds data keeps valid *)
(* info blocks in every arena.                                             *)
WrittenOK ==
    btt_fails = 0 =>
        /\ \A t \in Writer : btt_pc[t] # "flag"
        /\ \A p \in Pool : laidout[p] \/ written[p] => \A a \in Layout!Arena : info[p][a] = uuid[p]
        /\ \A p \in Pool : written[p] /\ open[p] => laidout[p]

(* The inductive invariant of the layout.                                  *)
LayoutInv ==
    LayoutTypes /\ (\A t \in Writer : WriterOK(t)) /\ (\A p \in Pool : PoolOK(p)) /\ WrittenOK

(* Closed pools on media of any contents satisfy the invariant.            *)
LEMMA LayoutInit == Layout!Init => LayoutInv
  BY LayoutAssumption DEF Layout!Init, LayoutInv, LayoutTypes, WriterOK, PoolOK,
     WrittenOK, LayingOut, Layout!Arena

(* Every step of btt_init(), write_layout(), btt_write(), and a crash      *)
(* between any two of them, keeps the invariant.                           *)
LEMMA LayoutNext == LayoutInv /\ [Layout!Next]_layoutVars => LayoutInv'
  <1> SUFFICES ASSUME LayoutTypes, \A t \in Writer : WriterOK(t), \A p \in Pool : PoolOK(p),
                      WrittenOK
               PROVE  [Layout!Next]_layoutVars => LayoutInv'
    BY Zenon DEF LayoutInv
  <1>a. NArena \in Nat \ {0} /\ Layout!NoOne \notin Writer /\ 1 \in Layout!Arena
    BY LayoutAssumption DEF Layout!Arena
  <1> USE <1>a DEF Layout!Here, Layout!Goto, Layout!media, Layout!runtime, Layout!threads, LayingOut
  <1>1. ASSUME NEW p \in Pool, Layout!CreateZeroed(p) PROVE LayoutInv'
    <2>1. info'[p][1] # uuid'[p]
      BY <1>1 DEF Layout!CreateZeroed, LayoutTypes, PoolOK
    <2>2. laidout' = [laidout EXCEPT ![p] = FALSE]
      BY Zenon, <1>1, <2>1 DEF Layout!CreateZeroed, Layout!RuntimeInit,
         Layout!FindsLayout, Layout!ValidInfo
    <2>3. /\ ~open[p] /\ open' = [open EXCEPT ![p] = TRUE]
          /\ uuid' = [uuid EXCEPT ![p] = @ + 1] /\ written' = [written EXCEPT ![p] = FALSE]
          /\ flogged' = [flogged EXCEPT ![p] = [a \in Layout!Arena |-> 0]]
          /\ info' = [info EXCEPT ![p] = [a \in Layout!Arena |-> 0]]
          /\ UNCHANGED <<mutex, btt_pc, btt_at, arena, btt_fails>>
      BY <1>1 DEF Layout!CreateZeroed, Layout!RuntimeInit
    <2> QED
      BY SMTT(30), <2>2, <2>3 DEF LayoutInv, LayoutTypes, WriterOK, PoolOK, WrittenOK
  <1>2. ASSUME NEW p \in Pool, Layout!CreateOver(p) PROVE LayoutInv'
    <2>1. info'[p][1] # uuid'[p]
      BY <1>2 DEF Layout!CreateOver, LayoutTypes, PoolOK
    <2>2. laidout' = [laidout EXCEPT ![p] = FALSE]
      BY Zenon, <1>2, <2>1 DEF Layout!CreateOver, Layout!RuntimeInit,
         Layout!FindsLayout, Layout!ValidInfo
    <2>3. /\ ~open[p] /\ open' = [open EXCEPT ![p] = TRUE]
          /\ uuid' = [uuid EXCEPT ![p] = @ + 1] /\ written' = [written EXCEPT ![p] = FALSE]
          /\ UNCHANGED <<flogged, info>>
          /\ UNCHANGED <<mutex, btt_pc, btt_at, arena, btt_fails>>
      BY <1>2 DEF Layout!CreateOver, Layout!RuntimeInit
    <2> QED
      BY SMTT(30), <2>2, <2>3 DEF LayoutInv, LayoutTypes, WriterOK, PoolOK, WrittenOK
  <1>3. ASSUME NEW p \in Pool, Layout!Open(p) PROVE LayoutInv'
    BY SMTT(30), <1>3 DEF LayoutInv, LayoutTypes, WriterOK, PoolOK, WrittenOK,
       Layout!Open, Layout!RuntimeInit, Layout!FindsLayout, Layout!ValidInfo
  <1>4. ASSUME NEW p \in Pool, Layout!Close(p) PROVE LayoutInv'
    BY SMTT(30), <1>4 DEF LayoutInv, LayoutTypes, WriterOK, PoolOK, WrittenOK, Layout!Close
  <1>5. ASSUME NEW t \in Writer, NEW p \in Pool, Layout!Enter(t, p) PROVE LayoutInv'
    BY SMTT(30), <1>5 DEF LayoutInv, LayoutTypes, WriterOK, PoolOK, WrittenOK, Layout!Enter
  <1>6. ASSUME NEW t \in Writer, Layout!LayoutLock(t) PROVE LayoutInv'
    <2>1. LayoutTypes'
      BY SMTT(30), <1>6 DEF LayoutTypes, Layout!LayoutLock
    <2>2. \A u \in Writer : WriterOK(u)'
      BY SMTT(30), <1>6 DEF LayoutTypes, WriterOK, Layout!LayoutLock, Layout!Arena
    <2>3. (\A q \in Pool : PoolOK(q)') /\ WrittenOK'
      BY SMTT(30), <1>6 DEF LayoutTypes, PoolOK, WrittenOK, Layout!LayoutLock
    <2> QED
      BY <2>1, <2>2, <2>3 DEF LayoutInv
  <1>7. ASSUME NEW t \in Writer, Layout!ZeroMap(t) PROVE LayoutInv'
    BY SMTT(30), <1>7 DEF LayoutInv, LayoutTypes, WriterOK, PoolOK, WrittenOK,
       Layout!ZeroMap
  <1>8. ASSUME NEW t \in Writer, Layout!WriteFlog(t) PROVE LayoutInv'
    BY SMTT(30), <1>8 DEF LayoutInv, LayoutTypes, WriterOK, PoolOK, WrittenOK,
       Layout!WriteFlog
  <1>9. ASSUME NEW t \in Writer, Layout!BeginInfo(t) PROVE LayoutInv'
    <2>p. PICK p \in Pool : p = btt_at[t]
      BY DEF LayoutTypes
    <2>1. /\ btt_pc[t] = "info" /\ btt_at[t] = p /\ arena[t] \in Layout!Arena
          /\ info' = [info EXCEPT ![p] = [info[p] EXCEPT ![arena[t]] = 0]]
          /\ btt_pc' = [btt_pc EXCEPT ![t] = "infoend"]
          /\ UNCHANGED <<uuid, flogged, written, open, laidout, mutex, btt_at, arena, btt_fails>>
      BY <1>9, <2>p DEF LayoutTypes, Layout!BeginInfo
    <2>2. /\ mutex[p] = t /\ open[p] /\ uuid[p] > 0 /\ ~laidout[p]
          /\ btt_fails = 0 => ~written[p]
      BY <2>1 DEF LayoutTypes, WriterOK, PoolOK, WrittenOK
    <2>3. /\ \A a \in Layout!Arena : info'[p][a] = IF a = arena[t] THEN 0 ELSE info[p][a]
          /\ \A q \in Pool \ {p} : info'[q] = info[q]
          /\ info' \in [Pool -> [Layout!Arena -> Nat]]
      BY <2>1 DEF LayoutTypes
    <2>4. LayoutTypes'
      BY <2>1, <2>3 DEF LayoutTypes
    <2>5. \A u \in Writer : WriterOK(u)'
      <3>1. WriterOK(t)'
        BY SMTT(20), <2>1, <2>2, <2>3 DEF LayoutTypes, WriterOK, Layout!Arena
      <3>2. ASSUME NEW u \in Writer \ {t} PROVE WriterOK(u)'
        <4>1. btt_pc'[u] = btt_pc[u] /\ btt_at'[u] = btt_at[u]
          BY <2>1 DEF LayoutTypes
        <4>2. btt_at[u] = p => btt_pc[u] \notin LayingOut
          BY <2>2 DEF WriterOK
        <4> QED
          BY <2>1, <2>3, <4>1, <4>2 DEF LayoutTypes, WriterOK
      <3> QED
        BY <3>1, <3>2
    <2>6. \A q \in Pool : PoolOK(q)'
      BY <2>1, <2>2, <2>3 DEF LayoutTypes, PoolOK
    <2>7. WrittenOK'
      BY <2>1, <2>2, <2>3 DEF LayoutTypes, WrittenOK
    <2> QED
      BY <2>4, <2>5, <2>6, <2>7 DEF LayoutInv
  <1>10. ASSUME NEW t \in Writer, Layout!EndInfo(t) PROVE LayoutInv'
    <2> DEFINE last == arena[t] = NArena
    <2>p. PICK p \in Pool : p = btt_at[t]
      BY DEF LayoutTypes
    <2>1. /\ btt_pc[t] = "infoend" /\ btt_at[t] = p /\ arena[t] \in Layout!Arena
          /\ arena' = IF last THEN arena ELSE [arena EXCEPT ![t] = @ + 1]
          /\ laidout' = IF last THEN [laidout EXCEPT ![p] = TRUE] ELSE laidout
          /\ btt_pc' = [btt_pc EXCEPT ![t] = IF last THEN "unlock" ELSE "map"]
          /\ UNCHANGED <<uuid, flogged, written, open, mutex, btt_at, btt_fails>>
      BY SMTT(20), <1>10, <2>p DEF LayoutTypes, Layout!EndInfo, Layout!Arena
    <2>2. info' = [info EXCEPT ![p] = [info[p] EXCEPT ![arena[t]] = uuid[p]]]
      BY <1>10, <2>p DEF LayoutTypes, Layout!EndInfo
    <2>3. /\ mutex[p] = t /\ open[p] /\ uuid[p] > 0 /\ ~laidout[p] /\ flogged[p][arena[t]] = uuid[p]
          /\ \A a \in Layout!Arena : a < arena[t] => info[p][a] = uuid[p]
      BY <2>1 DEF LayoutTypes, WriterOK, PoolOK
    <2>4. last => \A a \in Layout!Arena : info'[p][a] = uuid[p]
      BY <2>1, <2>2, <2>3 DEF LayoutTypes, Layout!Arena
    <2>5. /\ \A a \in Layout!Arena : info'[p][a] = IF a = arena[t] THEN uuid[p] ELSE info[p][a]
          /\ \A q \in Pool \ {p} : info'[q] = info[q]
          /\ info' \in [Pool -> [Layout!Arena -> Nat]]
      BY <2>1, <2>2 DEF LayoutTypes
    <2>6. /\ laidout'[p] <=> last
          /\ \A q \in Pool \ {p} : laidout'[q] = laidout[q]
          /\ laidout' \in [Pool -> BOOLEAN]
      <3>1. CASE last
        BY <2>1, <3>1 DEF LayoutTypes
      <3>2. CASE ~last
        BY <2>1, <2>3, <3>2 DEF LayoutTypes
      <3> QED
        BY <3>1, <3>2
    <2>7. arena' \in [Writer -> Layout!Arena]
      BY <2>1 DEF LayoutTypes, Layout!Arena
    <2>8. LayoutTypes'
      BY <2>1, <2>5, <2>6, <2>7 DEF LayoutTypes
    <2>9. \A u \in Writer : WriterOK(u)'
      <3>1. WriterOK(t)'
        BY SMTT(20), <2>1, <2>3, <2>4, <2>5, <2>6 DEF LayoutTypes, WriterOK, Layout!Arena
      <3>2. ASSUME NEW u \in Writer \ {t} PROVE WriterOK(u)'
        <4>1. btt_pc'[u] = btt_pc[u] /\ arena'[u] = arena[u] /\ btt_at'[u] = btt_at[u]
          BY SMTT(30), <2>1 DEF LayoutTypes
        <4>2. btt_at[u] = p => btt_pc[u] \notin LayingOut \cup {"unlock", "write", "flag"}
          BY <2>3 DEF WriterOK
        <4> QED
          BY <2>1, <2>5, <2>6, <4>1, <4>2 DEF LayoutTypes, WriterOK
      <3> QED
        BY <3>1, <3>2
    <2> HIDE DEF last
    <2>10. \A q \in Pool : PoolOK(q)'
      <3>1. PoolOK(p)'
        <4>1. \A a \in Layout!Arena :
                 info'[p][a] <= uuid[p] /\ (info'[p][a] = uuid[p] => flogged[p][a] = uuid[p])
          <5>1. ASSUME NEW a \in Layout!Arena
                PROVE  info[p][a] <= uuid[p] /\ (info[p][a] = uuid[p] => flogged[p][a] = uuid[p])
            BY <2>3 DEF LayoutTypes, PoolOK
          <5>2. uuid[p] \in Nat
            BY DEF LayoutTypes
          <5> QED
            BY <2>3, <2>5, <5>1, <5>2
        <4>2. laidout'[p] => \A a \in Layout!Arena : flogged[p][a] = uuid[p]
          BY <2>4, <2>6, <4>1
        <4>3. UNCHANGED <<open, uuid, flogged>>
          BY <2>1
        <4> QED
          BY <2>3, <4>1, <4>2, <4>3 DEF PoolOK
      <3>2. ASSUME NEW q \in Pool \ {p} PROVE PoolOK(q)'
        BY <2>1, <2>5, <2>6 DEF LayoutTypes, PoolOK
      <3> QED
        BY <3>1, <3>2
    <2>11. WrittenOK'
      <3>1. btt_fails = 0 => ~written[p]
        BY Zenon, <2>3 DEF WrittenOK
      <3> QED
        BY SMTT(30), <2>1, <2>4, <2>5, <2>6, <3>1 DEF LayoutTypes, WrittenOK
    <2> QED
      BY <2>8, <2>9, <2>10, <2>11 DEF LayoutInv
  <1>11. ASSUME NEW t \in Writer, Layout!LayoutFail(t) PROVE LayoutInv'
    BY SMTT(30), <1>11 DEF LayoutInv, LayoutTypes, WriterOK, PoolOK, WrittenOK,
       Layout!LayoutFail
  <1>12. ASSUME NEW t \in Writer, Layout!LayoutUnlock(t) PROVE LayoutInv'
    BY SMTT(30), <1>12 DEF LayoutInv, LayoutTypes, WriterOK, PoolOK, WrittenOK,
       Layout!LayoutUnlock
  <1>13. ASSUME NEW t \in Writer, Layout!WriteBlock(t) PROVE LayoutInv'
    BY SMTT(30), <1>13 DEF LayoutInv, LayoutTypes, WriterOK, PoolOK, WrittenOK,
       Layout!WriteBlock
  <1>14. ASSUME NEW t \in Writer, NEW a \in Layout!Arena, Layout!WriteFail(t, a) PROVE LayoutInv'
    BY SMTT(30), <1>14 DEF LayoutInv, LayoutTypes, WriterOK, PoolOK, WrittenOK,
       Layout!WriteFail
  <1>15. ASSUME NEW t \in Writer, Layout!FlagArena(t) PROVE LayoutInv'
    BY SMTT(30), <1>15 DEF LayoutInv, LayoutTypes, WriterOK, PoolOK, WrittenOK,
       Layout!FlagArena
  <1>16. CASE Layout!Crash
    BY <1>16 DEF LayoutInv, LayoutTypes, WriterOK, PoolOK, WrittenOK, Layout!Crash
  <1>17. CASE UNCHANGED layoutVars
    BY <1>17 DEF LayoutInv, LayoutTypes, WriterOK, PoolOK, WrittenOK, layoutVars
  <1> QED
    BY <1>1, <1>2, <1>3, <1>4, <1>5, <1>6, <1>7, <1>8, <1>9, <1>10, <1>11, <1>12,
       <1>13, <1>14, <1>15, <1>16, <1>17 DEF Layout!Next, Layout!Step

-----------------------------------------------------------------------------
(* The shutdown state of one part: the checksum stands for the fields it   *)
(* was computed over.                                                      *)
State == [usc : Nat, uuid : Nat, dirty : {0, 1}, sum : Nat \X Nat \X {0, 1}]

(* shutdown_state_add_part() has filled in the count and the uuid of the   *)
(* present devices.                                                        *)
Current == sds.usc = usc /\ sds.uuid = Sds!Uuid

(* A checksum over a dirty state says the pool was left open on these      *)
(* devices, and with the present count unless an unsafe shutdown hit it    *)
(* since.                                                                  *)
SumOK(m) == m[3] = 1 => unclosed /\ m[2] = Sds!Uuid /\ (m[1] = usc \/ hit)

(* What the shutdown state and every value of it the media may keep look   *)
(* like.                                                                   *)
SdsTypes ==
    usc \in Nat /\ sds \in State /\ smedia \subseteq State

(* The visible state and every one a crash may leave carry such a          *)
(* checksum.                                                               *)
SumsOK == SumOK(sds.sum) /\ \A s \in smedia : SumOK(s.sum)

(* What each stage of shutdown_state_check(), of set_dirty() and of        *)
(* clear_dirty() has already stored.                                       *)
StageOK ==
    /\ sds_pc \in {"reinit_sum", "set_dirty", "dirty_sum", "dirty_flush", "open"} => Current
    /\ sds_pc \in {"reinit_sum", "clear_sum", "clear_flush"} => sds.dirty = 0
    /\ sds_pc \in {"dirty_sum", "dirty_flush", "open"} => sds.dirty = 1 /\ unclosed /\ modified
    /\ sds_pc \in {"dirty_flush", "open", "clear_flush"} => sds.sum = Sds!Sum(sds)
    /\ sds_pc = "open" => smedia = {sds}

(* Data of the present user is lost only out of an open pool, whose dirty  *)
(* state with the older count is then all the media holds, until a later   *)
(* opening has been refused.                                               *)
LossOK ==
    /\ sdata = "mine" => sds_pc = "open"
    /\ "mine" \in lost =>
          /\ sds_pc \in {"closed", "check"} /\ (sds_pc = "check" => ~modified)
          /\ smedia = {sds} /\ sds.sum = Sds!Sum(sds) /\ sds.dirty = 1 /\ sds.usc < usc

(* The inductive invariant of the shutdown state.                          *)
SdsInv == SdsTypes /\ SumsOK /\ StageOK /\ LossOK

(* What the constant states of the module are, and what computing a        *)
(* checksum changes.                                                       *)
LEMMA StateTypes ==
    /\ Sds!Zeroed \in State /\ Sds!Zeroed.sum = <<0, 0, 0>>
    /\ Sds!Created \in State /\ Sds!Created.sum = <<1, 1, 1>>
    /\ \A s \in State : /\ Sds!Sum(s) = <<s.usc, s.uuid, s.dirty>> /\ Sds!Summed(s) \in State
                        /\ Sds!Summed(s).sum = Sds!Sum(Sds!Summed(s))
                        /\ Sds!Sum(Sds!Summed(s)) = Sds!Sum(s)
                        /\ Sds!Summed(s).usc = s.usc /\ Sds!Summed(s).uuid = s.uuid
                        /\ Sds!Summed(s).dirty = s.dirty
    /\ Sds!Created.usc = 1 /\ Sds!Created.uuid = Sds!Uuid /\ Sds!Created.dirty = 1
    /\ Sds!Created.sum = Sds!Sum(Sds!Created)
  BY DEF Sds!Zeroed, Sds!Created, State, Sds!Sum, Sds!Summed, Sds!Uuid

(* After a store the media may keep the old state or the new one.          *)
LEMMA StoreFacts ==
    ASSUME NEW s \in State, sds \in State, Sds!Store(s)
    PROVE  sds' = s /\ smedia' \subseteq State /\ \A m \in smedia' : m.sum \in {sds.sum, s.sum}
  BY DEF Sds!Store, State

(* A pool just created, or one whose shutdown state is still zero,         *)
(* satisfies the invariant.                                                *)
LEMMA SdsInit == Sds!Init => SdsInv
  <1> SUFFICES ASSUME Sds!Init PROVE SdsInv
    OBVIOUS
  <1>1. /\ usc = 1 /\ smedia = {sds} /\ sdata = "deep" /\ lost = {} /\ hit = FALSE
        /\ sds \in State
    BY Zenon, StateTypes DEF Sds!Init
  <1>2. SumOK(sds.sum) /\ StageOK
    <2>1. CASE sds = Sds!Created /\ sds_pc = "open" /\ modified = TRUE /\ unclosed = TRUE
      BY <1>1, <2>1, StateTypes DEF SumOK, StageOK, Current, Sds!Uuid
    <2>2. CASE sds = Sds!Zeroed /\ sds_pc = "closed"
      BY SMTT(30), <2>2, StateTypes DEF SumOK, StageOK
    <2> QED
      BY Zenon, <2>1, <2>2 DEF Sds!Init
  <1> QED
    BY Zenon, <1>1, <1>2 DEF SdsInv, SdsTypes, SumsOK, LossOK

(* Every store, flush, failure and opening of set.c and shutdown_state.c   *)
(* keeps the invariant.                                                    *)
LEMMA SdsNext == SdsInv /\ [Sds!Next]_sdsVars => SdsInv'
  <1> SUFFICES ASSUME SdsTypes, SumsOK, StageOK, LossOK PROVE [Sds!Next]_sdsVars => SdsInv'
    BY Zenon DEF SdsInv
  <1> USE DEF Sds!history, SdsInv, SdsTypes, SumsOK, SumOK, StageOK, LossOK, Current
  <1>1. CASE Sds!Open
    BY <1>1 DEF Sds!Open
  <1>2. CASE Sds!CheckAccepts
    BY <1>2 DEF Sds!CheckAccepts, Sds!Accepted
  <1>3. CASE Sds!CheckRefuses
    BY <1>3 DEF Sds!CheckRefuses, Sds!Refused
  <1>4. CASE Sds!CheckReinits
    <2>1. Sds!Zeroed \in State
      BY StateTypes DEF State, Sds!Uuid
    <2> QED
      BY <1>4, <2>1, StoreFacts, StateTypes DEF State, Sds!Accepted, Sds!Refused,
         Sds!CheckReinits
  <1>5. CASE Sds!ReinitFields
    <2> DEFINE s == [sds EXCEPT !.usc = usc, !.uuid = Sds!Uuid, !.dirty = 0]
    <2>1. s \in State /\ Sds!Store(s)
      BY Zenon, <1>5 DEF State, Sds!Uuid, Sds!ReinitFields
    <2>2. sds' = s /\ smedia' \subseteq State /\ \A m \in smedia' : m.sum \in {sds.sum, s.sum}
      BY Zenon, <2>1, StoreFacts
    <2> QED
      BY <1>5, <2>1, <2>2 DEF State, Sds!Accepted, Sds!Refused, Sds!ReinitFields
  <1>6. CASE Sds!ReinitSum
    <2>1. Sds!Summed(sds) \in State
      BY StateTypes DEF State, Sds!Uuid
    <2> QED
      BY <1>6, <2>1, StoreFacts, StateTypes DEF State, Sds!Accepted, Sds!Refused,
         Sds!ReinitSum
  <1>7. CASE Sds!SetDirty
    <2>1. [sds EXCEPT !.dirty = 1] \in State
      BY StateTypes DEF State, Sds!Uuid
    <2> QED
      BY <1>7, <2>1, StoreFacts, StateTypes DEF State, Sds!Accepted, Sds!Refused,
         Sds!SetDirty
  <1>8. CASE Sds!DirtySum
    <2>1. Sds!Summed(sds) \in State
      BY StateTypes DEF State, Sds!Uuid
    <2> QED
      BY <1>8, <2>1, StoreFacts, StateTypes DEF State, Sds!Accepted, Sds!Refused,
         Sds!DirtySum
  <1>9. CASE Sds!ClearDirty
    <2>1. [sds EXCEPT !.dirty = 0] \in State
      BY StateTypes DEF State, Sds!Uuid
    <2> QED
      BY <1>9, <2>1, StoreFacts, StateTypes DEF State, Sds!Accepted, Sds!Refused,
         Sds!ClearDirty
  <1>10. CASE Sds!ClearSum
    <2>1. Sds!Summed(sds) \in State
      BY StateTypes DEF State, Sds!Uuid
    <2> QED
      BY <1>10, <2>1, StoreFacts, StateTypes DEF State, Sds!Accepted, Sds!Refused,
         Sds!ClearSum
  <1>11. CASE Sds!DirtyFlush
    BY Zenon, <1>11 DEF Sds!DirtyFlush, Sds!Flushed
  <1>12. CASE Sds!Persist
    BY Zenon, <1>12 DEF Sds!Persist
  <1>13. CASE Sds!Close
    BY Zenon, <1>13 DEF Sds!Close
  <1>14. CASE Sds!ClearFlush
    BY SMTT(20), <1>14, StateTypes DEF Sds!ClearFlush, Sds!Flushed
  <1>15. CASE Sds!Kill
    BY Zenon, <1>15 DEF Sds!Kill
  <1>16. CASE Sds!PowerLoss
    BY Zenon, <1>16 DEF Sds!PowerLoss
  <1>17. CASE Sds!AdrFailure
    <2>1. SdsTypes'
      BY <1>17 DEF SdsTypes, Sds!AdrFailure
    <2>2. SumsOK'
      BY Zenon, <1>17 DEF SumsOK, SumOK, Sds!AdrFailure
    <2>3. StageOK'
      BY <1>17 DEF SdsTypes, StageOK, LossOK, Current, Sds!AdrFailure
    <2>4. LossOK'
      <3>1. sdata' = "deep" /\ sds_pc' = "closed" /\ usc' = usc + 1
        BY <1>17 DEF Sds!AdrFailure
      <3>2. ASSUME "mine" \in lost'
            PROVE  /\ smedia = {sds} /\ sds.sum = Sds!Sum(sds) /\ sds.dirty = 1 /\ sds.usc <= usc
        <4>1. CASE "mine" \in lost
          BY <4>1 DEF SdsTypes, State, LossOK
        <4>2. CASE sdata = "mine"
          BY <4>2 DEF SdsTypes, StageOK, LossOK, Current
        <4> QED
          BY <1>17, <3>2, <4>1, <4>2 DEF Sds!AdrFailure
      <3>3. smedia = {sds} => sds' = sds /\ smedia' = {sds}
        BY <1>17 DEF Sds!AdrFailure
      <3> QED
        BY <3>1, <3>2, <3>3 DEF SdsTypes, State, LossOK
    <2> QED
      BY Zenon, <2>1, <2>2, <2>3, <2>4 DEF SdsInv
  <1>18. CASE UNCHANGED sdsVars
    BY <1>18 DEF sdsVars, SdsInv, SdsTypes, SumsOK, SumOK, StageOK, LossOK, Current
  <1> HIDE DEF Sds!history, SdsInv, SdsTypes, SumsOK, SumOK, StageOK, LossOK, Current
  <1> QED
    BY Zenon, <1>1, <1>2, <1>3, <1>4, <1>5, <1>6, <1>7, <1>8, <1>9, <1>10, <1>11, <1>12,
       <1>13, <1>14, <1>15, <1>16, <1>17, <1>18 DEF Sds!Next

-----------------------------------------------------------------------------
(* The run ids that a lock can have are those of the openings so far:      *)
(* before run ids wrap they lie between the first one and run_id, after    *)
(* that they also lie below run_id.                                        *)
RunOK ==
    /\ opens \in 0 .. MaxOpenings /\ (pop = "open" => run_id >= 2)
    /\ \E f \in FirstRun :
        \/ /\ run_id = f + 2 * opens /\ run_id <= RunIds - 2
           /\ media \subseteq {0} \cup (f - 1 .. run_id)
        \/ /\ 2 * MaxOpenings < f - 1 /\ 2 <= run_id /\ run_id <= 2 * opens
           /\ media \subseteq {0} \cup (1 .. run_id) \cup (f - 1 .. RunIds)

InUse(t) == pc[t] = "use" \/ t \in holds
Initialises(t) == pc[t] \in {"init", "set"}

(* The run id of the lock says what may be going on: who uses the lock has *)
(* seen the run id of the pool, the one that initialises it has put its    *)
(* mark there.                                                             *)
LockOK ==
    /\ pop = "closed" => holds = {} /\ \A t \in Caller : pc[t] = "idle"
    /\ pop = "open" /\ runid = run_id => value = "init"
    /\ \A t \in Caller : InUse(t) => runid = run_id
    /\ \A t \in Caller : Initialises(t) => runid = run_id - 1
    /\ \A t \in Caller : pc[t] = "cas" => tmp[t] # run_id /\ tmp[t] # run_id - 1
    /\ \A t \in Caller : pc[t] = "set" => value = "init"
    /\ \A t, u \in Caller : Initialises(t) /\ Initialises(u) => t = u

OwnersOK ==
    /\ owners = holds
    /\ \A t \in Caller : pc[t] # "idle" => (op[t] = "unlock" <=> t \in holds)

SyncInv == TypeOK /\ RunOK /\ LockOK /\ OwnersOK /\ Exclusive

-----------------------------------------------------------------------------
(* A new opening has a run id that no lock has. *)
LEMMA FreshRun == TypeOK /\ RunOK /\ Open => RunOK' /\ runid # run_id'
  <1> SUFFICES ASSUME TypeOK, RunOK, Open PROVE RunOK' /\ runid # run_id'
    OBVIOUS
  <1> USE RunIdAssumption
  <1>1. PICK f \in FirstRun :
           \/ /\ run_id = f + 2 * opens /\ run_id <= RunIds - 2
              /\ media \subseteq {0} \cup (f - 1 .. run_id)
           \/ /\ 2 * MaxOpenings < f - 1 /\ 2 <= run_id /\ run_id <= 2 * opens
              /\ media \subseteq {0} \cup (1 .. run_id) \cup (f - 1 .. RunIds)
    BY DEF RunOK
  <1>2. /\ f \in Int /\ f <= RunIds - 2 /\ f >= 0 /\ RunIds \in Int /\ MaxOpenings \in Int
        /\ opens \in Int /\ opens >= 0 /\ opens + 1 <= MaxOpenings
        /\ run_id \in Int /\ runid \in media /\ media \subseteq Int
    BY DEF TypeOK, RunOK, Open
  <1>3. /\ opens' = opens + 1 /\ media' = media /\ pop' = "open"
        /\ run_id' = IF run_id + 2 = RunIds THEN 2 ELSE run_id + 2
    BY DEF Open, NextRun, lock
  <1>4. PICK k \in Int, m \in Int : f = 2 * k /\ RunIds = 2 * m
    <2>1. \E k \in 0 .. f : f = 2 * k
      OBVIOUS
    <2>2. \E m \in 0 .. RunIds : RunIds = 2 * m
      BY Zenon
    <2> QED
      BY <2>1, <2>2
  <1>5. CASE /\ run_id = f + 2 * opens /\ run_id <= RunIds - 2
             /\ media \subseteq {0} \cup (f - 1 .. run_id)
    <2>1. CASE run_id + 2 = RunIds
      <3>1. 2 * MaxOpenings < f - 1 /\ run_id' = 2
        BY <1>2, <1>3, <1>5, <2>1
      <3>2. media' \subseteq {0} \cup (1 .. run_id') \cup (f - 1 .. RunIds)
        BY <1>2, <1>3, <1>5
      <3>3. runid # run_id'
        BY <1>2, <1>5, <3>1
      <3>4. opens' \in 0 .. MaxOpenings /\ run_id' >= 2 /\ run_id' <= 2 * opens'
        BY <1>2, <1>3, <3>1
      <3> QED
        BY Zenon, <3>1, <3>2, <3>3, <3>4 DEF RunOK
    <2>2. CASE run_id + 2 # RunIds
      <3>1. run_id' = f + 2 * opens' /\ run_id' = run_id + 2
        BY <1>2, <1>3, <1>5, <2>2
      <3>2. run_id' <= RunIds - 2
        <4>1. 2 * k + 2 * (opens + 1) # 2 * m /\ 2 * k + 2 * (opens + 1) <= 2 * m
          BY <1>2, <1>4, <1>5, <2>2
        <4>2. 2 * k + 2 * (opens + 1) <= 2 * m - 2
          BY <4>1, <1>2
        <4> QED
          BY <4>2, <1>2, <1>4, <3>1, <1>3
      <3>3. media' \subseteq {0} \cup (f - 1 .. run_id')
        BY <1>2, <1>3, <1>5, <3>1
      <3>4. runid # run_id'
        BY <1>2, <1>5, <3>1
      <3>5. opens' \in 0 .. MaxOpenings /\ run_id' >= 2
        BY <1>2, <1>3, <1>5, <3>1
      <3> QED
        BY Zenon, <3>1, <3>2, <3>3, <3>4, <3>5 DEF RunOK
    <2> QED
      BY <2>1, <2>2
  <1>6. CASE /\ 2 * MaxOpenings < f - 1 /\ 2 <= run_id /\ run_id <= 2 * opens
             /\ media \subseteq {0} \cup (1 .. run_id) \cup (f - 1 .. RunIds)
    <2>1. run_id' = run_id + 2 /\ run_id' <= 2 * opens' /\ 2 <= run_id' /\ run_id' < f - 1
      BY <1>2, <1>3, <1>6
    <2>2. media' \subseteq {0} \cup (1 .. run_id') \cup (f - 1 .. RunIds)
      BY <1>2, <1>3, <1>6, <2>1
    <2>3. runid # run_id'
      BY <1>2, <1>6, <2>1
    <2> QED
      BY <1>2, <1>3, <1>6, <2>1, <2>2, <2>3 DEF RunOK
  <1> QED
    BY <1>1, <1>5, <1>6

(* What a call stores in the lock is among the run ids that it can have. *)
LEMMA StoreRun ==
    ASSUME TypeOK, RunOK, pop = "open", UNCHANGED pool, NEW v \in {0, run_id, run_id - 1},
           media' \subseteq media \cup {v}
    PROVE  RunOK'
  <1> USE RunIdAssumption
  <1>1. PICK f \in FirstRun :
           \/ /\ run_id = f + 2 * opens /\ run_id <= RunIds - 2
              /\ media \subseteq {0} \cup (f - 1 .. run_id)
           \/ /\ 2 * MaxOpenings < f - 1 /\ 2 <= run_id /\ run_id <= 2 * opens
              /\ media \subseteq {0} \cup (1 .. run_id) \cup (f - 1 .. RunIds)
    BY DEF RunOK
  <1>2. f \in Int /\ opens \in Int /\ opens >= 0 /\ run_id \in Int /\ run_id >= 2
    BY DEF TypeOK, RunOK
  <1>3. run_id' = run_id /\ opens' = opens /\ pop' = pop
    BY DEF pool
  <1>4. \/ /\ run_id = f + 2 * opens /\ run_id <= RunIds - 2
           /\ media' \subseteq {0} \cup (f - 1 .. run_id)
        \/ /\ 2 * MaxOpenings < f - 1 /\ 2 <= run_id /\ run_id <= 2 * opens
           /\ media' \subseteq {0} \cup (1 .. run_id) \cup (f - 1 .. RunIds)
    BY <1>1, <1>2
  <1> QED
    BY <1>3, <1>4 DEF RunOK

(* Calls that store no run id leave RunOK as it is. *)
LEMMA SameRun == ASSUME RunOK, run_id' = run_id, opens' = opens,
media' \subseteq media, pop' = "open" => pop = "open"
                 PROVE  RunOK'
  <1>1. PICK f \in FirstRun :
           \/ /\ run_id = f + 2 * opens /\ run_id <= RunIds - 2
              /\ media \subseteq {0} \cup (f - 1 .. run_id)
           \/ /\ 2 * MaxOpenings < f - 1 /\ 2 <= run_id /\ run_id <= 2 * opens
              /\ media \subseteq {0} \cup (1 .. run_id) \cup (f - 1 .. RunIds)
    BY DEF RunOK
  <1>2. \/ /\ run_id = f + 2 * opens /\ run_id <= RunIds - 2
           /\ media' \subseteq {0} \cup (f - 1 .. run_id)
        \/ /\ 2 * MaxOpenings < f - 1 /\ 2 <= run_id /\ run_id <= 2 * opens
           /\ media' \subseteq {0} \cup (1 .. run_id) \cup (f - 1 .. RunIds)
    BY <1>1
  <1> QED
    BY <1>2 DEF RunOK

-----------------------------------------------------------------------------
(* Before the first opening the invariant holds, whatever run id the lock  *)
(* has from earlier ones.                                                  *)
LEMMA SyncInit == Init => SyncInv
  <1> SUFFICES ASSUME Init PROVE SyncInv
    OBVIOUS
  <1> USE RunIdAssumption
  <1>1. TypeOK
    BY DEF Init, TypeOK
  <1>2. RunOK
    <2>1. run_id \in FirstRun /\ run_id \in Int /\ opens = 0 /\ run_id = run_id + 2 * opens
      BY DEF Init
    <2>2. run_id <= RunIds - 2 /\ media \subseteq {0} \cup (run_id - 1 .. run_id)
      BY DEF Init
    <2> QED
      BY <2>1, <2>2 DEF RunOK, Init
  <1>3. LockOK /\ OwnersOK /\ Exclusive
    BY DEF Init, LockOK, OwnersOK, Exclusive, InUse, Initialises
  <1> QED
    BY <1>1, <1>2, <1>3 DEF SyncInv

(* Every step of _get_value(), of the calls on a lock, of opening, closing *)
(* and crashing keeps the invariant.                                       *)
LEMMA SyncNext == SyncInv /\ [Next]_vars => SyncInv'
  <1> SUFFICES ASSUME TypeOK, RunOK, LockOK, OwnersOK, Exclusive PROVE [Next]_vars => SyncInv'
    BY Zenon DEF SyncInv
  <1>r. \A t \in Caller : pc[t] # "idle" => pop = "open"
    BY DEF TypeOK, LockOK
  <1> USE DEF pool, lock, locals, Goto, SetRunid,
              TypeOK, LockOK, InUse, Initialises, OwnersOK, Exclusive
  <1>1. CASE Open
    <2>1. RunOK' /\ runid # run_id'
      BY Zenon, <1>1, FreshRun
    <2> QED
      BY <1>1, <2>1 DEF SyncInv, Open, NextRun
  <1>2. ASSUME pop = "open", NEW v \in media, Stop(v) PROVE SyncInv'
    <2>1. RunOK'
      BY Zenon, <1>2, SameRun DEF Stop
    <2> QED
      BY <1>2, <2>1 DEF SyncInv, Stop
  <1>3. CASE Zero
    <2>1. RunOK' /\ run_id >= 2
      BY Zenon, <1>3, StoreRun DEF Zero, RunOK
    <2> QED
      BY SMTT(20), <1>3, <2>1 DEF SyncInv, Zero
  <1>4. ASSUME NEW t \in Caller, NEW o \in {"lock", "try", "unlock"}, NEW m \in Mode, Call(t, o, m)
        PROVE  SyncInv'
    <2>1. RunOK'
      BY Zenon, <1>4, SameRun DEF Call
    <2> QED
      BY Zenon, <1>4, <2>1, ModeAssumption DEF SyncInv, Call
  <1>5. ASSUME NEW t \in Caller, Get(t) PROVE SyncInv'
    <2>1. RunOK'
      BY <1>5, SameRun DEF Get
    <2> QED
      BY <1>5, <2>1 DEF SyncInv, Get
  <1>6. ASSUME NEW t \in Caller, Cas(t) PROVE SyncInv'
    <2>1. pop = "open" /\ UNCHANGED pool /\ media' \subseteq media \cup {run_id - 1}
      BY <1>6, <1>r DEF Cas
    <2>2. RunOK'
      BY <2>1, StoreRun
    <2>3. TypeOK'
      <3>1. /\ runid' \in {runid, run_id - 1} /\ runid' \in media'
            /\ \E l \in {"init", "get"} : pc' = [pc EXCEPT ![t] = l]
            /\ UNCHANGED <<pop, run_id, opens, value, owners, op, mode, tmp, holds, fails>>
        BY <1>6 DEF Cas
      <3> QED
        BY <2>1, <3>1
    <2>5. OwnersOK' /\ Exclusive'
      BY <1>6 DEF Cas
    <2>4. LockOK'
      BY SMTT(20), <1>6 DEF Cas
    <2> HIDE DEF TypeOK, LockOK, OwnersOK, Exclusive
    <2> QED
      BY <2>2, <2>3, <2>4, <2>5 DEF SyncInv
  <1>7. ASSUME NEW t \in Caller, InitValue(t) PROVE SyncInv'
    <2>1. RunOK'
      BY Zenon, <1>7, SameRun DEF InitValue
    <2> QED
      BY <1>7, <2>1 DEF SyncInv, InitValue
  <1>8. ASSUME NEW t \in Caller, InitFails(t) PROVE SyncInv'
    <2>1. RunOK' /\ run_id >= 2
      BY Zenon, <1>8, <1>r, StoreRun DEF InitFails, RunOK
    <2> QED
      BY SMTT(20), <1>8, <2>1 DEF SyncInv, InitFails
  <1>9. ASSUME NEW t \in Caller, SetDone(t) PROVE SyncInv'
    <2>1. pop = "open" /\ UNCHANGED pool /\ media' \subseteq media \cup {run_id}
      BY Zenon, <1>9, <1>r DEF SetDone
    <2>2. RunOK'
      BY <2>1, StoreRun
    <2>3. TypeOK'
      <3>1. /\ runid' \in {runid, run_id} /\ runid' \in media'
            /\ \E l \in {"get", "idle"} : pc' = [pc EXCEPT ![t] = l]
            /\ UNCHANGED <<pop, run_id, opens, value, owners, op, mode, tmp, holds, fails>>
        BY Zenon, <1>9 DEF SetDone
      <3> QED
        BY SMTT(20), <2>1, <3>1
    <2>5. OwnersOK' /\ Exclusive'
      BY <1>9 DEF SetDone
    <2>4. LockOK'
      BY Zenon, <1>9 DEF SetDone
    <2> HIDE DEF TypeOK, LockOK, OwnersOK, Exclusive
    <2> QED
      BY <2>2, <2>3, <2>4, <2>5 DEF SyncInv
  <1>10. ASSUME NEW t \in Caller, OsLock(t) PROVE SyncInv'
    <2>1. RunOK'
      BY Zenon, <1>10, SameRun DEF OsLock
    <2> QED
      BY Zenon, <1>10, <2>1 DEF SyncInv, OsLock, Grants
  <1>11. ASSUME NEW t \in Caller, OsBusy(t) PROVE SyncInv'
    <2>1. RunOK'
      BY Zenon, <1>11, SameRun DEF OsBusy
    <2> QED
      BY Zenon, <1>11, <2>1 DEF SyncInv, OsBusy
  <1>12. ASSUME NEW t \in Caller, OsUnlock(t) PROVE SyncInv'
    <2>1. RunOK'
      BY Zenon, <1>12, SameRun DEF OsUnlock
    <2> QED
      BY Zenon, <1>12, <2>1 DEF SyncInv, OsUnlock
  <1>13. CASE UNCHANGED vars
    <2>1. RunOK'
      BY Zenon, <1>13, SameRun DEF vars
    <2> QED
      BY Zenon, <1>13, <2>1 DEF SyncInv, vars
  <1>14. runid \in media
    OBVIOUS
  <1> HIDE DEF pool, lock, locals, Goto, SetRunid,
               TypeOK, LockOK, InUse, Initialises, OwnersOK, Exclusive
  <1> QED
    BY Zenon, <1>1, <1>2, <1>3, <1>4, <1>5, <1>6, <1>7, <1>8, <1>9, <1>10, <1>11, <1>12,
       <1>13, <1>14
       DEF Next, GetStep, Close, Crash

-----------------------------------------------------------------------------
(* What a thread in each place knows: a record that has been initialised,  *)
(* a count of its calls, and, when it holds a lane, the index of one.      *)
PlaceOK ==
    \A t \in Thread :
        /\ lane_pc[t] = "out" => nest_count[t] = 0
        /\ lane_pc[t] # "out" => nest_count[t] > 0 /\ lane_idx[t] # Lanes!Unset
        /\ lane_pc[t] = "in" => lane_idx[t] \in Lanes!LaneIdx

(* The inductive invariant of the lanes.                                   *)
LaneInv == Lanes!TypeOK /\ PlaceOK /\ Lanes!LaneExclusive

\* get_lane() stays inside lane_locks, however far the primary index has run.
LEMMA CandidateInRange ==
    ASSUME Lanes!TypeOK, PlaceOK, NEW t \in Thread,
    lane_pc[t] = "get" PROVE Lanes!Candidate(t) \in Lanes!LaneIdx
  <1>1. lane_idx[t] \in Nat
    BY DEF Lanes!TypeOK, PlaceOK, Lanes!Unset
  <1>2. \A k \in Nat : k % NLanes \in 0 .. (NLanes - 1)
    BY LaneAssumption
  <1> QED
    BY Zenon, <1>1, <1>2 DEF Lanes!Candidate, Lanes!LaneIdx

(* lane_boot() leaves every lane free and every thread outside.            *)
LEMMA LaneInit == Lanes!Init => LaneInv
  BY LaneAssumption DEF Lanes!Init, LaneInv, Lanes!TypeOK, PlaceOK,
     Lanes!LaneExclusive, Lanes!LaneIdx, Lanes!Unset

\* Each step of lane_hold(), get_lane(), lane_release() and a reopening keeps the invariant.
LEMMA LaneNext == LaneInv /\ [Lanes!Next]_laneVars => LaneInv'
  <1>0. SUFFICES ASSUME LaneInv, [Lanes!Next]_laneVars PROVE LaneInv'
    OBVIOUS
  <1>h. Lanes!TypeOK /\ PlaceOK /\ Lanes!LaneExclusive
    BY Zenon, <1>0 DEF LaneInv
  <1>t. /\ locks \in [Lanes!LaneIdx -> 0..1]
        /\ lane_idx \in [Thread -> Int]
        /\ \A t \in Thread : lane_idx[t] >= -1
        /\ nest_count \in [Thread -> 0..MaxNest]
        /\ lane_pc \in [Thread -> {"out", "get", "in"}]
    BY Zenon, <1>h DEF Lanes!TypeOK, Lanes!Unset
  <1>r. /\ next_lane_idx \in Nat
        /\ primary \in [Thread -> Nat]
        /\ primary_attempts \in [Thread -> 0..Attempts]
        /\ missed \in [Thread -> 0..Attempts]
        /\ lane_opens \in 0..MaxOpen
    BY Zenon, <1>h DEF Lanes!TypeOK
  <1>1. ASSUME NEW t \in Thread, Lanes!Hold(t) PROVE LaneInv'
    <2>1. PICK p \in Nat :
              /\ primary' = [primary EXCEPT ![t] = p] /\ lane_idx' = [lane_idx EXCEPT ![t] = p]
              /\ next_lane_idx' = next_lane_idx + 0 \/ next_lane_idx' = next_lane_idx + Jump
      BY Zenon, <1>1, <1>r DEF Lanes!Hold
    <2>2. /\ lane_pc[t] = "out" /\ lane_pc' = [lane_pc EXCEPT ![t] = "get"]
          /\ nest_count' = [nest_count EXCEPT ![t] = 1]
          /\ UNCHANGED <<locks, lane_opens, primary_attempts, missed>>
      BY Zenon, <1>1 DEF Lanes!Hold
    <2>3. Lanes!TypeOK'
      <3>1. lane_idx' \in [Thread -> Int] /\ \A u \in Thread : lane_idx'[u] >= -1
        BY <1>t, <2>1
      <3>2. next_lane_idx' \in Nat /\ nest_count' \in [Thread -> 0..MaxNest]
        BY <1>t, <1>r, <2>1, <2>2, LaneAssumption
      <3> QED
        BY Zenon, <1>t, <1>r, <2>1, <2>2, <3>1, <3>2 DEF Lanes!TypeOK, Lanes!Unset
    <2>4. PlaceOK' /\ Lanes!LaneExclusive'
      BY <1>h, <1>t, <2>1, <2>2 DEF PlaceOK, Lanes!LaneExclusive, Lanes!Unset
    <2> QED
      BY Zenon, <2>3, <2>4 DEF LaneInv
  <1>2. ASSUME NEW t \in Thread, Lanes!Acquire(t) PROVE LaneInv'
    <2>1. PICK i \in Lanes!LaneIdx : i = Lanes!Candidate(t)
      BY Zenon, <1>2, <1>h, CandidateInRange DEF Lanes!Acquire
    <2>2. /\ lane_pc[t] = "get" /\ locks[i] = 0 /\ locks' = [locks EXCEPT ![i] = 1]
          /\ lane_idx' = [lane_idx EXCEPT ![t] = i] /\ lane_pc' = [lane_pc EXCEPT ![t] = "in"]
          /\ UNCHANGED <<next_lane_idx, lane_opens, nest_count>>
      BY Zenon, <1>2, <2>1 DEF Lanes!Acquire
    <2>3. /\ primary' \in [Thread -> Nat] /\ i \in Nat
          /\ primary_attempts' \in [Thread -> 0..Attempts]
          /\ missed' \in [Thread -> 0..Attempts]
      <3>1. i \in Nat /\ 0 \in 0..Attempts /\ Attempts \in 0..Attempts
        BY LaneAssumption DEF Lanes!LaneIdx
      <3> QED
        BY Zenon, <1>2, <1>r, <2>1, <3>1 DEF Lanes!Acquire
    <2>4. Lanes!TypeOK'
      <3>1. lane_idx' \in [Thread -> Int] /\ \A u \in Thread : lane_idx'[u] >= -1
        BY <1>t, <2>2, <2>3
      <3>2. locks' \in [Lanes!LaneIdx -> 0..1]
        BY <1>t, <2>2
      <3> QED
        BY Zenon, <1>t, <1>r, <2>2, <2>3, <3>1, <3>2 DEF Lanes!TypeOK, Lanes!Unset
    <2>5. PlaceOK'
      BY <1>h, <1>t, <2>2, <2>3 DEF PlaceOK, Lanes!Unset
    <2>6. Lanes!LaneExclusive'
      BY <1>h, <1>t, <2>2 DEF Lanes!LaneExclusive
    <2> QED
      BY Zenon, <2>4, <2>5, <2>6 DEF LaneInv
  <1>3. ASSUME NEW t \in Thread, Lanes!TryNext(t) PROVE LaneInv'
    <2>1. PICK i \in Lanes!LaneIdx : i = Lanes!Candidate(t)
      BY Zenon, <1>3, <1>h, CandidateInRange DEF Lanes!TryNext
    <2>2. /\ lane_pc[t] = "get" /\ lane_idx' = [lane_idx EXCEPT ![t] = i + 1]
          /\ UNCHANGED <<locks, next_lane_idx, lane_opens, primary, nest_count, lane_pc>>
      BY Zenon, <1>3, <2>1 DEF Lanes!TryNext, Lanes!pool
    <2>3. /\ primary_attempts' \in [Thread -> 0 .. Attempts]
          /\ missed' \in [Thread -> 0 .. Attempts]
      BY <1>3, <1>r, LaneAssumption DEF Lanes!TryNext
    <2>4. i + 1 \in Nat
      BY LaneAssumption DEF Lanes!LaneIdx
    <2>5. Lanes!TypeOK'
      <3>1. lane_idx' \in [Thread -> Int] /\ \A u \in Thread : lane_idx'[u] >= -1
        BY <1>t, <2>2, <2>4
      <3> QED
        BY Zenon, <1>t, <1>r, <2>2, <2>3, <3>1 DEF Lanes!TypeOK, Lanes!Unset
    <2>6. PlaceOK' /\ Lanes!LaneExclusive'
      BY <1>h, <1>t, <2>2, <2>4 DEF PlaceOK, Lanes!LaneExclusive, Lanes!Unset
    <2> QED
      BY Zenon, <2>5, <2>6 DEF LaneInv
  <1>4. ASSUME NEW t \in Thread, Lanes!HoldNested(t) PROVE LaneInv'
    <2>1. /\ lane_pc[t] = "in" /\ nest_count[t] < MaxNest
          /\ nest_count' = [nest_count EXCEPT ![t] = nest_count[t] + 1]
          /\ UNCHANGED <<locks, next_lane_idx, lane_opens, lane_idx, primary, primary_attempts,
                         lane_pc, missed>>
      BY Zenon, <1>4 DEF Lanes!HoldNested, Lanes!pool
    <2>2. nest_count[t] + 1 \in 1..MaxNest
      BY <1>t, <2>1, LaneAssumption
    <2>3. Lanes!TypeOK' /\ PlaceOK'
      BY <1>h, <1>t, <1>r, <2>1, <2>2 DEF Lanes!TypeOK, PlaceOK
    <2>4. Lanes!LaneExclusive'
      BY Zenon, <1>h, <2>1 DEF Lanes!LaneExclusive
    <2> QED
      BY Zenon, <2>3, <2>4 DEF LaneInv
  <1>5. ASSUME NEW t \in Thread, Lanes!Release(t) PROVE LaneInv'
    <2>1. /\ lane_pc[t] = "in" /\ nest_count' = [nest_count EXCEPT ![t] = nest_count[t] - 1]
          /\ \/ /\ nest_count[t] = 1 /\ locks' = [locks EXCEPT ![lane_idx[t]] = 0]
                /\ lane_pc' = [lane_pc EXCEPT ![t] = "out"]
             \/ nest_count[t] # 1 /\ UNCHANGED <<locks, lane_pc>>
          /\ UNCHANGED <<next_lane_idx, lane_opens, lane_idx, primary, primary_attempts, missed>>
      BY Zenon, <1>5 DEF Lanes!Release
    <2>2. lane_idx[t] \in Lanes!LaneIdx /\ nest_count[t] \in 1..MaxNest
      BY <1>h, <1>t, <2>1, LaneAssumption DEF PlaceOK
    <2>3. nest_count[t] - 1 \in 0..MaxNest /\ (nest_count[t] # 1 => nest_count[t] - 1 > 0)
      BY <2>2, LaneAssumption
    <2>4. Lanes!TypeOK'
      BY <1>t, <1>r, <2>1, <2>2, <2>3 DEF Lanes!TypeOK, Lanes!Unset
    <2>5. PlaceOK'
      BY <1>h, <1>t, <2>1, <2>3 DEF PlaceOK
    <2>6. Lanes!LaneExclusive'
      <3>1. CASE nest_count[t] = 1
        BY <1>h, <1>t, <2>1, <2>2, <3>1 DEF Lanes!LaneExclusive
      <3>2. CASE nest_count[t] # 1
        <4>1. UNCHANGED <<locks, lane_pc, lane_idx>>
          BY Zenon, <2>1, <3>2
        <4> QED
          BY Zenon, <1>h, <4>1 DEF Lanes!LaneExclusive
      <3> QED
        BY <3>1, <3>2
    <2> QED
      BY Zenon, <2>4, <2>5, <2>6 DEF LaneInv
  <1>6. ASSUME NEW t \in Thread, Lanes!Reopen(t) PROVE LaneInv'
    <2>1. /\ \A u \in Thread : lane_pc[u] = "out"
          /\ locks' = [i \in Lanes!LaneIdx |-> 0] /\ lane_idx' = [lane_idx EXCEPT ![t] = -1]
          /\ UNCHANGED <<nest_count, lane_pc>>
      BY Zenon, <1>6 DEF Lanes!Reopen, Lanes!Unset
    <2>2. /\ next_lane_idx' \in Nat /\ primary' \in [Thread -> Nat] /\ lane_opens' \in 0..MaxOpen
          /\ primary_attempts' \in [Thread -> 0..Attempts] /\ missed' \in [Thread -> 0..Attempts]
      BY <1>6, <1>r, LaneAssumption DEF Lanes!Reopen
    <2>3. Lanes!TypeOK'
      <3>1. lane_idx' \in [Thread -> Int] /\ \A u \in Thread : lane_idx'[u] >= -1
        BY <1>t, <2>1
      <3>2. locks' \in [Lanes!LaneIdx -> 0..1]
        BY <2>1
      <3> QED
        BY Zenon, <1>t, <2>1, <2>2, <3>1, <3>2 DEF Lanes!TypeOK, Lanes!Unset
    <2>4. PlaceOK'
      BY <1>h, <1>t, <2>1 DEF PlaceOK
    <2>5. Lanes!LaneExclusive'
      BY <2>1 DEF Lanes!LaneExclusive
    <2> QED
      BY Zenon, <2>3, <2>4, <2>5 DEF LaneInv
  <1>7. CASE UNCHANGED laneVars
    BY Zenon, <1>h, <1>7 DEF LaneInv, Lanes!TypeOK, PlaceOK, Lanes!LaneExclusive, laneVars
  <1> QED
    BY Zenon, <1>0, <1>1, <1>2, <1>3, <1>4, <1>5, <1>6, <1>7 DEF Lanes!Next

-----------------------------------------------------------------------------
(* An initial state of the composition is one of each part.                *)
LEMMA PartsInit == RuntimeInit => Init /\ Lanes!Init /\ Sds!Init /\ Layout!Init
  BY DEF RuntimeInit

(* Every step of the run is a step of one part and leaves the others alone. *)
LEMMA PartsNext ==
    [RuntimeNext]_all => [Next]_vars /\ [Lanes!Next]_laneVars /\ [Sds!Next]_sdsVars /\ [Layout!Next]_layoutVars
  BY DEF RuntimeNext, OfSync, OfLane, OfLayout, OfSds, Rest, all

(* The inductive invariants of the locks hold in every state.              *)
THEOREM LocksConsistent == RuntimeSpec => [](SyncInv /\ LaneInv)
  <1>1. RuntimeInit => SyncInv /\ LaneInv
    BY PartsInit, SyncInit, LaneInit
  <1>2. SyncInv /\ LaneInv /\ [RuntimeNext]_all => (SyncInv /\ LaneInv)'
    BY PartsNext, SyncNext, LaneNext
  <1> QED
    BY <1>1, <1>2, PTL DEF RuntimeSpec

(* For any threads and openings, a lock in a pool is initialised by        *)
(* _get_value() in the opening that uses it, before it is used, and not    *)
(* again while it is in use.                                               *)
THEOREM AlwaysReady == RuntimeSpec => []ReadyWhenUsed
  <1>1. SyncInv => ReadyWhenUsed
    BY DEF SyncInv, RunOK, TypeOK, LockOK, InUse, Initialises, ReadyWhenUsed
  <1> QED
    BY <1>1, LocksConsistent, PTL

(* For any threads and openings, pmemobj_mutex_lock() and                  *)
(* pmemobj_rwlock_wrlock() exclude, through lazy initialisation, crashes   *)
(* and failures.                                                           *)
THEOREM AlwaysExclusive == RuntimeSpec => []Exclusive
  <1>1. SyncInv => Exclusive
    BY DEF SyncInv
  <1> QED
    BY <1>1, LocksConsistent, PTL

(* lane_hold() gives a lane to one thread at a time and lane_release()     *)
(* loses none, for any number of threads and lanes, any nesting and        *)
(* however often the pool is reopened.                                     *)
THEOREM LanesExclusive == RuntimeSpec => []LaneExclusive
  <1>1. LaneInv => LaneExclusive
    BY DEF LaneInv, LaneExclusive
  <1> QED
    BY <1>1, LocksConsistent, PTL

(* The inductive invariants of the openings hold in every state.           *)
THEOREM OpeningsConsistent == RuntimeSpec => [](SdsInv /\ LayoutInv)
  <1>1. RuntimeInit => SdsInv /\ LayoutInv
    BY PartsInit, SdsInit, LayoutInit
  <1>2. SdsInv /\ LayoutInv /\ [RuntimeNext]_all => (SdsInv /\ LayoutInv)'
    BY PartsNext, SdsNext, LayoutNext
  <1> QED
    BY <1>1, <1>2, PTL DEF RuntimeSpec

(* Whatever power losses, kills and unsafe shutdowns come between the      *)
(* stores of shutdown_state.c and of set.c: a pool that lost data of its   *)
(* last user in an unsafe shutdown is not opened.                          *)
THEOREM LossAlwaysReported == RuntimeSpec => []LossReported
  <1>1. SdsInv => LossReported
    BY Zenon DEF SdsInv, LossOK, LossReported, Sds!LossReported
  <1> QED
    BY <1>1, OpeningsConsistent, PTL

(* shutdown_state_check() refuses a pool only after an unsafe shutdown     *)
(* while it was open.                                                      *)
THEOREM NeverFalseAlarm == RuntimeSpec => []NoFalseAlarm
  <1>1. SdsInv => NoFalseAlarm
    BY StateTypes DEF SdsInv, SdsTypes, SumsOK, SumOK, NoFalseAlarm, Sds!NoFalseAlarm, Sds!Refused
  <1> QED
    BY <1>1, OpeningsConsistent, PTL

(* For any pools, arenas and threads: when read_layout() takes what is on  *)
(* the media for a layout, every flog it loads was written for this pool.  *)
THEOREM FlogsOwn == RuntimeSpec => []LoadedFlogsOwn
  <1>1. LayoutInv => LoadedFlogsOwn
    BY Zenon DEF LayoutInv, LayoutTypes, PoolOK, LoadedFlogsOwn, Layout!LoadedFlogsOwn
  <1> QED
    BY <1>1, OpeningsConsistent, PTL

(* For any pools, arenas and threads: no first writer lays a pool out over *)
(* data (write_layout()), unless a namespace write has failed.             *)
THEOREM LaidOutOnce == RuntimeSpec => []LayoutOnce
  <1>1. LayoutInv => LayoutOnce
    BY DEF LayoutInv, LayoutTypes, WriterOK, WrittenOK, LayoutOnce, Layout!LayoutOnce, LayingOut
  <1> QED
    BY <1>1, OpeningsConsistent, PTL
=============================================================================
