----------------------------- MODULE BTTLayout -----------------------------
(***************************************************************************)
(* The layout of a BTT namespace: when it is written, and what a pool      *)
(* finds when it is opened again (libpmemblk/btt.c, libpmemblk/blk.c).     *)
(*                                                                         *)
(* A pool is created without a layout; the first write or set_error puts   *)
(* it on the media, arena after arena, in the order map, flog, info block, *)
(* backup info block.  Each namespace write is durable before the next one *)
(* starts.  An info block is longer than one store, so it is first torn    *)
(* and then whole.  Several pools of one process share the callback record *)
(* ns_cb and the flag in it.                                               *)
(***************************************************************************)
EXTENDS Integers, FiniteSets

CONSTANTS Pool, Thread,
          NArena,      \* arenas in every pool
          MaxCreate,   \* how often a pool is created on the same media
          MaxCrash,    \* how often the power fails
          MaxFail      \* how many namespace writes fail

VARIABLES
    uuid,     \* poolset_uuid of the pool now on the media, 0 for none
    zeroed,   \* is_zeroed in the pool descriptor
    stale,    \* arenas whose map holds entries this pool did not write
    flogged,  \* uuid of the pool that wrote the initial flog of an arena
    info,     \* parent_uuid of the info block of an arena; 0 if not valid
    written,  \* a block of the pool has been written
    isZeroed, \* ns_cb.ns_is_zeroed
    open, laidout, mutex,
    pc, at, arena,
    crashes, fails

media == <<uuid, zeroed, stale, flogged, info, written>>
runtime == <<isZeroed, open, laidout, mutex>>
threads == <<pc, at, arena>>
vars == <<media, runtime, threads, crashes, fails>>

Arena == 1..NArena
NoOne == "no one"

Init ==
    /\ uuid = [p \in Pool |-> 0]
    /\ zeroed = [p \in Pool |-> FALSE]
    /\ stale = [p \in Pool |-> Arena]
    /\ flogged = [p \in Pool |-> [a \in Arena |-> 0]]
    /\ info = [p \in Pool |-> [a \in Arena |-> 0]]
    /\ written = [p \in Pool |-> FALSE]
    /\ isZeroed = FALSE
    /\ open = [p \in Pool |-> FALSE]
    /\ laidout = [p \in Pool |-> FALSE]
    /\ mutex = [p \in Pool |-> NoOne]
    /\ pc = [t \in Thread |-> "idle"]
    /\ at \in [Thread -> Pool]
    /\ arena = [t \in Thread |-> 1]
    /\ crashes = 0 /\ fails = 0

(* A mutant of ValidInfo: the parent uuid is not compared. *)
ValidInfoAnyParent(i, u) == i # 0

(* read_info(): the info block of another pool, or a torn one, is no info. *)
ValidInfo(i, u) == i = u

(* read_layout(): a pool has a layout when every arena has an info block.  *)
FindsLayout(infos, u) == \A a \in Arena : ValidInfo(infos[a], u)

(* blk_runtime_init() sets the shared flag; btt_init() looks for a layout. *)
RuntimeInit(p) ==
    /\ open' = [open EXCEPT ![p] = TRUE]
    /\ isZeroed' = zeroed'[p]
    /\ laidout' = [laidout EXCEPT ![p] = FindsLayout(info'[p], uuid'[p])]

(* pmemblk_create() on a new, zero-filled file (set->zeroed). *)
CreateZeroed(p) ==
    /\ ~open[p] /\ uuid[p] < MaxCreate
    /\ uuid' = [uuid EXCEPT ![p] = @ + 1]
    /\ zeroed' = [zeroed EXCEPT ![p] = TRUE]
    /\ stale' = [stale EXCEPT ![p] = {}]
    /\ flogged' = [flogged EXCEPT ![p] = [a \in Arena |-> 0]]
    /\ info' = [info EXCEPT ![p] = [a \in Arena |-> 0]]
    /\ written' = [written EXCEPT ![p] = FALSE]
    /\ RuntimeInit(p)
    /\ UNCHANGED <<mutex, threads, crashes, fails>>

(* pmemblk_create() on an existing file or device: what was there stays. *)
CreateOver(p) ==
    /\ ~open[p] /\ uuid[p] < MaxCreate
    /\ uuid' = [uuid EXCEPT ![p] = @ + 1]
    /\ zeroed' = [zeroed EXCEPT ![p] = FALSE]
    /\ stale' = [stale EXCEPT ![p] = Arena]
    /\ written' = [written EXCEPT ![p] = FALSE]
    /\ UNCHANGED <<flogged, info>>
    /\ RuntimeInit(p)
    /\ UNCHANGED <<mutex, threads, crashes, fails>>

(* pmemblk_open(). *)
Open(p) ==
    /\ ~open[p] /\ uuid[p] > 0
    /\ UNCHANGED media
    /\ RuntimeInit(p)
    /\ UNCHANGED <<mutex, threads, crashes, fails>>

(* pmemblk_close(), with no call under way. *)
Close(p) ==
    /\ open[p]
    /\ \A t \in Thread : at[t] = p => pc[t] = "idle"
    /\ open' = [open EXCEPT ![p] = FALSE]
    /\ laidout' = [laidout EXCEPT ![p] = FALSE]
    /\ UNCHANGED <<media, isZeroed, mutex, threads, crashes, fails>>

Goto(t, l) == pc' = [pc EXCEPT ![t] = l]
Here(t, l) == pc[t] = l

(* btt_write() or set_error enters and looks at laidout without the lock.  *)
Enter(t, p) ==
    /\ Here(t, "idle") /\ open[p]
    /\ at' = [at EXCEPT ![t] = p]
    /\ Goto(t, IF laidout[p] THEN "write" ELSE "lock")
    /\ UNCHANGED <<media, runtime, arena, crashes, fails>>

(* A mutant of LayoutLock: laidout is not looked at again. *)
LayoutLockOnce(t) ==
    /\ Here(t, "lock") /\ mutex[at[t]] = NoOne
    /\ mutex' = [mutex EXCEPT ![at[t]] = t]
    /\ arena' = [arena EXCEPT ![t] = 1]
    /\ Goto(t, "map")
    /\ UNCHANGED <<media, isZeroed, open, laidout, at, crashes, fails>>

(* It looks again once it has layout_write_mutex. *)
LayoutLock(t) ==
    /\ Here(t, "lock") /\ mutex[at[t]] = NoOne
    /\ mutex' = [mutex EXCEPT ![at[t]] = t]
    /\ arena' = [arena EXCEPT ![t] = 1]
    /\ Goto(t, IF laidout[at[t]] THEN "unlock" ELSE "map")
    /\ UNCHANGED <<media, isZeroed, open, laidout, at, crashes, fails>>

(* write_layout(): the map is zeroed unless the namespace is said to be.   *)
(* The offset given to nszero() is that of the map in its arena, without   *)
(* the offset of the arena: only the first arena is ever touched.          *)
ZeroMap(t) ==
    /\ Here(t, "map")
    /\ stale' = IF isZeroed THEN stale ELSE [stale EXCEPT ![at[t]] = @ \ {1}]
    /\ Goto(t, "flog")
    /\ UNCHANGED <<uuid, zeroed, flogged, info, written, runtime, at, arena,
                   crashes, fails>>

WriteFlog(t) ==
    /\ Here(t, "flog")
    /\ flogged' = [flogged EXCEPT ![at[t]][arena[t]] = uuid[at[t]]]
    /\ Goto(t, "info")
    /\ UNCHANGED <<uuid, zeroed, stale, info, written, runtime, at, arena,
                   crashes, fails>>

(* The info block is being stored. *)
BeginInfo(t) ==
    /\ Here(t, "info")
    /\ info' = [info EXCEPT ![at[t]][arena[t]] = 0]
    /\ Goto(t, "infoend")
    /\ UNCHANGED <<uuid, zeroed, stale, flogged, written, runtime, at, arena,
                   crashes, fails>>

(* The info block is whole; then the backup, which nothing in btt.c reads, *)
(* and the next arena, or read_arenas() after the last.                    *)
EndInfo(t) ==
    /\ Here(t, "infoend")
    /\ info' = [info EXCEPT ![at[t]][arena[t]] = uuid[at[t]]]
    /\ IF arena[t] < NArena
         THEN /\ arena' = [arena EXCEPT ![t] = @ + 1]
              /\ Goto(t, "map")
              /\ UNCHANGED laidout
         ELSE /\ laidout' = [laidout EXCEPT ![at[t]] = TRUE]
              /\ Goto(t, "unlock")
              /\ UNCHANGED arena
    /\ UNCHANGED <<uuid, zeroed, stale, flogged, written, isZeroed, open,
                   mutex, at, crashes, fails>>

(* write_layout() fails: the error is returned and laidout stays 0. *)
LayoutFail(t) ==
    /\ pc[t] \in {"map", "flog", "infoend"} /\ fails < MaxFail
    /\ fails' = fails + 1
    /\ mutex' = [mutex EXCEPT ![at[t]] = NoOne]
    /\ Goto(t, "idle")
    /\ UNCHANGED <<media, isZeroed, open, laidout, at, arena, crashes>>

LayoutUnlock(t) ==
    /\ Here(t, "unlock")
    /\ mutex' = [mutex EXCEPT ![at[t]] = NoOne]
    /\ Goto(t, "write")
    /\ UNCHANGED <<media, isZeroed, open, laidout, at, arena, crashes, fails>>

(* The write proper (module BTT) succeeds. *)
WriteBlock(t) ==
    /\ Here(t, "write")
    /\ written' = [written EXCEPT ![at[t]] = TRUE]
    /\ Goto(t, "idle")
    /\ UNCHANGED <<uuid, zeroed, stale, flogged, info, runtime, at, arena,
                   crashes, fails>>

(* The map write of some block of arena a fails after its flog was         *)
(* updated; arena_setf() rewrites the info block to flag the error.        *)
WriteFail(t, a) ==
    /\ Here(t, "write") /\ fails < MaxFail
    /\ fails' = fails + 1
    /\ arena' = [arena EXCEPT ![t] = a]
    /\ info' = [info EXCEPT ![at[t]][a] = 0]
    /\ Goto(t, "flag")
    /\ UNCHANGED <<uuid, zeroed, stale, flogged, written, runtime, at, crashes>>

FlagArena(t) ==
    /\ Here(t, "flag")
    /\ info' = [info EXCEPT ![at[t]][arena[t]] = uuid[at[t]]]
    /\ Goto(t, "idle")
    /\ UNCHANGED <<uuid, zeroed, stale, flogged, written, runtime, at, arena,
                   crashes, fails>>

(* Power failure: the media keeps what each finished step put there. *)
Crash ==
    /\ crashes < MaxCrash
    /\ crashes' = crashes + 1
    /\ isZeroed' = FALSE
    /\ open' = [p \in Pool |-> FALSE]
    /\ laidout' = [p \in Pool |-> FALSE]
    /\ mutex' = [p \in Pool |-> NoOne]
    /\ pc' = [t \in Thread |-> "idle"]
    /\ arena' = [t \in Thread |-> 1]
    /\ UNCHANGED <<media, at, fails>>

Step(t) ==
    \/ LayoutLock(t) \/ ZeroMap(t) \/ WriteFlog(t) \/ BeginInfo(t)
    \/ EndInfo(t) \/ LayoutFail(t) \/ LayoutUnlock(t) \/ WriteBlock(t)
    \/ \E a \in Arena : WriteFail(t, a)
    \/ FlagArena(t)

Next ==
    \/ \E p \in Pool : CreateZeroed(p) \/ CreateOver(p) \/ Open(p) \/ Close(p)
    \/ \E t \in Thread, p \in Pool : Enter(t, p)
    \/ \E t \in Thread : Step(t)
    \/ Crash

Spec == Init /\ [][Next]_vars

-----------------------------------------------------------------------------
(* Whatever was on the media before, and wherever an earlier layout was    *)
(* cut short, a pool in use works on flogs it initialised itself:          *)
(* read_layout() and read_arenas() never load the flog of another pool or  *)
(* of a layout that was not finished.                                      *)
LoadedFlogsOwn ==
    \A p \in Pool : laidout[p] => \A a \in Arena : flogged[p][a] = uuid[p]

(* The first writer alone lays the pool out, with its map cleared: in a    *)
(* pool in use every map entry is initial or was written by this pool, so  *)
(* a block never written reads as zeros.                                   *)
MapsCleared ==
    \A p \in Pool : laidout[p] => stale[p] = {}

(* write_layout() writes once in the life of a pool: while no namespace    *)
(* write has failed it never runs, not after a lost race for the lock, nor *)
(* after any crash and reopening, in a pool that has a block written.      *)
LayoutOnce ==
    fails = 0 =>
        \A t \in Thread :
            pc[t] \in {"map", "flog", "info", "infoend"} => ~written[at[t]]

=============================================================================
