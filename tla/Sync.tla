-------------------------------- MODULE Sync --------------------------------
(***************************************************************************)
(* Locks that live in a pool (libpmemobj/sync.c): one PMEMrwlock, or with  *)
(* the mode "w" alone one PMEMmutex, used by the threads of a program over *)
(* several openings of the pool.  A lock carries the run id of the opening *)
(* that initialised it; the pool's run id changes with every opening       *)
(* (obj_runtime_init() in obj.c), and the first to use a lock of another   *)
(* run id initialises it.  The run id of a lock is not flushed.            *)
(***************************************************************************)
EXTENDS Integers

CONSTANTS
    Caller,
    Mode,           \* a subset of {"r", "w"}
    RunIds,         \* number of run ids, 2^64: they wrap, leaving out 0
    FirstRun,       \* run ids the pool may have from earlier openings
    MaxOpenings,    \* bound on openings
    MaxFail         \* bound on failures of os_mutex_init(), os_rwlock_init()

VARIABLES
    pop,            \* "open" or "closed"
    run_id,         \* pop->run_id
    runid,          \* the lock's run id
    media,          \* run ids that a crash may leave in the lock
    value,          \* "init" once initialised in this opening, else "stale"
    owners,         \* the threads that the lock counts as its holders
    pc, op, mode, tmp,
    holds,          \* the threads whose call to lock has returned 0
    opens, fails

vars == <<pop, run_id, runid, media, value, owners, pc, op, mode, tmp, holds, opens, fails>>
pool == <<pop, run_id, opens>>
lock == <<runid, media, value, owners>>
locals == <<pc, op, mode, tmp, holds>>

(* Run ids are even, and a pool is opened less often than would bring one  *)
(* back that a lock may still have.                                        *)
ASSUME RunIdAssumption ==
    /\ RunIds \in Nat /\ MaxOpenings \in Nat /\ MaxFail \in Nat
    /\ FirstRun \subseteq 0 .. RunIds - 2
    /\ \A n \in FirstRun \cup {RunIds} : \E k \in 0 .. n : n = 2 * k
    /\ \A n \in FirstRun : n + 2 * MaxOpenings < RunIds \/ 2 * MaxOpenings < n - 1
ASSUME ModeAssumption == Mode \subseteq {"r", "w"}

Goto(t, l) == pc' = [pc EXCEPT ![t] = l]
SetRunid(v) == runid' = v /\ media' = media \cup {v}

Init ==
    /\ pop = "closed" /\ run_id \in FirstRun
    /\ runid \in {0, run_id, run_id - 1} \cap Nat /\ media = {runid}
    /\ value = "stale" /\ owners = {}
    /\ pc = [t \in Caller |-> "idle"] /\ op = [t \in Caller |-> "lock"]
    /\ mode = [t \in Caller |-> "w"] /\ tmp = [t \in Caller |-> 0]
    /\ holds = {} /\ opens = 0 /\ fails = 0

(* obj_runtime_init() *)
NextRun(n) == IF n + 2 = RunIds THEN 2 ELSE n + 2
Open ==
    /\ pop = "closed" /\ opens < MaxOpenings
    /\ pop' = "open" /\ opens' = opens + 1
    /\ run_id' = NextRun(run_id)
    /\ UNCHANGED <<lock, locals, fails>>

(* The process ends, or the pool is closed by the last of its users.  The  *)
(* new process finds in the lock what the old one left.                    *)
Stop(v) ==
    /\ pop' = "closed"
    /\ runid' = v /\ media' = {v}
    /\ value' = "stale" /\ owners' = {} /\ holds' = {}
    /\ pc' = [t \in Caller |-> "idle"] /\ op' = [t \in Caller |-> "lock"]
    /\ mode' = [t \in Caller |-> "w"] /\ tmp' = [t \in Caller |-> 0]
    /\ UNCHANGED <<run_id, opens, fails>>
Close == pop = "open" /\ (\A t \in Caller : pc[t] = "idle") /\ Stop(runid)
Crash == pop = "open" /\ \E v \in media : Stop(v)

(* pmemobj_mutex_zero(), pmemobj_rwlock_zero(): not MT safe, so nobody     *)
(* uses the lock.                                                          *)
Zero ==
    /\ pop = "open" /\ holds = {} /\ \A t \in Caller : pc[t] = "idle"
    /\ runid' = 0 /\ media' = {0} /\ value' = "stale"
    /\ UNCHANGED <<pool, owners, locals, fails>>

(* The entry of every call on the lock; a thread unlocks what it holds. *)
Call(t, o, m) ==
    /\ pop = "open" /\ pc[t] = "idle"
    /\ (o = "unlock") <=> (t \in holds)
    /\ o = "unlock" => m = mode[t]
    /\ op' = [op EXCEPT ![t] = o] /\ mode' = [mode EXCEPT ![t] = m]
    /\ Goto(t, "get")
    /\ UNCHANGED <<pool, lock, tmp, holds, fails>>

(* Mutant: the mark of an initialiser counts as initialised. *)
GetTakesMark(t) ==
    /\ pc[t] = "get"
    /\ tmp' = [tmp EXCEPT ![t] = runid]
    /\ Goto(t, IF runid \in {run_id, run_id - 1} THEN "use" ELSE "cas")
    /\ UNCHANGED <<pool, lock, op, mode, holds, fails>>

(* get_mutex(), get_rwlock() and _get_value() *)
Get(t) ==
    /\ pc[t] = "get"
    /\ tmp' = [tmp EXCEPT ![t] = runid]
    /\ Goto(t, CASE runid = run_id -> "use" [] runid = run_id - 1 -> "get" [] OTHER -> "cas")
    /\ UNCHANGED <<pool, lock, op, mode, holds, fails>>

(* Mutant: a store in place of the compare-and-swap. *)
CasStores(t) ==
    /\ pc[t] = "cas"
    /\ SetRunid(run_id - 1) /\ Goto(t, "init")
    /\ UNCHANGED <<pool, value, owners, op, mode, tmp, holds, fails>>

Cas(t) ==
    /\ pc[t] = "cas"
    /\ IF runid = tmp[t] THEN SetRunid(run_id - 1) /\ Goto(t, "init")
                         ELSE UNCHANGED <<runid, media>> /\ Goto(t, "get")
    /\ UNCHANGED <<pool, value, owners, op, mode, tmp, holds, fails>>

InitValue(t) ==
    /\ pc[t] = "init"
    /\ value' = "init" /\ owners' = {}
    /\ Goto(t, "set")
    /\ UNCHANGED <<pool, runid, media, op, mode, tmp, holds, fails>>

(* Mutant: the mark is left behind. *)
InitFailsKeepsMark(t) ==
    /\ pc[t] = "init" /\ fails < MaxFail
    /\ fails' = fails + 1
    /\ Goto(t, "idle")
    /\ UNCHANGED <<pool, lock, op, mode, tmp, holds>>

InitFails(t) ==
    /\ pc[t] = "init" /\ fails < MaxFail
    /\ SetRunid(0) /\ fails' = fails + 1
    /\ Goto(t, "idle")
    /\ UNCHANGED <<pool, value, owners, op, mode, tmp, holds>>

SetDone(t) ==
    /\ pc[t] = "set"
    /\ IF runid = run_id - 1 THEN SetRunid(run_id) /\ Goto(t, "get")
                                   ELSE UNCHANGED <<runid, media>> /\ Goto(t, "idle")
    /\ UNCHANGED <<pool, value, owners, op, mode, tmp, holds, fails>>

(* os_mutex_lock(), os_rwlock_rdlock() and the others, on the lock as it   *)
(* is.                                                                     *)
Grants(t) == owners = {} \/ (mode[t] = "r" /\ \A u \in owners : mode[u] = "r")
OsLock(t) ==
    /\ pc[t] = "use" /\ op[t] \in {"lock", "try"} /\ Grants(t)
    /\ owners' = owners \cup {t} /\ holds' = holds \cup {t}
    /\ Goto(t, "idle")
    /\ UNCHANGED <<pool, runid, media, value, op, mode, tmp, fails>>

(* trylock finds the lock taken, timedlock runs out of time. *)
OsBusy(t) ==
    /\ pc[t] = "use" /\ op[t] = "try" /\ ~Grants(t)
    /\ Goto(t, "idle")
    /\ UNCHANGED <<pool, lock, op, mode, tmp, holds, fails>>

OsUnlock(t) ==
    /\ pc[t] = "use" /\ op[t] = "unlock"
    /\ owners' = owners \ {t} /\ holds' = holds \ {t}
    /\ Goto(t, "idle")
    /\ UNCHANGED <<pool, runid, media, value, op, mode, tmp, fails>>

GetStep(t) == Get(t) \/ Cas(t) \/ InitValue(t) \/ InitFails(t) \/ SetDone(t)
Next ==
    \/ Open \/ Close \/ Crash \/ Zero
    \/ \E t \in Caller :
        \/ \E o \in {"lock", "try", "unlock"}, m \in Mode : Call(t, o, m)
        \/ GetStep(t) \/ OsLock(t) \/ OsBusy(t) \/ OsUnlock(t)

Spec == Init /\ [][Next]_vars
(* A thread of the program that runs goes on running. *)
FairSpec == Spec /\ \A t \in Caller : WF_vars(GetStep(t))

-----------------------------------------------------------------------------
(* The lock, the pool's run id and the locals of _get_value() have their   *)
(* types, and the media may hold the run id that the lock has now.         *)
TypeOK ==
    /\ pop \in {"open", "closed"} /\ value \in {"stale", "init"}
    /\ run_id \in Int /\ runid \in Int /\ (\A v \in media : v \in Int) /\ runid \in media
    /\ owners \subseteq Caller /\ holds \subseteq Caller
    /\ pc \in [Caller -> {"idle", "get", "cas", "init", "set", "use"}]
    /\ op \in [Caller -> {"lock", "try", "unlock"}]
    /\ mode \in [Caller -> {"r", "w"}] /\ tmp \in [Caller -> Int]
    /\ opens \in Int /\ fails \in Int

(* Whoever gets as far as the lock itself, and whoever holds it, finds it  *)
(* initialised by this opening of the pool, and nobody is about to         *)
(* initialise it again under them.                                         *)
ReadyWhenUsed ==
    (holds # {} \/ \E t \in Caller : pc[t] = "use")
        => value = "init" /\ \A t \in Caller : pc[t] \notin {"init", "set"}

(* Locks exclude each other as the calls promise, whatever a crash, a      *)
(* failed initialisation or a race of first users did to the lock before.  *)
Exclusive == \A t, u \in holds : mode[t] = "w" => t = u

(* A call on a lock gets past its initialisation, or returns an error:     *)
(* nobody spins for ever on the mark of an initialiser that failed, or of  *)
(* one that a crash has ended.                                             *)
GetReturns == \A t \in Caller : (pc[t] = "get") ~> (pc[t] \in {"use", "idle"})
=============================================================================
