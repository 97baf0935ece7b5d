------------------------------ MODULE PVector ------------------------------
(***************************************************************************)
(* The persistent vector of libpmemobj (pvector.c) as the undo log of      *)
(* large snapshots uses it (tx.c): one lane, over several transactions and *)
(* restarts.  A vector is a line of arrays, each twice as long as the one  *)
(* before, the first embedded in the lane.  Only the arrays persist; the   *)
(* number of values is counted again by pvector_new().                     *)
(*                                                                         *)
(* pmalloc_construct(), pfree() and the publishing of a transaction's      *)
(* actions go through the allocator's redo log and are atomic here.        *)
(***************************************************************************)
EXTENDS Integers, Sequences, SequencesExt, FiniteSetsExt

CONSTANTS
    Shift,          \* PVECTOR_INIT_SHIFT
    MaxArrays,      \* PVECTOR_MAX_ARRAYS
    Offset,         \* offsets of snapshots: anything but 0
    MaxCommit,      \* bound on the snapshots of a transaction that commits
    MaxPush,        \* bound on values pushed
    MaxCrash        \* bound on restarts

VARIABLES
    arrays,         \* the vector: <<>> where arrays[n] is 0
    nvalues,        \* ctx->nvalues, or NoCtx
    pc,
    recovery,       \* tx_abort()'s argument
    log,            \* the snapshots of the transaction that runs, in order
    pushes, crashes

vars == <<arrays, nvalues, pc, recovery, log, pushes, crashes>>

NoCtx == -1
Idx == 0 .. MaxArrays - 1
ArrSize(n) == 2^(n + Shift)
Missing(n) == arrays[n] = <<>>

(* util_mssb_index64() *)
Mssb(x) == CHOOSE h \in 0 .. x : 2^h <= x /\ x < 2^(h + 1)

(* pvector_get_array_spec() *)
ArraySpec(i) == LET pos == i + 2^Shift
                    hbit == Mssb(pos)
                IN  [idx |-> hbit - Shift, pos |-> pos - 2^hbit]

Get(i) == arrays[ArraySpec(i).idx][ArraySpec(i).pos + 1]
PLast == IF nvalues = 0 THEN 0 ELSE Get(nvalues - 1)

(* pvector_first() and pvector_next(), until one of them returns 0. *)
Visited == LET stop == {i \in 0 .. nvalues - 1 : Get(i) = 0} \cup {nvalues}
           IN  [i \in 1 .. Min(stop) |-> Get(i - 1)]

-----------------------------------------------------------------------------
Init ==
    /\ arrays = [n \in Idx |-> <<>>]
    /\ nvalues = NoCtx /\ pc = "down" /\ recovery = FALSE
    /\ log = <<>> /\ pushes = 0 /\ crashes = 0

Zeroed(n) == [i \in 1 .. ArrSize(n) |-> 0]
Leading(s) == Min({i \in 1 .. Len(s) : s[i] = 0} \cup {Len(s) + 1}) - 1

(* Mutant: an empty last array is kept. *)
KeepsLast(narrays) == FALSE

(* pvector_new(): every array but the last counts as full. *)
NewDropsLast(narrays) ==
    narrays > 1 /\ Leading(arrays[narrays - 1]) = 0
NewCount(narrays) ==
    IF narrays = 0 THEN 0
    ELSE SumSet({ArrSize(n) : n \in 0 .. narrays - 2}) + Leading(arrays[narrays - 1])
New ==
    LET narrays == Min({n \in Idx : Missing(n)} \cup {MaxArrays})
    IN  /\ arrays' = IF NewDropsLast(narrays)
                     THEN [arrays EXCEPT ![narrays - 1] = <<>>] ELSE arrays
        /\ nvalues' = NewCount(narrays)

(* Opening the pool: tx_abort() of the lane, in recovery. *)
Boot ==
    /\ pc = "down"
    /\ New
    /\ pc' = "foreach" /\ recovery' = TRUE
    /\ UNCHANGED <<log, pushes, crashes>>

(* The lane's runtime is created by the first transaction on it. *)
TxBegin ==
    /\ pc = "user" /\ nvalues = NoCtx
    /\ New
    /\ UNCHANGED <<pc, recovery, log, pushes, crashes>>

(* pmemobj_tx_add_large(): pvector_push_back(), then the snapshot is       *)
(* allocated into the entry.                                               *)
PushBack ==
    /\ pc = "user" /\ nvalues # NoCtx /\ pushes < MaxPush
    /\ LET s == ArraySpec(nvalues)
       IN  /\ s.idx \in Idx
           /\ arrays' = IF Missing(s.idx)
                        THEN [arrays EXCEPT ![s.idx] = Zeroed(s.idx)] ELSE arrays
    /\ nvalues' = nvalues + 1 /\ pushes' = pushes + 1
    /\ pc' = "set"
    /\ UNCHANGED <<recovery, log, crashes>>

(* No room for the array, in the vector or in the heap: the transaction    *)
(* aborts.                                                                 *)
PushBackFails ==
    /\ pc = "user" /\ nvalues # NoCtx
    /\ LET s == ArraySpec(nvalues) IN s.idx \in Idx => s.idx # 0 /\ Missing(s.idx)
    /\ pc' = "foreach"
    /\ UNCHANGED <<arrays, nvalues, recovery, log, pushes, crashes>>

SetEntry(x) ==
    /\ pc = "set"
    /\ LET s == ArraySpec(nvalues - 1) IN arrays' = [arrays EXCEPT ![s.idx][s.pos + 1] = x]
    /\ log' = Append(log, x)
    /\ pc' = "user"
    /\ UNCHANGED <<nvalues, recovery, pushes, crashes>>

(* No room for the snapshot: pvector_pop_back() without a callback, and    *)
(* the transaction aborts.  The actions on the entry that                  *)
(* pmemobj_tx_add_large() adds after that are cancelled, never published.  *)
Shrunk(s) == IF s.pos = 0 /\ s.idx # 0 THEN [arrays EXCEPT ![s.idx] = <<>>] ELSE arrays
SetEntryFails ==
    /\ pc = "set"
    /\ arrays' = Shrunk(ArraySpec(nvalues - 1)) /\ nvalues' = nvalues - 1
    /\ pc' = "foreach"
    /\ UNCHANGED <<recovery, log, pushes, crashes>>

(* The redo log of the commit frees the snapshots and zeroes their         *)
(* entries.                                                                *)
Commit ==
    /\ pc = "user" /\ nvalues # NoCtx /\ Len(log) <= MaxCommit
    /\ LET mine == {ArraySpec(i) : i \in nvalues - Len(log) .. nvalues - 1}
       IN  arrays' = [n \in Idx |-> [i \in 1 .. Len(arrays[n]) |->
                         IF [idx |-> n, pos |-> i - 1] \in mine THEN 0 ELSE arrays[n][i]]]
    /\ log' = <<>>
    /\ pc' = "post"
    /\ UNCHANGED <<nvalues, recovery, pushes, crashes>>

(* Mutant: the vector is not resized. *)
PostCommitNoResize ==
    /\ pc = "post"
    /\ pc' = "user"
    /\ UNCHANGED <<arrays, nvalues, recovery, log, pushes, crashes>>

(* tx_post_commit(): pvector_resize() to 0; the arrays stay. *)
PostCommit ==
    /\ pc = "post"
    /\ nvalues' = 0 /\ pc' = "user"
    /\ UNCHANGED <<arrays, recovery, log, pushes, crashes>>

Abort ==
    /\ pc = "user" /\ nvalues # NoCtx
    /\ pc' = "foreach"
    /\ UNCHANGED <<arrays, nvalues, recovery, log, pushes, crashes>>

(* tx_foreach_set() restores the ranges of the Visited snapshots. *)
Foreach ==
    /\ pc = "foreach"
    /\ pc' = "clear"
    /\ UNCHANGED <<arrays, nvalues, recovery, log, pushes, crashes>>

(* tx_clear_undo_log(): the callback of pvector_pop_back() frees the       *)
(* snapshot; the array goes with its first value.                          *)
ClearPop ==
    /\ pc = "clear" /\ PLast # 0
    /\ LET s == ArraySpec(nvalues - 1)
       IN  arrays' = [arrays EXCEPT ![s.idx][s.pos + 1] = 0]
    /\ log' = IF log = <<>> THEN <<>> ELSE Front(log)
    /\ pc' = "shrink"
    /\ UNCHANGED <<nvalues, recovery, pushes, crashes>>

ClearShrink ==
    /\ pc = "shrink"
    /\ arrays' = Shrunk(ArraySpec(nvalues - 1)) /\ nvalues' = nvalues - 1
    /\ pc' = "clear"
    /\ UNCHANGED <<recovery, log, pushes, crashes>>

(* The transaction is rolled back; recovery throws its context away. *)
ClearDone ==
    /\ pc = "clear" /\ PLast = 0
    /\ nvalues' = IF recovery THEN NoCtx ELSE nvalues
    /\ recovery' = FALSE /\ log' = <<>> /\ pc' = "user"
    /\ UNCHANGED <<arrays, pushes, crashes>>

Crash ==
    /\ pc # "down" /\ crashes < MaxCrash
    /\ nvalues' = NoCtx /\ pc' = "down" /\ recovery' = FALSE
    /\ crashes' = crashes + 1
    /\ UNCHANGED <<arrays, log, pushes>>

Next ==
    \/ Boot \/ TxBegin
    \/ PushBack \/ PushBackFails \/ (\E x \in Offset : SetEntry(x)) \/ SetEntryFails
    \/ Commit \/ PostCommit \/ Abort
    \/ Foreach \/ ClearPop \/ ClearShrink \/ ClearDone
    \/ Crash

Spec == Init /\ [][Next]_vars

-----------------------------------------------------------------------------
(* When a transaction is rolled back, by its own thread or by the recovery *)
(* after a crash anywhere in pvector.c, tx_foreach_set() restores the      *)
(* snapshots of that transaction, all of them, and none of a transaction   *)
(* that is over.                                                           *)
RollsBackExactly == pc = "foreach" => Visited = log

(* Between calls, the vector of a lane has the snapshots of the running    *)
(* transaction as its values: pvector_new(), pvector_resize() and the two  *)
(* pops keep count and arrays together.                                    *)
CountsValues == pc = "user" /\ nvalues # NoCtx => nvalues = Len(log) /\ Visited = log
=============================================================================
