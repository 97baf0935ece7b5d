------------------------------ MODULE RedoLog ------------------------------
(***************************************************************************)
(* An operation context (libpmemobj/memops.c) and its persistent redo log  *)
(* (libpmemobj/redo.c): several 64-bit words of a pool are changed as one. *)
(*                                                                         *)
(* A word is the set of its bits that are 1.  mem is what CPUs read; media *)
(* gives for each word the values the media may hold now.  A flush without *)
(* a drain leaves both the old and the new value possible, unless the CPU  *)
(* orders its flushes (CLFLUSH, not CLFLUSHOPT or CLWB).  The base part of *)
(* the log is guarded by a checksum: a torn log is no log.                 *)
(***************************************************************************)
EXTENDS Integers, Sequences, SequencesExt

CONSTANTS Word, Bit,
          BaseCap,      \* redo_base_capacity
          ExtCap,       \* capacity of one extension of the log
          MergeSearch,  \* OP_MERGE_SEARCH
          FlushOrdered, \* flushes reach the media in program order
          MaxEntries, MaxOps, MaxCrash

VARIABLES
    mem, media,  \* the words of the pool
    scratch,     \* the values transient entries may have put on the media
    log, ext,    \* what base log and extensions may hold on the media
    capacity,    \* total capacity of the log with its extensions
    shadow,      \* pshadow_ops
    transient,   \* transient_ops has entries
    todo,        \* entries still to be applied
    pc,
    before, goal, \* the words before the operation, and as it wants them
    ops, crashes

vars == <<mem, media, scratch, log, ext, capacity, shadow, transient, todo,
          pc, before, goal, ops, crashes>>

Value == SUBSET Bit
Entry == [word : Word, type : {"set", "and", "or"}, value : Value]
NoLog == [n |-> 0, first |-> <<>>]

Init ==
    /\ mem \in [Word -> Value]
    /\ media = [w \in Word |-> {mem[w]}]
    /\ scratch = {"old"}
    /\ log = {NoLog} /\ ext = {<<>>} /\ capacity = BaseCap
    /\ shadow = <<>> /\ transient = FALSE /\ todo = <<>>
    /\ pc = "idle"
    /\ before = mem /\ goal = mem
    /\ ops = 0 /\ crashes = 0

-----------------------------------------------------------------------------
(* Entries *)

(* operation_apply() and redo_log_entry_apply() compute with the operator  *)
(* of the entry.                                                           *)
Operate(type, v, x) ==
    CASE type = "set" -> x
      [] type = "and" -> v \cap x
      [] type = "or"  -> v \cup x

(* redo_log_entry_apply() on the words m. *)
ApplyEntry(m, e) == [m EXCEPT ![e.word] = Operate(e.type, @, e.value)]
ApplyAll(m, es) == FoldLeft(ApplyEntry, m, es)

(* The latest of the last MergeSearch entries that is for the same word,   *)
(* or 0.                                                                   *)
LastFor(es, e) ==
    LET near == {i \in 1..Len(es) : i > Len(es) - MergeSearch
                                    /\ es[i].word = e.word}
    IN  IF near = {} THEN 0 ELSE CHOOSE i \in near : \A j \in near : j <= i

(* operation_apply(): a second SET of a word changes nothing. *)
Merge(old, e) ==
    IF e.type = "set" THEN old
    ELSE [old EXCEPT !.value = Operate(e.type, @, e.value)]

(* operation_add_typed_entry() *)
AddTo(es, e) ==
    LET i == LastFor(es, e)
    IN  IF i # 0 /\ es[i].type = e.type
          THEN [es EXCEPT ![i] = Merge(@, e)]
          ELSE Append(es, e)

-----------------------------------------------------------------------------
(* Collecting *)

(* operation_start() *)
Start ==
    /\ pc = "idle" /\ ops < MaxOps
    /\ ops' = ops + 1
    /\ pc' = "collect"
    /\ shadow' = <<>> /\ transient' = FALSE
    /\ before' = mem /\ goal' = mem
    /\ scratch' = {"old"}
    /\ UNCHANGED <<mem, media, log, ext, capacity, todo, crashes>>

(* operation_add_entry() for a word of the pool.  The goal is what its     *)
(* callers mean: the changes in the order they were asked for, of which a  *)
(* SET that directly repeats a SET of the same word is none.               *)
AddEntry(e) ==
    /\ pc = "collect" /\ Len(shadow) < MaxEntries
    /\ shadow' = AddTo(shadow, e)
    /\ goal' = LET i == LastFor(shadow, e)
               IN  IF e.type = "set" /\ i # 0 /\ shadow[i].type = "set"
                   THEN goal ELSE ApplyEntry(goal, e)
    /\ UNCHANGED <<mem, media, scratch, log, ext, capacity, transient, todo,
                   pc, before, ops, crashes>>

(* operation_add_entry() for a transient location. *)
AddTransient ==
    /\ pc = "collect" /\ ~transient
    /\ transient' = TRUE
    /\ UNCHANGED <<mem, media, scratch, log, ext, capacity, shadow, todo, pc,
                   before, goal, ops, crashes>>

(* operation_reserve(): extensions are allocated atomically (pmalloc). *)
Reserve ==
    /\ pc = "collect" /\ Len(shadow) > capacity
    /\ capacity' = capacity + ExtCap
    /\ UNCHANGED <<mem, media, scratch, log, ext, shadow, transient, todo, pc,
                   before, goal, ops, crashes>>

(* operation_cancel() *)
Cancel ==
    /\ pc = "collect"
    /\ pc' = "idle" /\ goal' = before
    /\ UNCHANGED <<mem, media, scratch, log, ext, capacity, shadow, transient,
                   todo, before, ops, crashes>>

-----------------------------------------------------------------------------
(* operation_process() *)

(* A drain makes every flushed store durable. *)
Drained == media' = [w \in Word |-> {mem[w]}]

(* A mutant of ProcessOne: the word is flushed and not drained. *)
ProcessOneNoDrain ==
    /\ pc = "collect" /\ Len(shadow) = 1
    /\ mem' = ApplyEntry(mem, shadow[1])
    /\ media' = [w \in Word |-> media[w] \cup {mem'[w]}]
    /\ pc' = "transient"
    /\ UNCHANGED <<scratch, log, ext, capacity, shadow, transient, todo,
                   before, goal, ops, crashes>>

(* One entry needs no log: an 8-byte store, flushed and drained. *)
ProcessOne ==
    /\ pc = "collect" /\ Len(shadow) = 1
    /\ mem' = ApplyEntry(mem, shadow[1])
    /\ media' = [w \in Word |-> {mem'[w]}]
    /\ pc' = "transient"
    /\ UNCHANGED <<scratch, log, ext, capacity, shadow, transient, todo,
                   before, goal, ops, crashes>>

ProcessNone ==
    /\ pc = "collect" /\ shadow = <<>>
    /\ pc' = "transient"
    /\ UNCHANGED <<mem, media, scratch, log, ext, capacity, shadow, transient,
                   todo, before, goal, ops, crashes>>

Beyond == SubSeq(shadow, BaseCap + 1, Len(shadow))
Stored == [n |-> Len(shadow),
           first |-> SubSeq(shadow, 1, IF Len(shadow) < BaseCap
                                       THEN Len(shadow) ELSE BaseCap)]

(* A mutant of StoreNext: the transient entries are applied first. *)
StoreNextTransientFirst ==
    /\ pc = "collect" /\ Len(shadow) > 1 /\ Len(shadow) <= capacity
    /\ IF Len(shadow) > BaseCap
         THEN ext' = ext \cup {<<>>, Beyond}
         ELSE UNCHANGED ext
    /\ scratch' = IF transient THEN scratch \cup {"new"} ELSE scratch
    /\ pc' = "store"
    /\ UNCHANGED <<mem, media, log, capacity, shadow, transient,
                   todo, before, goal, ops, crashes>>

(* redo_log_store(): entries beyond the base go to the extensions, *)
StoreNext ==
    /\ pc = "collect" /\ Len(shadow) > 1 /\ Len(shadow) <= capacity
    /\ IF Len(shadow) > BaseCap
         THEN ext' = ext \cup {<<>>, Beyond}
         ELSE UNCHANGED ext
    /\ pc' = "store"
    /\ UNCHANGED <<mem, media, scratch, log, capacity, shadow, transient,
                   todo, before, goal, ops, crashes>>

(* A mutant of StoreBase: the extensions are not drained. *)
StoreBaseNoDrain ==
    /\ pc = "store"
    /\ log' = log \cup {NoLog, Stored}
    /\ pc' = "stored"
    /\ UNCHANGED <<mem, media, scratch, ext, capacity, shadow, transient, todo,
                   before, goal, ops, crashes>>

(* are drained, and only then the base is stored with its checksum; *)
StoreBase ==
    /\ pc = "store"
    /\ IF Len(shadow) > BaseCap THEN ext' = {Beyond} ELSE UNCHANGED ext
    /\ log' = log \cup {NoLog, Stored}
    /\ pc' = "stored"
    /\ UNCHANGED <<mem, media, scratch, capacity, shadow, transient, todo,
                   before, goal, ops, crashes>>

(* its drain is the point of no return. *)
StoreDrain ==
    /\ pc = "stored"
    /\ log' = {Stored}
    /\ todo' = shadow
    /\ pc' = "apply"
    /\ Drained
    /\ UNCHANGED <<mem, scratch, ext, capacity, shadow, transient, before,
                   goal, ops, crashes>>

(* redo_log_process(): the next entry is applied and flushed. *)
Apply ==
    /\ pc \in {"apply", "recover"} /\ todo # <<>>
    /\ mem' = ApplyEntry(mem, Head(todo))
    /\ media' = [w \in Word |-> IF FlushOrdered THEN {mem'[w]}
                                ELSE media[w] \cup {mem'[w]}]
    /\ todo' = Tail(todo)
    /\ UNCHANGED <<scratch, log, ext, capacity, shadow, transient, pc, before,
                   goal, ops, crashes>>

(* redo_log_clobber(): the header is overwritten *)
Clobber ==
    /\ pc \in {"apply", "recover"} /\ todo = <<>>
    /\ log' = log \cup {NoLog}
    /\ pc' = IF pc = "apply" THEN "clobber" ELSE "reclobber"
    /\ UNCHANGED <<mem, media, scratch, ext, capacity, shadow, transient,
                   todo, before, goal, ops, crashes>>

(* and drained. *)
ClobberDrain ==
    /\ pc \in {"clobber", "reclobber"}
    /\ log' = {NoLog}
    /\ pc' = IF pc = "clobber" THEN "transient" ELSE "idle"
    /\ Drained
    /\ UNCHANGED <<mem, scratch, ext, capacity, shadow, transient, todo,
                   before, goal, ops, crashes>>

(* The transient entries come last and are not flushed. *)
ProcessTransient ==
    /\ pc = "transient"
    /\ scratch' = IF transient THEN scratch \cup {"new"} ELSE scratch
    /\ pc' = "idle"
    /\ UNCHANGED <<mem, media, log, ext, capacity, shadow, transient, todo,
                   before, goal, ops, crashes>>

-----------------------------------------------------------------------------
(* Power failure, and redo_log_recover() when the pool is opened again *)

(* redo_log_foreach_entry(): nentries entries, through the extensions.     *)
(* What an extension that was never stored holds is taken to change        *)
(* nothing.                                                                *)
Entries(l, x) ==
    LET n == l.n - Len(l.first)
    IN  l.first \o SubSeq(x, 1, IF n < Len(x) THEN n ELSE Len(x))

Crash ==
    /\ crashes < MaxCrash
    /\ crashes' = crashes + 1
    /\ \E m \in [Word -> Value], l \in log, x \in ext :
          /\ \A w \in Word : m[w] \in media[w]
          /\ mem' = m /\ media' = [w \in Word |-> {m[w]}]
          /\ log' = {l} /\ ext' = {x}
          /\ todo' = Entries(l, x)
          /\ pc' = IF l.n # 0 THEN "recover" ELSE "idle"
    /\ \E s \in scratch : scratch' = {s}
    /\ shadow' = <<>> /\ transient' = FALSE
    /\ UNCHANGED <<capacity, before, goal, ops>>

Next ==
    \/ Start \/ (\E e \in Entry : AddEntry(e)) \/ AddTransient \/ Reserve
    \/ Cancel \/ ProcessOne \/ ProcessNone
    \/ StoreNext \/ StoreBase \/ StoreDrain \/ Apply \/ Clobber
    \/ ClobberDrain \/ ProcessTransient
    \/ Crash

Spec == Init /\ [][Next]_vars

-----------------------------------------------------------------------------
(* What the pool would hold if the power failed now and recovery ran. *)
Outcomes ==
    {ApplyAll(c[1], Entries(c[2], c[3])) :
        c \in {m \in [Word -> Value] : \A w \in Word : m[w] \in media[w]}
              \X log \X ext}

(* operation_process() makes all modifications or none, however often the  *)
(* power fails, in operation or in recovery: a crash now leaves either the *)
(* words as they were or as all callers of operation_add_entry() together  *)
(* asked.                                                                  *)
AllOrNone == Outcomes \subseteq {before, goal}

(* Nothing operation_process() has finished is lost by a later crash, and  *)
(* nothing cancelled or recovered from comes back: between operations a    *)
(* crash leaves exactly the words the program sees.                        *)
DurableWhenIdle == pc = "idle" => Outcomes = {mem}

(* "The order of processing is important: persistent, transient": as long *)
(* as a crash could still undo the operation, also after                   *)
(* operation_process() has returned, no transient entry has been put over  *)
(* what was valid persistent state.                                        *)
TransientLast ==
    before # goal /\ before \in Outcomes => "new" \notin scratch

=============================================================================
