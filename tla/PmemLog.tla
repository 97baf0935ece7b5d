------------------------------- MODULE PmemLog -------------------------------
(***************************************************************************)
(* A log memory pool (libpmemlog/log.c) used by several threads.           *)
(*                                                                         *)
(* data is the log space as CPUs see it and media what each byte of it may *)
(* be on the media; write_offset and poffset likewise.  Offsets count from *)
(* start_offset, end_offset is Cap.                                        *)
(***************************************************************************)
EXTENDS LogConstants

VARIABLES
    data, media, write_offset, poffset,
    wrlock, rdlock,  \* who holds rwlockp
    pc,
    call,            \* the call a thread is in and, when done, its answer
    parts,           \* buffers still to be copied
    off, seen,       \* local offset; what the callback of a walk was given
    calls, crashes

space == <<data, media>>
locks == <<wrlock, rdlock>>
vars == <<space, write_offset, poffset, locks, pc, call, parts, off, seen,
          calls, crashes>>

Pos == 1..Cap
Idle == [op |-> "idle"]

Init ==
    /\ data = [i \in Pos |-> Junk]
    /\ media = [i \in Pos |-> {Junk}]
    /\ write_offset = 0 /\ poffset = {0}
    /\ wrlock = NoOne /\ rdlock = {}
    /\ pc = [t \in Thread |-> "idle"]
    /\ call = [t \in Thread |-> Idle]
    /\ parts = [t \in Thread |-> <<>>]
    /\ off = [t \in Thread |-> 0]
    /\ seen = [t \in Thread |-> <<>>]
    /\ calls = 0 /\ crashes = 0

Goto(t, l) == pc' = [pc EXCEPT ![t] = l]
Done(t, a) ==
    /\ Goto(t, "done")
    /\ call' = [call EXCEPT ![t] = [op |-> "done", answer |-> a]]

(* A thread enters pmemlog_append(), appendv(), rewind(), tell() or walk(). *)
Enter(t, c) ==
    /\ pc[t] = "idle" /\ calls < MaxCalls
    /\ calls' = calls + 1
    /\ call' = [call EXCEPT ![t] = c]
    /\ Goto(t, "lock")
    /\ UNCHANGED <<space, write_offset, poffset, locks, parts, off, seen, crashes>>

WrLocked(t, op) ==
    /\ pc[t] = "lock" /\ call[t].op = op
    /\ wrlock = NoOne /\ rdlock = {}

(* The length of all the buffers. *)
Total(p) ==
    LET count[i \in 0..Len(p)] == IF i = 0 THEN 0 ELSE count[i - 1] + Len(p[i])
    IN  count[Len(p)]

(* pmemlog_appendv(), of which pmemlog_append() is the case of one buffer: *)
(* a full log refuses even an empty append.                                *)
HasSpace(t) ==
    /\ write_offset < Cap
    /\ Total(call[t].parts) <= Cap - write_offset

AppendLock(t) ==
    /\ WrLocked(t, "append") /\ HasSpace(t)
    /\ wrlock' = t
    /\ parts' = [parts EXCEPT ![t] = call[t].parts]
    /\ off' = [off EXCEPT ![t] = write_offset]
    /\ Goto(t, "copy")
    /\ UNCHANGED <<space, write_offset, poffset, rdlock, call, seen, calls, crashes>>

AppendRefused(t) ==
    /\ WrLocked(t, "append") /\ ~HasSpace(t)
    /\ Done(t, "ENOSPC")
    /\ UNCHANGED <<space, write_offset, poffset, locks, parts, off, seen, calls, crashes>>

(* One buffer is copied and flushed, not drained. *)
Copy(t) ==
    /\ pc[t] = "copy" /\ parts[t] # <<>>
    /\ LET b == Head(parts[t])
           here == off[t] + 1 .. off[t] + Len(b)
       IN  /\ data' = [i \in Pos |-> IF i \in here THEN b[i - off[t]] ELSE data[i]]
           /\ media' = [i \in Pos |-> IF i \in here THEN media[i] \cup {data'[i]}
                                      ELSE media[i]]
           /\ off' = [off EXCEPT ![t] = @ + Len(b)]
    /\ parts' = [parts EXCEPT ![t] = Tail(@)]
    /\ UNCHANGED <<write_offset, poffset, locks, pc, call, seen, calls, crashes>>

(* A mutant of PersistData: the data is flushed and not drained. *)
PersistDataNoDrain(t) ==
    /\ pc[t] = "copy" /\ parts[t] = <<>>
    /\ Goto(t, "offset")
    /\ UNCHANGED <<space, write_offset, poffset, locks, call, parts, off, seen,
                   calls, crashes>>

(* log_persist(): the data is made durable, *)
PersistData(t) ==
    /\ pc[t] = "copy" /\ parts[t] = <<>>
    /\ media' = [i \in Pos |-> {data[i]}]
    /\ Goto(t, "offset")
    /\ UNCHANGED <<data, write_offset, poffset, locks, call, parts, off, seen,
                   calls, crashes>>

(* pmemlog_rewind() only resets the offset. *)
RewindLock(t) ==
    /\ WrLocked(t, "rewind")
    /\ wrlock' = t
    /\ off' = [off EXCEPT ![t] = 0]
    /\ Goto(t, "offset")
    /\ UNCHANGED <<space, write_offset, poffset, rdlock, call, parts, seen, calls, crashes>>

(* then write_offset is stored *)
StoreOffset(t) ==
    /\ pc[t] = "offset"
    /\ write_offset' = off[t]
    /\ poffset' = poffset \cup {off[t]}
    /\ Goto(t, "persist")
    /\ UNCHANGED <<space, locks, call, parts, off, seen, calls, crashes>>

(* A mutant of PersistOffset: the lock is given up, the offset not drained. *)
PersistOffsetLater(t) ==
    /\ pc[t] = "persist"
    /\ wrlock' = NoOne
    /\ Done(t, "ok")
    /\ UNCHANGED <<space, write_offset, poffset, rdlock, parts, off, seen, calls, crashes>>

(* and made durable, before the lock is given up. *)
PersistOffset(t) ==
    /\ pc[t] = "persist"
    /\ poffset' = {write_offset}
    /\ wrlock' = NoOne
    /\ Done(t, "ok")
    /\ UNCHANGED <<space, write_offset, rdlock, parts, off, seen, calls, crashes>>

(* pmemlog_tell() *)
Tell(t) ==
    /\ pc[t] = "lock" /\ call[t].op = "tell" /\ wrlock = NoOne
    /\ Done(t, write_offset)
    /\ UNCHANGED <<space, write_offset, poffset, locks, parts, off, seen, calls, crashes>>

(* pmemlog_walk() *)
WalkLock(t) ==
    /\ pc[t] = "lock" /\ call[t].op = "walk" /\ wrlock = NoOne
    /\ rdlock' = rdlock \cup {t}
    /\ off' = [off EXCEPT ![t] = 0]
    /\ seen' = [seen EXCEPT ![t] = <<>>]
    /\ Goto(t, "walk")
    /\ UNCHANGED <<space, write_offset, poffset, wrlock, call, parts, calls, crashes>>

(* The callback gets one chunk, or everything when chunksize is 0. *)
WalkChunk(t) ==
    /\ pc[t] = "walk" /\ off[t] < write_offset
    /\ LET left == write_offset - off[t]
           len == IF call[t].chunk = 0 \/ call[t].chunk > left THEN left
                  ELSE call[t].chunk
       IN  /\ seen' = [seen EXCEPT ![t] = @ \o [i \in 1..len |-> data[off[t] + i]]]
           /\ off' = [off EXCEPT ![t] = @ + len]
    /\ UNCHANGED <<space, write_offset, poffset, locks, pc, call, parts, calls, crashes>>

(* The walk ends with the log, or when the callback returns 0. *)
WalkEnd(t) ==
    /\ pc[t] = "walk"
    /\ off[t] >= write_offset \/ seen[t] # <<>>
    /\ rdlock' = rdlock \ {t}
    /\ Done(t, seen[t])
    /\ UNCHANGED <<space, write_offset, poffset, wrlock, parts, off, seen, calls, crashes>>

Return(t) ==
    /\ pc[t] = "done"
    /\ Goto(t, "idle")
    /\ call' = [call EXCEPT ![t] = Idle]
    /\ UNCHANGED <<space, write_offset, poffset, locks, parts, off, seen, calls, crashes>>

(* The power fails, and the pool is opened again. *)
Crash ==
    /\ crashes < MaxCrash
    /\ crashes' = crashes + 1
    /\ \E d \in [Pos -> Val \cup {Junk}] :
          /\ \A i \in Pos : d[i] \in media[i]
          /\ data' = d /\ media' = [i \in Pos |-> {d[i]}]
    /\ \E o \in poffset : write_offset' = o /\ poffset' = {o}
    /\ wrlock' = NoOne /\ rdlock' = {}
    /\ pc' = [t \in Thread |-> "idle"]
    /\ call' = [t \in Thread |-> Idle]
    /\ parts' = [t \in Thread |-> <<>>]
    /\ UNCHANGED <<off, seen, calls>>

Step(t) ==
    \/ AppendLock(t) \/ AppendRefused(t) \/ Copy(t) \/ PersistData(t)
    \/ RewindLock(t) \/ StoreOffset(t) \/ PersistOffset(t)
    \/ Tell(t) \/ WalkLock(t) \/ WalkChunk(t) \/ WalkEnd(t) \/ Return(t)

Next ==
    \/ \E t \in Thread :
          \/ \E p \in AppendArg : Enter(t, [op |-> "append", parts |-> p])
          \/ \E c \in ChunkArg : Enter(t, [op |-> "walk", chunk |-> c])
          \/ Enter(t, [op |-> "rewind"]) \/ Enter(t, [op |-> "tell"])
          \/ Step(t)
    \/ Crash

Spec == Init /\ [][Next]_vars
------------------------------------------------------------------------------
(* log_persist() keeps data before metadata: whichever write_offset a      *)
(* power failure may leave on the media now, every byte below it is there, *)
(* as it was appended, however appends, rewinds and walks interleave.      *)
OffsetCoversDurable ==
    \A o \in poffset : \A i \in Pos :
        i <= o => media[i] = {data[i]} /\ data[i] # Junk

(* The offset that counts while the new one is on its way to the media.    *)
Committed ==
    IF poffset = {write_offset} THEN write_offset
    ELSE CHOOSE o \in poffset : o # write_offset

Device == INSTANCE LogDevice WITH log <- [i \in 1..Committed |-> data[i]]

(* pmemlog_append(), appendv(), rewind(), tell() and walk() behave as one  *)
(* atomic, durable log: no append is lost, torn or doubled, a walk sees    *)
(* the log of one instant, and a crash leaves a call done or not done.     *)
ImplementsLogDevice == Device!Spec

==============================================================================
