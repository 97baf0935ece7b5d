------------------------------ MODULE LogDevice ------------------------------
(***************************************************************************)
(* What libpmemlog promises: an append-only log that many threads use as   *)
(* if their calls happened one at a time, each in one instant between its  *)
(* beginning and its end.  A call cut short by a power failure has either  *)
(* happened or not; one that has returned is never undone.                 *)
(***************************************************************************)
EXTENDS Integers, Sequences

CONSTANTS Thread, Cap, AppendArg, ChunkArg

VARIABLES log,   \* the bytes in the log
          call   \* what each thread has asked for or been answered

vars == <<log, call>>

(* The bytes of some buffers, one after the other. *)
Bytes(p) ==
    LET joined[i \in 0..Len(p)] == IF i = 0 THEN <<>> ELSE joined[i - 1] \o p[i]
    IN  joined[Len(p)]

Idle == [op |-> "idle"]

Init == log = <<>> /\ call = [t \in Thread |-> Idle]

(* A call begins: an append or appendv of buffers, a rewind, a tell, or a  *)
(* walk in chunks of a size.                                               *)
Invoke(t, c) ==
    /\ call[t] = Idle
    /\ call' = [call EXCEPT ![t] = c]
    /\ UNCHANGED log

Answer(t, a) == call' = [call EXCEPT ![t] = [op |-> "done", answer |-> a]]

Fits(c) == Len(log) < Cap /\ Len(log) + Len(Bytes(c.parts)) <= Cap

AppendAll(t) ==
    /\ call[t].op = "append" /\ Fits(call[t])
    /\ log' = log \o Bytes(call[t].parts)
    /\ Answer(t, "ok")

NoSpace(t) ==
    /\ call[t].op = "append" /\ ~Fits(call[t])
    /\ UNCHANGED log
    /\ Answer(t, "ENOSPC")

Rewind(t) ==
    /\ call[t].op = "rewind"
    /\ log' = <<>>
    /\ Answer(t, "ok")

Tell(t) ==
    /\ call[t].op = "tell"
    /\ UNCHANGED log
    /\ Answer(t, Len(log))

(* The callback of a walk may stop it after any chunk. *)
Walk(t) ==
    /\ call[t].op = "walk"
    /\ \E n \in 0..Len(log) :
          /\ n = Len(log) \/ (call[t].chunk > 0 /\ n > 0 /\ n % call[t].chunk = 0)
          /\ Answer(t, SubSeq(log, 1, n))
    /\ UNCHANGED log

Return(t) ==
    /\ call[t].op = "done"
    /\ call' = [call EXCEPT ![t] = Idle]
    /\ UNCHANGED log

(* The power fails: the call that changes the log may have happened. *)
Crash ==
    /\ \/ UNCHANGED log
       \/ \E t \in Thread : /\ call[t].op = "append" /\ Fits(call[t])
                            /\ log' = log \o Bytes(call[t].parts)
       \/ \E t \in Thread : call[t].op = "rewind" /\ log' = <<>>
    /\ call' = [t \in Thread |-> Idle]

Next ==
    \/ Crash
    \/ \E t \in Thread :
          \/ \E p \in AppendArg : Invoke(t, [op |-> "append", parts |-> p])
          \/ \E c \in ChunkArg : Invoke(t, [op |-> "walk", chunk |-> c])
          \/ Invoke(t, [op |-> "rewind"]) \/ Invoke(t, [op |-> "tell"])
          \/ AppendAll(t) \/ NoSpace(t) \/ Rewind(t) \/ Tell(t) \/ Walk(t)
          \/ Return(t)

Spec == Init /\ [][Next]_vars

==============================================================================
