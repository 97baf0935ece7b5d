-------------------------------- MODULE Rpmem --------------------------------
(***************************************************************************)
(* Remote replication (librpmem/rpmem.c, librpmem/rpmem_fip.c and the      *)
(* daemon's tools/rpmemd/rpmemd_fip.c), once both ends are connected.      *)
(* rpmem_persist() makes a range of the pool durable on the target: the    *)
(* thread that holds a lane posts operations to the lane's endpoint and    *)
(* reads its completion queue; a thread of the daemon handles the          *)
(* completions of the lanes it serves.  The network executes and completes *)
(* operations on its own, and a completion tells nothing about operations  *)
(* of the other direction.                                                 *)
(***************************************************************************)
EXTENDS Integers, Sequences, FiniteSets

CONSTANTS
    NLanes, NThreads,
    Units,          \* a call is for 1..n, n at most Units; a unit is what an
                    \* inlined message carries (buff_size)
    SqSize,         \* operations an endpoint takes (rpmem_fip_tx_size())
    CqSize,         \* completions kept for a lane (rpmem_fip_cq_size())
    Modes,          \* "send", "write" (relaxed), "deep", "read" (rpmem_read())
    Methods,        \* "APM" (appliance persistency), "GPSPM" (general purpose server)
    FirstCalls, OtherCalls  \* calls on lane 0, calls on any other lane

Lane == 0..(NLanes - 1)
Worker == 0..(NThreads - 1)
Unit == 1..Units
MaxCalls(i) == IF i = 0 THEN FirstCalls ELSE OtherCalls

VARIABLES
    method,         \* the persistency method agreed on
    up,             \* the connection
    \* the initiator: of the pool, then of each lane
    closing, error,
    pc, call, event, pmsg, sq, cq, recv,
    \* the target: of each worker, then of each lane
    at, scq,
    smsg, srecv, ssq, recv_posted, send_posted,
    rmem, dur,      \* what its memory holds, and surely keeps
    \* history
    ver,            \* calls of the lane; each call first stores its number
    told            \* what rpmem_persist() has returned 0 for

client == <<closing, error, pc, call, event, pmsg, recv, ver, told>>
server == <<at, recv_posted, send_posted, smsg>>
vars == <<method, up, client, sq, cq, server, scq, srecv, ssq, rmem, dur>>

NoCall == [mode |-> "none", next |-> 1, to |-> 1, len |-> 1]
NoMsg == [mode |-> "none", from |-> 1, to |-> 1, ver |-> 0]
Zero == [i \in Lane |-> [u \in Unit |-> 0]]

(* rpmem_fip_connect() and rpmemd_fip_accept(): every lane has a buffer    *)
(* posted at both ends.                                                    *)
Init ==
    /\ method \in Methods /\ up = TRUE
    /\ closing = FALSE /\ error = FALSE
    /\ pc = [i \in Lane |-> "idle"] /\ call = [i \in Lane |-> NoCall]
    /\ event = [i \in Lane |-> {}] /\ pmsg = [i \in Lane |-> NoMsg]
    /\ sq = [i \in Lane |-> <<>>] /\ cq = [i \in Lane |-> <<>>]
    /\ recv = [i \in Lane |-> TRUE]
    /\ at = [w \in Worker |-> [pc |-> "poll", lane |-> 0]]
    /\ scq = [w \in Worker |-> <<>>]
    /\ smsg = [i \in Lane |-> NoMsg] /\ srecv = [i \in Lane |-> TRUE]
    /\ ssq = [i \in Lane |-> "none"]
    /\ recv_posted = [i \in Lane |-> TRUE] /\ send_posted = [i \in Lane |-> FALSE]
    /\ rmem = Zero /\ dur = Zero
    /\ ver = [i \in Lane |-> 0] /\ told = Zero

-----------------------------------------------------------------------------
(* The initiator. *)

(* The function that carries a call out: rpmem_fip_persist_send(), _saw()  *)
(* or _raw(), or rpmem_fip_read().                                         *)
Way(i) ==
    CASE call[i].mode \in {"send", "read"} -> call[i].mode
      [] call[i].mode = "deep" -> "saw"
      [] OTHER -> IF method = "APM" THEN "raw" ELSE "saw"

(* The operations it posts for units from to to, in their order; the       *)
(* completions it starts to expect; and the one it waits for.              *)
Posted(way, from, to) ==
    LET Op(o) == [op |-> o, from |-> from, to |-> to, done |-> FALSE] IN
    CASE way = "send" -> <<Op("send")>>
      [] way = "saw" -> <<Op("write"), Op("send")>>
      [] way = "raw" -> <<Op("write"), Op("read")>>
      [] way = "read" -> <<Op("read")>>
Expected(way) == IF way \in {"send", "saw"} THEN {"send", "recv"} ELSE {"read"}

(* A mutant of Awaited: the message being sent is taken for the answer. *)
AwaitedSent(way) == IF way \in {"send", "saw"} THEN "send" ELSE "read"
Awaited(way) == IF way \in {"send", "saw"} THEN "recv" ELSE "read"

(* rpmem_persist(), rpmem_deep_persist() or rpmem_read() of the first n    *)
(* units, which have just been stored.  After an error it does nothing.    *)
Call(i, m, n) ==
    /\ pc[i] = "idle" /\ ~error /\ ver[i] < MaxCalls(i)
    /\ ver' = [ver EXCEPT ![i] = @ + 1]
    /\ IF closing
         THEN error' = TRUE /\ UNCHANGED <<pc, call>>
         ELSE /\ pc' = [pc EXCEPT ![i] = "start"]
              /\ call' = [call EXCEPT ![i] = [mode |-> m, next |-> 1, to |-> 1, len |-> n]]
              /\ UNCHANGED error
    /\ UNCHANGED <<method, up, closing, event, pmsg, recv, told, sq, cq, server, scq,
                   srecv, ssq, rmem, dur>>

Fail(i) == pc' = [pc EXCEPT ![i] = "idle"] /\ error' = TRUE

(* A mutant of Waiting: the buffer of the last message is used again       *)
(* without waiting for it to have been sent.                               *)
WaitingForAnswer(i) == pc[i] = "wait" /\ Awaited(Way(i)) \in event[i]

(* A lane is in rpmem_fip_lane_wait(). *)
Waiting(i) ==
    \/ pc[i] = "start" /\ Way(i) \in {"send", "saw"} /\ "send" \in event[i]
    \/ pc[i] = "wait" /\ Awaited(Way(i)) \in event[i]

(* rpmem_fip_lane_wait() reads one completion, or gives up because the     *)
(* monitor has seen the connection go.                                     *)
Poll(i) ==
    /\ Waiting(i)
    /\ IF closing
         THEN Fail(i) /\ UNCHANGED <<event, cq>>
         ELSE /\ cq[i] # <<>>
              /\ event' = [event EXCEPT ![i] = @ \ {Head(cq[i])}]
              /\ cq' = [cq EXCEPT ![i] = Tail(@)]
              /\ UNCHANGED <<pc, error>>
    /\ UNCHANGED <<method, up, closing, call, pmsg, recv, ver, told, sq, server, scq,
                   srecv, ssq, rmem, dur>>

(* Without a connection, a completion queue may report an error and an     *)
(* endpoint may refuse a buffer or an operation.                           *)
FabricError(i) ==
    /\ ~up /\ pc[i] # "idle"
    /\ Waiting(i) \/ pc[i] = "start" \/ Way(i) \in {"send", "saw"}
    /\ Fail(i)
    /\ UNCHANGED <<method, up, closing, call, event, pmsg, recv, ver, told, sq, cq, server,
                   scq, srecv, ssq, rmem, dur>>

(* The operations of the next part of the range are posted: one unit when  *)
(* inlined, else all.  An endpoint that is full refuses.                   *)
Post(i) ==
    /\ pc[i] = "start" /\ ~Waiting(i)
    /\ LET way == Way(i)
           from == call[i].next
           to == IF way = "send" THEN from ELSE call[i].len
           ops == Posted(way, from, to)
           room == SqSize - Len(sq[i])
       IN  /\ event' = [event EXCEPT ![i] = Expected(way)]
           /\ pmsg' = IF way \in {"send", "saw"}
                        THEN [pmsg EXCEPT ![i] = [mode |-> call[i].mode, from |-> from,
                                                  to |-> to, ver |-> ver[i]]]
                        ELSE pmsg
           /\ call' = [call EXCEPT ![i].to = to]
           /\ IF Len(ops) <= room
                THEN /\ sq' = [sq EXCEPT ![i] = @ \o ops]
                     /\ pc' = [pc EXCEPT ![i] = "wait"]
                     /\ UNCHANGED error
                ELSE sq' = [sq EXCEPT ![i] = @ \o SubSeq(ops, 1, room)] /\ Fail(i)
    /\ UNCHANGED <<method, up, closing, recv, ver, told, cq, server, scq, srecv, ssq, rmem,
                   dur>>

(* The completion waited for has come: the buffer for the next answer is   *)
(* posted, and the next part follows or rpmem_persist() returns.           *)
Finish(i) ==
    /\ pc[i] = "wait" /\ ~Waiting(i)
    /\ recv' = IF Way(i) \in {"send", "saw"} THEN [recv EXCEPT ![i] = TRUE] ELSE recv
    /\ call' = [call EXCEPT ![i].next = call[i].to + 1]
    /\ IF call[i].to < call[i].len
         THEN pc' = [pc EXCEPT ![i] = "start"] /\ UNCHANGED <<error, told>>
         ELSE /\ pc' = [pc EXCEPT ![i] = "idle"]
              /\ error' = (error \/ closing)
              /\ told' = IF closing \/ call[i].mode = "read" THEN told
                         ELSE [told EXCEPT ![i] = [u \in Unit |->
                                 IF u <= call[i].len THEN ver[i] ELSE @[u]]]
    /\ UNCHANGED <<method, up, closing, event, pmsg, ver, sq, cq, server, scq, srecv, ssq,
                   rmem, dur>>

(* rpmem_fip_monitor_thread() reads FI_SHUTDOWN, and                       *)
(* rpmem_monitor_thread() sees the out-of-band connection close.           *)
MonitorIgnores == ~up /\ ~closing /\ UNCHANGED vars

Monitor ==
    /\ ~up /\ ~closing
    /\ closing' = TRUE
    /\ UNCHANGED <<method, up, error, pc, call, event, pmsg, recv, ver, told, sq, cq, server,
                   scq, srecv, ssq, rmem, dur>>

ObcMonitor ==
    /\ ~up /\ ~error
    /\ error' = TRUE
    /\ UNCHANGED <<method, up, closing, pc, call, event, pmsg, recv, ver, told, sq, cq,
                   server, scq, srecv, ssq, rmem, dur>>

-----------------------------------------------------------------------------
(* The network: libfabric and the adapters.  Operations of an endpoint are *)
(* executed in order (FI_ORDER_RAW, FI_ORDER_SAW) and retired in order.    *)

WorkerOf(i) == i % NThreads
Undone(i) == {k \in DOMAIN sq[i] : ~sq[i][k].done}
Current(i) == CHOOSE k \in Undone(i) : \A l \in Undone(i) : k <= l
Within(o, u) == o.from <= u /\ u <= o.to

(* A READ after WRITEs pushes them out of the adapter: with the appliance  *)
(* persistency method that makes them durable.                             *)
Execute(i) ==
    /\ up /\ Undone(i) # {}
    /\ LET o == sq[i][Current(i)] IN
       /\ sq' = [sq EXCEPT ![i][Current(i)].done = TRUE]
       /\ \/ /\ o.op = "write"
             /\ rmem' = [rmem EXCEPT ![i] = [u \in Unit |->
                           IF Within(o, u) THEN ver[i] ELSE @[u]]]
             /\ UNCHANGED <<smsg, srecv, scq, dur>>
          \/ /\ o.op = "send" /\ srecv[i]
             /\ smsg' = [smsg EXCEPT ![i] = pmsg[i]]
             /\ srecv' = [srecv EXCEPT ![i] = FALSE]
             /\ scq' = [scq EXCEPT ![WorkerOf(i)] = Append(@, [event |-> "recv", lane |-> i])]
             /\ UNCHANGED <<rmem, dur>>
          \/ /\ o.op = "read"
             /\ dur' = IF method = "APM" THEN [dur EXCEPT ![i] = rmem[i]] ELSE dur
             /\ UNCHANGED <<smsg, srecv, scq, rmem>>
    /\ UNCHANGED <<method, up, client, cq, at, recv_posted, send_posted, ssq>>

(* SEND and READ are posted with FI_COMPLETION. *)
Retire(i) ==
    /\ up /\ sq[i] # <<>> /\ sq[i][1].done
    /\ sq' = [sq EXCEPT ![i] = Tail(@)]
    /\ cq' = IF sq[i][1].op = "write" THEN cq
             ELSE [cq EXCEPT ![i] = Append(@, sq[i][1].op)]
    /\ UNCHANGED <<method, up, client, server, scq, srecv, ssq, rmem, dur>>

Deliver(i) ==
    /\ up /\ ssq[i] = "posted" /\ recv[i]
    /\ ssq' = [ssq EXCEPT ![i] = "done"]
    /\ recv' = [recv EXCEPT ![i] = FALSE]
    /\ cq' = [cq EXCEPT ![i] = Append(@, "recv")]
    /\ UNCHANGED <<method, up, closing, error, pc, call, event, pmsg, ver, told, sq, server,
                   scq, srecv, rmem, dur>>

RetireAnswer(i) ==
    /\ up /\ ssq[i] = "done"
    /\ ssq' = [ssq EXCEPT ![i] = "none"]
    /\ scq' = [scq EXCEPT ![WorkerOf(i)] = Append(@, [event |-> "send", lane |-> i])]
    /\ UNCHANGED <<method, up, client, sq, cq, server, srecv, rmem, dur>>

(* The connection, or the target with it, is lost. *)
Disconnect ==
    /\ up /\ up' = FALSE
    /\ UNCHANGED <<method, client, sq, cq, server, scq, srecv, ssq, rmem, dur>>

-----------------------------------------------------------------------------
(* The target: a worker of the daemon, rpmemd_fip_thread(), with the       *)
(* completion it has read.                                                 *)

(* rpmemd_fip_process_recv() makes the range durable.  The answer has to   *)
(* wait while the last one has not been sent.                              *)
ProcessRecv(w) ==
    /\ up /\ at[w].pc = "poll" /\ scq[w] # <<>> /\ Head(scq[w]).event = "recv"
    /\ LET i == Head(scq[w]).lane
           m == smsg[i]
           mem == IF m.mode = "send"
                    THEN [u \in Unit |-> IF Within(m, u) THEN m.ver ELSE rmem[i][u]]
                    ELSE rmem[i]
       IN  /\ recv_posted' = [recv_posted EXCEPT ![i] = FALSE]
           /\ rmem' = [rmem EXCEPT ![i] = mem]
           /\ dur' = [dur EXCEPT ![i] = [u \in Unit |-> IF Within(m, u) THEN mem[u] ELSE @[u]]]
           /\ at' = [at EXCEPT ![w] = [pc |-> IF send_posted[i] THEN "poll" ELSE "post_msg",
                                       lane |-> i]]
    /\ scq' = [scq EXCEPT ![w] = Tail(@)]
    /\ UNCHANGED <<method, up, client, sq, cq, send_posted, smsg, srecv, ssq>>

(* A mutant of ProcessSend: a delayed answer goes out without a buffer for *)
(* the next message.                                                       *)
ProcessSendOnly(w) ==
    /\ up /\ at[w].pc = "poll" /\ scq[w] # <<>> /\ Head(scq[w]).event = "send"
    /\ LET i == Head(scq[w]).lane IN
       /\ send_posted' = [send_posted EXCEPT ![i] = FALSE]
       /\ at' = [at EXCEPT ![w] = [pc |-> IF recv_posted[i] THEN "poll" ELSE "post_resp",
                                   lane |-> i]]
    /\ scq' = [scq EXCEPT ![w] = Tail(@)]
    /\ UNCHANGED <<method, up, client, sq, cq, recv_posted, smsg, srecv, ssq, rmem, dur>>

(* rpmemd_fip_process_send(): an answer that had to wait can go. *)
ProcessSend(w) ==
    /\ up /\ at[w].pc = "poll" /\ scq[w] # <<>> /\ Head(scq[w]).event = "send"
    /\ LET i == Head(scq[w]).lane IN
       /\ send_posted' = [send_posted EXCEPT ![i] = FALSE]
       /\ at' = [at EXCEPT ![w] = [pc |-> IF recv_posted[i] THEN "poll" ELSE "post_msg",
                                   lane |-> i]]
    /\ scq' = [scq EXCEPT ![w] = Tail(@)]
    /\ UNCHANGED <<method, up, client, sq, cq, recv_posted, smsg, srecv, ssq, rmem, dur>>

(* rpmemd_fip_post_msg() and rpmemd_fip_post_resp(), in this order. *)
PostMsg(w) ==
    /\ up /\ at[w].pc = "post_msg"
    /\ srecv' = [srecv EXCEPT ![at[w].lane] = TRUE]
    /\ recv_posted' = [recv_posted EXCEPT ![at[w].lane] = TRUE]
    /\ at' = [at EXCEPT ![w].pc = "post_resp"]
    /\ UNCHANGED <<method, up, client, sq, cq, send_posted, smsg, scq, ssq, rmem, dur>>

PostResp(w) ==
    /\ up /\ at[w].pc = "post_resp"
    /\ ssq' = [ssq EXCEPT ![at[w].lane] = "posted"]
    /\ send_posted' = [send_posted EXCEPT ![at[w].lane] = TRUE]
    /\ at' = [at EXCEPT ![w].pc = "poll"]
    /\ UNCHANGED <<method, up, client, sq, cq, recv_posted, smsg, scq, srecv, rmem, dur>>

-----------------------------------------------------------------------------
Persist(i) == Poll(i) \/ Post(i) \/ Finish(i)
Network(i) == Execute(i) \/ Retire(i) \/ Deliver(i) \/ RetireAnswer(i)
Work(w) == ProcessRecv(w) \/ ProcessSend(w) \/ PostMsg(w) \/ PostResp(w)

Next ==
    \/ \E i \in Lane : Persist(i) \/ Network(i) \/ FabricError(i)
    \/ \E i \in Lane, m \in Modes, n \in Unit : Call(i, m, n)
    \/ \E w \in Worker : Work(w)
    \/ Monitor \/ ObcMonitor \/ Disconnect

(* What goes on by itself: threads in rpmem_persist(), the network while   *)
(* it is up, the workers, and the report that it is gone.                  *)
Progress ==
    \/ \E i \in Lane : Persist(i) \/ Network(i)
    \/ \E w \in Worker : Work(w)
    \/ Monitor

(* As long as something can go on, something does. *)
Spec == Init /\ [][Next]_vars /\ WF_vars(Progress)

-----------------------------------------------------------------------------
(* What rpmem_persist() and rpmem_deep_persist() returned 0 for is durable *)
(* on the target, whichever way it went there and whatever happens to the  *)
(* connection.                                                             *)
RemoteDurable == \A i \in Lane : \A u \in Unit : told[i][u] <= dur[i][u]

(* What rpmem_fip_lane_attrs is for: a message finds a buffer at the other *)
(* end and a completion a place in the queue, and the daemon posts one     *)
(* answer at a time (rpmemd_fip_process_recv(), rpmemd_fip_process_send(), *)
(* rpmem_fip_persist_saw()).                                               *)
BuffersSuffice ==
    /\ \A i \in Lane :
         /\ Undone(i) # {} /\ sq[i][Current(i)].op = "send" => srecv[i]
         /\ ssq[i] = "posted" => recv[i]
         /\ Len(cq[i]) <= CqSize
    /\ \A w \in Worker :
         /\ Len(scq[w]) <= CqSize * Cardinality({i \in Lane : WorkerOf(i) = w})
         /\ at[w].pc = "post_resp" => ssq[at[w].lane] = "none"

(* rpmem_fip_lane_attr says "how many SQ, RQ and CQ entries are required   *)
(* for a single lane": no call fails on an endpoint that is full.          *)
SendQueueSuffices == up => ~error

(* rpmem_fip_persist_send() and _saw() do not touch the lane's message     *)
(* buffer while a SEND of it is posted, also when a READ has made the lane *)
(* forget that it expects the completion of that SEND.                     *)
BufferStable ==
    [][\A i \in Lane : pmsg'[i] # pmsg[i] => \A k \in DOMAIN sq[i] : sq[i][k].op # "send"]_vars

(* Every call returns, also when the connection is lost under it. *)
PersistReturns == \A i \in Lane : pc[i] # "idle" ~> pc[i] = "idle"
=============================================================================
