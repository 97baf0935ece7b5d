------------------------------- MODULE PList -------------------------------
(***************************************************************************)
(* The atomic persistent lists of libpmemobj (list.c): circular, doubly    *)
(* linked lists whose operations collect the words they change in the redo *)
(* log of a lane and publish them together.                                *)
(*                                                                         *)
(* What an operation writes is computed from the words as they are before  *)
(* the operation: list_move() computes the insertion from links that still *)
(* contain the object it removes.  RedoLog shows that the collected words  *)
(* reach the media together, so Process writes them in one step; the part  *)
(* of an operation that bypasses the log is a step of its own.             *)
(*                                                                         *)
(* Lists are numbered by the addresses of their heads.  The program is     *)
(* assumed to pass an object that is on the list it names, and not to use  *)
(* one object in two calls at once.                                        *)
(***************************************************************************)
EXTENDS Integers, Sequences, SequencesExt, FiniteSetsExt

CONSTANTS NList, NObj, Thread,
          NLanes,            \* runtime_nlanes
          MaxShared,         \* objects in a heap that sees more than one call
          MaxMoved,          \* ... if the second one moves an object
          MaxOps, MaxCrash

List == 1..NList
Obj == 1..NObj

VARIABLES
    field,      \* which of its list entries an object uses for each list
    mem,        \* pe_first of the heads, pe_next and pe_prev of the entries
    heap,       \* allocated objects
    mutex,      \* the holder of each head's lock, or 0
    lanes,      \* the threads that hold a lane
    pc, call, log, ops, crashes

pool == <<field, mem, heap>>
vars == <<field, mem, heap, mutex, lanes, pc, call, log, ops, crashes>>

First(l) == <<"first", l>>
PeNext(l, o) == <<"next", field[l], o>>
PePrev(l, o) == <<"prev", field[l], o>>
Oidp == <<"oidp">>

NoThread == "none"
NoCall == [op |-> "none", l |-> 1, m |-> 1, o |-> 0, dest |-> 0,
           before |-> FALSE, oidp |-> FALSE]

(* The objects of list l, found by following pe_next from the head. *)
Walk(l) ==
    LET first == mem[First(l)]
        Follow(o) == IF o = 0 THEN 0 ELSE mem[PeNext(l, o)]
        At[n \in 1..NObj] == IF n = 1 THEN first ELSE Follow(At[n - 1])
        ends == {n \in 1..NObj : Follow(At[n]) = first}
    IN  IF first = 0 THEN <<>>
        ELSE [n \in 1..Min(ends \cup {NObj}) |-> At[n]]

(* The words of a pool that holds the lists s. *)
Linked(f, s) ==
    LET On(g, o) == {l \in List : f[l] = g /\ o \in ToSet(s[l])}
        At(t, o) == CHOOSE i \in 1..Len(t) : t[i] = o
        Link(g, o, Step(_, _)) ==
            IF On(g, o) = {} THEN 0
            ELSE LET t == s[CHOOSE l \in On(g, o) : TRUE]
                 IN  t[Step(At(t, o), Len(t))]
    IN  [w \in {<<"first", l>> : l \in List} \cup {Oidp}
               \cup ({"next", "prev"} \X List \X Obj) |->
            CASE w[1] = "oidp"  -> 0
              [] w[1] = "first" -> IF s[w[2]] = <<>> THEN 0 ELSE s[w[2]][1]
              [] w[1] = "next"  -> Link(w[2], w[3], LAMBDA i, n : (i % n) + 1)
              [] w[1] = "prev"  ->
                    Link(w[2], w[3], LAMBDA i, n : ((i + n - 2) % n) + 1)]

(* An object is on at most one list per entry.  Objects are                *)
(* interchangeable: the allocated ones come first, and those of the first  *)
(* list are numbered in its order.                                         *)
Init ==
    /\ field \in {[l \in List |-> 1], [l \in List |-> l]}
    /\ \E k \in 0..NObj : heap = 1..k
    /\ \E s \in [List -> UNION {[1..n -> heap] : n \in 0..NObj}] :
        /\ \A l \in List : IsInjective(s[l])
        /\ \A i \in 1..Len(s[1]) : s[1][i] = i
        /\ \A l, k \in List : l # k /\ field[l] = field[k] =>
                ToSet(s[l]) \cap ToSet(s[k]) = {}
        /\ mem = Linked(field, s)
    /\ mutex = [l \in List |-> NoThread]
    /\ lanes = {}
    /\ pc = [t \in Thread |-> "idle"]
    /\ call = [t \in Thread |-> NoCall]
    /\ log = [t \in Thread |-> <<>>]
    /\ ops = 0 /\ crashes = 0

-----------------------------------------------------------------------------
(* The entries of the operations *)

Set(w, v) == <<[word |-> w, value |-> v]>>
If(p, es) == IF p THEN es ELSE <<>>

(* The words m after entries es: operation_add_entry() drops a second SET  *)
(* of a word.                                                              *)
Applied(m, es) ==
    [w \in DOMAIN m |->
        LET at == {i \in 1..Len(es) : es[i].word = w}
        IN  IF at = {} THEN m[w] ELSE es[Min(at)].value]

(* list_get_dest() *)
GetDest(l, dest, before) ==
    LET first == mem[First(l)]
    IN  IF dest # 0 THEN dest
        ELSE IF first = 0 \/ before THEN first ELSE mem[PePrev(l, first)]

(* Mutant: the head still names the object that is removed. *)
RemoveKeepsHead(l, o) ==
    LET next == mem[PeNext(l, o)]
        prev == mem[PePrev(l, o)]
    IN  IF next = o THEN Set(First(l), 0)
        ELSE Set(PePrev(l, next), prev) \o Set(PeNext(l, prev), next)

(* list_remove_single() *)
RemoveSingle(l, o) ==
    LET next == mem[PeNext(l, o)]
        prev == mem[PePrev(l, o)]
    IN  IF next = o THEN Set(First(l), 0)
        ELSE Set(PePrev(l, next), prev) \o Set(PeNext(l, prev), next)
             \o If(mem[First(l)] = o, Set(First(l), next))

(* list_insert_before() and list_insert_after(): the neighbours o gets. *)
NextOffset(l, d, before, o) ==
    IF d = 0 THEN o ELSE IF before THEN d ELSE mem[PeNext(l, d)]
PrevOffset(l, d, before, o) ==
    IF d = 0 THEN o ELSE IF before THEN mem[PePrev(l, d)] ELSE d

(* list_insert_user() *)
InsertUser(l, d, before, o) ==
    IF d = 0 THEN Set(First(l), o)
    ELSE IF before
      THEN Set(PePrev(l, d), o) \o Set(PeNext(l, mem[PePrev(l, d)]), o)
           \o If(d = mem[First(l)], Set(First(l), o))
      ELSE Set(PeNext(l, d), o) \o Set(PePrev(l, mem[PeNext(l, d)]), o)

(* list_fill_entry_redo_log(), without the pool's uuid. *)
FillEntry(l, o, next, prev) == Set(PeNext(l, o), next) \o Set(PePrev(l, o), prev)

Filled(l, d, before, o) ==
    FillEntry(l, o, NextOffset(l, d, before, o), PrevOffset(l, d, before, o))

(* Mutant: a move within one list is a removal and an insertion. *)
MoveUnchecked(l, m, d, before, o) ==
    IF l = m /\ d = o THEN <<>>
    ELSE RemoveSingle(m, o) \o InsertUser(l, d, before, o) \o Filled(l, d, before, o)

(* list_move() from list m to list l: within one list a move to where the  *)
(* object already is changes at most the head.                             *)
MoveEntries(l, m, d, before, o) ==
    LET same == l = m
    IN  CASE same /\ d = o -> <<>>
          [] same /\ d # o /\ before /\ mem[PePrev(l, d)] = o ->
                If(mem[First(l)] = d, Set(First(l), o))
          [] same /\ d # o /\ ~before /\ mem[PeNext(l, d)] = o ->
                If(mem[First(l)] = o, Set(First(l), mem[PeNext(l, o)]))
          [] OTHER -> RemoveSingle(m, o) \o InsertUser(l, d, before, o)
                      \o Filled(l, d, before, o)

(* The entries of a call, in the order in which its function adds them. *)
Entries(c) ==
    LET d == GetDest(c.l, c.dest, c.before)
    IN  CASE c.op = "insert" ->
                InsertUser(c.l, d, c.before, c.o) \o Filled(c.l, d, c.before, c.o)
          [] c.op = "insert_new" ->
                InsertUser(c.l, d, c.before, c.o) \o If(c.oidp, Set(Oidp, c.o))
          [] c.op = "remove" -> RemoveSingle(c.l, c.o) \o FillEntry(c.l, c.o, 0, 0)
          [] c.op = "remove_free" ->
                RemoveSingle(c.l, c.o) \o If(c.oidp, Set(Oidp, 0))
          [] c.op = "move" -> MoveEntries(c.l, c.m, d, c.before, c.o)

-----------------------------------------------------------------------------
(* Calls *)

Busy == UNION {{call[t].o, call[t].dest} : t \in Thread} \ {0}
OidpBusy == \E t \in Thread : call[t].oidp
On(l) == ToSet(Walk(l))

(* The calls a correct program can make now. *)
Calls ==
    LET Dest(l) == {0} \cup (On(l) \ Busy)
        Usable == heap \ Busy
        Shares(l, o) == \E k \in List : field[k] = field[l] /\ o \in On(k)
        Here(l) == Usable \cap On(l)
        C(op, l, m, o, d, b, h) ==
            [op |-> op, l |-> l, m |-> m, o |-> o, dest |-> d, before |-> b,
             oidp |-> h]
    IN  UNION {
          {C("insert", l, l, o, d, b, FALSE) :
                o \in {x \in Usable : ~Shares(l, x)}, d \in Dest(l), b \in BOOLEAN}
          \cup {C("insert_new", l, l, 0, d, b, h) :
                d \in Dest(l), b \in BOOLEAN,
                h \in IF mem[Oidp] = 0 /\ ~OidpBusy THEN BOOLEAN ELSE {FALSE}}
          \cup {C("remove", l, l, o, 0, FALSE, FALSE) : o \in Here(l)}
          \cup {C("remove_free", l, l, o, 0, FALSE, mem[Oidp] = o) :
                o \in {x \in Here(l) : \A k \in List \ {l} : x \notin On(k)}}
          \cup UNION {{C("move", l, m, o, d, b, FALSE) :
                o \in {x \in Here(m) : l = m \/ field[l] = field[m]
                                       \/ ~Shares(l, x)},
                d \in Dest(l), b \in BOOLEAN} : m \in List}
          : l \in List}

(* Threads are interchangeable: one of them makes the first call. *)
FirstThread == CHOOSE t \in Thread : TRUE

LaneFirst(c) == c.op \in {"insert", "remove", "move"}

Call(t) ==
    /\ pc[t] = "idle" /\ ops < MaxOps
    /\ ops = 0 => t = FirstThread
    /\ ops' = ops + 1
    /\ \E c \in Calls :
        /\ \/ ops = 0 \/ Cardinality(heap) <= MaxShared
           \/ c.op = "move" /\ Cardinality(heap) <= MaxMoved
        /\ call' = [call EXCEPT ![t] = c]
        /\ pc' = [pc EXCEPT ![t] = IF LaneFirst(c) THEN "lane" ELSE "lock"]
    /\ UNCHANGED <<pool, mutex, lanes, log, crashes>>

(* lane_hold(): waits for one of the lanes. *)
HoldLane(t) ==
    /\ pc[t] = "lane" /\ Cardinality(lanes) < NLanes
    /\ lanes' = lanes \cup {t}
    /\ pc' = [pc EXCEPT ![t] = IF LaneFirst(call[t]) THEN "lock" ELSE "work"]
    /\ UNCHANGED <<pool, mutex, call, log, ops, crashes>>

Heads(c) == {c.l, c.m}
Held(t) == {l \in List : mutex[l] = t}

(* Mutant: the locks in the order of the arguments. *)
NextLockAsGiven(t) == IF call[t].m \in Held(t) THEN call[t].l ELSE call[t].m

(* pmemobj_mutex_lock() of the heads; list_mutexes_lock() takes two in the *)
(* order of their addresses.                                               *)
NextLock(t) == Min(Heads(call[t]) \ Held(t))

Lock(t) ==
    /\ pc[t] = "lock"
    /\ mutex[NextLock(t)] = NoThread
    /\ mutex' = [mutex EXCEPT ![NextLock(t)] = t]
    /\ pc' = [pc EXCEPT ![t] =
                IF Heads(call[t]) \ Held(t) # {NextLock(t)} THEN "lock"
                ELSE IF LaneFirst(call[t]) THEN "work" ELSE "lane"]
    /\ UNCHANGED <<pool, lanes, call, log, ops, crashes>>

(* pmemobj_mutex_lock() fails: what is held is given back. *)
LockFails(t) ==
    /\ pc[t] = "lock"
    /\ pc' = [pc EXCEPT ![t] = "leave"]
    /\ call' = [call EXCEPT ![t] = NoCall]
    /\ UNCHANGED <<pool, mutex, lanes, log, ops, crashes>>

(* The entries are collected.  insert_new first reserves an object, and    *)
(* fills its entry outside the log: nobody can see the object yet.         *)
Work(t) ==
    /\ pc[t] = "work"
    /\ call[t].op = "insert_new" => Obj # heap \cup Busy
    /\ \E o \in {IF call[t].op = "insert_new" THEN Min(Obj \ (heap \cup Busy))
                 ELSE call[t].o} :
        LET c == [call[t] EXCEPT !.o = o]
            d == GetDest(c.l, c.dest, c.before)
        IN  /\ call' = [call EXCEPT ![t] = c]
            /\ log' = [log EXCEPT ![t] = Entries(c)]
            /\ mem' = IF c.op = "insert_new"
                      THEN Applied(mem, Filled(c.l, d, c.before, o))
                      ELSE mem
    /\ pc' = [pc EXCEPT ![t] = "process"]
    /\ UNCHANGED <<field, heap, mutex, lanes, ops, crashes>>

(* palloc_reserve() fails: nothing has been done. *)
ReserveFails(t) ==
    /\ pc[t] = "work" /\ call[t].op = "insert_new"
    /\ call' = [call EXCEPT ![t] = NoCall]
    /\ pc' = [pc EXCEPT ![t] = "leave"]
    /\ UNCHANGED <<pool, mutex, lanes, log, ops, crashes>>

(* operation_process() or palloc_publish(). *)
Process(t) ==
    /\ pc[t] = "process"
    /\ mem' = Applied(mem, log[t])
    /\ heap' = CASE call[t].op = "insert_new" -> heap \cup {call[t].o}
                 [] call[t].op = "remove_free" -> heap \ {call[t].o}
                 [] OTHER -> heap
    /\ log' = [log EXCEPT ![t] = <<>>]
    /\ call' = [call EXCEPT ![t] = NoCall]
    /\ pc' = [pc EXCEPT ![t] = "leave"]
    /\ UNCHANGED <<field, mutex, lanes, ops, crashes>>

(* pmemobj_mutex_unlock_nofail(), list_mutexes_unlock(), lane_release(). *)
Leave(t) ==
    /\ pc[t] = "leave"
    /\ mutex' = [l \in List |-> IF mutex[l] = t THEN NoThread ELSE mutex[l]]
    /\ lanes' = lanes \ {t}
    /\ pc' = [pc EXCEPT ![t] = "idle"]
    /\ UNCHANGED <<pool, call, log, ops, crashes>>

(* The process stops; the next open replays the redo logs of the lanes     *)
(* that were published and forgets the others.                             *)
Crash ==
    /\ crashes < MaxCrash /\ \E t \in Thread : pc[t] # "idle"
    /\ crashes' = crashes + 1
    /\ mutex' = [l \in List |-> NoThread] /\ lanes' = {}
    /\ pc' = [t \in Thread |-> "idle"]
    /\ call' = [t \in Thread |-> NoCall]
    /\ log' = [t \in Thread |-> <<>>]
    /\ UNCHANGED <<pool, ops>>

Step(t) == \/ HoldLane(t) \/ Lock(t) \/ Work(t) \/ ReserveFails(t)
           \/ Process(t) \/ Leave(t)

Next == Crash \/ \E t \in Thread : Call(t) \/ Step(t) \/ LockFails(t)

Spec == Init /\ [][Next]_vars

-----------------------------------------------------------------------------
(* Properties *)

(* Every list is a ring: pe_prev leads back along pe_next, the walk ends   *)
(* where it began, and holds allocated objects only (list_remove_single(), *)
(* list_insert_before(), list_insert_after(), list_move()).                *)
ListsAreRings ==
    \A l \in List :
        LET s == Walk(l)
        IN  /\ IsInjective(s)
            /\ ToSet(s) \subseteq heap
            /\ \A i \in 1..Len(s) :
                /\ mem[PeNext(l, s[i])] = s[(i % Len(s)) + 1]
                /\ mem[PePrev(l, s[(i % Len(s)) + 1])] = s[i]

(* The list the documentation describes: o before or after dest, or at the *)
(* head or the tail when dest is OID_NULL.                                 *)
Placed(s, c) ==
    LET rest == SelectSeq(s, LAMBDA x : x # c.o)
        at == SelectInSeq(rest, LAMBDA x : x = c.dest)
    IN  IF c.dest = c.o THEN s
        ELSE IF c.dest = 0
          THEN IF c.before THEN <<c.o>> \o rest ELSE Append(rest, c.o)
          ELSE InsertAt(rest, IF c.before THEN at ELSE at + 1, c.o)

(* The lists after call c, as the documentation has it. *)
Result(c) ==
    LET Without(l) == SelectSeq(Walk(l), LAMBDA x : x # c.o)
    IN  [l \in List |->
            IF c.op \in {"insert", "insert_new", "move"} /\ l = c.l
              THEN Placed(Walk(l), c)
            ELSE IF c.op \in {"remove", "remove_free", "move"} /\ l = c.m
              THEN Without(l)
            ELSE Walk(l)]

Lists == [l \in List |-> Walk(l)]

(* "entirely completed or discarded": no step changes a list, the heap or  *)
(* the caller's handle, but the one that completes a call, and that one    *)
(* puts or removes the object exactly where dest and before say, keeps the *)
(* order of all others and changes heap and handle along with the lists.   *)
(* In particular a crash or a failure changes nothing, and a move within   *)
(* one list is right though its new links are computed from links that     *)
(* still contain the object and may be those of dest (list_move()).        *)
EntirelyOrNot ==
    [][\/ UNCHANGED <<mem, heap>>
       \/ UNCHANGED <<Lists, heap, mem[Oidp]>>
       \/ \E t \in Thread, c \in {call[u] : u \in Thread} :
            /\ c = call[t] /\ pc[t] = "process" /\ pc'[t] = "leave"
            /\ Lists' = Result(c)
            /\ heap' = CASE c.op = "insert_new" -> heap \cup {c.o}
                         [] c.op = "remove_free" -> heap \ {c.o}
                         [] OTHER -> heap
            /\ mem[Oidp]' = CASE ~c.oidp -> mem[Oidp]
                              [] c.op = "insert_new" -> c.o
                              [] OTHER -> 0]_vars

(* While a call is in progress some thread can go on: nobody waits for a   *)
(* list's lock whose holder waits for them ("Grab locks in specified order *)
(* to avoid dead-locks", list_move()).  It takes as many lanes as threads: *)
(* some calls wait for a lock with a lane in hand, others the other way.   *)
NoDeadlock ==
    (\E t \in Thread : pc[t] # "idle") => \E t \in Thread : ENABLED Step(t)

=============================================================================
