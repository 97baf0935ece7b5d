---------------------------- MODULE BlockDevice ----------------------------
(***************************************************************************)
(* What a BTT promises its callers: an array of blocks whose operations    *)
(* take effect at one moment between call and return, and a crash that     *)
(* leaves every block whole.  A call the crash interrupts took effect or   *)
(* did not.                                                                *)
(*                                                                         *)
(* set_zero and set_error are weaker than write: they leave no trace in    *)
(* the flog, so until such a call has settled a crash may take it back     *)
(* although others have seen its effect.                                   *)
(***************************************************************************)
EXTENDS Integers

CONSTANTS
    Lba, Client,
    Buffer,         \* what a caller may write
    Blank,          \* the buffer of contents that have none
    MayFail         \* whether writes may fail

VARIABLES dev, call

Content == [kind : {"data", "zeros", "error"}, d : Buffer]
Zeros  == [kind |-> "zeros", d |-> Blank]
Error  == [kind |-> "error", d |-> Blank]
Ok     == [kind |-> "ok", d |-> Blank]
Written(d) == [kind |-> "data", d |-> d]

NoCall == [st |-> "idle", op |-> "none", lba |-> -1, arg |-> Zeros, res |-> Ok, undo |-> Zeros]

Init ==
    /\ dev = [x \in Lba |-> Zeros]
    /\ call = [c \in Client |-> NoCall]

\* The value each operation leaves in its block (a read leaves none).
Argument(o, d) ==
    CASE o = "write" -> Written(d) [] o = "error" -> Error [] OTHER -> Zeros

Invoke(c, o, x, d) ==
    /\ call' = [call EXCEPT ![c] = [NoCall EXCEPT !.st = "called", !.op = o, !.lba = x,
                                                  !.arg = Argument(o, d)]]
    /\ UNCHANGED dev

Enter(c) ==
    /\ call[c].st = "idle"
    /\ \E o \in {"read", "write", "zero", "error"}, x \in Lba, d \in Buffer :
          Invoke(c, o, x, d)

Read(c) ==
    /\ call[c].st = "called" /\ call[c].op = "read"
    /\ call' = [call EXCEPT ![c].st = "done", ![c].res = dev[call[c].lba]]
    /\ UNCHANGED dev

Write(c) ==
    /\ call[c].st = "called" /\ call[c].op = "write"
    /\ dev' = [dev EXCEPT ![call[c].lba] = call[c].arg]
    /\ call' = [call EXCEPT ![c].st = "done"]

Mark(c) ==
    /\ call[c].st = "called" /\ call[c].op \in {"zero", "error"}
    /\ dev' = [dev EXCEPT ![call[c].lba] = call[c].arg]
    /\ call' = [call EXCEPT ![c].st = "marked", ![c].undo = dev[call[c].lba]]

Settle(c) ==
    /\ call[c].st = "marked"
    /\ call' = [call EXCEPT ![c].st = "done", ![c].undo = Zeros]
    /\ UNCHANGED dev

AlreadyZero(c) ==
    /\ call[c].st = "called" /\ call[c].op = "zero" /\ dev[call[c].lba] = Zeros
    /\ call' = [call EXCEPT ![c].st = "done"]
    /\ UNCHANGED dev

Fail(c) ==
    /\ MayFail /\ call[c].st = "called" /\ call[c].op # "read"
    /\ call' = [call EXCEPT ![c].st = "done", ![c].res = Error]
    /\ UNCHANGED dev

Return(c) ==
    /\ call[c].st = "done"
    /\ call' = [call EXCEPT ![c] = NoCall]
    /\ UNCHANGED dev

AfterCrash(x) ==
    {dev[x]}
    \cup {call[c].arg : c \in {c \in Client : call[c].st = "called" /\ call[c].op = "write"
                                              /\ call[c].lba = x}}
    \cup {call[c].undo : c \in {c \in Client : call[c].st = "marked" /\ call[c].lba = x}}

Crash ==
    /\ call' = [c \in Client |-> NoCall]
    /\ DOMAIN dev' = Lba
    /\ \A x \in Lba : dev'[x] \in AfterCrash(x)

Next ==
    \/ \E c \in Client :
        \/ Enter(c) \/ Read(c) \/ Write(c) \/ Mark(c) \/ Settle(c) \/ AlreadyZero(c)
        \/ Fail(c) \/ Return(c)
    \/ Crash

Spec == Init /\ [][Next]_<<dev, call>>
=============================================================================
