---------------------------- MODULE LogConstants ----------------------------
(***************************************************************************)
(* The parameters of PmemLog.                                              *)
(***************************************************************************)
EXTENDS Integers, Sequences

CONSTANTS Thread, Val,
          Cap,                 \* end_offset - start_offset
          AppendArg, ChunkArg, \* the buffers and chunk sizes callers pass
          MaxCalls, MaxCrash

NoOne == "no one"
Junk == "junk"  \* a byte nobody appended

ASSUME LogAssumption ==
    /\ NoOne \notin Thread /\ Junk \notin Val
    /\ Cap \in Nat /\ AppendArg \subseteq Seq(Seq(Val)) /\ ChunkArg \subseteq Nat
    /\ MaxCalls \in Nat /\ MaxCrash \in Nat

=============================================================================
