------------------------------- MODULE MCBTT -------------------------------
(***************************************************************************)
(* An arena for TLC.  A behaviour is one of three parts: calls of every    *)
(* kind with a crash; reads and writes of which one fails; and reads and   *)
(* writes that outlast each other, enough for a lane to be given back the  *)
(* block another one still reads.                                          *)
(***************************************************************************)
EXTENDS BTTRefinement

VARIABLE part

(* Who calls what, and what goes wrong, in each part.  The blocks of an    *)
(* arena are alike: the first call is for block 0.                         *)
Within ==
    /\ calls = 1 => \A l \in Lane : lba[l] = 0
    /\ part # "readers" => calls < MaxCall
    /\ part = "device" => fails = 0
    /\ part # "device" =>
        /\ crashes = 0
        /\ \A l \in Lane : op[l] \in {"none", "read", "write"}
    /\ part = "readers" => \A l \in Lane : buf[l] = NoBuf

ArenaInit == part \in {"device", "fault", "readers"} /\ Init
ArenaNext == Next /\ UNCHANGED part /\ Within'

ArenaSpec == ArenaInit /\ [][ArenaNext]_<<part, vars>>
=============================================================================
