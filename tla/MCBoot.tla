-------------------------------- MODULE MCBoot --------------------------------
(* TLC instances of Boot.                                                   *)
EXTENDS Boot

TwoTimes == <<10, 20>>
ThreeTimes == <<30, 40, 50>>
MidPoint == <<10, 45>>

GoodEye == [read |-> Samples, write |-> Grid, sid |-> Samples, edge |-> FALSE]

\* The first acquisition sees every eye of the read scan (on a C64) or of the
\* write scan (on a C128) with the others wide open, or a SID that does not
\* answer; a later one sees all or nothing.
ShutEye == [read |-> {}, write |-> {}, sid |-> {}, edge |-> FALSE]
EyesOf(occasion, machine) ==
    IF occasion # "init" THEN {GoodEye, ShutEye}
    ELSE {[GoodEye EXCEPT !.sid = {}, !.edge = b] : b \in BOOLEAN}
           \union (IF machine = "C64"
                   THEN {[GoodEye EXCEPT !.read = e] : e \in SUBSET Samples}
                   ELSE {[GoodEye EXCEPT !.write = e] : e \in SUBSET Grid})

\* A C64 and a C128, in each mode that changes what boot does.
AllConfigs ==
    {c \in [roms : BOOLEAN, machine : {"C64", "C128"}, native : BOOLEAN,
            sentinel : BOOLEAN, haltAfter : BOOLEAN] :
        /\ c.native => c.machine = "C128"
        /\ ~c.roms => ~c.native /\ ~c.sentinel /\ ~c.haltAfter
        /\ c.sentinel => ~c.native /\ ~c.haltAfter}
=============================================================================
