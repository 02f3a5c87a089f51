------------------------------- MODULE MCREU -------------------------------
(***************************************************************************)
(* Small instance of REU: two values to a register byte, so four C64 bytes *)
(* and a length of zero meaning four; two expansion bytes fitted, fewer    *)
(* than the registers address, so a long transfer laps the expansion.      *)
(***************************************************************************)
EXTENDS REU, TLC

MCC64 == 0 :> "a" @@ 1 :> "b" @@ 2 :> "c" @@ 3 :> "d"
MCExp == 0 :> "a" @@ 1 :> "e"
MCStores == {<<3, "d">>, <<0, "e">>}
MCCommands ==
    {[type |-> t, autoload |-> l, execute |-> TRUE, now |-> n] :
        t \in {"stash", "fetch", "swap", "verify"}, l \in BOOLEAN, n \in BOOLEAN}
    \cup {[type |-> "fetch", autoload |-> FALSE, execute |-> FALSE, now |-> TRUE]}
MCControls == {{"c64"}, {"reu"}}
MCMasks == {{"on", "done"}, {"on", "fault"}}
=============================================================================
