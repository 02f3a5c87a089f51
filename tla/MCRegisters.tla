------------------------------ MODULE MCRegisters ------------------------------
(* Register file and decoders: one address of every range the code tells apart. *)
EXTENDS Registers

MCAddrs ==
    {0, 1, \h0200, \h1000, \h5FFF, \h6000, \h8000, \h9FFF, \hA000, \hC000, \hCFFF,
     \hD011, \hD071, \hD0B2, \hD200, \hD27E, \hD3FF, \hD500, \hD50C, \hD600, \hD800,
     \hDD00, \hE000, \hFF00, \hFF04, \hFF05, \hFFE4, \hFFFE}

\* A SuperCPU with and without its boot ROM, one without a ROM, and the 128.
MCConfigs ==
    {[scpu128 |-> FALSE, romLength |-> 131072, bootEnabled |-> TRUE, simmSize |-> 16],
     [scpu128 |-> FALSE, romLength |-> 65536, bootEnabled |-> FALSE, simmSize |-> 4],
     [scpu128 |-> FALSE, romLength |-> 0, bootEnabled |-> TRUE, simmSize |-> 0],
     [scpu128 |-> TRUE, romLength |-> 131072, bootEnabled |-> TRUE, simmSize |-> 1]}

\* Reset values of both machines, BASIC, and a VIC bank chosen by the B flag.
MCOptimWrites == {{0, 2, 6, 7}, {2, 6}}

\* Everything, RAM only, RAM and character ROM, and the lines left floating.
MCPortWrites ==
    {<<{0, 1, 2}, {0, 1, 2}>>, <<{0, 1, 2}, {}>>, <<{0, 1, 2}, {1}>>, <<{0, 1, 2}, {0, 2}>>,
     <<{}, {}>>}
================================================================================
