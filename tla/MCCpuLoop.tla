----------------------------- MODULE MCCpuLoop -----------------------------
(* TLC instances of CpuLoop.                                                *)
EXTENDS CpuLoop

\* Programs that use timer A and the serial port.
AllInstrA == AllInstr \ ({"maskB"} \cup DOMAIN ControlsB)

\* A handler that acknowledges a continuous timer.
AckInstr == {"plain", "icr", "startA", "maskA"}
=============================================================================
