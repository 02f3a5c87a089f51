------------------------------ MODULE MCVICLog ------------------------------
(* Small instances of VICLog.  MCVICLog.cfg: a ring of three events, one     *)
(* line above the picture and three in it, explored in the scopes below;     *)
(* MCVICLogClaims.cfg: a ring of two events and frames of two lines;         *)
(* MCVICLogRowsClaim.cfg: one line above the picture and two in it.          *)
EXTENDS VICLog

\* Up to MaxWrites writes of the matrix register and of the compare line, with
\* the beam anywhere: the splits of a frame, and a ring that is overrun.
Splitting ==
  /\ enabled /\ gen = 1 /\ rstep = "idle" /\ attempt = 1
  /\ \A e \in {ring[s] : s \in DOMAIN ring} \cup ({pending} \ {None}) :
        e.reg \in {"d018", "compare"}
  /\ \A b \in Bases : ram[b] = 0

\* Anything the producer can do, two times with the beam anywhere and three
\* times at the start of a frame.
Mixing == writes <= 2 \/ (writes <= 3 /\ clock <= 1)

Scopes == Splitting \/ Mixing
=============================================================================
