------------------------ MODULE MCFrameScheduler ------------------------
(* TLC instances of FrameScheduler.                                         *)
EXTENDS FrameScheduler

TextOnly == [text |-> 1]
=============================================================================
