----------------------------- MODULE MCWriteBuffer -----------------------------
(***************************************************************************)
(* Small instances of WriteBuffer for TLC; every block has one byte.       *)
(***************************************************************************)
EXTENDS WriteBuffer

Byte(b) == <<b, 0>>
Bytes(bs) == {Byte(b) : b \in bs}

\* Modes that mirror all blocks, none of them, or only the last one.
TinyRange == [m \in OptMode |-> CASE m = "full"  -> <<TopBlock, 0>>
                                 [] m = "bank3" -> <<TopBlock, TopBlock>>
                                 [] OTHER       -> <<0, TopBlock>>]
TinyPolicies == {<<"default", TRUE>>, <<"none", FALSE>>}
OnOff == {<<"default", TRUE>>, <<"full", FALSE>>}
OnePolicy == {<<"default", TRUE>>}

\* A border drain, a display-time drain that spares block 0 and the hot
\* shapes, and the border's priority drain of block 0.
Plain    == NoArgs
Visible  == [only |-> FALSE, hotWait |-> TRUE, screen |-> Bytes({0}), bitmap |-> {}]
Priority == [only |-> TRUE, hotWait |-> FALSE, screen |-> Bytes({0}), bitmap |-> {}]
PlainDrain == {Plain}
TwoDrains  == {Plain, Visible}
AllDrains  == {Plain, Visible, Priority}

NoHot  == {{}}
SomeHot == {{}, {1}}
Pointer1 == Bytes({1})
Pointer2 == Bytes({2})
Rows12 == Bytes({1, 2})
Rows01 == Bytes({0, 1})
NoRow == {}
Shown01 == {<<Byte(0), Byte(1)>>}
Shown12 == {<<Byte(1), Byte(2)>>}
================================================================================
