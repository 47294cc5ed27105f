----------------------------- MODULE ByteString -----------------------------
(***************************************************************************)
(* What a string buffer promises: a string that grows at its end by exactly*)
(* the text that was given to it.                                          *)
(***************************************************************************)
EXTENDS Sequences

CONSTANT Bytes

VARIABLES
    contents,  \* the string
    text       \* given and not yet appended, or <<>>

Init == contents = <<>> /\ text = <<>>

Give ==
    /\ text = <<>>
    /\ text' \in Seq(Bytes)
    /\ UNCHANGED contents

Take ==
    /\ contents' = contents \o text
    /\ text' = <<>>

Next == Give \/ Take

Spec == Init /\ [][Next]_<<contents, text>>
=============================================================================
