---------------------------- MODULE MCPromptLine ----------------------------
(***************************************************************************)
(* A prompt for TLC: lines of the words below, which spell commands with    *)
(* and without a decision, cards that follow each other, and mistakes of    *)
(* every kind.                                                              *)
(***************************************************************************)
EXTENDS PromptLine

MCToken == {Word("draw"), Word("drop"), Word("quit"), Word("wild4"),
            Word("wild_color"), Word("red"), Num(7)}

=============================================================================
