---------------------------- MODULE MCTextConsole ----------------------------
(* All strings of up to two characters.                                    *)
EXTENDS TextConsole, TLC

AllStrings == SeqOf({"a", NewLine, Return, Backspace}, 2) \ {<<>>}

Symmetric == Permutations(Cpus)
=============================================================================
