----------------------------- MODULE MCTerminal -----------------------------
(* A page of a few cells, so that every string wraps it; one string with a *)
(* newline and one that fills a line, one word in hexadecimal.             *)
EXTENDS Terminal

A == 65
MCStrings == {<<A>>, <<A, NL>>}
MCChars   == {NL, A + 1}
OneChar   == {NL, A}
MCWords   == {10}
MCColors  == {7, 112}
NoWords   == {}

=============================================================================
