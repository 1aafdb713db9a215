----------------------------- MODULE MCInherit -----------------------------
(* Inherit with a few eclasses; the argument lists are short sequences.    *)
EXTENDS Inherit, TLC

CONSTANTS a, b

Lists == {<<a>>, <<b>>, <<a, b>>}
EqualNames == {<<a, a>>, <<b, b>>}
PartialNames == EqualNames \cup {<<a, b>>}
============================================================================
