----------------------------- MODULE MCGlobMatch -----------------------------
(* Every pattern and every name up to a length. *)
EXTENDS GlobMatch

CONSTANT MaxLen       \* bound: how long patterns and names are

UpTo(chars) == UNION {[1 .. k -> chars] : k \in 0 .. MaxLen}

MCPatterns == UpTo(Char)
MCNames == UpTo(Char \ {Star})
==============================================================================
