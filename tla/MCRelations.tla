----------------------------- MODULE MCRelations -----------------------------
(* Small instances of Relations for TLC. *)
EXTENDS RelationsProps, TLC

CONSTANTS a, b, c, d    \* accounts

\* a and b follow each other, c and d follow a, and b follows c.
MCFollows == {<<a, b>>, <<b, a>>, <<c, a>>, <<d, a>>, <<b, c>>}

\* a follows b and c; nobody follows back.
MCStar == {<<a, b>>, <<a, c>>}
=============================================================================
