---------------------------- MODULE MC_DirIndex ----------------------------
EXTENDS DirIndex
\* Two names collide at 4 and three at 8; small and large names mix.
MCSize == [n \in Names |-> IF n \in {"b", "d", "f", "h"} THEN 1 ELSE 2]
MCHash == [n \in Names |-> CASE n = "a" -> 2 [] n \in {"b", "c"} -> 4 [] n = "d" -> 6
                             [] n \in {"e", "f", "g"} -> 8 [] OTHER -> 10]
MCLaid == {<<>>, <<"b", "c", "d", "f", "h">>, <<"e", "g", "f", "c", "b">>,
           <<"a", "c", "e", "g", "d", "h">>}
=============================================================================
