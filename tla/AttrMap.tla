------------------------------ MODULE AttrMap ------------------------------
(***************************************************************************)
(* What extended attributes promise: every file has a map from names to    *)
(* values.  A request that is answered OK changes exactly what it named,   *)
(* and one that is refused changes nothing.                                *)
(***************************************************************************)
CONSTANTS
  Files, Names,
  Values,   \* the values an attribute may have
  None      \* no value

VARIABLES
  attrs,    \* attrs[f][n]: the value of attribute n of file f, or None
  ans       \* the last request answered: its file, name and value, and the error

NoAttrs == [n \in Names |-> None]

Init ==
  /\ attrs \in [Files -> [Names -> Values \cup {None}]]
  /\ ans.rc = "OK"

\* setxattr, or removexattr where the value is None.
Answer(f, n, val, rc) ==
  /\ ans' = [rc |-> rc, f |-> f, n |-> n, val |-> val]
  /\ attrs' = IF rc = "OK" THEN [attrs EXCEPT ![f][n] = val] ELSE attrs

\* The file is deleted and its inode becomes another file's.
Replace(f) ==
  /\ UNCHANGED ans
  /\ attrs' = [attrs EXCEPT ![f] = NoAttrs]

Next ==
  \/ \E f \in Files, n \in Names, val \in Values \cup {None}, 
            rc \in {"OK", "ENOSPC", "EIO", "ENOATTR", "EEXIST"} : Answer(f, n, val, rc)
  \/ \E f \in Files : Replace(f)

Spec == Init /\ [][Next]_<<attrs, ans>>
=============================================================================
