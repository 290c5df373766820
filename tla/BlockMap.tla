------------------------------ MODULE BlockMap ------------------------------
(***************************************************************************)
(* What an extent-mapped file promises: a function from logical blocks to  *)
(* what backs them, and of each call which of them it may change, given    *)
(* where it was asked to work, for how many blocks, and what it answered.  *)
(***************************************************************************)
EXTENDS Integers, FiniteSets

CONSTANTS Lblks, Blocks

VARIABLES
  map,   \* what backs each logical block
  call   \* the last call: its number, what it asked for and what it answered

Hole == [at |-> 0, unwritten |-> FALSE]
Maps == [Lblks -> [at : Blocks \cup {0}, unwritten : BOOLEAN]]
\* A block that backs one place backs no second one.
Distinct(m) == \A k, l \in Lblks : k # l /\ m[k].at # 0 => m[k].at # m[l].at

Init == map \in Maps /\ Distinct(map) /\ call.no = 0

\* The first k blocks of the request, and that nothing changes outside a set.
Asked(k)   == {l \in Lblks : l >= call'.first /\ l < call'.first + k}
Only(some) == \A l \in Lblks \ some : map'[l] = map[l]

\* The blocks answered hold data now, at the place answered: a hole got a new
\* block, one block only, and what was there before stays where it was.
Write ==
  IF call'.rc # "OK" THEN Only({})
  ELSE /\ call'.got \in 1..call'.n /\ Only(Asked(call'.got))
       /\ map[call'.first] = Hole => call'.got = 1
       /\ \A l \in Asked(call'.got) :
            /\ map'[l] = [at |-> call'.at + l - call'.first, unwritten |-> FALSE]
            /\ map[l] = Hole \/ map[l].at = map'[l].at

\* Holes are reserved, from the first block on, all of them or as many as there
\* was space for; what is mapped stays.
Preallocate ==
  \E k \in 0..call'.n :
    /\ Only(Asked(k)) /\ (call'.rc = "OK" => k = call'.n)
    /\ call'.got = Cardinality({l \in Asked(k) : map[l] = Hole})
    /\ \A l \in Asked(k) : IF map[l] = Hole THEN map'[l].at # 0 /\ map'[l].unwritten ELSE map'[l] = map[l]

\* Exactly the blocks that were asked about hold data now.
MarkWritten ==
  /\ Only(Asked(call'.n))
  /\ \A l \in Asked(call'.n) : map[l].unwritten /\ map'[l] = [map[l] EXCEPT !.unwritten = FALSE]

\* Everything from a place on is gone.
Remove == \A l \in Lblks : map'[l] = IF l >= call'.first THEN Hole ELSE map[l]

Next ==
  /\ call'.no = call.no + 1
  /\ map' \in Maps /\ Distinct(map')
  /\ \/ call'.op = "write" /\ Write
     \/ call'.op = "preallocate" /\ Preallocate
     \/ call'.op = "mark" /\ MarkWritten
     \/ call'.op = "remove" /\ Remove
     \/ call'.op = "other" /\ Only({})
Spec == Init /\ [][Next]_<<map, call>>

=============================================================================
