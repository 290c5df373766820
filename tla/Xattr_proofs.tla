---------------------------- MODULE Xattr_proofs ----------------------------
(***************************************************************************)
(* Extended attributes, proved for any number of files, names, blocks,     *)
(* values and requests, and areas of any size: an area holds the values    *)
(* that its entries say (by the area), a request changes one attribute of  *)
(* its file and the blocks of no other (by the file), and the volume's     *)
(* references and sizes stay right (by the volume).                        *)
(***************************************************************************)
EXTENDS Xattr, FiniteSetTheorems, WellFoundedInduction, TLAPS

\* The least of a set of numbers.
LEMMA MinIs ==
  ASSUME NEW S, S \subseteq Nat, S # {}
  PROVE  Min(S) \in S /\ \A x \in S : Min(S) <= x
<1>1. \E x \in S : \A y \in S : ~ (<<y, x>> \in OpToRel(<, Nat))
  BY NatLessThanWellFounded, WFMin
<1>2. PICK x \in S : \A y \in S : ~ (<<y, x>> \in OpToRel(<, Nat)) BY <1>1
<1>3. \A y \in S : x <= y
  <2>. TAKE y \in S
  <2>1. x \in Nat /\ y \in Nat OBVIOUS
  <2>2. ~ (<<y, x>> \in OpToRel(<, Nat)) BY <1>2
  <2>3. ~ (y < x) BY <2>1, <2>2 DEF OpToRel
  <2>. QED BY <2>1, <2>3
<1>4. \E z \in S : \A y \in S : z <= y BY <1>3
<1>. QED BY <1>4 DEF Min

-----------------------------------------------------------------------------
(* An area.                                                                *)

Entry == [name : Names, off : Nat, len : Nat]
Area0(k) == [magic : BOOLEAN, ents : Seq(Entry), mem : [0 .. Room(k) - 1 -> Tokens \cup {None}]]
Kinds == {"body", "block"}

\* The units of entry i are those of one value.
Holds(a, i) == \E v \in Values :
  v.len = a.ents[i].len /\ \A o \in a.ents[i].off .. a.ents[i].off + a.ents[i].len - 1 : a.mem[o] = v.tok

Apart(a, i, j) ==
  \/ a.ents[i].off + a.ents[i].len <= a.ents[j].off
  \/ a.ents[j].off + a.ents[j].len <= a.ents[i].off

\* The entries have different names, and those with a value, entry p aside,
\* have it in units of their own from low on.
Laid(a, k, p, low) ==
  /\ a \in Area0(k)
  /\ \A i, j \in DOMAIN a.ents : i # j => a.ents[i].name # a.ents[j].name
  /\ \A i \in DOMAIN a.ents \ {p} : a.ents[i].len # 0 =>
       low <= a.ents[i].off /\ a.ents[i].off + a.ents[i].len <= Room(k)
  /\ \A i \in DOMAIN a.ents \ {p} : Holds(a, i)
  /\ \A i, j \in DOMAIN a.ents \ {p} :
       i # j /\ a.ents[i].len # 0 /\ a.ents[j].len # 0 => Apart(a, i, j)

Packed(a, k) == Laid(a, k, 0, End(a, k) + 1) /\ End(a, k) < Room(k)
Unshifted(a) == \A i \in DOMAIN a.ents : a.ents[i].len = 0 => a.ents[i].off = 0

\* The sizes of areas are numbers.
LEMMA RoomNat == ASSUME NEW k \in Kinds PROVE Room(k) \in Nat \ {0} /\ First(k) \in Nat
BY XattrAssumption DEF Room, First, Kinds

\* A value is its length and, unless it is empty, what its units hold.
LEMMA ValuesAre ==
  /\ Nothing \in Values /\ None \notin Values
  /\ \A v \in Values : v.len \in Nat /\ (v.len = 0 => v = Nothing) /\ v = [tok |-> v.tok, len |-> v.len]
  /\ \A v \in Values : v # Nothing => v.tok \in Tokens
  /\ \A v, w \in Values : v.len = w.len /\ v.tok = w.tok => v = w
BY XattrAssumption DEF Values, Nothing

\* What is read of an entry that holds a value.
LEMMA ReadIs ==
  ASSUME NEW k \in Kinds, NEW a, a \in Area0(k), NEW i \in DOMAIN a.ents,
         a.ents[i].len # 0 => a.ents[i].off + a.ents[i].len <= Room(k),
         NEW v \in Values, v.len = a.ents[i].len,
         \A o \in a.ents[i].off .. a.ents[i].off + a.ents[i].len - 1 : a.mem[o] = v.tok
  PROVE  Read(a, i) = v
<1>. DEFINE e == a.ents[i]
            units == {a.mem[o] : o \in DOMAIN a.mem \cap (e.off .. e.off + e.len - 1)}
<1>0. Room(k) \in Nat BY RoomNat
<1>1. e \in Entry /\ DOMAIN a.mem = 0 .. Room(k) - 1 BY DEF Area0
<1>2. e.off \in Nat /\ e.len \in Nat BY <1>1 DEF Entry
<1>3. CASE e.len = 0 BY <1>3, ValuesAre DEF Read
<1>4. CASE e.len # 0
  <2>1. DOMAIN a.mem \cap (e.off .. e.off + e.len - 1) = e.off .. e.off + e.len - 1
    BY <1>0, <1>1, <1>2, <1>4
  <2>2. e.off \in e.off .. e.off + e.len - 1 BY <1>2, <1>4
  <2>3. units = {v.tok} BY <2>1, <2>2
  <2>4. Cardinality(units) = 1 BY <2>3, FS_Singleton
  <2>5. (CHOOSE t \in units : TRUE) = v.tok BY <2>3
  <2>6. Read(a, i) = [tok |-> v.tok, len |-> v.len] BY <1>4, <2>4, <2>5 DEF Read
  <2>. QED BY <2>6, ValuesAre
<1>. QED BY <1>3, <1>4

\* A value that is held by the units of two areas is read from both.
LEMMA ReadSame ==
  ASSUME NEW k \in Kinds, NEW a, a \in Area0(k), NEW c, c \in Area0(k),
         NEW i \in DOMAIN a.ents, NEW j \in DOMAIN c.ents, Holds(a, i),
         a.ents[i].len # 0 => a.ents[i].off + a.ents[i].len <= Room(k),
         c.ents[j].len # 0 => c.ents[j].off + c.ents[j].len <= Room(k),
         a.ents[i].len = c.ents[j].len,
         \A o \in 0 .. a.ents[i].len - 1 : a.mem[a.ents[i].off + o] = c.mem[c.ents[j].off + o]
  PROVE  Holds(c, j) /\ Read(c, j) = Read(a, i) /\ Read(a, i) \in Values
<1>. PICK v \in Values :
       /\ v.len = a.ents[i].len
       /\ \A o \in a.ents[i].off .. a.ents[i].off + a.ents[i].len - 1 : a.mem[o] = v.tok
  BY DEF Holds
<1>1. Read(a, i) = v BY ReadIs
<1>2. a.ents[i].off \in Nat /\ a.ents[i].len \in Nat /\ c.ents[j].off \in Nat
  <2>1. a.ents \in Seq(Entry) /\ c.ents \in Seq(Entry) BY DEF Area0
  <2>2. a.ents[i] \in Entry /\ c.ents[j] \in Entry BY <2>1
  <2>. QED BY <2>2 DEF Entry
<1>3. ASSUME NEW o \in c.ents[j].off .. c.ents[j].off + c.ents[j].len - 1 PROVE c.mem[o] = v.tok
  <2>. DEFINE x == o - c.ents[j].off
  <2>1. x \in 0 .. a.ents[i].len - 1 /\ o = c.ents[j].off + x BY <1>2
  <2>2. a.mem[a.ents[i].off + x] = v.tok BY <1>2, <2>1
  <2>. QED BY <2>1, <2>2
<1>4. Read(c, j) = v BY <1>3, ReadIs
<1>. QED BY <1>1, <1>3, <1>4 DEF Holds

\* The facts about the entries of an area the provers use.
LEMMA EntriesAre ==
  ASSUME NEW k \in Kinds, NEW a, a \in Area0(k)
  PROVE  /\ a.ents \in Seq(Entry) /\ DOMAIN a.ents = 1 .. Len(a.ents) /\ Len(a.ents) \in Nat
         /\ \A i \in DOMAIN a.ents :
              /\ a.ents[i] \in Entry /\ a.ents[i].name \in Names
              /\ a.ents[i].off \in Nat /\ a.ents[i].len \in Nat
         /\ a.mem \in [0 .. Room(k) - 1 -> Tokens \cup {None}] /\ a.magic \in BOOLEAN
         /\ End(a, k) \in Nat /\ End(a, k) = First(k) + NameLen * Len(a.ents)
<1>1. a.ents \in Seq(Entry) BY DEF Area0
<1>2. Len(a.ents) \in Nat /\ DOMAIN a.ents = 1 .. Len(a.ents) BY <1>1
<1>3. \A i \in DOMAIN a.ents : a.ents[i] \in Entry BY <1>1
<1>4. NameLen \in Nat BY XattrAssumption
<1>5. End(a, k) = First(k) + NameLen * Len(a.ents) BY DEF End
<1>6. NameLen * Len(a.ents) \in Nat BY <1>2, <1>4
<1>. QED BY <1>1, <1>2, <1>3, <1>5, <1>6, RoomNat DEF Area0, Entry

\* Where the first value starts.
Low(a, k) == Min({Room(k)} \cup Offs(a))

\* The values start behind the terminator.
LEMMA LowIs ==
  ASSUME NEW k \in Kinds, NEW a, Packed(a, k), Unshifted(a)
  PROVE  /\ Low(a, k) \in Nat /\ End(a, k) < Low(a, k) /\ Low(a, k) <= Room(k)
         /\ \A i \in DOMAIN a.ents : a.ents[i].len # 0 => Low(a, k) <= a.ents[i].off
         /\ \A i \in DOMAIN a.ents : a.ents[i].len = 0 <=> a.ents[i].off = 0
<1>0. a \in Area0(k) BY DEF Packed, Laid
<1>1. Room(k) \in Nat BY RoomNat
<1>2. \A i \in DOMAIN a.ents : a.ents[i].len # 0 =>
        a.ents[i].off \in Offs(a) /\ End(a, k) + 1 <= a.ents[i].off
  BY EntriesAre, <1>0 DEF Packed, Laid, Offs
<1>3. \A o \in Offs(a) : o \in Nat /\ End(a, k) + 1 <= o
  BY <1>0, <1>2, EntriesAre DEF Offs
<1>. DEFINE S == {Room(k)} \cup Offs(a)
<1>4. S \subseteq Nat /\ S # {} BY <1>1, <1>3
<1>5. Min(S) \in S /\ \A x \in S : Min(S) <= x BY <1>4, MinIs
<1>6. End(a, k) \in Nat BY <1>0, EntriesAre
<1>7. \A x \in S : End(a, k) < x BY <1>1, <1>3, <1>6 DEF Packed
<1>8. Low(a, k) \in Nat /\ End(a, k) < Low(a, k) /\ Low(a, k) <= Room(k)
  BY <1>1, <1>4, <1>5, <1>7 DEF Low
<1>9. \A i \in DOMAIN a.ents : a.ents[i].len # 0 => Low(a, k) <= a.ents[i].off
  BY <1>2, <1>5 DEF Low
<1>10. \A i \in DOMAIN a.ents : a.ents[i].len = 0 <=> a.ents[i].off = 0
  BY <1>0, <1>6, <1>2, EntriesAre DEF Unshifted
<1>. QED BY <1>8, <1>9, <1>10

\* c is a with the values of all entries but p kept.
Keeps(a, c, p) ==
  /\ c.magic = a.magic /\ DOMAIN c.ents = DOMAIN a.ents
  /\ \A i \in DOMAIN a.ents : c.ents[i].name = a.ents[i].name
  /\ \A i \in DOMAIN a.ents \ {p} : Read(c, i) = Read(a, i)

\* Compacting makes room for the value of entry p below the others.
LEMMA CompactKeeps ==
  ASSUME NEW k \in Kinds, NEW a, Packed(a, k), Unshifted(a), NEW p \in DOMAIN a.ents, NEW c,
         c = Compact(a, Low(a, k), a.ents[p].off, a.ents[p].len)
  PROVE  /\ Laid(c, k, p, IF a.ents[p].off # 0 THEN Low(a, k) + a.ents[p].len ELSE Low(a, k))
         /\ Keeps(a, c, p)
         /\ Len(c.ents) = Len(a.ents) /\ End(c, k) = End(a, k)
         /\ Low(a, k) + a.ents[p].len <= Room(k)
<1>. DEFINE off == a.ents[p].off
            len == a.ents[p].len
            low == Low(a, k)
            E(i) == IF a.ents[i].off < off THEN [a.ents[i] EXCEPT !.off = @ + len] ELSE a.ents[i]
            M(o) == IF o \in low .. low + len - 1 THEN None
                    ELSE IF o \in low .. off + len - 1 THEN a.mem[o - len] ELSE a.mem[o]
<1>0. a \in Area0(k) BY DEF Packed, Laid
<1>1. /\ a.ents \in Seq(Entry) /\ DOMAIN a.ents = 1 .. Len(a.ents) /\ Len(a.ents) \in Nat
      /\ \A i \in DOMAIN a.ents : /\ a.ents[i] \in Entry /\ a.ents[i].name \in Names
                                  /\ a.ents[i].off \in Nat /\ a.ents[i].len \in Nat
      /\ a.mem \in [0 .. Room(k) - 1 -> Tokens \cup {None}] /\ a.magic \in BOOLEAN
      /\ End(a, k) \in Nat
  BY <1>0, EntriesAre
<1>2. /\ low \in Nat /\ low <= Room(k) /\ Room(k) \in Nat /\ End(a, k) < low
      /\ \A i \in DOMAIN a.ents : a.ents[i].len # 0 => low <= a.ents[i].off
      /\ \A i \in DOMAIN a.ents : a.ents[i].len = 0 <=> a.ents[i].off = 0
  BY LowIs, RoomNat
<1>3. /\ c.magic = a.magic
      /\ c.ents = [i \in DOMAIN a.ents |-> E(i)]
      /\ c.mem = IF off = 0 THEN a.mem ELSE [o \in DOMAIN a.mem |-> M(o)]
      /\ c = [magic |-> a.magic, ents |-> c.ents, mem |-> c.mem]
  <2>1. a = [magic |-> a.magic, ents |-> a.ents, mem |-> a.mem] BY <1>0 DEF Area0
  <2>2. c = [magic |-> a.magic,
             ents |-> [i \in DOMAIN a.ents |-> E(i)],
             mem |-> IF off = 0 THEN a.mem ELSE [o \in DOMAIN a.mem |-> M(o)]]
    BY <2>1 DEF Compact
  <2>. QED BY <2>2
<1>4. off \in Nat /\ len \in Nat /\ (len # 0 => low <= off /\ off + len <= Room(k)) /\ (len = 0 <=> off = 0)
  <2>1. p \notin {0} BY <1>1
  <2>2. len # 0 => off + len <= Room(k) BY <2>1 DEF Packed, Laid
  <2>. QED BY <1>1, <1>2, <2>2
<1>. HIDE DEF low, off, len
<1>5. \A i \in DOMAIN a.ents : E(i) \in Entry /\ E(i).name = a.ents[i].name /\ E(i).len = a.ents[i].len
                               /\ E(i).off = IF a.ents[i].off < off THEN a.ents[i].off + len ELSE a.ents[i].off
  <2>. TAKE i \in DOMAIN a.ents
  <2>1. a.ents[i] \in Entry BY <1>1
  <2>2. a.ents[i].off + len \in Nat BY <1>1, <1>4
  <2>. QED BY <2>1, <2>2 DEF Entry
<1>6. c.ents \in Seq(Entry) /\ DOMAIN c.ents = DOMAIN a.ents /\ Len(c.ents) = Len(a.ents)
  BY <1>1, <1>3, <1>5
<1>7. c.mem \in [0 .. Room(k) - 1 -> Tokens \cup {None}]
  <2>1. CASE off = 0 BY <1>1, <1>3, <2>1
  <2>2. CASE off # 0
    <3>1. \A o \in 0 .. Room(k) - 1 : M(o) \in Tokens \cup {None}
      <4>. TAKE o \in 0 .. Room(k) - 1
      <4>1. CASE o \in low .. low + len - 1 BY <4>1
      <4>2. CASE o \notin low .. low + len - 1 /\ o \in low .. off + len - 1
        <5>1. o - len \in 0 .. Room(k) - 1 BY <4>2, <1>2, <1>4
        <5>. QED BY <4>2, <5>1, <1>1
      <4>3. CASE o \notin low .. low + len - 1 /\ o \notin low .. off + len - 1 BY <4>3, <1>1
      <4>. QED BY <4>1, <4>2, <4>3
    <3>2. c.mem = [o \in 0 .. Room(k) - 1 |-> M(o)] BY <1>1, <1>3, <2>2
    <3>. HIDE DEF M
    <3>. QED BY <3>1, <3>2
  <2>. QED BY <2>1, <2>2
<1>8. c \in Area0(k) BY <1>1, <1>3, <1>6, <1>7 DEF Area0
<1>9. \A i \in DOMAIN a.ents : /\ c.ents[i].name = a.ents[i].name /\ c.ents[i].len = a.ents[i].len
                               /\ c.ents[i].off = IF a.ents[i].off < off THEN a.ents[i].off + len ELSE a.ents[i].off
  BY <1>3, <1>5
<1>. HIDE DEF E
<1>10. \A i \in DOMAIN a.ents \ {p} : a.ents[i].len # 0 /\ len # 0 =>
         \/ a.ents[i].off + a.ents[i].len <= off /\ a.ents[i].off < off
         \/ off + len <= a.ents[i].off
  <2>. TAKE i \in DOMAIN a.ents \ {p}
  <2>0. HAVE a.ents[i].len # 0 /\ len # 0
  <2>1. i # 0 /\ p # 0 BY <1>1
  <2>2. Apart(a, i, p) BY <2>0, <2>1 DEF Packed, Laid, len
  <2>. QED BY <2>0, <2>2, <1>1, <1>4 DEF Apart, off, len
<1>11. \A i \in DOMAIN a.ents : a.ents[i].len # 0 => a.ents[i].off + a.ents[i].len <= Room(k)
  <2>1. 0 \notin DOMAIN a.ents BY <1>1
  <2>. QED BY <2>1 DEF Packed, Laid
<1>12. \A i \in DOMAIN a.ents \ {p} : c.ents[i].len # 0 =>
         /\ (IF off # 0 THEN low + len ELSE low) <= c.ents[i].off /\ c.ents[i].off + c.ents[i].len <= Room(k)
  <2>. TAKE i \in DOMAIN a.ents \ {p}
  <2>0. HAVE c.ents[i].len # 0
  <2>1. CASE len = 0 BY <2>0, <2>1, <1>1, <1>2, <1>4, <1>9, <1>11
  <2>2. CASE len # 0
    <3>1. \/ a.ents[i].off + a.ents[i].len <= off /\ a.ents[i].off < off
          \/ off + len <= a.ents[i].off BY <2>0, <2>2, <1>9, <1>10
    <3>2. /\ c.ents[i].len = a.ents[i].len /\ a.ents[i].len \in Nat /\ a.ents[i].off \in Nat
          /\ c.ents[i].off = IF a.ents[i].off < off THEN a.ents[i].off + len ELSE a.ents[i].off
          /\ low <= a.ents[i].off /\ a.ents[i].off + a.ents[i].len <= Room(k)
      BY <2>0, <1>1, <1>2, <1>9, <1>11
    <3>. QED BY <2>2, <3>1, <3>2, <1>2, <1>4
  <2>. QED BY <2>1, <2>2
<1>13. \A i \in DOMAIN a.ents \ {p} : \A o \in 0 .. a.ents[i].len - 1 :
          a.mem[a.ents[i].off + o] = c.mem[c.ents[i].off + o]
  <2>. TAKE i \in DOMAIN a.ents \ {p}
  <2>. TAKE o \in 0 .. a.ents[i].len - 1
  <2>0. a.ents[i].len # 0 /\ o \in Nat /\ o < a.ents[i].len BY <1>1
  <2>00. /\ c.ents[i].len = a.ents[i].len /\ a.ents[i].len \in Nat /\ a.ents[i].off \in Nat
         /\ c.ents[i].off = IF a.ents[i].off < off THEN a.ents[i].off + len ELSE a.ents[i].off
         /\ low <= a.ents[i].off /\ a.ents[i].off + a.ents[i].len <= Room(k)
         /\ (IF off # 0 THEN low + len ELSE low) <= c.ents[i].off /\ c.ents[i].off + c.ents[i].len <= Room(k)
    BY <2>0, <1>1, <1>2, <1>9, <1>11, <1>12
  <2>1. CASE off = 0
    <3>1. c.ents[i].off = a.ents[i].off BY <2>1, <2>00
    <3>2. c.mem = a.mem BY <2>1, <1>3
    <3>. QED BY <3>1, <3>2
  <2>2. CASE off # 0
    <3>1. \/ a.ents[i].off + a.ents[i].len <= off /\ a.ents[i].off < off
          \/ off + len <= a.ents[i].off BY <2>0, <2>2, <1>4, <1>10
    <3>2. c.ents[i].off + o \in 0 .. Room(k) - 1
      <4>1. c.ents[i].off \in Nat BY <2>00, <1>4
      <4>. QED BY <4>1, <2>0, <2>00, <1>2
    <3>3. c.mem[c.ents[i].off + o] = M(c.ents[i].off + o)
      <4>. HIDE DEF M
      <4>. QED BY <3>2, <2>2, <1>1, <1>3
    <3>4. low <= a.ents[i].off BY <2>0, <1>2
    <3>5. CASE a.ents[i].off + a.ents[i].len <= off /\ a.ents[i].off < off
      <4>1. c.ents[i].off = a.ents[i].off + len BY <3>5, <1>9
      <4>2. c.ents[i].off + o \notin low .. low + len - 1 /\ c.ents[i].off + o \in low .. off + len - 1
        BY <4>1, <3>5, <2>0, <2>00, <1>2, <1>4
      <4>3. (c.ents[i].off + o) - len = a.ents[i].off + o BY <4>1, <1>1, <1>4, <2>0
      <4>. QED BY <3>3, <4>2, <4>3
    <3>6. CASE off + len <= a.ents[i].off
      <4>1. c.ents[i].off = a.ents[i].off BY <3>6, <1>9, <1>1, <1>4
      <4>2. c.ents[i].off + o \notin low .. low + len - 1 /\ c.ents[i].off + o \notin low .. off + len - 1
        BY <4>1, <3>6, <2>0, <2>00, <1>2, <1>4
      <4>. QED BY <3>3, <4>1, <4>2
    <3>. QED BY <3>1, <3>5, <3>6
  <2>. QED BY <2>1, <2>2
<1>14. \A i \in DOMAIN a.ents \ {p} : Holds(c, i) /\ Read(c, i) = Read(a, i)
  <2>. TAKE i \in DOMAIN a.ents \ {p}
  <2>1. Holds(a, i)
    <3>1. i # 0 BY <1>1
    <3>. QED BY <3>1 DEF Packed, Laid
  <2>2. a.ents[i].len # 0 => a.ents[i].off + a.ents[i].len <= Room(k) BY <1>11
  <2>3. c.ents[i].len # 0 => c.ents[i].off + c.ents[i].len <= Room(k) BY <1>12
  <2>4. a.ents[i].len = c.ents[i].len /\ i \in DOMAIN c.ents BY <1>6, <1>9
  <2>5. \A o \in 0 .. a.ents[i].len - 1 : a.mem[a.ents[i].off + o] = c.mem[c.ents[i].off + o]
    BY <1>13
  <2>6. Holds(c, i) /\ Read(c, i) = Read(a, i) BY ONLY k \in Kinds, <2>1, <2>2, <2>3, <2>4, <2>5, <1>0, <1>8, ReadSame, i \in DOMAIN a.ents
  <2>. QED BY <2>6
<1>15. \A i, j \in DOMAIN c.ents \ {p} :
         i # j /\ c.ents[i].len # 0 /\ c.ents[j].len # 0 => Apart(c, i, j)
  <2>. TAKE i, j \in DOMAIN c.ents \ {p}
  <2>0. HAVE i # j /\ c.ents[i].len # 0 /\ c.ents[j].len # 0
  <2>1. Apart(a, i, j)
    <3>1. 0 \notin DOMAIN a.ents BY <1>1
    <3>. QED BY <2>0, <3>1, <1>6, <1>9 DEF Packed, Laid
  <2>2. len # 0 => \/ a.ents[i].off + a.ents[i].len <= off /\ a.ents[i].off < off
                   \/ off + len <= a.ents[i].off BY <2>0, <1>6, <1>9, <1>10
  <2>3. len # 0 => \/ a.ents[j].off + a.ents[j].len <= off /\ a.ents[j].off < off
                   \/ off + len <= a.ents[j].off BY <2>0, <1>6, <1>9, <1>10
  <2>4. /\ a.ents[i].off \in Nat /\ a.ents[i].len \in Nat /\ a.ents[j].off \in Nat /\ a.ents[j].len \in Nat
        /\ a.ents[i].len # 0 /\ a.ents[j].len # 0
    BY <2>0, <1>1, <1>6, <1>9
  <2>5. /\ c.ents[i].len = a.ents[i].len /\ c.ents[j].len = a.ents[j].len
        /\ c.ents[i].off = IF a.ents[i].off < off THEN a.ents[i].off + len ELSE a.ents[i].off
        /\ c.ents[j].off = IF a.ents[j].off < off THEN a.ents[j].off + len ELSE a.ents[j].off
    BY <1>6, <1>9
  <2>. QED BY <2>1, <2>2, <2>3, <2>4, <2>5, <1>4 DEF Apart
<1>16. \A i, j \in DOMAIN c.ents : i # j => c.ents[i].name # c.ents[j].name
  BY <1>6, <1>9 DEF Packed, Laid
<1>17. Laid(c, k, p, IF off # 0 THEN low + len ELSE low)
  BY <1>6, <1>8, <1>12, <1>14, <1>15, <1>16 DEF Laid
<1>18. Keeps(a, c, p) BY <1>3, <1>6, <1>9, <1>14 DEF Keeps
<1>19. End(c, k) = End(a, k) BY <1>6 DEF End
<1>20. low + len <= Room(k) BY <1>2, <1>4
<1>. QED BY <1>6, <1>17, <1>18, <1>19, <1>20 DEF off, len, low

\* The value an area has for a name.
Val(a, n) == IF ext4_xattr_find_entry(a, n) = {} THEN None ELSE Read(a, At(a, n))

\* A name is the name of one entry.
LEMMA ValIs ==
  ASSUME NEW a, \A i, j \in DOMAIN a.ents : i # j => a.ents[i].name # a.ents[j].name
  PROVE  /\ \A i \in DOMAIN a.ents :
              /\ Val(a, a.ents[i].name) = Read(a, i) /\ At(a, a.ents[i].name) = i
              /\ ext4_xattr_find_entry(a, a.ents[i].name) = {i}
         /\ \A n : (\A i \in DOMAIN a.ents : a.ents[i].name # n) =>
              Val(a, n) = None /\ ext4_xattr_find_entry(a, n) = {}
<1>1. ASSUME NEW i \in DOMAIN a.ents
      PROVE  /\ Val(a, a.ents[i].name) = Read(a, i) /\ At(a, a.ents[i].name) = i
             /\ ext4_xattr_find_entry(a, a.ents[i].name) = {i}
  <2>1. ext4_xattr_find_entry(a, a.ents[i].name) = {i} BY DEF ext4_xattr_find_entry
  <2>2. At(a, a.ents[i].name) = i BY <2>1 DEF At
  <2>. QED BY <2>1, <2>2 DEF Val
<1>2. ASSUME NEW n, \A i \in DOMAIN a.ents : a.ents[i].name # n
      PROVE  Val(a, n) = None /\ ext4_xattr_find_entry(a, n) = {}
  <2>1. ext4_xattr_find_entry(a, n) = {} BY <1>2 DEF ext4_xattr_find_entry
  <2>. QED BY <2>1 DEF Val
<1>. QED BY <1>1, <1>2

\* Removing the entry at p.
Removed(c, p) == [c EXCEPT !.ents = RemoveAt(@, p)]

\* Without its compacted entry an area is packed again, and has the other values.
LEMMA RemoveKeeps ==
  ASSUME NEW k \in Kinds, NEW c, NEW p \in DOMAIN c.ents, NEW low \in Nat, Laid(c, k, p, low),
         End(c, k) < low, low <= Room(k), NEW d, d = Removed(c, p)
  PROVE  /\ Packed(d, k) /\ d.magic = c.magic
         /\ \A i \in DOMAIN c.ents \ {p} : \E j \in DOMAIN d.ents :
              d.ents[j] = c.ents[i] /\ Read(d, j) = Read(c, i)
         /\ \A j \in DOMAIN d.ents : \E i \in DOMAIN c.ents \ {p} : d.ents[j] = c.ents[i]
<1>0. c \in Area0(k) BY DEF Laid
<1>1. /\ c.ents \in Seq(Entry) /\ DOMAIN c.ents = 1 .. Len(c.ents) /\ Len(c.ents) \in Nat
      /\ \A i \in DOMAIN c.ents : /\ c.ents[i] \in Entry /\ c.ents[i].off \in Nat /\ c.ents[i].len \in Nat
      /\ End(c, k) \in Nat /\ End(c, k) = First(k) + NameLen * Len(c.ents)
  BY <1>0, EntriesAre
<1>2. NameLen \in Nat /\ NameLen > 0 /\ Room(k) \in Nat /\ First(k) \in Nat BY XattrAssumption, RoomNat
<1>. DEFINE Old(j) == IF j < p THEN j ELSE j + 1
            es == RemoveAt(c.ents, p)
<1>3. /\ es \in Seq(Entry) /\ Len(es) = Len(c.ents) - 1 /\ DOMAIN es = 1 .. Len(c.ents) - 1
      /\ \A j \in DOMAIN es : es[j] = c.ents[Old(j)]
  <2>. DEFINE l == SubSeq(c.ents, 1, p - 1)
              r == SubSeq(c.ents, p + 1, Len(c.ents))
  <2>1. p \in Nat /\ 1 <= p /\ p <= Len(c.ents) BY <1>1
  <2>2. /\ l \in Seq(Entry) /\ Len(l) = p - 1
        /\ \A j \in 1 .. p - 1 : l[j] = c.ents[j] BY <1>1, <2>1
  <2>3. /\ r \in Seq(Entry) /\ Len(r) = Len(c.ents) - p
        /\ \A j \in 1 .. Len(c.ents) - p : r[j] = c.ents[p + j] BY <1>1, <2>1
  <2>4. es = l \o r BY DEF RemoveAt
  <2>. HIDE DEF l, r, es
  <2>5. es \in Seq(Entry) /\ Len(es) = Len(c.ents) - 1 /\ DOMAIN es = 1 .. Len(c.ents) - 1
    <3>0. l \in Seq(Entry) /\ r \in Seq(Entry) BY <2>2, <2>3
    <3>1. l \o r \in Seq(Entry) /\ Len(l \o r) = Len(l) + Len(r) BY ONLY <3>0
    <3>2. Len(l) + Len(r) = Len(c.ents) - 1 /\ Len(c.ents) - 1 \in Nat BY <2>1, <2>2, <2>3, <1>1
    <3>3. es \in Seq(Entry) BY <3>1, <2>4
    <3>4. Len(es) = Len(c.ents) - 1
      <4>1. Len(es) = Len(l \o r) BY <2>4
      <4>. QED BY ONLY <4>1, <3>1, <3>2
    <3>5. DOMAIN es = 1 .. Len(es) BY <3>3
    <3>. QED BY <3>3, <3>4, <3>5
  <2>6. ASSUME NEW j \in DOMAIN es PROVE es[j] = c.ents[Old(j)]
    <3>0. j \in 1 .. Len(c.ents) - 1 BY <2>5
    <3>1. CASE j < p
      <4>1. j \in 1 .. p - 1 BY <3>0, <3>1, <2>1
      <4>2. es[j] = l[j] BY <4>1, <2>2, <2>3, <2>4
      <4>. QED BY <4>1, <4>2, <3>1, <2>2
    <3>2. CASE ~(j < p)
      <4>1. j - (p - 1) \in 1 .. Len(c.ents) - p BY <3>0, <3>2, <2>1, <1>1
      <4>2. es[j] = r[j - (p - 1)]
        <5>1. Len(l) = p - 1 /\ Len(r) = Len(c.ents) - p BY <2>2, <2>3
        <5>2. j \in 1 .. Len(l) + Len(r) /\ ~(j <= Len(l)) BY <5>1, <3>0, <3>2, <2>1, <1>1
        <5>3. es[j] = r[j - Len(l)] BY <5>1, <5>2, <2>2, <2>3, <2>4
        <5>. QED BY <5>1, <5>3
      <4>3. p + (j - (p - 1)) = j + 1 BY <3>0, <2>1
      <4>4. r[j - (p - 1)] = c.ents[p + (j - (p - 1))] BY <4>1, <2>3
      <4>. QED BY <4>2, <4>3, <4>4, <3>2
    <3>. QED BY <3>1, <3>2
  <2>. QED BY <2>5, <2>6
<1>4. d.ents = es /\ d.mem = c.mem /\ d.magic = c.magic /\ d \in Area0(k)
  <2>1. c = [magic |-> c.magic, ents |-> c.ents, mem |-> c.mem] BY <1>0 DEF Area0
  <2>2. d = [magic |-> c.magic, ents |-> es, mem |-> c.mem] BY <2>1 DEF Removed
  <2>. HIDE DEF es
  <2>. QED BY <2>2, <1>0, <1>3 DEF Area0
<1>. HIDE DEF es
<1>5. \A j \in DOMAIN d.ents : Old(j) \in DOMAIN c.ents \ {p} /\ d.ents[j] = c.ents[Old(j)]
  BY <1>1, <1>3, <1>4
<1>6. \A j \in DOMAIN d.ents : Read(d, j) = Read(c, Old(j)) /\ (Holds(c, Old(j)) => Holds(d, j))
  <2>. TAKE j \in DOMAIN d.ents
  <2>1. d.ents[j] = c.ents[Old(j)] /\ d.mem = c.mem BY <1>4, <1>5
  <2>. HIDE DEF Old
  <2>2. Read(d, j) = Read(c, Old(j)) BY <2>1 DEF Read
  <2>3. Holds(c, Old(j)) => Holds(d, j) BY <2>1 DEF Holds
  <2>. QED BY <2>2, <2>3
<1>7. \A i \in DOMAIN c.ents \ {p} : \E j \in DOMAIN d.ents : i = Old(j)
  <2>. TAKE i \in DOMAIN c.ents \ {p}
  <2>. DEFINE j == IF i < p THEN i ELSE i - 1
  <2>1. j \in DOMAIN d.ents /\ i = Old(j) BY <1>1, <1>3, <1>4
  <2>. QED BY <2>1
<1>8. \A i, j \in DOMAIN d.ents : i # j => Old(i) # Old(j) BY <1>3, <1>4, <1>1
<1>. HIDE DEF Old
<1>9. End(d, k) \in Nat /\ End(d, k) <= End(c, k)
  <2>1. Len(d.ents) = Len(c.ents) - 1 BY <1>3, <1>4
  <2>2. NameLen * (Len(c.ents) - 1) = NameLen * Len(c.ents) - NameLen BY <1>1, <1>2
  <2>3. End(d, k) = First(k) + NameLen * Len(d.ents) BY DEF End
  <2>4. End(d, k) = End(c, k) - NameLen
    <3>1. NameLen * Len(c.ents) \in Nat BY <1>1, <1>2
    <3>2. End(d, k) = First(k) + (NameLen * Len(c.ents) - NameLen) BY <2>1, <2>2, <2>3
    <3>. QED BY <3>1, <3>2, <1>1, <1>2
  <2>5. End(d, k) \in Nat BY <1>4, EntriesAre
  <2>. QED BY <2>4, <2>5, <1>1, <1>2
<1>10. Laid(d, k, 0, End(d, k) + 1)
  <2>1. \A i, j \in DOMAIN d.ents : i # j => d.ents[i].name # d.ents[j].name
    BY <1>5, <1>8 DEF Laid
  <2>2. \A i \in DOMAIN d.ents : d.ents[i].len # 0 =>
          End(d, k) + 1 <= d.ents[i].off /\ d.ents[i].off + d.ents[i].len <= Room(k)
    <3>. TAKE i \in DOMAIN d.ents
    <3>. HAVE d.ents[i].len # 0
    <3>1. low <= d.ents[i].off /\ d.ents[i].off + d.ents[i].len <= Room(k) /\ d.ents[i].off \in Nat
      BY <1>1, <1>5 DEF Laid
    <3>. QED BY <3>1, <1>9, <1>1
  <2>3. \A i \in DOMAIN d.ents : Holds(d, i) BY <1>5, <1>6 DEF Laid
  <2>4. \A i, j \in DOMAIN d.ents :
          i # j /\ d.ents[i].len # 0 /\ d.ents[j].len # 0 => Apart(d, i, j)
    BY <1>5, <1>8 DEF Laid, Apart
  <2>. QED BY <1>4, <2>1, <2>2, <2>3, <2>4 DEF Laid
<1>11. End(d, k) < Room(k) BY <1>1, <1>2, <1>9
<1>12. \A i \in DOMAIN c.ents \ {p} : \E j \in DOMAIN d.ents :
         d.ents[j] = c.ents[i] /\ Read(d, j) = Read(c, i) BY <1>5, <1>6, <1>7
<1>13. \A j \in DOMAIN d.ents : \E i \in DOMAIN c.ents \ {p} : d.ents[j] = c.ents[i] BY <1>5
<1>. QED BY <1>4, <1>10, <1>11, <1>12, <1>13 DEF Packed

\* Putting an entry for n at p, with its value below all others.
Put(c, p, e) == IF p \in DOMAIN c.ents THEN [c.ents EXCEPT ![p] = e] ELSE Append(c.ents, e)
Inserted(c, es, off, val) ==
  [c EXCEPT !.ents = es,
            !.mem = [o \in DOMAIN @ |-> IF off # 0 /\ o \in off .. off + val.len - 1
                                        THEN val.tok ELSE @[o]]]

\* d is c with an entry for n at p, for which there is room below top.
Inserts(c, k, p, top, n, val, d) == \E off, es :
  /\ off = IF val.len = 0 THEN 0 ELSE top - val.len
  /\ es = Put(c, p, [name |-> n, off |-> off, len |-> val.len])
  /\ First(k) + NameLen * Len(es) + val.len < top
  /\ d = Inserted(c, es, off, val)
  /\ \A i \in DOMAIN c.ents \ {p} : c.ents[i].name # n

\* An entry that is put in an area, with its value below the others, leaves the others.
LEMMA InsertKeeps ==
  ASSUME NEW k \in Kinds, NEW c, NEW top \in Nat, NEW p \in 1 .. Len(c.ents) + 1, Laid(c, k, p, top),
         top <= Room(k), NEW n \in Names, NEW val \in Values,
         NEW d, Inserts(c, k, p, top, n, val, d)
  PROVE  /\ Packed(d, k) /\ d.magic = c.magic
         /\ DOMAIN d.ents = DOMAIN c.ents \cup {p} /\ d.ents[p].name = n
         /\ \A i \in DOMAIN c.ents \ {p} : d.ents[i] = c.ents[i] /\ Read(d, i) = Read(c, i)
         /\ Read(d, p) = val
<1>. PICK off, es :
       /\ off = IF val.len = 0 THEN 0 ELSE top - val.len
       /\ es = Put(c, p, [name |-> n, off |-> off, len |-> val.len])
       /\ First(k) + NameLen * Len(es) + val.len < top
       /\ d = Inserted(c, es, off, val)
       /\ \A i \in DOMAIN c.ents \ {p} : c.ents[i].name # n
  BY DEF Inserts
<1>. DEFINE e == [name |-> n, off |-> off, len |-> val.len]
            M(o) == IF off # 0 /\ o \in off .. off + val.len - 1 THEN val.tok ELSE c.mem[o]
<1>0. c \in Area0(k) BY DEF Laid
<1>1. /\ c.ents \in Seq(Entry) /\ DOMAIN c.ents = 1 .. Len(c.ents) /\ Len(c.ents) \in Nat
      /\ \A i \in DOMAIN c.ents : /\ c.ents[i] \in Entry /\ c.ents[i].off \in Nat /\ c.ents[i].len \in Nat
      /\ c.mem \in [0 .. Room(k) - 1 -> Tokens \cup {None}] /\ c.magic \in BOOLEAN
      /\ End(c, k) \in Nat /\ End(c, k) = First(k) + NameLen * Len(c.ents)
  BY <1>0, EntriesAre
<1>2. /\ NameLen \in Nat /\ NameLen > 0 /\ Room(k) \in Nat /\ First(k) \in Nat
      /\ val.len \in Nat /\ val.tok \in Tokens \cup {None}
  <2>1. val.len \in Nat /\ val.tok \in Tokens \cup {None}
    BY ValuesAre DEF Nothing
  <2>. QED BY <2>1, XattrAssumption, RoomNat
<1>3. Len(es) \in Nat /\ DOMAIN es = 1 .. Len(es) /\ DOMAIN es = DOMAIN c.ents \cup {p} /\ es[p] = e
      /\ \A i \in DOMAIN c.ents \ {p} : es[i] = c.ents[i]
  <2>1. CASE p \in DOMAIN c.ents
    <3>1. es = [c.ents EXCEPT ![p] = e] BY <2>1 DEF Put
    <3>2. DOMAIN es = DOMAIN c.ents /\ es[p] = e /\ \A i \in DOMAIN c.ents \ {p} : es[i] = c.ents[i]
      BY <2>1, <3>1
    <3>3. Len(es) = Len(c.ents) BY <1>1, <3>1, <3>2
    <3>. QED BY <1>1, <2>1, <3>2, <3>3
  <2>2. CASE p \notin DOMAIN c.ents
    <3>1. p = Len(c.ents) + 1 BY <2>2, <1>1
    <3>2. es = Append(c.ents, e) BY <2>2 DEF Put
    <3>3. /\ Len(es) = Len(c.ents) + 1 /\ DOMAIN es = 1 .. Len(c.ents) + 1 /\ es[Len(c.ents) + 1] = e
          /\ \A i \in 1 .. Len(c.ents) : es[i] = c.ents[i]
      BY <1>1, <3>2
    <3>4. Len(c.ents) \in Nat /\ DOMAIN c.ents = 1 .. Len(c.ents) BY <1>1
    <3>5. 1 .. Len(c.ents) + 1 = (1 .. Len(c.ents)) \cup {Len(c.ents) + 1} BY ONLY <3>4
    <3>6. Len(es) \in Nat /\ DOMAIN es = 1 .. Len(es) BY ONLY <3>3, <3>4
    <3>7. DOMAIN es = DOMAIN c.ents \cup {p} BY ONLY <3>1, <3>3, <3>4, <3>5
    <3>8. es[p] = e BY ONLY <3>1, <3>3
    <3>9. \A i \in DOMAIN c.ents \ {p} : es[i] = c.ents[i] BY ONLY <3>3, <3>4
    <3>. QED BY ONLY <3>6, <3>7, <3>8, <3>9
  <2>. QED BY <2>1, <2>2
<1>. DEFINE end == First(k) + NameLen * Len(es)
<1>4. end \in Nat /\ end + val.len < top /\ top \in Nat /\ top <= Room(k)
  <2>1. NameLen \in Nat /\ Len(es) \in Nat /\ First(k) \in Nat BY <1>2, <1>3
  <2>2. NameLen * Len(es) \in Nat BY ONLY <2>1
  <2>. QED BY <2>1, <2>2
<1>. HIDE DEF end
<1>5. /\ off \in Nat /\ (val.len # 0 => off # 0 /\ off + val.len = top /\ end + 1 <= off)
      /\ end + 1 <= top
  BY ONLY <1>2, <1>4, off = IF val.len = 0 THEN 0 ELSE top - val.len
<1>6. e \in Entry BY <1>2, <1>5 DEF Entry
<1>7. es \in Seq(Entry)
  <2>1. \A i \in 1 .. Len(es) : es[i] \in Entry BY <1>1, <1>3, <1>6
  <2>2. es = [i \in 1 .. Len(es) |-> es[i]]
    <3>1. CASE p \in DOMAIN c.ents BY <3>1, <1>1, <1>3 DEF Put
    <3>2. CASE p \notin DOMAIN c.ents BY <3>2, <1>1, <1>3 DEF Put
    <3>. QED BY <3>1, <3>2
  <2>3. Len(es) \in Nat BY <1>3
  <2>. QED BY ONLY <2>1, <2>2, <2>3
<1>8. /\ d.ents = es /\ d.magic = c.magic /\ d \in Area0(k)
      /\ d.mem = [o \in 0 .. Room(k) - 1 |-> M(o)]
  <2>1. c = [magic |-> c.magic, ents |-> c.ents, mem |-> c.mem] BY <1>0 DEF Area0
  <2>2. d = [magic |-> c.magic, ents |-> es, mem |-> [o \in DOMAIN c.mem |-> M(o)]] BY <2>1 DEF Inserted
  <2>3. \A o \in 0 .. Room(k) - 1 : M(o) \in Tokens \cup {None} BY <1>1, <1>2
  <2>. HIDE DEF M
  <2>4. [o \in DOMAIN c.mem |-> M(o)] = [o \in 0 .. Room(k) - 1 |-> M(o)] BY <1>1
  <2>5. d.ents = es /\ d.magic = c.magic /\ d.mem = [o \in 0 .. Room(k) - 1 |-> M(o)] 
    <3>1. d.ents = es /\ d.magic = c.magic /\ d.mem = [o \in DOMAIN c.mem |-> M(o)] BY ONLY <2>2
    <3>. QED BY ONLY <2>4, <3>1
  <2>6. d.mem \in [0 .. Room(k) - 1 -> Tokens \cup {None}] BY ONLY <2>3, <2>5
  <2>7. d = [magic |-> d.magic, ents |-> d.ents, mem |-> d.mem] BY ONLY <2>2
  <2>8. d.ents \in Seq(Entry) /\ d.magic \in BOOLEAN BY ONLY <2>5, <1>7, <1>1
  <2>. QED BY ONLY <2>5, <2>6, <2>7, <2>8 DEF Area0
<1>9. End(d, k) = end BY <1>8 DEF End, end
<1>10. val.len # 0 => e.off = off /\ off + val.len <= Room(k) BY <1>2, <1>5
<1>11. Read(d, p) = val /\ Holds(d, p)
  <2>1. d.ents[p] = e /\ p \in DOMAIN d.ents BY <1>3, <1>8
  <2>2. \A o \in off .. off + val.len - 1 : d.mem[o] = val.tok
    <3>. TAKE o \in off .. off + val.len - 1
    <3>1. val.len # 0 /\ o \in 0 .. Room(k) - 1 BY <1>2, <1>5, <1>10
    <3>. QED BY <3>1, <1>5, <1>8
  <2>3. e.off = off /\ e.len = val.len OBVIOUS
  <2>. HIDE DEF e
  <2>5. d.ents[p].off = off /\ d.ents[p].len = val.len BY <2>1, <2>3
  <2>6. /\ d.ents[p].len # 0 => d.ents[p].off + d.ents[p].len <= Room(k)
        /\ \A o \in d.ents[p].off .. d.ents[p].off + d.ents[p].len - 1 : d.mem[o] = val.tok
    BY <2>2, <2>3, <2>5, <1>10
  <2>4. Read(d, p) = val
    <3>1. d \in Area0(k) /\ p \in DOMAIN d.ents /\ val.len = d.ents[p].len BY <1>8, <2>1, <2>5
    <3>. QED BY ONLY k \in Kinds, <3>1, <2>6, val \in Values, ReadIs
  <2>. QED BY <2>1, <2>2, <2>3, <2>4 DEF Holds
<1>12. \A i \in DOMAIN c.ents \ {p} :
         /\ d.ents[i] = c.ents[i] /\ Read(d, i) = Read(c, i) /\ Holds(d, i)
         /\ c.ents[i].len # 0 => top <= c.ents[i].off /\ c.ents[i].off + c.ents[i].len <= Room(k)
  <2>. TAKE i \in DOMAIN c.ents \ {p}
  <2>1. d.ents[i] = c.ents[i] /\ i \in DOMAIN d.ents BY <1>3, <1>8
  <2>2. c.ents[i].len # 0 => top <= c.ents[i].off /\ c.ents[i].off + c.ents[i].len <= Room(k) BY DEF Laid
  <2>3. Holds(c, i) BY DEF Laid
  <2>4. c.ents[i].off \in Nat /\ c.ents[i].len \in Nat BY <1>1
  <2>5. \A o \in 0 .. c.ents[i].len - 1 : c.mem[c.ents[i].off + o] = d.mem[d.ents[i].off + o]
    <3>. TAKE o \in 0 .. c.ents[i].len - 1
    <3>1. c.ents[i].off + o \in 0 .. Room(k) - 1 /\ top <= c.ents[i].off + o 
      <4>1. c.ents[i].len # 0 /\ o \in Nat /\ o < c.ents[i].len BY ONLY <2>4, o \in 0 .. c.ents[i].len - 1
      <4>2. /\ c.ents[i].off \in Nat /\ c.ents[i].len \in Nat /\ Room(k) \in Nat /\ top \in Nat
            /\ top <= c.ents[i].off /\ c.ents[i].off + c.ents[i].len <= Room(k)
        BY ONLY <4>1, <1>2, <1>4, <2>2, <2>4
      <4>. QED BY ONLY <4>1, <4>2
    <3>2. M(c.ents[i].off + o) = c.mem[c.ents[i].off + o]
      <4>1. off # 0 => ~(c.ents[i].off + o \in off .. off + val.len - 1)
        <5>1. val.len \in Nat /\ off \in Nat /\ top \in Nat /\ c.ents[i].off \in Nat
          BY ONLY <1>2, <1>4, <1>5, <2>4
        <5>2. off # 0 => off + val.len = top BY ONLY <1>2, <1>5, off = IF val.len = 0 THEN 0 ELSE top - val.len
        <5>3. o \in Nat BY ONLY <2>4, o \in 0 .. c.ents[i].len - 1
        <5>. QED BY ONLY <3>1, <5>1, <5>2, <5>3
      <4>. QED BY ONLY <4>1
    <3>. HIDE DEF M
    <3>3. d.mem[c.ents[i].off + o] = M(c.ents[i].off + o) BY ONLY <3>1, <1>8
    <3>4. d.ents[i].off = c.ents[i].off BY ONLY <2>1
    <3>. QED BY ONLY <3>2, <3>3, <3>4
  <2>6. Holds(d, i) /\ Read(d, i) = Read(c, i)
    <3>1. /\ d.ents[i].len # 0 => d.ents[i].off + d.ents[i].len <= Room(k)
          /\ c.ents[i].len # 0 => c.ents[i].off + c.ents[i].len <= Room(k)
          /\ c.ents[i].len = d.ents[i].len
      BY <2>1, <2>2
    <3>2. d \in Area0(k) /\ i \in DOMAIN c.ents BY <1>8
    <3>. QED BY ONLY k \in Kinds, <1>0, <2>1, <3>1, <3>2, <2>3, <2>5, ReadSame
  <2>. QED BY <2>1, <2>2, <2>6
<1>13. Laid(d, k, 0, End(d, k) + 1)
  <2>0. DOMAIN d.ents = DOMAIN c.ents \cup {p} /\ d.ents[p] = e BY <1>3, <1>8
  <2>1. \A i, j \in DOMAIN d.ents : i # j => d.ents[i].name # d.ents[j].name
    <3>. TAKE i, j \in DOMAIN d.ents
    <3>. HAVE i # j
    <3>1. CASE i = p
      <4>1. j \in DOMAIN c.ents \ {p} BY <3>1, <2>0
      <4>2. d.ents[j] = c.ents[j] /\ c.ents[j].name # n BY <4>1, <1>12
      <4>3. d.ents[p].name = n BY <2>0
      <4>. QED BY ONLY <3>1, <4>2, <4>3
    <3>2. CASE j = p
      <4>1. i \in DOMAIN c.ents \ {p} BY <3>2, <2>0
      <4>2. d.ents[i] = c.ents[i] /\ c.ents[i].name # n BY <4>1, <1>12
      <4>3. d.ents[p].name = n BY <2>0
      <4>. QED BY ONLY <3>2, <4>2, <4>3
    <3>3. CASE i # p /\ j # p BY <3>3, <2>0, <1>12 DEF Laid
    <3>. QED BY <3>1, <3>2, <3>3
  <2>2. \A i \in DOMAIN d.ents : d.ents[i].len # 0 =>
          End(d, k) + 1 <= d.ents[i].off /\ d.ents[i].off + d.ents[i].len <= Room(k)
    <3>. TAKE i \in DOMAIN d.ents
    <3>. HAVE d.ents[i].len # 0
    <3>1. CASE i = p BY <3>1, <2>0, <1>5, <1>9, <1>10
    <3>2. CASE i # p
      <4>1. /\ i \in DOMAIN c.ents \ {p} /\ d.ents[i] = c.ents[i] /\ c.ents[i].off \in Nat
            /\ top <= c.ents[i].off /\ c.ents[i].off + c.ents[i].len <= Room(k)
        BY <3>2, <2>0, <1>1, <1>12
      <4>. QED BY ONLY <4>1, <1>4, <1>5, <1>9
    <3>. QED BY <3>1, <3>2
  <2>3. \A i \in DOMAIN d.ents : Holds(d, i) BY <2>0, <1>11, <1>12
  <2>4. \A i, j \in DOMAIN d.ents :
          i # j /\ d.ents[i].len # 0 /\ d.ents[j].len # 0 => Apart(d, i, j)
    <3>. TAKE i, j \in DOMAIN d.ents
    <3>. HAVE i # j /\ d.ents[i].len # 0 /\ d.ents[j].len # 0
    <3>1. CASE i = p
      <4>1. j \in DOMAIN c.ents \ {p} /\ d.ents[j] = c.ents[j] /\ top <= c.ents[j].off
        BY <3>1, <2>0, <1>12
      <4>2. val.len # 0 BY <3>1, <2>0
      <4>3. e.off = off /\ e.len = val.len OBVIOUS
      <4>. QED BY <3>1, <4>1, <4>2, <4>3, <2>0, <1>5 DEF Apart
    <3>2. CASE j = p
      <4>1. i \in DOMAIN c.ents \ {p} /\ d.ents[i] = c.ents[i] /\ top <= c.ents[i].off
        BY <3>2, <2>0, <1>12
      <4>2. val.len # 0 BY <3>2, <2>0
      <4>3. e.off = off /\ e.len = val.len OBVIOUS
      <4>. QED BY <3>2, <4>1, <4>2, <4>3, <2>0, <1>5 DEF Apart
    <3>3. CASE i # p /\ j # p
      <4>1. i \in DOMAIN c.ents \ {p} /\ j \in DOMAIN c.ents \ {p} /\ d.ents[i] = c.ents[i] /\ d.ents[j] = c.ents[j]
        BY <3>3, <2>0, <1>12
      <4>2. Apart(c, i, j) BY <4>1 DEF Laid
      <4>. QED BY <4>1, <4>2 DEF Apart
    <3>. QED BY <3>1, <3>2, <3>3
  <2>5. d \in Area0(k) BY ONLY <1>8
  <2>. QED BY ONLY <2>1, <2>2, <2>3, <2>4, <2>5 DEF Laid
<1>14. End(d, k) < Room(k) BY <1>2, <1>4, <1>5, <1>9
<1>15. DOMAIN d.ents = DOMAIN c.ents \cup {p} /\ d.ents[p].name = n BY <1>3, <1>8
<1>. QED BY <1>8, <1>11, <1>12, <1>13, <1>14, <1>15 DEF Packed

\* An attribute that is found has a value.
LEMMA ValType ==
  ASSUME NEW k \in Kinds, NEW a, Packed(a, k), NEW n
  PROVE  /\ Val(a, n) \in Values \cup {None}
         /\ ext4_xattr_find_entry(a, n) = {} <=> Val(a, n) = None
         /\ \A i \in DOMAIN a.ents : Read(a, i) \in Values
<1>0. a \in Area0(k) BY DEF Packed, Laid
<1>1. \A i, j \in DOMAIN a.ents : i # j => a.ents[i].name # a.ents[j].name BY DEF Packed, Laid
<1>2. ASSUME NEW i \in DOMAIN a.ents PROVE Read(a, i) \in Values
  <2>1. i \in DOMAIN a.ents \ {0} BY <1>0, EntriesAre
  <2>2. Holds(a, i) /\ (a.ents[i].len # 0 => a.ents[i].off + a.ents[i].len <= Room(k))
    BY <2>1 DEF Packed, Laid
  <2>. QED BY ONLY k \in Kinds, i \in DOMAIN a.ents, <1>0, <2>2, ReadSame
<1>3. CASE \E i \in DOMAIN a.ents : a.ents[i].name = n
  <2>. PICK i \in DOMAIN a.ents : a.ents[i].name = n BY <1>3
  <2>1. Val(a, n) = Read(a, i) /\ ext4_xattr_find_entry(a, n) = {i} BY <1>1, ValIs
  <2>. QED BY <2>1, <1>2, ValuesAre
<1>4. CASE \A i \in DOMAIN a.ents : a.ents[i].name # n
  <2>1. Val(a, n) = None /\ ext4_xattr_find_entry(a, n) = {} BY <1>1, <1>4, ValIs
  <2>. QED BY <2>1, <1>2
<1>. QED BY <1>3, <1>4

\* What set_entry leaves.
SetResult(a, k, n, val, r) ==
  /\ r.rc \in {"OK", "ENOSPC"} /\ (r.rc # "OK" => val # None /\ r.a = a)
  /\ val = None /\ Val(a, n) = None => r.a = a
  /\ r.rc = "OK" =>
       /\ Packed(r.a, k) /\ r.a.magic = a.magic
       /\ \A m \in Names : Val(r.a, m) = IF m = n THEN val ELSE Val(a, m)

\* The entry that find_entry finds.
LEMMA FoundAt ==
  ASSUME NEW k \in Kinds, NEW a, Packed(a, k), NEW n
  PROVE  /\ ext4_xattr_find_entry(a, n) # {} =>
              /\ At(a, n) \in DOMAIN a.ents /\ a.ents[At(a, n)].name = n
              /\ \A i \in DOMAIN a.ents \ {At(a, n)} : a.ents[i].name # n
         /\ ext4_xattr_find_entry(a, n) = {} => \A i \in DOMAIN a.ents : a.ents[i].name # n
         /\ \A i, j \in DOMAIN a.ents : i # j => a.ents[i].name # a.ents[j].name
<1>1. \A i, j \in DOMAIN a.ents : i # j => a.ents[i].name # a.ents[j].name BY DEF Packed, Laid
<1>2. CASE \E i \in DOMAIN a.ents : a.ents[i].name = n
  <2>. PICK i \in DOMAIN a.ents : a.ents[i].name = n BY <1>2
  <2>1. At(a, n) = i BY <1>1, ValIs
  <2>2. ext4_xattr_find_entry(a, n) = {i} BY <1>1, ValIs
  <2>. QED BY <1>1, <2>1, <2>2
<1>3. CASE \A i \in DOMAIN a.ents : a.ents[i].name # n
  BY <1>1, <1>3, ValIs
<1>. QED BY <1>2, <1>3

\* d has the values that a has, of all names but n.
Carries(a, d, n) ==
  /\ \A i \in DOMAIN a.ents : a.ents[i].name # n => \E j \in DOMAIN d.ents :
       d.ents[j].name = a.ents[i].name /\ Read(d, j) = Read(a, i)
  /\ \A j \in DOMAIN d.ents : d.ents[j].name = n \/
       \E i \in DOMAIN a.ents : d.ents[j].name = a.ents[i].name

\* Areas that carry the same entries have the same values.
LEMMA ValsKept ==
  ASSUME NEW k \in Kinds, NEW a, Packed(a, k), NEW d, Packed(d, k), NEW n, Carries(a, d, n)
  PROVE  \A m \in Names : m # n => Val(d, m) = Val(a, m)
<1>. SUFFICES ASSUME NEW m \in Names, m # n PROVE Val(d, m) = Val(a, m) OBVIOUS
<1>1. \A i, j \in DOMAIN a.ents : i # j => a.ents[i].name # a.ents[j].name BY DEF Packed, Laid
<1>2. \A i, j \in DOMAIN d.ents : i # j => d.ents[i].name # d.ents[j].name BY DEF Packed, Laid
<1>3. CASE \E i \in DOMAIN a.ents : a.ents[i].name = m
  <2>. PICK i \in DOMAIN a.ents : a.ents[i].name = m BY <1>3
  <2>1. a.ents[i].name # n OBVIOUS
  <2>2. PICK j \in DOMAIN d.ents : d.ents[j].name = m /\ Read(d, j) = Read(a, i) BY <2>1 DEF Carries
  <2>3. Val(d, m) = Read(d, j) BY <1>2, <2>2, ValIs
  <2>4. Val(a, m) = Read(a, i) BY <1>1, ValIs
  <2>. QED BY <2>2, <2>3, <2>4
<1>4. CASE \A i \in DOMAIN a.ents : a.ents[i].name # m
  <2>1. \A j \in DOMAIN d.ents : d.ents[j].name # m BY <1>4 DEF Carries
  <2>. QED BY <1>1, <1>2, <1>4, <2>1, ValIs
<1>. QED BY <1>3, <1>4

\* ext4_xattr_set_entry changes the value of one name and leaves the area packed.
LEMMA SetEntryIs ==
  ASSUME NEW k \in Kinds, NEW a, Packed(a, k), Unshifted(a), NEW n \in Names, NEW val \in Values \cup {None},
         NEW r, r = ext4_xattr_set_entry(a, k, n, val)
  PROVE  SetResult(a, k, n, val, r)
<1>. DEFINE found == ext4_xattr_find_entry(a, n) # {}
<1>. PICK p, low : p = At(a, n) /\ low = Low(a, k) OBVIOUS
<1>. PICK c : c = IF found THEN Compact(a, low, a.ents[p].off, a.ents[p].len) ELSE a OBVIOUS
<1>. PICK top : top = IF found /\ a.ents[p].off # 0 THEN low + a.ents[p].len ELSE low OBVIOUS
<1>. PICK off : off = IF val.len = 0 THEN 0 ELSE top - val.len OBVIOUS
<1>. PICK P : P = IF found THEN p ELSE Len(a.ents) + 1 OBVIOUS
<1>. DEFINE e == [name |-> n, off |-> off, len |-> val.len]
<1>. PICK es : es = IF found THEN [c.ents EXCEPT ![p] = e] ELSE Append(c.ents, e) OBVIOUS
<1>. PICK d : d = Inserted(c, es, off, val) OBVIOUS
<1>0. r = IF val = None
          THEN [a |-> IF found THEN Removed(c, p) ELSE a, rc |-> "OK"]
          ELSE IF SpaceFor(a, k, n) < val.len + NameLen THEN [a |-> a, rc |-> "ENOSPC"]
          ELSE [a |-> d, rc |-> "OK"]
  <2>1. Low(a, k) = Min({Room(k)} \cup Offs(a)) BY DEF Low
  <2>2. CASE found
    <3>1. c = Compact(a, low, a.ents[p].off, a.ents[p].len) /\ es = [c.ents EXCEPT ![p] = e]
          /\ top = IF a.ents[p].off # 0 THEN low + a.ents[p].len ELSE low
      BY <2>2
    <3>2. CASE val = None
      <4>1. r = [a |-> Removed(c, p), rc |-> "OK"]
        BY <2>1, <2>2, <3>1, <3>2 DEF ext4_xattr_set_entry, Removed
      <4>. QED BY <2>2, <3>2, <4>1
    <3>3. CASE val # None /\ SpaceFor(a, k, n) < val.len + NameLen
      <4>1. r = [a |-> a, rc |-> "ENOSPC"] BY <3>3 DEF ext4_xattr_set_entry
      <4>. QED BY <3>3, <4>1
    <3>4. CASE val # None /\ ~(SpaceFor(a, k, n) < val.len + NameLen)
      <4>. PICK q : q = Min({Room(k)} \cup Offs(a)) OBVIOUS
      <4>1. c = Compact(a, q, a.ents[At(a, n)].off, a.ents[At(a, n)].len) BY <2>1, <3>1
      <4>2. off = IF val.len = 0 THEN 0
                  ELSE (IF a.ents[At(a, n)].off # 0 THEN q + a.ents[At(a, n)].len ELSE q) - val.len
        BY <2>1, <3>1
      <4>3. es = [c.ents EXCEPT ![At(a, n)] = [name |-> n, off |-> off, len |-> val.len]] BY <3>1
      <4>4. r = [a |-> Inserted(c, es, off, val), rc |-> "OK"]
        BY ONLY <2>2, <3>4, <4>1, <4>2, <4>3, r = ext4_xattr_set_entry(a, k, n, val),
                q = Min({Room(k)} \cup Offs(a)) DEF ext4_xattr_set_entry, Inserted
      <4>5. r = [a |-> d, rc |-> "OK"] BY <4>4
      <4>. QED BY <3>4, <4>5
    <3>. QED BY <3>2, <3>3, <3>4
  <2>3. CASE ~found
    <3>1. c = a /\ es = Append(c.ents, e) /\ top = low BY <2>3
    <3>2. CASE val = None
      <4>1. r = [a |-> a, rc |-> "OK"] BY <2>3, <3>2 DEF ext4_xattr_set_entry
      <4>. QED BY <2>3, <3>2, <4>1
    <3>3. CASE val # None /\ SpaceFor(a, k, n) < val.len + NameLen
      <4>1. r = [a |-> a, rc |-> "ENOSPC"] BY <3>3 DEF ext4_xattr_set_entry
      <4>. QED BY <3>3, <4>1
    <3>4. CASE val # None /\ ~(SpaceFor(a, k, n) < val.len + NameLen)
      <4>1. r = [a |-> d, rc |-> "OK"]
        BY <2>1, <2>3, <3>1, <3>4 DEF ext4_xattr_set_entry, Inserted
      <4>. QED BY <3>4, <4>1
    <3>. QED BY <3>2, <3>3, <3>4
  <2>. QED BY <2>2, <2>3
<1>1. a \in Area0(k) BY DEF Packed, Laid
<1>2. /\ DOMAIN a.ents = 1 .. Len(a.ents) /\ Len(a.ents) \in Nat /\ End(a, k) \in Nat
      /\ \A i \in DOMAIN a.ents : a.ents[i].off \in Nat /\ a.ents[i].len \in Nat
      /\ End(a, k) = First(k) + NameLen * Len(a.ents)
  BY <1>1, EntriesAre
<1>3. low \in Nat /\ End(a, k) < low /\ low <= Room(k) /\ Room(k) \in Nat /\ NameLen \in Nat
  BY LowIs, RoomNat, XattrAssumption
<1>4. /\ found => p \in DOMAIN a.ents /\ a.ents[p].name = n /\ \A i \in DOMAIN a.ents \ {p} : a.ents[i].name # n
      /\ ~found => \A i \in DOMAIN a.ents : a.ents[i].name # n
  BY FoundAt
<1>5. Val(a, n) = None <=> ~found BY ValType
<1>51. found => SpaceFor(a, k, n) = low - End(a, k) - 1 + (a.ents[p].len + NameLen)
  BY DEF SpaceFor, Low
<1>52. ~found => SpaceFor(a, k, n) = low - End(a, k) - 1 + 0
  BY DEF SpaceFor, Low
<1>. HIDE DEF found
<1>6. /\ found => Laid(c, k, p, top) /\ Keeps(a, c, p) /\ top <= Room(k) /\ top \in Nat
      /\ Len(c.ents) = Len(a.ents) /\ End(c, k) = End(a, k) /\ low <= top
  <2>1. CASE found
    <3>1. p \in DOMAIN a.ents /\ a.ents[p].off \in Nat /\ a.ents[p].len \in Nat BY <2>1, <1>2, <1>4
    <3>2. c = Compact(a, Low(a, k), a.ents[p].off, a.ents[p].len) BY <2>1
    <3>3. /\ Laid(c, k, p, IF a.ents[p].off # 0 THEN Low(a, k) + a.ents[p].len ELSE Low(a, k))
          /\ Keeps(a, c, p)
          /\ Len(c.ents) = Len(a.ents) /\ End(c, k) = End(a, k)
          /\ Low(a, k) + a.ents[p].len <= Room(k)
      BY <3>1, <3>2, CompactKeeps
    <3>. QED BY <2>1, <3>1, <3>3, <1>3
  <2>2. CASE ~found BY <2>2, <1>3
  <2>. QED BY <2>1, <2>2
<1>7. CASE val = None /\ ~found
  <2>1. r = [a |-> a, rc |-> "OK"] BY <1>0, <1>7
  <2>. QED BY <1>5, <1>7, <2>1 DEF SetResult
<1>8. CASE val = None /\ found
  <2>. PICK w : w = Removed(c, p) OBVIOUS
  <2>1. r = [a |-> w, rc |-> "OK"] BY <1>0, <1>8
  <2>2. Laid(c, k, p, top) /\ Keeps(a, c, p) /\ top <= Room(k) /\ top \in Nat /\ End(c, k) < top
        /\ p \in DOMAIN c.ents /\ p \in DOMAIN a.ents
    <3>1. p \in DOMAIN a.ents BY <1>4, <1>8
    <3>2. Laid(c, k, p, top) /\ Keeps(a, c, p) BY <1>6, <1>8
    <3>3. p \in DOMAIN c.ents BY ONLY <3>1, <3>2 DEF Keeps
    <3>4. End(c, k) < top BY ONLY <1>2, <1>3, <1>6, <1>8
    <3>. QED BY ONLY <1>6, <1>8, <3>1, <3>2, <3>3, <3>4
  <2>3. /\ Packed(w, k) /\ w.magic = c.magic
        /\ \A i \in DOMAIN c.ents \ {p} : \E j \in DOMAIN w.ents :
              w.ents[j] = c.ents[i] /\ Read(w, j) = Read(c, i)
        /\ \A j \in DOMAIN w.ents : \E i \in DOMAIN c.ents \ {p} : w.ents[j] = c.ents[i]
    BY ONLY k \in Kinds, <2>2, w = Removed(c, p), RemoveKeeps
  <2>4. \A i \in DOMAIN a.ents \ {p} : \E j \in DOMAIN w.ents :
          w.ents[j].name = a.ents[i].name /\ Read(w, j) = Read(a, i)
    BY ONLY <2>2, <2>3 DEF Keeps
  <2>5. \A j \in DOMAIN w.ents : w.ents[j].name # n /\ \E i \in DOMAIN a.ents : w.ents[j].name = a.ents[i].name
    BY ONLY <2>2, <2>3, <1>4, <1>8 DEF Keeps
  <2>6. Val(w, n) = None
    <3>1. \A i, j \in DOMAIN w.ents : i # j => w.ents[i].name # w.ents[j].name BY <2>3 DEF Packed, Laid
    <3>. QED BY ONLY <2>5, <3>1, ValIs
  <2>7. \A m \in Names : Val(w, m) = IF m = n THEN None ELSE Val(a, m)
    <3>1. \A i \in DOMAIN a.ents : a.ents[i].name # n => \E j \in DOMAIN w.ents :
            w.ents[j].name = a.ents[i].name /\ Read(w, j) = Read(a, i) BY ONLY <1>4, <1>8, <2>4
    <3>2. \A j \in DOMAIN w.ents : w.ents[j].name = n \/
             \E i \in DOMAIN a.ents : w.ents[j].name = a.ents[i].name BY <2>5
    <3>3. Packed(w, k) BY <2>3
    <3>4. Carries(a, w, n) BY ONLY <3>1, <3>2 DEF Carries
    <3>5. \A m \in Names : m # n => Val(w, m) = Val(a, m)
      BY ONLY k \in Kinds, Packed(a, k), <3>3, <3>4, ValsKept
    <3>. QED BY ONLY <2>6, <3>5
  <2>8. w.magic = a.magic BY <2>2, <2>3 DEF Keeps
  <2>. QED BY ONLY <1>5, <1>8, <2>1, <2>3, <2>7, <2>8 DEF SetResult
<1>9. CASE val # None /\ SpaceFor(a, k, n) < val.len + NameLen
  <2>1. r = [a |-> a, rc |-> "ENOSPC"] BY <1>0, <1>9
  <2>. QED BY <1>9, <2>1 DEF SetResult
<1>10. CASE val # None /\ ~(SpaceFor(a, k, n) < val.len + NameLen)
  <2>1. r = [a |-> d, rc |-> "OK"] BY <1>0, <1>10
  <2>2. val \in Values /\ val.len \in Nat BY <1>10, ValuesAre
  <2>3. P \in 1 .. Len(c.ents) + 1 /\ (P \in DOMAIN c.ents <=> found) /\ (found => P = p)
        /\ DOMAIN c.ents = DOMAIN a.ents
    <3>1. CASE found
      <4>1. p \in DOMAIN a.ents /\ P = p /\ Keeps(a, c, p) BY <3>1, <1>4, <1>6
      <4>2. DOMAIN c.ents = DOMAIN a.ents BY ONLY <4>1 DEF Keeps
      <4>3. Len(c.ents) = Len(a.ents) /\ Len(a.ents) \in Nat /\ DOMAIN a.ents = 1 .. Len(a.ents) BY ONLY <1>2, <1>6
      <4>. QED BY ONLY <3>1, <4>1, <4>2, <4>3
    <3>2. CASE ~found
      <4>1. c = a /\ P = Len(a.ents) + 1 BY <3>2
      <4>2. Len(a.ents) \in Nat /\ DOMAIN a.ents = 1 .. Len(a.ents) BY ONLY <1>2
      <4>. QED BY ONLY <3>2, <4>1, <4>2
    <3>. QED BY <3>1, <3>2
  <2>4. Laid(c, k, P, top) /\ Keeps(a, c, P) /\ top \in Nat /\ top <= Room(k)
    <3>1. CASE found BY <3>1, <1>6
    <3>2. CASE ~found
      <4>1. c = a /\ top = low /\ 0 \notin DOMAIN a.ents /\ P \notin DOMAIN a.ents BY <3>2, <1>2
      <4>2. \A i \in DOMAIN a.ents \ {P} : a.ents[i].len # 0 =>
              low <= a.ents[i].off /\ a.ents[i].off + a.ents[i].len <= Room(k)
        BY <4>1, LowIs DEF Packed, Laid
      <4>3. Laid(a, k, P, low) BY ONLY Packed(a, k), <4>1, <4>2 DEF Packed, Laid
      <4>4. Keeps(a, a, P) BY DEF Keeps
      <4>. QED BY ONLY <4>1, <4>3, <4>4, <1>3
    <3>. QED BY <3>1, <3>2
  <2>5. es = Put(c, P, e) BY <2>3 DEF Put
  <2>6. \A i \in DOMAIN c.ents \ {P} : c.ents[i].name # n
    <3>1. CASE found BY <3>1, <2>3, <2>4, <1>4 DEF Keeps
    <3>2. CASE ~found BY <3>2, <1>4
    <3>. QED BY <3>1, <3>2
  <2>7. First(k) + NameLen * Len(es) + val.len < top
    <3>0. First(k) \in Nat /\ NameLen * Len(a.ents) \in Nat BY RoomNat, <1>2, <1>3
    <3>1. CASE found
      <4>1. Len(es) = Len(a.ents)
        <5>0. Laid(c, k, P, top) BY ONLY <2>4
        <5>9. c \in Area0(k) BY ONLY <5>0 DEF Laid
        <5>1. c.ents \in Seq(Entry) BY ONLY <5>9 DEF Area0
        <5>2. es = [c.ents EXCEPT ![p] = e] BY <3>1
        <5>3. DOMAIN es = DOMAIN c.ents BY ONLY <5>2
        <5>4. PICK S : S = Entry \cup {e} OBVIOUS
        <5>5. e \in S BY ONLY <5>4
        <5>6. c.ents \in [1 .. Len(c.ents) -> S] /\ Len(c.ents) \in Nat BY ONLY <5>1, <5>4
        <5>7. es \in [1 .. Len(c.ents) -> S] BY ONLY <5>2, <5>5, <5>6
        <5>8. Len(es) = Len(c.ents) BY ONLY <5>6, <5>7
        <5>. QED BY <5>8, <1>6, <3>1
      <4>2. a.ents[p].off \in Nat /\ a.ents[p].len \in Nat /\ (a.ents[p].len = 0 <=> a.ents[p].off = 0)
        BY <3>1, <1>2, <1>4, LowIs
      <4>3. SpaceFor(a, k, n) = low - End(a, k) - 1 + (a.ents[p].len + NameLen)
        BY <3>1, <1>51
      <4>4. top = low + a.ents[p].len BY <3>1, <4>2, <1>3
      <4>5. End(a, k) = First(k) + NameLen * Len(es) BY <4>1, <1>2
      <4>6. /\ a.ents[p].len \in Nat /\ End(a, k) \in Nat /\ low \in Nat /\ NameLen \in Nat /\ val.len \in Nat
            /\ ~(SpaceFor(a, k, n) < val.len + NameLen)
        BY <4>2, <1>2, <1>3, <1>10, <2>2
      <4>7. SpaceFor(a, k, n) \in Int BY ONLY <4>3, <4>6
      <4>8. val.len + NameLen <= SpaceFor(a, k, n) BY ONLY <4>6, <4>7
      <4>9. End(a, k) + val.len < low + a.ents[p].len BY ONLY <4>3, <4>6, <4>8
      <4>. QED BY ONLY <4>4, <4>5, <4>9
    <3>2. CASE ~found
      <4>1. Len(es) = Len(a.ents) + 1
        <5>1. a.ents \in Seq(Entry) BY <1>1, EntriesAre
        <5>2. es = Append(a.ents, e) BY <3>2
        <5>. QED BY ONLY <5>1, <5>2
      <4>2. SpaceFor(a, k, n) = low - End(a, k) - 1 + 0 BY <3>2, <1>52
      <4>3. top = low BY <3>2
      <4>4. First(k) + NameLen * Len(es) = End(a, k) + NameLen
        <5>1. NameLen * (Len(a.ents) + 1) = NameLen * Len(a.ents) + NameLen BY <1>2, <1>3
        <5>2. NameLen * Len(es) = NameLen * Len(a.ents) + NameLen BY ONLY <4>1, <5>1
        <5>3. NameLen * Len(a.ents) \in Nat /\ First(k) \in Nat /\ NameLen \in Nat BY <3>0, <1>3
        <5>4. End(a, k) = First(k) + NameLen * Len(a.ents) BY <1>2
        <5>. QED BY ONLY <5>2, <5>3, <5>4
      <4>6. /\ End(a, k) \in Nat /\ low \in Nat /\ NameLen \in Nat /\ val.len \in Nat
            /\ ~(SpaceFor(a, k, n) < val.len + NameLen)
        BY <1>2, <1>3, <1>10, <2>2
      <4>7. SpaceFor(a, k, n) \in Int BY ONLY <4>2, <4>6
      <4>8. val.len + NameLen <= SpaceFor(a, k, n) BY ONLY <4>6, <4>7
      <4>9. End(a, k) + NameLen + val.len < low BY ONLY <4>2, <4>6, <4>8
      <4>. QED BY ONLY <4>3, <4>4, <4>9
    <3>. QED BY <3>1, <3>2
  <2>9. /\ Packed(d, k) /\ d.magic = c.magic
        /\ DOMAIN d.ents = DOMAIN c.ents \cup {P} /\ d.ents[P].name = n
        /\ \A i \in DOMAIN c.ents \ {P} : d.ents[i] = c.ents[i] /\ Read(d, i) = Read(c, i)
        /\ Read(d, P) = val
    <3>1. /\ P \in 1 .. Len(c.ents) + 1 /\ Laid(c, k, P, top) /\ top \in Nat /\ top <= Room(k)
          /\ val \in Values
          /\ es = Put(c, P, [name |-> n, off |-> off, len |-> val.len])
      BY <2>2, <2>3, <2>4, <2>5
    <3>2. Inserts(c, k, P, top, n, val, d)
      BY ONLY <3>1, <2>6, <2>7, d = Inserted(c, es, off, val),
              off = IF val.len = 0 THEN 0 ELSE top - val.len DEF Inserts
    <3>. QED BY ONLY k \in Kinds, n \in Names, <3>1, <3>2, InsertKeeps
  <2>10. Val(d, n) = val
    <3>1. \A i, j \in DOMAIN d.ents : i # j => d.ents[i].name # d.ents[j].name BY <2>9 DEF Packed, Laid
    <3>. QED BY ONLY <2>9, <3>1, ValIs
  <2>11. \A i \in DOMAIN a.ents \ {P} : \E j \in DOMAIN d.ents :
           d.ents[j].name = a.ents[i].name /\ Read(d, j) = Read(a, i)
    BY ONLY <2>3, <2>4, <2>9 DEF Keeps
  <2>12. \A j \in DOMAIN d.ents : d.ents[j].name = n \/
           \E i \in DOMAIN a.ents : d.ents[j].name = a.ents[i].name
    BY ONLY <2>3, <2>4, <2>9 DEF Keeps
  <2>13. \A m \in Names : Val(d, m) = IF m = n THEN val ELSE Val(a, m)
    <3>1. \A i \in DOMAIN a.ents : a.ents[i].name # n => i # P
      <4>1. CASE found BY <4>1, <1>4, <2>3
      <4>2. CASE ~found BY <4>2, <1>4, <2>3
      <4>. QED BY <4>1, <4>2
    <3>2. \A i \in DOMAIN a.ents : a.ents[i].name # n => \E j \in DOMAIN d.ents :
            d.ents[j].name = a.ents[i].name /\ Read(d, j) = Read(a, i) BY ONLY <3>1, <2>11
    <3>3. Packed(d, k) BY <2>9
    <3>4. Carries(a, d, n) BY ONLY <3>2, <2>12 DEF Carries
    <3>5. \A m \in Names : m # n => Val(d, m) = Val(a, m)
      BY ONLY k \in Kinds, Packed(a, k), <3>3, <3>4, ValsKept
    <3>. QED BY ONLY <2>10, <3>5
  <2>14. d.magic = a.magic BY <2>4, <2>9 DEF Keeps
  <2>. QED BY ONLY <1>10, <2>1, <2>9, <2>13, <2>14 DEF SetResult
<1>. QED BY <1>7, <1>8, <1>9, <1>10

\* A name is found once.
LEMMA FoundOne ==
  ASSUME NEW k \in Kinds, NEW a, Packed(a, k), NEW n, ext4_xattr_find_entry(a, n) # {}
  PROVE  Cardinality(ext4_xattr_find_entry(a, n)) = 1
<1>1. \A i, j \in DOMAIN a.ents : i # j => a.ents[i].name # a.ents[j].name BY DEF Packed, Laid
<1>. PICK i \in DOMAIN a.ents : a.ents[i].name = n BY DEF ext4_xattr_find_entry
<1>2. ext4_xattr_find_entry(a, n) = {i} BY <1>1, ValIs
<1>. QED BY <1>2, FS_Singleton

-----------------------------------------------------------------------------
(* One file.                                                               *)

\* A valid block is what a packed one is; in the body the check asks for more.
LEMMA BlockValid ==
  ASSUME NEW a, Packed(a, "block"), Unshifted(a)
  PROVE  IsValid(a, "block")
<1>0. "block" \in Kinds /\ a \in Area0("block") BY DEF Kinds, Packed, Laid
<1>1. /\ Low(a, "block") \in Nat /\ End(a, "block") < Low(a, "block")
      /\ \A i \in DOMAIN a.ents : a.ents[i].len = 0 <=> a.ents[i].off = 0
  BY <1>0, LowIs
<1>2. Skew("block") = 0 /\ Room("block") \in Nat BY <1>0, RoomNat DEF Skew
<1>3. \A i \in DOMAIN a.ents : /\ a.ents[i].off \in Nat /\ a.ents[i].len \in Nat
                               /\ a.ents[i].len = 0 => a.ents[i].off = 0
                               /\ a.ents[i].off + a.ents[i].len - 0 <= Room("block")
  <2>. TAKE i \in DOMAIN a.ents
  <2>1. a.ents[i].off \in Nat /\ a.ents[i].len \in Nat /\ i # 0 BY <1>0, EntriesAre
  <2>2. a.ents[i].len # 0 => a.ents[i].off + a.ents[i].len <= Room("block") BY <2>1 DEF Packed, Laid
  <2>. QED BY <1>1, <1>2, <2>1, <2>2
<1>4. Min({Room("block") + 0} \cup Offs(a)) - 0 >= End(a, "block") + 1
  <2>1. Room("block") + 0 = Room("block") BY <1>2
  <2>2. Min({Room("block") + 0} \cup Offs(a)) = Low(a, "block") BY ONLY <2>1 DEF Low
  <2>3. End(a, "block") \in Nat BY <1>0, EntriesAre
  <2>. QED BY ONLY <2>2, <2>3, <1>1
<1>. QED BY <1>2, <1>3, <1>4 DEF IsValid

\* An area without entries.
LEMMA EmptyIs ==
  ASSUME NEW k \in Kinds, NEW a, a = Blank(k) \/ a = Initialize(k)
  PROVE  /\ Packed(a, k) /\ Unshifted(a) /\ IsValid(a, k) /\ a.ents = <<>>
         /\ a.magic \in BOOLEAN /\ (a = Initialize(k) => a.magic) /\ \A n : Val(a, n) = None /\ ext4_xattr_find_entry(a, n) = {}
<1>. DEFINE m == [o \in 0 .. Room(k) - 1 |-> None]
<1>1. Blank(k) = [magic |-> FALSE, ents |-> <<>>, mem |-> m] BY DEF Blank
<1>3. m \in [0 .. Room(k) - 1 -> Tokens \cup {None}] OBVIOUS
<1>. HIDE DEF m
<1>2. Initialize(k) = [magic |-> TRUE, ents |-> <<>>, mem |-> m]
  <2>1. Initialize(k) = [[magic |-> FALSE, ents |-> <<>>, mem |-> m] EXCEPT !.magic = TRUE]
    BY ONLY <1>1 DEF Initialize
  <2>2. \A v, w, x, y : [[magic |-> v, ents |-> w, mem |-> x] EXCEPT !.magic = y]
                        = [magic |-> y, ents |-> w, mem |-> x] OBVIOUS
  <2>. QED BY ONLY <2>1, <2>2, Zenon
<1>4. a.ents = <<>> /\ a.mem = m /\ a.magic \in BOOLEAN /\ a = [magic |-> a.magic, ents |-> <<>>, mem |-> m]
  <2>1. CASE a = Blank(k) BY ONLY <2>1, <1>1
  <2>2. CASE a = Initialize(k) BY ONLY <2>2, <1>2
  <2>. QED BY <2>1, <2>2
<1>5. a = Initialize(k) => a.magic BY ONLY <1>2
<1>6. a \in Area0(k)
  <2>1. <<>> \in Seq(Entry) OBVIOUS
  <2>. QED BY <1>3, <1>4, <2>1 DEF Area0
<1>7. DOMAIN a.ents = {} /\ Len(a.ents) = 0 BY <1>4
<1>8. NameLen * 0 = 0 /\ First(k) \in Nat /\ First(k) < Room(k) /\ Room(k) \in Nat
  BY XattrAssumption DEF First, Room, Kinds
<1>9. End(a, k) = First(k) BY <1>7, <1>8 DEF End
<1>10. Packed(a, k) BY <1>6, <1>7, <1>8, <1>9 DEF Packed, Laid
<1>11. Unshifted(a) BY <1>7 DEF Unshifted
<1>12. IsValid(a, k)
  <2>1. Offs(a) = {} BY <1>7 DEF Offs
  <2>2. Skew(k) \in {0, 1} BY DEF Skew
  <2>3. Min({Room(k) + Skew(k)} \cup Offs(a)) = Room(k) + Skew(k)
    <3>1. {Room(k) + Skew(k)} \cup Offs(a) = {Room(k) + Skew(k)} BY <2>1
    <3>2. {Room(k) + Skew(k)} \subseteq Nat BY <1>8, <2>2
    <3>. QED BY <3>1, <3>2, MinIs
  <2>4. (Room(k) + Skew(k)) - Skew(k) >= End(a, k) + 1 BY <1>8, <1>9, <2>2
  <2>. QED BY <1>7, <2>3, <2>4 DEF IsValid
<1>13. \A n : Val(a, n) = None /\ ext4_xattr_find_entry(a, n) = {}
  <2>. TAKE n
  <2>1. ext4_xattr_find_entry(a, n) = {} BY <1>7 DEF ext4_xattr_find_entry
  <2>. QED BY <2>1 DEF Val
<1>. QED BY <1>4, <1>5, <1>10, <1>11, <1>12, <1>13

\* The attribute blocks of a volume.
BlocksOK(B) ==
  /\ DOMAIN B \subseteq Blocks /\ B = [b \in DOMAIN B |-> B[b]]
  /\ \A b \in DOMAIN B :
       /\ B[b] = [refs |-> B[b].refs, area |-> B[b].area]
       /\ B[b].refs \in Nat \ {0} /\ Packed(B[b].area, "block")

\* An attribute has one place.
Split(a, s) == \A n \in Names : s.acl # None /\ Val(a, n) # None => Val(Area(s), n) = None

BodyOK(a) == Packed(a, "body") /\ (~a.magic => a.ents = <<>>)

\* A file, its block, and how they fit.
Blocked(s) ==
  /\ s = [body |-> s.body, room |-> s.room, acl |-> s.acl, cnt |-> s.cnt, blk |-> s.blk]
  /\ s.room \in BOOLEAN /\ BlocksOK(s.blk) /\ s.acl \in DOMAIN s.blk \cup {None}
  /\ s.cnt \in Nat /\ (s.acl # None => s.cnt # 0)
FileShape(s) == Blocked(s) /\ BodyOK(s.body) /\ Split(s.body, s)

\* Every area passes the code's checks.
Accepted(s) ==
  /\ IsValid(s.body, "body") /\ Unshifted(s.body)
  /\ \A b \in DOMAIN s.blk : Unshifted(s.blk[b].area)

FileOK(s) == FileShape(s) /\ Accepted(s)

\* The attributes of a file.
View(s, n) == IF Val(s.body, n) # None THEN Val(s.body, n)
              ELSE IF s.acl # None THEN Val(Area(s), n) ELSE None

\* A file's block is in use.
LEMMA BlockIs ==
  ASSUME NEW s, Blocked(s), s.acl # None
  PROVE  s.acl \in DOMAIN s.blk /\ Packed(Area(s), "block") /\ s.blk[s.acl].refs \in Nat \ {0}
BY DEF Blocked, BlocksOK, Area

\* What get answers is the file's map.
LEMMA GetIs ==
  ASSUME NEW s, FileOK(s), NEW n \in Names
  PROVE  /\ ext4_xattr_get(s, n) = View(s, n) /\ View(s, n) \in Values \cup {None}
         /\ Home(s, n) = "body" <=> ext4_xattr_find_entry(s.body, n) # {}
         /\ Home(s, n) = "body" <=> Val(s.body, n) # None
         /\ Home(s, n) = "none" <=> View(s, n) = None
         /\ ext4_xattr_list(s, n) = IF View(s, n) = None THEN 0 ELSE 1
         /\ s.acl # None => IsValid(Area(s), "block") /\ Unshifted(Area(s)) /\ Packed(Area(s), "block")
<1>. PICK B, A : B = s.body /\ A = Area(s) OBVIOUS
<1>0. "body" \in Kinds /\ "block" \in Kinds BY DEF Kinds
<1>1. /\ Packed(B, "body") /\ IsValid(B, "body") /\ B = s.body
      /\ ~B.magic => B.ents = <<>>
  BY DEF FileOK, FileShape, BodyOK, Accepted
<1>2. None \notin DOMAIN s.blk
  BY XattrAssumption DEF FileOK, FileShape, Blocked, BlocksOK
<1>3. s.acl # None => s.acl \in DOMAIN s.blk /\ Packed(A, "block") /\ Unshifted(A) /\ IsValid(A, "block")
  BY BlockIs, BlockValid DEF FileOK, FileShape, Accepted, Area
<1>30. s.acl \in DOMAIN s.blk <=> s.acl # None BY <1>2, <1>3
<1>4. ~B.magic => ext4_xattr_find_entry(B, n) = {} BY <1>1 DEF ext4_xattr_find_entry
<1>5. /\ Val(B, n) \in Values \cup {None} /\ (ext4_xattr_find_entry(B, n) = {} <=> Val(B, n) = None)
      /\ Val(B, n) = IF ext4_xattr_find_entry(B, n) = {} THEN None ELSE Read(B, At(B, n))
  BY <1>0, <1>1, ValType DEF Val
<1>6. s.acl # None =>
        /\ Val(A, n) \in Values \cup {None} /\ (ext4_xattr_find_entry(A, n) = {} <=> Val(A, n) = None)
        /\ Val(A, n) = IF ext4_xattr_find_entry(A, n) = {} THEN None ELSE Read(A, At(A, n))
  BY <1>0, <1>3, ValType DEF Val
<1>7. View(s, n) = IF Val(B, n) # None THEN Val(B, n) ELSE IF s.acl # None THEN Val(A, n) ELSE None
  BY DEF View
<1>8. Home(s, n) = IF Val(B, n) # None THEN "body"
                   ELSE IF s.acl # None /\ Val(A, n) # None THEN "block" ELSE "none"
  <2>1. Home(s, n) = IF B.magic /\ ext4_xattr_find_entry(B, n) # {} THEN "body"
                     ELSE IF s.acl \in DOMAIN s.blk /\ ext4_xattr_find_entry(A, n) # {} THEN "block" ELSE "none"
    BY DEF Home
  <2>. QED BY ONLY <2>1, <1>30, <1>4, <1>5, <1>6
<1>9. ext4_xattr_get(s, n) = View(s, n)
  <2>1. ext4_xattr_get(s, n) =
          IF B.magic /\ ~IsValid(B, "body") THEN Unreadable
          ELSE IF Home(s, n) = "body" THEN Read(B, At(B, n))
          ELSE IF s.acl # None /\ (s.acl \notin DOMAIN s.blk \/ ~IsValid(A, "block")) THEN Unreadable
          ELSE IF Home(s, n) = "block" THEN Read(A, At(A, n))
          ELSE None
    BY DEF ext4_xattr_get
  <2>. QED BY ONLY <2>1, <1>1, <1>3, <1>30, <1>5, <1>6, <1>7, <1>8
<1>10. s.acl # None /\ Val(B, n) # None => Val(A, n) = None BY DEF FileOK, FileShape, Split
<1>11. ext4_xattr_list(s, n) = IF View(s, n) = None THEN 0 ELSE 1
  <2>1. ext4_xattr_list(s, n) =
          (IF B.magic /\ IsValid(B, "body") THEN Cardinality(ext4_xattr_find_entry(B, n)) ELSE 0)
          + (IF s.acl \in DOMAIN s.blk THEN Cardinality(ext4_xattr_find_entry(A, n)) ELSE 0)
    BY DEF ext4_xattr_list
  <2>2. Cardinality({}) = 0 BY FS_EmptySet
  <2>3. ext4_xattr_find_entry(B, n) # {} => Cardinality(ext4_xattr_find_entry(B, n)) = 1
    BY <1>0, <1>1, FoundOne
  <2>4. s.acl # None /\ ext4_xattr_find_entry(A, n) # {} => Cardinality(ext4_xattr_find_entry(A, n)) = 1
    BY <1>0, <1>3, FoundOne
  <2>. DEFINE cb == IF B.magic /\ IsValid(B, "body") THEN Cardinality(ext4_xattr_find_entry(B, n)) ELSE 0
              ca == IF s.acl \in DOMAIN s.blk THEN Cardinality(ext4_xattr_find_entry(A, n)) ELSE 0
  <2>5. cb = IF Val(B, n) = None THEN 0 ELSE 1 BY ONLY <2>2, <2>3, <1>1, <1>4, <1>5
  <2>6. ca = IF s.acl # None /\ Val(A, n) # None THEN 1 ELSE 0 BY ONLY <2>2, <2>4, <1>30, <1>6
  <2>7. ext4_xattr_list(s, n) = cb + ca BY ONLY <2>1
  <2>. HIDE DEF cb, ca
  <2>. QED BY ONLY <2>5, <2>6, <2>7, <1>7, <1>10
<1>12. View(s, n) \in Values \cup {None} BY ONLY <1>5, <1>6, <1>7
<1>13. "body" # "none" /\ "block" # "none" /\ "body" # "block" OBVIOUS
<1>14. Home(s, n) = "none" <=> View(s, n) = None BY ONLY <1>7, <1>8, <1>13
<1>15. Home(s, n) = "body" <=> Val(B, n) # None BY ONLY <1>8, <1>13
<1>. QED BY ONLY <1>1, <1>3, <1>5, <1>9, <1>11, <1>12, <1>14, <1>15, A = Area(s)

\* The block of s is shared.
Shares(s) == s.acl # None /\ s.blk[s.acl].refs > 1

\* The block stays, and changes only if it is not shared.
Stays(s, u) ==
  /\ u.acl = s.acl /\ u.cnt = s.cnt /\ DOMAIN u.blk = DOMAIN s.blk
  /\ s.acl # None => u.blk[s.acl].refs = s.blk[s.acl].refs
  /\ Shares(s) => u.blk[s.acl] = s.blk[s.acl]

\* The block is left, for none or for a new one.  Left by its last file it goes.
Moves(s, u) ==
  /\ u.acl # s.acl
  /\ u.acl # None => /\ u.acl \in Blocks \ DOMAIN s.blk /\ u.blk[u.acl].refs = 1
                     /\ s.acl = None \/ Shares(s)
  /\ DOMAIN u.blk = (IF Shares(s) THEN DOMAIN s.blk ELSE DOMAIN s.blk \ {s.acl}) \cup ({u.acl} \ {None})
  /\ Shares(s) => u.blk[s.acl] = [refs |-> s.blk[s.acl].refs - 1, area |-> s.blk[s.acl].area]
  /\ ~Shares(s) => u.cnt = IF u.acl = None THEN s.cnt - 1 ELSE s.cnt + 1

\* What a request may do to the blocks: nothing to those of other files.
Rewired(s, u) ==
  /\ \A b \in DOMAIN s.blk \ {s.acl} : b \in DOMAIN u.blk /\ u.blk[b] = s.blk[b]
  /\ Stays(s, u) \/ Moves(s, u)
BlockTurn(s, u) == Blocked(u) /\ u.body = s.body /\ u.room = s.room /\ Rewired(s, u)

\* To do nothing is a turn.
LEMMA TurnNone ==
  ASSUME NEW s, Blocked(s)
  PROVE  BlockTurn(s, s)
BY DEF BlockTurn, Rewired, Stays

\* The block of a file is a number, None is not.
LEMMA BlockNone == ASSUME NEW s, Blocked(s) PROVE None \notin DOMAIN s.blk /\ DOMAIN s.blk \subseteq Blocks
BY XattrAssumption DEF Blocked, BlocksOK

\* Writing a block that is the file's alone.
LEMMA TurnArea ==
  ASSUME NEW s, Blocked(s), NEW u, BlockTurn(s, u), u.acl # None, u.blk[u.acl].refs = 1,
         NEW a, Packed(a, "block"), NEW t, t = WithArea(u, a)
  PROVE  BlockTurn(s, t) /\ t.acl = u.acl /\ Area(t) = a /\ t.blk[t.acl].refs = 1
<1>1. /\ u = [body |-> u.body, room |-> u.room, acl |-> u.acl, cnt |-> u.cnt, blk |-> u.blk]
      /\ u.room \in BOOLEAN /\ BlocksOK(u.blk) /\ u.acl \in DOMAIN u.blk
      /\ u.cnt \in Nat /\ u.cnt # 0 /\ u.body = s.body /\ u.room = s.room
  BY DEF BlockTurn, Blocked
<1>2. PICK B : B = [u.blk EXCEPT ![u.acl].area = a] OBVIOUS
<1>3. t = [body |-> u.body, room |-> u.room, acl |-> u.acl, cnt |-> u.cnt, blk |-> B]
  BY ONLY <1>1, <1>2, t = WithArea(u, a) DEF WithArea
<1>4. t.body = u.body /\ t.room = u.room /\ t.acl = u.acl /\ t.cnt = u.cnt /\ t.blk = B BY ONLY <1>3
<1>5. /\ u.blk[u.acl] = [refs |-> u.blk[u.acl].refs, area |-> u.blk[u.acl].area]
      /\ u.blk = [b \in DOMAIN u.blk |-> u.blk[b]]
  BY ONLY <1>1 DEF BlocksOK
<1>6. /\ DOMAIN B = DOMAIN u.blk /\ B = [b \in DOMAIN B |-> B[b]]
      /\ \A b \in DOMAIN u.blk \ {u.acl} : B[b] = u.blk[b]
  BY ONLY <1>2, <1>5
<1>7. B[u.acl] = [refs |-> u.blk[u.acl].refs, area |-> a]
  <2>1. B[u.acl] = [u.blk[u.acl] EXCEPT !.area = a] BY ONLY <1>1, <1>2
  <2>. QED BY ONLY <2>1, <1>5
<1>8. BlocksOK(B)
  <2>1. ASSUME NEW b \in DOMAIN B
        PROVE  B[b] = [refs |-> B[b].refs, area |-> B[b].area] /\ B[b].refs \in Nat \ {0} /\ Packed(B[b].area, "block")
    <3>1. CASE b = u.acl BY ONLY <3>1, <1>1, <1>7, Packed(a, "block") DEF BlocksOK
    <3>2. CASE b # u.acl BY ONLY <3>2, <2>1, <1>1, <1>6 DEF BlocksOK
    <3>. QED BY <3>1, <3>2
  <2>2. DOMAIN B \subseteq Blocks BY ONLY <1>1, <1>6 DEF BlocksOK
  <2>. QED BY ONLY <2>1, <2>2, <1>6 DEF BlocksOK
<1>9. Blocked(t) BY ONLY <1>1, <1>3, <1>4, <1>6, <1>8 DEF Blocked
<1>10. Area(t) = a /\ t.blk[t.acl].refs = 1 BY ONLY <1>4, <1>7, u.blk[u.acl].refs = 1 DEF Area
<1>11. Rewired(s, t)
  <2>1. \A b \in DOMAIN s.blk \ {s.acl} : b \in DOMAIN u.blk /\ u.blk[b] = s.blk[b] BY DEF BlockTurn, Rewired
  <2>2. CASE Stays(s, u)
    <3>1. u.acl = s.acl /\ u.cnt = s.cnt /\ DOMAIN u.blk = DOMAIN s.blk /\ s.acl # None
          /\ s.blk[s.acl].refs = 1
      BY ONLY <2>2, u.acl # None, u.blk[u.acl].refs = 1 DEF Stays
    <3>2. ~Shares(s) BY ONLY <3>1 DEF Shares
    <3>30. t.blk[s.acl].refs = 1 BY ONLY <3>1, <1>4, <1>7, u.blk[u.acl].refs = 1
    <3>3. Stays(s, t) BY ONLY <3>1, <3>2, <3>30, <1>4, <1>6 DEF Stays
    <3>4. \A b \in DOMAIN s.blk \ {s.acl} : b \in DOMAIN t.blk /\ t.blk[b] = s.blk[b]
      BY ONLY <3>1, <2>1, <1>4, <1>6
    <3>. QED BY ONLY <3>3, <3>4 DEF Rewired
  <2>3. CASE Moves(s, u)
    <3>1. u.acl \notin DOMAIN s.blk BY ONLY <2>3, u.acl # None DEF Moves
    <3>2. Shares(s) => s.acl \in DOMAIN s.blk BY DEF Blocked, Shares
    <3>20. Shares(s) => s.acl \in DOMAIN u.blk \ {u.acl} BY ONLY <3>1, <3>2, <2>3 DEF Moves
    <3>3. Moves(s, t) BY ONLY <3>1, <3>20, <2>3, <1>4, <1>6, <1>10 DEF Moves
    <3>4. \A b \in DOMAIN s.blk \ {s.acl} : b \in DOMAIN t.blk /\ t.blk[b] = s.blk[b]
      BY ONLY <3>1, <2>1, <1>4, <1>6
    <3>. QED BY ONLY <3>3, <3>4 DEF Rewired
  <2>. QED BY <2>2, <2>3 DEF BlockTurn, Rewired
<1>. QED BY ONLY <1>1, <1>4, <1>9, <1>10, <1>11 DEF BlockTurn

\* A new block: b, with the others as they are in B.
LEMMA AllocIs ==
  ASSUME NEW s, s = [body |-> s.body, room |-> s.room, acl |-> s.acl, cnt |-> s.cnt, blk |-> s.blk],
         NEW a, Free(s) # {}, NEW t, t = ext4_xattr_try_alloc_block(s, 1, a)
  PROVE  /\ t.acl \in Blocks \ DOMAIN s.blk
         /\ t = [body |-> s.body, room |-> s.room, acl |-> t.acl, cnt |-> s.cnt + 1, blk |-> t.blk]
         /\ DOMAIN t.blk = DOMAIN s.blk \cup {t.acl} /\ t.blk = [b \in DOMAIN t.blk |-> t.blk[b]]
         /\ t.blk[t.acl] = [refs |-> 1, area |-> a]
         /\ \A b \in DOMAIN s.blk : t.blk[b] = s.blk[b]
<1>1. Free(s) \subseteq Nat BY XattrAssumption DEF Free
<1>2. PICK b : b = Min(Free(s)) OBVIOUS
<1>3. b \in Free(s) BY <1>1, <1>2, MinIs
<1>4. PICK B : B = WithBlock(s.blk, b, [refs |-> 1, area |-> a]) OBVIOUS
<1>5. t = [s EXCEPT !.acl = b, !.cnt = @ + 1, !.blk = B]
  BY ONLY <1>2, <1>4, t = ext4_xattr_try_alloc_block(s, 1, a) DEF ext4_xattr_try_alloc_block
<1>6. t = [body |-> s.body, room |-> s.room, acl |-> b, cnt |-> s.cnt + 1, blk |-> B]
  BY ONLY <1>5, s = [body |-> s.body, room |-> s.room, acl |-> s.acl, cnt |-> s.cnt, blk |-> s.blk]
<1>7. B = [x \in DOMAIN s.blk \cup {b} |-> IF x = b THEN [refs |-> 1, area |-> a] ELSE s.blk[x]]
  BY ONLY <1>4 DEF WithBlock
<1>9. b \in Blocks /\ b \notin DOMAIN s.blk BY ONLY <1>3 DEF Free
<1>10. t.acl = b /\ t.blk = B /\ t.body = s.body /\ t.room = s.room /\ t.cnt = s.cnt + 1 BY ONLY <1>6
<1>. QED BY ONLY <1>6, <1>7, <1>9, <1>10

\* A file without a block gets one.
LEMMA TurnAlloc ==
  ASSUME NEW s, Blocked(s), s.acl = None, NEW a, Packed(a, "block"), Free(s) # {},
         NEW t, t = ext4_xattr_try_alloc_block(s, 1, a)
  PROVE  BlockTurn(s, t) /\ t.acl # None /\ Area(t) = a /\ t.blk[t.acl].refs = 1
<1>1. /\ s = [body |-> s.body, room |-> s.room, acl |-> s.acl, cnt |-> s.cnt, blk |-> s.blk]
      /\ s.room \in BOOLEAN /\ BlocksOK(s.blk) /\ s.cnt \in Nat
  BY DEF Blocked
<1>2. /\ t.acl \in Blocks \ DOMAIN s.blk
      /\ t = [body |-> s.body, room |-> s.room, acl |-> t.acl, cnt |-> s.cnt + 1, blk |-> t.blk]
      /\ DOMAIN t.blk = DOMAIN s.blk \cup {t.acl} /\ t.blk = [b \in DOMAIN t.blk |-> t.blk[b]]
      /\ t.blk[t.acl] = [refs |-> 1, area |-> a]
      /\ \A b \in DOMAIN s.blk : t.blk[b] = s.blk[b]
  BY <1>1, AllocIs
<1>3. t.body = s.body /\ t.room = s.room /\ t.cnt = s.cnt + 1 BY ONLY <1>2
<1>4. t.acl # None /\ None \notin DOMAIN s.blk BY <1>2, BlockNone, XattrAssumption
<1>5. t.blk[t.acl].refs = 1 /\ t.blk[t.acl].area = a BY ONLY <1>2
<1>6. BlocksOK(t.blk)
  <2>1. ASSUME NEW b \in DOMAIN t.blk
        PROVE  /\ t.blk[b] = [refs |-> t.blk[b].refs, area |-> t.blk[b].area]
               /\ t.blk[b].refs \in Nat \ {0} /\ Packed(t.blk[b].area, "block")
    <3>1. CASE b = t.acl BY ONLY <3>1, <1>2, <1>5, Packed(a, "block")
    <3>2. CASE b # t.acl BY ONLY <3>2, <2>1, <1>1, <1>2 DEF BlocksOK
    <3>. QED BY <3>1, <3>2
  <2>2. DOMAIN t.blk \subseteq Blocks BY ONLY <1>1, <1>2 DEF BlocksOK
  <2>. QED BY ONLY <2>1, <2>2, <1>2 DEF BlocksOK
<1>7. Blocked(t)
  <2>1. t.cnt \in Nat /\ t.cnt # 0 /\ t.room \in BOOLEAN /\ t.acl \in DOMAIN t.blk BY ONLY <1>1, <1>2, <1>3
  <2>2. t = [body |-> t.body, room |-> t.room, acl |-> t.acl, cnt |-> t.cnt, blk |-> t.blk] BY ONLY <1>2, <1>3
  <2>. QED BY ONLY <2>1, <2>2, <1>6 DEF Blocked
<1>8. Moves(s, t)
  <2>1. ~Shares(s) BY DEF Shares
  <2>2. DOMAIN t.blk = (DOMAIN s.blk \ {s.acl}) \cup ({t.acl} \ {None}) BY <1>2, <1>4
  <2>. QED BY ONLY <2>1, <2>2, <1>2, <1>3, <1>4, <1>5, s.acl = None DEF Moves
<1>9. Rewired(s, t) BY ONLY <1>2, <1>8 DEF Rewired
<1>. QED BY ONLY <1>3, <1>4, <1>5, <1>7, <1>9 DEF BlockTurn, Area

\* A shared block is copied before it changes.
LEMMA TurnCopy ==
  ASSUME NEW s, Blocked(s), s.acl # None, NEW fault, NEW c, c = ext4_xattr_copy_new_block(s, fault)
  PROVE  /\ c.rc \in {"OK", "ENOSPC"} /\ (c.rc # "OK" => c.s = s)
         /\ c.rc = "OK" => /\ BlockTurn(s, c.s) /\ c.s.acl # None /\ c.s.blk[c.s.acl].refs = 1
                           /\ Area(c.s) = Area(s)
<1>1. /\ s = [body |-> s.body, room |-> s.room, acl |-> s.acl, cnt |-> s.cnt, blk |-> s.blk]
      /\ s.room \in BOOLEAN /\ BlocksOK(s.blk) /\ s.cnt \in Nat /\ s.acl \in DOMAIN s.blk
  BY DEF Blocked
<1>. PICK o : o = [s EXCEPT !.blk[s.acl].refs = @ - 1] OBVIOUS
<1>2. c = IF s.blk[s.acl].refs = 1 THEN [s |-> s, rc |-> "OK"]
          ELSE IF NoSpace(s, fault) THEN [s |-> s, rc |-> "ENOSPC"]
          ELSE [s |-> ext4_xattr_try_alloc_block(o, 1, Area(s)), rc |-> "OK"]
  BY DEF ext4_xattr_copy_new_block, Result
<1>3. CASE s.blk[s.acl].refs = 1
  <2>1. c.s = s /\ c.rc = "OK" BY ONLY <1>2, <1>3
  <2>. QED BY <2>1, <1>3, TurnNone
<1>4. CASE s.blk[s.acl].refs # 1 /\ NoSpace(s, fault)
  <2>1. c.s = s /\ c.rc = "ENOSPC" BY ONLY <1>2, <1>4
  <2>. QED BY <2>1
<1>5. CASE s.blk[s.acl].refs # 1 /\ ~NoSpace(s, fault)
  <2>. PICK t : t = ext4_xattr_try_alloc_block(o, 1, Area(s)) OBVIOUS
  <2>1. c.s = t /\ c.rc = "OK" BY ONLY <1>2, <1>5, t = ext4_xattr_try_alloc_block(o, 1, Area(s))
  <2>2. s.blk[s.acl].refs \in Nat \ {0, 1} /\ Packed(Area(s), "block")
        /\ s.blk[s.acl] = [refs |-> s.blk[s.acl].refs, area |-> s.blk[s.acl].area]
    BY ONLY <1>1, <1>5 DEF BlocksOK, Area
  <2>3. Shares(s) BY ONLY <2>2, s.acl # None DEF Shares
  <2>. PICK B : B = [s.blk EXCEPT ![s.acl].refs = @ - 1] OBVIOUS
  <2>4. o = [body |-> s.body, room |-> s.room, acl |-> s.acl, cnt |-> s.cnt, blk |-> B]
    BY ONLY <1>1, o = [s EXCEPT !.blk[s.acl].refs = @ - 1], B = [s.blk EXCEPT ![s.acl].refs = @ - 1]
  <2>5. /\ DOMAIN B = DOMAIN s.blk /\ \A b \in DOMAIN s.blk \ {s.acl} : B[b] = s.blk[b]
        /\ B[s.acl] = [refs |-> s.blk[s.acl].refs - 1, area |-> s.blk[s.acl].area]
    <3>1. s.blk = [b \in DOMAIN s.blk |-> s.blk[b]] BY ONLY <1>1 DEF BlocksOK
    <3>2. B[s.acl] = [s.blk[s.acl] EXCEPT !.refs = s.blk[s.acl].refs - 1]
      BY ONLY <1>1, <3>1, B = [s.blk EXCEPT ![s.acl].refs = @ - 1]
    <3>3. B[s.acl] = [refs |-> s.blk[s.acl].refs - 1, area |-> s.blk[s.acl].area] BY ONLY <2>2, <3>2
    <3>. QED BY ONLY <1>1, <3>1, <3>3, B = [s.blk EXCEPT ![s.acl].refs = @ - 1]
  <2>6. o = [body |-> o.body, room |-> o.room, acl |-> o.acl, cnt |-> o.cnt, blk |-> o.blk]
        /\ o.body = s.body /\ o.room = s.room /\ o.cnt = s.cnt /\ o.blk = B
    BY ONLY <2>4
  <2>7. Free(o) # {} BY ONLY <1>5, <2>5, <2>6 DEF NoSpace, Free
  <2>8. /\ t.acl \in Blocks \ DOMAIN B
        /\ t = [body |-> s.body, room |-> s.room, acl |-> t.acl, cnt |-> s.cnt + 1, blk |-> t.blk]
        /\ DOMAIN t.blk = DOMAIN B \cup {t.acl} /\ t.blk = [b \in DOMAIN t.blk |-> t.blk[b]]
        /\ t.blk[t.acl] = [refs |-> 1, area |-> Area(s)]
        /\ \A b \in DOMAIN B : t.blk[b] = B[b]
    <3>. PICK a : a = Area(s) OBVIOUS
    <3>1. t = ext4_xattr_try_alloc_block(o, 1, a) OBVIOUS
    <3>2. /\ t.acl \in Blocks \ DOMAIN o.blk
          /\ t = [body |-> o.body, room |-> o.room, acl |-> t.acl, cnt |-> o.cnt + 1, blk |-> t.blk]
          /\ DOMAIN t.blk = DOMAIN o.blk \cup {t.acl} /\ t.blk = [b \in DOMAIN t.blk |-> t.blk[b]]
          /\ t.blk[t.acl] = [refs |-> 1, area |-> a]
          /\ \A b \in DOMAIN o.blk : t.blk[b] = o.blk[b]
      BY ONLY <2>6, <2>7, <3>1, AllocIs
    <3>. QED BY ONLY <2>6, <3>2, a = Area(s)
  <2>9. t.body = s.body /\ t.room = s.room /\ t.cnt = s.cnt + 1 BY ONLY <2>8
  <2>10. t.acl # None /\ None \notin DOMAIN s.blk BY <2>8, BlockNone, XattrAssumption
  <2>11. t.blk[t.acl].refs = 1 /\ t.blk[t.acl].area = Area(s) BY ONLY <2>8
  <2>12. t.blk[s.acl] = [refs |-> s.blk[s.acl].refs - 1, area |-> s.blk[s.acl].area] BY ONLY <1>1, <2>5, <2>8
  <2>120. t.blk[s.acl].refs \in Nat \ {0} /\ t.blk[s.acl].area = Area(s)
    <3>1. t.blk[s.acl].refs = s.blk[s.acl].refs - 1 /\ t.blk[s.acl].area = s.blk[s.acl].area BY ONLY <2>12
    <3>. QED BY ONLY <2>2, <3>1 DEF Area
  <2>13. BlocksOK(t.blk)
    <3>1. ASSUME NEW b \in DOMAIN t.blk
          PROVE  /\ t.blk[b] = [refs |-> t.blk[b].refs, area |-> t.blk[b].area]
                 /\ t.blk[b].refs \in Nat \ {0} /\ Packed(t.blk[b].area, "block")
      <4>1. CASE b = t.acl BY ONLY <4>1, <2>2, <2>8, <2>11
      <4>2. CASE b = s.acl
        <5>1. t.blk[s.acl] = [refs |-> t.blk[s.acl].refs, area |-> t.blk[s.acl].area] BY ONLY <2>12
        <5>. QED BY ONLY <4>2, <5>1, <2>2, <2>120
      <4>3. CASE b # t.acl /\ b # s.acl
        <5>1. b \in DOMAIN s.blk /\ t.blk[b] = s.blk[b] BY ONLY <4>3, <3>1, <2>5, <2>8
        <5>. QED BY ONLY <5>1, <1>1 DEF BlocksOK
      <4>. QED BY <4>1, <4>2, <4>3
    <3>2. DOMAIN t.blk \subseteq Blocks BY ONLY <1>1, <2>5, <2>8 DEF BlocksOK
    <3>. QED BY ONLY <3>1, <3>2, <2>8 DEF BlocksOK
  <2>14. Blocked(t)
    <3>1. t.cnt \in Nat /\ t.cnt # 0 /\ t.room \in BOOLEAN /\ t.acl \in DOMAIN t.blk BY ONLY <1>1, <2>8, <2>9
    <3>2. t = [body |-> t.body, room |-> t.room, acl |-> t.acl, cnt |-> t.cnt, blk |-> t.blk] BY ONLY <2>8, <2>9
    <3>. QED BY ONLY <3>1, <3>2, <2>13 DEF Blocked
  <2>15. Moves(s, t)
    <3>1. DOMAIN t.blk = DOMAIN s.blk \cup ({t.acl} \ {None}) BY ONLY <2>5, <2>8, <2>10
    <3>2. t.acl # s.acl /\ t.acl \in Blocks \ DOMAIN s.blk BY ONLY <1>1, <2>5, <2>8
    <3>. QED BY ONLY <3>1, <3>2, <2>3, <2>10, <2>11, <2>12 DEF Moves
  <2>16. Rewired(s, t) BY ONLY <2>5, <2>8, <2>15 DEF Rewired
  <2>17. BlockTurn(s, t) BY ONLY <2>9, <2>14, <2>16 DEF BlockTurn
  <2>18. Area(t) = Area(s) BY ONLY <2>11 DEF Area
  <2>. QED BY ONLY <2>1, <2>10, <2>11, <2>17, <2>18
<1>. QED BY <1>3, <1>4, <1>5

\* An empty block is given back.
LEMMA TurnFree ==
  ASSUME NEW s, Blocked(s), s.acl # None, NEW u, BlockTurn(s, u), u.acl # None, u.blk[u.acl].refs = 1,
         NEW t, t = ext4_xattr_try_free_block(u)
  PROVE  BlockTurn(s, t) /\ t.acl = None
<1>1. /\ u = [body |-> u.body, room |-> u.room, acl |-> u.acl, cnt |-> u.cnt, blk |-> u.blk]
      /\ u.room \in BOOLEAN /\ BlocksOK(u.blk) /\ u.acl \in DOMAIN u.blk
      /\ u.cnt \in Nat /\ u.cnt # 0 /\ u.body = s.body /\ u.room = s.room
  BY DEF BlockTurn, Blocked
<1>2. PICK B : B = [b \in DOMAIN u.blk \ {u.acl} |-> u.blk[b]] OBVIOUS
<1>3. t = [u EXCEPT !.acl = None, !.cnt = @ - 1, !.blk = B]
  BY ONLY <1>2, t = ext4_xattr_try_free_block(u) DEF ext4_xattr_try_free_block, Restrict
<1>4. t = [body |-> u.body, room |-> u.room, acl |-> None, cnt |-> u.cnt - 1, blk |-> B]
  BY ONLY <1>1, <1>3
<1>5. t.body = u.body /\ t.room = u.room /\ t.acl = None /\ t.cnt = u.cnt - 1 /\ t.blk = B BY ONLY <1>4
<1>6. DOMAIN B = DOMAIN u.blk \ {u.acl} /\ \A b \in DOMAIN B : B[b] = u.blk[b] BY ONLY <1>2
<1>7. BlocksOK(B)
  <2>1. B = [b \in DOMAIN B |-> B[b]] BY ONLY <1>2
  <2>. QED BY ONLY <1>1, <1>6, <2>1 DEF BlocksOK
<1>8. Blocked(t)
  <2>1. t.cnt \in Nat BY ONLY <1>1, <1>5
  <2>2. t = [body |-> t.body, room |-> t.room, acl |-> t.acl, cnt |-> t.cnt, blk |-> t.blk] BY ONLY <1>4, <1>5
  <2>. QED BY ONLY <1>1, <1>5, <1>7, <2>1, <2>2 DEF Blocked
<1>9. s.acl \in DOMAIN s.blk /\ None \notin DOMAIN s.blk /\ None \notin DOMAIN u.blk /\ s.blk[s.acl].refs \in Nat
  BY BlockNone, BlockIs DEF BlockTurn
<1>10. \A b \in DOMAIN s.blk \ {s.acl} : b \in DOMAIN u.blk /\ u.blk[b] = s.blk[b] BY DEF BlockTurn, Rewired
<1>11. CASE Stays(s, u)
  <2>1. u.acl = s.acl /\ u.cnt = s.cnt /\ DOMAIN u.blk = DOMAIN s.blk /\ s.blk[s.acl].refs = 1
    BY ONLY <1>11, s.acl # None, u.blk[u.acl].refs = 1 DEF Stays
  <2>2. ~Shares(s) BY ONLY <2>1 DEF Shares
  <2>3. Moves(s, t) BY ONLY <2>1, <2>2, <1>5, <1>6, s.acl # None DEF Moves
  <2>4. \A b \in DOMAIN s.blk \ {s.acl} : b \in DOMAIN t.blk /\ t.blk[b] = s.blk[b] BY ONLY <2>1, <1>5, <1>6, <1>10
  <2>5. Rewired(s, t) BY ONLY <2>3, <2>4 DEF Rewired
  <2>. QED BY ONLY <2>5, <1>1, <1>5, <1>8 DEF BlockTurn
<1>12. CASE Moves(s, u)
  <2>1. /\ u.acl \in Blocks \ DOMAIN s.blk /\ Shares(s)
        /\ DOMAIN u.blk = DOMAIN s.blk \cup {u.acl}
        /\ u.blk[s.acl] = [refs |-> s.blk[s.acl].refs - 1, area |-> s.blk[s.acl].area]
    BY ONLY <1>12, s.acl # None, u.acl # None DEF Moves
  <2>2. DOMAIN B = DOMAIN s.blk /\ B[s.acl] = u.blk[s.acl] BY ONLY <2>1, <1>6, <1>9
  <2>3. Moves(s, t)
    <3>1. DOMAIN t.blk = DOMAIN s.blk \cup ({t.acl} \ {None}) BY ONLY <2>2, <1>5
    <3>2. t.blk[s.acl] = [refs |-> s.blk[s.acl].refs - 1, area |-> s.blk[s.acl].area] BY ONLY <2>1, <2>2, <1>5
    <3>. QED BY ONLY <3>1, <3>2, <2>1, <1>5, s.acl # None DEF Moves
  <2>4. \A b \in DOMAIN s.blk \ {s.acl} : b \in DOMAIN t.blk /\ t.blk[b] = s.blk[b] BY ONLY <2>1, <2>2, <1>5, <1>6, <1>10
  <2>5. Rewired(s, t) BY ONLY <2>3, <2>4 DEF Rewired
  <2>. QED BY ONLY <2>5, <1>1, <1>5, <1>8 DEF BlockTurn
<1>. QED BY <1>11, <1>12 DEF BlockTurn, Rewired

\* An area is put back as it was.
LEMMA SameArea ==
  ASSUME NEW s, Blocked(s), s.acl # None
  PROVE  WithArea(s, Area(s)) = s
<1>1. /\ s = [body |-> s.body, room |-> s.room, acl |-> s.acl, cnt |-> s.cnt, blk |-> s.blk]
      /\ s.acl \in DOMAIN s.blk /\ s.blk = [b \in DOMAIN s.blk |-> s.blk[b]]
      /\ s.blk[s.acl] = [refs |-> s.blk[s.acl].refs, area |-> s.blk[s.acl].area]
  BY DEF Blocked, BlocksOK
<1>. PICK a, B : a = s.blk[s.acl].area /\ B = [s.blk EXCEPT ![s.acl].area = a] OBVIOUS
<1>2. WithArea(s, a) = [body |-> s.body, room |-> s.room, acl |-> s.acl, cnt |-> s.cnt, blk |-> B]
  BY ONLY <1>1, B = [s.blk EXCEPT ![s.acl].area = a] DEF WithArea
<1>3. B[s.acl] = s.blk[s.acl]
  <2>1. B[s.acl] = [s.blk[s.acl] EXCEPT !.area = a] BY ONLY <1>1, B = [s.blk EXCEPT ![s.acl].area = a]
  <2>2. B[s.acl] = [refs |-> s.blk[s.acl].refs, area |-> a] BY ONLY <2>1, <1>1
  <2>. QED BY ONLY <2>2, <1>1, a = s.blk[s.acl].area
<1>4. B = s.blk
  <2>1. DOMAIN B = DOMAIN s.blk /\ B = [b \in DOMAIN B |-> B[b]]
        /\ \A b \in DOMAIN s.blk \ {s.acl} : B[b] = s.blk[b]
    BY ONLY <1>1, B = [s.blk EXCEPT ![s.acl].area = a]
  <2>2. \A b \in DOMAIN s.blk : B[b] = s.blk[b] BY ONLY <2>1, <1>3
  <2>. QED BY ONLY <2>1, <2>2, <1>1
<1>. QED BY ONLY <1>1, <1>2, <1>4, a = s.blk[s.acl].area DEF Area

\* What ext4_xattr_block_set may come to.
BlockSet(s, n, val, no_insert, r) ==
  /\ r.rc \in {"OK", "ENOSPC", "EIO", "ENODATA", "CRASH"} /\ (r.rc = "ENODATA" => no_insert)
  /\ r.rc # "OK" => r.s = s
  /\ r.rc = "OK" =>
       /\ BlockTurn(s, r.s) /\ r.s.acl # None
       /\ \A m \in Names : Val(Area(r.s), m) =
            IF m = n THEN val ELSE IF s.acl # None THEN Val(Area(s), m) ELSE None

\* ext4_xattr_block_set writes one value in the block, or fails and leaves it.
LEMMA BlockSetIs ==
  ASSUME NEW s, Blocked(s), s.acl # None => Unshifted(Area(s)), NEW n \in Names, NEW val \in Values,
         NEW no_insert \in BOOLEAN, NEW fault, NEW r, r = ext4_xattr_block_set(s, n, val, no_insert, fault)
  PROVE  BlockSet(s, n, val, no_insert, r)
<1>. PICK w : w = ext4_xattr_set_entry(Initialize("block"), "block", n, val) OBVIOUS
<1>. PICK u : u = ext4_xattr_set_entry(Area(s), "block", n, val) OBVIOUS
<1>. DEFINE many2 == s.blk[s.acl].refs > 1
<1>0. r = IF s.acl = None
          THEN IF NoSpace(s, fault) THEN [s |-> s, rc |-> "ENOSPC"]
               ELSE IF fault = "read" THEN [s |-> s, rc |-> "EIO"]
               ELSE IF w.rc = "OK" THEN [s |-> ext4_xattr_try_alloc_block(s, 1, w.a), rc |-> "OK"]
               ELSE [s |-> s, rc |-> w.rc]
          ELSE IF fault = "read" \/ (~IsValid(Area(s), "block") /\ (no_insert \/ ~many2)) THEN [s |-> s, rc |-> "EIO"]
          ELSE IF ~many2 THEN [s |-> WithArea(s, u.a), rc |-> u.rc]
          ELSE IF no_insert /\ ext4_xattr_find_entry(Area(s), n) = {} THEN [s |-> s, rc |-> "ENODATA"]
          ELSE IF NoSpace(s, fault) THEN [s |-> s, rc |-> "ENOSPC"]
          ELSE [s |-> s, rc |-> "CRASH"]
  BY DEF ext4_xattr_block_set, Result
<1>1. "block" \in Kinds /\ val \in Values \cup {None} /\ val # None BY ValuesAre DEF Kinds
<1>2. CASE s.acl = None
  <2>0. /\ Packed(Initialize("block"), "block") /\ Unshifted(Initialize("block"))
        /\ \A m : Val(Initialize("block"), m) = None
    BY <1>1, EmptyIs
  <2>1. SetResult(Initialize("block"), "block", n, val, w) BY <1>1, <2>0, SetEntryIs
  <2>2. CASE NoSpace(s, fault)
    <3>1. r.s = s /\ r.rc = "ENOSPC" BY ONLY <1>0, <1>2, <2>2
    <3>. QED BY ONLY <3>1 DEF BlockSet
  <2>3. CASE ~NoSpace(s, fault) /\ fault = "read"
    <3>1. r.s = s /\ r.rc = "EIO" BY ONLY <1>0, <1>2, <2>3
    <3>. QED BY ONLY <3>1 DEF BlockSet
  <2>4. CASE ~NoSpace(s, fault) /\ fault # "read" /\ w.rc = "OK"
    <3>. PICK t : t = ext4_xattr_try_alloc_block(s, 1, w.a) OBVIOUS
    <3>1. r.s = t /\ r.rc = "OK" BY ONLY <1>0, <1>2, <2>4, t = ext4_xattr_try_alloc_block(s, 1, w.a)
    <3>2. Packed(w.a, "block") /\ \A m \in Names : Val(w.a, m) = IF m = n THEN val ELSE None
      BY ONLY <2>0, <2>1, <2>4 DEF SetResult
    <3>3. Free(s) # {} BY <2>4 DEF NoSpace
    <3>4. BlockTurn(s, t) /\ t.acl # None /\ Area(t) = w.a
      <4>. PICK a : a = w.a OBVIOUS
      <4>1. Packed(a, "block") /\ t = ext4_xattr_try_alloc_block(s, 1, a) BY <3>2
      <4>2. BlockTurn(s, t) /\ t.acl # None /\ Area(t) = a
        BY ONLY Blocked(s), <1>2, <3>3, <4>1, TurnAlloc
      <4>. QED BY <4>2
    <3>. QED BY ONLY <3>1, <3>2, <3>4, <1>2 DEF BlockSet
  <2>5. CASE ~NoSpace(s, fault) /\ fault # "read" /\ w.rc # "OK"
    <3>1. r.s = s /\ r.rc = w.rc BY ONLY <1>0, <1>2, <2>5
    <3>2. w.rc = "ENOSPC" BY ONLY <2>1, <2>5 DEF SetResult
    <3>. QED BY ONLY <3>1, <3>2 DEF BlockSet
  <2>. QED BY <2>2, <2>3, <2>4, <2>5
<1>3. CASE s.acl # None
  <2>0. /\ Packed(Area(s), "block") /\ Unshifted(Area(s)) /\ s.blk[s.acl].refs \in Nat \ {0}
    BY <1>3, BlockIs
  <2>1. SetResult(Area(s), "block", n, val, u) BY <1>1, <2>0, SetEntryIs
  <2>2. CASE fault = "read" \/ (~IsValid(Area(s), "block") /\ (no_insert \/ ~many2))
    <3>1. r.s = s /\ r.rc = "EIO" BY ONLY <1>0, <1>3, <2>2
    <3>. QED BY ONLY <3>1 DEF BlockSet
  <2>3. CASE ~(fault = "read" \/ (~IsValid(Area(s), "block") /\ (no_insert \/ ~many2))) /\ ~many2
    <3>. PICK t : t = WithArea(s, u.a) OBVIOUS
    <3>1. r.s = t /\ r.rc = u.rc BY ONLY <1>0, <1>3, <2>3, t = WithArea(s, u.a)
    <3>2. CASE u.rc = "OK"
      <4>1. /\ Packed(u.a, "block")
            /\ \A m \in Names : Val(u.a, m) = IF m = n THEN val ELSE Val(Area(s), m)
        BY ONLY <2>1, <3>2 DEF SetResult
      <4>2. s.blk[s.acl].refs = 1 BY ONLY <2>0, <2>3
      <4>3. BlockTurn(s, t) /\ t.acl = s.acl /\ Area(t) = u.a
        <5>. PICK a : a = u.a OBVIOUS
        <5>1. Packed(a, "block") /\ t = WithArea(s, a) BY <4>1
        <5>2. BlockTurn(s, s) BY TurnNone
        <5>3. BlockTurn(s, t) /\ t.acl = s.acl /\ Area(t) = a
          BY ONLY Blocked(s), <1>3, <4>2, <5>1, <5>2, TurnArea
        <5>. QED BY <5>3
      <4>. QED BY ONLY <3>1, <3>2, <4>1, <4>3, <1>3 DEF BlockSet
    <3>3. CASE u.rc # "OK"
      <4>1. u.rc = "ENOSPC" /\ u.a = Area(s) BY ONLY <2>1, <3>3 DEF SetResult
      <4>2. t = s BY <4>1, <1>3, SameArea
      <4>. QED BY ONLY <3>1, <4>1, <4>2 DEF BlockSet
    <3>. QED BY <3>2, <3>3
  <2>4. CASE ~(fault = "read" \/ (~IsValid(Area(s), "block") /\ (no_insert \/ ~many2))) /\ many2
    <3>1. r.s = s /\ \/ r.rc = "ENODATA" /\ no_insert
                     \/ r.rc \in {"ENOSPC", "CRASH"}
      BY ONLY <1>0, <1>3, <2>4
    <3>. QED BY ONLY <3>1 DEF BlockSet
  <2>. QED BY <2>2, <2>3, <2>4
<1>. QED BY <1>2, <1>3

\* What set_entry does to a body.
LEMMA BodySetIs ==
  ASSUME NEW b, BodyOK(b), Unshifted(b), NEW n \in Names, NEW val \in Values \cup {None},
         b.magic \/ val = None, NEW r, r = ext4_xattr_set_entry(b, "body", n, val)
  PROVE  SetResult(b, "body", n, val, r) /\ BodyOK(r.a)
<1>1. "body" \in Kinds /\ Packed(b, "body") BY DEF Kinds, BodyOK
<1>2. SetResult(b, "body", n, val, r) BY <1>1, SetEntryIs
<1>3. CASE r.rc # "OK" \/ (val = None /\ Val(b, n) = None) BY ONLY <1>2, <1>3, BodyOK(b) DEF SetResult
<1>4. CASE r.rc = "OK" /\ ~(val = None /\ Val(b, n) = None)
  <2>1. Packed(r.a, "body") /\ r.a.magic = b.magic BY ONLY <1>2, <1>4 DEF SetResult
  <2>2. ~b.magic => Val(b, n) = None
    <3>1. b.ents = <<>> => ext4_xattr_find_entry(b, n) = {} BY DEF ext4_xattr_find_entry
    <3>. QED BY <3>1 DEF BodyOK, Val
  <2>3. b.magic BY ONLY <2>2, <1>4, b.magic \/ val = None
  <2>4. r.a.magic BY ONLY <2>1, <2>3
  <2>5. ~r.a.magic => r.a.ents = <<>> BY ONLY <2>4, Zenon
  <2>. QED BY ONLY <1>2, <2>1, <2>5 DEF BodyOK
<1>. QED BY <1>2, <1>3, <1>4

\* No unit is left between the terminator and the values.
Filled(a) == Offs(a) # {} /\ Min(Offs(a)) = End(a, "body") + 1

\* The check of an area in the inode asks for one unit more than set_entry
\* leaves: it refuses an area whose values reach down to the terminator.
LEMMA BodyValid ==
  ASSUME NEW a, Packed(a, "body"), Unshifted(a)
  PROVE  IsValid(a, "body") <=> ~Filled(a)
<1>. PICK room, end, low : room = Room("body") /\ end = End(a, "body") /\ low = Low(a, "body") OBVIOUS
<1>0. "body" \in Kinds /\ a \in Area0("body") BY DEF Kinds, Packed, Laid
<1>1. /\ low \in Nat /\ end < low /\ low <= room /\ end \in Nat /\ room \in Nat
      /\ \A i \in DOMAIN a.ents : a.ents[i].len = 0 <=> a.ents[i].off = 0
  BY <1>0, LowIs, EntriesAre, RoomNat
<1>2. \A i \in DOMAIN a.ents : /\ a.ents[i].off \in Nat /\ a.ents[i].len \in Nat /\ i # 0
                               /\ a.ents[i].len # 0 => a.ents[i].off + a.ents[i].len <= room
  BY <1>0, EntriesAre DEF Packed, Laid
<1>3. Skew("body") = 1 BY DEF Skew
<1>4. \A i \in DOMAIN a.ents : /\ a.ents[i].len = 0 => a.ents[i].off = 0
                               /\ a.ents[i].off + a.ents[i].len - Skew("body") <= room
  BY ONLY <1>1, <1>2, <1>3
<1>5. \A o \in Offs(a) : o \in Nat /\ o < room BY ONLY <1>1, <1>2 DEF Offs
<1>. PICK min : min = Min({room + 1} \cup Offs(a)) OBVIOUS
<1>6. min \in {room + 1} \cup Offs(a) /\ \A o \in {room + 1} \cup Offs(a) : min <= o
  <2>1. {room + 1} \cup Offs(a) \subseteq Nat BY ONLY <1>1, <1>5
  <2>. QED BY <2>1, MinIs
<1>. PICK least : least = Min(Offs(a)) OBVIOUS
<1>7. Offs(a) # {} => least \in Offs(a) /\ \A o \in Offs(a) : least <= o
  <2>1. Offs(a) \subseteq Nat BY ONLY <1>5
  <2>. QED BY <2>1, MinIs
<1>70. Offs(a) # {} => end < least
  <2>1. \A i \in DOMAIN a.ents : a.ents[i].len # 0 => low <= a.ents[i].off BY <1>0, LowIs
  <2>2. \A o \in Offs(a) : low <= o BY ONLY <2>1 DEF Offs
  <2>. QED BY ONLY <2>2, <1>1, <1>5, <1>7
<1>8. IsValid(a, "body") <=> min - 1 >= end + 1
  BY ONLY <1>3, <1>4, min = Min({room + 1} \cup Offs(a)), room = Room("body"), end = End(a, "body") DEF IsValid
<1>9. CASE Offs(a) = {} BY ONLY <1>1, <1>6, <1>8, <1>9 DEF Filled
<1>10. CASE Offs(a) # {}
  <2>1. min = least /\ min \in Nat BY ONLY <1>1, <1>5, <1>6, <1>7, <1>10
  <2>2. Filled(a) <=> least = end + 1
    BY ONLY <1>10, least = Min(Offs(a)), end = End(a, "body") DEF Filled
  <2>. QED BY ONLY <2>1, <2>2, <1>1, <1>8, <1>10, <1>70
<1>. QED BY <1>9, <1>10

\* What the area in the inode is after a set or a removal that succeeds
\* (ext4_xattr_set_entry), and that moved no empty value: the check of the next
\* request (ext4_xattr_is_ibody_valid) refuses it if, and only if, it is filled
\* to the last unit.
THEOREM OnlyFilledRefused ==
  ASSUME NEW a, Packed(a, "body"), Unshifted(a), NEW n \in Names, NEW val \in Values \cup {None},
         NEW r, r = ext4_xattr_set_entry(a, "body", n, val), r.rc = "OK", Unshifted(r.a)
  PROVE  IsValid(r.a, "body") <=> ~Filled(r.a)
<1>1. "body" \in Kinds BY DEF Kinds
<1>2. Packed(r.a, "body") BY <1>1, SetEntryIs DEF SetResult
<1>. QED BY <1>2, BodyValid

\* A request on a file: nothing but the one attribute changes, and the blocks
\* of other files do not.
Turn(s, t, n, val, done) ==
  /\ FileShape(t) /\ t.room = s.room /\ Rewired(s, t)
  /\ \A m \in Names : View(t, m) = IF done /\ m = n THEN val ELSE View(s, m)

\* A new body beside what a request made of the block.
WithBody(u, a) == [u EXCEPT !.body = a]

\* A body and a block that have no name in common make a file.
LEMMA Joined ==
  ASSUME NEW s, Blocked(s), NEW u, BlockTurn(s, u), NEW a, BodyOK(a), Split(a, u),
         NEW t, t = WithBody(u, a)
  PROVE  /\ FileShape(t) /\ t.room = s.room /\ Rewired(s, t)
         /\ t.body = a /\ t.acl = u.acl /\ Area(t) = Area(u) /\ t.blk = u.blk
<1>1. /\ u = [body |-> u.body, room |-> u.room, acl |-> u.acl, cnt |-> u.cnt, blk |-> u.blk]
      /\ u.room \in BOOLEAN /\ BlocksOK(u.blk) /\ u.acl \in DOMAIN u.blk \cup {None}
      /\ u.cnt \in Nat /\ (u.acl # None => u.cnt # 0) /\ u.room = s.room /\ Rewired(s, u)
  BY DEF BlockTurn, Blocked
<1>2. t = [body |-> a, room |-> u.room, acl |-> u.acl, cnt |-> u.cnt, blk |-> u.blk]
  BY ONLY <1>1, t = WithBody(u, a) DEF WithBody
<1>3. t.body = a /\ t.room = u.room /\ t.acl = u.acl /\ t.cnt = u.cnt /\ t.blk = u.blk BY ONLY <1>2
<1>4. Blocked(t) BY ONLY <1>1, <1>2, <1>3 DEF Blocked
<1>5. Area(t) = Area(u) BY ONLY <1>3 DEF Area
<1>6. Split(t.body, t) BY ONLY <1>3, <1>5, Split(a, u) DEF Split
<1>7. FileShape(t) BY ONLY <1>3, <1>4, <1>6, BodyOK(a) DEF FileShape
<1>8. Rewired(s, t) BY ONLY <1>1, <1>3 DEF Rewired, Stays, Moves
<1>. QED BY ONLY <1>1, <1>3, <1>5, <1>7, <1>8

\* An area without entries has no values.
LEMMA NoEntries == ASSUME NEW a, a.ents = <<>> PROVE \A m : Val(a, m) = None
BY DEF Val, ext4_xattr_find_entry

\* Removing a name from a file's block that has it: the block is copied if it
\* is shared, and given back if it is left empty.
LEMMA BlockRemoved ==
  ASSUME NEW s, Blocked(s), s.acl # None, Unshifted(Area(s)), NEW n \in Names, NEW fault,
         NEW c, c = ext4_xattr_copy_new_block(s, fault), c.rc = "OK",
         NEW w, w = ext4_xattr_set_entry(Area(c.s), "block", n, None)
  PROVE  /\ SetResult(Area(s), "block", n, None, w) /\ w.rc = "OK"
         /\ BlockTurn(s, WithArea(c.s, w.a)) /\ WithArea(c.s, w.a).acl # None
         /\ Area(WithArea(c.s, w.a)) = w.a
         /\ BlockTurn(s, ext4_xattr_try_free_block(c.s)) /\ ext4_xattr_try_free_block(c.s).acl = None
<1>1. "block" \in Kinds /\ None \in Values \cup {None} BY DEF Kinds
<1>2. BlockTurn(s, c.s) /\ c.s.acl # None /\ c.s.blk[c.s.acl].refs = 1 /\ Area(c.s) = Area(s)
  BY TurnCopy
<1>3. Packed(Area(s), "block") BY BlockIs
<1>4. SetResult(Area(s), "block", n, None, w)
  <2>1. w = ext4_xattr_set_entry(Area(s), "block", n, None) BY <1>2
  <2>. QED BY ONLY <1>1, <1>3, <2>1, Unshifted(Area(s)), n \in Names, SetEntryIs
<1>5. w.rc = "OK" BY ONLY <1>4 DEF SetResult
<1>6. Packed(w.a, "block") BY ONLY <1>4, <1>5 DEF SetResult
<1>. PICK a, t, x, u : a = w.a /\ t = WithArea(c.s, w.a) /\ x = ext4_xattr_try_free_block(c.s) /\ u = c.s OBVIOUS
<1>7. Packed(a, "block") /\ t = WithArea(u, a) /\ x = ext4_xattr_try_free_block(u) BY <1>6
<1>8. BlockTurn(s, u) /\ u.acl # None /\ u.blk[u.acl].refs = 1 BY <1>2
<1>9. BlockTurn(s, t) /\ t.acl = u.acl /\ Area(t) = a
  BY ONLY <1>7, <1>8, Blocked(s), TurnArea
<1>10. BlockTurn(s, x) /\ x.acl = None
  BY ONLY <1>7, <1>8, Blocked(s), s.acl # None, TurnFree
<1>. QED BY <1>4, <1>5, <1>8, <1>9, <1>10

\* ext4_xattr_remove takes away one attribute, or fails and leaves the file.
LEMMA RemoveIs ==
  ASSUME NEW s, FileOK(s), NEW n \in Names, NEW fault, NEW r, r = ext4_xattr_remove(s, n, fault)
  PROVE  /\ r.rc \in {"OK", "ENOSPC", "EIO", "ENOATTR"}
         /\ Turn(s, r.s, n, None, r.rc = "OK")
<1>. PICK c : c = ext4_xattr_copy_new_block(s, fault) OBVIOUS
<1>. PICK w : w = ext4_xattr_set_entry(Area(c.s), "block", n, None) OBVIOUS
<1>. PICK v : v = ext4_xattr_set_entry(s.body, "body", n, None) OBVIOUS
<1>. PICK t : t = [s EXCEPT !.body = v.a] OBVIOUS
<1>. PICK y : y = WithArea(c.s, w.a) OBVIOUS
<1>. PICK x : x = ext4_xattr_try_free_block(c.s) OBVIOUS
<1>0. r = IF s.body.magic /\ ~IsValid(s.body, "body") THEN [s |-> s, rc |-> "EIO"]
          ELSE IF Home(s, n) = "body" \/ s.acl = None THEN [s |-> t, rc |-> "OK"]
          ELSE IF fault = "read" \/ ~IsValid(Area(s), "block") THEN [s |-> s, rc |-> "EIO"]
          ELSE IF Home(s, n) = "none" THEN [s |-> s, rc |-> "ENOATTR"]
          ELSE IF c.rc # "OK" THEN c
          ELSE [s |-> IF w.a.ents = <<>> THEN x ELSE y, rc |-> "OK"]
  BY DEF ext4_xattr_remove, Result, NotThere
<1>1. /\ Blocked(s) /\ BodyOK(s.body) /\ Split(s.body, s) /\ FileShape(s)
      /\ IsValid(s.body, "body") /\ Unshifted(s.body)
  BY DEF FileOK, FileShape, Accepted
<1>2. /\ Home(s, n) = "body" <=> Val(s.body, n) # None
      /\ Home(s, n) = "none" <=> View(s, n) = None
      /\ s.acl # None => IsValid(Area(s), "block") /\ Unshifted(Area(s)) /\ Packed(Area(s), "block")
  BY GetIs
<1>3. Turn(s, s, n, None, FALSE)
  <2>1. Rewired(s, s) BY <1>1, TurnNone DEF BlockTurn
  <2>. QED BY ONLY <2>1, <1>1 DEF Turn
<1>4. SetResult(s.body, "body", n, None, v) /\ BodyOK(v.a)
  BY <1>1, BodySetIs
<1>5. v.rc = "OK" /\ \A m \in Names : Val(v.a, m) = IF m = n THEN None ELSE Val(s.body, m)
  BY ONLY <1>4 DEF SetResult
<1>6. CASE Home(s, n) = "body" \/ s.acl = None
  <2>1. r.s = t /\ r.rc = "OK" BY ONLY <1>0, <1>1, <1>6
  <2>2. Split(v.a, s) BY ONLY <1>1, <1>5 DEF Split
  <2>3. /\ FileShape(t) /\ t.room = s.room /\ Rewired(s, t)
        /\ t.body = v.a /\ t.acl = s.acl /\ Area(t) = Area(s)
    <3>. PICK a : a = v.a OBVIOUS
    <3>1. BodyOK(a) /\ Split(a, s) /\ t = WithBody(s, a) BY <1>4, <2>2 DEF WithBody
    <3>2. BlockTurn(s, s) BY <1>1, TurnNone
    <3>3. /\ FileShape(t) /\ t.room = s.room /\ Rewired(s, t)
          /\ t.body = a /\ t.acl = s.acl /\ Area(t) = Area(s)
      BY ONLY <1>1, <3>1, <3>2, Joined
    <3>. QED BY <3>3
  <2>4. \A m \in Names : View(t, m) = IF m = n THEN None ELSE View(s, m)
    <3>1. Home(s, n) = "body" /\ s.acl # None => Val(Area(s), n) = None BY ONLY <1>1, <1>2 DEF Split
    <3>. QED BY ONLY <3>1, <2>3, <1>5, <1>6 DEF View
  <2>5. Turn(s, t, n, None, TRUE) BY ONLY <2>3, <2>4 DEF Turn
  <2>6. Turn(s, r.s, n, None, r.rc = "OK") BY <2>1, <2>5
  <2>. QED BY ONLY <2>1, <2>6
<1>7. CASE ~(Home(s, n) = "body" \/ s.acl = None) /\ fault = "read"
  <2>1. r.s = s /\ r.rc = "EIO" BY ONLY <1>0, <1>1, <1>7
  <2>2. (r.rc = "OK") = FALSE BY ONLY <2>1
  <2>3. Turn(s, r.s, n, None, r.rc = "OK") BY ONLY <2>1, <2>2, <1>3
  <2>. QED BY ONLY <2>1, <2>3
<1>8. CASE ~(Home(s, n) = "body" \/ s.acl = None) /\ fault # "read" /\ Home(s, n) = "none"
  <2>1. r.s = s /\ r.rc = "ENOATTR" BY ONLY <1>0, <1>1, <1>2, <1>8
  <2>2. (r.rc = "OK") = FALSE BY ONLY <2>1
  <2>3. Turn(s, r.s, n, None, r.rc = "OK") BY ONLY <2>1, <2>2, <1>3
  <2>. QED BY ONLY <2>1, <2>3
<1>9. CASE ~(Home(s, n) = "body" \/ s.acl = None) /\ fault # "read" /\ Home(s, n) # "none"
  <2>0. View(s, n) # None /\ s.acl # None /\ Val(s.body, n) = None BY ONLY <1>2, <1>9
  <2>00. IsValid(Area(s), "block") /\ Unshifted(Area(s)) BY ONLY <1>2, <2>0
  <2>1. CASE c.rc # "OK"
    <3>1. r = c BY ONLY <1>0, <1>1, <2>00, <1>9, <2>1
    <3>2. c.rc = "ENOSPC" /\ c.s = s BY ONLY <1>1, <2>0, <2>1, TurnCopy, c = ext4_xattr_copy_new_block(s, fault)
    <3>3. (r.rc = "OK") = FALSE BY ONLY <3>1, <3>2
    <3>4. Turn(s, r.s, n, None, r.rc = "OK") BY ONLY <3>1, <3>2, <3>3, <1>3
    <3>. QED BY ONLY <3>1, <3>2, <3>4, <2>0
  <2>2. CASE c.rc = "OK"
    <3>1. /\ SetResult(Area(s), "block", n, None, w) /\ w.rc = "OK"
          /\ BlockTurn(s, y) /\ y.acl # None /\ Area(y) = w.a
          /\ BlockTurn(s, x) /\ x.acl = None
      BY ONLY <1>1, <2>0, <2>00, <2>2, n \in Names, BlockRemoved, c = ext4_xattr_copy_new_block(s, fault),
              w = ext4_xattr_set_entry(Area(c.s), "block", n, None),
              y = WithArea(c.s, w.a), x = ext4_xattr_try_free_block(c.s)
    <3>2. /\ \A m \in Names : Val(w.a, m) = IF m = n THEN None ELSE Val(Area(s), m)
      BY ONLY <3>1 DEF SetResult
    <3>3. CASE w.a.ents = <<>>
      <4>1. r.s = x /\ r.rc = "OK" BY ONLY <1>0, <1>1, <2>00, <1>9, <2>2, <3>3
      <4>2. \A m \in Names : m # n => Val(Area(s), m) = None BY ONLY <3>2, <3>3, NoEntries
      <4>3. Turn(s, x, n, None, TRUE)
        <5>1. FileShape(x) /\ x.room = s.room /\ Rewired(s, x) /\ x.body = s.body
          BY ONLY <3>1, <1>1 DEF BlockTurn, FileShape, Split
        <5>2. \A m \in Names : View(x, m) = IF m = n THEN None ELSE View(s, m)
          BY ONLY <5>1, <3>1, <4>2, <2>0 DEF View
        <5>. QED BY ONLY <5>1, <5>2 DEF Turn
      <4>4. (r.rc = "OK") = TRUE BY ONLY <4>1
      <4>. QED BY ONLY <4>1, <4>3, <4>4, <2>0
    <3>4. CASE w.a.ents # <<>>
      <4>1. r.s = y /\ r.rc = "OK" BY ONLY <1>0, <1>1, <2>00, <1>9, <2>2, <3>4
      <4>3. Turn(s, y, n, None, TRUE)
        <5>0. Split(s.body, y) BY ONLY <1>1, <2>0, <3>1, <3>2 DEF Split
        <5>1. FileShape(y) /\ y.room = s.room /\ Rewired(s, y) /\ y.body = s.body
          BY ONLY <3>1, <1>1, <5>0 DEF BlockTurn, FileShape
        <5>2. \A m \in Names : View(y, m) = IF m = n THEN None ELSE View(s, m)
          BY ONLY <5>1, <3>1, <3>2, <2>0 DEF View
        <5>. QED BY ONLY <5>1, <5>2 DEF Turn
      <4>4. (r.rc = "OK") = TRUE BY ONLY <4>1
      <4>. QED BY ONLY <4>1, <4>3, <4>4, <2>0
    <3>. QED BY <3>3, <3>4
  <2>. QED BY <2>1, <2>2
<1>. QED BY <1>6, <1>7, <1>8, <1>9

\* A request that fails may leave the attribute in another place than it was,
\* which the guards of Write do not let stay.
Strays(s, t, n) ==
  \/ Home(s, n) # "body" /\ Home(t, n) = "body"
  \/ Home(s, n) = "body" /\ Home(t, n) # "body"

\* A body that gets its header has no attributes before and after.
Headed(s) == [s EXCEPT !.body = IF s.room /\ ~s.body.magic THEN Initialize("body") ELSE s.body]

\* The header that the body of a file gets is no attribute.
LEMMA Initialized ==
  ASSUME NEW s, FileOK(s), NEW t,
         t = Headed(s)
  PROVE  /\ FileOK(t) /\ t.room = s.room /\ Rewired(s, t)
         /\ t.acl = s.acl /\ t.blk = s.blk /\ t.cnt = s.cnt /\ Area(t) = Area(s)
         /\ s.room => t.body.magic
         /\ \A m \in Names : Val(t.body, m) = Val(s.body, m) /\ View(t, m) = View(s, m)
<1>. PICK a : a = IF s.room /\ ~s.body.magic THEN Initialize("body") ELSE s.body OBVIOUS
<1>1. t = WithBody(s, a) BY DEF Headed, WithBody
<1>2. /\ Blocked(s) /\ BodyOK(s.body) /\ Split(s.body, s) /\ IsValid(s.body, "body") /\ Unshifted(s.body)
      /\ \A b \in DOMAIN s.blk : Unshifted(s.blk[b].area)
  BY DEF FileOK, FileShape, Accepted
<1>3. /\ BodyOK(a) /\ IsValid(a, "body") /\ Unshifted(a) /\ (s.room => a.magic)
      /\ \A m \in Names : Val(a, m) = Val(s.body, m)
  <2>1. CASE s.room /\ ~s.body.magic
    <3>1. a = Initialize("body") /\ "body" \in Kinds BY <2>1 DEF Kinds
    <3>2. /\ Packed(a, "body") /\ Unshifted(a) /\ IsValid(a, "body") /\ a.ents = <<>> /\ a.magic
          /\ \A m : Val(a, m) = None
      BY ONLY <3>1, EmptyIs
    <3>3. s.body.ents = <<>> BY <1>2, <2>1 DEF BodyOK
    <3>4. \A m : Val(s.body, m) = None BY ONLY <3>3, NoEntries
    <3>5. BodyOK(a) BY ONLY <3>2 DEF BodyOK
    <3>. QED BY ONLY <3>2, <3>4, <3>5
  <2>2. CASE ~(s.room /\ ~s.body.magic)
    <3>1. a = s.body BY <2>2
    <3>2. s.room => a.magic BY ONLY <3>1, <2>2, Zenon
    <3>. QED BY ONLY <3>1, <3>2, <1>2
  <2>. QED BY <2>1, <2>2
<1>4. Split(a, s) BY ONLY <1>2, <1>3 DEF Split
<1>5. BlockTurn(s, s) BY <1>2, TurnNone
<1>6. /\ FileShape(t) /\ t.room = s.room /\ Rewired(s, t)
      /\ t.body = a /\ t.acl = s.acl /\ Area(t) = Area(s) /\ t.blk = s.blk
  BY ONLY <1>1, <1>2, <1>3, <1>4, <1>5, Joined
<1>7. t.cnt = s.cnt
  <2>1. s = [body |-> s.body, room |-> s.room, acl |-> s.acl, cnt |-> s.cnt, blk |-> s.blk] BY <1>2 DEF Blocked
  <2>. QED BY ONLY <1>1, <2>1 DEF WithBody
<1>8. FileOK(t) BY ONLY <1>2, <1>3, <1>6 DEF FileOK, Accepted
<1>9. \A m \in Names : View(t, m) = View(s, m) BY ONLY <1>3, <1>6 DEF View
<1>. QED BY ONLY <1>3, <1>6, <1>7, <1>8, <1>9

\* The same request, before and after the body gets its header.
LEMMA TurnFrom ==
  ASSUME NEW o, NEW s, NEW t, NEW n, NEW val, NEW done, Turn(s, t, n, val, done),
         s.acl = o.acl, s.blk = o.blk, s.cnt = o.cnt, s.room = o.room,
         \A m \in Names : View(s, m) = View(o, m)
  PROVE  Turn(o, t, n, val, done)
BY DEF Turn, Rewired, Stays, Moves, Shares

\* What ext4_xattr_set may come to.
SetTurn(s, n, val, r) ==
  /\ r.rc \in {"OK", "ENOSPC", "EIO", "CRASH"}
  /\ r.rc = "OK" => Turn(s, r.s, n, val, TRUE)
  /\ r.rc \in {"ENOSPC", "EIO"} => Turn(s, r.s, n, val, FALSE) \/ Strays(s, r.s, n)

\* ext4_xattr_set changes one attribute; when it fails, the attribute may stray.
LEMMA SetIs ==
  ASSUME NEW o, FileOK(o), NEW n \in Names, NEW val \in Values, NEW fault,
         NEW r, r = ext4_xattr_set(o, n, val, fault, TRUE)
  PROVE  SetTurn(o, n, val, r)
<1>. PICK s : s = Headed(o) OBVIOUS
<1>. DEFINE here == ext4_xattr_find_entry(s.body, n) # {}
            found == ~here /\ s.acl # None
<1>. PICK first : first = ext4_xattr_block_set(s, n, val, TRUE, fault) OBVIOUS
<1>. PICK w : w = ext4_xattr_set_entry(s.body, "body", n, val) OBVIOUS
<1>. PICK moved : moved = ext4_xattr_block_set(s, n, val, FALSE, fault) OBVIOUS
<1>. PICK v : v = ext4_xattr_set_entry(moved.s.body, "body", n, None) OBVIOUS
<1>. PICK x : x = [s EXCEPT !.body = w.a] OBVIOUS
<1>. PICK z : z = ext4_xattr_block_remove(x, n, fault, TRUE) OBVIOUS
<1>. PICK y : y = [moved.s EXCEPT !.body = v.a] OBVIOUS
<1>0. r = IF o.body.magic /\ ~IsValid(o.body, "body") THEN [s |-> o, rc |-> "EIO"]
          ELSE IF found /\ ~TryInsert(first.rc) THEN first
          ELSE IF s.room /\ w.rc = "OK" THEN IF found THEN z ELSE [s |-> x, rc |-> "OK"]
          ELSE IF found THEN [s |-> s, rc |-> "ENOSPC"]
          ELSE [s |-> y, rc |-> moved.rc]
  BY DEF ext4_xattr_set, Result, Headed
<1>1. /\ FileOK(s) /\ s.room = o.room /\ s.acl = o.acl /\ s.blk = o.blk /\ s.cnt = o.cnt
      /\ s.room => s.body.magic
      /\ \A m \in Names : Val(s.body, m) = Val(o.body, m) /\ View(s, m) = View(o, m)
  BY ONLY FileOK(o), Initialized, s = Headed(o)
<1>2. /\ Blocked(s) /\ BodyOK(s.body) /\ Split(s.body, s) /\ FileShape(s) /\ Unshifted(s.body)
      /\ IsValid(o.body, "body")
  BY ONLY <1>1, FileOK(o) DEF FileOK, FileShape, Accepted
<1>3. /\ here <=> Val(s.body, n) # None
      /\ here <=> Home(o, n) = "body"
      /\ s.acl # None => Unshifted(Area(s)) /\ Packed(Area(s), "block")
  <2>1. /\ Home(s, n) = "body" <=> ext4_xattr_find_entry(s.body, n) # {}
        /\ Home(s, n) = "body" <=> Val(s.body, n) # None
        /\ s.acl # None => Unshifted(Area(s)) /\ Packed(Area(s), "block")
    BY ONLY <1>1, n \in Names, GetIs
  <2>2. Home(o, n) = "body" <=> Val(o.body, n) # None BY ONLY FileOK(o), n \in Names, GetIs
  <2>. QED BY ONLY <2>1, <2>2, <1>1, n \in Names
<1>4. val \in Values \cup {None} /\ val # None /\ None \in Values \cup {None} BY ValuesAre
<1>5. BlockSet(s, n, val, TRUE, first) /\ BlockSet(s, n, val, FALSE, moved)
  <2>1. BlockSet(s, n, val, TRUE, first)
    BY ONLY <1>2, <1>3, n \in Names, val \in Values, BlockSetIs, first = ext4_xattr_block_set(s, n, val, TRUE, fault)
  <2>2. BlockSet(s, n, val, FALSE, moved)
    BY ONLY <1>2, <1>3, n \in Names, val \in Values, BlockSetIs, moved = ext4_xattr_block_set(s, n, val, FALSE, fault)
  <2>. QED BY <2>1, <2>2
<1>6. s.room => SetResult(s.body, "body", n, val, w) /\ BodyOK(w.a)
  BY ONLY <1>1, <1>2, <1>4, n \in Names, BodySetIs, w = ext4_xattr_set_entry(s.body, "body", n, val)
<1>. HIDE DEF here
<1>7. Turn(s, s, n, val, FALSE)
  <2>1. Rewired(s, s) BY <1>2, TurnNone DEF BlockTurn
  <2>. QED BY ONLY <2>1, <1>2 DEF Turn
<1>8. \A t, done : Turn(s, t, n, val, done) => Turn(o, t, n, val, done)
  BY ONLY <1>1, TurnFrom
<1>9. CASE found /\ ~TryInsert(first.rc)
  <2>1. r = first BY ONLY <1>0, <1>2, <1>9
  <2>2. first.rc \in {"OK", "EIO", "CRASH"} BY ONLY <1>5, <1>9 DEF BlockSet, TryInsert
  <2>3. CASE first.rc = "OK"
    <3>. PICK t : t = first.s OBVIOUS
    <3>1. /\ BlockTurn(s, t) /\ t.acl # None
          /\ \A m \in Names : Val(Area(t), m) = IF m = n THEN val ELSE Val(Area(s), m)
      BY ONLY <1>5, <1>9, <2>3, t = first.s DEF BlockSet
    <3>2. Split(s.body, t) BY ONLY <3>1, <1>2, <1>3, <1>9 DEF Split
    <3>3. FileShape(t) /\ t.body = s.body /\ t.room = s.room /\ Rewired(s, t)
      BY ONLY <3>1, <3>2, <1>2 DEF BlockTurn, FileShape
    <3>4. \A m \in Names : View(t, m) = IF m = n THEN val ELSE View(s, m)
      BY ONLY <3>1, <3>3, <1>3, <1>9 DEF View
    <3>5. Turn(s, t, n, val, TRUE) BY ONLY <3>3, <3>4 DEF Turn
    <3>. QED BY ONLY <2>1, <2>3, <3>5, <1>8, t = first.s DEF SetTurn
  <2>4. CASE first.rc # "OK"
    <3>1. first.s = s BY ONLY <1>5, <2>4 DEF BlockSet
    <3>. QED BY ONLY <2>1, <2>2, <2>4, <3>1, <1>7, <1>8 DEF SetTurn
  <2>. QED BY <2>3, <2>4
<1>10. CASE ~(found /\ ~TryInsert(first.rc)) /\ s.room /\ w.rc = "OK"
  <2>1. /\ BodyOK(w.a) /\ w.a.magic = s.body.magic /\ Packed(w.a, "body")
        /\ \A m \in Names : Val(w.a, m) = IF m = n THEN val ELSE Val(s.body, m)
    BY ONLY <1>6, <1>10 DEF SetResult
  <2>2. x = [body |-> w.a, room |-> s.room, acl |-> s.acl, cnt |-> s.cnt, blk |-> s.blk]
    <3>1. s = [body |-> s.body, room |-> s.room, acl |-> s.acl, cnt |-> s.cnt, blk |-> s.blk] BY ONLY <1>2 DEF Blocked
    <3>. QED BY ONLY <3>1, x = [s EXCEPT !.body = w.a]
  <2>3. x.body = w.a /\ x.room = s.room /\ x.acl = s.acl /\ x.cnt = s.cnt /\ x.blk = s.blk BY ONLY <2>2
  <2>4. Area(x) = Area(s) BY ONLY <2>3 DEF Area
  <2>5. CASE ~found
    <3>1. r.s = x /\ r.rc = "OK" BY ONLY <1>0, <1>2, <1>10, <2>5
    <3>2. s.acl # None => Val(Area(s), n) = None BY ONLY <1>2, <1>3, <2>5, n \in Names DEF Split
    <3>3. Split(w.a, s) BY ONLY <3>2, <2>1, <1>2 DEF Split
    <3>4. FileShape(x) /\ Rewired(s, x)
      <4>. PICK a : a = w.a OBVIOUS
      <4>1. BodyOK(a) /\ Split(a, s) /\ x = WithBody(s, a) BY <2>1, <3>3 DEF WithBody
      <4>2. BlockTurn(s, s) BY <1>2, TurnNone
      <4>. QED BY ONLY <4>1, <4>2, <1>2, Joined
    <3>5. \A m \in Names : View(x, m) = IF m = n THEN val ELSE View(s, m)
      BY ONLY <2>1, <2>3, <2>4, <1>4 DEF View
    <3>6. Turn(s, x, n, val, TRUE) BY ONLY <3>4, <3>5, <2>3 DEF Turn
    <3>. QED BY ONLY <3>1, <3>6, <1>8 DEF SetTurn
  <2>6. CASE found
    <3>. PICK c : c = ext4_xattr_copy_new_block(x, fault) OBVIOUS
    <3>. PICK e : e = ext4_xattr_set_entry(Area(c.s), "block", n, None) OBVIOUS
    <3>. PICK t : t = WithArea(c.s, e.a) OBVIOUS
    <3>0. z = IF fault = "again" THEN [s |-> x, rc |-> "EIO"]
              ELSE IF c.rc # "OK" THEN c ELSE [s |-> t, rc |-> "OK"]
      BY DEF ext4_xattr_block_remove, Result
    <3>1. r = z BY ONLY <1>0, <1>2, <1>10, <2>6
    <3>2. Blocked(x) /\ x.acl # None /\ Unshifted(Area(x))
      BY ONLY <2>2, <2>3, <2>4, <1>2, <1>3, <2>6 DEF Blocked
    <3>3. Strays(o, x, n)
      <4>1. Home(x, n) = "body"
        <5>1. "body" \in Kinds BY DEF Kinds
        <5>2. Val(w.a, n) # None BY ONLY <2>1, <1>4, n \in Names
        <5>3. ext4_xattr_find_entry(w.a, n) # {} BY ONLY <2>1, <5>1, <5>2, ValType
        <5>4. x.body.magic
          <6>1. s.body.magic BY ONLY <1>1, <1>10
          <6>2. w.a.magic BY ONLY <2>1, <6>1, Zenon
          <6>. QED BY ONLY <2>3, <6>2
        <5>. QED BY ONLY <2>3, <5>3, <5>4 DEF Home
      <4>. QED BY ONLY <4>1, <1>3, <2>6 DEF Strays
    <3>4. CASE fault = "again"
      <4>1. r.s = x /\ r.rc = "EIO" BY ONLY <3>0, <3>1, <3>4
      <4>. QED BY ONLY <4>1, <3>3 DEF SetTurn
    <3>5. CASE fault # "again" /\ c.rc # "OK"
      <4>1. c.s = x /\ c.rc = "ENOSPC" BY ONLY <3>2, <3>5, TurnCopy, c = ext4_xattr_copy_new_block(x, fault)
      <4>2. r = c BY ONLY <3>0, <3>1, <3>5
      <4>. QED BY ONLY <4>1, <4>2, <3>3 DEF SetTurn
    <3>6. CASE fault # "again" /\ c.rc = "OK"
      <4>1. r.s = t /\ r.rc = "OK" BY ONLY <3>0, <3>1, <3>6
      <4>2. /\ SetResult(Area(x), "block", n, None, e) /\ e.rc = "OK"
            /\ BlockTurn(x, t) /\ t.acl # None /\ Area(t) = e.a
        BY ONLY <3>2, <3>6, n \in Names, BlockRemoved, c = ext4_xattr_copy_new_block(x, fault),
                e = ext4_xattr_set_entry(Area(c.s), "block", n, None), t = WithArea(c.s, e.a)
      <4>3. \A m \in Names : Val(Area(t), m) = IF m = n THEN None ELSE Val(Area(s), m)
        BY ONLY <4>2, <2>4 DEF SetResult
      <4>4. t.body = w.a /\ t.room = s.room /\ Blocked(t) /\ Rewired(x, t) BY ONLY <4>2, <2>3 DEF BlockTurn
      <4>5. Rewired(s, t) BY ONLY <4>4, <2>3 DEF Rewired, Stays, Moves, Shares
      <4>6. Split(t.body, t) BY ONLY <4>3, <4>4, <2>1, <1>2, <2>6 DEF Split
      <4>7. FileShape(t) BY ONLY <4>4, <4>6, <2>1 DEF FileShape
      <4>8. \A m \in Names : View(t, m) = IF m = n THEN val ELSE View(s, m)
        BY ONLY <4>2, <4>3, <4>4, <2>1, <2>6, <1>4 DEF View
      <4>9. Turn(s, t, n, val, TRUE) BY ONLY <4>4, <4>5, <4>7, <4>8 DEF Turn
      <4>. QED BY ONLY <4>1, <4>9, <1>8 DEF SetTurn
    <3>. QED BY <3>4, <3>5, <3>6
  <2>. QED BY <2>5, <2>6
<1>11. CASE ~(found /\ ~TryInsert(first.rc)) /\ ~(s.room /\ w.rc = "OK") /\ found
  <2>1. r.s = s /\ r.rc = "ENOSPC" BY ONLY <1>0, <1>2, <1>11
  <2>. QED BY ONLY <2>1, <1>7, <1>8 DEF SetTurn
<1>12. CASE ~(s.room /\ w.rc = "OK") /\ ~found
  <2>1. r.s = y /\ r.rc = moved.rc BY ONLY <1>0, <1>2, <1>12
  <2>2. moved.rc \in {"OK", "ENOSPC", "EIO", "CRASH"} BY ONLY <1>5 DEF BlockSet
  <2>3. moved.s.body = s.body BY ONLY <1>5 DEF BlockSet, BlockTurn
  <2>4. SetResult(s.body, "body", n, None, v) /\ BodyOK(v.a)
    BY ONLY <1>2, <1>4, <2>3, n \in Names, BodySetIs, v = ext4_xattr_set_entry(moved.s.body, "body", n, None)
  <2>5. /\ v.rc = "OK" /\ Packed(v.a, "body") /\ \A m \in Names : Val(v.a, m) = IF m = n THEN None ELSE Val(s.body, m)
    BY ONLY <2>4 DEF SetResult
  <2>6. CASE moved.rc = "OK"
    <3>. PICK u, a : u = moved.s /\ a = v.a OBVIOUS
    <3>1. /\ BlockTurn(s, u) /\ u.acl # None
          /\ \A m \in Names : Val(Area(u), m) =
               IF m = n THEN val ELSE IF s.acl # None THEN Val(Area(s), m) ELSE None
      BY ONLY <1>5, <2>6, u = moved.s DEF BlockSet
    <3>2. Split(a, u) BY ONLY <3>1, <2>5, <1>2, a = v.a DEF Split
    <3>3. BodyOK(a) /\ y = WithBody(u, a) BY <2>4 DEF WithBody
    <3>4. /\ FileShape(y) /\ y.room = s.room /\ Rewired(s, y)
          /\ y.body = a /\ y.acl = u.acl /\ Area(y) = Area(u)
      <4>1. Blocked(s) /\ BlockTurn(s, u) /\ BodyOK(a) /\ Split(a, u) /\ y = WithBody(u, a)
        BY ONLY <3>1, <3>2, <3>3, <1>2
      <4>. QED BY ONLY <4>1, Joined
    <3>5. \A m \in Names : View(y, m) = IF m = n THEN val ELSE View(s, m)
      BY ONLY <3>1, <3>4, <2>5, a = v.a DEF View
    <3>6. Turn(s, y, n, val, TRUE) BY ONLY <3>4, <3>5 DEF Turn
    <3>. QED BY ONLY <2>1, <2>6, <3>6, <1>8 DEF SetTurn
  <2>7. CASE moved.rc # "OK"
    <3>1. moved.s = s BY ONLY <1>5, <2>7 DEF BlockSet
    <3>2. s = [body |-> s.body, room |-> s.room, acl |-> s.acl, cnt |-> s.cnt, blk |-> s.blk] BY ONLY <1>2 DEF Blocked
    <3>3. y = [body |-> v.a, room |-> s.room, acl |-> s.acl, cnt |-> s.cnt, blk |-> s.blk]
      BY ONLY <3>1, <3>2, y = [moved.s EXCEPT !.body = v.a]
    <3>4. CASE here
      <4>1. Home(o, n) = "body" BY ONLY <3>4, <1>3
      <4>2. "body" \in Kinds BY DEF Kinds
      <4>3. Val(v.a, n) = None BY ONLY <2>5, n \in Names
      <4>4. ext4_xattr_find_entry(v.a, n) = {} BY ONLY <2>5, <4>2, <4>3, ValType
      <4>5. y.body = v.a BY ONLY <3>3
      <4>6. Home(y, n) # "body" BY ONLY <4>4, <4>5 DEF Home
      <4>7. Strays(o, y, n) BY ONLY <4>1, <4>6 DEF Strays
      <4>. QED BY ONLY <2>1, <2>2, <2>7, <4>7 DEF SetTurn
    <3>5. CASE ~here
      <4>1. v.a = s.body BY ONLY <3>5, <1>3, <2>4 DEF SetResult
      <4>2. y = s BY ONLY <3>2, <3>3, <4>1
      <4>. QED BY ONLY <2>1, <2>2, <2>7, <4>2, <1>7, <1>8 DEF SetTurn
    <3>. QED BY <3>4, <3>5
  <2>. QED BY <2>6, <2>7
<1>. QED BY <1>9, <1>10, <1>11, <1>12

-----------------------------------------------------------------------------
(* The volume.                                                             *)

VolumeOK ==
  /\ body = [g \in Files |-> body[g]] /\ DOMAIN body = Files
  /\ acl \in [Files -> Blocks \cup {None}] /\ cnt \in [Files -> Nat]
  /\ BlocksOK(blk) /\ \A b \in DOMAIN blk : Unshifted(blk[b].area)
  /\ \A g \in Files : FileOK(Of(g))
  /\ References
  /\ copied \subseteq Files /\ BlocksCounted

Users(b) == {g \in Files : acl[g] = b}

\* A file as the volume's variables have it.
LEMMA OfIs ==
  ASSUME NEW g
  PROVE  /\ Of(g).body = body[g] /\ Of(g).room = (g \notin NoBody) /\ Of(g).acl = acl[g]
         /\ Of(g).cnt = cnt[g] /\ Of(g).blk = blk
         /\ Of(g)' = [body |-> body'[g], room |-> g \notin NoBody, acl |-> acl'[g], cnt |-> cnt'[g], blk |-> blk']
BY DEF Of

\* Two files have a block only if it is shared.
LEMMA SharedUsers ==
  ASSUME VolumeOK, NEW f \in Files, NEW g \in Files, f # g, acl[f] = acl[g], acl[f] # None
  PROVE  Shares(Of(f))
<1>1. acl[f] \in DOMAIN blk /\ blk[acl[f]].refs = Cardinality(Users(acl[f])) /\ blk[acl[f]].refs \in Nat \ {0}
  BY DEF VolumeOK, References, BlocksOK, Users
<1>2. f \in Users(acl[f]) /\ g \in Users(acl[f]) BY DEF Users
<1>3. IsFiniteSet(Users(acl[f]))
  <2>1. Users(acl[f]) \subseteq Files BY DEF Users
  <2>. QED BY <2>1, XattrAssumption, FS_Subset
<1>4. Cardinality(Users(acl[f])) # 1
  <2>. SUFFICES ASSUME Cardinality(Users(acl[f])) = 1 PROVE FALSE OBVIOUS
  <2>1. \E x : Users(acl[f]) = {x} BY ONLY Cardinality(Users(acl[f])) = 1, <1>3, FS_Singleton
  <2>. QED BY ONLY <2>1, <1>2, f # g
<1>5. blk[acl[f]].refs > 1 BY ONLY <1>1, <1>4
<1>. QED BY <1>5, OfIs DEF Shares

\* Who has which block after one file has left its own.
LEMMA UsersMoved ==
  ASSUME VolumeOK, NEW f \in Files, NEW o, o = acl[f], NEW x, x # o, acl' = [acl EXCEPT ![f] = x]
  PROVE  /\ \A b : b # x /\ b # o => Users(b)' = Users(b)
         /\ x \notin DOMAIN blk \cup {None} => Cardinality(Users(x)') = 1
         /\ o # None => Cardinality(Users(o)') = blk[o].refs - 1
<1>0. acl \in [Files -> Blocks \cup {None}] BY DEF VolumeOK
<1>1. \A g \in Files : acl'[g] = IF g = f THEN x ELSE acl[g] BY ONLY <1>0, acl' = [acl EXCEPT ![f] = x]
<1>2. \A b : Users(b)' = {g \in Files : acl'[g] = b} BY DEF Users
<1>20. \A b : Users(b) = {g \in Files : acl[g] = b} BY DEF Users
<1>3. \A b : b # x /\ b # o => Users(b)' = Users(b) BY ONLY <1>1, <1>2, <1>20, o = acl[f]
<1>4. ASSUME x \notin DOMAIN blk \cup {None} PROVE Cardinality(Users(x)') = 1
  <2>1. \A g \in Files : acl[g] \in DOMAIN blk \cup {None} BY DEF VolumeOK, References
  <2>2. Users(x)' = {f} BY ONLY <2>1, <1>1, <1>2, <1>4, f \in Files
  <2>. QED BY ONLY <2>2, FS_Singleton
<1>5. ASSUME o # None PROVE Cardinality(Users(o)') = blk[o].refs - 1
  <2>1. blk[o].refs = Cardinality(Users(o)) BY <1>5 DEF VolumeOK, References, Users
  <2>2. IsFiniteSet(Users(o))
    <3>1. Users(o) \subseteq Files BY DEF Users
    <3>. QED BY <3>1, XattrAssumption, FS_Subset
  <2>3. Users(o)' = Users(o) \ {f} BY ONLY <1>1, <1>2, <1>20, o = acl[f], x # o
  <2>4. f \in Users(o) BY DEF Users
  <2>5. Cardinality(Users(o) \ {f}) = Cardinality(Users(o)) - 1 BY ONLY <2>2, <2>4, FS_RemoveElement
  <2>. QED BY ONLY <2>1, <2>3, <2>5
<1>. QED BY <1>3, <1>4, <1>5

\* What a request of f leaves becomes part of the volume.
Spreads(f, t) ==
  /\ body' = [body EXCEPT ![f] = t.body]
  /\ acl' = [acl EXCEPT ![f] = t.acl]
  /\ cnt' = [cnt EXCEPT ![f] = t.cnt]
  /\ blk' = t.blk
Copied(f, t) ==
  copied' = IF acl[f] # None /\ blk[acl[f]].refs > 1 /\ t.acl # acl[f] THEN copied \cup {f} ELSE copied

\* The block of another file is as it was.
LEMMA OtherBlock ==
  ASSUME VolumeOK, NEW f \in Files, NEW g \in Files, g # f, NEW s, s = Of(f), NEW t, Rewired(s, t),
         acl[g] # None
  PROVE  acl[g] \in DOMAIN blk /\ acl[g] \in DOMAIN t.blk /\ t.blk[acl[g]].area = blk[acl[g]].area
<1>1. s.blk = blk /\ s.acl = acl[f] BY OfIs
<1>2. acl[g] \in DOMAIN blk BY DEF VolumeOK, References
<1>3. CASE acl[g] # acl[f] BY ONLY <1>3, <1>1, <1>2, Rewired(s, t) DEF Rewired
<1>4. CASE acl[g] = acl[f]
  <2>1. Shares(s) BY <1>4, SharedUsers
  <2>2. CASE Stays(s, t) BY ONLY <2>1, <2>2, <1>1, <1>2, <1>4 DEF Stays
  <2>3. CASE Moves(s, t) BY ONLY <2>1, <2>3, <1>1, <1>2, <1>4 DEF Moves
  <2>. QED BY <2>2, <2>3 DEF Rewired
<1>. QED BY <1>3, <1>4

\* Another file is as it was.
LEMMA OtherFile ==
  ASSUME VolumeOK, NEW f \in Files, NEW g \in Files, g # f, NEW s, s = Of(f), NEW t, Rewired(s, t),
         BlocksOK(t.blk), \A b \in DOMAIN t.blk : Unshifted(t.blk[b].area), NEW q, q = Of(g), NEW u,
         u = [body |-> q.body, room |-> q.room, acl |-> q.acl, cnt |-> q.cnt, blk |-> t.blk]
  PROVE  FileOK(u) /\ \A m \in Names : View(u, m) = View(q, m)
<1>1. /\ FileShape(q) /\ Blocked(q) /\ BodyOK(q.body) /\ Split(q.body, q)
      /\ IsValid(q.body, "body") /\ Unshifted(q.body)
  BY DEF VolumeOK, FileOK, FileShape, Accepted
<1>2. BlocksOK(t.blk) /\ \A b \in DOMAIN t.blk : Unshifted(t.blk[b].area) OBVIOUS
<1>3. q.acl # None => q.acl \in DOMAIN t.blk /\ t.blk[q.acl].area = q.blk[q.acl].area
  BY OfIs, OtherBlock
<1>4. u.body = q.body /\ u.room = q.room /\ u.acl = q.acl /\ u.cnt = q.cnt /\ u.blk = t.blk
  BY ONLY u = [body |-> q.body, room |-> q.room, acl |-> q.acl, cnt |-> q.cnt, blk |-> t.blk]
<1>5. Area(u) = Area(q) \/ q.acl = None BY ONLY <1>3, <1>4 DEF Area
<1>6. Blocked(u)
  <2>1. u = [body |-> u.body, room |-> u.room, acl |-> u.acl, cnt |-> u.cnt, blk |-> u.blk] BY ONLY <1>4,
          u = [body |-> q.body, room |-> q.room, acl |-> q.acl, cnt |-> q.cnt, blk |-> t.blk]
  <2>2. q.room \in BOOLEAN /\ q.cnt \in Nat /\ (q.acl # None => q.cnt # 0) BY ONLY <1>1 DEF Blocked
  <2>. QED BY ONLY <1>2, <1>3, <1>4, <2>1, <2>2 DEF Blocked
<1>7. Split(u.body, u) BY ONLY <1>1, <1>4, <1>5 DEF Split
<1>8. \A m \in Names : View(u, m) = View(q, m) BY ONLY <1>4, <1>5 DEF View
<1>. QED BY ONLY <1>1, <1>2, <1>4, <1>6, <1>7, <1>8 DEF FileOK, FileShape, Accepted

\* The references still count the files of a block.
LEMMA ReferencesKept ==
  ASSUME VolumeOK, NEW f \in Files, NEW s, s = Of(f), NEW t, Rewired(s, t),
         Blocked(t), acl' = [acl EXCEPT ![f] = t.acl], blk' = t.blk
  PROVE  References'
<1>0. s.blk = blk /\ s.acl = acl[f] BY OfIs
<1>1. acl' = [acl EXCEPT ![f] = t.acl] /\ blk' = t.blk OBVIOUS
<1>2. acl \in [Files -> Blocks \cup {None}] BY DEF VolumeOK
<1>3. \A g \in Files : acl'[g] = IF g = f THEN t.acl ELSE acl[g] BY ONLY <1>1, <1>2
<1>4. ASSUME NEW g \in Files, acl'[g] # None PROVE acl'[g] \in DOMAIN blk'
  <2>1. CASE g = f BY ONLY <2>1, <1>1, <1>3, <1>4, Blocked(t) DEF Blocked
  <2>2. CASE g # f
    <3>1. acl'[g] = acl[g] BY ONLY <2>2, <1>3
    <3>2. acl[g] \in DOMAIN t.blk BY <3>1, <2>2, <1>4, OtherBlock
    <3>. QED BY ONLY <3>1, <3>2, <1>1
  <2>. QED BY <2>1, <2>2
<1>. PICK o, x : o = acl[f] /\ x = t.acl OBVIOUS
<1>5. ASSUME NEW b \in DOMAIN t.blk PROVE t.blk[b].refs = Cardinality(Users(b)') /\ t.blk[b].refs # 0
  <2>1. t.blk[b].refs # 0 /\ b # None BY BlockNone DEF Blocked, BlocksOK
  <2>2. \A c \in DOMAIN blk : blk[c].refs = Cardinality(Users(c)) BY DEF VolumeOK, References, Users
  <2>3. CASE Stays(s, t)
    <3>1. x = o /\ DOMAIN t.blk = DOMAIN blk BY ONLY <2>3, <1>0, o = acl[f], x = t.acl DEF Stays
    <3>2. \A c : Users(c)' = Users(c)
      <4>1. \A g \in Files : acl'[g] = acl[g] BY ONLY <3>1, <1>3, o = acl[f], x = t.acl
      <4>. QED BY ONLY <4>1 DEF Users
    <3>3. t.blk[b].refs = blk[b].refs
      <4>1. CASE b = o BY ONLY <4>1, <2>1, <2>3, <1>0, o = acl[f] DEF Stays
      <4>2. CASE b # o BY ONLY <4>2, <3>1, <1>0, o = acl[f], Rewired(s, t), b \in DOMAIN t.blk DEF Rewired
      <4>. QED BY <4>1, <4>2
    <3>. QED BY ONLY <3>1, <3>2, <3>3, <2>1, <2>2, b \in DOMAIN t.blk
  <2>4. CASE Moves(s, t)
    <3>0. x # o /\ acl' = [acl EXCEPT ![f] = x] BY ONLY <2>4, <1>0, <1>1, o = acl[f], x = t.acl DEF Moves
    <3>1. /\ \A c : c # x /\ c # o => Users(c)' = Users(c)
          /\ x \notin DOMAIN blk \cup {None} => Cardinality(Users(x)') = 1
          /\ o # None => Cardinality(Users(o)') = blk[o].refs - 1
      BY ONLY <3>0, VolumeOK, f \in Files, o = acl[f], UsersMoved
    <3>2. CASE b = x
      <4>1. x # None /\ x \notin DOMAIN blk /\ t.blk[x].refs = 1
        BY ONLY <3>2, <2>1, <2>4, <1>0, x = t.acl DEF Moves
      <4>. QED BY ONLY <4>1, <3>1, <3>2
    <3>3. CASE b = o
      <4>1. Shares(s) BY ONLY <3>0, <3>3, <2>4, <1>0, o = acl[f], x = t.acl, b \in DOMAIN t.blk DEF Moves
      <4>2. t.blk[b].refs = blk[b].refs - 1
        <5>1. t.blk[b] = [refs |-> blk[b].refs - 1, area |-> blk[b].area]
          BY ONLY <4>1, <3>3, <2>4, <1>0, o = acl[f] DEF Moves
        <5>. QED BY ONLY <5>1
      <4>. QED BY ONLY <4>2, <3>1, <3>3, <2>1
    <3>4. CASE b # x /\ b # o
      <4>1. b \in DOMAIN blk \ {o} BY ONLY <3>4, <2>4, <1>0, o = acl[f], x = t.acl, b \in DOMAIN t.blk DEF Moves
      <4>2. t.blk[b] = blk[b] BY ONLY <4>1, <1>0, o = acl[f], Rewired(s, t) DEF Rewired
      <4>. QED BY ONLY <4>1, <4>2, <3>1, <3>4, <2>1, <2>2
    <3>. QED BY <3>2, <3>3, <3>4
  <2>. QED BY <2>3, <2>4 DEF Rewired
<1>6. \A b \in DOMAIN blk' : blk'[b].refs = Cardinality({g \in Files : acl'[g] = b}) /\ blk'[b].refs # 0
  <2>1. \A b : Users(b)' = {g \in Files : acl'[g] = b} BY DEF Users
  <2>. QED BY ONLY <2>1, <1>1, <1>5
<1>. QED BY <1>4, <1>6 DEF References

\* And so does what a file's size says of its block.
LEMMA CountsKept ==
  ASSUME VolumeOK, NEW f \in Files, NEW s, s = Of(f), NEW t, Rewired(s, t), Spreads(f, t), Copied(f, t)
  PROVE  BlocksCounted' /\ copied' \subseteq Files
<1>0. s.blk = blk /\ s.acl = acl[f] /\ s.cnt = cnt[f] BY OfIs
<1>1. /\ acl' = [acl EXCEPT ![f] = t.acl] /\ cnt' = [cnt EXCEPT ![f] = t.cnt]
      /\ copied' = IF acl[f] # None /\ blk[acl[f]].refs > 1 /\ t.acl # acl[f] THEN copied \cup {f} ELSE copied
  BY ONLY Spreads(f, t), Copied(f, t) DEF Spreads, Copied
<1>2. acl \in [Files -> Blocks \cup {None}] /\ cnt \in [Files -> Nat] /\ copied \subseteq Files BY DEF VolumeOK
<1>3. \A g \in Files : /\ acl'[g] = IF g = f THEN t.acl ELSE acl[g]
                       /\ cnt'[g] = IF g = f THEN t.cnt ELSE cnt[g]
  BY ONLY <1>1, <1>2
<1>4. \A g \in Files \ copied : cnt[g] = IF acl[g] = None THEN 0 ELSE 1 BY DEF VolumeOK, BlocksCounted
<1>5. copied' \subseteq Files /\ copied \subseteq copied' BY ONLY <1>1, <1>2, f \in Files
<1>6. ASSUME NEW g \in Files \ copied' PROVE cnt'[g] = IF acl'[g] = None THEN 0 ELSE 1
  <2>1. g \in Files \ copied BY ONLY <1>5, <1>6
  <2>2. CASE g # f BY ONLY <2>1, <2>2, <1>3, <1>4
  <2>3. CASE g = f
    <3>1. s.cnt = IF s.acl = None THEN 0 ELSE 1 BY ONLY <2>1, <2>3, <1>0, <1>4
    <3>2. cnt'[g] = t.cnt /\ acl'[g] = t.acl BY ONLY <2>3, <1>3, f \in Files
    <3>3. CASE Stays(s, t) BY ONLY <3>1, <3>2, <3>3 DEF Stays
    <3>4. CASE Moves(s, t)
      <4>1. ~Shares(s) BY ONLY <3>4, <2>3, <1>0, <1>1, <1>6 DEF Moves, Shares
      <4>. QED BY ONLY <4>1, <3>1, <3>2, <3>4 DEF Moves
    <3>. QED BY <3>3, <3>4 DEF Rewired
  <2>. QED BY <2>2, <2>3
<1>. QED BY <1>5, <1>6 DEF BlocksCounted

\* r is how the blocks are rewired, t what is left of the file.
LEMMA Spread ==
  ASSUME VolumeOK, NEW f \in Files, NEW s, s = Of(f), NEW t, t.room = s.room, FileShape(t), Accepted(t),
         NEW r, Rewired(s, r), Blocked(r), r.acl = t.acl, r.blk = t.blk, Spreads(f, t),
         BlocksCounted' /\ copied' \subseteq Files
  PROVE  /\ VolumeOK' /\ Of(f)' = t
         /\ \A g \in Files \ {f} : \A m \in Names : View(Of(g)', m) = View(Of(g), m)
<1>1. /\ body' = [body EXCEPT ![f] = t.body] /\ acl' = [acl EXCEPT ![f] = t.acl]
      /\ cnt' = [cnt EXCEPT ![f] = t.cnt] /\ blk' = t.blk
  BY ONLY Spreads(f, t) DEF Spreads
<1>2. /\ body = [g \in Files |-> body[g]] /\ acl \in [Files -> Blocks \cup {None}] /\ cnt \in [Files -> Nat]
  BY DEF VolumeOK
<1>3. /\ t = [body |-> t.body, room |-> t.room, acl |-> t.acl, cnt |-> t.cnt, blk |-> t.blk]
      /\ t.cnt \in Nat /\ t.acl \in Blocks \cup {None} /\ BlocksOK(t.blk) /\ Blocked(t)
  BY DEF FileShape, Blocked, BlocksOK
<1>4. \A b \in DOMAIN t.blk : Unshifted(t.blk[b].area) BY ONLY Accepted(t) DEF Accepted
<1>5. /\ body' = [g \in Files |-> body'[g]] /\ DOMAIN body' = Files
      /\ body'[f] = t.body /\ \A g \in Files \ {f} : body'[g] = body[g]
  <2>. PICK B, D : B = body /\ D = body' OBVIOUS
  <2>1. D = [B EXCEPT ![f] = t.body] /\ B = [g \in Files |-> B[g]] BY <1>1, <1>2
  <2>2. D = [g \in Files |-> D[g]] /\ DOMAIN D = Files /\ D[f] = t.body /\ \A g \in Files \ {f} : D[g] = B[g]
    BY ONLY <2>1, f \in Files
  <2>. QED BY <2>2
<1>6. acl' \in [Files -> Blocks \cup {None}] /\ cnt' \in [Files -> Nat] BY ONLY <1>1, <1>2, <1>3, f \in Files
<1>7. acl'[f] = t.acl /\ cnt'[f] = t.cnt /\ \A g \in Files \ {f} : acl'[g] = acl[g] /\ cnt'[g] = cnt[g]
  BY ONLY <1>1, <1>2, f \in Files
<1>8. \A g : Of(g)' = [body |-> body'[g], room |-> g \notin NoBody, acl |-> acl'[g], cnt |-> cnt'[g], blk |-> blk']
  BY OfIs
<1>9. Of(f)' = t
  <2>1. t.room = (f \notin NoBody) BY OfIs
  <2>2. Of(f)' = [body |-> t.body, room |-> t.room, acl |-> t.acl, cnt |-> t.cnt, blk |-> t.blk]
    BY ONLY <1>1, <1>5, <1>7, <1>8, <2>1
  <2>. QED BY ONLY <1>3, <2>2
<1>10. ASSUME NEW g \in Files \ {f}
       PROVE  FileOK(Of(g)') /\ \A m \in Names : View(Of(g)', m) = View(Of(g), m)
  <2>. PICK q, u : q = Of(g) /\ u = Of(g)' OBVIOUS
  <2>1. u = [body |-> q.body, room |-> q.room, acl |-> q.acl, cnt |-> q.cnt, blk |-> r.blk]
    <3>1. q.body = body[g] /\ q.room = (g \notin NoBody) /\ q.acl = acl[g] /\ q.cnt = cnt[g] BY OfIs
    <3>2. u = [body |-> body'[g], room |-> g \notin NoBody, acl |-> acl'[g], cnt |-> cnt'[g], blk |-> blk'] BY <1>8
    <3>. QED BY ONLY <3>1, <3>2, <1>1, <1>5, <1>7, <1>10, r.blk = t.blk
  <2>2. FileOK(u) /\ \A m \in Names : View(u, m) = View(q, m) BY <2>1, <1>3, <1>4, OtherFile
  <2>. QED BY <2>2
<1>11. \A g \in Files : FileOK(Of(g)')
  <2>1. FileOK(Of(f)') BY <1>9 DEF FileOK
  <2>. QED BY ONLY <2>1, <1>10
<1>12. References' /\ BlocksCounted' /\ copied' \subseteq Files BY <1>1, ReferencesKept
<1>. QED BY ONLY <1>1, <1>3, <1>4, <1>5, <1>6, <1>9, <1>10, <1>11, <1>12 DEF VolumeOK

-----------------------------------------------------------------------------
(* The requests.                                                           *)

\* None of the cases in which the code goes wrong is let in.
Calm == Windows = {}

\* No empty value was moved, and the area in the inode is not filled.
Spared(t) ==
  /\ Unshifted(t.body) /\ \A b \in DOMAIN t.blk : Unshifted(t.blk[b].area)
  /\ ~Filled(t.body)

\* Such a file is one whose areas the code accepts.
LEMMA SparedAccepted ==
  ASSUME NEW t, FileShape(t), Spared(t)
  PROVE  Accepted(t)
<1>1. Packed(t.body, "body") BY DEF FileShape, BodyOK
<1>2. IsValid(t.body, "body") BY <1>1, BodyValid DEF Spared
<1>. QED BY <1>2 DEF Accepted, Spared

\* What the closed windows keep out of Write.
LEMMA KnownIs ==
  ASSUME NEW q, NEW r, NEW alone \in BOOLEAN, Known(q, r, alone) = {}
  PROVE  /\ Spared(r.s) /\ r.rc # "CRASH"
         /\ r.rc # "OK" /\ alone = FALSE => ~Strays(Of(q.f), r.s, q.n)
<1>. DEFINE shifted(a) == \E i \in DOMAIN a.ents : a.ents[i].len = 0 /\ a.ents[i].off # 0
            kept == r.rc = "OK" \/ ~alone
<1>. PICK s : s = Of(q.f) OBVIOUS
<1>0. Known(q, r, alone) =
        {w \in {"full", "empty", "shared", "lost"} :
           CASE w = "empty" -> shifted(r.s.body) \/ \E b \in DOMAIN r.s.blk : shifted(r.s.blk[b].area)
             [] w = "full" -> Filled(r.s.body)
             [] w = "shared" -> r.rc = "CRASH" \/ (r.rc # "OK" /\ kept /\ Home(s, q.n) # "body" /\ Home(r.s, q.n) = "body")
             [] w = "lost" -> r.rc # "OK" /\ kept /\ Home(s, q.n) = "body" /\ Home(r.s, q.n) # "body"}
  BY DEF Known, Filled
<1>. HIDE DEF shifted, kept
<1>1. ~(shifted(r.s.body) \/ \E b \in DOMAIN r.s.blk : shifted(r.s.blk[b].area))
  BY ONLY <1>0, Known(q, r, alone) = {}
<1>2. ~Filled(r.s.body) BY ONLY <1>0, Known(q, r, alone) = {}
<1>3. ~(r.rc = "CRASH" \/ (r.rc # "OK" /\ kept /\ Home(s, q.n) # "body" /\ Home(r.s, q.n) = "body"))
  BY ONLY <1>0, Known(q, r, alone) = {}
<1>4. ~(r.rc # "OK" /\ kept /\ Home(s, q.n) = "body" /\ Home(r.s, q.n) # "body")
  BY ONLY <1>0, Known(q, r, alone) = {}
<1>5. Spared(r.s)
  <2>1. \A a : ~shifted(a) <=> Unshifted(a) BY DEF shifted, Unshifted
  <2>. QED BY ONLY <1>1, <1>2, <2>1 DEF Spared
<1>6. alone = FALSE => kept BY Zenon DEF kept
<1>7. r.rc # "OK" /\ alone = FALSE => ~Strays(s, r.s, q.n)
  BY ONLY <1>3, <1>4, <1>6 DEF Strays
<1>. QED BY ONLY <1>3, <1>5, <1>7, s = Of(q.f)

\* What a request makes of its file.
Settles(s, t, n, val, rc) ==
  /\ rc \in {"OK", "ENOSPC", "EIO", "ENOATTR"} /\ Turn(s, t, n, val, rc = "OK") /\ Accepted(t)

\* What a request makes of its file is a file.
LEMMA WriteSettles ==
  ASSUME VolumeOK, Calm, NEW q, q.f \in Files, q.n \in Names, q.val \in Values \cup {None},
         NEW alone \in BOOLEAN, NEW fault, Write(q, alone, fault, TRUE)
  PROVE  \E t, rc : /\ Settles(Of(q.f), t, q.n, q.val, rc)
                    /\ Spreads(q.f, t) /\ Copied(q.f, t)
                    /\ pending' = pending \ {q} /\ Answer(q, rc) /\ calls' = calls
<1>. PICK s : s = Of(q.f) OBVIOUS
<1>. PICK r : r = IF q.val = None THEN ext4_xattr_remove(s, q.n, fault) ELSE ext4_xattr_set(s, q.n, q.val, fault, TRUE)
  OBVIOUS
<1>. PICK t : t = IF r.rc # "OK" /\ alone THEN s ELSE r.s OBVIOUS
<1>1. /\ Known(q, r, alone) = {} /\ Spreads(q.f, t) /\ Copied(q.f, t)
      /\ pending' = pending \ {q} /\ Answer(q, r.rc) /\ calls' = calls
  BY DEF Write, Calm, Spreads, Copied
<1>2. FileOK(s) BY DEF VolumeOK
<1>3. /\ Spared(r.s) /\ r.rc # "CRASH" /\ (r.rc # "OK" /\ alone = FALSE => ~Strays(s, r.s, q.n))
  <2>1. Spared(r.s) /\ r.rc # "CRASH" /\ (r.rc # "OK" /\ alone = FALSE => ~Strays(Of(q.f), r.s, q.n))
    BY ONLY <1>1, alone \in BOOLEAN, KnownIs
  <2>. QED BY ONLY <2>1, s = Of(q.f)
<1>4. Accepted(s) /\ Turn(s, s, q.n, q.val, FALSE)
  <2>1. Blocked(s) /\ FileShape(s) /\ Accepted(s) BY <1>2 DEF FileOK, FileShape
  <2>2. Rewired(s, s) BY <2>1, TurnNone DEF BlockTurn
  <2>. QED BY ONLY <2>1, <2>2 DEF Turn
<1>5. CASE q.val = None
  <2>1. r = ext4_xattr_remove(s, q.n, fault) BY ONLY <1>5, r = IF q.val = None THEN ext4_xattr_remove(s, q.n, fault) ELSE ext4_xattr_set(s, q.n, q.val, fault, TRUE)
  <2>2. r.rc \in {"OK", "ENOSPC", "EIO", "ENOATTR"} /\ Turn(s, r.s, q.n, None, r.rc = "OK")
    BY ONLY <1>2, <2>1, q.n \in Names, RemoveIs
  <2>3. Turn(s, t, q.n, q.val, r.rc = "OK") /\ Accepted(t)
    <3>1. CASE r.rc # "OK" /\ alone
      <4>1. t = s BY ONLY <3>1, t = IF r.rc # "OK" /\ alone THEN s ELSE r.s
      <4>2. (r.rc = "OK") = FALSE BY ONLY <3>1
      <4>. QED BY ONLY <4>1, <4>2, <1>4
    <3>2. CASE ~(r.rc # "OK" /\ alone)
      <4>1. t = r.s BY ONLY <3>2, t = IF r.rc # "OK" /\ alone THEN s ELSE r.s
      <4>2. Accepted(r.s) BY ONLY <1>3, <2>2, SparedAccepted DEF Turn
      <4>. QED BY ONLY <4>1, <4>2, <2>2, <1>5
    <3>. QED BY <3>1, <3>2
  <2>4. Settles(s, t, q.n, q.val, r.rc) BY ONLY <2>2, <2>3 DEF Settles
  <2>. QED BY <2>4, <1>1
<1>6. CASE q.val # None
  <2>1. r = ext4_xattr_set(s, q.n, q.val, fault, TRUE) BY ONLY <1>6, r = IF q.val = None THEN ext4_xattr_remove(s, q.n, fault) ELSE ext4_xattr_set(s, q.n, q.val, fault, TRUE)
  <2>2. q.val \in Values BY ONLY <1>6, q.val \in Values \cup {None}
  <2>3. SetTurn(s, q.n, q.val, r) BY ONLY <1>2, <2>1, <2>2, q.n \in Names, SetIs
  <2>4. r.rc \in {"OK", "ENOSPC", "EIO"} BY ONLY <2>3, <1>3 DEF SetTurn
  <2>5. Turn(s, t, q.n, q.val, r.rc = "OK") /\ Accepted(t)
    <3>1. CASE r.rc # "OK" /\ alone
      <4>1. t = s BY ONLY <3>1, t = IF r.rc # "OK" /\ alone THEN s ELSE r.s
      <4>2. (r.rc = "OK") = FALSE BY ONLY <3>1
      <4>. QED BY ONLY <4>1, <4>2, <1>4
    <3>2. CASE r.rc # "OK" /\ alone = FALSE
      <4>1. t = r.s BY ONLY <3>2, t = IF r.rc # "OK" /\ alone THEN s ELSE r.s
      <4>2. (r.rc = "OK") = FALSE BY ONLY <3>2
      <4>3. Turn(s, r.s, q.n, q.val, FALSE) BY ONLY <3>2, <1>3, <2>3, <2>4 DEF SetTurn
      <4>4. Accepted(r.s) BY ONLY <4>3, <1>3, SparedAccepted DEF Turn
      <4>. QED BY ONLY <4>1, <4>2, <4>3, <4>4
    <3>3. CASE r.rc = "OK"
      <4>1. t = r.s BY ONLY <3>3, t = IF r.rc # "OK" /\ alone THEN s ELSE r.s
      <4>2. (r.rc = "OK") = TRUE BY ONLY <3>3
      <4>3. Turn(s, r.s, q.n, q.val, TRUE) BY ONLY <3>3, <2>3 DEF SetTurn
      <4>4. Accepted(r.s) BY ONLY <4>3, <1>3, SparedAccepted DEF Turn
      <4>. QED BY ONLY <4>1, <4>2, <4>3, <4>4
    <3>. QED BY <3>1, <3>2, <3>3
  <2>6. Settles(s, t, q.n, q.val, r.rc) BY ONLY <1>6, <2>4, <2>5 DEF Settles
  <2>. QED BY <2>6, <1>1
<1>. QED BY <1>5, <1>6

\* The requests under way are about attributes of files.
PendingOK == \A q \in pending : q.f \in Files /\ q.n \in Names /\ q.val \in Values \cup {None}

XattrInv ==
  /\ VolumeOK /\ PendingOK /\ calls \in 0 .. MaxCalls
  /\ ans.rc \in {"OK", "ENOSPC", "EIO", "ENOATTR", "EEXIST"}

\* Of all attributes, the one named is changed, or none is.
Sets(f, n, val, rc) ==
  \A g \in Files, m \in Names :
    View(Of(g)', m) = IF rc = "OK" /\ g = f /\ m = n THEN val ELSE View(Of(g), m)

\* The second turn of setXattr keeps the invariant and changes one attribute, or none.
LEMMA WriteIs ==
  ASSUME XattrInv, Calm, NEW q \in pending, NEW alone \in BOOLEAN, NEW fault, Write(q, alone, fault, TRUE)
  PROVE  /\ XattrInv' /\ q.f \in Files /\ q.n \in Names /\ q.val \in Values \cup {None}
         /\ pending' = pending \ {q} /\ Answer(q, ans'.rc) /\ Sets(q.f, q.n, q.val, ans'.rc)
<1>1. VolumeOK /\ PendingOK /\ calls \in 0 .. MaxCalls BY DEF XattrInv
<1>2. q.f \in Files /\ q.n \in Names /\ q.val \in Values \cup {None} BY <1>1 DEF PendingOK
<1>3. PICK t, rc : /\ Settles(Of(q.f), t, q.n, q.val, rc)
                   /\ Spreads(q.f, t) /\ Copied(q.f, t)
                   /\ pending' = pending \ {q} /\ Answer(q, rc) /\ calls' = calls
  BY <1>1, <1>2, WriteSettles
<1>. PICK s, f : s = Of(q.f) /\ f = q.f OBVIOUS
<1>4. ans' = [rc |-> rc, f |-> q.f, n |-> q.n, val |-> q.val] /\ ans'.rc = rc BY ONLY <1>3 DEF Answer
<1>5. /\ FileShape(t) /\ t.room = s.room /\ Rewired(s, t) /\ Accepted(t)
      /\ \A m \in Names : View(t, m) = IF rc = "OK" /\ m = q.n THEN q.val ELSE View(s, m)
      /\ rc \in {"OK", "ENOSPC", "EIO", "ENOATTR"}
  BY ONLY <1>3, s = Of(q.f) DEF Settles, Turn
<1>6. Blocked(t) BY ONLY <1>5 DEF FileShape
<1>7. BlocksCounted' /\ copied' \subseteq Files
  BY ONLY <1>1, <1>2, <1>3, <1>5, s = Of(q.f), CountsKept
<1>8. /\ VolumeOK' /\ Of(f)' = t
      /\ \A g \in Files \ {f} : \A m \in Names : View(Of(g)', m) = View(Of(g), m)
  <2>1. f \in Files /\ s = Of(f) /\ Spreads(f, t) BY <1>2, <1>3
  <2>. QED BY ONLY <1>1, <1>5, <1>6, <1>7, <2>1, Spread
<1>9. Sets(q.f, q.n, q.val, rc)
  <2>. SUFFICES ASSUME NEW g \in Files, NEW m \in Names
                PROVE  View(Of(g)', m) = IF rc = "OK" /\ g = q.f /\ m = q.n THEN q.val ELSE View(Of(g), m)
    BY DEF Sets
  <2>1. CASE g = f
    <3>1. Of(g)' = t BY ONLY <2>1, <1>8
    <3>2. Of(g) = s BY ONLY <2>1, s = Of(q.f), f = q.f
    <3>. QED BY ONLY <2>1, <3>1, <3>2, <1>5, f = q.f
  <2>2. CASE g # f BY ONLY <2>2, <1>8, f = q.f
  <2>. QED BY <2>1, <2>2
<1>10. PendingOK' BY ONLY <1>1, <1>3 DEF PendingOK
<1>11. XattrInv' BY ONLY <1>1, <1>3, <1>4, <1>5, <1>8, <1>10 DEF XattrInv
<1>. QED BY ONLY <1>2, <1>3, <1>4, <1>5, <1>9, <1>11, s = Of(q.f)

\* A request that is looked at and let through, or refused.
LEMMA LookIs ==
  ASSUME XattrInv, NEW f \in Files, NEW n \in Names, NEW val \in Values \cup {None},
         NEW policy, NEW bad, Look(f, n, val, policy, bad)
  PROVE  /\ XattrInv' /\ UNCHANGED <<body, acl, cnt, blk>>
         /\ UNCHANGED ans \/ (Answer(Request(f, n, val), ans'.rc) /\ ans'.rc \in {"EEXIST", "ENOATTR"})
<1>. PICK q : q = Request(f, n, val) OBVIOUS
<1>. DEFINE existing == ~bad /\ ext4_xattr_get(Of(f), n) \notin {None, Unreadable}
<1>. PICK rc : rc = Refusal(policy, existing) OBVIOUS
<1>1. /\ calls < MaxCalls /\ calls' = calls + 1
      /\ IF rc = "OK" THEN pending' = pending \cup {q} /\ UNCHANGED ans
         ELSE UNCHANGED pending /\ Answer(q, rc)
      /\ UNCHANGED <<body, acl, cnt, blk, copied>>
  BY DEF Look
<1>2. VolumeOK /\ PendingOK /\ calls \in 0 .. MaxCalls BY DEF XattrInv
<1>. HIDE DEF existing
<1>3. \A g : Of(g)' = Of(g) BY <1>1 DEF Of
<1>4. VolumeOK'
  <2>1. References' /\ BlocksCounted' BY <1>1, <1>2 DEF VolumeOK, References, BlocksCounted
  <2>. QED BY ONLY <2>1, <1>1, <1>2, <1>3 DEF VolumeOK
<1>5. q = [f |-> f, n |-> n, val |-> val] BY DEF Request
<1>6. rc = (IF policy = "mustCreate" /\ existing THEN "EEXIST"
            ELSE IF policy = "mustReplace" /\ ~existing THEN "ENOATTR" ELSE "OK")
  BY ONLY rc = Refusal(policy, existing) DEF Refusal
<1>7. calls' \in 0 .. MaxCalls BY <1>1, <1>2, XattrAssumption
<1>8. CASE rc = "OK"
  <2>1. pending' = pending \cup {q} /\ UNCHANGED ans BY ONLY <1>1, <1>8
  <2>2. PendingOK'
    BY ONLY <2>1, <1>2, <1>5, f \in Files, n \in Names, val \in Values \cup {None} DEF PendingOK
  <2>. QED BY <2>1, <2>2, <1>1, <1>4, <1>7 DEF XattrInv
<1>9. CASE rc # "OK"
  <2>1. pending' = pending /\ Answer(q, rc) /\ rc \in {"EEXIST", "ENOATTR"} BY ONLY <1>1, <1>6, <1>9
  <2>2. ans'.rc = rc BY ONLY <2>1 DEF Answer
  <2>3. PendingOK' BY ONLY <2>1, <1>2 DEF PendingOK
  <2>4. XattrInv' BY ONLY <2>1, <2>2, <2>3, <1>4, <1>7 DEF XattrInv
  <2>. QED BY ONLY <2>1, <2>2, <2>4, <1>1, q = Request(f, n, val)
<1>. QED BY <1>8, <1>9

\* A file goes, and with it its attributes; its block is no other file's.
LEMMA ReplaceIs ==
  ASSUME XattrInv, Calm, NEW f \in Files, Replace(f)
  PROVE  /\ XattrInv' /\ UNCHANGED <<pending, ans>>
         /\ \A g \in Files, m \in Names : View(Of(g)', m) = IF g = f THEN None ELSE View(Of(g), m)
<1>. PICK s, o : s = Of(f) /\ o = acl[f] OBVIOUS
<1>. PICK B : B = Restrict(blk, DOMAIN blk \ {o}) OBVIOUS
<1>. PICK t : t = [body |-> Blank("body"), room |-> s.room, acl |-> None, cnt |-> 0, blk |-> B] OBVIOUS
<1>. PICK r : r = [body |-> Blank("body"), room |-> s.room, acl |-> None,
                   cnt |-> IF o = None THEN s.cnt ELSE s.cnt - 1, blk |-> B] OBVIOUS
<1>1. /\ calls < MaxCalls /\ calls' = calls + 1 /\ \A q \in pending : q.f # f
      /\ ~(o # None /\ blk[o].refs > 1)
      /\ body' = [body EXCEPT ![f] = Blank("body")] /\ acl' = [acl EXCEPT ![f] = None]
      /\ cnt' = [cnt EXCEPT ![f] = 0] /\ blk' = B /\ copied' = copied \ {f}
      /\ UNCHANGED <<pending, ans>>
  BY DEF Replace, Calm
<1>2. VolumeOK /\ PendingOK /\ calls \in 0 .. MaxCalls BY DEF XattrInv
<1>3. /\ s.acl = o /\ s.blk = blk /\ Blocked(s) /\ (o # None => o \in DOMAIN blk)
      /\ s.room \in BOOLEAN /\ s.cnt \in Nat /\ (o # None => s.cnt # 0)
      /\ BlocksOK(blk) /\ \A b \in DOMAIN blk : Unshifted(blk[b].area)
  BY <1>2, OfIs DEF VolumeOK, FileOK, FileShape, Blocked, References
<1>4. ~Shares(s) BY ONLY <1>1, <1>3 DEF Shares
<1>5. /\ t.body = Blank("body") /\ t.room = s.room /\ t.acl = None /\ t.cnt = 0 /\ t.blk = B
      /\ r.body = Blank("body") /\ r.room = s.room /\ r.acl = None /\ r.blk = B
      /\ r.cnt = (IF o = None THEN s.cnt ELSE s.cnt - 1)
  OBVIOUS
<1>6. B = [b \in DOMAIN blk \ {o} |-> blk[b]] BY DEF Restrict
<1>7. DOMAIN B = DOMAIN blk \ {o} /\ B = [b \in DOMAIN B |-> B[b]] /\ \A b \in DOMAIN B : B[b] = blk[b] BY ONLY <1>6
<1>8. BlocksOK(B) /\ \A b \in DOMAIN B : Unshifted(B[b].area) BY ONLY <1>3, <1>7 DEF BlocksOK
<1>9. /\ Packed(Blank("body"), "body") /\ Unshifted(Blank("body")) /\ IsValid(Blank("body"), "body")
      /\ Blank("body").ents = <<>> /\ \A m : Val(Blank("body"), m) = None
  <2>. PICK b : b = Blank("body") OBVIOUS
  <2>1. "body" \in Kinds BY DEF Kinds
  <2>2. /\ Packed(b, "body") /\ Unshifted(b) /\ IsValid(b, "body")
        /\ b.ents = <<>> /\ \A m : Val(b, m) = None
    BY ONLY <2>1, b = Blank("body"), EmptyIs
  <2>. QED BY <2>2
<1>10. Blocked(t)
  <2>1. t = [body |-> t.body, room |-> t.room, acl |-> t.acl, cnt |-> t.cnt, blk |-> t.blk] OBVIOUS
  <2>. QED BY ONLY <2>1, <1>3, <1>5, <1>8 DEF Blocked
<1>11. Blocked(r)
  <2>1. r = [body |-> r.body, room |-> r.room, acl |-> r.acl, cnt |-> r.cnt, blk |-> r.blk] OBVIOUS
  <2>2. r.cnt \in Nat BY ONLY <1>3, <1>5
  <2>. QED BY ONLY <2>1, <2>2, <1>3, <1>5, <1>8 DEF Blocked
<1>12. FileShape(t) BY ONLY <1>5, <1>9, <1>10 DEF FileShape, BodyOK, Split
<1>13. Accepted(t) BY ONLY <1>5, <1>8, <1>9 DEF Accepted
<1>14. Rewired(s, r)
  <2>1. \A b \in DOMAIN s.blk \ {s.acl} : b \in DOMAIN r.blk /\ r.blk[b] = s.blk[b] BY ONLY <1>3, <1>5, <1>7
  <2>2. CASE o = None
    <3>1. None \notin DOMAIN blk BY <1>3, BlockNone
    <3>2. Stays(s, r) BY ONLY <2>2, <3>1, <1>3, <1>5, <1>7, <1>4 DEF Stays
    <3>. QED BY ONLY <2>1, <3>2 DEF Rewired
  <2>3. CASE o # None
    <3>1. Moves(s, r) BY ONLY <2>3, <1>3, <1>4, <1>5, <1>7 DEF Moves
    <3>. QED BY ONLY <2>1, <3>1 DEF Rewired
  <2>. QED BY <2>2, <2>3
<1>15. Spreads(f, t) BY ONLY <1>1, <1>5 DEF Spreads
<1>16. copied' \subseteq Files /\ BlocksCounted'
  <2>0. copied \subseteq Files /\ acl \in [Files -> Blocks \cup {None}] /\ cnt \in [Files -> Nat] BY <1>2 DEF VolumeOK
  <2>1. copied' \subseteq Files BY ONLY <1>1, <2>0
  <2>2. \A g \in Files \ copied : cnt[g] = IF acl[g] = None THEN 0 ELSE 1 BY <1>2 DEF VolumeOK, BlocksCounted
  <2>3. \A g \in Files : /\ acl'[g] = IF g = f THEN None ELSE acl[g]
                         /\ cnt'[g] = IF g = f THEN 0 ELSE cnt[g]
    BY ONLY <1>1, <2>0
  <2>4. ASSUME NEW g \in Files \ copied' PROVE cnt'[g] = IF acl'[g] = None THEN 0 ELSE 1
    BY ONLY <1>1, <2>2, <2>3, <2>4
  <2>. QED BY ONLY <2>1, <2>4 DEF BlocksCounted
<1>17. /\ VolumeOK' /\ Of(f)' = t
       /\ \A g \in Files \ {f} : \A m \in Names : View(Of(g)', m) = View(Of(g), m)
  BY ONLY <1>2, <1>5, <1>11, <1>12, <1>13, <1>14, <1>15, <1>16, f \in Files, s = Of(f), Spread
<1>18. \A m : View(t, m) = None BY ONLY <1>5, <1>9 DEF View
<1>19. \A g \in Files, m \in Names : View(Of(g)', m) = IF g = f THEN None ELSE View(Of(g), m)
  BY ONLY <1>17, <1>18
<1>20. PendingOK' BY ONLY <1>1, <1>2 DEF PendingOK
<1>21. calls' \in 0 .. MaxCalls BY <1>1, <1>2, XattrAssumption
<1>22. XattrInv' BY ONLY <1>1, <1>17, <1>20, <1>21, XattrInv DEF XattrInv
<1>. QED BY ONLY <1>1, <1>19, <1>22

\* The block that is shared when the volume is mounted holds one attribute,
\* whose value has a length.
LEMMA FirstEntry ==
  ASSUME NEW a, a = Initialize("block"), NEW n \in Names, NEW val \in Values \ {Nothing},
         NEW r, r = ext4_xattr_set_entry(a, "block", n, val)
  PROVE  Packed(r.a, "block") /\ Unshifted(r.a)
<1>1. /\ Packed(a, "block") /\ Unshifted(a) /\ a.ents = <<>>
      /\ ext4_xattr_find_entry(a, n) = {} /\ "block" \in Kinds
  BY EmptyIs DEF Kinds
<1>2. val \in Values /\ val # None /\ val.len \in Nat \ {0} BY ValuesAre
<1>3. SetResult(a, "block", n, val, r) BY ONLY <1>1, <1>2, n \in Names, r = ext4_xattr_set_entry(a, "block", n, val), SetEntryIs
<1>4. Packed(r.a, "block") BY ONLY <1>1, <1>3 DEF SetResult
<1>. PICK off : off = IF val.len = 0 THEN 0 ELSE Min({Room("block")} \cup Offs(a)) - val.len OBVIOUS
<1>. PICK e : e = [name |-> n, off |-> off, len |-> val.len] OBVIOUS
<1>. PICK g : g = [a EXCEPT !.ents = Append(@, e),
                            !.mem = [o \in DOMAIN @ |-> IF off # 0 /\ o \in off .. off + val.len - 1 THEN val.tok ELSE @[o]]]
  OBVIOUS
<1>5. r = IF SpaceFor(a, "block", n) < val.len + NameLen THEN [a |-> a, rc |-> "ENOSPC"] ELSE [a |-> g, rc |-> "OK"]
  BY <1>1, <1>2 DEF ext4_xattr_set_entry
<1>6. g.ents = <<e>>
  <2>1. a = [magic |-> a.magic, ents |-> a.ents, mem |-> a.mem] BY <1>1 DEF Packed, Laid, Area0
  <2>2. g.ents = Append(a.ents, e) BY ONLY <2>1, g = [a EXCEPT !.ents = Append(@, e),
                            !.mem = [o \in DOMAIN @ |-> IF off # 0 /\ o \in off .. off + val.len - 1 THEN val.tok ELSE @[o]]]
  <2>. QED BY ONLY <2>2, <1>1
<1>7. Unshifted(g)
  <2>1. \A i \in DOMAIN g.ents : g.ents[i] = e BY ONLY <1>6
  <2>2. e.len # 0 BY ONLY <1>2, e = [name |-> n, off |-> off, len |-> val.len]
  <2>. QED BY ONLY <2>1, <2>2 DEF Unshifted
<1>8. r.a = a \/ r.a = g BY ONLY <1>5
<1>. QED BY ONLY <1>1, <1>4, <1>7, <1>8

\* The invariant holds when the volume is mounted.
LEMMA InitIs == Init => XattrInv
<1>. SUFFICES ASSUME Init PROVE XattrInv OBVIOUS
<1>. PICK B : B = blk OBVIOUS
<1>1. /\ body = [f \in Files |-> Blank("body")] /\ acl = [f \in Files |-> IF f \in Shared THEN Min(Blocks) ELSE None]
      /\ cnt = [f \in Files |-> IF f \in Shared THEN 1 ELSE 0]
      /\ pending = {} /\ copied = {} /\ calls = 0 /\ ans.rc = "OK"
  BY DEF Init
<1>2. Shared \subseteq Files /\ IsFiniteSet(Shared) BY XattrAssumption, FS_Subset
<1>3. Shared # {} => Min(Blocks) \in Blocks BY XattrAssumption, MinIs
<1>4. /\ BlocksOK(B) /\ \A b \in DOMAIN B : Unshifted(B[b].area)
      /\ DOMAIN B = IF Shared = {} THEN {} ELSE {Min(Blocks)}
      /\ Shared # {} => B[Min(Blocks)].refs = Cardinality(Shared)
  <2>1. CASE Shared = {}
    <3>1. B = <<>> BY <2>1 DEF Init
    <3>2. DOMAIN B = {} /\ B = [b \in DOMAIN B |-> B[b]] BY ONLY <3>1
    <3>. QED BY ONLY <2>1, <3>2 DEF BlocksOK
  <2>2. CASE Shared # {}
    <3>. PICK r, m : r = ext4_xattr_set_entry(Initialize("block"), "block", Kept.n, Kept.val) /\ m = Min(Blocks) OBVIOUS
    <3>1. B = [b \in {m} |-> [refs |-> Cardinality(Shared), area |-> r.a]] BY <2>2 DEF Init
    <3>2. Packed(r.a, "block") /\ Unshifted(r.a)
      <4>1. Kept.n \in Names /\ Kept.val \in Values \ {Nothing} BY XattrAssumption
      <4>. QED BY <4>1, FirstEntry
    <3>3. Cardinality(Shared) \in Nat \ {0} BY <1>2, <2>2, FS_CardinalityType, FS_EmptySet
    <3>4. DOMAIN B = {m} /\ B = [b \in DOMAIN B |-> B[b]] /\ B[m] = [refs |-> Cardinality(Shared), area |-> r.a]
      BY ONLY <3>1
    <3>5. B[m].refs = Cardinality(Shared) /\ B[m].area = r.a BY ONLY <3>4
    <3>6. m \in Blocks BY <1>3, <2>2
    <3>7. BlocksOK(B) BY ONLY <3>2, <3>3, <3>4, <3>5, <3>6 DEF BlocksOK
    <3>. QED BY ONLY <2>2, <3>2, <3>4, <3>5, <3>7, m = Min(Blocks)
  <2>. QED BY <2>1, <2>2
<1>5. \A f \in Files : body[f] = Blank("body") /\ acl[f] = (IF f \in Shared THEN Min(Blocks) ELSE None)
                       /\ cnt[f] = (IF f \in Shared THEN 1 ELSE 0)
  BY ONLY <1>1
<1>6. /\ body = [g \in Files |-> body[g]] /\ DOMAIN body = Files
      /\ acl \in [Files -> Blocks \cup {None}] /\ cnt \in [Files -> Nat]
  BY ONLY <1>1, <1>2, <1>3
<1>7. None \notin Blocks BY XattrAssumption
<1>8. /\ Packed(Blank("body"), "body") /\ Unshifted(Blank("body")) /\ IsValid(Blank("body"), "body")
      /\ Blank("body").ents = <<>> /\ \A m : Val(Blank("body"), m) = None
  <2>. PICK b : b = Blank("body") OBVIOUS
  <2>1. "body" \in Kinds BY DEF Kinds
  <2>2. /\ Packed(b, "body") /\ Unshifted(b) /\ IsValid(b, "body")
        /\ b.ents = <<>> /\ \A m : Val(b, m) = None
    BY ONLY <2>1, b = Blank("body"), EmptyIs
  <2>. QED BY <2>2
<1>9. ASSUME NEW f \in Files PROVE FileOK(Of(f))
  <2>. PICK s : s = Of(f) OBVIOUS
  <2>1. s.body = Blank("body") /\ s.acl = (IF f \in Shared THEN Min(Blocks) ELSE None)
        /\ s.cnt = (IF f \in Shared THEN 1 ELSE 0) /\ s.blk = B /\ s.room = (f \notin NoBody)
    BY <1>5, OfIs
  <2>2. s = [body |-> s.body, room |-> s.room, acl |-> s.acl, cnt |-> s.cnt, blk |-> s.blk] BY DEF Of
  <2>3. s.room \in BOOLEAN BY <2>1
  <2>4. Blocked(s) BY ONLY <1>4, <2>1, <2>2, <2>3 DEF Blocked
  <2>5. FileShape(s) BY ONLY <2>1, <2>4, <1>8 DEF FileShape, BodyOK, Split
  <2>6. Accepted(s) BY ONLY <2>1, <1>4, <1>8 DEF Accepted
  <2>. QED BY ONLY <2>5, <2>6, s = Of(f) DEF FileOK
<1>10. References
  <2>1. \A f \in Files : acl[f] # None => acl[f] \in DOMAIN blk BY ONLY <1>4, <1>5, B = blk
  <2>2. ASSUME NEW b \in DOMAIN blk PROVE blk[b].refs = Cardinality({f \in Files : acl[f] = b}) /\ blk[b].refs # 0
    <3>1. b = Min(Blocks) /\ Shared # {} BY ONLY <1>4, <2>2, B = blk
    <3>2. b # None BY ONLY <3>1, <1>3, <1>7
    <3>3. {f \in Files : acl[f] = b} = Shared BY ONLY <3>1, <3>2, <1>2, <1>5
    <3>4. blk[b].refs # 0 BY ONLY <1>4, <2>2, B = blk DEF BlocksOK
    <3>. QED BY ONLY <3>1, <3>3, <3>4, <1>4, B = blk
  <2>. QED BY ONLY <2>1, <2>2 DEF References
<1>11. BlocksCounted BY ONLY <1>2, <1>3, <1>5, <1>7 DEF BlocksCounted
<1>12. VolumeOK BY ONLY <1>1, <1>4, <1>6, <1>9, <1>10, <1>11, B = blk DEF VolumeOK
<1>13. PendingOK BY ONLY <1>1 DEF PendingOK
<1>14. calls \in 0 .. MaxCalls BY <1>1, XattrAssumption
<1>. QED BY ONLY <1>1, <1>12, <1>13, <1>14 DEF XattrInv

\* A step is a request that is looked at, one that is written, or a file that
\* goes.
LEMMA StepIs ==
  ASSUME Calm, Next
  PROVE  \/ \E f \in Files, n \in Names, val \in Values \cup {None} : \E policy, bad : Look(f, n, val, policy, bad)
         \/ \E q \in pending, alone \in BOOLEAN : \E fault : Write(q, alone, fault, TRUE)
         \/ \E f \in Files : Replace(f)
<1>1. Hits = {TRUE} BY DEF Hits, Calm
<1>2. CASE \E q \in pending, alone \in BOOLEAN, fault \in {"none", "read", "again", "full"}, hit \in Hits :
             Write(q, alone, fault, hit)
  BY ONLY <1>1, <1>2
<1>. QED BY <1>2 DEF Next

\* The invariant is about the variables only.
LEMMA Stutter == XattrInv /\ UNCHANGED vars => XattrInv'
<1>. SUFFICES ASSUME XattrInv, UNCHANGED vars PROVE XattrInv' OBVIOUS
<1>1. UNCHANGED <<body, acl, cnt, blk, pending, ans, copied, calls>> BY DEF vars
<1>2. \A g : Of(g)' = Of(g) BY <1>1 DEF Of
<1>3. References' /\ BlocksCounted' BY <1>1 DEF XattrInv, VolumeOK, References, BlocksCounted
<1>4. VolumeOK' BY <1>1, <1>2, <1>3 DEF XattrInv, VolumeOK
<1>5. PendingOK' BY <1>1, <1>2 DEF XattrInv, PendingOK
<1>. QED BY <1>1, <1>4, <1>5 DEF XattrInv

\* The invariant is inductive.
LEMMA InvStep ==
  ASSUME Calm
  PROVE  XattrInv /\ [Next]_vars => XattrInv'
<1>. SUFFICES ASSUME XattrInv, [Next]_vars PROVE XattrInv' OBVIOUS
<1>1. CASE UNCHANGED vars BY <1>1, Stutter
<1>2. CASE Next
  <2>1. CASE \E f \in Files, n \in Names, val \in Values \cup {None} : \E policy, bad : Look(f, n, val, policy, bad)
    BY <2>1, LookIs
  <2>2. CASE \E q \in pending, alone \in BOOLEAN : \E fault : Write(q, alone, fault, TRUE)
    BY <2>2, WriteIs
  <2>3. CASE \E f \in Files : Replace(f) BY <2>3, ReplaceIs
  <2>. QED BY <1>2, <2>1, <2>2, <2>3, StepIs
<1>. QED BY <1>1, <1>2

\* The invariant holds always.
LEMMA Invariant ==
  ASSUME Calm
  PROVE  Spec => []XattrInv
BY InitIs, InvStep, PTL DEF Spec

\* The invariant is stronger than what the run checks.
LEMMA SoundOf == XattrInv => AreasSound
<1>. SUFFICES ASSUME XattrInv PROVE AreasSound OBVIOUS
<1>1. VolumeOK /\ PendingOK BY DEF XattrInv
<1>2. \A f \in Files : FileOK(Of(f)) /\ Of(f).body = body[f] BY <1>1, OfIs DEF VolumeOK
<1>3. \A f \in Files : Packed(body[f], "body") /\ IsValid(body[f], "body")
  BY <1>2 DEF FileOK, FileShape, BodyOK, Accepted
<1>4. \A f \in Files : body[f].magic \in BOOLEAN /\ \A i \in DOMAIN body[f].ents : body[f].ents[i].name \in Names
  <2>. SUFFICES ASSUME NEW f \in Files
                PROVE  body[f].magic \in BOOLEAN /\ \A i \in DOMAIN body[f].ents : body[f].ents[i].name \in Names
    OBVIOUS
  <2>. PICK a : a = body[f] OBVIOUS
  <2>1. a \in Area0("body") BY <1>3 DEF Packed, Laid
  <2>2. a.magic \in BOOLEAN /\ a.ents \in Seq(Entry) BY ONLY <2>1 DEF Area0
  <2>3. \A i \in DOMAIN a.ents : a.ents[i] \in Entry BY ONLY <2>2
  <2>. QED BY ONLY <2>2, <2>3, a = body[f] DEF Entry
<1>5. TypeOK BY ONLY <1>1, <1>4, XattrInv DEF TypeOK, XattrInv, VolumeOK, PendingOK, BlocksOK
<1>6. AreasAccepted
  <2>1. \A b \in DOMAIN blk : Packed(blk[b].area, "block") /\ Unshifted(blk[b].area) BY <1>1 DEF VolumeOK, BlocksOK
  <2>2. \A b \in DOMAIN blk : IsValid(blk[b].area, "block") BY <2>1, BlockValid
  <2>. QED BY <1>3, <2>2 DEF AreasAccepted
<1>7. ListedOnce
  <2>1. \A f \in Files, n \in Names : /\ ext4_xattr_get(Of(f), n) = View(Of(f), n)
                                      /\ ext4_xattr_list(Of(f), n) = IF View(Of(f), n) = None THEN 0 ELSE 1
    BY <1>2, GetIs
  <2>. QED BY ONLY <2>1 DEF ListedOnce
<1>8. References /\ BlocksCounted BY <1>1 DEF VolumeOK
<1>. QED BY <1>5, <1>6, <1>7, <1>8 DEF AreasSound

\* Whatever is set and removed, succeeds or fails, alone or in a batch
\* (ext4_xattr_set, ext4_xattr_remove, txn_finish): the code accepts every area
\* it has written, lists an attribute once, and accounts for the blocks in the
\* references and in i_blocks.  The five known windows are left out.
THEOREM AreasSafe ==
  ASSUME Calm
  PROVE  Spec => []AreasSound
BY Invariant, SoundOf, PTL

-----------------------------------------------------------------------------
(* The maps from names to values.                                          *)

Attrs == [f \in Files |-> [n \in Names |-> ext4_xattr_get(Of(f), n)]]

\* What get answers is a map from names to values.
LEMMA AttrsAre ==
  ASSUME VolumeOK
  PROVE  /\ Attrs = [f \in Files |-> [n \in Names |-> View(Of(f), n)]]
         /\ Attrs \in [Files -> [Names -> Values \cup {None}]]
<1>1. \A f \in Files, n \in Names : /\ ext4_xattr_get(Of(f), n) = View(Of(f), n)
                                    /\ View(Of(f), n) \in Values \cup {None}
  BY GetIs DEF VolumeOK
<1>2. Attrs = [f \in Files |-> [n \in Names |-> View(Of(f), n)]] BY ONLY <1>1 DEF Attrs
<1>3. [f \in Files |-> [n \in Names |-> View(Of(f), n)]] \in [Files -> [Names -> Values \cup {None}]]
  BY ONLY <1>1
<1>. QED BY <1>2, <1>3

\* And so is what it answers after a step.
LEMMA AttrsNext ==
  ASSUME VolumeOK'
  PROVE  Attrs' = [f \in Files |-> [n \in Names |-> View(Of(f)', n)]]
<1>1. \A f \in Files : FileOK(Of(f)') BY DEF VolumeOK
<1>2. \A f \in Files, n \in Names : ext4_xattr_get(Of(f)', n) = View(Of(f)', n)
  <2>. SUFFICES ASSUME NEW f \in Files, NEW n \in Names PROVE ext4_xattr_get(Of(f)', n) = View(Of(f)', n) OBVIOUS
  <2>. PICK s : s = Of(f)' OBVIOUS
  <2>1. FileOK(s) BY <1>1
  <2>2. ext4_xattr_get(s, n) = View(s, n) BY <2>1, GetIs
  <2>. QED BY <2>2
<1>3. Attrs' = [f \in Files |-> [n \in Names |-> ext4_xattr_get(Of(f)', n)]] BY DEF Attrs
<1>. QED BY ONLY <1>2, <1>3

\* A step is a step of the abstract map, or changes nothing of it.
LEMMA MapStep ==
  ASSUME Calm, XattrInv, [Next]_vars
  PROVE  [Map!Next]_<<Attrs, ans>>
<1>0. VolumeOK /\ XattrInv' /\ VolumeOK' BY InvStep DEF XattrInv
<1>. PICK A, D : A = Attrs /\ D = Attrs' OBVIOUS
<1>1. /\ A = [f \in Files |-> [n \in Names |-> View(Of(f), n)]] /\ A \in [Files -> [Names -> Values \cup {None}]]
      /\ D = [f \in Files |-> [n \in Names |-> View(Of(f)', n)]]
  BY <1>0, AttrsAre, AttrsNext
<1>2. CASE UNCHANGED <<body, acl, cnt, blk, ans>>
  <2>1. \A f : Of(f)' = Of(f) BY <1>2 DEF Of
  <2>2. D = A BY ONLY <2>1, <1>1
  <2>. QED BY <2>2, <1>2
<1>3. CASE \E f \in Files, n \in Names, val \in Values \cup {None} : \E policy, bad : Look(f, n, val, policy, bad)
  <2>. PICK f \in Files, n \in Names, val \in Values \cup {None} : \E policy, bad : Look(f, n, val, policy, bad) BY <1>3
  <2>. PICK policy, bad : Look(f, n, val, policy, bad) OBVIOUS
  <2>1. /\ UNCHANGED <<body, acl, cnt, blk>>
        /\ UNCHANGED ans \/ (Answer(Request(f, n, val), ans'.rc) /\ ans'.rc \in {"EEXIST", "ENOATTR"})
    BY LookIs
  <2>2. CASE UNCHANGED ans BY <2>1, <2>2, <1>2
  <2>3. CASE Answer(Request(f, n, val), ans'.rc) /\ ans'.rc \in {"EEXIST", "ENOATTR"}
    <3>1. \A g : Of(g)' = Of(g) BY <2>1 DEF Of
    <3>2. D = A BY ONLY <3>1, <1>1
    <3>3. ans' = [rc |-> ans'.rc, f |-> f, n |-> n, val |-> val] BY ONLY <2>3 DEF Answer, Request
    <3>4. Map!Answer(f, n, val, ans'.rc) BY <3>2, <3>3, <2>3 DEF Map!Answer, Attrs
    <3>. QED BY <3>4, <2>3 DEF Map!Next
  <2>. QED BY <2>1, <2>2, <2>3
<1>4. CASE \E q \in pending, alone \in BOOLEAN : \E fault : Write(q, alone, fault, TRUE)
  <2>. PICK q \in pending, alone \in BOOLEAN : \E fault : Write(q, alone, fault, TRUE) BY <1>4
  <2>. PICK fault : Write(q, alone, fault, TRUE) OBVIOUS
  <2>. PICK f, n, val, rc : f = q.f /\ n = q.n /\ val = q.val /\ rc = ans'.rc OBVIOUS
  <2>1. /\ f \in Files /\ n \in Names /\ val \in Values \cup {None}
        /\ Answer(q, rc) /\ Sets(f, n, val, rc)
    BY WriteIs
  <2>2. D = IF rc = "OK" THEN [A EXCEPT ![f][n] = val] ELSE A
    <3>1. \A g \in Files, m \in Names : View(Of(g)', m) = IF rc = "OK" /\ g = f /\ m = n THEN val ELSE A[g][m]
      BY ONLY <2>1, <1>1 DEF Sets
    <3>2. CASE rc # "OK" BY ONLY <3>1, <3>2, <1>1
    <3>3. CASE rc = "OK"
      <4>. PICK E : E = [A EXCEPT ![f][n] = val] OBVIOUS
      <4>1. E = [g \in Files |-> IF g = f THEN [A[f] EXCEPT ![n] = val] ELSE A[g]]
        BY ONLY <1>1, <2>1, E = [A EXCEPT ![f][n] = val]
      <4>2. [A[f] EXCEPT ![n] = val] = [m \in Names |-> IF m = n THEN val ELSE A[f][m]] BY ONLY <1>1, <2>1
      <4>3. \A g \in Files : D[g] = IF g = f THEN [m \in Names |-> IF m = n THEN val ELSE A[f][m]] ELSE A[g]
        <5>. SUFFICES ASSUME NEW g \in Files
                      PROVE  D[g] = IF g = f THEN [m \in Names |-> IF m = n THEN val ELSE A[f][m]] ELSE A[g]
          OBVIOUS
        <5>1. D[g] = [m \in Names |-> View(Of(g)', m)] BY ONLY <1>1
        <5>2. \A m \in Names : View(Of(g)', m) = IF g = f /\ m = n THEN val ELSE A[g][m] BY ONLY <3>1, <3>3
        <5>3. A[g] = [m \in Names |-> A[g][m]] BY ONLY <1>1
        <5>. QED BY ONLY <5>1, <5>2, <5>3
      <4>4. D = [g \in Files |-> D[g]] BY ONLY <1>1
      <4>5. D = E BY ONLY <4>1, <4>2, <4>3, <4>4
      <4>. QED BY ONLY <3>3, <4>5, E = [A EXCEPT ![f][n] = val]
    <3>. QED BY <3>2, <3>3
  <2>3. ans' = [rc |-> rc, f |-> f, n |-> n, val |-> val] BY <2>1 DEF Answer
  <2>4. rc \in {"OK", "ENOSPC", "EIO", "ENOATTR", "EEXIST"} BY <1>0 DEF XattrInv
  <2>5. Map!Answer(f, n, val, rc) BY <2>2, <2>3 DEF Map!Answer, Attrs
  <2>. QED BY <2>1, <2>4, <2>5 DEF Map!Next
<1>5. CASE \E f \in Files : Replace(f)
  <2>. PICK f \in Files : Replace(f) BY <1>5
  <2>1. /\ UNCHANGED ans
        /\ \A g \in Files, m \in Names : View(Of(g)', m) = IF g = f THEN None ELSE View(Of(g), m)
    BY ReplaceIs
  <2>2. D = [A EXCEPT ![f] = [n \in Names |-> None]] BY ONLY <2>1, <1>1
  <2>3. Map!Replace(f) BY <2>1, <2>2 DEF Map!Replace, Map!NoAttrs, Attrs
  <2>. QED BY <2>3 DEF Map!Next
<1>6. CASE UNCHANGED vars BY <1>6, <1>2 DEF vars
<1>. QED BY <1>3, <1>4, <1>5, <1>6, StepIs

\* The areas in the inode and in the block, compacted, copied, moved between and
\* shared (ext4_xattr.c), implement a map from names to values: a request that is
\* answered OK changes what it named, of its file only, and a refused one nothing.
THEOREM RefinesAttrMap ==
  ASSUME Calm
  PROVE  Spec => IsAttrMap
<1>1. Init => Map!Init
  <2>. SUFFICES ASSUME Init PROVE Map!Init OBVIOUS
  <2>1. VolumeOK BY InitIs DEF XattrInv
  <2>2. Attrs \in [Files -> [Names -> Values \cup {None}]] BY <2>1, AttrsAre
  <2>3. ans.rc = "OK" BY DEF Init
  <2>. QED BY <2>2, <2>3 DEF Map!Init, Attrs
<1>2. XattrInv /\ [Next]_vars => [Map!Next]_<<Attrs, ans>> BY MapStep
<1>. QED BY <1>1, <1>2, Invariant, PTL DEF Spec, IsAttrMap, Map!Spec, Attrs

=============================================================================
