--------------------------- MODULE AliasScansProofs ---------------------------
(***************************************************************************)
(* What the scans of a character's names keep, for any number of names,    *)
(* any cap and any number of reports, uploads, failures and crashes: the   *)
(* shares of the names add up to the cap, so a run stays within it, and a  *)
(* run that replaces what is stored has read all of it again.              *)
(***************************************************************************)
EXTENDS AliasScans, FiniteSetTheorems, WellFoundedInduction, TLAPS

(* The request slots that the names of S have under cs.                    *)
Slots(cs, S) == {x \in I \X (1 .. RequestCap) : x[1] \in S /\ x[2] <= cs[x[1]]}

Marks == [page : Nat, boundary : Nat]

(* The page a bookmark was left behind is still there.                     *)
MarkHeld(mark, i) == mark.boundary # 0 => mark.page - 1 \in 1 .. size[i]

Known == {x \in I \X Nat : x[2] \in 1 .. size[x[1]]}

Typed ==
    /\ size \in [I -> Nat] /\ turn \in I /\ stage \in {"idle", "full", "light"}
    /\ resume \in [I -> Marks] /\ next \in [I -> Marks]
    /\ todo \subseteq DOMAIN caps /\ DOMAIN caps \subseteq I
    /\ limited \in BOOLEAN /\ spent \in Nat

MarksHeld == \A i \in I : MarkHeld(resume[i], i) /\ MarkHeld(next[i], i)
ReadSoFar == stored \subseteq Known /\ found \subseteq Known

(* What has been spent and what the names to come may still spend.         *)
Paid ==
    /\ \A i \in todo : caps[i] \in 1 .. RequestCap
    /\ spent + Cardinality(Slots(caps, todo)) <= RequestCap

(* An unlimited run has found what was stored of the names behind it.      *)
Whole ==
    stage = "full" /\ ~limited => \A x \in stored : x[1] \in DOMAIN caps \ todo => x \in found

LightIsCurrent == stage = "light" => DOMAIN caps = {0}

Reading == MarksHeld /\ ReadSoFar /\ Whole /\ LightIsCurrent
IInv == Typed /\ Reading /\ Paid

-----------------------------------------------------------------------------
(* A non-empty set of numbers has a least member.                          *)
LEMMA Least ==
  ASSUME NEW T \in SUBSET Nat, T # {}
  PROVE  \E x \in T : \A y \in T : x <= y
<1>1. IsWellFoundedOn(OpToRel(<, Nat), Nat)
  BY NatLessThanWellFounded
<1>2. PICK x \in T : \A y \in T : ~(<<y, x>> \in OpToRel(<, Nat))
  BY <1>1, WFMin
<1>3. ASSUME NEW y \in T PROVE x <= y
  <2>1. x \in Nat /\ y \in Nat
    OBVIOUS
  <2>2. <<y, x>> \in OpToRel(<, Nat) <=> y < x
    BY <2>1 DEF OpToRel
  <2>3. ~(y < x)
    BY <1>2, <2>2, Zenon
  <2> QED BY <2>1, <2>3
<1> QED BY <1>3

(* The smaller of two numbers is one of them.                              *)
LEMMA MinOfTwo ==
  ASSUME NEW a \in Int, NEW b \in Int
  PROVE  Min({a, b}) \in {a, b} /\ Min({a, b}) <= a /\ Min({a, b}) <= b
<1>1. \E x \in {a, b} : \A y \in {a, b} : x <= y
  <2>1. CASE a <= b
    BY <2>1
  <2>2. CASE ~(a <= b)
    BY <2>2
  <2> QED BY <2>1, <2>2
<1>2. Min({a, b}) \in {a, b} /\ \A y \in {a, b} : Min({a, b}) <= y
  BY <1>1 DEF Min
<1> QED BY <1>2

LEMMA NamesFinite == IsFiniteSet(I) /\ 0 \in I /\ 1 \in I /\ I \subseteq Nat
<1>1. 0 \in Int /\ Names - 1 \in Int
  BY AliasAssumption
<1>2. IsFiniteSet(I)
  BY <1>1, FS_Interval DEF I
<1> QED BY <1>2, AliasAssumption DEF I

LEMMA SlotsFinite ==
  ASSUME NEW cs, NEW S
  PROVE  IsFiniteSet(Slots(cs, S)) /\ Cardinality(Slots(cs, S)) \in Nat
<1>1. IsFiniteSet(1 .. RequestCap)
  BY FS_Interval, AliasAssumption
<1>2. IsFiniteSet(I \X (1 .. RequestCap))
  BY <1>1, NamesFinite, FS_Product
<1>3. Slots(cs, S) \in SUBSET (I \X (1 .. RequestCap))
  BY DEF Slots
<1>4. IsFiniteSet(Slots(cs, S))
  BY <1>2, <1>3, FS_Subset
<1> QED BY <1>4, FS_CardinalityType

(* A name among S has as many of the slots as its share.                   *)
LEMMA SlotsOfOne ==
  ASSUME NEW cs, NEW S, NEW i \in I, i \in S, cs[i] \in 1 .. RequestCap
  PROVE  Cardinality(Slots(cs, S)) = Cardinality(Slots(cs, S \ {i})) + cs[i]
<1> DEFINE own == {i} \X (1 .. cs[i])
           rest == Slots(cs, S \ {i})
<1>1. cs[i] \in Nat /\ cs[i] >= 1 /\ cs[i] <= RequestCap
  BY AliasAssumption
<1>2. IsFiniteSet({i}) /\ Cardinality({i}) = 1
  BY FS_Singleton
<1>3. IsFiniteSet(1 .. cs[i]) /\ Cardinality(1 .. cs[i]) = cs[i]
  BY <1>1, FS_Interval
<1>4. IsFiniteSet(own) /\ Cardinality(own) = Cardinality({i}) * Cardinality(1 .. cs[i])
  BY <1>2, <1>3, FS_Product, Zenon
<1>5. Cardinality(own) = 1 * cs[i]
  BY <1>2, <1>3, <1>4, Zenon
<1>6. Slots(cs, S) = rest \cup own
  <2>1. ASSUME NEW x \in Slots(cs, S) PROVE x \in rest \cup own
    <3>1. x \in I \X (1 .. RequestCap) /\ x[1] \in S /\ x[2] <= cs[x[1]]
      BY DEF Slots
    <3>2. CASE x[1] = i
      BY <1>1, <3>1, <3>2
    <3>3. CASE x[1] # i
      BY <3>1, <3>3 DEF Slots
    <3> QED BY <3>2, <3>3
  <2>2. ASSUME NEW x \in own PROVE x \in Slots(cs, S)
    <3>1. x[1] = i /\ x[2] \in 1 .. cs[i] /\ x \in I \X (1 .. RequestCap)
      BY <1>1, AliasAssumption
    <3> HIDE DEF own
    <3> QED BY <3>1 DEF Slots
  <2>3. ASSUME NEW x \in rest PROVE x \in Slots(cs, S)
    BY DEF Slots
  <2> QED BY <2>1, <2>2, <2>3
<1>7. rest \cap own = {}
  BY DEF Slots
<1>8. IsFiniteSet(rest) /\ Cardinality(rest) \in Nat
  BY SlotsFinite
<1> HIDE DEF own, rest
<1>9. Cardinality(rest \cup own) = Cardinality(rest) + Cardinality(own) - Cardinality(rest \cap own)
  BY <1>4, <1>8, FS_Union
<1>10. Cardinality(rest \cap own) = 0
  BY <1>7, FS_EmptySet
<1> QED BY <1>1, <1>5, <1>6, <1>8, <1>9, <1>10 DEF rest

-----------------------------------------------------------------------------
(* The steps of a run *)

(* One name's scan: it spends no more than its share, finds only reports   *)
(* there are, and unless it limits the run it has found all of them.       *)
LEMMA ScanReads ==
  ASSUME IInv, NEW i \in I, Scan(i)
  PROVE  /\ i \in todo /\ todo' = todo \ {i}
         /\ spent' \in Nat /\ spent' <= spent + caps[i]
         /\ found \subseteq found' /\ found' \subseteq Known
         /\ limited' \in BOOLEAN /\ (limited => limited')
         /\ ~limited' => \A r \in 1 .. size[i] : <<i, r>> \in found'
         /\ next' \in [I -> Marks] /\ \A j \in I : MarkHeld(next'[j], j)
<1> DEFINE mark == IF stage = "light" THEN NoMark ELSE resume[i]
           probed == IF mark.boundary = 0 THEN {} ELSE {mark.page - 1}
           proved == \E p \in probed : ReportAt(i, p) = mark.boundary
           start == IF proved THEN mark.page ELSE 1
           last == Min({size[i], start + caps[i] - Cardinality(probed) - 1})
           ended == last = size[i] /\ start <= last
           reach == IF last >= start THEN last ELSE IF proved THEN start - 1 ELSE 0
           new == CASE ended /\ start = 1 -> NoMark
                    [] ended \/ reach = 0 -> FromTop
                    [] OTHER -> [page |-> reach + 1, boundary |-> ReportAt(i, reach)]
<1>1. /\ i \in todo /\ todo' = todo \ {i}
      /\ found' = found \cup {<<i, ReportAt(i, p)>> : p \in probed \cup (start .. last)}
      /\ spent' = spent + Cardinality(probed) + Cardinality(start .. last)
      /\ limited' = (limited \/ ~ended \/ start > 1)
      /\ next' = IF stage = "light" THEN next ELSE [next EXCEPT ![i] = new]
  BY DEF Scan, Turn
<1>2. mark \in Marks /\ MarkHeld(mark, i)
  BY DEF IInv, Typed, Reading, MarksHeld, Marks, MarkHeld, NoMark
<1>3. /\ size[i] \in Nat /\ spent \in Nat /\ found \subseteq Known /\ limited \in BOOLEAN
      /\ caps[i] \in Nat /\ caps[i] >= 1
  <2>1. i \in todo
    BY DEF Scan, Turn
  <2> HIDE DEF mark, probed, proved, start, last, ended, reach, new
  <2> QED BY <2>1, AliasAssumption DEF IInv, Typed, Reading, ReadSoFar, Paid
<1> HIDE DEF mark
<1>4. \A p \in probed : p \in 1 .. size[i] /\ mark.page \in Nat /\ p = mark.page - 1
  BY <1>2 DEF MarkHeld, Marks
<1>5. Cardinality(probed) \in 0 .. 1 /\ (probed = {} \/ Cardinality(probed) = 1)
  <2>1. probed = {} \/ probed = {mark.page - 1}
    OBVIOUS
  <2> HIDE DEF probed
  <2>2. Cardinality({}) = 0 /\ Cardinality({mark.page - 1}) = 1
    BY FS_EmptySet, FS_Singleton
  <2> QED BY <2>1, <2>2
<1> HIDE DEF probed
<1>6. start \in Nat /\ start >= 1 /\ (proved => start > 1 /\ start - 1 <= size[i])
  BY <1>4
<1> HIDE DEF proved
<1>7. /\ last \in Int /\ last <= size[i] /\ (last >= start - 1 \/ last = size[i])
      /\ last <= start + caps[i] - Cardinality(probed) - 1
  <2> HIDE DEF start
  <2> DEFINE most == start + caps[i] - Cardinality(probed) - 1
  <2>1. most \in Int /\ most >= start - 1
    BY <1>3, <1>5, <1>6
  <2>2. last = Min({size[i], most})
    OBVIOUS
  <2> HIDE DEF most, last
  <2>3. last \in {size[i], most} /\ last <= size[i] /\ last <= most
    <3>1. size[i] \in Int
      BY <1>3
    <3> QED BY <2>1, <2>2, <3>1, MinOfTwo, Zenon
  <2>4. last \in Int /\ last <= size[i] /\ (last >= start - 1 \/ last = size[i]) /\ last <= most
    BY <1>3, <1>6, <2>1, <2>3
  <2> QED BY <2>4 DEF most
<1> HIDE DEF start, last
<1>9. Cardinality(start .. last) \in Nat
      /\ Cardinality(start .. last) + Cardinality(probed) <= caps[i]
  <2>1. Cardinality(start .. last) = IF start > last THEN 0 ELSE last - start + 1
    <3>1. start \in Int /\ last \in Int
      BY <1>6, <1>7
    <3> QED BY <3>1, FS_Interval, Zenon
  <2> QED BY <1>3, <1>5, <1>6, <1>7, <2>1
<1>10. spent' \in Nat /\ spent' <= spent + caps[i]
  BY <1>1, <1>3, <1>5, <1>9
<1>11. \A p \in probed \cup (start .. last) : p \in 1 .. size[i]
  BY <1>3, <1>4, <1>6, <1>7
<1>12. \A p \in 1 .. size[i] : <<i, ReportAt(i, p)>> \in Known
  BY <1>3 DEF ReportAt, Known
<1>13. found \subseteq found' /\ found' \subseteq Known
  BY <1>1, <1>3, <1>11, <1>12
<1>14. ASSUME ~limited', NEW r \in 1 .. size[i] PROVE <<i, r>> \in found'
  <2>1. last = size[i] /\ start = 1
    <3>1. ended /\ ~(start > 1)
      <4> HIDE DEF ended
      <4> QED BY <1>1, <1>14, Zenon
    <3> QED BY <1>6, <3>1
  <2>2. size[i] - r + 1 \in start .. last
    BY <1>3, <2>1
  <2>3. ReportAt(i, size[i] - r + 1) = r
    BY <1>3 DEF ReportAt
  <2> QED BY <1>1, <2>2, <2>3
<1>15. reach # 0 => reach \in 1 .. size[i]
  BY <1>3, <1>6, <1>7
<1> HIDE DEF reach, ended
<1>16. new \in Marks /\ MarkHeld(new, i)
  <2>1. NoMark \in Marks /\ MarkHeld(NoMark, i) /\ FromTop \in Marks /\ MarkHeld(FromTop, i)
    BY DEF NoMark, FromTop, Marks, MarkHeld
  <2>2. CASE reach # 0
    <3> DEFINE m == [page |-> reach + 1, boundary |-> ReportAt(i, reach)]
    <3>1. m \in Marks /\ MarkHeld(m, i)
      BY <1>3, <1>15, <2>2 DEF Marks, MarkHeld, ReportAt
    <3> HIDE DEF m
    <3>2. new = NoMark \/ new = FromTop \/ new = m
      BY DEF m
    <3> HIDE DEF new
    <3> QED BY <2>1, <3>1, <3>2
  <2>3. CASE reach = 0
    <3>1. new = NoMark \/ new = FromTop
      BY <2>3
    <3> HIDE DEF new
    <3> QED BY <2>1, <3>1
  <2> QED BY <2>2, <2>3
<1> HIDE DEF new
<1>17. next' \in [I -> Marks] /\ \A j \in I : MarkHeld(next'[j], j)
  BY <1>1, <1>16 DEF IInv, Typed, Reading, MarksHeld
<1>18. limited' \in BOOLEAN /\ (limited => limited')
  BY <1>1, <1>3
<1> QED BY <1>1, <1>10, <1>13, <1>14, <1>17, <1>18

(* Fewer slots are left once a name is behind.                             *)
LEMMA TurnPays ==
  ASSUME IInv, NEW i \in todo, NEW cost \in Nat, cost <= caps[i]
  PROVE  /\ caps[i] \in Nat /\ i \in I
         /\ spent + cost + Cardinality(Slots(caps, todo \ {i})) <= RequestCap
<1>1. i \in I /\ caps[i] \in 1 .. RequestCap /\ spent \in Nat
      /\ spent + Cardinality(Slots(caps, todo)) <= RequestCap
  BY DEF IInv, Typed, Paid
<1>2. Cardinality(Slots(caps, todo)) = Cardinality(Slots(caps, todo \ {i})) + caps[i]
  BY <1>1, SlotsOfOne
<1>3. Cardinality(Slots(caps, todo \ {i})) \in Nat /\ RequestCap \in Nat
  BY SlotsFinite, AliasAssumption
<1> QED BY <1>1, <1>2, <1>3

LEMMA ScanKeeps ==
  ASSUME IInv, NEW i \in I, Scan(i)
  PROVE  IInv'
<1>1. /\ i \in todo /\ todo' = todo \ {i}
      /\ spent' \in Nat /\ spent' <= spent + caps[i]
      /\ found \subseteq found' /\ found' \subseteq Known
      /\ limited' \in BOOLEAN /\ (limited => limited')
      /\ ~limited' => \A r \in 1 .. size[i] : <<i, r>> \in found'
      /\ next' \in [I -> Marks] /\ \A j \in I : MarkHeld(next'[j], j)
  BY ScanReads
<1>2. UNCHANGED <<size, resume, turn, stored, stage, caps>>
  BY DEF Scan
<1>3. Typed'
  BY <1>1, <1>2 DEF IInv, Typed
<1>4. MarksHeld' /\ ReadSoFar' /\ LightIsCurrent'
  BY <1>1, <1>2 DEF IInv, Reading, MarksHeld, MarkHeld, ReadSoFar, Known, LightIsCurrent
<1>5. Whole'
  <2> SUFFICES ASSUME stage = "full", ~limited', NEW x \in stored, x[1] \in DOMAIN caps \ todo'
               PROVE  x \in found'
    BY <1>2 DEF Whole
  <2>1. CASE x[1] = i
    <3>1. x \in Known
      BY DEF IInv, Reading, ReadSoFar
    <3>2. x = <<i, x[2]>> /\ x[2] \in 1 .. size[i]
      BY <2>1, <3>1 DEF Known
    <3> QED BY <1>1, <3>2
  <2>2. CASE x[1] # i
    BY <1>1, <2>2 DEF IInv, Reading, Whole
  <2> QED BY <2>1, <2>2
<1>6. Paid'
  <2>1. caps[i] \in Nat /\ spent \in Nat
    BY <1>1, AliasAssumption DEF IInv, Typed, Paid
  <2>2. PICK cost \in Nat : cost = caps[i]
    BY <2>1
  <2>3. spent + cost + Cardinality(Slots(caps, todo \ {i})) <= RequestCap
    BY <1>1, <2>2, TurnPays
  <2>4. Cardinality(Slots(caps, todo \ {i})) \in Nat /\ RequestCap \in Nat
    BY SlotsFinite, AliasAssumption
  <2>5. spent' + Cardinality(Slots(caps, todo')) <= RequestCap
    BY <1>1, <2>1, <2>2, <2>3, <2>4
  <2> QED BY <1>1, <1>2, <2>5 DEF IInv, Paid, Slots
<1> QED BY <1>3, <1>4, <1>5, <1>6 DEF IInv, Reading

LEMMA ScanFailsKeeps ==
  ASSUME IInv, NEW i \in I, ScanFails(i)
  PROVE  IInv'
<1>1. /\ i \in todo /\ todo' = todo \ {i} /\ spent' = spent + 1 /\ limited' = TRUE
      /\ UNCHANGED <<size, resume, turn, stored, stage, caps, next, found>>
  BY DEF ScanFails, Turn
<1>2. Typed' /\ Reading'
  BY <1>1 DEF IInv, Typed, Reading, MarksHeld, MarkHeld, ReadSoFar, Known, Whole, LightIsCurrent
<1>3. caps[i] >= 1
  BY <1>1 DEF IInv, Paid
<1>4. spent + 1 + Cardinality(Slots(caps, todo \ {i})) <= RequestCap
  BY <1>1, <1>3, TurnPays
<1>5. Paid'
  BY <1>1, <1>4 DEF IInv, Paid, Slots
<1> QED BY <1>2, <1>5 DEF IInv

(* Nothing is left to pay when no name is left.                            *)
LEMMA NoneLeft ==
  ASSUME NEW cs
  PROVE  Cardinality(Slots(cs, {})) = 0
<1>1. Slots(cs, {}) = {}
  BY DEF Slots
<1> QED BY <1>1, FS_EmptySet

LEMMA WithinCap == IInv => CapIsShared
<1> SUFFICES ASSUME IInv PROVE CapIsShared
  OBVIOUS
<1>1. Cardinality(Slots(caps, todo)) \in Nat /\ spent \in Nat /\ RequestCap \in Nat
  BY SlotsFinite, AliasAssumption DEF IInv, Typed
<1> QED BY <1>1 DEF IInv, Paid, CapIsShared

(* A publication that replaces what is stored has found all of it.         *)
LEMMA PublishKeeps ==
  ASSUME IInv, Publish
  PROVE  IInv' /\ stored \subseteq stored'
<1>1. /\ stage # "idle" /\ todo = {} /\ resume' = next /\ turn' = (turn + 1) % Names
      /\ stage' = "idle" /\ UNCHANGED <<size, caps, todo, next, found, limited, spent>>
      /\ \/ stored' = stored \cup found
         \/ stored' = found /\ ~limited /\ DOMAIN caps = I
  BY DEF Publish, run
<1>2. stored \subseteq Known /\ found \subseteq Known
  BY DEF IInv, Reading, ReadSoFar
<1>3. stored \subseteq stored'
  <2>1. CASE stored' = found /\ ~limited /\ DOMAIN caps = I
    <3>1. stage = "full"
      <4>1. I # {0}
        BY NamesFinite
      <4> QED BY <1>1, <2>1, <4>1 DEF IInv, Typed, Reading, LightIsCurrent
    <3>2. \A x \in stored : x[1] \in I
      BY <1>2 DEF Known
    <3> QED BY <1>1, <2>1, <3>1, <3>2 DEF IInv, Reading, Whole
  <2> QED BY <1>1, <2>1
<1>4. stored' \subseteq Known
  BY <1>1, <1>2
<1>5. turn' \in I
  BY <1>1, AliasAssumption DEF IInv, Typed, I
<1>6. Typed'
  BY <1>1, <1>5 DEF IInv, Typed
<1>7. Reading'
  BY <1>1, <1>2, <1>4 DEF IInv, Reading, MarksHeld, MarkHeld, ReadSoFar, Known, Whole, LightIsCurrent
<1>8. Paid'
  BY <1>1 DEF IInv, Paid, Slots
<1> QED BY <1>3, <1>6, <1>7, <1>8 DEF IInv

LEMMA CrashKeeps ==
  ASSUME IInv, Crash
  PROVE  IInv'
<1>1. /\ stage' = "idle" /\ todo' = {}
      /\ UNCHANGED <<size, resume, turn, stored, caps, next, found, limited, spent>>
  BY DEF Crash
<1>2. Typed' /\ Reading'
  BY <1>1 DEF IInv, Typed, Reading, MarksHeld, MarkHeld, ReadSoFar, Known, Whole, LightIsCurrent
<1>3. CapIsShared /\ spent \in Nat
  BY WithinCap DEF IInv, Typed
<1>4. Cardinality(Slots(caps, {})) = 0
  BY NoneLeft
<1>5. Paid'
  BY <1>1, <1>3, <1>4 DEF Paid, Slots, CapIsShared
<1> QED BY <1>2, <1>5 DEF IInv

LEMMA UploadKeeps ==
  ASSUME IInv, NEW i \in I, Upload(i)
  PROVE  IInv'
<1>1. /\ size' = [size EXCEPT ![i] = @ + 1]
      /\ UNCHANGED <<resume, turn, stored, stage, caps, todo, next, found, limited, spent>>
  BY DEF Upload, run
<1>2. size \in [I -> Nat]
  BY DEF IInv, Typed
<1>3. size' \in [I -> Nat] /\ \A j \in I : size[j] <= size'[j]
  BY <1>1, <1>2
<1>4. Known \subseteq Known'
  BY <1>2, <1>3 DEF Known
<1>5. MarksHeld'
  BY <1>1, <1>2, <1>3 DEF IInv, Typed, Reading, MarksHeld, MarkHeld, Marks
<1>6. Typed' /\ Reading'
  BY <1>1, <1>3, <1>4, <1>5 DEF IInv, Typed, Reading, ReadSoFar, Whole, LightIsCurrent
<1>7. Paid'
  BY <1>1 DEF IInv, Paid, Slots
<1> QED BY <1>6, <1>7 DEF IInv

(* A run begins within its cap when the shares are within it.              *)
LEMMA StartKeeps ==
  ASSUME IInv, NEW kind \in {"full", "light"}, NEW cs, Starts(kind, cs),
         DOMAIN cs \subseteq I, kind = "light" => DOMAIN cs = {0},
         \A i \in DOMAIN cs : cs[i] \in 1 .. RequestCap,
         Cardinality(Slots(cs, DOMAIN cs)) <= RequestCap
  PROVE  IInv'
<1>1. /\ stage' = kind /\ caps' = cs /\ todo' = DOMAIN cs /\ next' = resume /\ found' = {}
      /\ limited' = FALSE /\ spent' = 0 /\ UNCHANGED <<size, resume, turn, stored>>
  BY DEF Starts
<1>2. Typed' /\ Reading'
  BY <1>1 DEF IInv, Typed, Reading, MarksHeld, MarkHeld, ReadSoFar, Known, Whole, LightIsCurrent
<1>3. Cardinality(Slots(cs, DOMAIN cs)) \in Nat
  BY SlotsFinite
<1>4. Paid'
  BY <1>1, <1>3 DEF Paid, Slots
<1> QED BY <1>2, <1>4 DEF IInv

LEMMA LightKeeps ==
  ASSUME IInv, Light
  PROVE  IInv'
<1> DEFINE cs == [i \in {0} |-> 1]
<1>1. Starts("light", cs)
  BY DEF Light
<1>2. DOMAIN cs = {0} /\ cs[0] = 1 /\ 0 \in I /\ RequestCap \in Nat /\ 1 <= RequestCap
  BY NamesFinite, AliasAssumption
<1> HIDE DEF cs
<1>3. Cardinality(Slots(cs, {0})) = Cardinality(Slots(cs, {0} \ {0})) + cs[0]
  BY <1>2, SlotsOfOne
<1>4. {0} \ {0} = {}
  OBVIOUS
<1>5. Cardinality(Slots(cs, {0} \ {0})) = 0
  BY <1>4, NoneLeft
<1>6. Cardinality(Slots(cs, DOMAIN cs)) <= RequestCap
  BY <1>2, <1>3, <1>5
<1> QED BY <1>1, <1>2, <1>6, StartKeeps

-----------------------------------------------------------------------------
(* The shares of the names *)

(* The rounds of the first m names, as a function of their own.            *)
Begun == [names |-> <<>>, left |-> RequestCap]
Prefix(f, m) ==
    f = [k \in 0 .. m |-> IF k = 0 THEN Begun ELSE Admit(f[k - 1], Order[k])]

(* There is one for every m: the least without one would have a            *)
(* predecessor, which can be extended.                                     *)
LEMMA PrefixExists == \A m \in 0 .. Names : \E f : Prefix(f, m)
<1> DEFINE Without == {m \in 0 .. Names : ~ \E f : Prefix(f, m)}
<1> SUFFICES ASSUME Without # {} PROVE FALSE
  OBVIOUS
<1>1. Without \in SUBSET Nat
  BY AliasAssumption
<1>2. PICK m \in Without : \A n \in Without : m <= n
  BY <1>1, Least
<1>3. m \in 0 .. Names /\ ~ \E f : Prefix(f, m)
  OBVIOUS
<1>4. m # 0
  <2> DEFINE f == [k \in 0 .. 0 |-> Begun]
  <2>1. f = [k \in 0 .. 0 |-> IF k = 0 THEN Begun ELSE Admit(f[k - 1], Order[k])]
    <3> HIDE DEF Begun
    <3> QED OBVIOUS
  <2>2. Prefix(f, 0)
    BY <2>1, Zenon DEF Prefix
  <2> QED BY <1>3, <2>2
<1>5. m - 1 \in 0 .. Names /\ ~(m <= m - 1)
  BY <1>3, <1>4, AliasAssumption
<1>6. m - 1 \notin Without
  BY <1>2, <1>5
<1> HIDE DEF Without
<1>7. PICK f : Prefix(f, m - 1)
  BY <1>5, <1>6 DEF Without
<1> DEFINE g == [k \in 0 .. m |-> IF k = m THEN Admit(f[m - 1], Order[m]) ELSE f[k]]
<1>8. Prefix(g, m)
  <2>1. f = [k \in 0 .. m - 1 |-> IF k = 0 THEN Begun ELSE Admit(f[k - 1], Order[k])]
    BY <1>7 DEF Prefix
  <2>2. ASSUME NEW k \in 0 .. m
        PROVE  g[k] = IF k = 0 THEN Begun ELSE Admit(g[k - 1], Order[k])
    <3>1. CASE k = m
      <4>1. g[k - 1] = f[k - 1]
        BY <1>3, <1>4, <3>1
      <4> QED BY <1>4, <3>1, <4>1
    <3>2. CASE k # m
      <4>1. k \in 0 .. m - 1 /\ g[k] = f[k]
        BY <1>3, <3>2
      <4>2. f[k] = IF k = 0 THEN Begun ELSE Admit(f[k - 1], Order[k])
        BY <2>1, <4>1
      <4>3. k # 0 => g[k - 1] = f[k - 1]
        BY <1>3, <4>1
      <4> HIDE DEF g, Begun
      <4> QED BY <4>1, <4>2, <4>3
    <3> QED BY <3>1, <3>2
  <2>3. DOMAIN g = 0 .. m /\ g = [k \in 0 .. m |-> g[k]]
    OBVIOUS
  <2> HIDE DEF g
  <2>4. g = [k \in 0 .. m |-> IF k = 0 THEN Begun ELSE Admit(g[k - 1], Order[k])]
    BY <2>2, <2>3
  <2> QED BY <2>4 DEF Prefix
<1> QED BY <1>3, <1>8

LEMMA Rounds ==
  /\ Round[0] = Begun
  /\ \A k \in 1 .. Names : Round[k] = Admit(Round[k - 1], Order[k])
<1>1. Names \in Nat /\ Names \in 0 .. Names /\ 0 \in 0 .. Names
  BY AliasAssumption
<1>2. PICK f : Prefix(f, Names)
  BY <1>1, PrefixExists
<1>3. f = [k \in 0 .. Names |-> IF k = 0 THEN Begun ELSE Admit(f[k - 1], Order[k])]
  BY <1>2 DEF Prefix
<1>4. Round = [k \in 0 .. Names |-> IF k = 0 THEN Begun ELSE Admit(Round[k - 1], Order[k])]
  BY <1>3, Zenon DEF Round, Begun
<1>5. \A k \in 0 .. Names : Round[k] = IF k = 0 THEN Begun ELSE Admit(Round[k - 1], Order[k])
  BY <1>4
<1>6. \A k \in 1 .. Names : k \in 0 .. Names /\ k # 0
  BY <1>1
<1> QED BY <1>1, <1>5, <1>6

(* The turn goes round the names: each has it once.                        *)
LEMMA OrderGoesRound ==
  ASSUME turn \in I
  PROVE  /\ \A k \in 1 .. Names : Order[k] \in I
         /\ \A k, l \in 1 .. Names : Order[k] = Order[l] => k = l
<1>1. turn \in 0 .. Names - 1 /\ Names \in Nat /\ Names > 1
  BY AliasAssumption DEF I
<1>2. ASSUME NEW k \in 1 .. Names
      PROVE  Order[k] = IF turn + k - 1 < Names THEN turn + k - 1 ELSE turn + k - 1 - Names
  BY <1>1 DEF Order
<1> QED BY <1>1, <1>2 DEF I

(* What each name is charged before what is left is shared.                *)
Costs == [i \in I |-> Minimum(i)]

LEMMA CostsAreSmall ==
  \A i \in I : Minimum(i) \in 1 .. 2 /\ Costs[i] = Minimum(i) /\ Costs[i] \in 1 .. RequestCap
BY AliasAssumption DEF Minimum, Costs

NamesOf(a) == {a.names[k] : k \in 1 .. Len(a.names)}

(* After k rounds those admitted and what is left make up the cap.         *)
Fits(a, k) ==
    /\ a.names \in Seq(I) /\ a.left \in Nat
    /\ \A p, q \in 1 .. Len(a.names) : a.names[p] = a.names[q] => p = q
    /\ \A p \in 1 .. Len(a.names) : \E l \in 1 .. k : a.names[p] = Order[l]
    /\ Cardinality(Slots(Costs, NamesOf(a))) + a.left = RequestCap

LEMMA AdmitFits ==
  ASSUME turn \in I, NEW k \in 1 .. Names, NEW a, Fits(a, k - 1)
  PROVE  Fits(Admit(a, Order[k]), k)
<1> DEFINE i == Order[k]
           b == [names |-> Append(a.names, i), left |-> a.left - Minimum(i)]
<1>1. i \in I /\ \A l \in 1 .. k - 1 : Order[l] # i
  BY OrderGoesRound, AliasAssumption
<1> HIDE DEF i
<1>2. /\ a.names \in Seq(I) /\ a.left \in Nat /\ Len(a.names) \in Nat
      /\ \A p, q \in 1 .. Len(a.names) : a.names[p] = a.names[q] => p = q
      /\ \A p \in 1 .. Len(a.names) : \E l \in 1 .. k - 1 : a.names[p] = Order[l]
      /\ Cardinality(Slots(Costs, NamesOf(a))) + a.left = RequestCap
  BY DEF Fits
<1>3. CASE Minimum(i) > a.left
  <2>1. \A p \in 1 .. Len(a.names) : \E l \in 1 .. k : a.names[p] = Order[l]
    BY <1>2
  <2>2. Fits(a, k)
    BY <1>2, <2>1 DEF Fits
  <2> QED BY <1>3, <2>2 DEF Admit, i
<1>4. CASE ~(Minimum(i) > a.left)
  <2>1. Minimum(i) \in 1 .. 2 /\ Costs[i] = Minimum(i) /\ Costs[i] \in 1 .. RequestCap
    BY <1>1, CostsAreSmall
  <2>2. b.left \in Nat /\ b.left = a.left - Minimum(i)
    BY <1>2, <1>4, <2>1
  <2>3. b.names \in Seq(I) /\ b.names = Append(a.names, i) /\ Len(b.names) = Len(a.names) + 1
    BY <1>1, <1>2
  <2>4. /\ \A p \in 1 .. Len(a.names) : b.names[p] = a.names[p]
        /\ b.names[Len(a.names) + 1] = i
    BY <1>1, <1>2
  <2> HIDE DEF b
  <2>5. \A p \in 1 .. Len(b.names) : p \in 1 .. Len(a.names) \/ p = Len(a.names) + 1
    BY <1>2, <2>3
  <2>6. \A p \in 1 .. Len(a.names) : a.names[p] # i
    BY <1>1, <1>2
  <2>7. \A p, q \in 1 .. Len(b.names) : b.names[p] = b.names[q] => p = q
    BY <1>2, <2>4, <2>5, <2>6
  <2>8. \A p \in 1 .. Len(b.names) : \E l \in 1 .. k : b.names[p] = Order[l]
    <3> SUFFICES ASSUME NEW p \in 1 .. Len(b.names)
                 PROVE  \E l \in 1 .. k : b.names[p] = Order[l]
      OBVIOUS
    <3>1. CASE p = Len(a.names) + 1
      BY <2>4, <3>1 DEF i
    <3>2. CASE p \in 1 .. Len(a.names)
      BY <1>2, <2>4, <3>2
    <3> QED BY <2>5, <3>1, <3>2
  <2>9. NamesOf(b) \ {i} = NamesOf(a) /\ i \in NamesOf(b)
    <3>1. \A p \in 1 .. Len(a.names) : p \in 1 .. Len(b.names)
      BY <1>2, <2>3
    <3>2. Len(a.names) + 1 \in 1 .. Len(b.names)
      BY <1>2, <2>3
    <3> QED BY <2>4, <2>5, <2>6, <3>1, <3>2 DEF NamesOf
  <2>10. Cardinality(Slots(Costs, NamesOf(b)))
           = Cardinality(Slots(Costs, NamesOf(b) \ {i})) + Costs[i]
    BY <1>1, <2>1, <2>9, SlotsOfOne
  <2>11. Cardinality(Slots(Costs, NamesOf(a))) \in Nat
    BY SlotsFinite
  <2>12. Cardinality(Slots(Costs, NamesOf(b))) + b.left = RequestCap
    <3>1. Cardinality(Slots(Costs, NamesOf(b))) = Cardinality(Slots(Costs, NamesOf(a))) + Costs[i]
      BY <2>9, <2>10, Zenon
    <3>2. PICK min \in 1 .. 2 : min = Minimum(i)
      BY <2>1
    <3>3. Costs[i] = min /\ b.left = a.left - min
      BY <2>1, <2>2, <3>2
    <3> QED BY <1>2, <2>11, <3>1, <3>2, <3>3
  <2>13. Fits(b, k)
    BY <2>2, <2>3, <2>7, <2>8, <2>12 DEF Fits
  <2> QED BY <1>4, <2>13 DEF Admit, b, i
<1> QED BY <1>3, <1>4

LEMMA RoundsFit ==
  ASSUME turn \in I
  PROVE  \A k \in 0 .. Names : Fits(Round[k], k)
<1> DEFINE Bad == {k \in 0 .. Names : ~Fits(Round[k], k)}
<1> SUFFICES ASSUME Bad # {} PROVE FALSE
  OBVIOUS
<1>1. Bad \in SUBSET Nat
  BY AliasAssumption
<1>2. PICK k \in Bad : \A l \in Bad : k <= l
  BY <1>1, Least
<1>3. k \in 0 .. Names /\ ~Fits(Round[k], k)
  OBVIOUS
<1>4. CASE k = 0
  <2>1. Begun.names = <<>> /\ Begun.left = RequestCap /\ RequestCap \in Nat
    BY AliasAssumption DEF Begun
  <2>2. NamesOf(Begun) = {}
    BY <2>1 DEF NamesOf
  <2>3. Cardinality(Slots(Costs, {})) = 0
    BY NoneLeft
  <2>4. Fits(Begun, 0)
    BY <2>1, <2>2, <2>3 DEF Fits
  <2> QED BY <1>3, <1>4, <2>4, Rounds
<1>5. CASE k # 0
  <2>1. k \in 1 .. Names /\ k - 1 \in 0 .. Names /\ ~(k <= k - 1)
    BY <1>3, <1>5, AliasAssumption
  <2>2. Fits(Round[k - 1], k - 1)
    BY <1>2, <2>1
  <2>3. Round[k] = Admit(Round[k - 1], Order[k])
    BY <2>1, Rounds
  <2> HIDE DEF Bad
  <2>4. Fits(Round[k], k)
    BY <2>1, <2>2, <2>3, AdmitFits
  <2> QED BY <1>3, <2>4
<1> QED BY <1>4, <1>5

(* Numbers that differ in their quotient or their remainder differ.        *)
LEMMA Strides ==
  ASSUME NEW n \in Nat \ {0}, NEW e1 \in Nat, NEW e2 \in Nat, NEW k1 \in 1 .. n, NEW k2 \in 1 .. n,
         e1 * n + k1 = e2 * n + k2
  PROVE  e1 = e2 /\ k1 = k2
<1>1. ASSUME NEW a \in Nat, NEW b \in Nat, a < b
      PROVE  b * n >= a * n + n
  <2>1. PICK d \in Nat : b = a + 1 + d
    <3>1. b - a - 1 \in Nat /\ b = a + 1 + (b - a - 1)
      BY <1>1
    <3> QED BY <3>1
  <2>2. (a + 1 + d) * n = a * n + n + d * n
    OBVIOUS
  <2>3. d * n \in Nat /\ a * n \in Nat
    OBVIOUS
  <2> QED BY <2>1, <2>2, <2>3
<1>2. e1 * n \in Nat /\ e2 * n \in Nat
  OBVIOUS
<1>3. ~(e1 < e2)
  BY <1>1, <1>2
<1>4. ~(e2 < e1)
  BY <1>1, <1>2
<1>5. e1 = e2
  BY <1>3, <1>4
<1> QED BY <1>2, <1>5

LEMMA Division ==
  ASSUME NEW n \in Nat \ {0}, NEW m \in Nat
  PROVE  /\ m \div n \in Nat /\ m % n \in Nat
         /\ m = (m \div n) * n + (m % n) /\ m % n < n
OBVIOUS

(* A pair below the share of its place is among what is shared.            *)
LEMMA StridesFit ==
  ASSUME NEW n \in Nat \ {0}, NEW left \in Nat, NEW k \in 1 .. n, NEW e \in Nat,
         e < (left \div n) + (IF k <= left % n THEN 1 ELSE 0)
  PROVE  e * n + k \in 1 .. left
<1> DEFINE q == left \div n
           r == left % n
<1>1. q \in Nat /\ r \in Nat /\ left = q * n + r /\ r < n
  OBVIOUS
<1> HIDE DEF q, r
<1>2. e < q \/ (e = q /\ k <= r)
  BY <1>1 DEF q, r
<1>3. e * n \in Nat
  OBVIOUS
<1>4. CASE e = q /\ k <= r
  BY <1>1, <1>3, <1>4
<1>5. CASE e < q
  <2>1. PICK d \in Nat : q = e + 1 + d
    <3>1. q - e - 1 \in Nat /\ q = e + 1 + (q - e - 1)
      BY <1>1, <1>5
    <3> QED BY <3>1
  <2>2. (e + 1 + d) * n = e * n + n + d * n
    OBVIOUS
  <2>3. d * n \in Nat
    OBVIOUS
  <2> QED BY <1>1, <1>3, <2>1, <2>2, <2>3
<1> QED BY <1>2, <1>4, <1>5

(* What one place is given beyond its minimum.                             *)
Extra(a, k) == (a.left \div Len(a.names)) + (IF k <= a.left % Len(a.names) THEN 1 ELSE 0)

LEMMA ShareOf ==
  ASSUME NEW a, a.names \in Seq(I), a.left \in Nat,
         \A p, q \in 1 .. Len(a.names) : a.names[p] = a.names[q] => p = q
  PROVE  /\ DOMAIN Shares(a) = NamesOf(a)
         /\ \A k \in 1 .. Len(a.names) :
              Shares(a)[a.names[k]] = Minimum(a.names[k]) + Extra(a, k)
<1>1. Shares(a) = [i \in NamesOf(a) |->
                     Minimum(i) + Extra(a, CHOOSE k \in 1 .. Len(a.names) : a.names[k] = i)]
  BY DEF Shares, NamesOf, Extra
<1>2. ASSUME NEW k \in 1 .. Len(a.names)
      PROVE  (CHOOSE p \in 1 .. Len(a.names) : a.names[p] = a.names[k]) = k
  <2>1. \E p \in 1 .. Len(a.names) : a.names[p] = a.names[k]
    OBVIOUS
  <2> DEFINE c == CHOOSE p \in 1 .. Len(a.names) : a.names[p] = a.names[k]
  <2>2. c \in 1 .. Len(a.names) /\ a.names[c] = a.names[k]
    BY <2>1
  <2> HIDE DEF c
  <2>3. c = k
    BY <2>2
  <2> QED BY <2>3 DEF c
<1>3. \A k \in 1 .. Len(a.names) : a.names[k] \in NamesOf(a)
  BY DEF NamesOf
<1> QED BY <1>1, <1>2, <1>3

(* The shares of all names make up no more than the cap: what is shared    *)
(* beyond the minimums is dealt out in strides of the names admitted.      *)
LEMMA SharesFit ==
  ASSUME NEW k, NEW a, Fits(a, k)
  PROVE  /\ DOMAIN Shares(a) \subseteq I
         /\ \A i \in DOMAIN Shares(a) : Shares(a)[i] \in 1 .. RequestCap
         /\ Cardinality(Slots(Shares(a), DOMAIN Shares(a))) <= RequestCap
<1> DEFINE n == Len(a.names)
           R == NamesOf(a)
           base == Slots(Costs, R)
<1>1. /\ a.names \in Seq(I) /\ a.left \in Nat /\ n \in Nat /\ RequestCap \in Nat
      /\ \A p, q \in 1 .. n : a.names[p] = a.names[q] => p = q
      /\ Cardinality(base) + a.left = RequestCap
  BY AliasAssumption DEF Fits
<1>2. PICK cs : cs = Shares(a)
  OBVIOUS
<1>3. /\ DOMAIN cs = R
      /\ \A p \in 1 .. n : cs[a.names[p]] = Minimum(a.names[p]) + Extra(a, p)
  BY <1>1, <1>2, ShareOf
<1>4. R \subseteq I /\ \A i \in R : \E p \in 1 .. n : i = a.names[p]
  BY <1>1 DEF NamesOf
<1>5. IsFiniteSet(base) /\ Cardinality(base) \in Nat
  BY SlotsFinite
<1> HIDE DEF n
<1>6. PICK pos \in [R -> 1 .. n] : \A i \in R : a.names[pos[i]] = i
  <2> DEFINE f == [i \in R |-> CHOOSE p \in 1 .. n : i = a.names[p]]
  <2>1. \A i \in R : f[i] \in 1 .. n /\ a.names[f[i]] = i
    BY <1>4
  <2> QED BY <2>1
<1> HIDE DEF R, base
<1>7. ASSUME NEW i \in R
      PROVE  /\ Minimum(i) \in 1 .. 2 /\ Costs[i] = Minimum(i) /\ n # 0
             /\ cs[i] = Minimum(i) + Extra(a, pos[i])
             /\ Extra(a, pos[i]) = (a.left \div n) + (IF pos[i] <= a.left % n THEN 1 ELSE 0)
             /\ Extra(a, pos[i]) \in 0 .. a.left
  <2>1. pos[i] \in 1 .. n /\ a.names[pos[i]] = i
    BY <1>6
  <2>2. Minimum(i) \in 1 .. 2 /\ Costs[i] = Minimum(i)
    BY <1>4, CostsAreSmall
  <2>3. cs[i] = Minimum(i) + Extra(a, pos[i])
    BY <1>3, <2>1
  <2>4. n \in Nat \ {0}
    BY <1>1, <2>1
  <2>5. Extra(a, pos[i]) = (a.left \div n) + (IF pos[i] <= a.left % n THEN 1 ELSE 0)
    BY DEF Extra, n
  <2>6. PICK q, r \in Nat : q = a.left \div n /\ r = a.left % n /\ a.left = q * n + r
    <3>1. /\ a.left \div n \in Nat /\ a.left % n \in Nat
          /\ a.left = (a.left \div n) * n + (a.left % n)
      BY <1>1, <2>4, Division
    <3> QED BY <3>1
  <2>7. q * n >= q
    <3>1. PICK d \in Nat : n = 1 + d
      <4>1. n - 1 \in Nat /\ n = 1 + (n - 1)
        BY <2>4
      <4> QED BY <4>1
    <3>2. q * (1 + d) = q + q * d /\ q * d \in Nat
      OBVIOUS
    <3> QED BY <3>1, <3>2
  <2>8. q * n \in Nat
    BY <2>4
  <2>9. Extra(a, pos[i]) = q + (IF pos[i] <= r THEN 1 ELSE 0)
    BY <2>5, <2>6
  <2>10. Extra(a, pos[i]) \in 0 .. a.left
    <3>1. PICK w \in Nat, p \in Nat \ {0} : w = q * n /\ p = pos[i]
      <4>1. q * n \in Nat /\ pos[i] \in Nat \ {0}
        BY <2>1, <2>4, <2>8
      <4> QED BY <4>1, Zenon
    <3>2. a.left = w + r /\ w >= q /\ Extra(a, pos[i]) = q + (IF p <= r THEN 1 ELSE 0)
      BY <2>6, <2>7, <2>9, <3>1
    <3> QED BY <3>1, <3>2
  <2> QED BY <2>2, <2>3, <2>4, <2>5, <2>10
<1>8. ASSUME NEW i \in R
      PROVE  cs[i] \in 1 .. RequestCap
  <2>1. Costs[i] \in 1 .. RequestCap /\ i \in I
    BY <1>4, CostsAreSmall
  <2>2. Cardinality(Slots(Costs, R)) = Cardinality(Slots(Costs, R \ {i})) + Costs[i]
    BY <2>1, SlotsOfOne
  <2>3. Cardinality(Slots(Costs, R \ {i})) \in Nat
    BY SlotsFinite
  <2>4. PICK min \in 1 .. 2, more \in 0 .. a.left :
          min = Minimum(i) /\ more = Extra(a, pos[i])
    BY <1>7
  <2>5. Costs[i] = min /\ cs[i] = min + more
    BY <1>7, <2>4
  <2>6. Cardinality(Slots(Costs, R)) >= min
    BY <2>2, <2>3, <2>4, <2>5
  <2>7. Cardinality(Slots(Costs, R)) + a.left = RequestCap
    BY <1>1 DEF base
  <2>8. Cardinality(Slots(Costs, R)) \in Nat
    BY SlotsFinite
  <2> QED BY <1>1, <2>4, <2>5, <2>6, <2>7, <2>8
<1> DEFINE all == Slots(cs, R)
           more == all \ base
           g == [x \in more |-> (x[2] - Minimum(x[1]) - 1) * n + pos[x[1]]]
<1>9. ASSUME NEW x \in more
      PROVE  /\ x = <<x[1], x[2]>> /\ x[1] \in R /\ pos[x[1]] \in 1 .. n
             /\ x[2] - Minimum(x[1]) - 1 \in Nat
             /\ x[2] - Minimum(x[1]) - 1 < Extra(a, pos[x[1]])
  <2>1. x \in I \X (1 .. RequestCap) /\ x[1] \in R /\ x[2] <= cs[x[1]]
    BY DEF Slots
  <2>2. ~(x[2] <= Costs[x[1]])
    BY <2>1 DEF base, Slots
  <2>3. PICK min \in 1 .. 2, extra \in 0 .. a.left :
          min = Minimum(x[1]) /\ extra = Extra(a, pos[x[1]])
    BY <1>7, <2>1
  <2>4. Costs[x[1]] = min /\ cs[x[1]] = min + extra
    BY <1>7, <2>1, <2>3
  <2>5. x[2] \in Nat
    BY <2>1, <1>1
  <2>6. x[2] - min - 1 \in Nat /\ x[2] - min - 1 < extra
    BY <1>1, <2>1, <2>2, <2>4, <2>5
  <2> QED BY <1>6, <2>1, <2>3, <2>6
<1>10. ASSUME NEW x \in more
       PROVE  g[x] \in 1 .. a.left
  <2>1. n \in Nat \ {0}
    BY <1>1, <1>7, <1>9
  <2>2. PICK e \in Nat : e = x[2] - Minimum(x[1]) - 1
    BY <1>9
  <2>3. e < (a.left \div n) + (IF pos[x[1]] <= a.left % n THEN 1 ELSE 0)
    BY <1>7, <1>9, <2>2
  <2>4. e * n + pos[x[1]] \in 1 .. a.left
    BY <1>1, <1>9, <2>1, <2>3, StridesFit
  <2> QED BY <2>2, <2>4
<1>11. ASSUME NEW x \in more, NEW y \in more, g[x] = g[y]
       PROVE  x = y
  <2>1. n \in Nat \ {0}
    BY <1>1, <1>7, <1>9
  <2>2. PICK e1, e2 \in Nat : e1 = x[2] - Minimum(x[1]) - 1 /\ e2 = y[2] - Minimum(y[1]) - 1
    BY <1>9
  <2>3. e1 * n + pos[x[1]] = e2 * n + pos[y[1]]
    BY <1>11, <2>2
  <2>4. e1 = e2 /\ pos[x[1]] = pos[y[1]]
    BY <1>9, <2>1, <2>3, Strides
  <2>5. x[1] = y[1]
    BY <1>6, <1>9, <2>4
  <2>6. x \in I \X (1 .. RequestCap) /\ y \in I \X (1 .. RequestCap)
    BY DEF Slots
  <2>7. Minimum(x[1]) \in 1 .. 2
    BY <1>7, <1>9
  <2>8. x[2] = y[2]
    BY <1>1, <2>2, <2>4, <2>5, <2>6, <2>7
  <2> QED BY <1>9, <2>5, <2>8
<1>12. IsFiniteSet(all) /\ Cardinality(all) \in Nat
  BY SlotsFinite
<1> HIDE DEF all
<1>13. g \in Injection(more, 1 .. a.left)
  <2>1. g \in [more -> 1 .. a.left]
    BY <1>10
  <2>2. \A x, y \in more : g[x] = g[y] => x = y
    BY <1>11
  <2> HIDE DEF g, more
  <2> QED BY <2>1, <2>2 DEF Injection, IsInjective
<1> HIDE DEF g
<1>14. IsFiniteSet(1 .. a.left) /\ Cardinality(1 .. a.left) = a.left
  <2>1. PICK left \in Nat : left = a.left
    BY <1>1
  <2>2. Cardinality(1 .. left) = (IF 1 > left THEN 0 ELSE left - 1 + 1) /\ IsFiniteSet(1 .. left)
    BY FS_Interval
  <2> QED BY <2>1, <2>2
<1>15. IsFiniteSet(more) /\ Cardinality(more) <= a.left
  <2> HIDE DEF more
  <2> QED BY <1>13, <1>14, FS_Injection
<1>16. Cardinality(all) <= Cardinality(base) + a.left
  <2>1. Cardinality(base \cup more)
          = Cardinality(base) + Cardinality(more) - Cardinality(base \cap more)
    BY <1>5, <1>15, FS_Union
  <2>2. IsFiniteSet(base \cup more)
    BY <1>5, <1>15, FS_Union
  <2>3. all \in SUBSET (base \cup more)
    OBVIOUS
  <2>4. Cardinality(all) <= Cardinality(base \cup more)
    BY <2>2, <2>3, FS_Subset
  <2>5. base \cap more = {}
    OBVIOUS
  <2>6. Cardinality(more) \in Nat /\ Cardinality(base \cap more) = 0
    BY <1>15, <2>5, FS_CardinalityType, FS_EmptySet
  <2> HIDE DEF more
  <2> QED BY <1>1, <1>5, <1>12, <1>15, <2>1, <2>4, <2>6
<1>17. Cardinality(Slots(cs, DOMAIN cs)) <= RequestCap
  BY <1>1, <1>3, <1>16 DEF all
<1> QED BY <1>2, <1>3, <1>4, <1>8, <1>17

LEMMA FullKeeps ==
  ASSUME IInv, Full
  PROVE  IInv'
<1>1. Starts("full", Shares(Admitted))
  BY DEF Full
<1>2. turn \in I /\ Names \in 0 .. Names
  BY AliasAssumption DEF IInv, Typed
<1>3. Fits(Admitted, Names)
  BY <1>2, RoundsFit DEF Admitted
<1>4. /\ DOMAIN Shares(Admitted) \subseteq I
      /\ \A i \in DOMAIN Shares(Admitted) : Shares(Admitted)[i] \in 1 .. RequestCap
      /\ Cardinality(Slots(Shares(Admitted), DOMAIN Shares(Admitted))) <= RequestCap
  BY <1>3, SharesFit
<1>5. PICK kind \in {"full", "light"} : kind = "full"
  OBVIOUS
<1>6. PICK cs : cs = Shares(Admitted)
  OBVIOUS
<1>7. Starts(kind, cs)
  BY <1>1, <1>5, <1>6
<1> QED BY <1>4, <1>5, <1>6, <1>7, StartKeeps

-----------------------------------------------------------------------------
LEMMA InitIInv == Init => IInv
<1> SUFFICES ASSUME Init PROVE IInv
  OBVIOUS
<1>1. /\ size \in [I -> 1 .. Reports] /\ resume = [i \in I |-> NoMark] /\ turn = 0
      /\ stored = {} /\ stage = "idle" /\ caps = <<>> /\ todo = {} /\ next = resume
      /\ found = {} /\ limited = FALSE /\ spent = 0
  BY DEF Init
<1>2. NoMark \in Marks /\ \A i \in I : MarkHeld(NoMark, i)
  BY DEF NoMark, Marks, MarkHeld
<1>3. size \in [I -> Nat] /\ DOMAIN caps = {}
  BY <1>1, AliasAssumption
<1>4. Typed
  BY <1>1, <1>2, <1>3, NamesFinite DEF Typed
<1>5. Reading
  BY <1>1, <1>2 DEF Reading, MarksHeld, ReadSoFar, Whole, LightIsCurrent
<1>6. Paid
  BY <1>1, NoneLeft, AliasAssumption DEF Paid
<1> QED BY <1>4, <1>5, <1>6 DEF IInv

LEMMA NextIInv ==
  ASSUME IInv, [Next]_vars
  PROVE  IInv' /\ stored \subseteq stored'
<1>1. ASSUME NEW i \in I, Scan(i) PROVE IInv' /\ stored \subseteq stored'
  BY <1>1, ScanKeeps DEF Scan
<1>2. ASSUME NEW i \in I, ScanFails(i) PROVE IInv' /\ stored \subseteq stored'
  BY <1>2, ScanFailsKeeps DEF ScanFails
<1>3. ASSUME NEW i \in I, Upload(i) PROVE IInv' /\ stored \subseteq stored'
  BY <1>3, UploadKeeps DEF Upload
<1>4. CASE Full
  BY <1>4, FullKeeps DEF Full, Starts
<1>5. CASE Light
  BY <1>5, LightKeeps DEF Light, Starts
<1>6. CASE Publish
  BY <1>6, PublishKeeps
<1>7. CASE Crash
  BY <1>7, CrashKeeps DEF Crash
<1>8. CASE UNCHANGED vars
  <2>1. UNCHANGED <<size, resume, turn, stored, stage, caps, todo, next, found, limited, spent>>
    BY <1>8 DEF vars, run
  <2>2. Typed' /\ Reading' /\ Paid'
    BY <2>1 DEF IInv, Typed, Reading, MarksHeld, MarkHeld, ReadSoFar, Known, Whole,
                LightIsCurrent, Paid, Slots
  <2> QED BY <2>1, <2>2 DEF IInv
<1> QED BY <1>1, <1>2, <1>3, <1>4, <1>5, <1>6, <1>7, <1>8 DEF Next, Runs

(* A run stays within its cap of history requests, for any number of names *)
(* and whatever their bookmarks cost to prove: the historyCaps of          *)
(* applicant-evidence-job-handler.ts and the scans they bound.             *)
THEOREM CapIsAlwaysShared == Spec => []CapIsShared
<1>1. IInv /\ [Next]_vars => IInv'
  BY NextIInv
<1> QED BY <1>1, InitIInv, WithinCap, PTL DEF Spec

(* No run drops a report that is stored: a run that did not read a name,   *)
(* or not all of it, keeps what was stored, and one that replaces it has   *)
(* found it again, though reports are uploaded while it reads.             *)
THEOREM NoNameIsEverDropped == Spec => NoNameIsDropped
<1>1. IInv /\ [Next]_vars => IInv'
  BY NextIInv
<1>2. IInv /\ [Next]_vars => [stored \subseteq stored']_vars
  BY NextIInv
<1> QED BY <1>1, <1>2, InitIInv, PTL DEF Spec, NoNameIsDropped

===============================================================================
