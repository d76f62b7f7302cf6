-------------------------- MODULE EdsRecordsProofs --------------------------
(***************************************************************************)
(* Proofs about EdsRecords, for any categories, settings, changes by users  *)
(* and bound: the types, what the tables of categories keep apart, and for  *)
(* events, tasks and memos that a record survives its way there and back.   *)
(***************************************************************************)
EXTENDS EdsRecords, FiniteSetTheorems, SequenceTheorems, WellFoundedInduction, TLAPS

(* A nonempty set of numbers has a least one. *)
LEMMA MinIsIn ==
  ASSUME NEW S \in SUBSET Nat, S # {}
  PROVE  Min(S) \in S /\ \A m \in S : Min(S) <= m
<1>1. PICK x \in S : \A y \in S : x <= y
  <2> DEFINE less == {ss \in Nat \X Nat : ss[1] < ss[2]}
  <2>1. IsWellFoundedOn(less, Nat)
    BY NatLessThanWellFounded, Zenon DEF OpToRel
  <2>2. \A m, n \in Nat : m < n => <<m, n>> \in less
    OBVIOUS
  <2> HIDE DEF less
  <2>3. PICK x \in S : \A y \in S : ~ (<<y, x>> \in less)
    BY <2>1, WFMin
  <2>4. \A y \in S : ~ (y < x)
    BY <2>2, <2>3
  <2>5. \A y \in S : x <= y
    BY <2>4
  <2> QED BY <2>5
<1>2. \E y \in S : \A m \in S : y =< m
  BY <1>1
<1>3. Min(S) = CHOOSE y \in S : \A m \in S : y =< m
  BY Zenon DEF Min
<1> QED BY <1>2, <1>3

(* The only element of a set is the one that is chosen. *)
LEMMA OnlyChoice ==
  ASSUME NEW x
  PROVE  (CHOOSE d \in {x} : TRUE) = x
OBVIOUS

---------------------------------------------------------------------------
(* Sequences.                                                               *)

LEMMA RemoveAtType ==
  ASSUME NEW S, NEW s \in Seq(S), NEW i \in 1 .. Len(s)
  PROVE  RemoveAt(s, i) \in Seq(S)
<1>1. \A j \in 1 .. Len(s) : s[j] \in S
  BY ElementOfSeq
<1>2. Len(s) \in Nat
  BY LenProperties
<1>3. SubSeq(s, 1, i - 1) \in Seq(S)
  BY <1>1, <1>2, SubSeqProperties
<1>4. SubSeq(s, i + 1, Len(s)) \in Seq(S)
  BY <1>1, <1>2, SubSeqProperties
<1> QED BY <1>3, <1>4, ConcatProperties, Zenon DEF RemoveAt

LEMMA ToFrontType ==
  ASSUME NEW S, NEW n \in S, NEW list \in Seq(S)
  PROVE  ToFront(n, list) \in Seq(S)
<1> DEFINE at == {k \in DOMAIN list : list[k] = n}
<1>1. <<n>> \in Seq(S)
  OBVIOUS
<1>2. at # {} => RemoveAt(list, Min(at)) \in Seq(S)
  <2>1. at \subseteq 1 .. Len(list) /\ Len(list) \in Nat
    BY LenProperties
  <2>2. ASSUME at # {} PROVE Min(at) \in 1 .. Len(list)
    <3>1. at \in SUBSET Nat
      BY <2>1
    <3> HIDE DEF at
    <3> QED BY <2>1, <2>2, <3>1, MinIsIn
  <2> HIDE DEF at
  <2> QED BY <2>2, RemoveAtType
<1>3. (IF at = {} THEN list ELSE RemoveAt(list, Min(at))) \in Seq(S)
  BY <1>2
<1>4. ToFront(n, list) = <<n>> \o (IF at = {} THEN list ELSE RemoveAt(list, Min(at)))
  BY Zenon DEF ToFront
<1> HIDE DEF at
<1> QED BY <1>1, <1>3, <1>4, ConcatProperties

LEMMA ReverseFacts ==
  ASSUME NEW S, NEW s \in Seq(S)
  PROVE  /\ Reverse(s) \in Seq(S)
         /\ ToSet(Reverse(s)) = ToSet(s)
         /\ Reverse(Reverse(s)) = s
<1>1. Len(s) \in Nat /\ DOMAIN s = 1 .. Len(s)
  BY LenProperties
<1>2. \A i \in 1 .. Len(s) : s[i] \in S
  BY ElementOfSeq
<1>3. Reverse(s) \in Seq(S) /\ Len(Reverse(s)) = Len(s)
  BY <1>1, <1>2 DEF Reverse
<1>4. \A i \in 1 .. Len(s) : Reverse(s)[i] = s[(Len(s) - i) + 1]
  BY <1>1 DEF Reverse
<1>5. DOMAIN Reverse(s) = 1 .. Len(s)
  BY <1>3, LenProperties
<1>6. ToSet(Reverse(s)) = ToSet(s)
  <2>1. ASSUME NEW i \in 1 .. Len(s) PROVE \E j \in 1 .. Len(s) : Reverse(s)[j] = s[i]
    <3>1. (Len(s) - i) + 1 \in 1 .. Len(s) /\ (Len(s) - ((Len(s) - i) + 1)) + 1 = i
      BY <1>1
    <3> QED BY <1>4, <3>1
  <2>2. ASSUME NEW i \in 1 .. Len(s) PROVE \E j \in 1 .. Len(s) : s[j] = Reverse(s)[i]
    <3>1. (Len(s) - i) + 1 \in 1 .. Len(s)
      BY <1>1
    <3> QED BY <1>4, <3>1
  <2>3. ToSet(s) = {s[i] : i \in 1 .. Len(s)}
    BY <1>1 DEF ToSet
  <2>4. ToSet(Reverse(s)) = {Reverse(s)[i] : i \in 1 .. Len(s)}
    BY <1>5 DEF ToSet
  <2>5. ASSUME NEW x PROVE x \in ToSet(s) <=> x \in ToSet(Reverse(s))
    BY <2>1, <2>2, <2>3, <2>4, Zenon
  <2> QED BY <2>5
<1>7. Reverse(Reverse(s)) = s
  <2>1. Reverse(Reverse(s)) \in Seq(S) /\ Len(Reverse(Reverse(s))) = Len(s)
    <3>1. \A i \in 1 .. Len(s) : Reverse(s)[(Len(s) - i) + 1] \in S
      BY <1>1, <1>3, ElementOfSeq
    <3> QED BY <1>1, <1>3, <3>1 DEF Reverse
  <2>2. ASSUME NEW i \in 1 .. Len(s) PROVE Reverse(Reverse(s))[i] = s[i]
    <3>1. (Len(s) - i) + 1 \in 1 .. Len(s) /\ (Len(s) - ((Len(s) - i) + 1)) + 1 = i
      BY <1>1
    <3>2. Reverse(Reverse(s))[i] = Reverse(s)[(Len(s) - i) + 1]
      BY <1>1, <1>3 DEF Reverse
    <3> QED BY <1>4, <3>1, <3>2
  <2> QED BY <2>1, <2>2, SeqEqual
<1> QED BY <1>3, <1>6, <1>7

---------------------------------------------------------------------------
(* Categories.                                                              *)

(* What the invariant says of the table: slot 0 is "Unfiled", with id 0; the*)
(* others have names of the desktop's, or are free.                         *)
TableOK ==
  /\ slot \in Slot /\ table \in Table
  /\ table.names[0] = "Unfiled" /\ table.ids[0] = 0
  /\ \A i \in Slot \ {0} : table.names[i] \in Names \cup {""}
  /\ slot = 0 \/ table.names[slot] \in Names

(* The same of a table and a slot that a conversion gives.                  *)
Proper(t, i) ==
  /\ i \in Slot /\ t \in Table
  /\ t.names[0] = "Unfiled" /\ t.ids[0] = 0
  /\ \A j \in Slot \ {0} : t.names[j] \in Names \cup {""}
  /\ i = 0 \/ t.names[i] \in Names

Distinct(k, t) ==
  \A i, j \in Slot \ Free(t) : i # j =>
    /\ t.names[i] = t.names[j] =>
         t.names[i] = "Unfiled" \/ (k # "contact" /\ t.names[i] \in CutOff)
    /\ k = "contact" => t.ids[i] # t.ids[j]

LEMMA DistinctIs == CategoriesDistinct <=> Distinct(kind, table)
BY DEF CategoriesDistinct, Distinct

LEMMA TableFields ==
  ASSUME NEW t \in Table
  PROVE  /\ t.names \in [Slot -> Names \cup {"", "Unfiled"}]
         /\ t.ids \in [Slot -> 0 .. 255]
BY DEF Table

LEMMA SlotFacts ==
  /\ Slot \subseteq Nat /\ 0 \in Slot
  /\ IsFiniteSet(Slot) /\ Cardinality(Slot) = Slots /\ Slots <= 16
<1>1. Slots \in Nat /\ 2 <= Slots /\ Slots <= 16
  BY SlotsAssumption
<1>2. Slots - 1 \in Nat
  BY <1>1
<1>3. IsFiniteSet(0 .. Slots - 1) /\ Cardinality(0 .. Slots - 1) = (Slots - 1) - 0 + 1
  <2>1. 0 <= Slots - 1
    BY <1>1
  <2> QED BY <1>2, <2>1, FS_Interval
<1> QED BY <1>1, <1>2, <1>3 DEF Slot

(* The free slot that is taken is not slot 0.                               *)
LEMMA FreeSlot ==
  ASSUME NEW t \in Table, NEW i, Proper(t, i), Free(t) # {}
  PROVE  Min(Free(t)) \in Free(t) /\ Min(Free(t)) \in Slot \ {0}
<1>1. Free(t) \in SUBSET Nat /\ Free(t) \subseteq Slot
  BY SlotFacts DEF Free
<1>2. 0 \notin Free(t)
  BY DEF Free, Proper
<1>3. Min(Free(t)) \in Free(t)
  BY <1>1, MinIsIn
<1> QED BY <1>1, <1>2, <1>3

(* More things than places: two share one.                                  *)
Shares(f, S) == \E x, y \in S : x # y /\ f[x] = f[y]

LEMMA PigeonHole ==
  ASSUME NEW S, NEW T, NEW f \in [S -> T], IsFiniteSet(S), IsFiniteSet(T),
         Cardinality(T) < Cardinality(S)
  PROVE  Shares(f, S)
<1>1. \E x, y \in S : x # y /\ f[x] = f[y]
  BY FS_PigeonHole
<1> QED BY <1>1 DEF Shares

(* There are more ids than slots: an unused one is found.                   *)
LEMMA UnusedIdFacts ==
  ASSUME NEW t \in Table
  PROVE  UnusedId(t) \in 128 .. 255 /\ \A i \in Slot : t.ids[i] # UnusedId(t)
<1> DEFINE used == {t.ids[i] : i \in Slot}
           unused == (128 .. 255) \ used
<1>1. IsFiniteSet(128 .. 255) /\ Cardinality(128 .. 255) = 128
  <2>1. 128 \in Int /\ 255 \in Int
    OBVIOUS
  <2>2. /\ IsFiniteSet(128 .. 255)
        /\ Cardinality(128 .. 255) = IF 128 > 255 THEN 0 ELSE 255 - 128 + 1
    BY <2>1, FS_Interval, Zenon
  <2> QED BY <2>2
<1>2. unused # {}
  <2>1. SUFFICES ASSUME unused = {} PROVE FALSE
    OBVIOUS
  <2> DEFINE g == [x \in 128 .. 255 |-> CHOOSE i \in Slot : t.ids[i] = x]
  <2>2. ASSUME NEW x \in 128 .. 255 PROVE g[x] \in Slot /\ t.ids[g[x]] = x
    <3>1. \E i \in Slot : t.ids[i] = x
      BY <2>1
    <3> QED BY <3>1
  <2>3. PICK f \in [128 .. 255 -> Slot] : f = g
    BY <2>2
  <2> HIDE DEF g
  <2>4. Cardinality(Slot) < Cardinality(128 .. 255)
    BY <1>1, SlotFacts, SlotsAssumption
  <2>5. IsFiniteSet(128 .. 255) /\ IsFiniteSet(Slot)
    BY <1>1, SlotFacts, Zenon
  <2>6. \A x \in 128 .. 255 : t.ids[f[x]] = x
    BY <2>2, <2>3
  <2>7. Shares(f, 128 .. 255)
    BY <2>4, <2>5, PigeonHole
  <2>8. PICK x, y \in 128 .. 255 : x # y /\ f[x] = f[y]
    BY <2>7 DEF Shares
  <2> QED BY <2>6, <2>8
<1>3. unused \in SUBSET Nat
  OBVIOUS
<1>4. UnusedId(t) = Min(unused)
  BY Zenon DEF UnusedId
<1> HIDE DEF unused
<1>5. UnusedId(t) \in unused
  BY <1>2, <1>3, <1>4, MinIsIn
<1> QED BY <1>5 DEF unused

(* A name that is added takes a free slot, with an id; nothing else changes.*)
Grown(t, name, id, new, s) ==
  /\ s \in Free(t) /\ s # 0
  /\ new.names = [t.names EXCEPT ![s] = Stem[name]]
  /\ new.ids = [t.ids EXCEPT ![s] = id]
  /\ Proper(new, s)

LEMMA AddedGives ==
  ASSUME NEW t \in Table, NEW i, Proper(t, i), NEW name \in Names, NEW id \in 1 .. 255,
         Free(t) # {}
  PROVE  Grown(t, name, id, Added(t, name, id).table, Added(t, name, id).slot)
<1> PICK new : new = Added(t, name, id).table
  OBVIOUS
<1> PICK s : s = Added(t, name, id).slot
  OBVIOUS
<1>1. s = Min(Free(t)) /\ s \in Free(t) /\ s \in Slot \ {0}
  BY FreeSlot DEF Added
<1>2. new = [names |-> [t.names EXCEPT ![s] = Stem[name]], ids |-> [t.ids EXCEPT ![s] = id]]
  BY <1>1 DEF Added, Named
<1>3. Stem[name] \in Names
  BY StemAssumption
<1>4. t.names \in [Slot -> Names \cup {"", "Unfiled"}] /\ t.ids \in [Slot -> 0 .. 255]
  BY TableFields
<1>5. new.names = [t.names EXCEPT ![s] = Stem[name]] /\ new.ids = [t.ids EXCEPT ![s] = id]
  BY <1>2
<1>6. new \in Table
  <2>1. new.names \in [Slot -> Names \cup {"", "Unfiled"}]
    <3> PICK names : names = t.names
      OBVIOUS
    <3> PICK stem \in Names \cup {"", "Unfiled"} : stem = Stem[name]
      BY <1>3
    <3>1. names \in [Slot -> Names \cup {"", "Unfiled"}]
      BY <1>4
    <3>2. [names EXCEPT ![s] = stem] \in [Slot -> Names \cup {"", "Unfiled"}]
      BY <3>1
    <3> QED BY <1>5, <3>2
  <2>2. new.ids \in [Slot -> 0 .. 255]
    <3> PICK ids : ids = t.ids
      OBVIOUS
    <3>1. id \in 0 .. 255
      OBVIOUS
    <3>2. ids \in [Slot -> 0 .. 255]
      BY <1>4
    <3>3. [ids EXCEPT ![s] = id] \in [Slot -> 0 .. 255]
      BY <3>1, <3>2
    <3> QED BY <1>5, <3>3
  <2> QED BY <1>2, <1>5, <2>1, <2>2 DEF Table
<1>7. Proper(new, s)
  <2>1. new.names[0] = "Unfiled" /\ new.ids[0] = 0
    BY <1>1, <1>4, <1>5, SlotFacts DEF Proper
  <2>2. \A j \in Slot \ {0} : new.names[j] \in Names \cup {""}
    BY <1>1, <1>3, <1>4, <1>5 DEF Proper
  <2>3. new.names[s] \in Names
    BY <1>1, <1>3, <1>4, <1>5
  <2> QED BY <1>1, <1>6, <2>1, <2>2, <2>3 DEF Proper
<1>8. Grown(t, name, id, new, s)
  BY <1>1, <1>5, <1>7 DEF Grown
<1> QED BY <1>8, Zenon

(* An object with categories is in slot 0 of the same table if there is no  *)
(* room for its name.                                                       *)
LEMMA NoRoom ==
  ASSUME NEW t, NEW name, NEW id, Free(t) = {}
  PROVE  Added(t, name, id) = [slot |-> 0, table |-> t]
BY DEF Added

(* What a name that is added adds to is kept distinct: by its name, if no   *)
(* other slot than 0 has it, or it was cut off; and by its id.              *)
LEMMA AddedDistinct ==
  ASSUME NEW t \in Table, NEW i, Proper(t, i), NEW name \in Names, NEW id \in 1 .. 255,
         NEW k, Distinct(k, t), Free(t) # {},
         \/ Stem[name] = "Unfiled"
         \/ \A j \in Slot \ {0} : t.names[j] # Stem[name]
         \/ k # "contact" /\ Stem[name] \in CutOff,
         k = "contact" => \A j \in Slot : t.ids[j] # id
  PROVE  Distinct(k, Added(t, name, id).table)
<1> PICK new : new = Added(t, name, id).table
  OBVIOUS
<1> PICK s : s = Added(t, name, id).slot
  OBVIOUS
<1>1. /\ s \in Free(t) /\ s # 0
      /\ new.names = [t.names EXCEPT ![s] = Stem[name]]
      /\ new.ids = [t.ids EXCEPT ![s] = id]
  <2>1. Grown(t, name, id, new, s)
    BY AddedGives
  <2> QED BY <2>1 DEF Grown
<1>2. t.names \in [Slot -> Names \cup {"", "Unfiled"}] /\ t.ids \in [Slot -> 0 .. 255]
  BY TableFields
<1>3. t.names[0] = "Unfiled"
  BY DEF Proper
<1> SUFFICES ASSUME NEW a \in Slot \ Free(new), NEW b \in Slot \ Free(new), a # b
    PROVE  /\ new.names[a] = new.names[b] =>
                new.names[a] = "Unfiled" \/ (k # "contact" /\ new.names[a] \in CutOff)
           /\ k = "contact" => new.ids[a] # new.ids[b]
  BY Zenon DEF Distinct
<1>4. \A j \in Slot : j # s => new.names[j] = t.names[j] /\ new.ids[j] = t.ids[j]
  BY <1>1, <1>2
<1>5. s \in Slot /\ new.names[s] = Stem[name] /\ new.ids[s] = id
  BY <1>1, <1>2 DEF Free
<1>6. CASE a # s /\ b # s
  <2>1. a \in Slot \ Free(t) /\ b \in Slot \ Free(t)
    BY <1>4, <1>6 DEF Free
  <2>2. /\ t.names[a] = t.names[b] =>
             t.names[a] = "Unfiled" \/ (k # "contact" /\ t.names[a] \in CutOff)
        /\ k = "contact" => t.ids[a] # t.ids[b]
    BY <1>6, <2>1, Zenon DEF Distinct
  <2>3. new.names[a] = t.names[a] /\ new.names[b] = t.names[b] /\ new.ids[a] = t.ids[a] /\ new.ids[b] = t.ids[b]
    BY <1>4, <1>6
  <2> QED BY <2>2, <2>3
<1>7. CASE a = s \/ b = s
  <2>1. PICK c \in Slot : {a, b} = {s, c} /\ c # s
    BY <1>5, <1>7
  <2>2. new.names[c] = t.names[c] /\ new.ids[c] = t.ids[c]
    BY <1>4, <2>1
  <2>3. t.names[c] = Stem[name] =>
          Stem[name] = "Unfiled" \/ (k # "contact" /\ Stem[name] \in CutOff)
    BY <1>3
  <2>4. k = "contact" => t.ids[c] # id
    OBVIOUS
  <2>5. (a = s /\ b = c) \/ (a = c /\ b = s)
    BY <2>1
  <2> QED BY <1>5, <2>2, <2>3, <2>4, <2>5
<1> QED BY <1>6, <1>7

(* What becomes of the table when an object is sent, and of its category.   *)
SlotsOf(t, name) == {i \in Slot : t.names[i] = name}

LEMMA SlotsOfLeast ==
  ASSUME NEW t, NEW name, SlotsOf(t, name) # {}
  PROVE  Min(SlotsOf(t, name)) \in Slot /\ t.names[Min(SlotsOf(t, name))] = name
<1>1. SlotsOf(t, name) \in SUBSET Nat
  BY SlotFacts DEF SlotsOf
<1>2. Min(SlotsOf(t, name)) \in SlotsOf(t, name)
  BY <1>1, MinIsIn
<1> QED BY <1>2 DEF SlotsOf

LEMMA CommonIdType ==
  ASSUME NEW t
  PROVE  CommonId(t) \in 1 .. 255
BY DEF CommonId

LEMMA CommonKeeps ==
  ASSUME NEW t \in Table, NEW i, Proper(t, i), NEW list \in Seq(Names),
         NEW k, k # "contact", Distinct(k, t)
  PROVE  /\ Proper(CommonToPda(list, t).table, CommonToPda(list, t).slot)
         /\ Distinct(k, CommonToPda(list, t).table)
<1> DEFINE found == {j \in Slot \ {0} : t.names[j] = Head(list)}
<1>1. Proper(t, 0)
  BY SlotFacts DEF Proper
<1>2. CASE list = <<>>
  <2>1. CommonToPda(list, t) = [slot |-> 0, table |-> t]
    BY <1>2 DEF CommonToPda
  <2> QED BY <1>1, <2>1
<1>3. CASE list # <<>> /\ found # {}
  <2>1. found \in SUBSET Nat
    BY SlotFacts
  <2>2. Head(list) \in Names
    BY <1>3
  <2>3. CommonToPda(list, t) = [slot |-> Min(found), table |-> t]
    BY <1>3, Zenon DEF CommonToPda
  <2>4. Min(found) \in found
    <3> HIDE DEF found
    <3> QED BY <1>3, <2>1, MinIsIn
  <2>5. Min(found) \in Slot \ {0} /\ t.names[Min(found)] \in Names
    BY <2>2, <2>4
  <2> HIDE DEF found
  <2>6. Proper(t, Min(found))
    BY <2>5 DEF Proper
  <2>7. CommonToPda(list, t).slot = Min(found) /\ CommonToPda(list, t).table = t
    BY <2>3
  <2> QED BY <2>6, <2>7
<1>4. CASE list # <<>> /\ found = {}
  <2> DEFINE id == CommonId(t)
             name == Head(list)
  <2>1. name \in Names /\ id \in 1 .. 255
    BY <1>4, CommonIdType
  <2>2. CommonToPda(list, t) = Added(t, name, id)
    BY <1>4, Zenon DEF CommonToPda
  <2>3. \A j \in Slot \ {0} : t.names[j] # name
    BY <1>4
  <2> HIDE DEF id, name
  <2>4. CASE Free(t) = {}
    <3>1. Added(t, name, id).table = t /\ Added(t, name, id).slot = 0
      BY <2>4, NoRoom
    <3> QED BY <1>1, <2>2, <3>1
  <2>5. CASE Free(t) # {}
    <3>1. Proper(Added(t, name, id).table, Added(t, name, id).slot)
      BY <2>1, <2>5, AddedGives DEF Grown
    <3>2. \/ \A j \in Slot \ {0} : t.names[j] # Stem[name]
          \/ k # "contact" /\ Stem[name] \in CutOff
      BY <2>1, <2>3 DEF CutOff
    <3>3. Distinct(k, Added(t, name, id).table)
      BY <2>1, <2>5, <3>2, AddedDistinct
    <3> QED BY <2>2, <3>1, <3>3
  <2> QED BY <2>4, <2>5
<1> QED BY <1>2, <1>3, <1>4

LEMMA ContactKeeps ==
  ASSUME NEW t \in Table, NEW i, Proper(t, i), NEW list \in Seq(Names),
         NEW k, Distinct(k, t)
  PROVE  /\ Proper(ContactToPda(list, t).table, ContactToPda(list, t).slot)
         /\ Distinct(k, ContactToPda(list, t).table)
<1> DEFINE of(name) == SlotsOf(t, Stem[name])
           known == {j \in DOMAIN list : of(list[j]) # {} /\ Min(of(list[j])) # 0}
<1>1. Proper(t, 0)
  BY SlotFacts DEF Proper
<1>2. CASE list = <<>>
  <2>1. ContactToPda(list, t) = [slot |-> 0, table |-> t]
    BY <1>2 DEF ContactToPda
  <2> QED BY <1>1, <2>1
<1>3. \A j \in DOMAIN list : list[j] \in Names
  BY ElementOfSeq, LenProperties
<1>4. CASE list # <<>> /\ known # {}
  <2>1. known \in SUBSET Nat
    BY LenProperties
  <2>2. ContactToPda(list, t) = [slot |-> Min(of(list[Min(known)])), table |-> t]
    BY <1>4, Zenon DEF ContactToPda, SlotsOf
  <2>3. Min(known) \in known
    <3> HIDE DEF known
    <3> QED BY <1>4, <2>1, MinIsIn
  <2> PICK name \in Names : name = list[Min(known)] /\ of(name) # {} /\ Min(of(name)) # 0
    BY <1>3, <2>3
  <2>4. Min(of(name)) \in Slot /\ t.names[Min(of(name))] = Stem[name] /\ Stem[name] \in Names
    BY SlotsOfLeast, StemAssumption
  <2>5. Proper(t, Min(of(name)))
    BY <2>4 DEF Proper
  <2>6. ContactToPda(list, t).slot = Min(of(name)) /\ ContactToPda(list, t).table = t
    BY <2>2
  <2> QED BY <2>5, <2>6
<1>5. CASE list # <<>> /\ known = {}
  <2> DEFINE id == UnusedId(t)
             name == Head(list)
  <2>1. name \in Names /\ id \in 1 .. 255 /\ \A j \in Slot : t.ids[j] # id
    BY <1>5, UnusedIdFacts
  <2>2. ContactToPda(list, t) = Added(t, name, id)
    BY <1>5, Zenon DEF ContactToPda, SlotsOf
  <2>3. Stem[name] = "Unfiled" \/ \A j \in Slot \ {0} : t.names[j] # Stem[name]
    <3>1. 1 \in DOMAIN list /\ name = list[1]
      BY <1>5
    <3>2. of(name) = {} \/ Min(of(name)) = 0
      BY <1>5, <3>1
    <3>3. CASE of(name) = {}
      BY <3>3 DEF SlotsOf
    <3>4. CASE of(name) # {} /\ Min(of(name)) = 0
      BY <3>4, SlotsOfLeast DEF Proper
    <3> QED BY <3>2, <3>3, <3>4
  <2> HIDE DEF id, name
  <2>4. CASE Free(t) = {}
    <3>1. Added(t, name, id).table = t /\ Added(t, name, id).slot = 0
      BY <2>4, NoRoom
    <3> QED BY <1>1, <2>2, <3>1
  <2>5. CASE Free(t) # {}
    <3>1. Proper(Added(t, name, id).table, Added(t, name, id).slot)
      BY <2>1, <2>5, AddedGives DEF Grown
    <3>2. Distinct(k, Added(t, name, id).table)
      BY <2>1, <2>3, <2>5, AddedDistinct
    <3> QED BY <2>2, <3>1, <3>2
  <2> QED BY <2>4, <2>5
<1> QED BY <1>2, <1>4, <1>5

LEMMA CategoryKeeps ==
  ASSUME NEW t \in Table, NEW i, Proper(t, i), NEW list \in Seq(Names),
         NEW k, Distinct(k, t)
  PROVE  /\ Proper(CategoryToPda(k, list, t).table, CategoryToPda(k, list, t).slot)
         /\ Distinct(k, CategoryToPda(k, list, t).table)
<1>1. CASE k = "contact"
  BY <1>1, ContactKeeps DEF CategoryToPda
<1>2. CASE k # "contact"
  BY <1>2, CommonKeeps DEF CategoryToPda
<1> QED BY <1>1, <1>2

LEMMA ToDesktopType ==
  ASSUME NEW t, NEW i, Proper(t, i), NEW list \in Seq(Names)
  PROVE  ToDesktop(i, list, t) \in Seq(Names)
<1>1. CASE i = 0
  BY <1>1 DEF ToDesktop
<1>2. CASE i # 0
  <2>1. t.names[i] \in Names
    BY <1>2 DEF Proper
  <2>2. ToFront(t.names[i], list) \in Seq(Names)
    BY <2>1, ToFrontType
  <2> QED BY <1>2, <2>2 DEF ToDesktop
<1> QED BY <1>1, <1>2

(* A category that the PDA's user drops.                                    *)
LEMMA DropKeeps ==
  ASSUME NEW t \in Table, NEW i, Proper(t, i), NEW k, Distinct(k, t), NEW j \in Slot, j # 0
  PROVE  /\ Proper([t EXCEPT !.names[j] = ""], IF i = j THEN 0 ELSE i)
         /\ Distinct(k, [t EXCEPT !.names[j] = ""])
<1> PICK new : new = [t EXCEPT !.names[j] = ""]
  OBVIOUS
<1>1. t.names \in [Slot -> Names \cup {"", "Unfiled"}] /\ t.ids \in [Slot -> 0 .. 255]
  BY TableFields
<1>2. new.names = [t.names EXCEPT ![j] = ""] /\ new.ids = t.ids /\ new \in Table
  BY <1>1 DEF Table
<1>3. new.names[j] = "" /\ \A a \in Slot : a # j => new.names[a] = t.names[a]
  <2> PICK names : names = t.names
    OBVIOUS
  <2>1. names \in [Slot -> Names \cup {"", "Unfiled"}] /\ new.names = [names EXCEPT ![j] = ""]
    BY <1>1, <1>2
  <2>2. [names EXCEPT ![j] = ""][j] = ""
    BY <2>1
  <2>3. \A a \in Slot : a # j => [names EXCEPT ![j] = ""][a] = names[a]
    BY <2>1
  <2> QED BY <2>1, <2>2, <2>3, Zenon
<1>4. Proper(new, IF i = j THEN 0 ELSE i)
  BY <1>2, <1>3, SlotFacts DEF Proper
<1>5. Slot \ Free(new) \subseteq Slot \ Free(t) /\ j \notin Slot \ Free(new)
  BY <1>3 DEF Free
<1>6. Distinct(k, new)
  <2> SUFFICES ASSUME NEW a \in Slot \ Free(new), NEW b \in Slot \ Free(new), a # b
      PROVE  /\ new.names[a] = new.names[b] =>
                  new.names[a] = "Unfiled" \/ (k # "contact" /\ new.names[a] \in CutOff)
             /\ k = "contact" => new.ids[a] # new.ids[b]
    BY Zenon DEF Distinct
  <2>1. a \in Slot \ Free(t) /\ b \in Slot \ Free(t) /\ a # j /\ b # j
    BY <1>5
  <2>2. /\ t.names[a] = t.names[b] =>
             t.names[a] = "Unfiled" \/ (k # "contact" /\ t.names[a] \in CutOff)
        /\ k = "contact" => t.ids[a] # t.ids[b]
    BY <2>1, Zenon DEF Distinct
  <2> QED BY <1>2, <1>3, <2>1, <2>2
<1> QED BY <1>4, <1>6

---------------------------------------------------------------------------
(* Tasks and memos.                                                         *)

LEMMA PrioritiesType ==
  /\ \A p \in 0 .. 9 : PriorityForPda(p) \in 1 .. 5
  /\ \A p \in 1 .. 5 : PriorityForDesktop(p) \in 0 .. 9
BY PriorityAssumption DEF PriorityForPda, PriorityForDesktop

(* A priority that comes back from the desktop is as it was, but for 2.     *)
LEMMA PrioritySurvives ==
  \A p \in 1 .. 5 : PriorityForPda(PriorityForDesktop(p)) = Coarse(p)
<1> SUFFICES ASSUME NEW p \in 1 .. 5 PROVE PriorityForPda(PriorityForDesktop(p)) = Coarse(p)
  OBVIOUS
<1>1. p = 1 \/ p = 2 \/ p = 3 \/ p = 4 \/ p = 5
  OBVIOUS
<1> QED BY <1>1 DEF PriorityForPda, PriorityForDesktop, Coarse

LEMMA CoarseTwice ==
  \A p \in 1 .. 5 : Coarse(p) \in 1 .. 5 /\ Coarse(Coarse(p)) = Coarse(p)
BY DEF Coarse

LEMMA TodoFields ==
  ASSUME NEW r \in Todos
  PROVE  /\ r.description \in Texts /\ r.note \in Texts /\ r.indefinite \in BOOLEAN
         /\ r.due \in Nat /\ r.complete \in BOOLEAN /\ r.priority \in 1 .. 5
         /\ r.secret \in BOOLEAN /\ (r.indefinite <=> r.due = 0)
BY DEF Todos

LEMMA TaskFields ==
  ASSUME NEW t \in Tasks
  PROVE  /\ t.summary \in Texts /\ t.note \in Texts /\ t.due \in Nat
         /\ t.status \in {"needs action", "in process", "completed", "cancelled"}
         /\ t.percent \in 0 .. 100 /\ t.priority \in 0 .. 9
         /\ t.class \in {"public", "private", "confidential"}
BY DEF Tasks

LEMMA ToTodoType ==
  ASSUME NEW t \in Tasks
  PROVE  ToTodo(t) \in Todos
<1>1. PriorityForPda(t.priority) \in 1 .. 5
  BY TaskFields, PrioritiesType
<1> QED BY <1>1, TaskFields DEF ToTodo, Todos

LEMMA FromTodoType ==
  ASSUME NEW r \in Todos, NEW t \in Tasks
  PROVE  FromTodo(r, t) \in Tasks
<1>1. PriorityForDesktop(r.priority) \in 0 .. 9
  BY TodoFields, PrioritiesType
<1> PICK n : n = FromTodo(r, t)
  OBVIOUS
<1>2. /\ n.summary = r.description
      /\ n.note = IF r.note = "none" THEN t.note ELSE r.note
      /\ n.due = IF r.indefinite THEN 0 ELSE r.due
      /\ n.status = IF r.complete THEN "completed"
                    ELSE IF t.status = "completed" THEN "needs action" ELSE t.status
      /\ n.percent = IF r.complete THEN 100 ELSE IF t.percent = 100 THEN 0 ELSE t.percent
      /\ n.priority = PriorityForDesktop(r.priority)
      /\ n.class = IF r.secret THEN "private" ELSE "public"
  BY DEF FromTodo
<1>3. n.percent \in 0 .. 100 /\ n.due \in Nat /\ n.priority \in 0 .. 9
  <2>1. n.percent \in 0 .. 100
    <3>1. t.percent \in 0 .. 100
      BY TaskFields
    <3>2. 100 \in 0 .. 100 /\ 0 \in 0 .. 100
      OBVIOUS
    <3> QED BY <1>2, <3>1, <3>2
  <2>2. n.due \in Nat
    BY <1>2, TodoFields
  <2> QED BY <1>1, <1>2, <2>1, <2>2
<1>4. /\ n.summary \in Texts /\ n.note \in Texts
      /\ n.status \in {"needs action", "in process", "completed", "cancelled"}
      /\ n.class \in {"public", "private", "confidential"}
  BY <1>2, TodoFields, TaskFields
<1>5. n = [summary |-> n.summary, note |-> n.note, due |-> n.due, status |-> n.status,
           percent |-> n.percent, priority |-> n.priority, class |-> n.class]
  BY DEF FromTodo
<1> QED BY <1>3, <1>4, <1>5 DEF Tasks

(* What is sent of what was fetched.                                        *)
TodoKept(new, r, t) ==
  new = [r EXCEPT !.priority = Coarse(r.priority),
                  !.note = IF r.note = "none" THEN t.note ELSE r.note]

LEMMA TodoThereAndBack ==
  ASSUME NEW r \in Todos, NEW t \in Tasks
  PROVE  TodoKept(ToTodo(FromTodo(r, t)), r, t)
<1> PICK n : n = FromTodo(r, t)
  OBVIOUS
<1>1. /\ n.summary = r.description
      /\ n.note = IF r.note = "none" THEN t.note ELSE r.note
      /\ n.due = r.due
      /\ n.status = "completed" <=> r.complete
      /\ n.priority = PriorityForDesktop(r.priority)
      /\ n.class = "private" <=> r.secret
  BY TodoFields DEF FromTodo
<1>2. PriorityForPda(n.priority) = Coarse(r.priority)
  BY <1>1, TodoFields, PrioritySurvives
<1>3. ToTodo(n) =
        [description |-> r.description, note |-> IF r.note = "none" THEN t.note ELSE r.note,
         indefinite |-> r.indefinite, due |-> r.due, complete |-> r.complete,
         priority |-> Coarse(r.priority), secret |-> r.secret]
  BY <1>1, <1>2, TodoFields DEF ToTodo
<1>4. r = [description |-> r.description, note |-> r.note, indefinite |-> r.indefinite,
           due |-> r.due, complete |-> r.complete, priority |-> r.priority, secret |-> r.secret]
  BY DEF Todos
<1> PICK p : p = Coarse(r.priority)
  OBVIOUS
<1> PICK m : m = IF r.note = "none" THEN t.note ELSE r.note
  OBVIOUS
<1> PICK q : q = [r EXCEPT !.priority = p, !.note = m]
  OBVIOUS
<1>5. /\ q.description = r.description /\ q.note = m /\ q.indefinite = r.indefinite
      /\ q.due = r.due /\ q.complete = r.complete /\ q.priority = p /\ q.secret = r.secret
  BY <1>4
<1>6. q = [description |-> q.description, note |-> q.note, indefinite |-> q.indefinite,
           due |-> q.due, complete |-> q.complete, priority |-> q.priority, secret |-> q.secret]
  BY <1>4
<1> QED BY <1>3, <1>5, <1>6, Zenon DEF TodoKept

(* What is fetched of what was sent.                                        *)
LEMMA TaskThereAndBack ==
  ASSUME NEW t \in Tasks, NEW n, n = FromTodo(ToTodo(t), t)
  PROVE  /\ n.summary = t.summary /\ n.note = t.note /\ n.due = t.due /\ n.status = t.status
         /\ n.percent = IF t.status = "completed" THEN 100
                        ELSE IF t.percent = 100 THEN 0 ELSE t.percent
         /\ Coarse(PriorityForPda(n.priority)) = Coarse(PriorityForPda(t.priority))
         /\ (n.class = "private") = (t.class = "private")
<1> PICK r : r = ToTodo(t)
  OBVIOUS
<1>1. /\ r.description = t.summary /\ r.note = t.note
      /\ r.indefinite = (t.due = 0) /\ r.due = t.due
      /\ r.complete = (t.status = "completed")
      /\ r.priority = PriorityForPda(t.priority)
      /\ r.secret = (t.class = "private")
  BY DEF ToTodo
<1>2. /\ n.summary = r.description
      /\ n.note = IF r.note = "none" THEN t.note ELSE r.note
      /\ n.due = IF r.indefinite THEN 0 ELSE r.due
      /\ n.status = IF r.complete THEN "completed"
                    ELSE IF t.status = "completed" THEN "needs action" ELSE t.status
      /\ n.percent = IF r.complete THEN 100 ELSE IF t.percent = 100 THEN 0 ELSE t.percent
      /\ n.priority = PriorityForDesktop(r.priority)
      /\ n.class = IF r.secret THEN "private" ELSE "public"
  BY DEF FromTodo
<1>3. r.priority \in 1 .. 5
  BY <1>1, TaskFields, PrioritiesType
<1>4. Coarse(PriorityForPda(n.priority)) = Coarse(PriorityForPda(t.priority))
  <2>1. PriorityForPda(n.priority) = Coarse(r.priority)
    BY <1>2, <1>3, PrioritySurvives
  <2>2. Coarse(Coarse(r.priority)) = Coarse(r.priority)
    BY <1>3, CoarseTwice
  <2> QED BY <1>1, <2>1, <2>2
<1>5. n.summary = t.summary /\ n.note = t.note /\ n.due = t.due /\ n.status = t.status
  BY <1>1, <1>2
<1>6. n.percent = IF t.status = "completed" THEN 100
                  ELSE IF t.percent = 100 THEN 0 ELSE t.percent
  BY <1>1, <1>2
<1>7. (n.class = "private") = (t.class = "private")
  BY <1>1, <1>2
<1> QED BY <1>4, <1>5, <1>6, <1>7

LEMMA ToMemoType ==
  ASSUME NEW m \in Memos
  PROVE  ToMemo(m) \in Notes
BY DEF ToMemo, Memos, Notes

LEMMA FromMemoType ==
  ASSUME NEW r \in Notes, NEW m
  PROVE  FromMemo(r, m) \in Memos
<1>1. r.text \in Seq(Texts)
  BY DEF Notes
<1>2. r.text # <<>> => r.text[1] \in Texts
  BY <1>1
<1>3. (IF r.text = <<>> THEN "none" ELSE Shortened(r.text[1])) \in Texts
  <2>1. \A line \in Texts : Shortened(line) \in Texts
    BY TextsAssumption DEF Shortened
  <2> QED BY <1>2, <2>1, TextsAssumption
<1> QED BY <1>1, <1>3 DEF FromMemo, Memos

LEMMA NoteThereAndBack ==
  ASSUME NEW r \in Notes, NEW m
  PROVE  ToMemo(FromMemo(r, m)) = r
BY DEF ToMemo, FromMemo, Notes

LEMMA MemoThereAndBack ==
  ASSUME NEW m, NEW n
  PROVE  ToMemo(FromMemo(ToMemo(m), n)) = ToMemo(m)
<1>1. FromMemo(ToMemo(m), n).text = m.text
  BY DEF ToMemo, FromMemo
<1>2. (FromMemo(ToMemo(m), n).class = "private") = (m.class = "private")
  BY DEF ToMemo, FromMemo
<1> QED BY <1>1, <1>2 DEF ToMemo

---------------------------------------------------------------------------
(* Contacts.                                                                *)

LEMMA LabelsAre ==
  ToSet(Labels) = {"work", "home", "fax", "other", "email", "main", "pager", "mobile"}
<1>1. DOMAIN Labels = 1 .. 8
  BY DEF Labels
<1>2. 1 .. 8 = {1, 2, 3, 4, 5, 6, 7, 8}
  OBVIOUS
<1>3. ToSet(Labels) = {Labels[i] : i \in {1, 2, 3, 4, 5, 6, 7, 8}}
  BY <1>1, <1>2, Zenon DEF ToSet
<1>4. /\ Labels[1] = "work" /\ Labels[2] = "home" /\ Labels[3] = "fax" /\ Labels[4] = "other"
      /\ Labels[5] = "email" /\ Labels[6] = "main" /\ Labels[7] = "pager" /\ Labels[8] = "mobile"
  BY DEF Labels
<1> QED BY <1>3, <1>4

LEMMA AddressesAre ==
  ToSet(Addresses) = {"home", "work", "other"}
<1>1. DOMAIN Addresses = {1, 2, 3}
  BY DEF Addresses
<1>2. ToSet(Addresses) = {Addresses[i] : i \in {1, 2, 3}}
  BY <1>1, Zenon DEF ToSet
<1>3. Addresses[1] = "home" /\ Addresses[2] = "work" /\ Addresses[3] = "other"
  BY DEF Addresses
<1> QED BY <1>2, <1>3

LEMMA PriorityType ==
  /\ DOMAIN Priority = 1 .. 14
  /\ \A l \in 1 .. 14 : Priority[l].field \in Fields /\ Priority[l].label \in ToSet(Labels)
<1>1. DOMAIN Priority = 1 .. 14
  BY DEF Priority
<1>2. \A l \in 1 .. 14 : Priority[l].field \in Fields
  BY <1>1 DEF Fields
<1>3. \A l \in 1 .. 14 : Priority[l].label \in ToSet(Labels)
  <2> SUFFICES ASSUME NEW l \in 1 .. 14 PROVE Priority[l].label \in ToSet(Labels)
    OBVIOUS
  <2>1. \/ l = 1 \/ l = 2 \/ l = 3 \/ l = 4 \/ l = 5 \/ l = 6 \/ l = 7
        \/ l = 8 \/ l = 9 \/ l = 10 \/ l = 11 \/ l = 12 \/ l = 13 \/ l = 14
    OBVIOUS
  <2>2. /\ Priority[1].label = "work" /\ Priority[2].label = "home"
        /\ Priority[3].label = "fax" /\ Priority[4].label = "email"
        /\ Priority[5].label = "pager" /\ Priority[6].label = "mobile"
        /\ Priority[7].label = "work" /\ Priority[8].label = "home"
        /\ Priority[9].label = "fax" /\ Priority[10].label = "email"
        /\ Priority[11].label = "other" /\ Priority[12].label = "main"
        /\ Priority[13].label = "fax" /\ Priority[14].label = "email"
    BY DEF Priority
  <2> QED BY <2>1, <2>2, LabelsAre
<1> QED BY <1>1, <1>2, <1>3

FieldsOnly(s) == Len(s) \in Nat /\ \A n \in 1 .. Len(s) : s[n] \in Fields

LEMMA ShortChains ==
  /\ \A x \in Fields : FieldsOnly(<<x>>)
  /\ \A x, y \in Fields : FieldsOnly(<<x, y>>)
  /\ \A x, y, z \in Fields : FieldsOnly(<<x, y, z>>)
BY DEF FieldsOnly

(* Every field of a chain is a field of a contact.                          *)
LEMMA ChainType ==
  ASSUME NEW label \in ToSet(Labels)
  PROVE  FieldsOnly(Chain(label))
<1>1. /\ "business" \in Fields /\ "home" \in Fields /\ "business fax" \in Fields
      /\ "email 1" \in Fields /\ "pager" \in Fields /\ "mobile" \in Fields
      /\ "business 2" \in Fields /\ "home 2" \in Fields /\ "home fax" \in Fields
      /\ "email 2" \in Fields /\ "other" \in Fields /\ "primary" \in Fields
      /\ "other fax" \in Fields /\ "email 3" \in Fields
  <2>1. /\ 1 \in 1 .. 14 /\ 2 \in 1 .. 14 /\ 3 \in 1 .. 14 /\ 4 \in 1 .. 14 /\ 5 \in 1 .. 14
        /\ 6 \in 1 .. 14 /\ 7 \in 1 .. 14 /\ 8 \in 1 .. 14 /\ 9 \in 1 .. 14 /\ 10 \in 1 .. 14
        /\ 11 \in 1 .. 14 /\ 12 \in 1 .. 14 /\ 13 \in 1 .. 14 /\ 14 \in 1 .. 14
    OBVIOUS
  <2>2. /\ Priority[1].field = "business" /\ Priority[2].field = "home"
        /\ Priority[3].field = "business fax" /\ Priority[4].field = "email 1"
        /\ Priority[5].field = "pager" /\ Priority[6].field = "mobile"
        /\ Priority[7].field = "business 2" /\ Priority[8].field = "home 2"
        /\ Priority[9].field = "home fax" /\ Priority[10].field = "email 2"
        /\ Priority[11].field = "other" /\ Priority[12].field = "primary"
        /\ Priority[13].field = "other fax" /\ Priority[14].field = "email 3"
    BY DEF Priority
  <2>3. \A l \in 1 .. 14 : Priority[l].field \in Fields
    BY PriorityType
  <2> QED BY <2>1, <2>2, <2>3
<1>2. CASE label = "email"
  <2>1. Chain(label) = <<"email 1", "email 2", "email 3">>
    BY <1>2 DEF Chain
  <2> QED BY <1>1, <2>1, ShortChains, Zenon
<1>3. CASE label = "home"
  <2>1. Chain(label) = <<"home", "home 2">>
    BY <1>3 DEF Chain
  <2> QED BY <1>1, <2>1, ShortChains, Zenon
<1>4. CASE label = "work"
  <2>1. Chain(label) = <<"business", "business 2">>
    BY <1>4 DEF Chain
  <2> QED BY <1>1, <2>1, ShortChains, Zenon
<1>5. CASE label = "fax"
  <2>1. Chain(label) = <<"business fax", "home fax", "other fax">>
    BY <1>5 DEF Chain
  <2> QED BY <1>1, <2>1, ShortChains, Zenon
<1>6. CASE label = "main"
  <2>1. Chain(label) = <<"primary">>
    BY <1>6 DEF Chain
  <2> QED BY <1>1, <2>1, ShortChains, Zenon
<1>7. CASE label \in {"other", "pager", "mobile"}
  <2>1. Chain(label) = <<label>> /\ label \in Fields
    BY <1>1, <1>7 DEF Chain
  <2> QED BY <2>1, ShortChains, Zenon
<1> QED BY <1>2, <1>3, <1>4, <1>5, <1>6, <1>7, LabelsAre

Numbers == [NumberSlots -> [label: ToSet(Labels), text: Texts]]

(* A number that has a field has one of a contact's.                        *)
LEMMA FieldOfType ==
  ASSUME NEW numbers \in Numbers, NEW i \in NumberSlots, HasField(numbers, i)
  PROVE  FieldOf(numbers, i) \in Fields
<1> DEFINE same == {j \in 1 .. i : numbers[j].label = numbers[i].label}
<1>1. i \in Nat /\ i \in 1 .. i
  BY DEF NumberSlots
<1>2. IsFiniteSet(1 .. i)
  BY <1>1, FS_Interval
<1>3. IsFiniteSet(same) /\ same # {}
  <2>1. same \subseteq 1 .. i /\ i \in same
    BY <1>1
  <2> HIDE DEF same
  <2> QED BY <1>2, <2>1, FS_Subset
<1>4. Cardinality(same) \in Nat /\ Cardinality(same) # 0
  <2> HIDE DEF same
  <2> QED BY <1>3, FS_CardinalityType, FS_EmptySet
<1> PICK n : n = Nth(numbers, i)
  OBVIOUS
<1>5. n = Cardinality(same)
  BY Zenon DEF Nth
<1> HIDE DEF same
<1> PICK label \in ToSet(Labels) : label = numbers[i].label
  BY DEF Numbers
<1>6. n <= Len(Chain(label))
  BY DEF HasField
<1>7. n \in 1 .. Len(Chain(label))
  BY <1>4, <1>5, <1>6, ChainType DEF FieldsOnly
<1>8. FieldOf(numbers, i) = Chain(label)[n]
  BY DEF FieldOf
<1> QED BY <1>7, <1>8, ChainType DEF FieldsOnly

LEMMA ContactFields ==
  ASSUME NEW c \in Contacts
  PROVE  /\ c.name \in Texts /\ c.company \in Texts /\ c.fileAs \in Texts /\ c.note \in Texts
         /\ c.addresses \in [{"home", "work", "other"} -> Seq(Texts)]
         /\ c.numbers \in [Fields -> Texts]
BY AddressesAre DEF Contacts

LEMMA AddressFields ==
  ASSUME NEW a \in AddressRecords
  PROVE  /\ a.name \in Texts /\ a.company \in Texts /\ a.note \in Texts
         /\ a.address \in Seq(Texts) /\ a.custom \in Texts /\ a.numbers \in Numbers
         /\ a.show \in NumberSlots /\ a.secret \in BOOLEAN
BY DEF AddressRecords, Numbers

LEMMA AddressFieldType ==
  ASSUME NEW c
  PROVE  AddressField(c) \in {"home", "work", "other"}
<1> DEFINE present == {k \in DOMAIN Addresses : c.addresses[Addresses[k]] # <<>>}
<1>1. DOMAIN Addresses = {1, 2, 3}
  BY DEF Addresses
<1>2. present \in SUBSET Nat /\ present \subseteq {1, 2, 3}
  BY <1>1
<1>3. present # {} => Min(present) \in {1, 2, 3}
  <2> HIDE DEF present
  <2> QED BY <1>2, MinIsIn
<1>4. Addresses[1] = "home" /\ Addresses[2] = "work" /\ Addresses[3] = "other"
  BY DEF Addresses
<1>5. AddressField(c) = IF c.addresses[DefaultAddress] # <<>> \/ present = {} THEN DefaultAddress
                        ELSE Addresses[Min(present)]
  BY Zenon DEF AddressField
<1> HIDE DEF present
<1> QED BY <1>3, <1>4, <1>5, AddressAssumption

LEMMA ByPriorityType ==
  ASSUME NEW c \in Contacts, NEW numbers \in Numbers
  PROVE  ByPriority(c, numbers) \in Numbers
<1> DEFINE sent == {l \in DOMAIN Priority : c.numbers[Priority[l].field] # ""}
           ith(i) == {l \in sent : Cardinality({m \in sent : m <= l}) = i}
           one(i) == IF ith(i) # {}
                     THEN LET next == Priority[Min(ith(i))]
                          IN [label |-> next.label, text |-> c.numbers[next.field]]
                     ELSE [label |-> Labels[i], text |-> numbers[i].text]
<1>1. ByPriority(c, numbers) = [i \in NumberSlots |-> one(i)]
  BY Zenon DEF ByPriority
<1>2. ASSUME NEW i \in NumberSlots PROVE one(i) \in [label: ToSet(Labels), text: Texts]
  <2>1. CASE ith(i) # {}
    <3>1. ith(i) \in SUBSET Nat /\ ith(i) \subseteq 1 .. 14
      <4>1. sent \subseteq 1 .. 14
        BY PriorityType
      <4>2. ith(i) \subseteq sent
        OBVIOUS
      <4>3. 1 .. 14 \subseteq Nat
        OBVIOUS
      <4> HIDE DEF sent, ith
      <4> QED BY <4>1, <4>2, <4>3, Zenon
    <3> PICK l : l = Min(ith(i))
      OBVIOUS
    <3>2. l \in ith(i)
      <4> HIDE DEF ith
      <4> QED BY <2>1, <3>1, MinIsIn
    <3>3. l \in 1 .. 14
      BY <3>1, <3>2
    <3>4. one(i) = [label |-> Priority[l].label, text |-> c.numbers[Priority[l].field]]
      BY <2>1
    <3>5. Priority[l].label \in ToSet(Labels) /\ Priority[l].field \in Fields
      BY <3>3, PriorityType
    <3>6. c.numbers[Priority[l].field] \in Texts
      BY <3>5, ContactFields
    <3> QED BY <3>4, <3>5, <3>6
  <2>2. CASE ith(i) = {}
    <3>1. one(i) = [label |-> Labels[i], text |-> numbers[i].text]
      BY <2>2
    <3>2. Labels[i] \in ToSet(Labels)
      <4>1. i \in DOMAIN Labels
        BY DEF Labels, NumberSlots
      <4> QED BY <4>1 DEF ToSet
    <3>3. numbers[i].text \in Texts
      BY DEF Numbers
    <3> QED BY <3>1, <3>2, <3>3
  <2> QED BY <2>1, <2>2
<1> HIDE DEF one
<1> QED BY <1>1, <1>2 DEF Numbers

LEMMA ByLabelType ==
  ASSUME NEW c \in Contacts, NEW numbers \in Numbers
  PROVE  ByLabel(c, numbers) \in Numbers
<1> DEFINE one(i) == IF HasField(numbers, i) /\ c.numbers[FieldOf(numbers, i)] # ""
                     THEN [numbers[i] EXCEPT !.text = c.numbers[FieldOf(numbers, i)]]
                     ELSE numbers[i]
<1>1. ByLabel(c, numbers) = [i \in NumberSlots |-> one(i)]
  BY Zenon DEF ByLabel
<1>2. ASSUME NEW i \in NumberSlots PROVE one(i) \in [label: ToSet(Labels), text: Texts]
  <2>1. numbers[i] \in [label: ToSet(Labels), text: Texts]
    BY DEF Numbers
  <2>2. HasField(numbers, i) => c.numbers[FieldOf(numbers, i)] \in Texts
    BY FieldOfType, ContactFields
  <2> QED BY <2>1, <2>2
<1> HIDE DEF one
<1> QED BY <1>1, <1>2 DEF Numbers

LEMMA ToAddressType ==
  ASSUME NEW c \in Contacts, NEW old \in AddressRecords
  PROVE  ToAddress(c, old) \in AddressRecords
<1>1. NumbersForPda(c, old) \in Numbers
  BY AddressFields, ByPriorityType, ByLabelType DEF NumbersForPda
<1>2. c.addresses[AddressField(c)] \in Seq(Texts)
  BY AddressFieldType, ContactFields
<1>3. (IF Syncable(old.numbers) THEN 1 ELSE old.show) \in NumberSlots
  BY AddressFields DEF NumberSlots
<1>4. c.name \in Texts /\ c.company \in Texts /\ c.note \in Texts /\ old.custom \in Texts
  BY ContactFields, AddressFields
<1> QED BY <1>1, <1>2, <1>3, <1>4 DEF ToAddress, AddressRecords, Numbers

LEMMA FromAddressType ==
  ASSUME NEW a \in AddressRecords, NEW c \in Contacts
  PROVE  FromAddress(a, c) \in Contacts
<1> DEFINE slots(f) == {i \in NumberSlots : HasField(a.numbers, i) /\ FieldOf(a.numbers, i) = f}
           numbers == [f \in Fields |-> IF slots(f) = {} THEN c.numbers[f]
                                        ELSE a.numbers[CHOOSE i \in slots(f) : TRUE].text]
           addresses == [c.addresses EXCEPT ![AddressField(c)] = a.address]
           fileAs == IF a.name = "" THEN a.company ELSE c.fileAs
<1>1. numbers \in [Fields -> Texts]
  <2>1. ASSUME NEW f \in Fields, slots(f) # {}
        PROVE  a.numbers[CHOOSE i \in slots(f) : TRUE].text \in Texts
    <3>1. (CHOOSE i \in slots(f) : TRUE) \in NumberSlots
      BY <2>1
    <3> QED BY <3>1, AddressFields DEF Numbers
  <2> HIDE DEF slots
  <2> QED BY <2>1, ContactFields
<1>2. addresses \in [{"home", "work", "other"} -> Seq(Texts)]
  BY AddressFields, ContactFields
<1>3. fileAs \in Texts
  BY AddressFields, ContactFields
<1>4. FromAddress(a, c) = [name |-> a.name, company |-> a.company, note |-> a.note,
        fileAs |-> fileAs, addresses |-> addresses, numbers |-> numbers]
  BY Zenon DEF FromAddress
<1> HIDE DEF numbers, addresses, fileAs
<1> QED BY <1>1, <1>2, <1>3, <1>4, AddressFields, AddressesAre DEF Contacts

---------------------------------------------------------------------------
(* Events.                                                                  *)

LEMMA RuleFields ==
  ASSUME NEW r \in Rules
  PROVE  /\ r.freq \in {"none", "hourly", "daily", "weekly", "monthly", "yearly"}
         /\ r.days \in SUBSET WeekDays /\ r.pos \in Int /\ r.mday \in Nat
         /\ r.weekStart \in WeekDays /\ r.ends \in {"never", "until", "count"} /\ r.last \in Nat
         /\ r.freq = "monthly" /\ r.mday = 0 => \E d \in WeekDays : r.days = {d}
BY DEF Rules

LEMMA EventFields ==
  ASSUME NEW e \in Events
  PROVE  /\ e.summary \in Texts /\ e.note \in Texts /\ e.start \in Nat \ {0}
         /\ e.span \in {"hours", "day", "dates", "open"}
         /\ e.rule \in Rules /\ e.exdates \in Seq(Nat) /\ e.alarms \in Seq(Alarms)
         /\ e.class \in Classes
BY DEF Events

LEMMA AppointmentFields ==
  ASSUME NEW a \in Appointments
  PROVE  /\ a.summary \in Texts /\ a.note \in Texts /\ a.begin \in Nat \ {0}
         /\ a.event \in BOOLEAN
         /\ a.repeat \in {"none", "daily", "weekly", "monthly by day", "monthly by date", "yearly"}
         /\ a.days \in SUBSET WeekDays /\ a.day \in 0 .. 34 /\ a.weekStart \in WeekDays
         /\ a.forever \in BOOLEAN /\ a.end \in Nat /\ a.exceptions \in Seq(Nat)
         /\ a.alarm \in BOOLEAN /\ a.advance \in Nat /\ a.units \in Units
         /\ a.secret \in BOOLEAN /\ ProperRepeat(a)
<1>1. DomLastSun + 6 = 34
  BY DEF DomLastSun
<1> QED BY <1>1 DEF Appointments

Shaped(a) ==
  a = [summary |-> a.summary, note |-> a.note, begin |-> a.begin, event |-> a.event,
       repeat |-> a.repeat, days |-> a.days, day |-> a.day, weekStart |-> a.weekStart,
       forever |-> a.forever, end |-> a.end, exceptions |-> a.exceptions,
       alarm |-> a.alarm, advance |-> a.advance, units |-> a.units, secret |-> a.secret]

(* The three steps in which an appointment is made of an event.             *)
Begin(comp, old) ==
  [Basis(old) EXCEPT
    !.summary = comp.summary, !.note = comp.note,
    !.begin = comp.start,
    !.event = comp.span # "hours",
    !.exceptions = comp.exdates,
    !.secret = comp.class = "private"]

Begun(s, comp, old) ==
  /\ Shaped(s)
  /\ s.summary = comp.summary /\ s.note = comp.note /\ s.begin = comp.start
  /\ s.event = (comp.span # "hours") /\ s.exceptions = comp.exdates
  /\ s.secret = (comp.class = "private")
  /\ s.advance = old.advance /\ s.units = old.units

LEMMA BeginGives ==
  ASSUME NEW comp, NEW old
  PROVE  Begun(Begin(comp, old), comp, old)
<1> PICK b : b = Basis(old)
  OBVIOUS
<1> PICK s : s = Begin(comp, old)
  OBVIOUS
<1>1. Shaped(b) /\ b.advance = old.advance /\ b.units = old.units
  BY DEF Basis, PlainAppointment, Shaped
<1>2. s = [b EXCEPT
            !.summary = comp.summary, !.note = comp.note,
            !.begin = comp.start,
            !.event = comp.span # "hours",
            !.exceptions = comp.exdates,
            !.secret = comp.class = "private"]
  BY Zenon DEF Begin
<1>3. Shaped(s)
  BY <1>1, <1>2 DEF Shaped
<1>4. Begun(s, comp, old)
  BY <1>1, <1>2, <1>3 DEF Shaped, Begun
<1> QED BY <1>4, Zenon

Ruled(w, s, rule) ==
  /\ Shaped(w)
  /\ w.summary = s.summary /\ w.note = s.note /\ w.begin = s.begin
  /\ w.event = s.event /\ w.exceptions = s.exceptions /\ w.secret = s.secret
  /\ w.advance = s.advance /\ w.units = s.units
  /\ w.repeat = Repeat(rule)
  /\ w.days = IF rule.freq = "weekly" THEN rule.days ELSE {}
  /\ w.day = IF Repeat(rule) = "monthly by day" THEN RepeatDay(rule) ELSE 0
  /\ w.weekStart = 0
  /\ w.forever = (rule.freq # "none" /\ rule.ends = "never")
  /\ w.end = IF rule.ends = "never" THEN 0 ELSE rule.last

LEMMA WithRuleGives ==
  ASSUME NEW s, Shaped(s), NEW rule
  PROVE  Ruled(WithRule(s, rule), s, rule)
<1> PICK w : w = WithRule(s, rule)
  OBVIOUS
<1>1. Shaped(w)
  BY DEF WithRule, Shaped
<1>2. /\ w.summary = s.summary /\ w.note = s.note /\ w.begin = s.begin
      /\ w.event = s.event /\ w.exceptions = s.exceptions /\ w.secret = s.secret
      /\ w.advance = s.advance /\ w.units = s.units
  BY DEF WithRule, Shaped
<1>3. /\ w.repeat = Repeat(rule)
      /\ w.days = IF rule.freq = "weekly" THEN rule.days ELSE {}
      /\ w.day = IF Repeat(rule) = "monthly by day" THEN RepeatDay(rule) ELSE 0
      /\ w.weekStart = 0
      /\ w.forever = (rule.freq # "none" /\ rule.ends = "never")
      /\ w.end = IF rule.ends = "never" THEN 0 ELSE rule.last
  BY DEF WithRule, Shaped
<1>4. Ruled(w, s, rule)
  BY <1>1, <1>2, <1>3, Zenon DEF Ruled
<1> QED BY <1>4, Zenon

Advance(a) ==
  IF Length(a) <= MaxAdvance THEN <<Length(a), "minutes">>
  ELSE IF InHours(a) <= MaxAdvance THEN <<InHours(a), "hours">>
  ELSE IF InDays(a) <= MaxAdvance THEN <<InDays(a), "days">>
  ELSE <<MaxAdvance, "days">>

First(alarms) == alarms[Min(Remindable(alarms))]

Reminded(r, w, alarms) ==
  /\ Shaped(r)
  /\ r.summary = w.summary /\ r.note = w.note /\ r.begin = w.begin
  /\ r.event = w.event /\ r.exceptions = w.exceptions /\ r.secret = w.secret
  /\ r.repeat = w.repeat /\ r.days = w.days /\ r.day = w.day
  /\ r.weekStart = w.weekStart /\ r.forever = w.forever /\ r.end = w.end
  /\ r.alarm = (Remindable(alarms) # {})
  /\ Remindable(alarms) = {} => r.advance = w.advance /\ r.units = w.units
  /\ Remindable(alarms) # {} =>
       r.advance = Advance(First(alarms))[1] /\ r.units = Advance(First(alarms))[2]

LEMMA WithAlarmGives ==
  ASSUME NEW w, Shaped(w), NEW alarms
  PROVE  Reminded(WithAlarm(w, alarms), w, alarms)
<1> PICK r : r = WithAlarm(w, alarms)
  OBVIOUS
<1>1. CASE Remindable(alarms) = {}
  <2>1. r = [w EXCEPT !.alarm = FALSE]
    BY <1>1 DEF WithAlarm
  <2>2. Reminded(r, w, alarms)
    BY <1>1, <2>1 DEF Shaped, Reminded
  <2> QED BY <2>2, Zenon
<1>2. CASE Remindable(alarms) # {}
  <2> PICK x, y : x = Advance(First(alarms))[1] /\ y = Advance(First(alarms))[2]
    OBVIOUS
  <2>1. r = [w EXCEPT !.alarm = TRUE, !.advance = x, !.units = y]
    BY <1>2, Zenon DEF WithAlarm, Advance, First
  <2>2. Reminded(r, w, alarms)
    BY <1>2, <2>1 DEF Shaped, Reminded
  <2> QED BY <2>2, Zenon
<1> QED BY <1>1, <1>2, Zenon

(* What an appointment made of an event says.                               *)
Sent(r, comp, old) ==
  /\ Shaped(r)
  /\ r.summary = comp.summary /\ r.note = comp.note /\ r.begin = comp.start
  /\ r.event = (comp.span # "hours") /\ r.exceptions = comp.exdates
  /\ r.secret = (comp.class = "private")
  /\ r.repeat = Repeat(comp.rule)
  /\ r.days = IF comp.rule.freq = "weekly" THEN comp.rule.days ELSE {}
  /\ r.day = IF Repeat(comp.rule) = "monthly by day" THEN RepeatDay(comp.rule) ELSE 0
  /\ r.weekStart = 0
  /\ r.forever = (comp.rule.freq # "none" /\ comp.rule.ends = "never")
  /\ r.end = IF comp.rule.ends = "never" THEN 0 ELSE comp.rule.last
  /\ r.alarm = (Remindable(comp.alarms) # {})
  /\ Remindable(comp.alarms) = {} => r.advance = old.advance /\ r.units = old.units
  /\ Remindable(comp.alarms) # {} =>
       r.advance = Advance(First(comp.alarms))[1] /\ r.units = Advance(First(comp.alarms))[2]

LEMMA ToAppointmentGives ==
  ASSUME NEW comp, NEW old
  PROVE  Sent(ToAppointment(comp, old), comp, old)
<1> PICK s : s = Begin(comp, old)
  OBVIOUS
<1> PICK w : w = WithRule(s, comp.rule)
  OBVIOUS
<1> PICK r : r = WithAlarm(w, comp.alarms)
  OBVIOUS
<1>1. Begun(s, comp, old)
  BY BeginGives
<1>2. Ruled(w, s, comp.rule)
  BY <1>1, WithRuleGives DEF Begun
<1>3. Reminded(r, w, comp.alarms)
  BY <1>2, WithAlarmGives DEF Ruled
<1>4. /\ r.summary = w.summary /\ r.note = w.note /\ r.begin = w.begin
      /\ r.event = w.event /\ r.exceptions = w.exceptions /\ r.secret = w.secret
      /\ r.repeat = w.repeat /\ r.days = w.days /\ r.day = w.day
      /\ r.weekStart = w.weekStart /\ r.forever = w.forever /\ r.end = w.end
  BY <1>3 DEF Reminded
<1>5. /\ w.summary = comp.summary /\ w.note = comp.note /\ w.begin = comp.start
      /\ w.event = (comp.span # "hours") /\ w.exceptions = comp.exdates
      /\ w.secret = (comp.class = "private")
      /\ w.advance = old.advance /\ w.units = old.units
  <2>1. /\ w.summary = s.summary /\ w.note = s.note /\ w.begin = s.begin
        /\ w.event = s.event /\ w.exceptions = s.exceptions /\ w.secret = s.secret
        /\ w.advance = s.advance /\ w.units = s.units
    BY <1>2 DEF Ruled
  <2>2. /\ s.summary = comp.summary /\ s.note = comp.note /\ s.begin = comp.start
        /\ s.event = (comp.span # "hours") /\ s.exceptions = comp.exdates
        /\ s.secret = (comp.class = "private")
        /\ s.advance = old.advance /\ s.units = old.units
    BY <1>1 DEF Begun
  <2> QED BY <2>1, <2>2, Zenon
<1>6. /\ w.repeat = Repeat(comp.rule)
      /\ w.days = IF comp.rule.freq = "weekly" THEN comp.rule.days ELSE {}
      /\ w.day = IF Repeat(comp.rule) = "monthly by day" THEN RepeatDay(comp.rule) ELSE 0
      /\ w.weekStart = 0
      /\ w.forever = (comp.rule.freq # "none" /\ comp.rule.ends = "never")
      /\ w.end = IF comp.rule.ends = "never" THEN 0 ELSE comp.rule.last
  BY <1>2, Zenon DEF Ruled
<1>7. /\ Shaped(r)
      /\ r.alarm = (Remindable(comp.alarms) # {})
      /\ Remindable(comp.alarms) = {} => r.advance = w.advance /\ r.units = w.units
      /\ Remindable(comp.alarms) # {} =>
           r.advance = Advance(First(comp.alarms))[1] /\ r.units = Advance(First(comp.alarms))[2]
  BY <1>3, Zenon DEF Reminded
<1>8. Sent(r, comp, old)
  <2>1. /\ r.summary = comp.summary /\ r.note = comp.note /\ r.begin = comp.start
        /\ r.event = (comp.span # "hours") /\ r.exceptions = comp.exdates
        /\ r.secret = (comp.class = "private")
    BY <1>4, <1>5, Zenon
  <2>2. r.advance = w.advance /\ r.units = w.units => r.advance = old.advance /\ r.units = old.units
    BY <1>5, Zenon
  <2>3. /\ r.repeat = Repeat(comp.rule)
        /\ r.days = IF comp.rule.freq = "weekly" THEN comp.rule.days ELSE {}
        /\ r.day = IF Repeat(comp.rule) = "monthly by day" THEN RepeatDay(comp.rule) ELSE 0
        /\ r.weekStart = 0
        /\ r.forever = (comp.rule.freq # "none" /\ comp.rule.ends = "never")
        /\ r.end = IF comp.rule.ends = "never" THEN 0 ELSE comp.rule.last
    BY <1>4, <1>6, Zenon
  <2> QED BY <1>7, <2>1, <2>2, <2>3, Zenon DEF Sent
<1>9. r = ToAppointment(comp, old)
  BY Zenon DEF ToAppointment, Begin
<1> QED BY <1>8, <1>9, Zenon

LEMMA WeekDayRange ==
  ASSUME NEW e \in 0 .. 6
  PROVE  /\ e \in 0 .. 34 /\ 28 + e \in 0 .. 34
         /\ \A p \in 1 .. 4 : 7 * (p - 1) + e \in 0 .. 34
OBVIOUS

(* The day of a month that a rule names, and that it has on the PDA.        *)
LEMMA RepeatDayOf ==
  ASSUME NEW r \in Rules, Repeat(r) = "monthly by day"
  PROVE  RepeatDay(r) \in 0 .. 34
<1>1. r.freq = "monthly" /\ r.mday = 0
  BY DEF Repeat
<1>2. PICK d \in WeekDays : r.days = {d}
  BY <1>1, RuleFields
<1>3. (CHOOSE x \in r.days : TRUE) = d
  BY <1>2
<1>4. RepeatDay(r) = CASE r.pos \in 1 .. 4 -> 7 * (r.pos - 1) + d
                       [] r.pos \in {-1, 5} -> DomLastSun + d
                       [] OTHER -> d
  BY <1>3 DEF RepeatDay
<1>5. d \in 0 .. 6
  BY DEF WeekDays
<1>6. \A e \in 0 .. 6 : /\ e \in 0 .. 34 /\ 28 + e \in 0 .. 34
                         /\ \A p \in 1 .. 4 : 7 * (p - 1) + e \in 0 .. 34
  BY WeekDayRange
<1>7. RepeatDay(r) = CASE r.pos \in 1 .. 4 -> 7 * (r.pos - 1) + d
                       [] r.pos \in {-1, 5} -> 28 + d
                       [] OTHER -> d
  BY <1>4 DEF DomLastSun
<1>8. \/ r.pos \in 1 .. 4 /\ RepeatDay(r) = 7 * (r.pos - 1) + d
      \/ RepeatDay(r) = 28 + d
      \/ RepeatDay(r) = d
  BY <1>7, Zenon
<1> QED BY <1>5, <1>6, <1>8, Zenon

LEMMA RepeatType ==
  ASSUME NEW r \in Rules
  PROVE  Repeat(r) \in {"none", "daily", "weekly", "monthly by day", "monthly by date", "yearly"}
BY RuleFields DEF Repeat

LEMMA LengthType ==
  ASSUME NEW a \in Alarms
  PROVE  Length(a) \in Nat /\ InHours(a) \in Nat /\ InDays(a) \in Nat
<1>1. a.minutes \in Nat /\ a.hours \in Nat /\ a.days \in Nat
  BY DEF Alarms
<1>2. Length(a) \in Nat
  BY <1>1 DEF Length
<1>3. a.minutes \div 60 \in Nat /\ a.minutes \div (60 * 24) \in Nat /\ a.hours \div 24 \in Nat
  BY <1>1
<1> QED BY <1>1, <1>2, <1>3 DEF InHours, InDays

LEMMA AdvanceType ==
  ASSUME NEW a \in Alarms
  PROVE  Advance(a)[1] \in Nat /\ Advance(a)[2] \in Units
BY LengthType DEF Advance, MaxAdvance, Units

LEMMA FirstIs ==
  ASSUME NEW alarms \in Seq(Alarms), Remindable(alarms) # {}
  PROVE  /\ Min(Remindable(alarms)) \in Remindable(alarms)
         /\ \A k \in Remindable(alarms) : Min(Remindable(alarms)) <= k
         /\ First(alarms) \in Alarms
<1>1. Remindable(alarms) \in SUBSET Nat /\ Remindable(alarms) \subseteq 1 .. Len(alarms)
  BY LenProperties DEF Remindable
<1>2. /\ Min(Remindable(alarms)) \in Remindable(alarms)
      /\ \A k \in Remindable(alarms) : Min(Remindable(alarms)) <= k
  BY <1>1, MinIsIn
<1>3. First(alarms) \in Alarms
  BY <1>1, <1>2, ElementOfSeq DEF First
<1> QED BY <1>2, <1>3

LEMMA ToAppointmentType ==
  ASSUME NEW comp \in Events, NEW old \in Appointments
  PROVE  ToAppointment(comp, old) \in Appointments
<1> PICK r : r = ToAppointment(comp, old)
  OBVIOUS
<1> PICK rule \in Rules : rule = comp.rule
  BY EventFields
<1>1. Sent(r, comp, old)
  BY ToAppointmentGives
<1>2. /\ r.summary \in Texts /\ r.note \in Texts /\ r.begin \in Nat \ {0} /\ r.event \in BOOLEAN
      /\ r.exceptions \in Seq(Nat) /\ r.secret \in BOOLEAN
  BY <1>1, EventFields DEF Sent
<1>3. r.repeat \in {"none", "daily", "weekly", "monthly by day", "monthly by date", "yearly"}
  BY <1>1, RepeatType DEF Sent
<1>4. r.days \in SUBSET WeekDays /\ (r.repeat # "weekly" => r.days = {})
  <2>1. r.days = IF rule.freq = "weekly" THEN rule.days ELSE {}
    BY <1>1 DEF Sent
  <2>2. rule.freq = "weekly" => r.repeat = "weekly"
    BY <1>1 DEF Sent, Repeat
  <2> QED BY <2>1, <2>2, RuleFields
<1>5. r.day \in 0 .. 34 /\ (r.repeat # "monthly by day" => r.day = 0)
  <2>1. r.day = IF Repeat(rule) = "monthly by day" THEN RepeatDay(rule) ELSE 0
    BY <1>1 DEF Sent
  <2>2. r.repeat = Repeat(rule)
    BY <1>1 DEF Sent
  <2>3. 0 \in 0 .. 34
    OBVIOUS
  <2> QED BY <2>1, <2>2, <2>3, RepeatDayOf
<1>6. /\ r.weekStart \in WeekDays /\ r.forever \in BOOLEAN /\ r.end \in Nat
      /\ r.forever => r.end = 0
  <2>1. /\ r.weekStart = 0 /\ r.forever = (rule.freq # "none" /\ rule.ends = "never")
        /\ r.end = IF rule.ends = "never" THEN 0 ELSE rule.last
    BY <1>1 DEF Sent
  <2>2. 0 \in WeekDays
    BY DEF WeekDays
  <2>3. rule.last \in Nat
    BY RuleFields
  <2>4. r.weekStart \in WeekDays /\ r.forever \in BOOLEAN /\ (r.forever => r.end = 0)
    BY <2>1, <2>2
  <2>5. r.end \in Nat
    BY <2>1, <2>3
  <2> QED BY <2>4, <2>5
<1>7. r.alarm \in BOOLEAN /\ r.advance \in Nat /\ r.units \in Units
  <2> PICK alarms \in Seq(Alarms) : alarms = comp.alarms
    BY EventFields
  <2>1. /\ r.alarm = (Remindable(alarms) # {})
        /\ Remindable(alarms) = {} => r.advance = old.advance /\ r.units = old.units
        /\ Remindable(alarms) # {} =>
             r.advance = Advance(First(alarms))[1] /\ r.units = Advance(First(alarms))[2]
    BY <1>1 DEF Sent
  <2>2. Remindable(alarms) # {} =>
          Advance(First(alarms))[1] \in Nat /\ Advance(First(alarms))[2] \in Units
    BY FirstIs, AdvanceType
  <2>3. old.advance \in Nat /\ old.units \in Units
    BY AppointmentFields
  <2> QED BY <2>1, <2>2, <2>3
<1>8. Shaped(r)
  BY <1>1 DEF Sent
<1>9. r \in [summary: Texts, note: Texts, begin: Nat \ {0}, event: BOOLEAN,
             repeat: {"none", "daily", "weekly", "monthly by day", "monthly by date", "yearly"},
             days: SUBSET WeekDays, day: 0 .. DomLastSun + 6, weekStart: WeekDays,
             forever: BOOLEAN, end: Nat, exceptions: Seq(Nat),
             alarm: BOOLEAN, advance: Nat, units: Units, secret: BOOLEAN]
  <2>1. 0 .. DomLastSun + 6 = 0 .. 34
    BY DEF DomLastSun
  <2> QED BY <1>2, <1>3, <1>4, <1>5, <1>6, <1>7, <1>8, <2>1 DEF Shaped
<1>10. ProperRepeat(r)
  BY <1>4, <1>5, <1>6 DEF ProperRepeat
<1> QED BY <1>9, <1>10 DEF Appointments

---------------------------------------------------------------------------
(* Back to the desktop.                                                     *)

LEMMA FromRepeatType ==
  ASSUME NEW a \in Appointments
  PROVE  FromRepeat(a) \in Rules
<1>1. CASE a.repeat = "none"
  BY <1>1 DEF FromRepeat, NoRule, Rules, WeekDays
<1>2. CASE a.repeat # "none"
  <2> PICK r : r = FromRepeat(a)
    OBVIOUS
  <2>1. /\ r.freq = IF a.repeat \in {"monthly by date", "monthly by day"} THEN "monthly"
                    ELSE a.repeat
        /\ r.days = CASE a.repeat = "weekly" -> a.days
                      [] a.repeat = "monthly by day" -> {a.day % 7}
                      [] OTHER -> {}
        /\ r.pos = IF a.repeat # "monthly by day" THEN 0
                   ELSE IF a.day < DomLastSun THEN a.day \div 7 + 1 ELSE -1
        /\ r.mday = IF a.repeat = "monthly by date" THEN a.begin ELSE 0
        /\ r.weekStart = a.weekStart
        /\ r.ends = IF a.forever THEN "never" ELSE "until"
        /\ r.last = Until(a)
        /\ r = [freq |-> r.freq, days |-> r.days, pos |-> r.pos, mday |-> r.mday,
                weekStart |-> r.weekStart, ends |-> r.ends, last |-> r.last]
    BY <1>2 DEF FromRepeat
  <2>2. r.freq \in {"none", "hourly", "daily", "weekly", "monthly", "yearly"}
    BY <2>1, AppointmentFields
  <2>3. a.day % 7 \in WeekDays /\ a.day \div 7 + 1 \in Int
    <3>1. a.day \in 0 .. 34
      BY AppointmentFields
    <3>2. \A d \in 0 .. 34 : d % 7 \in 0 .. 6 /\ d \div 7 + 1 \in Int
      OBVIOUS
    <3> QED BY <3>1, <3>2 DEF WeekDays
  <2>4. r.days \in SUBSET WeekDays
    BY <2>1, <2>3, AppointmentFields
  <2>5. r.pos \in Int
    <3>1. r.pos \in {0, a.day \div 7 + 1, -1}
      BY <2>1
    <3>2. 0 \in Int /\ -1 \in Int
      OBVIOUS
    <3> QED BY <2>3, <3>1, <3>2
  <2>6. r.mday \in Nat /\ r.weekStart \in WeekDays /\ r.ends \in {"never", "until", "count"}
    <3>1. a.begin \in Nat /\ a.weekStart \in WeekDays
      BY AppointmentFields
    <3>2. r.mday = a.begin \/ r.mday = 0
      BY <2>1, Zenon
    <3>3. r.mday \in Nat
      BY <3>1, <3>2
    <3>4. r.weekStart \in WeekDays /\ r.ends \in {"never", "until", "count"}
      BY <2>1, <3>1
    <3> QED BY <3>3, <3>4
  <2>7. r.last \in Nat
    <3>1. a.end \in Nat
      BY AppointmentFields
    <3>2. r.last = a.end \/ r.last = 0
      BY <2>1, Zenon DEF Until
    <3> QED BY <3>1, <3>2
  <2>8. r.freq = "monthly" /\ r.mday = 0 => \E d \in WeekDays : r.days = {d}
    <3>1. SUFFICES ASSUME r.freq = "monthly", r.mday = 0 PROVE r.days = {a.day % 7}
      BY <2>3
    <3>2. a.repeat = "monthly by day"
      BY <2>1, <3>1, AppointmentFields
    <3> QED BY <2>1, <3>2
  <2> QED BY <2>1, <2>2, <2>4, <2>5, <2>6, <2>7, <2>8 DEF Rules
<1> QED BY <1>1, <1>2

LEMMA NewRuleType ==
  ASSUME NEW a \in Appointments, NEW in \in Rules
  PROVE  NewRule(a, in) \in Rules
<1>1. FromRepeat(a) \in Rules
  BY FromRepeatType
<1> QED BY <1>1, Zenon DEF NewRule

LEMMA AlarmOfType ==
  ASSUME NEW a \in Appointments
  PROVE  AlarmOf(a) \in Alarms /\ AlarmOf(a).kind = "before"
<1>1. a.advance \in Nat /\ a.units \in {"minutes", "hours", "days"}
  BY AppointmentFields DEF Units
<1>2. \A n \in Nat : /\ Minutes(n) \in Alarms /\ Minutes(n).kind = "before"
                     /\ Hours(n) \in Alarms /\ Hours(n).kind = "before"
                     /\ ForDays(n) \in Alarms /\ ForDays(n).kind = "before"
  BY DEF Minutes, Hours, ForDays, Alarms
<1> QED BY <1>1, <1>2 DEF AlarmOf

LEMMA NewAlarmsType ==
  ASSUME NEW a \in Appointments, NEW alarms \in Seq(Alarms)
  PROVE  NewAlarms(a, alarms) \in Seq(Alarms)
BY AlarmOfType, AppendProperties DEF NewAlarms

(* What an event made of an appointment says.                               *)
Fetched(n, a, c) ==
  /\ n.summary = a.summary /\ n.note = a.note /\ n.start = a.begin
  /\ n.span = IF a.event THEN "dates" ELSE "hours"
  /\ n.rule = NewRule(a, c.rule) /\ n.exdates = Reverse(a.exceptions)
  /\ n.alarms = NewAlarms(a, c.alarms)
  /\ n.class = IF a.secret THEN "private" ELSE "public"

LEMMA FromAppointmentGives ==
  ASSUME NEW a \in Appointments, NEW c \in Events
  PROVE  /\ Fetched(FromAppointment(a, c), a, c)
         /\ FromAppointment(a, c) \in Events
<1> PICK n : n = FromAppointment(a, c)
  OBVIOUS
<1>1. Fetched(n, a, c)
  BY DEF FromAppointment, Events, Fetched
<1>2. n = [summary |-> n.summary, note |-> n.note, start |-> n.start, span |-> n.span,
           rule |-> n.rule, exdates |-> n.exdates, alarms |-> n.alarms, class |-> n.class]
  BY DEF FromAppointment, Events
<1>3. n.rule \in Rules /\ n.alarms \in Seq(Alarms) /\ n.exdates \in Seq(Nat)
  BY <1>1, NewRuleType, NewAlarmsType, ReverseFacts, AppointmentFields, EventFields DEF Fetched
<1>4. /\ n.summary \in Texts /\ n.note \in Texts /\ n.start \in Nat \ {0}
      /\ n.span \in {"hours", "day", "dates", "open"} /\ n.class \in Classes
  BY <1>1, AppointmentFields DEF Fetched, Classes
<1>5. n \in Events
  BY <1>2, <1>3, <1>4 DEF Events
<1> QED BY <1>1, <1>5, Zenon

---------------------------------------------------------------------------
(* There and back.                                                          *)

LEMMA DayArithmetic ==
  ASSUME NEW d \in 0 .. 34
  PROVE  /\ d < 28 => d \div 7 + 1 \in 1 .. 4 /\ 7 * ((d \div 7 + 1) - 1) + (d % 7) = d
         /\ ~ (d < 28) => 28 + (d % 7) = d
OBVIOUS

(* What an appointment says of its repetition, if it is made of a rule.     *)
RuleSays(a, rule) ==
  /\ Repeat(rule) = a.repeat
  /\ (IF rule.freq = "weekly" THEN rule.days ELSE {}) = a.days
  /\ (IF Repeat(rule) = "monthly by day" THEN RepeatDay(rule) ELSE 0) = a.day
  /\ (rule.freq # "none" /\ rule.ends = "never") = (a.forever /\ a.repeat # "none")
  /\ (IF rule.ends = "never" THEN 0 ELSE rule.last) = (IF a.repeat = "none" THEN 0 ELSE a.end)

LEMMA FromRepeatSays ==
  ASSUME NEW a \in Appointments
  PROVE  RuleSays(a, FromRepeat(a))
<1> PICK r : r = FromRepeat(a)
  OBVIOUS
<1>1. /\ a.repeat # "weekly" => a.days = {}
      /\ a.repeat # "monthly by day" => a.day = 0
      /\ a.forever => a.end = 0
  BY AppointmentFields DEF ProperRepeat
<1>2. CASE a.repeat = "none"
  <2>1. r = NoRule
    BY <1>2 DEF FromRepeat
  <2>2. Repeat(r) = "none" /\ r.freq = "none" /\ r.ends = "never"
    BY <2>1 DEF NoRule, Repeat
  <2>3. RuleSays(a, r)
    BY <1>1, <1>2, <2>2 DEF RuleSays
  <2> QED BY <2>3, Zenon
<1>3. CASE a.repeat # "none"
  <2>1. /\ r.freq = IF a.repeat \in {"monthly by date", "monthly by day"} THEN "monthly"
                    ELSE a.repeat
        /\ r.days = CASE a.repeat = "weekly" -> a.days
                      [] a.repeat = "monthly by day" -> {a.day % 7}
                      [] OTHER -> {}
        /\ r.pos = IF a.repeat # "monthly by day" THEN 0
                   ELSE IF a.day < DomLastSun THEN a.day \div 7 + 1 ELSE -1
        /\ r.mday = IF a.repeat = "monthly by date" THEN a.begin ELSE 0
        /\ r.ends = IF a.forever THEN "never" ELSE "until"
        /\ r.last = Until(a)
    BY <1>3 DEF FromRepeat
  <2>2. a.repeat \in {"daily", "weekly", "monthly by day", "monthly by date", "yearly"}
    BY <1>3, AppointmentFields
  <2>3. a.begin # 0
    BY AppointmentFields
  <2>4. Repeat(r) = a.repeat
    BY <2>1, <2>2, <2>3 DEF Repeat
  <2>5. (IF r.freq = "weekly" THEN r.days ELSE {}) = a.days
    BY <1>1, <2>1, <2>2
  <2>6. a.repeat = "monthly by day" => RepeatDay(r) = a.day
    <3>1. SUFFICES ASSUME a.repeat = "monthly by day" PROVE RepeatDay(r) = a.day
      OBVIOUS
    <3> PICK d \in 0 .. 34 : d = a.day
      BY AppointmentFields
    <3>2. r.days = {d % 7} /\ r.pos = IF d < 28 THEN d \div 7 + 1 ELSE -1
      BY <2>1, <3>1 DEF DomLastSun
    <3>3. (CHOOSE x \in r.days : TRUE) = d % 7
      BY <3>2
    <3>4. RepeatDay(r) = CASE r.pos \in 1 .. 4 -> 7 * (r.pos - 1) + (d % 7)
                           [] r.pos \in {-1, 5} -> 28 + (d % 7)
                           [] OTHER -> d % 7
      BY <3>3 DEF RepeatDay, DomLastSun
    <3>5. CASE d < 28
      <4>1. r.pos = d \div 7 + 1 /\ r.pos \in 1 .. 4
        BY <3>2, <3>5, DayArithmetic
      <4>2. RepeatDay(r) = 7 * ((d \div 7 + 1) - 1) + (d % 7)
        BY <3>4, <4>1
      <4> QED BY <3>5, <4>2, DayArithmetic
    <3>6. CASE ~ (d < 28)
      <4>1. r.pos = -1
        BY <3>2, <3>6
      <4>2. RepeatDay(r) = 28 + (d % 7)
        BY <3>4, <4>1
      <4> QED BY <3>6, <4>2, DayArithmetic
    <3> QED BY <3>5, <3>6
  <2>7. (IF Repeat(r) = "monthly by day" THEN RepeatDay(r) ELSE 0) = a.day
    BY <1>1, <2>4, <2>6
  <2>8. r.freq # "none"
    BY <2>1, <2>2
  <2>9. (r.freq # "none" /\ r.ends = "never") = (a.forever /\ a.repeat # "none")
    BY <1>3, <2>1, <2>8, AppointmentFields
  <2>10. (IF r.ends = "never" THEN 0 ELSE r.last) = (IF a.repeat = "none" THEN 0 ELSE a.end)
    BY <1>1, <1>3, <2>1 DEF Until
  <2>11. RuleSays(a, r)
    BY <2>4, <2>5, <2>7, <2>9, <2>10 DEF RuleSays
  <2> QED BY <2>11, Zenon
<1> QED BY <1>2, <1>3

LEMMA NewRuleSays ==
  ASSUME NEW a \in Appointments, NEW in \in Rules
  PROVE  RuleSays(a, NewRule(a, in))
<1> PICK r \in Rules : r = FromRepeat(a)
  BY FromRepeatType
<1>1. RuleSays(a, r)
  BY FromRepeatSays
<1>2. CASE NewRule(a, in) = r
  BY <1>1, <1>2
<1>3. CASE NewRule(a, in) # r
  <2>1. /\ NewRule(a, in) = in /\ r.ends = "until" /\ in.ends = "count"
        /\ MostlyEqual(r, in) /\ r.last = in.last
    BY <1>3, Zenon DEF NewRule
  <2>2. r.freq = in.freq /\ r.days = in.days /\ r.pos = in.pos /\ r.mday = in.mday
    <3>1. in = [r EXCEPT !.ends = in.ends, !.last = in.last]
      BY <2>1 DEF MostlyEqual
    <3> PICK e, l : e = in.ends /\ l = in.last
      OBVIOUS
    <3>2. in = [r EXCEPT !.ends = e, !.last = l]
      BY <3>1
    <3>3. r = [freq |-> r.freq, days |-> r.days, pos |-> r.pos, mday |-> r.mday,
               weekStart |-> r.weekStart, ends |-> r.ends, last |-> r.last]
      BY DEF Rules
    <3> QED BY <3>2, <3>3
  <2>3. Repeat(in) = Repeat(r) /\ RepeatDay(in) = RepeatDay(r)
    BY <2>2 DEF Repeat, RepeatDay
  <2>4. RuleSays(a, in)
    BY <1>1, <2>1, <2>2, <2>3 DEF RuleSays
  <2> QED BY <2>1, <2>4
<1> QED BY <1>2, <1>3

(* A record that comes back from the desktop.                               *)
Back(r, a) ==
  /\ r.summary = a.summary /\ r.note = a.note /\ r.begin = a.begin
  /\ r.event = a.event /\ r.secret = a.secret
  /\ r.repeat = a.repeat /\ r.days = a.days /\ r.day = a.day /\ r.weekStart = 0
  /\ r.forever = (a.forever /\ a.repeat # "none")
  /\ r.end = (IF a.repeat = "none" THEN 0 ELSE a.end)
  /\ r.exceptions = Reverse(a.exceptions)

LEMMA AppointmentBack ==
  ASSUME NEW a \in Appointments, NEW c \in Events, NEW old
  PROVE  Back(ToAppointment(FromAppointment(a, c), old), a)
<1> PICK n \in Events : n = FromAppointment(a, c)
  BY FromAppointmentGives
<1> PICK r : r = ToAppointment(n, old)
  OBVIOUS
<1>1. Fetched(n, a, c)
  BY FromAppointmentGives
<1>2. Sent(r, n, old)
  BY ToAppointmentGives
<1>3. RuleSays(a, n.rule)
  BY <1>1, NewRuleSays, EventFields DEF Fetched
<1>4. /\ r.summary = a.summary /\ r.note = a.note /\ r.begin = a.begin
      /\ r.exceptions = Reverse(a.exceptions)
  BY <1>1, <1>2 DEF Fetched, Sent
<1>5. r.event = a.event /\ r.secret = a.secret
  BY <1>1, <1>2, AppointmentFields DEF Fetched, Sent
<1>6. /\ r.repeat = a.repeat /\ r.days = a.days /\ r.day = a.day /\ r.weekStart = 0
      /\ r.forever = (a.forever /\ a.repeat # "none")
      /\ r.end = (IF a.repeat = "none" THEN 0 ELSE a.end)
  BY <1>2, <1>3 DEF RuleSays, Sent
<1>7. Back(r, a)
  BY <1>4, <1>5, <1>6 DEF Back
<1> QED BY <1>7, Zenon

LEMMA BackKeeps ==
  ASSUME NEW a \in Appointments, NEW r, Back(r, a)
  PROVE  AppointmentKeeps(r) = AppointmentKeeps(a)
<1>1. ToSet(r.exceptions) = ToSet(a.exceptions)
  BY ReverseFacts, AppointmentFields DEF Back
<1>2. (r.forever /\ r.repeat # "none") = (a.forever /\ a.repeat # "none")
  BY DEF Back
<1>3. (IF r.repeat = "none" THEN 0 ELSE r.end) = (IF a.repeat = "none" THEN 0 ELSE a.end)
  BY DEF Back
<1> QED BY <1>1, <1>2, <1>3 DEF AppointmentKeeps, Back

(* The desktop's first alarm of those the PDA can have stays the first.     *)
LEMMA FirstStays ==
  ASSUME NEW a \in Appointments, NEW alarms \in Seq(Alarms),
         a.alarm = (Remindable(alarms) # {})
  PROVE  /\ Remindable(NewAlarms(a, alarms)) = {} <=> Remindable(alarms) = {}
         /\ Remindable(alarms) # {} => First(NewAlarms(a, alarms)) = First(alarms)
<1> PICK new \in Seq(Alarms) : new = NewAlarms(a, alarms)
  BY NewAlarmsType
<1>1. CASE new = alarms
  BY <1>1
<1>2. CASE new # alarms
  <2>1. a.alarm /\ new = Append(alarms, AlarmOf(a))
    BY <1>2, Zenon DEF NewAlarms
  <2> PICK k : k = Min(Remindable(alarms))
    OBVIOUS
  <2> PICK len \in Nat : len = Len(alarms)
    BY LenProperties
  <2>2. /\ DOMAIN alarms = 1 .. len /\ DOMAIN new = 1 .. len + 1
        /\ \A i \in 1 .. len : new[i] = alarms[i]
    BY <2>1, AlarmOfType, AppendProperties, LenProperties
  <2>3. k \in Remindable(alarms) /\ \A i \in Remindable(alarms) : k <= i
    BY <2>1, FirstIs
  <2>4. k \in 1 .. len
    BY <2>2, <2>3 DEF Remindable
  <2>5. k \in Remindable(new)
    BY <2>2, <2>3, <2>4 DEF Remindable
  <2>6. \A i \in Remindable(new) : k <= i
    <3> SUFFICES ASSUME NEW i \in Remindable(new) PROVE k <= i
      OBVIOUS
    <3>1. i \in 1 .. len + 1
      BY <2>2 DEF Remindable
    <3>2. CASE i \in 1 .. len
      <4>1. i \in Remindable(alarms)
        BY <2>2, <3>2 DEF Remindable
      <4> QED BY <2>3, <4>1
    <3>3. CASE i = len + 1
      BY <2>4, <3>3
    <3> QED BY <3>1, <3>2, <3>3
  <2> PICK m : m = Min(Remindable(new))
    OBVIOUS
  <2>7. m \in Remindable(new) /\ \A i \in Remindable(new) : m <= i
    BY <2>5, FirstIs
  <2>8. m \in Nat
    BY <2>2, <2>7 DEF Remindable
  <2>9. m = k
    BY <2>4, <2>5, <2>6, <2>7, <2>8
  <2>10. First(new) = First(alarms)
    BY <2>2, <2>4, <2>9 DEF First
  <2> QED BY <2>3, <2>5, <2>10
<1> QED BY <1>1, <1>2

---------------------------------------------------------------------------
(* The conversions, whatever the record is.                                 *)

LEMMA Kind ==
  ASSUME NEW k \in Kinds
  PROVE  k \in {"event", "task", "memo", "contact"}
BY KindsAssumption

LEMMA ToPdaType ==
  ASSUME NEW k \in Kinds, NEW o \in Objects(k), NEW r \in Records(k)
  PROVE  ToPda(k, o, r) \in Records(k)
<1>1. CASE k = "event"
  BY <1>1, ToAppointmentType DEF ToPda, Objects, Records
<1>2. CASE k = "task"
  BY <1>2, ToTodoType DEF ToPda, Objects, Records
<1>3. CASE k = "memo"
  BY <1>3, ToMemoType DEF ToPda, Objects, Records
<1>4. CASE k = "contact"
  BY <1>4, ToAddressType DEF ToPda, Objects, Records
<1> QED BY <1>1, <1>2, <1>3, <1>4, Kind

LEMMA FromPdaType ==
  ASSUME NEW k \in Kinds, NEW r \in Records(k), NEW o \in Objects(k)
  PROVE  FromPda(k, r, o) \in Objects(k)
<1>1. CASE k = "event"
  BY <1>1, FromAppointmentGives DEF FromPda, Objects, Records
<1>2. CASE k = "task"
  BY <1>2, FromTodoType DEF FromPda, Objects, Records
<1>3. CASE k = "memo"
  BY <1>3, FromMemoType DEF FromPda, Objects, Records
<1>4. CASE k = "contact"
  BY <1>4, FromAddressType DEF FromPda, Objects, Records
<1> QED BY <1>1, <1>2, <1>3, <1>4, Kind

(* What the users change: a field is as they say, or as it was.             *)
LEMMA EventChange ==
  ASSUME NEW o \in Events, NEW v, Changed(PlainEvent, v) \in Events
  PROVE  Changed(o, v) \in Events
<1> PICK p \in Events : p = Changed(PlainEvent, v)
  OBVIOUS
<1> PICK n : n = Changed(o, v)
  OBVIOUS
<1>1. /\ DOMAIN o = {"summary", "note", "start", "span", "rule", "exdates", "alarms", "class"}
      /\ DOMAIN PlainEvent = DOMAIN o
  BY DEF Events, PlainEvent
<1>2. \A f \in DOMAIN o : n[f] = (IF f \in DOMAIN v THEN p[f] ELSE o[f])
  BY <1>1 DEF Changed
<1>3. /\ n.summary \in Texts /\ n.note \in Texts /\ n.start \in Nat \ {0}
      /\ n.span \in {"hours", "day", "dates", "open"} /\ n.rule \in Rules
      /\ n.exdates \in Seq(Nat) /\ n.alarms \in Seq(Alarms) /\ n.class \in Classes
  BY <1>1, <1>2, EventFields
<1>4. DOMAIN n = DOMAIN o /\ n = [f \in DOMAIN n |-> n[f]]
  BY DEF Changed
<1> QED BY <1>1, <1>3, <1>4 DEF Events

LEMMA TaskChange ==
  ASSUME NEW o \in Tasks, NEW v, Changed(PlainTask, v) \in Tasks
  PROVE  Changed(o, v) \in Tasks
<1> PICK p \in Tasks : p = Changed(PlainTask, v)
  OBVIOUS
<1> PICK n : n = Changed(o, v)
  OBVIOUS
<1>1. /\ DOMAIN o = {"summary", "note", "due", "status", "percent", "priority", "class"}
      /\ DOMAIN PlainTask = DOMAIN o
  BY DEF Tasks, PlainTask
<1>2. \A f \in DOMAIN o : n[f] = (IF f \in DOMAIN v THEN p[f] ELSE o[f])
  BY <1>1 DEF Changed
<1>3. /\ n.summary \in Texts /\ n.note \in Texts
      /\ n.status \in {"needs action", "in process", "completed", "cancelled"}
      /\ n.class \in {"public", "private", "confidential"}
      /\ n.due \in Nat /\ n.percent \in 0 .. 100 /\ n.priority \in 0 .. 9
  <2>1. /\ n.summary \in {p.summary, o.summary} /\ n.note \in {p.note, o.note}
        /\ n.status \in {p.status, o.status} /\ n.class \in {p.class, o.class}
    BY <1>1, <1>2
  <2>2. /\ n.due = p.due \/ n.due = o.due
        /\ n.percent = p.percent \/ n.percent = o.percent
        /\ n.priority = p.priority \/ n.priority = o.priority
    BY <1>1, <1>2
  <2>3. /\ n.summary \in Texts /\ n.note \in Texts
        /\ n.status \in {"needs action", "in process", "completed", "cancelled"}
        /\ n.class \in {"public", "private", "confidential"}
    BY <2>1, TaskFields
  <2>4. n.due \in Nat /\ n.percent \in 0 .. 100 /\ n.priority \in 0 .. 9
    BY <2>2, TaskFields
  <2> QED BY <2>3, <2>4
<1>4. DOMAIN n = DOMAIN o /\ n = [f \in DOMAIN n |-> n[f]]
  BY DEF Changed
<1> QED BY <1>1, <1>3, <1>4 DEF Tasks

LEMMA MemoChange ==
  ASSUME NEW o \in Memos, NEW v, Changed(PlainMemo, v) \in Memos
  PROVE  Changed(o, v) \in Memos
<1> PICK p \in Memos : p = Changed(PlainMemo, v)
  OBVIOUS
<1> PICK n : n = Changed(o, v)
  OBVIOUS
<1>1. DOMAIN o = {"summary", "text", "class"} /\ DOMAIN PlainMemo = DOMAIN o
  BY DEF Memos, PlainMemo
<1>2. \A f \in DOMAIN o : n[f] = (IF f \in DOMAIN v THEN p[f] ELSE o[f])
  BY <1>1 DEF Changed
<1>3. /\ n.summary \in Texts /\ n.text \in Seq(Texts)
      /\ n.class \in {"public", "private", "confidential"}
  BY <1>1, <1>2 DEF Memos
<1>4. DOMAIN n = DOMAIN o /\ n = [f \in DOMAIN n |-> n[f]]
  BY DEF Changed
<1> QED BY <1>1, <1>3, <1>4 DEF Memos

LEMMA ContactChange ==
  ASSUME NEW o \in Contacts, NEW v, Changed(PlainContact, v) \in Contacts
  PROVE  Changed(o, v) \in Contacts
<1> PICK p \in Contacts : p = Changed(PlainContact, v)
  OBVIOUS
<1> PICK n : n = Changed(o, v)
  OBVIOUS
<1>1. /\ DOMAIN o = {"name", "company", "fileAs", "note", "addresses", "numbers"}
      /\ DOMAIN PlainContact = DOMAIN o
  BY DEF Contacts, PlainContact
<1>2. \A f \in DOMAIN o : n[f] = (IF f \in DOMAIN v THEN p[f] ELSE o[f])
  BY <1>1 DEF Changed
<1>3. /\ n.name \in Texts /\ n.company \in Texts /\ n.fileAs \in Texts /\ n.note \in Texts
      /\ n.addresses \in [ToSet(Addresses) -> Seq(Texts)] /\ n.numbers \in [Fields -> Texts]
  BY <1>1, <1>2 DEF Contacts
<1>4. DOMAIN n = DOMAIN o /\ n = [f \in DOMAIN n |-> n[f]]
  BY DEF Changed
<1> QED BY <1>1, <1>3, <1>4 DEF Contacts

LEMMA ObjectChange ==
  ASSUME NEW k \in Kinds, NEW v \in DeskValues[k], NEW o \in Objects(k)
  PROVE  Changed(o, v) \in Objects(k)
<1>1. Changed(PlainObject[k], v) \in Objects(k)
  BY DeskValuesAssumption
<1>2. CASE k = "event"
  BY <1>1, <1>2, EventChange DEF Objects, PlainObject
<1>3. CASE k = "task"
  BY <1>1, <1>3, TaskChange DEF Objects, PlainObject
<1>4. CASE k = "memo"
  BY <1>1, <1>4, MemoChange DEF Objects, PlainObject
<1>5. CASE k = "contact"
  BY <1>1, <1>5, ContactChange DEF Objects, PlainObject
<1> QED BY <1>2, <1>3, <1>4, <1>5, Kind

LEMMA AppointmentChange ==
  ASSUME NEW o \in Appointments, NEW v, Changed(PlainAppointment, v) \in Appointments,
         \/ {"repeat", "days", "day", "forever", "end"} \subseteq DOMAIN v
         \/ {"repeat", "days", "day", "forever", "end"} \cap DOMAIN v = {}
  PROVE  Changed(o, v) \in Appointments
<1> PICK p \in Appointments : p = Changed(PlainAppointment, v)
  OBVIOUS
<1> PICK n : n = Changed(o, v)
  OBVIOUS
<1>1. /\ DOMAIN o = {"summary", "note", "begin", "event", "repeat", "days", "day", "weekStart",
                     "forever", "end", "exceptions", "alarm", "advance", "units", "secret"}
      /\ DOMAIN PlainAppointment = DOMAIN o
  BY DEF Appointments, PlainAppointment
<1>2. \A f \in DOMAIN o : n[f] = (IF f \in DOMAIN v THEN p[f] ELSE o[f])
  BY <1>1 DEF Changed
<1>3. /\ n.summary \in Texts /\ n.note \in Texts /\ n.begin \in Nat \ {0}
      /\ n.event \in BOOLEAN /\ n.weekStart \in WeekDays /\ n.exceptions \in Seq(Nat)
      /\ n.alarm \in BOOLEAN /\ n.advance \in Nat /\ n.units \in Units /\ n.secret \in BOOLEAN
  BY <1>1, <1>2, AppointmentFields
<1>4. \/ /\ n.repeat = p.repeat /\ n.days = p.days /\ n.day = p.day
         /\ n.forever = p.forever /\ n.end = p.end
      \/ /\ n.repeat = o.repeat /\ n.days = o.days /\ n.day = o.day
         /\ n.forever = o.forever /\ n.end = o.end
  BY <1>1, <1>2
<1>5. /\ n.repeat \in {"none", "daily", "weekly", "monthly by day", "monthly by date", "yearly"}
      /\ n.days \in SUBSET WeekDays /\ n.day \in 0 .. 34
      /\ n.forever \in BOOLEAN /\ n.end \in Nat /\ ProperRepeat(n)
  BY <1>4, AppointmentFields DEF ProperRepeat
<1>6. DOMAIN n = DOMAIN o /\ n = [f \in DOMAIN n |-> n[f]]
  BY DEF Changed
<1>7. 0 .. DomLastSun + 6 = 0 .. 34
  BY DEF DomLastSun
<1>8. n \in [summary: Texts, note: Texts, begin: Nat \ {0}, event: BOOLEAN,
             repeat: {"none", "daily", "weekly", "monthly by day", "monthly by date", "yearly"},
             days: SUBSET WeekDays, day: 0 .. DomLastSun + 6, weekStart: WeekDays,
             forever: BOOLEAN, end: Nat, exceptions: Seq(Nat),
             alarm: BOOLEAN, advance: Nat, units: Units, secret: BOOLEAN]
  BY <1>1, <1>3, <1>5, <1>6, <1>7
<1> QED BY <1>5, <1>8 DEF Appointments

LEMMA TodoChange ==
  ASSUME NEW o \in Todos, NEW v, Changed(PlainTodo, v) \in Todos,
         {"indefinite", "due"} \subseteq DOMAIN v \/ {"indefinite", "due"} \cap DOMAIN v = {}
  PROVE  Changed(o, v) \in Todos
<1> PICK p \in Todos : p = Changed(PlainTodo, v)
  OBVIOUS
<1> PICK n : n = Changed(o, v)
  OBVIOUS
<1>1. /\ DOMAIN o = {"description", "note", "indefinite", "due", "complete", "priority", "secret"}
      /\ DOMAIN PlainTodo = DOMAIN o
  BY DEF Todos, PlainTodo
<1>2. \A f \in DOMAIN o : n[f] = (IF f \in DOMAIN v THEN p[f] ELSE o[f])
  BY <1>1 DEF Changed
<1>3. /\ n.description \in Texts /\ n.note \in Texts /\ n.complete \in BOOLEAN
      /\ n.priority \in 1 .. 5 /\ n.secret \in BOOLEAN
      /\ n.indefinite \in BOOLEAN /\ n.due \in Nat
  BY <1>1, <1>2, TodoFields
<1>4. n.indefinite <=> n.due = 0
  <2>1. \/ n.indefinite = p.indefinite /\ n.due = p.due
        \/ n.indefinite = o.indefinite /\ n.due = o.due
    BY <1>1, <1>2
  <2> QED BY <2>1, TodoFields
<1>5. DOMAIN n = DOMAIN o /\ n = [f \in DOMAIN n |-> n[f]]
  BY DEF Changed
<1> QED BY <1>1, <1>3, <1>4, <1>5 DEF Todos

LEMMA NoteChange ==
  ASSUME NEW o \in Notes, NEW v, Changed(PlainNote, v) \in Notes
  PROVE  Changed(o, v) \in Notes
<1> PICK p \in Notes : p = Changed(PlainNote, v)
  OBVIOUS
<1> PICK n : n = Changed(o, v)
  OBVIOUS
<1>1. DOMAIN o = {"text", "secret"} /\ DOMAIN PlainNote = DOMAIN o
  BY DEF Notes, PlainNote
<1>2. \A f \in DOMAIN o : n[f] = (IF f \in DOMAIN v THEN p[f] ELSE o[f])
  BY <1>1 DEF Changed
<1>3. n.text \in Seq(Texts) /\ n.secret \in BOOLEAN
  BY <1>1, <1>2 DEF Notes
<1>4. DOMAIN n = DOMAIN o /\ n = [f \in DOMAIN n |-> n[f]]
  BY DEF Changed
<1> QED BY <1>1, <1>3, <1>4 DEF Notes

LEMMA AddressChange ==
  ASSUME NEW o \in AddressRecords, NEW v, Changed(PlainAddress, v) \in AddressRecords
  PROVE  Changed(o, v) \in AddressRecords
<1> PICK p \in AddressRecords : p = Changed(PlainAddress, v)
  OBVIOUS
<1> PICK n : n = Changed(o, v)
  OBVIOUS
<1>1. /\ DOMAIN o = {"name", "company", "note", "address", "custom", "numbers", "show", "secret"}
      /\ DOMAIN PlainAddress = DOMAIN o
  BY DEF AddressRecords, PlainAddress
<1>2. \A f \in DOMAIN o : n[f] = (IF f \in DOMAIN v THEN p[f] ELSE o[f])
  BY <1>1 DEF Changed
<1>3. /\ n.name \in Texts /\ n.company \in Texts /\ n.note \in Texts
      /\ n.address \in Seq(Texts) /\ n.custom \in Texts /\ n.numbers \in Numbers
      /\ n.show \in NumberSlots /\ n.secret \in BOOLEAN
  BY <1>1, <1>2, AddressFields
<1>4. DOMAIN n = DOMAIN o /\ n = [f \in DOMAIN n |-> n[f]]
  BY DEF Changed
<1> QED BY <1>1, <1>3, <1>4 DEF AddressRecords, Numbers

LEMMA RecordChange ==
  ASSUME NEW k \in Kinds, NEW v \in PdaValues[k], NEW o \in Records(k)
  PROVE  Changed(o, v) \in Records(k)
<1>1. /\ Changed(PlainRecord[k], v) \in Records(k)
      /\ Together[k] \subseteq DOMAIN v \/ Together[k] \cap DOMAIN v = {}
  BY PdaValuesAssumption
<1>2. CASE k = "event"
  <2>1. Together[k] = {"repeat", "days", "day", "forever", "end"}
    BY <1>2 DEF Together
  <2> QED BY <1>1, <1>2, <2>1, AppointmentChange DEF Records, PlainRecord
<1>3. CASE k = "task"
  <2>1. Together[k] = {"indefinite", "due"}
    BY <1>3 DEF Together
  <2> QED BY <1>1, <1>3, <2>1, TodoChange DEF Records, PlainRecord
<1>4. CASE k = "memo"
  BY <1>1, <1>4, NoteChange DEF Records, PlainRecord
<1>5. CASE k = "contact"
  BY <1>1, <1>5, AddressChange DEF Records, PlainRecord
<1> QED BY <1>2, <1>3, <1>4, <1>5, Kind

---------------------------------------------------------------------------
(* What survives, of any record and any object but contacts.                *)

(* What was fetched and is sent again unchanged.                            *)
LEMMA PdaKept ==
  ASSUME NEW o \in Objects(kind), kind \in Kinds \ {"contact"}, palm \in Records(kind),
         kind = "task" => palm.note # "none" \/ o.note = "none"
  PROVE  PdaKeeps(ToPda(kind, FromPda(kind, palm, o), palm)) = PdaKeeps(palm)
<1> PICK r : r = ToPda(kind, FromPda(kind, palm, o), palm)
  OBVIOUS
<1>1. CASE kind = "event"
  <2>1. palm \in Appointments /\ o \in Events
    BY <1>1 DEF Objects, Records
  <2>2. r = ToAppointment(FromAppointment(palm, o), palm)
    BY <1>1 DEF ToPda, FromPda
  <2>3. Back(r, palm)
    BY <2>1, <2>2, AppointmentBack
  <2>4. AppointmentKeeps(r) = AppointmentKeeps(palm)
    BY <2>1, <2>3, BackKeeps
  <2> QED BY <1>1, <2>4 DEF PdaKeeps
<1>2. CASE kind = "task"
  <2>1. palm \in Todos /\ o \in Tasks
    BY <1>2 DEF Objects, Records
  <2> PICK p : p = Coarse(palm.priority)
    OBVIOUS
  <2> PICK m : m = IF palm.note = "none" THEN o.note ELSE palm.note
    OBVIOUS
  <2>2. r = [palm EXCEPT !.priority = p, !.note = m]
    <3>1. r = ToTodo(FromTodo(palm, o))
      BY <1>2 DEF ToPda, FromPda
    <3>2. TodoKept(ToTodo(FromTodo(palm, o)), palm, o)
      BY <2>1, TodoThereAndBack
    <3> QED BY <3>1, <3>2, Zenon DEF TodoKept
  <2>3. m = palm.note
    BY <1>2
  <2>4. palm = [description |-> palm.description, note |-> palm.note,
                indefinite |-> palm.indefinite, due |-> palm.due, complete |-> palm.complete,
                priority |-> palm.priority, secret |-> palm.secret]
    BY <2>1 DEF Todos
  <2>5. r.priority = p /\ r = [palm EXCEPT !.priority = p]
    BY <2>2, <2>3, <2>4
  <2>6. Coarse(p) = p
    BY <2>1, TodoFields, CoarseTwice
  <2>7. [r EXCEPT !.priority = p] = [palm EXCEPT !.priority = p]
    BY <2>4, <2>5
  <2>8. PdaKeeps(r) = [r EXCEPT !.priority = p] /\ PdaKeeps(palm) = [palm EXCEPT !.priority = p]
    BY <1>2, <2>5, <2>6 DEF PdaKeeps
  <2> QED BY <2>7, <2>8
<1>3. CASE kind = "memo"
  <2>1. palm \in Notes
    BY <1>3 DEF Records
  <2>2. r = ToMemo(FromMemo(palm, o))
    BY <1>3 DEF ToPda, FromPda
  <2> QED BY <2>1, <2>2, NoteThereAndBack
<1> QED BY <1>1, <1>2, <1>3, Kind

(* What was sent, over any record, and is fetched again unchanged.          *)
LEMMA DesktopKept ==
  ASSUME NEW old \in Records(kind), kind \in Kinds \ {"contact"}, desk \in Objects(kind)
  PROVE  DesktopKeeps(FromPda(kind, ToPda(kind, desk, old), desk)) = DesktopKeeps(desk)
<1> PICK n : n = FromPda(kind, ToPda(kind, desk, old), desk)
  OBVIOUS
<1>1. CASE kind = "event"
  <2> PICK r : r = ToAppointment(desk, old)
    OBVIOUS
  <2> PICK x : x = ToAppointment(n, PlainAppointment)
    OBVIOUS
  <2> PICK y : y = ToAppointment(desk, PlainAppointment)
    OBVIOUS
  <2>1. desk \in Events /\ r \in Appointments
    BY <1>1, ToAppointmentType DEF Objects, Records
  <2>2. n = FromAppointment(r, desk)
    BY <1>1 DEF ToPda, FromPda
  <2>3. Sent(r, desk, old) /\ Sent(y, desk, PlainAppointment) /\ Sent(x, n, PlainAppointment)
    BY ToAppointmentGives
  <2>4. AppointmentKeeps(x) = AppointmentKeeps(r)
    BY <2>1, <2>2, AppointmentBack, BackKeeps
  <2>5. AppointmentKeeps(r) = AppointmentKeeps(y)
    <3>1. /\ r.summary = y.summary /\ r.note = y.note /\ r.begin = y.begin
          /\ r.event = y.event /\ r.exceptions = y.exceptions /\ r.secret = y.secret
          /\ r.repeat = y.repeat /\ r.days = y.days /\ r.day = y.day
          /\ r.forever = y.forever /\ r.end = y.end
      BY <2>3 DEF Sent
    <3> QED BY <3>1 DEF AppointmentKeeps
  <2>6. Reminder(x) = Reminder(y)
    <3> PICK alarms \in Seq(Alarms) : alarms = desk.alarms
      BY <2>1, EventFields
    <3> PICK new : new = NewAlarms(r, alarms)
      OBVIOUS
    <3>1. n.alarms = new
      BY <2>1, <2>2, FromAppointmentGives DEF Fetched
    <3>2. r.alarm = (Remindable(alarms) # {})
      BY <2>3 DEF Sent
    <3>3. /\ Remindable(new) = {} <=> Remindable(alarms) = {}
          /\ Remindable(alarms) # {} => First(new) = First(alarms)
      BY <2>1, <3>2, FirstStays
    <3>4. /\ x.alarm = (Remindable(new) # {})
          /\ Remindable(new) = {} =>
               x.advance = PlainAppointment.advance /\ x.units = PlainAppointment.units
          /\ Remindable(new) # {} =>
               x.advance = Advance(First(new))[1] /\ x.units = Advance(First(new))[2]
      BY <2>3, <3>1 DEF Sent
    <3>5. /\ y.alarm = (Remindable(alarms) # {})
          /\ Remindable(alarms) = {} =>
               y.advance = PlainAppointment.advance /\ y.units = PlainAppointment.units
          /\ Remindable(alarms) # {} =>
               y.advance = Advance(First(alarms))[1] /\ y.units = Advance(First(alarms))[2]
      BY <2>3 DEF Sent
    <3>6. x.alarm = y.alarm /\ x.advance = y.advance /\ x.units = y.units
      BY <3>3, <3>4, <3>5
    <3> QED BY <3>6 DEF Reminder
  <2>7. /\ DesktopKeeps(n) = <<AppointmentKeeps(x), Reminder(x)>>
        /\ DesktopKeeps(desk) = <<AppointmentKeeps(y), Reminder(y)>>
    BY <1>1, Zenon DEF DesktopKeeps
  <2> QED BY <2>4, <2>5, <2>6, <2>7
<1>2. CASE kind = "task"
  <2>1. desk \in Tasks /\ n = FromTodo(ToTodo(desk), desk)
    BY <1>2 DEF Objects, ToPda, FromPda
  <2>2. n \in Tasks
    BY <2>1, ToTodoType, FromTodoType
  <2> DEFINE kept(d) ==
        [d EXCEPT !.priority = Coarse(PriorityForPda(@)), !.class = @ = "private",
                  !.percent = IF d.status = "completed" THEN 100
                              ELSE IF @ = 100 THEN 0 ELSE @]
  <2>3. DesktopKeeps(n) = kept(n) /\ DesktopKeeps(desk) = kept(desk)
    BY <1>2 DEF DesktopKeeps
  <2>4. ASSUME NEW d \in Tasks
        PROVE  kept(d) = [summary |-> d.summary, note |-> d.note, due |-> d.due,
                 status |-> d.status,
                 percent |-> IF d.status = "completed" THEN 100
                             ELSE IF d.percent = 100 THEN 0 ELSE d.percent,
                 priority |-> Coarse(PriorityForPda(d.priority)),
                 class |-> d.class = "private"]
    <3> PICK k : k = kept(d)
      OBVIOUS
    <3> PICK percent : percent = IF d.status = "completed" THEN 100
                                 ELSE IF d.percent = 100 THEN 0 ELSE d.percent
      OBVIOUS
    <3>1. d = [summary |-> d.summary, note |-> d.note, due |-> d.due, status |-> d.status,
               percent |-> d.percent, priority |-> d.priority, class |-> d.class]
      BY DEF Tasks
    <3>2. k = [d EXCEPT !.priority = Coarse(PriorityForPda(d.priority)),
                        !.class = d.class = "private", !.percent = percent]
      OBVIOUS
    <3>3. /\ k.summary = d.summary /\ k.note = d.note /\ k.due = d.due /\ k.status = d.status
          /\ k.percent = percent /\ k.priority = Coarse(PriorityForPda(d.priority))
          /\ k.class = (d.class = "private")
      BY <3>1, <3>2
    <3>4. k = [summary |-> k.summary, note |-> k.note, due |-> k.due, status |-> k.status,
               percent |-> k.percent, priority |-> k.priority, class |-> k.class]
      BY <3>1, <3>2
    <3> HIDE DEF kept
    <3> QED BY <3>3, <3>4
  <2> HIDE DEF kept
  <2>5. /\ n.summary = desk.summary /\ n.note = desk.note /\ n.due = desk.due
        /\ n.status = desk.status
        /\ n.percent = IF desk.status = "completed" THEN 100
                       ELSE IF desk.percent = 100 THEN 0 ELSE desk.percent
        /\ Coarse(PriorityForPda(n.priority)) = Coarse(PriorityForPda(desk.priority))
        /\ (n.class = "private") = (desk.class = "private")
    BY <2>1, TaskThereAndBack
  <2>6. (IF n.status = "completed" THEN 100 ELSE IF n.percent = 100 THEN 0 ELSE n.percent)
          = (IF desk.status = "completed" THEN 100
             ELSE IF desk.percent = 100 THEN 0 ELSE desk.percent)
    BY <2>5
  <2>7. kept(n) = kept(desk)
    BY <2>1, <2>2, <2>4, <2>5, <2>6
  <2> QED BY <2>3, <2>7
<1>3. CASE kind = "memo"
  <2>1. n = FromMemo(ToMemo(desk), desk)
    BY <1>3 DEF ToPda, FromPda
  <2> QED BY <1>3, <2>1, MemoThereAndBack DEF DesktopKeeps
<1> QED BY <1>1, <1>2, <1>3, Kind

(* What a round makes of an appointment, the next rounds keep: the order of *)
(* its exceptions is back after two more.                                   *)
LEMMA EventRound ==
  ASSUME NEW a \in Appointments, NEW c \in Events,
         NEW n \in Events, n = FromAppointment(a, c), NEW r, r = ToAppointment(n, a)
  PROVE  /\ r \in Appointments /\ Shaped(r) /\ Back(r, a)
         /\ r.alarm = (Remindable(n.alarms) # {})
<1>1. Sent(r, n, a)
  BY ToAppointmentGives
<1>2. Back(r, a)
  BY AppointmentBack
<1>3. r \in Appointments
  BY ToAppointmentType
<1> QED BY <1>1, <1>2, <1>3 DEF Sent

LEMMA EventRoundAgain ==
  ASSUME NEW a \in Appointments, NEW c \in Events, a.alarm = (Remindable(c.alarms) # {}),
         Remindable(c.alarms) # {} =>
           a.advance = Advance(First(c.alarms))[1] /\ a.units = Advance(First(c.alarms))[2],
         NEW n \in Events, n = FromAppointment(a, c), NEW r, r = ToAppointment(n, a)
  PROVE  /\ r.alarm = a.alarm /\ r.advance = a.advance /\ r.units = a.units
         /\ Remindable(n.alarms) # {} =>
              r.advance = Advance(First(n.alarms))[1] /\ r.units = Advance(First(n.alarms))[2]
<1> PICK alarms \in Seq(Alarms) : alarms = c.alarms
  BY EventFields
<1> PICK new : new = NewAlarms(a, alarms)
  OBVIOUS
<1>1. n.alarms = new
  BY FromAppointmentGives DEF Fetched
<1>2. /\ Remindable(new) = {} <=> Remindable(alarms) = {}
      /\ Remindable(alarms) # {} => First(new) = First(alarms)
  BY FirstStays
<1>3. Sent(r, n, a)
  BY ToAppointmentGives
<1>4. /\ r.alarm = (Remindable(new) # {})
      /\ Remindable(new) = {} => r.advance = a.advance /\ r.units = a.units
      /\ Remindable(new) # {} =>
           r.advance = Advance(First(new))[1] /\ r.units = Advance(First(new))[2]
  BY <1>1, <1>3 DEF Sent
<1> QED BY <1>1, <1>2, <1>4

LEMMA FromTodoNote ==
  ASSUME NEW r, NEW t, NEW n, n = FromTodo(r, t)
  PROVE  n.note = IF r.note = "none" THEN t.note ELSE r.note
BY DEF FromTodo

LEMMA RecordSettles ==
  ASSUME NEW k \in Kinds \ {"contact"}, NEW p \in Records(k), NEW o \in Objects(k),
         NEW o1, o1 = FromPda(k, p, o), NEW r1, r1 = ToPda(k, o1, p),
         NEW o2, o2 = FromPda(k, r1, o1), NEW r2, r2 = ToPda(k, o2, r1),
         NEW o3, o3 = FromPda(k, r2, o2), NEW r3, r3 = ToPda(k, o3, r2)
  PROVE  r3 = r1
<1>1. CASE k = "event"
  <2>1. /\ p \in Appointments /\ o \in Events
        /\ o1 = FromAppointment(p, o) /\ r1 = ToAppointment(o1, p)
        /\ o2 = FromAppointment(r1, o1) /\ r2 = ToAppointment(o2, r1)
        /\ o3 = FromAppointment(r2, o2) /\ r3 = ToAppointment(o3, r2)
    BY <1>1 DEF Objects, Records, FromPda, ToPda
  <2>2. o1 \in Events
    BY <2>1, FromAppointmentGives
  <2>3. /\ r1 \in Appointments /\ Shaped(r1) /\ Back(r1, p)
        /\ r1.alarm = (Remindable(o1.alarms) # {})
    BY <2>1, <2>2, EventRound
  <2>4. o2 \in Events
    BY <2>1, <2>2, <2>3, FromAppointmentGives
  <2>5. /\ r2 \in Appointments /\ Back(r2, r1)
        /\ r2.alarm = (Remindable(o2.alarms) # {})
    BY <2>1, <2>2, <2>3, <2>4, EventRound
  <2>6. o3 \in Events
    BY <2>1, <2>4, <2>5, FromAppointmentGives
  <2>7. Shaped(r3) /\ Back(r3, r2)
    BY <2>1, <2>4, <2>5, <2>6, EventRound
  <2>8. Remindable(o1.alarms) # {} =>
          r1.advance = Advance(First(o1.alarms))[1] /\ r1.units = Advance(First(o1.alarms))[2]
    <3>1. Sent(r1, o1, p)
      BY <2>1, ToAppointmentGives
    <3> QED BY <3>1 DEF Sent
  <2>9. /\ r2.alarm = r1.alarm /\ r2.advance = r1.advance /\ r2.units = r1.units
        /\ Remindable(o2.alarms) # {} =>
             r2.advance = Advance(First(o2.alarms))[1] /\ r2.units = Advance(First(o2.alarms))[2]
    BY <2>1, <2>2, <2>3, <2>4, <2>8, EventRoundAgain
  <2>10. r3.alarm = r2.alarm /\ r3.advance = r2.advance /\ r3.units = r2.units
    BY <2>1, <2>4, <2>5, <2>6, <2>9, EventRoundAgain
  <2>11. r3.exceptions = r1.exceptions
    <3>1. r1.exceptions \in Seq(Nat)
      BY <2>3, AppointmentFields
    <3>2. r3.exceptions = Reverse(Reverse(r1.exceptions))
      BY <2>5, <2>7 DEF Back
    <3> QED BY <3>1, <3>2, ReverseFacts
  <2>12. /\ r3.summary = r1.summary /\ r3.note = r1.note /\ r3.begin = r1.begin
         /\ r3.event = r1.event /\ r3.secret = r1.secret
         /\ r3.repeat = r1.repeat /\ r3.days = r1.days /\ r3.day = r1.day
         /\ r3.weekStart = r1.weekStart
    BY <2>3, <2>5, <2>7 DEF Back
  <2>13. r3.forever = r1.forever /\ r3.end = r1.end
    <3>1. /\ r1.forever = (p.forever /\ p.repeat # "none") /\ r1.repeat = p.repeat
          /\ r1.end = (IF p.repeat = "none" THEN 0 ELSE p.end)
      BY <2>3 DEF Back
    <3>2. /\ r2.forever = (r1.forever /\ r1.repeat # "none") /\ r2.repeat = r1.repeat
          /\ r2.end = (IF r1.repeat = "none" THEN 0 ELSE r1.end)
      BY <2>5 DEF Back
    <3>3. /\ r3.forever = (r2.forever /\ r2.repeat # "none")
          /\ r3.end = (IF r2.repeat = "none" THEN 0 ELSE r2.end)
      BY <2>7 DEF Back
    <3>4. r3.end = r1.end
      BY <3>1, <3>2, <3>3
    <3>5. r3.forever = r1.forever
      BY <3>1, <3>2, <3>3
    <3> QED BY <3>4, <3>5
  <2>14. r3.alarm = r1.alarm /\ r3.advance = r1.advance /\ r3.units = r1.units
    BY <2>9, <2>10
  <2>15. r3 = [summary |-> r1.summary, note |-> r1.note, begin |-> r1.begin, event |-> r1.event,
               repeat |-> r1.repeat, days |-> r1.days, day |-> r1.day,
               weekStart |-> r1.weekStart, forever |-> r1.forever, end |-> r1.end,
               exceptions |-> r1.exceptions, alarm |-> r1.alarm, advance |-> r1.advance,
               units |-> r1.units, secret |-> r1.secret]
    BY <2>7, <2>11, <2>12, <2>13, <2>14, Zenon DEF Shaped
  <2>16. r1 = [summary |-> r1.summary, note |-> r1.note, begin |-> r1.begin, event |-> r1.event,
               repeat |-> r1.repeat, days |-> r1.days, day |-> r1.day,
               weekStart |-> r1.weekStart, forever |-> r1.forever, end |-> r1.end,
               exceptions |-> r1.exceptions, alarm |-> r1.alarm, advance |-> r1.advance,
               units |-> r1.units, secret |-> r1.secret]
    BY <2>3, Zenon DEF Shaped
  <2> QED BY <2>15, <2>16, Zenon
<1>2. CASE k = "task"
  <2>1. /\ p \in Todos /\ o \in Tasks
        /\ o1 = FromTodo(p, o) /\ r1 = ToTodo(o1)
        /\ o2 = FromTodo(r1, o1) /\ r2 = ToTodo(o2)
        /\ o3 = FromTodo(r2, o2) /\ r3 = ToTodo(o3)
    BY <1>2 DEF Objects, Records, FromPda, ToPda
  <2>2. o1 \in Tasks /\ r1 \in Todos
    BY <2>1, FromTodoType, ToTodoType
  <2>3. o2 \in Tasks
    BY <2>1, <2>2, FromTodoType
  <2> PICK q \in 1 .. 5 : q = Coarse(p.priority) /\ Coarse(q) = q
    BY <2>1, TodoFields, CoarseTwice
  <2> PICK m : m = IF p.note = "none" THEN o.note ELSE p.note
    OBVIOUS
  <2>4. r1 = [p EXCEPT !.priority = q, !.note = m]
    <3>1. TodoKept(ToTodo(FromTodo(p, o)), p, o)
      BY <2>1, TodoThereAndBack
    <3> QED BY <2>1, <3>1, Zenon DEF TodoKept
  <2>5. p = [description |-> p.description, note |-> p.note, indefinite |-> p.indefinite,
             due |-> p.due, complete |-> p.complete, priority |-> p.priority, secret |-> p.secret]
    BY <2>1 DEF Todos
  <2>6. r1.priority = q /\ r1.note = m /\ o1.note = m
    <3>1. r1.priority = q /\ r1.note = m
      BY <2>4, <2>5
    <3>2. o1.note = m
      BY <2>1, FromTodoNote
    <3> QED BY <3>1, <3>2
  <2>7. r2 = [r1 EXCEPT !.priority = q, !.note = m]
    <3>1. r2 = [r1 EXCEPT !.priority = Coarse(r1.priority),
                          !.note = IF r1.note = "none" THEN o1.note ELSE r1.note]
      <4>1. TodoKept(ToTodo(FromTodo(r1, o1)), r1, o1)
        BY <2>2, TodoThereAndBack
      <4> QED BY <2>1, <4>1, Zenon DEF TodoKept
    <3>2. Coarse(r1.priority) = q /\ (IF r1.note = "none" THEN o1.note ELSE r1.note) = m
      BY <2>6
    <3> QED BY <3>1, <3>2, Zenon
  <2>8. r2 = r1
    <3>1. r1 = [description |-> r1.description, note |-> r1.note, indefinite |-> r1.indefinite,
                due |-> r1.due, complete |-> r1.complete, priority |-> r1.priority,
                secret |-> r1.secret]
      BY <2>2 DEF Todos
    <3>2. /\ r2.description = r1.description /\ r2.note = r1.note
          /\ r2.indefinite = r1.indefinite /\ r2.due = r1.due /\ r2.complete = r1.complete
          /\ r2.priority = r1.priority /\ r2.secret = r1.secret
      BY <2>6, <2>7, <3>1
    <3>3. r2 = [description |-> r2.description, note |-> r2.note, indefinite |-> r2.indefinite,
                due |-> r2.due, complete |-> r2.complete, priority |-> r2.priority,
                secret |-> r2.secret]
      BY <2>7, <3>1
    <3> QED BY <3>1, <3>2, <3>3
  <2>9. o2.note = m
    <3>1. o2.note = IF r1.note = "none" THEN o1.note ELSE r1.note
      BY <2>1, FromTodoNote
    <3> QED BY <2>6, <3>1
  <2>10. r3 = ToTodo(FromTodo(r1, o2))
    BY <2>1, <2>8, Zenon
  <2>11. r3 = [r1 EXCEPT !.priority = Coarse(r1.priority),
                         !.note = IF r1.note = "none" THEN o2.note ELSE r1.note]
    <3>1. TodoKept(ToTodo(FromTodo(r1, o2)), r1, o2)
      BY <2>2, <2>3, TodoThereAndBack
    <3> QED BY <2>10, <3>1, Zenon DEF TodoKept
  <2>12. Coarse(r1.priority) = q /\ (IF r1.note = "none" THEN o2.note ELSE r1.note) = m
    BY <2>6, <2>9
  <2>13. r3 = [r1 EXCEPT !.priority = q, !.note = m]
    BY <2>11, <2>12, Zenon
  <2> QED BY <2>7, <2>8, <2>13
<1>3. CASE k = "memo"
  <2>1. /\ p \in Notes /\ r1 = ToMemo(FromMemo(p, o)) /\ r2 = ToMemo(FromMemo(r1, o1))
        /\ r3 = ToMemo(FromMemo(r2, o2))
    BY <1>3 DEF Records, FromPda, ToPda
  <2>2. r1 = p
    BY <2>1, NoteThereAndBack
  <2>3. r2 = p
    BY <2>1, <2>2, NoteThereAndBack
  <2>4. r3 = p
    BY <2>1, <2>3, NoteThereAndBack
  <2> QED BY <2>2, <2>4
<1> QED BY <1>1, <1>2, <1>3, Kind

---------------------------------------------------------------------------
(* The inductive invariant: what was converted last is what the conversion  *)
(* gives.                                                                   *)

Converted ==
  /\ last = "fetched" => before \in Objects(kind) /\ desk = FromPda(kind, palm, before)
  /\ last = "sent" => before \in Records(kind) /\ palm = ToPda(kind, desk, before)

RecordInv == TypeOK /\ TableOK /\ Converted /\ CategoriesDistinct

LEMMA NumberSlotsFacts ==
  1 \in NumberSlots /\ NumberSlots \subseteq DOMAIN Labels
BY DEF NumberSlots, Labels

LEMMA PlainType ==
  ASSUME NEW k \in Kinds
  PROVE  PlainObject[k] \in Objects(k) /\ PlainRecord[k] \in Records(k)
<1> PICK a \in Texts : a = "a"
  BY TextsAssumption
<1> PICK none \in Texts : none = "none"
  BY TextsAssumption
<1>1. \A S : <<>> \in Seq(S)
  OBVIOUS
<1>2. CASE k = "event"
  <2>1. NoRule \in Rules
    BY DEF NoRule, Rules, WeekDays
  <2>2. PlainEvent = [summary |-> a, note |-> none, start |-> 1, span |-> "hours",
          rule |-> NoRule, exdates |-> <<>>, alarms |-> <<>>, class |-> "public"]
    BY DEF PlainEvent
  <2>3. PlainEvent \in Events
    BY <1>1, <2>1, <2>2 DEF Events, Classes
  <2>4. PlainAppointment = [summary |-> a, note |-> none, begin |-> 1, event |-> FALSE,
          repeat |-> "none", days |-> {}, day |-> 0, weekStart |-> 0,
          forever |-> FALSE, end |-> 0, exceptions |-> <<>>,
          alarm |-> FALSE, advance |-> 0, units |-> "minutes", secret |-> FALSE]
    BY DEF PlainAppointment
  <2>5. 0 \in 0 .. DomLastSun + 6 /\ 0 \in WeekDays /\ "minutes" \in Units
    BY DEF DomLastSun, WeekDays, Units
  <2>6. PlainAppointment \in Appointments
    <3> PICK x : x = PlainAppointment
      OBVIOUS
    <3>1. x = [summary |-> a, note |-> none, begin |-> 1, event |-> FALSE,
               repeat |-> "none", days |-> {}, day |-> 0, weekStart |-> 0,
               forever |-> FALSE, end |-> 0, exceptions |-> <<>>,
               alarm |-> FALSE, advance |-> 0, units |-> "minutes", secret |-> FALSE]
      BY <2>4
    <3>2. x.repeat = "none" /\ x.days = {} /\ x.day = 0 /\ x.forever = FALSE /\ x.end = 0
      BY <3>1
    <3>3. /\ x.summary \in Texts /\ x.note \in Texts /\ x.begin \in Nat \ {0} /\ x.event \in BOOLEAN
          /\ x.days \in SUBSET WeekDays /\ x.day \in 0 .. DomLastSun + 6 /\ x.weekStart \in WeekDays
          /\ x.forever \in BOOLEAN /\ x.end \in Nat
      BY <2>5, <3>1
    <3>4. /\ x.exceptions \in Seq(Nat) /\ x.alarm \in BOOLEAN /\ x.advance \in Nat
          /\ x.units \in Units /\ x.secret \in BOOLEAN
      BY <1>1, <2>5, <3>1
    <3>5. Shaped(x)
      BY <3>1 DEF Shaped
    <3>6. x \in [summary: Texts, note: Texts, begin: Nat \ {0}, event: BOOLEAN,
                 repeat: {"none", "daily", "weekly", "monthly by day", "monthly by date", "yearly"},
                 days: SUBSET WeekDays, day: 0 .. DomLastSun + 6, weekStart: WeekDays,
                 forever: BOOLEAN, end: Nat, exceptions: Seq(Nat),
                 alarm: BOOLEAN, advance: Nat, units: Units, secret: BOOLEAN]
      BY <3>2, <3>3, <3>4, <3>5 DEF Shaped
    <3>7. ProperRepeat(x)
      BY <3>2, Zenon DEF ProperRepeat
    <3> QED BY <3>6, <3>7 DEF Appointments
  <2> QED BY <1>2, <2>3, <2>6 DEF Objects, Records, PlainObject, PlainRecord
<1>3. CASE k = "task"
  <2>1. PlainTask = [summary |-> a, note |-> none, due |-> 0, status |-> "needs action",
                     percent |-> 0, priority |-> 0, class |-> "public"]
    BY DEF PlainTask
  <2>2. 0 \in 0 .. 100 /\ 0 \in 0 .. 9 /\ 1 \in 1 .. 5
    OBVIOUS
  <2>3. PlainTask \in Tasks
    BY <2>1, <2>2 DEF Tasks
  <2>4. PlainTodo = [description |-> a, note |-> none, indefinite |-> TRUE, due |-> 0,
                     complete |-> FALSE, priority |-> 1, secret |-> FALSE]
    BY DEF PlainTodo
  <2>5. PlainTodo \in Todos
    BY <2>2, <2>4 DEF Todos
  <2> QED BY <1>3, <2>3, <2>5 DEF Objects, Records, PlainObject, PlainRecord
<1>4. CASE k = "memo"
  <2>1. <<a>> \in Seq(Texts)
    OBVIOUS
  <2>2. PlainMemo = [summary |-> a, text |-> <<a>>, class |-> "public"]
    BY DEF PlainMemo
  <2>3. PlainNote = [text |-> <<a>>, secret |-> FALSE]
    BY DEF PlainNote
  <2>4. PlainMemo \in Memos /\ PlainNote \in Notes
    BY <2>1, <2>2, <2>3 DEF Memos, Notes
  <2> QED BY <1>4, <2>4 DEF Objects, Records, PlainObject, PlainRecord
<1>5. CASE k = "contact"
  <2> PICK empty \in Texts : empty = ""
    BY TextsAssumption
  <2>1. PlainContact = [name |-> a, company |-> empty, fileAs |-> a, note |-> empty,
          addresses |-> [x \in ToSet(Addresses) |-> <<>>], numbers |-> [f \in Fields |-> empty]]
    BY DEF PlainContact
  <2>2. PlainContact \in Contacts
    BY <1>1, <2>1 DEF Contacts
  <2>3. \A i \in NumberSlots : Labels[i] \in ToSet(Labels)
    <3> SUFFICES ASSUME NEW i \in NumberSlots PROVE Labels[i] \in ToSet(Labels)
      OBVIOUS
    <3>1. i \in DOMAIN Labels
      BY NumberSlotsFacts
    <3> QED BY <3>1, Zenon DEF ToSet
  <2> PICK numbers : numbers = [i \in NumberSlots |-> [label |-> Labels[i], text |-> empty]]
    OBVIOUS
  <2>4. numbers \in [NumberSlots -> [label: ToSet(Labels), text: Texts]]
    BY <2>3
  <2>5. PlainAddress = [name |-> a, company |-> empty, note |-> empty, address |-> <<>>,
          custom |-> empty, numbers |-> numbers, show |-> 1, secret |-> FALSE]
    BY DEF PlainAddress
  <2>6. 1 \in NumberSlots
    BY NumberSlotsFacts, Zenon
  <2>7. PlainAddress \in AddressRecords
    BY <1>1, <2>4, <2>5, <2>6 DEF AddressRecords
  <2> QED BY <1>5, <2>2, <2>7 DEF Objects, Records, PlainObject, PlainRecord
<1> QED BY <1>2, <1>3, <1>4, <1>5, Kind

LEMMA EmptyTableOK ==
  /\ EmptyTable \in Table /\ EmptyTable.names[0] = "Unfiled" /\ EmptyTable.ids[0] = 0
  /\ \A i \in Slot \ {0} : EmptyTable.names[i] = ""
BY SlotFacts DEF EmptyTable, Table

LEMMA RecordInvHolds ==
  Init => RecordInv
<1> SUFFICES ASSUME Init PROVE RecordInv
  OBVIOUS
<1>1. TypeOK
  <2>1. desk \in Objects(kind) /\ palm \in Records(kind)
    BY PlainType DEF Init
  <2>2. slot \in Slot /\ table \in Table /\ cats \in Seq(Names)
    <3>1. <<>> \in Seq(Names)
      OBVIOUS
    <3> QED BY <3>1, SlotFacts, EmptyTableOK DEF Init
  <2>3. edits \in 0 .. MaxEdits
    BY EditsAssumption DEF Init
  <2> QED BY <2>1, <2>2, <2>3 DEF Init, TypeOK
<1>2. TableOK
  BY SlotFacts, EmptyTableOK DEF Init, TableOK
<1>3. Converted
  BY DEF Init, Converted
<1>4. CategoriesDistinct
  <2>1. \A i \in Slot \ Free(table) : i = 0
    BY EmptyTableOK DEF Init, Free
  <2> QED BY <2>1, Zenon DEF CategoriesDistinct
<1> QED BY <1>1, <1>2, <1>3, <1>4 DEF RecordInv

---------------------------------------------------------------------------
(* Every step keeps it.                                                     *)

LEMMA TableIs == TableOK <=> Proper(table, slot)
BY DEF TableOK, Proper

LEMMA ConvertedByEdit ==
  ASSUME last' = "edit"
  PROVE  Converted'
BY DEF Converted

LEMMA RecordInvStep ==
  RecordInv /\ [Next]_vars => RecordInv'
<1> SUFFICES ASSUME RecordInv, [Next]_vars PROVE RecordInv'
  OBVIOUS
<1>1. /\ kind \in Kinds /\ desk \in Objects(kind) /\ palm \in Records(kind)
      /\ cats \in Seq(Names) /\ slot \in Slot /\ table \in Table
      /\ last \in {"edit", "sent", "fetched"} /\ edits \in 0 .. MaxEdits /\ MaxEdits \in Nat
  BY EditsAssumption DEF RecordInv, TypeOK
<1>2. Proper(table, slot) /\ Distinct(kind, table)
  BY TableIs, DistinctIs DEF RecordInv
<1>3. Edit => /\ last' = "edit" /\ edits' \in 0 .. MaxEdits /\ Converted'
  BY <1>1, ConvertedByEdit DEF Edit
<1> SUFFICES /\ kind' = kind /\ desk' \in Objects(kind) /\ palm' \in Records(kind)
             /\ cats' \in Seq(Names) /\ last' \in {"edit", "sent", "fetched"}
             /\ edits' \in 0 .. MaxEdits
             /\ Proper(table', slot') /\ Distinct(kind, table')
             /\ Converted'
  <2> SUFFICES ASSUME /\ kind' = kind /\ desk' \in Objects(kind) /\ palm' \in Records(kind)
                      /\ cats' \in Seq(Names) /\ last' \in {"edit", "sent", "fetched"}
                      /\ edits' \in 0 .. MaxEdits
                      /\ Proper(table', slot') /\ Distinct(kind, table')
                      /\ Converted'
               PROVE  RecordInv'
    OBVIOUS
  <2>1. slot' \in Slot /\ table' \in Table
    BY DEF Proper
  <2>2. TypeOK'
    BY <1>1, <2>1 DEF TypeOK
  <2>3. TableOK'
    BY DEF TableOK, Proper
  <2>4. CategoriesDistinct'
    BY Zenon DEF CategoriesDistinct, Distinct
  <2> QED BY <2>2, <2>3, <2>4 DEF RecordInv
<1>4. CASE \E v \in DeskValues[kind] : EditObject(v)
  <2> PICK v \in DeskValues[kind] : EditObject(v)
    BY <1>4
  <2>1. /\ Edit /\ desk' = Changed(desk, v)
        /\ UNCHANGED <<kind, cats, palm, slot, table>>
    BY DEF EditObject
  <2>2. desk' \in Objects(kind)
    BY <1>1, <2>1, ObjectChange
  <2> QED BY <1>1, <1>2, <1>3, <2>1, <2>2
<1>5. CASE \E v \in PdaValues[kind] : EditRecord(v)
  <2> PICK v \in PdaValues[kind] : EditRecord(v)
    BY <1>5
  <2>1. /\ Edit /\ palm' = Changed(palm, v)
        /\ UNCHANGED <<kind, desk, cats, slot, table>>
    BY DEF EditRecord
  <2>2. palm' \in Records(kind)
    BY <1>1, <2>1, RecordChange
  <2> QED BY <1>1, <1>2, <1>3, <2>1, <2>2
<1>6. CASE \E n \in Names : EditCategories(n)
  <2> PICK n \in Names : EditCategories(n)
    BY <1>6
  <2>1. /\ Edit /\ cats' = ToFront(n, cats)
        /\ UNCHANGED <<kind, desk, palm, slot, table>>
    BY DEF EditCategories
  <2>2. cats' \in Seq(Names)
    BY <1>1, <2>1, ToFrontType
  <2> QED BY <1>1, <1>2, <1>3, <2>1, <2>2
<1>7. CASE \E i \in Slot : EditCategory(i)
  <2> PICK i \in Slot : EditCategory(i)
    BY <1>7
  <2>1. /\ Edit /\ i \notin Free(table) /\ slot' = i
        /\ UNCHANGED <<kind, desk, cats, palm, table>>
    BY DEF EditCategory
  <2>2. i = 0 \/ table.names[i] \in Names
    BY <1>2, <2>1 DEF Proper, Free
  <2>3. Proper(table, i)
    BY <1>2, <2>2 DEF Proper
  <2> QED BY <1>1, <1>2, <1>3, <2>1, <2>3
<1>8. CASE \E i \in Slot : DropCategory(i)
  <2> PICK i \in Slot : DropCategory(i)
    BY <1>8
  <2>1. /\ Edit /\ i # 0 /\ table' = [table EXCEPT !.names[i] = ""]
        /\ slot' = IF slot = i THEN 0 ELSE slot
        /\ UNCHANGED <<kind, desk, cats, palm>>
    BY DEF DropCategory
  <2>2. /\ Proper([table EXCEPT !.names[i] = ""], IF slot = i THEN 0 ELSE slot)
        /\ Distinct(kind, [table EXCEPT !.names[i] = ""])
    BY <1>1, <1>2, <2>1, DropKeeps
  <2>3. Proper(table', slot') /\ Distinct(kind, table')
    BY <2>1, <2>2, Zenon
  <2> QED BY <1>1, <1>3, <2>1, <2>3
<1>9. CASE Send
  <2>1. /\ slot' = CategoryToPda(kind, cats, table).slot
        /\ table' = CategoryToPda(kind, cats, table).table
        /\ palm' = ToPda(kind, desk, palm) /\ last' = "sent" /\ before' = palm
        /\ UNCHANGED <<kind, desk, cats, edits>>
    BY <1>9 DEF Send
  <2>2. Proper(table', slot') /\ Distinct(kind, table')
    BY <1>1, <1>2, <2>1, CategoryKeeps
  <2>3. palm' \in Records(kind)
    BY <1>1, <2>1, ToPdaType
  <2>4. Converted'
    <3>1. before' \in Records(kind') /\ palm' = ToPda(kind', desk', before')
      BY <1>1, <2>1
    <3> QED BY <2>1, <3>1 DEF Converted
  <2> QED BY <1>1, <2>1, <2>2, <2>3, <2>4
<1>10. CASE Fetch
  <2>1. /\ desk' = FromPda(kind, palm, desk) /\ cats' = ToDesktop(slot, cats, table)
        /\ last' = "fetched" /\ before' = desk
        /\ UNCHANGED <<kind, palm, slot, table, edits>>
    BY <1>10 DEF Fetch
  <2>2. desk' \in Objects(kind)
    BY <1>1, <2>1, FromPdaType
  <2>3. cats' \in Seq(Names)
    BY <1>1, <1>2, <2>1, ToDesktopType
  <2>4. Converted'
    <3>1. before' \in Objects(kind') /\ desk' = FromPda(kind', palm', before')
      BY <1>1, <2>1
    <3> QED BY <2>1, <3>1 DEF Converted
  <2> QED BY <1>1, <1>2, <2>1, <2>2, <2>3, <2>4
<1>11. CASE UNCHANGED vars
  <2>1. /\ kind' = kind /\ desk' = desk /\ cats' = cats /\ palm' = palm /\ slot' = slot
        /\ table' = table /\ last' = last /\ before' = before /\ edits' = edits
    BY <1>11 DEF vars
  <2>2. Converted'
    BY <2>1 DEF RecordInv, Converted
  <2> QED BY <1>1, <1>2, <2>1, <2>2
<1> QED BY <1>4, <1>5, <1>6, <1>7, <1>8, <1>9, <1>10, <1>11 DEF Next

---------------------------------------------------------------------------
(* The inductive invariant holds, whatever the users change on either side, *)
(* and in whatever order records are sent and fetched.                      *)
THEOREM RecordsCorrect == Spec => []RecordInv
<1>1. Init => RecordInv
  BY RecordInvHolds
<1>2. RecordInv /\ [Next]_vars => RecordInv'
  BY RecordInvStep
<1> QED BY <1>1, <1>2, PTL DEF Spec

(* The conversions of the four conduits never give a record or an object    *)
(* that its format does not have: a day of a repeat that is none of the     *)
(* PDA's, a priority outside of 1 to 5, a number under no label, an id of a *)
(* category over 255, a slot that the table has not.                        *)
THEOREM RecordTypes == Spec => []TypeOK
<1>1. RecordInv => TypeOK
  BY DEF RecordInv
<1> QED BY RecordsCorrect, <1>1, PTL

(* e_pilot_add_category_if_possible never gives two slots of a table one    *)
(* name, but for names it cuts off and "Unfiled", and for contacts never two*)
(* slots one id: of 128 ids one is left, as a table has at most 16 slots.   *)
THEOREM TableKeepsApart == Spec => []CategoriesDistinct
<1>1. RecordInv => CategoriesDistinct
  BY DEF RecordInv
<1> QED BY RecordsCorrect, <1>1, PTL

(* An event, a task or a memo that was fetched and is sent again unchanged  *)
(* is what it was on the PDA, whatever the desktop held in its place.       *)
THEOREM RecordsSurvive == Spec => [](kind # "contact" => PdaSurvives)
<1>1. RecordInv => (kind # "contact" => PdaSurvives)
  <2> SUFFICES ASSUME RecordInv, kind # "contact", last = "fetched",
                      kind = "task" => palm.note # "none" \/ before.note = "none"
               PROVE  PdaKeeps(ToPda(kind, desk, palm)) = PdaKeeps(palm)
    BY DEF PdaSurvives
  <2>1. kind \in Kinds \ {"contact"} /\ palm \in Records(kind)
    BY DEF RecordInv, TypeOK
  <2>2. before \in Objects(kind) /\ desk = FromPda(kind, palm, before)
    BY DEF RecordInv, Converted
  <2>3. PdaKeeps(ToPda(kind, FromPda(kind, palm, before), palm)) = PdaKeeps(palm)
    BY <2>1, <2>2, PdaKept
  <2> QED BY <2>2, <2>3, Zenon
<1> QED BY RecordsCorrect, <1>1, PTL

(* One that was sent and is fetched again unchanged is what it was on the   *)
(* desktop, whatever the PDA held in its place: its repeat, its exceptions  *)
(* and its reminder, its status and its priority.                           *)
THEOREM ObjectsSurvive == Spec => [](kind # "contact" => DesktopSurvives)
<1>1. RecordInv => (kind # "contact" => DesktopSurvives)
  <2> SUFFICES ASSUME RecordInv, kind # "contact", last = "sent"
               PROVE  DesktopKeeps(FromPda(kind, palm, desk)) = DesktopKeeps(desk)
    BY DEF DesktopSurvives
  <2>1. kind \in Kinds \ {"contact"} /\ desk \in Objects(kind)
    BY DEF RecordInv, TypeOK
  <2>2. before \in Records(kind) /\ palm = ToPda(kind, desk, before)
    BY DEF RecordInv, Converted
  <2>3. DesktopKeeps(FromPda(kind, ToPda(kind, desk, before), desk)) = DesktopKeeps(desk)
    BY <2>1, <2>2, DesktopKept
  <2> QED BY <2>2, <2>3, Zenon
<1> QED BY RecordsCorrect, <1>1, PTL

(* Record and object come to rest after one round: the rounds that follow,  *)
(* as slow synchronizations make them, do not change the record for good.   *)
THEOREM RoundsSettle == Spec => []Settles
<1>1. RecordInv => Settles
  <2> SUFFICES ASSUME RecordInv, kind # "contact" PROVE Settles
    BY DEF Settles
  <2>1. kind \in Kinds \ {"contact"} /\ palm \in Records(kind) /\ desk \in Objects(kind)
    BY DEF RecordInv, TypeOK
  <2> PICK once : once = Round(palm, desk)
    OBVIOUS
  <2> PICK twice : twice = Round(once.record, once.object)
    OBVIOUS
  <2> PICK thrice : thrice = Round(twice.record, twice.object)
    OBVIOUS
  <2>2. /\ once.object = FromPda(kind, palm, desk)
        /\ once.record = ToPda(kind, once.object, palm)
        /\ twice.object = FromPda(kind, once.record, once.object)
        /\ twice.record = ToPda(kind, twice.object, once.record)
        /\ thrice.object = FromPda(kind, twice.record, twice.object)
        /\ thrice.record = ToPda(kind, thrice.object, twice.record)
    BY DEF Round
  <2>3. thrice.record = once.record
    BY <2>1, <2>2, RecordSettles
  <2> QED BY <2>3, Zenon DEF Settles
<1> QED BY RecordsCorrect, <1>1, PTL
=============================================================================
