-------------------------- MODULE RecordSyncProofs --------------------------
(***************************************************************************)
(* Proofs about RecordSync that hold wherever the link breaks, for any     *)
(* ids, places, contents and bounds: the types, which need that the PDA    *)
(* never runs out of the ids it is asked for, and that no record of the PDA*)
(* has two counterparts on the PC.                                         *)
(***************************************************************************)
EXTENDS RecordSync, FiniteSetTheorems, WellFoundedInduction, TLAPS

(* A nonempty set of numbers has a least one. *)
LEMMA LeastIsIn ==
  ASSUME NEW S \in SUBSET Nat, S # {}
  PROVE  Least(S) \in S /\ \A m \in S : Least(S) <= m
<1>1. PICK x \in S : \A y \in S : x <= y
  <2> DEFINE less == {ss \in Nat \X Nat : ss[1] < ss[2]}
  <2>1. IsWellFoundedOn(less, Nat)
    BY NatLessThanWellFounded, Zenon DEF OpToRel
  <2>2. \A m, n \in Nat : m < n => <<m, n>> \in less
    OBVIOUS
  <2> HIDE DEF less
  <2>3. PICK x \in S : \A y \in S : ~ (<<y, x>> \in less)
    BY <2>1, WFMin
  <2>4. \A y \in S : ~ (y < x)
    BY <2>2, <2>3
  <2>5. \A y \in S : x <= y
    BY <2>4
  <2> QED BY <2>5
<1> QED BY <1>1 DEF Least

(* Places and ids are numbers; no place and no id is 0. *)
LEMMA Numbered ==
  /\ \A S \in SUBSET Ids : S # {} => Least(S) \in S /\ \A m \in S : Least(S) <= m
  /\ \A S \in SUBSET Keys : S # {} => Least(S) \in S /\ \A m \in S : Least(S) <= m
  /\ Unassigned \notin Ids /\ 0 \notin Keys /\ 0 \notin Ids
BY IdsAssumption, LeastIsIn DEF Unassigned

(* The verdict's operations, by what the code says of the two records. *)
LEMMA VerdictFacts ==
  ASSUME NEW rem \in PilotRecord, NEW loc \in LocalRecord \cup {None}
  PROVE  /\ loc = None => Verdict(loc, rem) \subseteq {"archiveRemote", "store"}
         /\ "add" \in Verdict(loc, rem) => loc.attr = "Modified"
         /\ "store" \in Verdict(loc, rem) => loc = None \/ rem.attr = "Modified"
<1>1. CASE loc = None
  BY <1>1 DEF Verdict
<1>2. CASE loc # None
  <2> PICK p : p = rem.attr
    OBVIOUS
  <2> PICK l : l = loc.attr
    OBVIOUS
  <2> PICK same : same = (loc.data = rem.data)
    OBVIOUS
  <2>1. ASSUME "add" \in Verdict(loc, rem) PROVE l = "Modified"
    BY <1>2, <2>1, Zenon DEF Verdict
  <2>2. ASSUME "store" \in Verdict(loc, rem) PROVE p = "Modified"
    BY <1>2, <2>2 DEF Verdict
  <2> QED BY <1>2, <2>1, <2>2
<1> QED BY <1>1, <1>2

Places == [Keys -> LocalRecord \cup {None}]
Database == [Ids -> PilotRecord \cup {None}]

(* What the conduit and the PDA are told keeps their types. *)
LEMMA StoreTypes ==
  ASSUME NEW store \in Places, NEW id \in Ids \cup {Unassigned},
         NEW v \in Values \cup {None}
  PROVE  StoreRemote(store, id, v) \in Places
BY DEF StoreRemote, Places, LocalRecord, LocalOf

(* A purged store is a store. *)
LEMMA PurgeTypes ==
  ASSUME NEW store \in Places
  PROVE  Purge(store) \in Places
BY DEF Purge, Places

(* A cleaned up database is a database. *)
LEMMA CleanUpTypes ==
  ASSUME NEW db \in Database
  PROVE  CleanUp(db) \in Database
BY DEF CleanUp, Database, PilotRecord, Clean

(* The ids of the records on both sides are ids the PDA has given; a new    *)
(* record has none yet.                                                     *)
KeptIds ==
  /\ \A i \in Ids : remote[i] # None => i \in given
  /\ \A k \in Keys : local[k] # None =>
       /\ local[k].id \in given \cup {Unassigned}
       /\ local[k].attr = "New" => local[k].id = Unassigned

(* There are ids for the records without one, and a second one for those    *)
(* that are modified: they are written, without learning their id, once more*)
(* than they are sent.                                                      *)
IdsSuffice ==
  Cardinality(given) + Cardinality(Unsent) + Cardinality(Resent) <= Cardinality(Ids)

(* The inductive invariant: ids given once are what keeps a record from a   *)
(* second counterpart, and that there is one left is what keeps the types.  *)
IInv ==
  /\ TypeOK
  /\ KeptIds
  /\ IdsSuffice
  /\ OneCounterpart

(* The bounds count finite sets. *)
LEMMA Counts ==
  ASSUME TypeOK
  PROVE  /\ IsFiniteSet(given) /\ IsFiniteSet(Unsent) /\ IsFiniteSet(Resent)
         /\ Cardinality(given) \in Nat /\ Cardinality(Unsent) \in Nat
         /\ Cardinality(Resent) \in Nat /\ Cardinality(Ids) \in Nat
         /\ Resent \subseteq Unsent
<1>1. given \subseteq Ids /\ Unsent \subseteq Keys /\ Resent \subseteq Unsent
  BY DEF TypeOK, Unsent, Resent, Matching
<1>2. IsFiniteSet(given) /\ IsFiniteSet(Unsent) /\ IsFiniteSet(Resent)
  BY <1>1, IdsAssumption, FS_Subset
<1> QED BY <1>1, <1>2, IdsAssumption, FS_CardinalityType

(* A set that has lost an element is smaller. *)
LEMMA Smaller ==
  ASSUME NEW T, IsFiniteSet(T), NEW S \in SUBSET T
  PROVE  /\ IsFiniteSet(S) /\ Cardinality(S) \in Nat /\ Cardinality(T) \in Nat
         /\ Cardinality(S) <= Cardinality(T)
         /\ \A x \in T : x \notin S => Cardinality(S) <= Cardinality(T) - 1
<1>1. IsFiniteSet(S) /\ Cardinality(S) <= Cardinality(T)
  BY FS_Subset
<1>2. Cardinality(S) \in Nat /\ Cardinality(T) \in Nat
  BY <1>1, FS_CardinalityType
<1>3. ASSUME NEW x \in T, x \notin S PROVE Cardinality(S) <= Cardinality(T) - 1
  <2>1. S \subseteq T \ {x} /\ IsFiniteSet(T \ {x})
    BY <1>3, FS_RemoveElement
  <2>2. Cardinality(T \ {x}) = Cardinality(T) - 1
    BY FS_RemoveElement
  <2> QED BY <2>1, <2>2, FS_Subset
<1> QED BY <1>1, <1>2, <1>3

(* While a record waits for an id, the PDA has one to give. *)
LEMMA FreshId ==
  ASSUME TypeOK, Cardinality(given) < Cardinality(Ids)
  PROVE  Least(Ids \ given) \in Ids \ given
<1>1. given \subseteq Ids
  BY DEF TypeOK
<1>2. Ids \ given # {}
  <2>1. SUFFICES ASSUME Ids \ given = {} PROVE FALSE
    OBVIOUS
  <2>2. given = Ids
    BY <1>1, <2>1
  <2> QED BY <2>2, Counts
<1> QED BY <1>2, Numbered

(* While a record of the store has no id, the PDA has one left. *)
LEMMA SufficeForUnsent ==
  ASSUME TypeOK, IdsSuffice, NEW k \in Unsent
  PROVE  Cardinality(given) < Cardinality(Ids)
<1>1. Cardinality(Unsent) >= 1
  <2>1. {} \in SUBSET Unsent
    OBVIOUS
  <2>2. Cardinality({}) <= Cardinality(Unsent) - 1
    BY Smaller, Counts
  <2> QED BY <2>2, FS_EmptySet, Counts
<1> QED BY <1>1, Counts DEF IdsSuffice

(* One more element makes a finite set larger by one at most. *)
LEMMA AtMostOneMore ==
  ASSUME NEW S, NEW x, IsFiniteSet(S), Cardinality(S) \in Nat
  PROVE  /\ Cardinality(S \cup {x}) \in Nat
         /\ Cardinality(S \cup {x}) <= Cardinality(S) + 1
<1>1. Cardinality(S \cup {x}) = IF x \in S THEN Cardinality(S) ELSE Cardinality(S) + 1
  BY FS_AddElement, Zenon
<1> QED BY <1>1

(* What keeps the ids sufficient: an id is given for a record that needed it.*)
LEMMA StillSuffice ==
  ASSUME TypeOK, TypeOK', IdsSuffice,
         Unsent' \subseteq Unsent, Resent' \subseteq Resent,
         \/ given' = given
         \/ \E i : /\ given' = given \cup {i}
                   /\ \/ \E k \in Unsent : k \notin Unsent'
                      \/ \E k \in Resent : k \notin Resent'
  PROVE  IdsSuffice'
<1>1. /\ IsFiniteSet(Unsent) /\ IsFiniteSet(Resent) /\ IsFiniteSet(given)
      /\ Cardinality(given) \in Nat /\ Cardinality(Ids) \in Nat
  BY Counts
<1>2. /\ Cardinality(Unsent') \in Nat /\ Cardinality(Unsent) \in Nat
      /\ Cardinality(Unsent') <= Cardinality(Unsent)
      /\ \A x \in Unsent : x \notin Unsent' =>
           Cardinality(Unsent') <= Cardinality(Unsent) - 1
  BY <1>1, Smaller
<1>3. /\ Cardinality(Resent') \in Nat /\ Cardinality(Resent) \in Nat
      /\ Cardinality(Resent') <= Cardinality(Resent)
      /\ \A x \in Resent : x \notin Resent' =>
           Cardinality(Resent') <= Cardinality(Resent) - 1
  BY <1>1, Smaller
<1>4. ASSUME NEW i, given' = given \cup {i}
      PROVE  /\ Cardinality(given') \in Nat
             /\ Cardinality(given') <= Cardinality(given) + 1
  <2>1. /\ Cardinality(given \cup {i}) \in Nat
        /\ Cardinality(given \cup {i}) <= Cardinality(given) + 1
    BY ONLY <1>1, AtMostOneMore
  <2> QED BY <1>4, <2>1
<1>5. CASE given' = given
  BY <1>1, <1>2, <1>3, <1>5 DEF IdsSuffice
<1>6. ASSUME NEW i, given' = given \cup {i},
             \/ \E k \in Unsent : k \notin Unsent'
             \/ \E k \in Resent : k \notin Resent'
      PROVE  IdsSuffice'
  <2>1. \/ Cardinality(Unsent') <= Cardinality(Unsent) - 1
        \/ Cardinality(Resent') <= Cardinality(Resent) - 1
    BY <1>2, <1>3, <1>6
  <2>2. /\ Cardinality(given') \in Nat
        /\ Cardinality(given') <= Cardinality(given) + 1
    BY <1>4, <1>6
  <2> QED BY <1>1, <1>2, <1>3, <2>1, <2>2 DEF IdsSuffice
<1> QED BY <1>5, <1>6

(* What standard_abs_sync_record is called for: a record id of the PDA, as  *)
(* it was read, and its counterpart on the PC if it has one.                *)
Counterparts(k, id, rem) ==
  /\ k \in Keys \cup {0}
  /\ id \in given \cup {Unassigned}
  /\ rem \in PilotRecord
  /\ k = 0 => id # Unassigned /\ Matching(local, id) = {}
  /\ k # 0 => local[k] # None /\ local[k].id = id
  /\ id = Unassigned => rem = Clean(None)

(* The store before the record of the PDA is stored in it. *)
Prepared(k, ops) ==
  IF ops \cap {"archiveRemote", "archiveLocal"} # {} /\ k # 0
    THEN [local EXCEPT ![k] = None]
  ELSE IF "markDeleted" \in ops THEN [local EXCEPT ![k].attr = "Deleted"]
  ELSE IF ops \cap {"add", "clear"} # {} THEN [local EXCEPT ![k].attr = "Nothing"]
  ELSE local

(* A record that is sent without an id is one the PDA has an id for. *)
LEMMA SentIdIsGiven ==
  ASSUME IInv, NEW k, NEW id, NEW rem, Counterparts(k, id, rem),
         id = Unassigned => k \in Resent
  PROVE  /\ AssignedId(id) \in Ids
         /\ id # Unassigned => AssignedId(id) = id
         /\ id = Unassigned => AssignedId(id) \notin given
<1>1. given \subseteq Ids
  BY DEF IInv, TypeOK
<1>2. CASE id # Unassigned
  BY <1>1, <1>2 DEF AssignedId, Counterparts
<1>3. CASE id = Unassigned
  <2>1. k \in Unsent
    BY <1>3 DEF Resent
  <2>2. Cardinality(given) < Cardinality(Ids)
    BY <2>1, SufficeForUnsent DEF IInv
  <2> QED BY <1>3, <2>2, FreshId DEF AssignedId, IInv
<1> QED BY <1>2, <1>3

(* Before the store, a session touches one place only. *)
LEMMA PreparedTypes ==
  ASSUME TypeOK, NEW k \in Keys \cup {0}, NEW ops,
         k # 0 => local[k] # None,
         k = 0 => ops \subseteq {"archiveRemote", "store"}
  PROVE  /\ Prepared(k, ops) \in Places
         /\ \A j \in Keys : j # k => Prepared(k, ops)[j] = local[j]
         /\ k # 0 /\ Prepared(k, ops)[k] # None =>
              /\ Prepared(k, ops)[k].id = local[k].id
              /\ \/ Prepared(k, ops)[k] = local[k]
                 \/ Prepared(k, ops)[k].attr \in {"Nothing", "Deleted"}
<1>1. local \in Places
  BY DEF TypeOK, Places
<1>2. CASE k = 0
  <2>1. Prepared(k, ops) = local
    BY <1>2 DEF Prepared
  <2> QED BY <1>1, <1>2, <2>1
<1>3. CASE k \in Keys /\ local[k] # None
  <2>1. local[k] \in LocalRecord
    BY <1>1, <1>3 DEF Places
  <2>2. ASSUME NEW a \in {"Nothing", "Deleted"}, NEW q,
               q = [local EXCEPT ![k].attr = a]
        PROVE  /\ q \in Places
               /\ \A j \in Keys : j # k => q[j] = local[j]
               /\ q[k] # None /\ q[k].id = local[k].id /\ q[k].attr = a
    <3>1. q[k] = [local[k] EXCEPT !.attr = a]
          /\ \A j \in Keys : j # k => q[j] = local[j]
      BY <1>1, <1>3, <2>2 DEF Places
    <3>2. [local[k] EXCEPT !.attr = a] \in LocalRecord
      BY <2>1 DEF LocalRecord
    <3>3. q[k].id = local[k].id /\ q[k].attr = a
      BY <2>1, <3>1 DEF LocalRecord
    <3>4. q \in Places
      BY <1>1, <1>3, <2>2, <3>2 DEF Places
    <3> QED BY <3>1, <3>2, <3>3, <3>4, NoneAssumption
  <2>3. CASE Prepared(k, ops) = [local EXCEPT ![k] = None]
    BY <1>1, <1>3, <2>3 DEF Places
  <2>4. CASE Prepared(k, ops) = [local EXCEPT ![k].attr = "Nothing"]
    BY <1>3, <2>2, <2>4
  <2>5. CASE Prepared(k, ops) = [local EXCEPT ![k].attr = "Deleted"]
    BY <1>3, <2>2, <2>5
  <2>6. CASE Prepared(k, ops) = local
    BY <1>1, <1>3, <2>6
  <2> QED BY <2>3, <2>4, <2>5, <2>6 DEF Prepared
<1> QED BY <1>2, <1>3

(* A stored record takes the place of its counterpart, or one of its own.   *)
LEMMA StoreDoes ==
  ASSUME NEW store \in Places, NEW id \in Ids, NEW v \in Values \cup {None}
  PROVE  /\ \A j \in Keys : \/ StoreRemote(store, id, v)[j] = store[j]
                            \/ StoreRemote(store, id, v)[j] = LocalOf(id, v)
         /\ \A j \in Matching(store, id) :
              StoreRemote(store, id, v)[j] = LocalOf(id, v)
         /\ (\A i, j \in Matching(store, id) : i = j)
              => \A i, j \in Matching(StoreRemote(store, id, v), id) : i = j
         /\ LocalOf(id, v).id = id /\ LocalOf(id, v).attr = "Nothing"
         /\ LocalOf(id, v) # None
<1>1. LocalOf(id, v) \in LocalRecord
  BY DEF LocalOf, LocalRecord
<1>2. LocalOf(id, v).id = id /\ LocalOf(id, v).attr = "Nothing"
      /\ LocalOf(id, v) # None
  BY <1>1, NoneAssumption DEF LocalOf
<1> PICK free : free = Least({k \in Keys : store[k] = None})
  OBVIOUS
<1> PICK places : places = (IF Matching(store, id) # {} THEN Matching(store, id)
                            ELSE {free})
  OBVIOUS
<1>3. \A j \in Keys : StoreRemote(store, id, v)[j] =
                        IF j \in places THEN LocalOf(id, v) ELSE store[j]
  BY DEF StoreRemote
<1>4. \A j \in Matching(store, id) : StoreRemote(store, id, v)[j] = LocalOf(id, v)
  BY <1>3 DEF Matching
<1>5. ASSUME \A i, j \in Matching(store, id) : i = j
      PROVE  \A i, j \in Matching(StoreRemote(store, id, v), id) : i = j
  <2>1. \A i, j \in places : i = j
    BY <1>5
  <2>2. Matching(StoreRemote(store, id, v), id) \subseteq places
    BY <1>3 DEF Matching
  <2> QED BY <2>1, <2>2
<1> QED BY <1>2, <1>3, <1>4, <1>5

(* standard_abs_sync_record keeps the types, ... *)
LEMMA SyncRecordTypes ==
  ASSUME IInv, NEW k, NEW id, NEW rem, Counterparts(k, id, rem),
         SyncRecord(k, id, rem)
  PROVE  /\ local' \in Places
         /\ archive' \in SUBSET (Values \cup {None})
         /\ remote' \in Database
         /\ given' \in SUBSET Ids
         /\ ignore' \in SUBSET (Ids \cup {Unassigned})
         /\ exempt' \in SUBSET Ids
<1> PICK loc : loc = (IF k = 0 THEN None ELSE local[k])
  OBVIOUS
<1> PICK ops : ops = Verdict(loc, rem) \cap Permitted
  OBVIOUS
<1>1. /\ local' = IF "store" \in ops
                  THEN StoreRemote(Prepared(k, ops), id, rem.data)
                  ELSE Prepared(k, ops)
      /\ archive' = archive \cup If("archiveRemote" \in ops, {rem.data})
                            \cup If("archiveLocal" \in ops, {loc.data})
      /\ remote' = IF "add" \in ops /\ link = "up"
                   THEN [remote EXCEPT ![AssignedId(id)] = Dirty(loc.data)]
                   ELSE IF "delete" \in ops /\ OnPilot(id)
                   THEN [remote EXCEPT ![id] = Deleted]
                   ELSE remote
      /\ given' = given \cup If("add" \in ops /\ link = "up", {AssignedId(id)})
      /\ ignore' = ignore \cup If("add" \in ops /\ link = "up", {AssignedId(id)})
                          \cup If("delete" \in ops, {id})
      /\ exempt' = exempt \cup If({"add", "store"} \subseteq ops, {id})
                          \cup If(loc = None /\ rem.attr = "Deleted", {id})
  BY Zenon DEF SyncRecord, Prepared
<1>2. /\ k \in Keys \cup {0} /\ rem \in PilotRecord
      /\ id \in Ids \cup {Unassigned}
      /\ loc \in LocalRecord \cup {None}
      /\ k # 0 => loc # None /\ loc.id = id /\ loc = local[k]
      /\ k = 0 => loc = None /\ id # Unassigned
  BY Numbered DEF Counterparts, IInv, TypeOK
<1>3. /\ loc = None => ops \subseteq {"archiveRemote", "store"}
      /\ "add" \in ops => loc # None /\ loc.attr = "Modified"
      /\ "store" \in ops => loc = None \/ rem.attr = "Modified"
  BY <1>2, VerdictFacts
<1>4. id = Unassigned => rem.attr = "Nothing" /\ k \in Keys
  BY <1>2 DEF Counterparts, Clean
<1>5. "add" \in ops /\ id = Unassigned => k \in Resent
  BY <1>2, <1>3, <1>4 DEF Resent, Unsent, Matching
<1>6. "add" \in ops => AssignedId(id) \in Ids
  BY <1>5, SentIdIsGiven
<1>7. /\ rem.data \in Values \cup {None}
      /\ loc # None => loc.data \in Values \cup {None}
  BY <1>2 DEF PilotRecord, LocalRecord
<1>8. Prepared(k, ops) \in Places
  BY <1>2, <1>3, PreparedTypes DEF IInv
<1>9. local' \in Places
  BY <1>1, <1>2, <1>7, <1>8, StoreTypes
<1>10. archive' \in SUBSET (Values \cup {None})
  BY <1>1, <1>3, <1>7 DEF IInv, TypeOK, If
<1>11. given' \in SUBSET Ids /\ ignore' \in SUBSET (Ids \cup {Unassigned})
  BY <1>1, <1>2, <1>6 DEF IInv, TypeOK, If
<1>12. exempt' \in SUBSET Ids
  <2>1. {"add", "store"} \subseteq ops => id \in Ids
    BY <1>2, <1>3, <1>4
  <2>2. loc = None => id \in Ids
    BY <1>2
  <2> QED BY <1>1, <2>1, <2>2 DEF IInv, TypeOK, If
<1>13. remote' \in Database
  <2>1. remote \in Database
    BY DEF IInv, TypeOK, Database
  <2>2. Deleted \in PilotRecord
    BY DEF Deleted, PilotRecord
  <2>3. loc # None => Dirty(loc.data) \in PilotRecord
    BY <1>7 DEF Dirty, PilotRecord
  <2> QED BY <1>1, <1>3, <1>6, <2>1, <2>2, <2>3 DEF Database
<1> QED BY <1>9, <1>10, <1>11, <1>12, <1>13

(* ... and what is known of the ids. *)
LEMMA SyncRecordIds ==
  ASSUME IInv, NEW k, NEW id, NEW rem, Counterparts(k, id, rem),
         SyncRecord(k, id, rem)
  PROVE  /\ KeptIds' /\ OneCounterpart'
         /\ Unsent' \subseteq Unsent /\ Resent' \subseteq Resent
         /\ \/ given' = given
            \/ \E i : given' = given \cup {i} /\ \E j \in Resent : j \notin Resent'
<1> PICK loc : loc = (IF k = 0 THEN None ELSE local[k])
  OBVIOUS
<1> PICK ops : ops = Verdict(loc, rem) \cap Permitted
  OBVIOUS
<1> PICK pre : pre = Prepared(k, ops)
  OBVIOUS
<1>1. /\ local' = IF "store" \in ops THEN StoreRemote(pre, id, rem.data) ELSE pre
      /\ remote' = IF "add" \in ops /\ link = "up"
                   THEN [remote EXCEPT ![AssignedId(id)] = Dirty(loc.data)]
                   ELSE IF "delete" \in ops /\ OnPilot(id)
                   THEN [remote EXCEPT ![id] = Deleted]
                   ELSE remote
      /\ given' = given \cup If("add" \in ops /\ link = "up", {AssignedId(id)})
  BY Zenon DEF SyncRecord, Prepared
<1>2. /\ k \in Keys \cup {0} /\ rem \in PilotRecord
      /\ id \in Ids \cup {Unassigned} /\ id \in given \cup {Unassigned}
      /\ loc \in LocalRecord \cup {None}
      /\ k # 0 => loc # None /\ loc.id = id /\ loc = local[k] /\ k \in Keys
      /\ k = 0 => loc = None /\ id # Unassigned
  BY Numbered DEF Counterparts, IInv, TypeOK
<1>3. /\ loc = None => ops \subseteq {"archiveRemote", "store"}
      /\ "add" \in ops => loc # None /\ loc.attr = "Modified"
      /\ "store" \in ops => loc = None \/ rem.attr = "Modified"
  BY <1>2, VerdictFacts
<1>4. id = Unassigned => rem.attr = "Nothing" /\ k \in Keys
  BY <1>2 DEF Counterparts, Clean
<1>5. "add" \in ops /\ id = Unassigned => k \in Resent /\ "store" \notin ops
  BY <1>2, <1>3, <1>4 DEF Resent, Unsent, Matching
<1>6. "add" \in ops => /\ AssignedId(id) \in Ids
                       /\ id # Unassigned => AssignedId(id) = id
  BY <1>5, SentIdIsGiven
<1>7. /\ pre \in Places
      /\ \A j \in Keys : j # k => pre[j] = local[j]
      /\ k # 0 /\ pre[k] # None =>
           /\ pre[k].id = local[k].id
           /\ pre[k] = local[k] \/ pre[k].attr \in {"Nothing", "Deleted"}
  BY <1>2, <1>3, PreparedTypes DEF IInv
<1>8. \A j \in Keys : pre[j] # None =>
        /\ local[j] # None /\ pre[j].id = local[j].id
        /\ pre[j] = local[j] \/ pre[j].attr \in {"Nothing", "Deleted"}
  BY <1>2, <1>7, Numbered
<1>9. rem.data \in Values \cup {None}
  BY <1>2 DEF PilotRecord
<1>10. \A j \in Keys :
         \/ local'[j] = pre[j]
         \/ "store" \in ops /\ local'[j] = LocalOf(id, rem.data)
  BY <1>1, <1>2, <1>3, <1>4, <1>7, <1>9, StoreDoes
<1>11. "store" \in ops => /\ id \in Ids
                          /\ LocalOf(id, rem.data).id = id
                          /\ LocalOf(id, rem.data).attr = "Nothing"
  BY <1>2, <1>3, <1>4, <1>7, <1>9, StoreDoes
<1>12. Unsent' \subseteq Unsent /\ Resent' \subseteq Resent
  <2>1. \A j \in Unsent' : j \in Keys /\ local'[j] = pre[j]
                           /\ pre[j] # None /\ pre[j].id = Unassigned
    BY <1>10, <1>11, Numbered DEF Unsent, Matching
  <2>2. Unsent' \subseteq Unsent
    BY <1>8, <2>1 DEF Unsent, Matching
  <2>3. \A j \in Resent' : j \in Resent
    BY <1>8, <2>1, <2>2 DEF Resent
  <2> QED BY <2>2, <2>3
<1>13. given' = given \/ (/\ given' = given \cup {AssignedId(id)}
                          /\ k \in Resent /\ k \notin Resent')
  <2>1. CASE ~ ("add" \in ops /\ link = "up")
    BY <1>1, <2>1 DEF If
  <2>2. CASE "add" \in ops /\ id # Unassigned
    BY <1>1, <1>2, <1>6, <2>2 DEF If
  <2>3. CASE "add" \in ops /\ link = "up" /\ id = Unassigned
    <3>1. given' = given \cup {AssignedId(id)}
      BY <1>1, <2>3 DEF If
    <3>2. local' = pre /\ k \in Resent /\ k \in Keys
      BY <1>1, <1>4, <1>5, <2>3
    <3>3. pre[k] = None \/ pre[k].attr # "Modified"
      <4>1. local \in Places
        BY DEF IInv, TypeOK, Places
      <4>2. local[k] # None /\ local[k] \in LocalRecord
        BY <1>2, <3>2, <4>1, Numbered DEF Places
      <4>3. [local EXCEPT ![k].attr = "Nothing"][k].attr = "Nothing"
        BY <3>2, <4>1, <4>2 DEF Places, LocalRecord
      <4>4. [local EXCEPT ![k].attr = "Deleted"][k].attr = "Deleted"
        BY <3>2, <4>1, <4>2 DEF Places, LocalRecord
      <4>5. [local EXCEPT ![k] = None][k] = None
        BY <3>2, <4>1 DEF Places
      <4>6. \/ pre = [local EXCEPT ![k].attr = "Nothing"]
            \/ pre = [local EXCEPT ![k].attr = "Deleted"]
            \/ pre = [local EXCEPT ![k] = None]
        BY <2>3 DEF Prepared
      <4> QED BY <4>3, <4>4, <4>5, <4>6
    <3>4. k \notin Resent'
      BY <3>2, <3>3 DEF Resent, Unsent, Matching
    <3> QED BY <3>1, <3>2, <3>4
  <2> QED BY <2>1, <2>2, <2>3
<1>14. KeptIds'
  <2>1. given \subseteq given' /\ given \subseteq Ids
    BY <1>13 DEF IInv, TypeOK
  <2>2. ASSUME NEW i \in Ids, remote'[i] # None PROVE i \in given'
    <3>1. remote \in Database
      BY DEF IInv, TypeOK, Database
    <3>2. CASE i = AssignedId(id) /\ "add" \in ops /\ link = "up"
      BY <1>1, <3>2 DEF If
    <3>3. CASE i = id
      BY <1>2, <2>1, <3>3, Numbered
    <3>4. CASE ~ (i = AssignedId(id) /\ "add" \in ops /\ link = "up") /\ i # id
      <4>1. remote'[i] = remote[i]
        BY <1>1, <3>1, <3>4 DEF Database
      <4>2. i \in given
        BY <2>2, <4>1 DEF IInv, KeptIds
      <4> QED BY <2>1, <4>2
    <3> QED BY <3>2, <3>3, <3>4
  <2>3. ASSUME NEW j \in Keys, local'[j] # None
        PROVE  /\ local'[j].id \in given' \cup {Unassigned}
               /\ local'[j].attr = "New" => local'[j].id = Unassigned
    <3>1. CASE local'[j] = pre[j]
      <4>1. /\ local[j] # None /\ pre[j].id = local[j].id
            /\ pre[j].attr = "New" => local[j].attr = "New"
        BY <1>8, <2>3, <3>1
      <4>2. /\ local[j].id \in given \cup {Unassigned}
            /\ local[j].attr = "New" => local[j].id = Unassigned
        BY <4>1 DEF IInv, KeptIds
      <4> QED BY <2>1, <3>1, <4>1, <4>2
    <3>2. CASE "store" \in ops /\ local'[j] = LocalOf(id, rem.data)
      BY <1>2, <1>11, <2>1, <3>2
    <3> QED BY <1>10, <3>1, <3>2
  <2> QED BY <2>2, <2>3 DEF KeptIds
<1>15. OneCounterpart'
  <2>1. \A i \in Ids : Matching(pre, i) \subseteq Matching(local, i)
    BY <1>8 DEF Matching
  <2>2. \A i \in Ids : \A m, n \in Matching(pre, i) : m = n
    BY <2>1 DEF IInv, OneCounterpart
  <2>3. CASE "store" \notin ops
    BY <1>1, <2>2, <2>3 DEF OneCounterpart
  <2>4. CASE "store" \in ops
    <3>1. local' = StoreRemote(pre, id, rem.data) /\ id \in Ids
      BY <1>1, <1>11, <2>4
    <3>2. \A m, n \in Matching(local', id) : m = n
      <4>1. (\A m, n \in Matching(pre, id) : m = n)
              => \A m, n \in Matching(StoreRemote(pre, id, rem.data), id) : m = n
        BY <1>7, <1>9, <3>1, StoreDoes, Zenon
      <4> QED BY <2>2, <3>1, <4>1
    <3>3. \A i \in Ids : i # id => Matching(local', i) \subseteq Matching(pre, i)
      BY <1>10, <1>11, <2>4 DEF Matching
    <3> QED BY <2>2, <3>2, <3>3 DEF OneCounterpart
  <2> QED BY <2>3, <2>4
<1> QED BY <1>12, <1>13, <1>14, <1>15

-----------------------------------------------------------------------------
(* Every action keeps the invariant. *)

OthersTyped ==
  /\ pcMatch \in BOOLEAN
  /\ slow \in BOOLEAN
  /\ phase \in Phases
  /\ session \in Sessions
  /\ index \in Ids \cup Keys \cup {0}
  /\ link \in {"up", "down"}
  /\ before \in [remote: Database, local: Places]
  /\ again \in BOOLEAN
  /\ spent \in [edits: 0 .. MaxEdits, others: 0 .. MaxOther,
                breaks: 0 .. MaxBreaks]

(* The type invariant, with the parts no handler of a record touches apart. *)
LEMMA TypesTogether ==
  TypeOK <=> /\ remote \in Database /\ local \in Places
             /\ archive \in SUBSET (Values \cup {None})
             /\ given \in SUBSET Ids
             /\ ignore \in SUBSET (Ids \cup {Unassigned})
             /\ exempt \in SUBSET Ids
             /\ OthersTyped
BY DEF TypeOK, OthersTyped, Database, Places

(* The same, after a step. *)
LEMMA TypesTogetherNext ==
  TypeOK' <=> /\ remote' \in Database /\ local' \in Places
              /\ archive' \in SUBSET (Values \cup {None})
              /\ given' \in SUBSET Ids
              /\ ignore' \in SUBSET (Ids \cup {Unassigned})
              /\ exempt' \in SUBSET Ids
              /\ OthersTyped'
BY DEF TypeOK, OthersTyped, Database, Places

(* A step of a loop that synchronizes one record. *)
LEMMA SyncRecordKeeps ==
  ASSUME IInv, NEW k, NEW id, NEW rem, Counterparts(k, id, rem),
         SyncRecord(k, id, rem),
         index' \in Ids \cup Keys, phase' = phase, Unchanged
  PROVE  IInv'
<1>1. OthersTyped'
  BY TypesTogether DEF IInv, OthersTyped, Unchanged
<1>2. TypeOK'
  BY <1>1, SyncRecordTypes, TypesTogetherNext
<1>3. KeptIds' /\ OneCounterpart'
      /\ Unsent' \subseteq Unsent /\ Resent' \subseteq Resent
      /\ \/ given' = given
         \/ \E i : given' = given \cup {i} /\ \E j \in Resent : j \notin Resent'
  BY SyncRecordIds
<1>4. IdsSuffice'
  BY <1>2, <1>3, StillSuffice DEF IInv
<1> QED BY <1>2, <1>3, <1>4 DEF IInv

(* A step that leaves both sides alone. *)
LEMMA SidesUnchangedKeep ==
  ASSUME IInv, UNCHANGED sides, OthersTyped',
         ignore' \in SUBSET (Ids \cup {Unassigned}), exempt' \in SUBSET Ids
  PROVE  IInv'
<1>1. UNCHANGED <<remote, local, archive, given>>
  BY DEF sides
<1>2. TypeOK'
  BY <1>1, TypesTogether, TypesTogetherNext DEF IInv
<1>3. KeptIds' /\ IdsSuffice' /\ OneCounterpart'
  BY <1>1 DEF IInv, KeptIds, IdsSuffice, OneCounterpart, Unsent, Resent, Matching
<1> QED BY <1>2, <1>3 DEF IInv

(* What the loop over the PDA does with the record it reads.                *)
LEMMA ReadRemoteTreats ==
  ASSUME IInv, ReadRemote
  PROVE  \E id, k :
           /\ id \in Readable
           /\ id \in Ids /\ remote[id] # None /\ \A i \in Readable : id <= i
           /\ Counterparts(k, id, remote[id])
           /\ phase = "remote" /\ index' = id /\ phase' = phase /\ Unchanged
           /\ \/ /\ UNCHANGED <<sides, ignore, exempt>>
                 /\ id \in ignore \/ session = "MergeFromPilot"
              \/ SyncRecord(k, id, remote[id])
<1> PICK id : id = Least(Readable)
  OBVIOUS
<1> PICK places : places = Matching(local, id)
  OBVIOUS
<1> PICK k : k = (IF places = {} THEN 0 ELSE Least(places))
  OBVIOUS
<1>1. /\ phase = "remote" /\ index' = id /\ phase' = phase /\ Unchanged
      /\ \/ /\ UNCHANGED <<sides, ignore, exempt>>
            /\ id \in ignore \/ session = "MergeFromPilot"
         \/ SyncRecord(k, id, remote[id])
  BY DEF ReadRemote
<1>2. Readable \subseteq Ids /\ Readable # {}
      /\ \A i \in Readable : remote[i] # None
  BY DEF Readable, Ahead, Flagged, ReadRemote
<1>3. id \in Readable /\ id \in Ids /\ remote[id] # None
      /\ \A i \in Readable : id <= i
  BY <1>2, Numbered
<1>4. id \in given
  BY <1>3 DEF IInv, KeptIds
<1>5. Counterparts(k, id, remote[id])
  <2>1. remote[id] \in PilotRecord
    BY <1>3 DEF IInv, TypeOK
  <2>2. places \subseteq Keys
    BY DEF Matching
  <2>3. places # {} => k \in places
    BY <2>2, Numbered
  <2>4. k # 0 => k \in Keys /\ local[k] # None /\ local[k].id = id
    BY <2>3 DEF Matching
  <2>5. k = 0 => Matching(local, id) = {}
    BY <2>3, Numbered DEF Matching
  <2> QED BY <1>3, <1>4, <2>1, <2>4, <2>5, Numbered DEF Counterparts
<1> QED BY <1>1, <1>3, <1>5

(* The loop over the records of the PDA. *)
LEMMA ReadRemoteKeeps ==
  ASSUME IInv, ReadRemote
  PROVE  IInv'
<1>1. PICK id, k :
        /\ id \in Readable
        /\ id \in Ids /\ Counterparts(k, id, remote[id])
        /\ index' = id /\ phase' = phase /\ Unchanged
        /\ UNCHANGED <<sides, ignore, exempt>> \/ SyncRecord(k, id, remote[id])
  BY ReadRemoteTreats
<1>2. CASE UNCHANGED <<sides, ignore, exempt>>
  <2>1. OthersTyped'
    BY <1>1, TypesTogether DEF IInv, OthersTyped, Unchanged
  <2> QED BY <1>2, <2>1, TypesTogether, SidesUnchangedKeep DEF IInv
<1>3. CASE SyncRecord(k, id, remote[id])
  BY <1>1, <1>3, SyncRecordKeeps
<1> QED BY <1>1, <1>2, <1>3

(* What the loops over the PC do with the record they come to.              *)
LEMMA SyncLocalTreats ==
  ASSUME IInv, SyncLocal
  PROVE  \E k \in ToTreat : \E id :
           /\ k \in Keys /\ local[k] # None /\ id = local[k].id
           /\ \A j \in ToTreat : k <= j
           /\ Counterparts(k, id, ReadRecordById(id))
           /\ phase \in {"modified", "deleted"}
           /\ index' = k /\ phase' = phase /\ Unchanged
           /\ \/ UNCHANGED <<sides, ignore, exempt>> /\ id \in ignore
              \/ SyncRecord(k, id, ReadRecordById(id)) /\ id \notin ignore
<1> PICK k : k = Least(ToTreat)
  OBVIOUS
<1> PICK id : id = local[k].id
  OBVIOUS
<1>1. /\ phase \in {"modified", "deleted"}
      /\ index' = k /\ phase' = phase /\ Unchanged
      /\ \/ UNCHANGED <<sides, ignore, exempt>> /\ id \in ignore
         \/ SyncRecord(k, id, ReadRecordById(id)) /\ id \notin ignore
  BY DEF SyncLocal
<1>2. ToTreat \subseteq Keys /\ ToTreat # {}
      /\ \A j \in ToTreat : local[j] # None
  BY DEF ToTreat, Ahead, SyncLocal
<1>3. k \in ToTreat /\ k \in Keys /\ local[k] # None /\ \A j \in ToTreat : k <= j
  BY <1>2, Numbered
<1>4. id \in given \cup {Unassigned}
  BY <1>3 DEF IInv, KeptIds
<1>5. Counterparts(k, id, ReadRecordById(id))
  <2>1. Clean(None) \in PilotRecord
    BY DEF Clean, PilotRecord
  <2>2. ReadRecordById(id) \in PilotRecord
    BY <2>1 DEF ReadRecordById, OnPilot, IInv, TypeOK
  <2>3. id = Unassigned => ReadRecordById(id) = Clean(None)
    BY Numbered DEF ReadRecordById, OnPilot
  <2> QED BY <1>3, <1>4, <2>2, <2>3, Numbered DEF Counterparts
<1> QED BY <1>1, <1>3, <1>5

(* The loops over the modified and the deleted records of the PC. *)
LEMMA SyncLocalKeeps ==
  ASSUME IInv, SyncLocal
  PROVE  IInv'
<1>1. PICK k, id :
        /\ k \in ToTreat
        /\ k \in Keys /\ Counterparts(k, id, ReadRecordById(id))
        /\ index' = k /\ phase' = phase /\ Unchanged
        /\ UNCHANGED <<sides, ignore, exempt>> \/ SyncRecord(k, id, ReadRecordById(id))
  BY SyncLocalTreats
<1>2. CASE UNCHANGED <<sides, ignore, exempt>>
  <2>1. OthersTyped'
    BY <1>1, TypesTogether DEF IInv, OthersTyped, Unchanged
  <2> QED BY <1>2, <2>1, TypesTogether, SidesUnchangedKeep DEF IInv
<1>3. CASE SyncRecord(k, id, ReadRecordById(id))
  BY <1>1, <1>3, SyncRecordKeeps
<1> QED BY <1>1, <1>2, <1>3

(* A step that sends or drops one record of the store. *)
LEMMA OnePlaceKeeps ==
  ASSUME IInv, TypeOK', NEW k \in Keys,
         local[k] # None,
         \A j \in Keys : j # k => local'[j] = local[j],
         \A i \in Ids : remote'[i] # None => remote[i] # None \/ i \in given',
         \/ local'[k] = None
         \/ /\ local'[k] # None /\ local'[k].attr \notin {"New", "Modified"}
            /\ local'[k].id = local[k].id \/ local'[k].id \notin given
            /\ local'[k].id \in given' \cup {Unassigned}
            /\ local'[k].id = Unassigned => local[k].id = Unassigned,
         \/ given' = given
         \/ \E i : /\ given' = given \cup {i}
                   /\ local[k].id = Unassigned
                   /\ local'[k] # None /\ local'[k].id # Unassigned
  PROVE  IInv'
<1>1. given \subseteq given' /\ given \subseteq Ids
  BY DEF IInv, TypeOK
<1>2. /\ \A j \in Unsent' : j \in Unsent
      /\ \A j \in Resent' : j \in Resent
  BY DEF Unsent, Resent, Matching
<1>3. \/ given' = given
      \/ \E i : given' = given \cup {i} /\ k \in Unsent /\ k \notin Unsent'
  BY DEF Unsent, Matching
<1>4. IdsSuffice'
  BY <1>2, <1>3, StillSuffice DEF IInv
<1>5. KeptIds'
  <2>1. \A i \in Ids : remote'[i] # None => i \in given'
    BY <1>1 DEF IInv, KeptIds
  <2>2. ASSUME NEW j \in Keys, local'[j] # None
        PROVE  /\ local'[j].id \in given' \cup {Unassigned}
               /\ local'[j].attr = "New" => local'[j].id = Unassigned
    <3>1. CASE j = k
      BY <2>2, <3>1
    <3>2. CASE j # k
      BY <1>1, <2>2, <3>2 DEF IInv, KeptIds
    <3> QED BY <3>1, <3>2
  <2> QED BY <2>1, <2>2 DEF KeptIds
<1>6. OneCounterpart'
  <2>1. SUFFICES ASSUME NEW id \in Ids,
                        NEW i \in Matching(local', id), NEW j \in Matching(local', id)
                 PROVE  i = j
    BY DEF OneCounterpart
  <2>2. /\ i \in Keys /\ local'[i] # None /\ local'[i].id = id
        /\ j \in Keys /\ local'[j] # None /\ local'[j].id = id
    BY DEF Matching
  <2>3. ASSUME NEW m \in Keys, m # k, local'[m] # None, local'[m].id = id
        PROVE  m \in Matching(local, id) /\ id \in given
    <3>1. local[m] # None /\ local[m].id = id
      BY <2>3
    <3> QED BY <3>1, Numbered DEF Matching, IInv, KeptIds
  <2>4. ASSUME local'[k] # None, local'[k].id = id, id \in given
        PROVE  k \in Matching(local, id)
    BY <2>4 DEF Matching
  <2> QED BY <2>2, <2>3, <2>4 DEF IInv, OneCounterpart
<1> QED BY <1>4, <1>5, <1>6 DEF IInv

(* The record of one place, with another status or another id. *)
Marked(store, k, a, i) == [store EXCEPT ![k].attr = a, ![k].id = i]

(* Marking a record changes its status and its id, and no other place. *)
LEMMA OnePlace ==
  ASSUME NEW store \in Places, NEW k \in Keys, store[k] # None,
         NEW a \in {"Nothing", "New", "Modified", "Deleted"},
         NEW i \in Ids \cup {Unassigned}
  PROVE  /\ Marked(store, k, a, i) \in Places
         /\ Marked(store, k, a, i)[k] # None
         /\ Marked(store, k, a, i)[k].attr = a
         /\ Marked(store, k, a, i)[k].id = i
         /\ Marked(store, k, a, i)[k].data = store[k].data
         /\ Marked(store, k, a, i)[k].archived = store[k].archived
         /\ \A j \in Keys : j # k => Marked(store, k, a, i)[j] = store[j]
<1> PICK q : q = Marked(store, k, a, i)
  OBVIOUS
<1> DEFINE r == [[store[k] EXCEPT !.attr = a] EXCEPT !.id = i]
<1>1. store[k] \in LocalRecord
  BY DEF Places
<1>2. r \in LocalRecord
  BY <1>1 DEF LocalRecord
<1>3. r.attr = a /\ r.id = i /\ r.data = store[k].data
      /\ r.archived = store[k].archived
  BY <1>1 DEF LocalRecord
<1>4. q[k] = r /\ \A j \in Keys : j # k => q[j] = store[j]
  BY DEF Places, Marked
<1>5. q \in Places
  BY <1>2, <1>4 DEF Places, Marked
<1> QED BY <1>2, <1>3, <1>4, <1>5, NoneAssumption

(* What the loop over the new records does with the one it comes to. *)
LEMMA InstallNewGives ==
  ASSUME IInv, InstallNew
  PROVE  \E k, new :
           /\ k \in ToTreat
           /\ k \in Keys /\ \A j \in ToTreat : k <= j
           /\ local[k] # None /\ local[k].attr = "New" /\ local[k].id = Unassigned
           /\ phase = "new" /\ index' = k /\ phase' = phase /\ Unchanged
           /\ local' = Marked(local, k, "Nothing", new)
           /\ UNCHANGED <<archive, exempt>>
           /\ IF link = "up"
              THEN /\ new \in Ids \ given
                   /\ remote' = [remote EXCEPT ![new] = Dirty(local[k].data)]
                   /\ given' = given \cup {new}
                   /\ ignore' = ignore \cup {new}
              ELSE new = Unassigned /\ UNCHANGED <<remote, given, ignore>>
<1> PICK k : k = Least(ToTreat)
  OBVIOUS
<1> PICK new : new = (IF link = "up" THEN AssignedId(local[k].id) ELSE Unassigned)
  OBVIOUS
<1>1. /\ index' = k /\ phase' = phase /\ Unchanged
      /\ local' = Marked(local, k, "Nothing", new)
      /\ UNCHANGED <<archive, exempt>>
      /\ IF link = "up"
         THEN /\ remote' = [remote EXCEPT ![new] = Dirty(local[k].data)]
              /\ given' = given \cup {new}
              /\ ignore' = ignore \cup {new}
         ELSE UNCHANGED <<remote, given, ignore>>
      /\ phase = "new"
  BY Zenon DEF InstallNew, Marked
<1>2. ToTreat \subseteq Keys /\ ToTreat # {}
      /\ \A j \in ToTreat : local[j] # None /\ local[j].attr = "New"
  BY <1>1 DEF ToTreat, Ahead, InstallNew, AttrOf
<1>3. k \in ToTreat /\ k \in Keys /\ \A j \in ToTreat : k <= j
  BY <1>2, Numbered
<1>4. local[k] # None /\ local[k].attr = "New" /\ local[k].id = Unassigned
  BY <1>2, <1>3 DEF IInv, KeptIds
<1>5. link = "up" => new \in Ids \ given
  <2>1. k \in Unsent
    BY <1>3, <1>4 DEF Unsent, Matching
  <2>2. Least(Ids \ given) \in Ids \ given
    BY <2>1, SufficeForUnsent, FreshId DEF IInv
  <2> QED BY <1>4, <2>2 DEF AssignedId
<1> QED BY <1>1, <1>3, <1>4, <1>5

(* A new record takes an id that no other record has. *)
LEMMA InstallNewKeeps ==
  ASSUME IInv, InstallNew
  PROVE  IInv'
<1>1. PICK k, new :
        /\ k \in Keys
        /\ local[k] # None /\ local[k].attr = "New" /\ local[k].id = Unassigned
        /\ phase = "new" /\ index' = k /\ phase' = phase /\ Unchanged
        /\ local' = Marked(local, k, "Nothing", new)
        /\ UNCHANGED <<archive, exempt>>
        /\ IF link = "up"
           THEN /\ new \in Ids \ given
                /\ remote' = [remote EXCEPT ![new] = Dirty(local[k].data)]
                /\ given' = given \cup {new}
                /\ ignore' = ignore \cup {new}
           ELSE new = Unassigned /\ UNCHANGED <<remote, given, ignore>>
  BY InstallNewGives
<1>3. k \in Keys /\ local[k] # None /\ local[k].attr = "New"
      /\ local[k].id = Unassigned
  BY <1>1
<1>4. link = "up" => new \in Ids \ given
  BY <1>1
<1>5. new \in Ids \cup {Unassigned}
  BY <1>1, <1>4
<1>6. local \in Places /\ remote \in Database /\ local[k] \in LocalRecord
  BY <1>3 DEF IInv, TypeOK, Places, Database
<1>7. /\ local' \in Places /\ local'[k] # None
      /\ local'[k].attr = "Nothing" /\ local'[k].id = new
      /\ \A j \in Keys : j # k => local'[j] = local[j]
  BY <1>1, <1>3, <1>5, <1>6, OnePlace
<1>8. remote' \in Database
  <2>1. Dirty(local[k].data) \in PilotRecord
    BY <1>6 DEF Dirty, PilotRecord, LocalRecord
  <2> QED BY <1>1, <1>4, <1>6, <2>1 DEF Database
<1>9. TypeOK'
  <2>1. OthersTyped'
    BY <1>1, <1>3, TypesTogether DEF IInv, OthersTyped, Unchanged
  <2>2. given' \in SUBSET Ids /\ ignore' \in SUBSET (Ids \cup {Unassigned})
    BY <1>1, <1>4 DEF IInv, TypeOK
  <2> QED BY <1>1, <1>7, <1>8, <2>1, <2>2, TypesTogether, TypesTogetherNext DEF IInv
<1>10. \A i \in Ids : remote'[i] # None => remote[i] # None \/ i \in given'
  BY <1>1, <1>4, <1>6 DEF Database
<1>11. link \in {"up", "down"} /\ given \subseteq Ids
  BY DEF IInv, TypeOK
<1>12. CASE link = "up"
  <2>1. given' = given \cup {new} /\ new \notin given /\ new # Unassigned
    BY <1>1, <1>4, <1>12, Numbered
  <2> QED BY <1>3, <1>7, <1>9, <1>10, <2>1, OnePlaceKeeps
<1>13. CASE link # "up"
  <2>1. given' = given /\ new = Unassigned
    BY <1>1, <1>13
  <2> QED BY <1>3, <1>7, <1>9, <1>10, <2>1, OnePlaceKeeps
<1> QED BY <1>12, <1>13

(* dlp_WriteRecord is called for a record that is neither archived nor      *)
(* deleted.                                                                 *)
CopyWrites(loc) == ~loc.archived /\ loc.attr # "Deleted" /\ link = "up"

(* What copying does with the record it comes to. *)
CopyGives(k, loc, new) ==
  /\ loc = local[k] /\ loc # None
  /\ phase = "copyOut" /\ index' = k /\ phase' = phase /\ Unchanged
  /\ archive' = archive \cup If(loc.archived, {loc.data})
  /\ local' = IF loc.archived THEN [local EXCEPT ![k] = None]
              ELSE IF loc.attr = "Deleted" THEN local
              ELSE [local EXCEPT ![k].attr = "Nothing",
                                 ![k].id = IF CopyWrites(loc) THEN new ELSE @]
  /\ remote' = IF CopyWrites(loc) THEN [remote EXCEPT ![new] = Dirty(loc.data)]
               ELSE remote
  /\ given' = given \cup If(CopyWrites(loc), {new})
  /\ UNCHANGED <<ignore, exempt>>
  /\ loc.id \in given \cup {Unassigned} /\ loc.id \in Ids \cup {Unassigned}
  /\ new \in Ids
  /\ loc.id # Unassigned => new = loc.id
  /\ loc.id = Unassigned => new \notin given

LEMMA CopyLocalGives ==
  ASSUME IInv, CopyLocal
  PROVE  \E k \in Keys : \E loc, new : CopyGives(k, loc, new)
<1>0. PICK k : k = Least(Ahead({j \in Keys : local[j] # None}))
  OBVIOUS
<1> PICK loc : loc = local[k]
  OBVIOUS
<1> PICK new : new = AssignedId(loc.id)
  OBVIOUS
<1>1. /\ phase = "copyOut" /\ index' = k /\ phase' = phase /\ Unchanged
      /\ archive' = archive \cup If(loc.archived, {loc.data})
      /\ local' = IF loc.archived THEN [local EXCEPT ![k] = None]
                  ELSE IF loc.attr = "Deleted" THEN local
                  ELSE [local EXCEPT ![k].attr = "Nothing",
                                     ![k].id = IF CopyWrites(loc) THEN new ELSE @]
      /\ remote' = IF CopyWrites(loc) THEN [remote EXCEPT ![new] = Dirty(loc.data)] ELSE remote
      /\ given' = given \cup If(CopyWrites(loc), {new})
      /\ UNCHANGED <<ignore, exempt>>
  BY <1>0, Zenon DEF CopyLocal, CopyWrites
<1>2. k \in Keys /\ loc # None
  <2>1. /\ Ahead({j \in Keys : local[j] # None}) # {}
        /\ Ahead({j \in Keys : local[j] # None}) \subseteq Keys
        /\ \A j \in Ahead({i \in Keys : local[i] # None}) : local[j] # None
    BY DEF CopyLocal, Ahead
  <2> QED BY <1>0, <2>1, Numbered
<1>3. local \in Places /\ remote \in Database /\ loc \in LocalRecord
  BY <1>2 DEF IInv, TypeOK, Places, Database
<1>4. /\ loc.id \in given \cup {Unassigned} /\ loc.id \in Ids \cup {Unassigned}
      /\ new \in Ids
      /\ loc.id # Unassigned => new = loc.id
      /\ loc.id = Unassigned => new \notin given
  <2>1. loc.id \in given \cup {Unassigned} /\ given \subseteq Ids
    BY <1>2 DEF IInv, KeptIds, TypeOK
  <2>2. CASE loc.id # Unassigned
    BY <2>1, <2>2 DEF AssignedId
  <2>3. CASE loc.id = Unassigned
    <3>1. k \in Unsent
      BY <1>2, <2>3 DEF Unsent, Matching
    <3>2. Least(Ids \ given) \in Ids \ given
      BY <3>1, SufficeForUnsent, FreshId DEF IInv
    <3> QED BY <2>1, <2>3, <3>2 DEF AssignedId
  <2> QED BY <2>1, <2>2, <2>3
<1>5. loc = local[k]
  OBVIOUS
<1>6. CopyGives(k, loc, new)
  BY ONLY <1>1, <1>2, <1>4, <1>5, Zenon DEF CopyGives
<1> QED BY ONLY <1>2, <1>6

(* Copying a record to the PDA, with its id or with a new one. *)
LEMMA CopyLocalKeeps ==
  ASSUME IInv, CopyLocal
  PROVE  IInv'
<1>a. PICK k \in Keys : \E loc, new : CopyGives(k, loc, new)
  BY CopyLocalGives
<1>b. PICK loc, new : CopyGives(k, loc, new)
  BY <1>a
<1>0. /\ k \in Keys
      /\ loc = local[k] /\ loc # None
      /\ index' = k /\ phase' = phase /\ Unchanged
      /\ archive' = archive \cup If(loc.archived, {loc.data})
      /\ local' = IF loc.archived THEN [local EXCEPT ![k] = None]
                  ELSE IF loc.attr = "Deleted" THEN local
                  ELSE [local EXCEPT ![k].attr = "Nothing",
                                     ![k].id = IF CopyWrites(loc) THEN new ELSE @]
      /\ remote' = IF CopyWrites(loc) THEN [remote EXCEPT ![new] = Dirty(loc.data)]
                   ELSE remote
      /\ given' = given \cup If(CopyWrites(loc), {new})
      /\ UNCHANGED <<ignore, exempt>>
      /\ loc.id \in given \cup {Unassigned} /\ loc.id \in Ids \cup {Unassigned}
      /\ new \in Ids
      /\ loc.id # Unassigned => new = loc.id
      /\ loc.id = Unassigned => new \notin given
  BY <1>b, Zenon DEF CopyGives
<1> DEFINE wrote == ~loc.archived /\ loc.attr # "Deleted" /\ link = "up"
<1>1. /\ index' = k /\ phase' = phase /\ Unchanged
      /\ archive' = archive \cup If(loc.archived, {loc.data})
      /\ local' = IF loc.archived THEN [local EXCEPT ![k] = None]
                  ELSE IF loc.attr = "Deleted" THEN local
                  ELSE [local EXCEPT ![k].attr = "Nothing",
                                     ![k].id = IF wrote THEN new ELSE @]
      /\ remote' = IF wrote THEN [remote EXCEPT ![new] = Dirty(loc.data)] ELSE remote
      /\ given' = given \cup If(wrote, {new})
      /\ UNCHANGED <<ignore, exempt>>
  BY <1>0, Zenon DEF CopyWrites
<1>2. k \in Keys /\ loc = local[k] /\ loc # None
  BY <1>0
<1>3. local \in Places /\ remote \in Database /\ loc \in LocalRecord
  BY <1>2 DEF IInv, TypeOK, Places, Database
<1>4. /\ loc.id \in given \cup {Unassigned} /\ loc.id \in Ids \cup {Unassigned}
      /\ new \in Ids
      /\ loc.id # Unassigned => new = loc.id
      /\ loc.id = Unassigned => new \notin given
  BY <1>0
<1>5. OthersTyped' /\ UNCHANGED <<ignore, exempt>>
  BY <1>1, <1>2, TypesTogether DEF IInv, OthersTyped, Unchanged
<1>6. archive' \in SUBSET (Values \cup {None})
  BY <1>1, <1>3 DEF IInv, TypeOK, If, LocalRecord
<1>7. ~ wrote => given' = given /\ remote' = remote
  <2>1. ~ wrote => If(wrote, {new}) = {}
    BY DEF If
  <2> QED BY <1>1, <2>1
<1>8. CASE loc.archived
  <2>1. given' = given /\ remote' = remote
    BY <1>7, <1>8
  <2>2. local' = [local EXCEPT ![k] = None]
    BY <1>1, <1>8
  <2>3. /\ local' \in Places /\ local'[k] = None
        /\ \A j \in Keys : j # k => local'[j] = local[j]
    BY <1>2, <1>3, <2>2 DEF Places
  <2>4. TypeOK'
    BY <1>5, <1>6, <2>1, <2>3, TypesTogether, TypesTogetherNext DEF IInv
  <2> QED BY <1>2, <2>1, <2>3, <2>4, OnePlaceKeeps
<1>9. CASE ~ loc.archived /\ loc.attr = "Deleted"
  <2>1. given' = given /\ remote' = remote
    BY <1>7, <1>9
  <2>2. local' = local
    BY <1>1, <1>9
  <2>3. TypeOK'
    BY <1>5, <1>6, <2>1, <2>2, TypesTogether, TypesTogetherNext DEF IInv
  <2>4. given \subseteq given'
    BY <2>1
  <2> QED BY <1>2, <1>4, <1>9, <2>1, <2>2, <2>3, OnePlaceKeeps
<1>10. CASE ~ loc.archived /\ loc.attr # "Deleted" /\ link = "up"
  <2>1. given' = given \cup {new} /\ remote' = [remote EXCEPT ![new] = Dirty(loc.data)]
    BY <1>1, <1>10 DEF If
  <2>2. local' = [local EXCEPT ![k].attr = "Nothing", ![k].id = new]
    BY <1>1, <1>10
  <2>3. local' = Marked(local, k, "Nothing", new)
    BY <2>2, Zenon DEF Marked
  <2> HIDE DEF wrote
  <2>4. /\ local' \in Places /\ local'[k] # None
        /\ local'[k].attr = "Nothing" /\ local'[k].id = new
        /\ \A j \in Keys : j # k => local'[j] = local[j]
    <3>1. local \in Places /\ k \in Keys /\ local[k] # None
      BY <1>2, <1>3
    <3>2. new \in Ids \cup {Unassigned}
      BY <1>4
    <3>3. "Nothing" \in {"Nothing", "New", "Modified", "Deleted"}
      OBVIOUS
    <3> QED BY <2>3, <3>1, <3>2, <3>3, OnePlace
  <2>5. remote' \in Database
    <3>1. Dirty(loc.data) \in PilotRecord
      BY <1>3 DEF Dirty, PilotRecord, LocalRecord
    <3> QED BY <1>3, <1>4, <2>1, <3>1 DEF Database
  <2>6. given' \in SUBSET Ids
    BY <1>4, <2>1 DEF IInv, TypeOK
  <2>7. TypeOK'
    BY <1>5, <1>6, <2>4, <2>5, <2>6, TypesTogether, TypesTogetherNext DEF IInv
  <2>8. \A j \in Ids : remote'[j] # None => remote[j] # None \/ j \in given'
    BY <1>3, <1>4, <2>1 DEF Database
  <2>9. /\ local'[k].id = local[k].id \/ local'[k].id \notin given
        /\ local'[k].id \in given' /\ local'[k].id # Unassigned
        /\ given' = given \/ (given' = given \cup {new} /\ local[k].id = Unassigned)
    BY <1>2, <1>4, <2>1, <2>4, Numbered
  <2> QED BY <1>2, <2>4, <2>7, <2>8, <2>9, OnePlaceKeeps
<1>11. CASE ~ loc.archived /\ loc.attr # "Deleted" /\ link # "up"
  <2>1. given' = given /\ remote' = remote
    BY <1>7, <1>11
  <2>2. local' = [local EXCEPT ![k].attr = "Nothing", ![k].id = @]
    BY <1>1, <1>11
  <2>3. local' = Marked(local, k, "Nothing", loc.id)
    <3>1. local' = [local EXCEPT ![k].attr = "Nothing", ![k].id = loc.id]
      BY <1>2, <1>3, <2>2 DEF Places, LocalRecord
    <3> QED BY <3>1, Zenon DEF Marked
  <2> HIDE DEF wrote
  <2>4. /\ local' \in Places /\ local'[k] # None
        /\ local'[k].attr = "Nothing" /\ local'[k].id = loc.id
        /\ \A j \in Keys : j # k => local'[j] = local[j]
    <3>1. local \in Places /\ k \in Keys /\ local[k] # None
      BY <1>2, <1>3
    <3>2. loc.id \in Ids \cup {Unassigned}
      BY <1>4
    <3>3. "Nothing" \in {"Nothing", "New", "Modified", "Deleted"}
      OBVIOUS
    <3> QED BY <2>3, <3>1, <3>2, <3>3, OnePlace
  <2>5. TypeOK'
    BY <1>5, <1>6, <2>1, <2>4, TypesTogether, TypesTogetherNext DEF IInv
  <2> QED BY <1>2, <1>4, <2>1, <2>4, <2>5, OnePlaceKeeps
<1> QED BY <1>8, <1>9, <1>10, <1>11

(* Storing, emptying or purging the store sends nothing. *)
LEMMA StoreKeeps ==
  ASSUME IInv, TypeOK', given' = given,
         \A i \in Ids : remote'[i] # None => remote[i] # None,
         NEW id \in Ids, id \in given, NEW v \in Values \cup {None},
         local' = StoreRemote(local, id, v)
  PROVE  IInv'
<1>1. local \in Places
  BY DEF IInv, TypeOK, Places
<1>2. /\ \A j \in Keys : local'[j] = local[j] \/ local'[j] = LocalOf(id, v)
      /\ (\A i, j \in Matching(local, id) : i = j)
           => \A i, j \in Matching(local', id) : i = j
      /\ LocalOf(id, v).id = id /\ LocalOf(id, v).attr = "Nothing"
  BY <1>1, StoreDoes
<1>3. /\ \A j \in Unsent' : j \in Unsent
      /\ \A j \in Resent' : j \in Resent
  <2>1. \A j \in Unsent' : j \in Unsent /\ local'[j] = local[j]
    BY <1>2, Numbered DEF Unsent, Matching
  <2> QED BY <2>1 DEF Resent
<1>4. IdsSuffice'
  BY <1>3, StillSuffice DEF IInv
<1>5. KeptIds'
  <2>1. \A j \in Keys : local'[j] # None =>
          /\ local'[j].id \in given' \cup {Unassigned}
          /\ local'[j].attr = "New" => local'[j].id = Unassigned
    BY <1>2 DEF IInv, KeptIds
  <2> QED BY <2>1 DEF KeptIds, IInv
<1>6. OneCounterpart'
  <2>1. \A i, j \in Matching(local', id) : i = j
    BY <1>2 DEF IInv, OneCounterpart
  <2>2. \A n \in Ids : n # id => Matching(local', n) \subseteq Matching(local, n)
    BY <1>2 DEF Matching
  <2> QED BY <2>1, <2>2 DEF IInv, OneCounterpart
<1> QED BY <1>4, <1>5, <1>6 DEF IInv

(* A step that only drops records. *)
LEMMA DropsKeep ==
  ASSUME IInv, TypeOK', given' = given,
         \A i \in Ids : remote'[i] # None => remote[i] # None,
         \A j \in Keys : local'[j] # None => local'[j] = local[j]
  PROVE  IInv'
<1>1. /\ \A j \in Unsent' : j \in Unsent
      /\ \A j \in Resent' : j \in Resent
  BY DEF Unsent, Resent, Matching
<1>2. IdsSuffice'
  BY <1>1, StillSuffice DEF IInv
<1>3. KeptIds'
  BY DEF IInv, KeptIds
<1>4. OneCounterpart'
  <2>1. \A n \in Ids : Matching(local', n) \subseteq Matching(local, n)
    BY DEF Matching
  <2> QED BY <2>1 DEF IInv, OneCounterpart
<1> QED BY <1>2, <1>3, <1>4 DEF IInv

(* Copying a record from the PDA. *)
LEMMA CopyRemoteKeeps ==
  ASSUME IInv, CopyRemote
  PROVE  IInv'
<1>0. PICK id : id = Least(Readable)
  OBVIOUS
<1>1. PICK rem : rem = remote[id]
  OBVIOUS
<1>2. /\ index' = id /\ phase' = phase /\ Unchanged
      /\ archive' = archive \cup If(rem.archived, {rem.data})
      /\ local' = IF rem.archived \/ rem.attr = "Deleted" THEN local
                  ELSE StoreRemote(local, id, rem.data)
      /\ UNCHANGED <<remote, given, ignore, exempt>>
  BY <1>0, <1>1, Zenon DEF CopyRemote
<1>3. id \in Ids /\ rem \in PilotRecord /\ id \in given
  <2>1. Readable \subseteq Ids /\ Readable # {}
        /\ \A i \in Readable : remote[i] # None
    BY DEF Readable, Ahead, Flagged, CopyRemote
  <2>2. id \in Ids /\ remote[id] # None
    BY <1>0, <2>1, Numbered
  <2> QED BY <1>1, <2>2 DEF IInv, TypeOK, KeptIds
<1>4. rem.data \in Values \cup {None}
  BY <1>3 DEF PilotRecord
<1>5. OthersTyped'
  BY <1>2, <1>3, TypesTogether DEF IInv, OthersTyped, Unchanged
<1>6. archive' \in SUBSET (Values \cup {None})
  BY <1>2, <1>4 DEF IInv, TypeOK, If
<1>7. local' \in Places
  BY <1>2, <1>3, <1>4, StoreTypes DEF IInv, TypeOK, Places
<1>8. TypeOK'
  BY <1>2, <1>5, <1>6, <1>7, TypesTogether, TypesTogetherNext DEF IInv
<1>9. CASE local' = local
  BY <1>2, <1>8, <1>9, DropsKeep
<1>10. CASE local' = StoreRemote(local, id, rem.data)
  BY <1>2, <1>3, <1>4, <1>8, <1>10, StoreKeeps
<1> QED BY <1>2, <1>9, <1>10

(* The two copies empty a side. *)
LEMMA BeginSessionKeeps ==
  ASSUME IInv, NEW s \in Sessions, BeginSession(s)
  PROVE  IInv'
<1>1. /\ session' = s /\ phase' = LoopOf(s)
      /\ before' = [remote |-> remote, local |-> local]
      /\ remote' = IF s = "CopyToPilot" THEN [i \in Ids |-> None] ELSE remote
      /\ local' = IF s = "CopyFromPilot" THEN [k \in Keys |-> None] ELSE local
      /\ index' = 0 /\ ignore' = {}
      /\ again' \in BOOLEAN
      /\ UNCHANGED <<archive, given, pcMatch, slow, link, exempt, spent>>
  BY DEF BeginSession
<1>2. remote \in Database /\ local \in Places
  BY DEF IInv, TypeOK, Database, Places
<1>3. remote' \in Database /\ local' \in Places
  BY <1>1, <1>2 DEF Database, Places
<1>4. OthersTyped'
  <2>1. LoopOf(s) \in Phases
    BY DEF LoopOf, Sessions, TwoWay, Phases
  <2> QED BY <1>1, <1>2, <2>1, TypesTogether DEF IInv, OthersTyped
<1>5. TypeOK'
  BY <1>1, <1>3, <1>4, TypesTogether, TypesTogetherNext DEF IInv
<1>6. /\ \A i \in Ids : remote'[i] # None => remote[i] # None
      /\ \A j \in Keys : local'[j] # None => local'[j] = local[j]
  BY <1>1
<1> QED BY <1>1, <1>5, <1>6, DropsKeep

(* Finish purges the store and cleans up the database. *)
LEMMA CloseKeeps ==
  ASSUME IInv, Close
  PROVE  IInv'
<1>1. /\ phase' = "closed"
      /\ local' = Purge(local)
      /\ remote' = IF link = "up" THEN CleanUp(remote) ELSE remote
      /\ pcMatch' = (pcMatch \/ link = "up")
      /\ slow' = (slow /\ session \notin TwoWay)
      /\ link' = "up"
      /\ index' = 0
      /\ exempt' \subseteq exempt \cup Ids
      /\ UNCHANGED <<archive, given, session, ignore, before, again, spent>>
  BY DEF Close
<1>2. remote \in Database /\ local \in Places
  BY DEF IInv, TypeOK, Database, Places
<1>3. remote' \in Database /\ local' \in Places
  BY <1>1, <1>2, CleanUpTypes, PurgeTypes
<1>4. OthersTyped'
  BY <1>1, TypesTogether DEF IInv, OthersTyped, Phases
<1>5. TypeOK'
  <2>1. exempt' \in SUBSET Ids
    BY <1>1 DEF IInv, TypeOK
  <2> QED BY <1>1, <1>3, <1>4, <2>1, TypesTogether, TypesTogetherNext DEF IInv
<1>6. /\ \A i \in Ids : remote'[i] # None => remote[i] # None
      /\ \A j \in Keys : local'[j] # None => local'[j] = local[j]
  BY <1>1 DEF CleanUp, Purge
<1> QED BY <1>1, <1>5, <1>6, DropsKeep

(* From one loop to the next. *)
LEMMA EndLoopKeeps ==
  ASSUME IInv, EndLoop
  PROVE  IInv'
<1>1. /\ index' = 0 /\ phase' \in Phases
      /\ UNCHANGED <<sides, ignore, exempt>> /\ Unchanged
  <2>1. phase \in {"remote", "new", "modified"}
    BY DEF EndLoop, AtRest, LastLoop, IInv, TypeOK, Phases
  <2> QED BY <2>1 DEF EndLoop, NextLoop, Phases
<1>2. OthersTyped'
  BY <1>1, TypesTogether DEF IInv, OthersTyped, Unchanged
<1> QED BY <1>1, <1>2, TypesTogether, SidesUnchangedKeep DEF IInv

(* A broken link is no change of either side. *)
LEMMA BreakLinkKeeps ==
  ASSUME IInv, BreakLink
  PROVE  IInv'
<1>1. /\ link' = "down"
      /\ spent.breaks < MaxBreaks
      /\ spent' = [spent EXCEPT !.breaks = @ + 1]
      /\ UNCHANGED <<sides, pcMatch, slow, phase, session, index, ignore,
                     before, again, exempt>>
  BY DEF BreakLink
<1>2. spent' \in [edits: 0 .. MaxEdits, others: 0 .. MaxOther,
                  breaks: 0 .. MaxBreaks]
  BY <1>1, BoundsAssumption DEF IInv, TypeOK
<1>3. OthersTyped'
  BY <1>1, <1>2, TypesTogether DEF IInv, OthersTyped
<1> QED BY <1>1, <1>3, TypesTogether, SidesUnchangedKeep DEF IInv

-----------------------------------------------------------------------------
(* Between the sessions *)

(* What the sessions leave behind is forgotten. *)
LEMMA LeaveTypes ==
  ASSUME IInv, Leave,
         \/ spent' = spent
         \/ spent' = [spent EXCEPT !.edits = @ + 1] /\ spent.edits < MaxEdits
         \/ spent' = [spent EXCEPT !.others = @ + 1] /\ spent.others < MaxOther,
         pcMatch' \in BOOLEAN, slow' \in BOOLEAN, UNCHANGED <<index, link>>
  PROVE  OthersTyped' /\ ignore' \in SUBSET (Ids \cup {Unassigned})
<1>1. /\ phase' = "idle" /\ session' = "FastSync" /\ again' = FALSE
      /\ before' = [remote |-> remote, local |-> local] /\ ignore' = {}
  BY DEF Leave
<1>2. spent' \in [edits: 0 .. MaxEdits, others: 0 .. MaxOther,
                  breaks: 0 .. MaxBreaks]
  BY BoundsAssumption DEF IInv, TypeOK
<1>3. remote \in Database /\ local \in Places
  BY DEF IInv, TypeOK, Database, Places
<1> QED BY <1>1, <1>2, <1>3, TypesTogether
        DEF IInv, OthersTyped, Phases, Sessions, TwoWay

(* Another PC cleans up the database. *)
LEMMA OtherPCKeeps ==
  ASSUME IInv, OtherPC
  PROVE  IInv'
<1>1. /\ remote' = CleanUp(remote)
      /\ exempt' = exempt \cup {i \in Ids : Flagged(remote[i])}
      /\ UNCHANGED <<local, archive, given>>
      /\ OthersTyped' /\ ignore' \in SUBSET (Ids \cup {Unassigned})
  BY LeaveTypes DEF OtherPC, IInv, TypeOK
<1>2. remote' \in Database
  BY <1>1, CleanUpTypes DEF IInv, TypeOK, Database
<1>3. exempt' \in SUBSET Ids
  BY <1>1 DEF IInv, TypeOK
<1>4. TypeOK'
  BY <1>1, <1>2, <1>3, TypesTogether, TypesTogetherNext DEF IInv
<1>5. /\ \A i \in Ids : remote'[i] # None => remote[i] # None
      /\ \A j \in Keys : local'[j] # None => local'[j] = local[j]
  BY <1>1 DEF CleanUp
<1> QED BY <1>1, <1>4, <1>5, DropsKeep

(* Asking for a slow synchronization. *)
LEMMA SetSlowKeeps ==
  ASSUME IInv, SetSlow
  PROVE  IInv'
<1>1. OthersTyped' /\ ignore' \in SUBSET (Ids \cup {Unassigned})
  BY LeaveTypes DEF SetSlow, IInv, TypeOK
<1> QED BY <1>1, TypesTogether, SidesUnchangedKeep DEF SetSlow, IInv

(* A set has at most one element more than before. *)
LEMMA Larger ==
  ASSUME NEW T, IsFiniteSet(T), NEW x, NEW S \in SUBSET (T \cup {x})
  PROVE  /\ Cardinality(S) \in Nat /\ Cardinality(T) \in Nat
         /\ Cardinality(S) <= Cardinality(T) + 1
<1>1. IsFiniteSet(T \cup {x})
  BY FS_AddElement
<1>2. Cardinality(S) \in Nat /\ Cardinality(S) <= Cardinality(T \cup {x})
      /\ Cardinality(T) \in Nat
  BY <1>1, Smaller, FS_CardinalityType
<1>3. Cardinality(T \cup {x}) \in Nat
      /\ Cardinality(T \cup {x}) <= Cardinality(T) + 1
  <2>1. CASE x \in T
    <3>1. T \cup {x} = T
      BY <2>1
    <3> QED BY <1>2, <3>1
  <2>2. CASE x \notin T
    BY <1>2, <2>2, FS_AddElement
  <2> QED BY <2>1, <2>2
<1> QED BY <1>2, <1>3

(* Where there is room, one more record may need an id. *)
LEMMA RoomSuffices ==
  ASSUME TypeOK, TypeOK', Room, NEW x,
         \/ /\ given' \subseteq given \cup {x}
            /\ Unsent' \subseteq Unsent /\ Resent' \subseteq Resent
         \/ /\ Unsent' \subseteq Unsent \cup {x}
            /\ given' = given /\ Resent' \subseteq Resent
         \/ /\ Resent' \subseteq Resent \cup {x}
            /\ given' = given /\ Unsent' \subseteq Unsent
  PROVE  IdsSuffice'
<1>1. /\ IsFiniteSet(given) /\ IsFiniteSet(Unsent) /\ IsFiniteSet(Resent)
      /\ Cardinality(given) \in Nat /\ Cardinality(Unsent) \in Nat
      /\ Cardinality(Resent) \in Nat /\ Cardinality(Ids) \in Nat
  BY Counts
<1>2. Cardinality(given) + Cardinality(Unsent) + Cardinality(Resent)
        < Cardinality(Ids)
  BY DEF Room
<1>3. ASSUME NEW T, IsFiniteSet(T), NEW S \in SUBSET T
      PROVE  Cardinality(S) \in Nat /\ Cardinality(S) <= Cardinality(T)
  BY <1>3, Smaller
<1>4. ASSUME NEW T, IsFiniteSet(T), NEW S \in SUBSET (T \cup {x})
      PROVE  Cardinality(S) \in Nat /\ Cardinality(S) <= Cardinality(T) + 1
  BY <1>4, Larger
<1>5. ASSUME NEW g \in Nat, NEW u \in Nat, NEW r \in Nat,
             g + u + r <= Cardinality(given) + Cardinality(Unsent)
                            + Cardinality(Resent) + 1
      PROVE  g + u + r <= Cardinality(Ids)
  BY <1>1, <1>2, <1>5
<1>6. /\ Cardinality(given') \in Nat /\ Cardinality(Unsent') \in Nat
      /\ Cardinality(Resent') \in Nat
      /\ Cardinality(given') + Cardinality(Unsent') + Cardinality(Resent')
           <= Cardinality(given) + Cardinality(Unsent) + Cardinality(Resent) + 1
  <2>1. CASE /\ given' \subseteq given \cup {x}
             /\ Unsent' \subseteq Unsent /\ Resent' \subseteq Resent
    <3>1. Cardinality(given') \in Nat /\ Cardinality(given') <= Cardinality(given) + 1
      BY <1>1, <1>4, <2>1
    <3>2. Cardinality(Unsent') \in Nat /\ Cardinality(Unsent') <= Cardinality(Unsent)
      BY <1>1, <1>3, <2>1
    <3>3. Cardinality(Resent') \in Nat /\ Cardinality(Resent') <= Cardinality(Resent)
      BY <1>1, <1>3, <2>1
    <3> QED BY <1>1, <3>1, <3>2, <3>3
  <2>2. CASE /\ Unsent' \subseteq Unsent \cup {x}
             /\ given' = given /\ Resent' \subseteq Resent
    <3>1. Cardinality(Unsent') \in Nat /\ Cardinality(Unsent') <= Cardinality(Unsent) + 1
      BY <1>1, <1>4, <2>2
    <3>2. Cardinality(Resent') \in Nat /\ Cardinality(Resent') <= Cardinality(Resent)
      BY <1>1, <1>3, <2>2
    <3> QED BY <1>1, <2>2, <3>1, <3>2
  <2>3. CASE /\ Resent' \subseteq Resent \cup {x}
             /\ given' = given /\ Unsent' \subseteq Unsent
    <3>1. Cardinality(Resent') \in Nat /\ Cardinality(Resent') <= Cardinality(Resent) + 1
      BY <1>1, <1>4, <2>3
    <3>2. Cardinality(Unsent') \in Nat /\ Cardinality(Unsent') <= Cardinality(Unsent)
      BY <1>1, <1>3, <2>3
    <3> QED BY <1>1, <2>3, <3>1, <3>2
  <2> QED BY <2>1, <2>2, <2>3
<1> QED BY <1>5, <1>6 DEF IdsSuffice

(* Where there is room, an id is left. *)
LEMMA RoomIsFree ==
  ASSUME TypeOK, Room
  PROVE  Least(Ids \ given) \in Ids \ given
<1>1. Cardinality(given) < Cardinality(Ids)
  BY Counts DEF Room
<1> QED BY <1>1, FreshId

(* The edits on the PDA. *)
LEMMA EditRemoteKeeps ==
  ASSUME IInv, EditRemote
  PROVE  IInv'
<1>1. /\ OthersTyped' /\ ignore' \in SUBSET (Ids \cup {Unassigned})
      /\ UNCHANGED <<local, archive, exempt>>
  BY LeaveTypes DEF EditRemote, Edit, IInv, TypeOK
<1>2. remote \in Database /\ local \in Places /\ given \subseteq Ids
  BY DEF IInv, TypeOK, Database, Places
<1>3. CASE /\ Room
           /\ \E v \in Values : remote' = [remote EXCEPT ![Least(Ids \ given)] = Dirty(v)]
           /\ given' = given \cup {Least(Ids \ given)}
  <2> PICK new : new = Least(Ids \ given)
    OBVIOUS
  <2>1. PICK v \in Values : remote' = [remote EXCEPT ![new] = Dirty(v)]
    BY <1>3
  <2>2. new \in Ids \ given
    BY <1>3, RoomIsFree DEF IInv
  <2>3. Dirty(v) \in PilotRecord
    BY DEF Dirty, PilotRecord
  <2>4. remote' \in Database
    BY <1>2, <2>1, <2>2, <2>3 DEF Database
  <2>5. TypeOK'
    BY <1>1, <1>2, <1>3, <2>2, <2>4, TypesTogether, TypesTogetherNext DEF IInv
  <2>6. Unsent' = Unsent /\ Resent' = Resent
    BY <1>1 DEF Unsent, Resent, Matching
  <2>7. given' = given \cup {new}
    BY <1>3
  <2>8. IdsSuffice'
    BY <1>3, <2>5, <2>6, <2>7, RoomSuffices DEF IInv
  <2>9. KeptIds'
    <3>1. \A i \in Ids : remote'[i] # None => i \in given'
      BY <1>2, <2>1, <2>7 DEF Database, IInv, KeptIds
    <3> QED BY <1>1, <2>7, <3>1 DEF IInv, KeptIds
  <2>10. OneCounterpart'
    BY <1>1 DEF IInv, OneCounterpart, Matching
  <2> QED BY <2>5, <2>8, <2>9, <2>10 DEF IInv
<1>4. ASSUME NEW i \in Ids, remote[i] # None, given' = given,
             \/ \E v \in Values : remote' = [remote EXCEPT ![i] = Dirty(v)]
             \/ remote' = [remote EXCEPT ![i] = Deleted]
             \/ remote' = [remote EXCEPT ![i].archived = TRUE]
      PROVE  IInv'
  <2>1. remote[i] \in PilotRecord
    BY <1>2, <1>4 DEF Database
  <2>2. /\ \A v \in Values : Dirty(v) \in PilotRecord
        /\ Deleted \in PilotRecord
        /\ [remote[i] EXCEPT !.archived = TRUE] \in PilotRecord
    BY <2>1 DEF Dirty, Deleted, PilotRecord
  <2>3. PICK r \in PilotRecord : remote' = [remote EXCEPT ![i] = r]
    BY <1>4, <2>2
  <2>4. remote' \in Database /\ \A j \in Ids : remote'[j] # None => remote[j] # None
    BY <1>2, <1>4, <2>3 DEF Database
  <2>5. TypeOK'
    BY <1>1, <1>2, <1>4, <2>4, TypesTogether, TypesTogetherNext DEF IInv
  <2> QED BY <1>1, <1>4, <2>4, <2>5, DropsKeep
<1> QED BY <1>3, <1>4 DEF EditRemote

(* The edits on the PC. *)
LEMMA EditLocalKeeps ==
  ASSUME IInv, EditLocal
  PROVE  IInv'
<1>1. /\ OthersTyped' /\ ignore' \in SUBSET (Ids \cup {Unassigned})
      /\ UNCHANGED <<remote, given, archive, exempt>>
  BY LeaveTypes DEF EditLocal, Edit, IInv, TypeOK
<1>2. local \in Places
  BY DEF IInv, TypeOK, Places
<1>3. ASSUME NEW k \in Keys, NEW v \in Values, Room, local[k] = None,
             local' = [local EXCEPT ![k] = [LocalOf(Unassigned, v) EXCEPT !.attr = "New"]]
      PROVE  IInv'
  <2> PICK r : r = [LocalOf(Unassigned, v) EXCEPT !.attr = "New"]
    OBVIOUS
  <2>1. /\ r \in LocalRecord /\ r.id = Unassigned /\ r.attr = "New"
    BY DEF LocalOf, LocalRecord
  <2>2. /\ local' \in Places /\ local'[k] = r
        /\ \A j \in Keys : j # k => local'[j] = local[j]
    BY <1>2, <1>3, <2>1 DEF Places
  <2>3. TypeOK'
    BY <1>1, <2>2, TypesTogether, TypesTogetherNext DEF IInv
  <2>4. Unsent' \subseteq Unsent \cup {k} /\ Resent' \subseteq Resent
    <3>1. \A j \in Unsent' : j = k \/ j \in Unsent
      BY <2>2 DEF Unsent, Matching
    <3>2. \A j \in Resent' : j \in Resent
      BY <2>1, <2>2, <3>1 DEF Resent, Unsent, Matching
    <3> QED BY <3>1, <3>2
  <2>5. IdsSuffice'
    BY <1>1, <1>3, <2>3, <2>4, RoomSuffices DEF IInv
  <2>6. KeptIds'
    BY <1>1, <2>1, <2>2 DEF IInv, KeptIds
  <2>7. OneCounterpart'
    <3>1. \A n \in Ids : Matching(local', n) \subseteq Matching(local, n)
      BY <2>1, <2>2, Numbered DEF Matching
    <3> QED BY <3>1 DEF IInv, OneCounterpart
  <2> QED BY <2>3, <2>5, <2>6, <2>7 DEF IInv
<1>4. ASSUME NEW k \in Keys, local[k] # None, NEW r \in LocalRecord,
             local' = [local EXCEPT ![k] = r],
             r.id = local[k].id, r.attr # "New",
             r.attr = "Modified" /\ r.id = Unassigned =>
               local[k].attr = "Modified" \/ Room
      PROVE  IInv'
  <2>1. /\ local' \in Places /\ local'[k] = r /\ r # None
        /\ \A j \in Keys : j # k => local'[j] = local[j]
    BY <1>2, <1>4, NoneAssumption DEF Places
  <2>2. TypeOK'
    BY <1>1, <2>1, TypesTogether, TypesTogetherNext DEF IInv
  <2>3. \A n : Matching(local', n) = Matching(local, n)
    BY <1>4, <2>1 DEF Matching
  <2>4. Unsent' \subseteq Unsent
    BY <2>3 DEF Unsent
  <2>5. Resent' \subseteq Resent \/ (Room /\ Resent' \subseteq Resent \cup {k})
    <3>1. \A j \in Resent' : j = k \/ j \in Resent
      BY <2>1, <2>4 DEF Resent, Unsent, Matching
    <3>2. k \in Resent' => k \in Resent \/ Room
      BY <1>4, <2>1, <2>4 DEF Resent, Unsent, Matching
    <3> QED BY <3>1, <3>2
  <2>6. IdsSuffice'
    <3>1. CASE Resent' \subseteq Resent
      BY <1>1, <2>2, <2>4, <3>1, StillSuffice DEF IInv
    <3>2. CASE Room /\ Resent' \subseteq Resent \cup {k}
      BY <1>1, <2>2, <2>4, <3>2, RoomSuffices DEF IInv
    <3> QED BY <2>5, <3>1, <3>2
  <2>7. KeptIds'
    BY <1>1, <1>4, <2>1 DEF IInv, KeptIds
  <2>8. OneCounterpart'
    BY <2>3 DEF IInv, OneCounterpart
  <2> QED BY <2>2, <2>6, <2>7, <2>8 DEF IInv
<1>5. ASSUME NEW k \in Keys, local[k] # None,
             local[k].attr \in {"Nothing", "Modified"},
             \/ /\ local[k].id = Unassigned => Room
                /\ \E v \in Values :
                     local' = [local EXCEPT ![k].attr = "Modified", ![k].data = v]
             \/ local' = [local EXCEPT ![k].attr = "Deleted"]
             \/ local' = [local EXCEPT ![k].archived = TRUE]
      PROVE  IInv'
  <2>1. local[k] \in LocalRecord
    BY <1>2, <1>5 DEF Places
  <2>2. ASSUME NEW v \in Values, local[k].id = Unassigned => Room,
               local' = [local EXCEPT ![k].attr = "Modified", ![k].data = v]
        PROVE  IInv'
    <3> PICK r : r = [[local[k] EXCEPT !.attr = "Modified"] EXCEPT !.data = v]
      OBVIOUS
    <3>1. r \in LocalRecord /\ r.id = local[k].id /\ r.attr = "Modified"
      BY <2>1 DEF LocalRecord
    <3>2. local' = [local EXCEPT ![k] = r]
      BY <1>2, <1>5, <2>2 DEF Places
    <3> QED BY <1>4, <1>5, <2>2, <3>1, <3>2
  <2>3. CASE local' = [local EXCEPT ![k].attr = "Deleted"]
    <3> PICK r : r = [local[k] EXCEPT !.attr = "Deleted"]
      OBVIOUS
    <3>1. r \in LocalRecord /\ r.id = local[k].id /\ r.attr = "Deleted"
      BY <2>1 DEF LocalRecord
    <3>2. local' = [local EXCEPT ![k] = r]
      BY <1>2, <1>5, <2>3 DEF Places
    <3> QED BY <1>4, <1>5, <3>1, <3>2
  <2>4. CASE local' = [local EXCEPT ![k].archived = TRUE]
    <3> PICK r : r = [local[k] EXCEPT !.archived = TRUE]
      OBVIOUS
    <3>1. r \in LocalRecord /\ r.id = local[k].id /\ r.attr = local[k].attr
      BY <2>1 DEF LocalRecord
    <3>2. local' = [local EXCEPT ![k] = r]
      BY <1>2, <1>5, <2>4 DEF Places
    <3> QED BY <1>4, <1>5, <3>1, <3>2
  <2> QED BY <1>5, <2>2, <2>3, <2>4
<1> QED BY <1>3, <1>5 DEF EditLocal

-----------------------------------------------------------------------------

(* The initial states: a record has the same number on both sides. *)
LEMMA InitHolds == Init => IInv
<1> SUFFICES ASSUME NEW ids \in SUBSET Ids, NEW data \in [Ids -> Values],
                    ids \subseteq Keys,
                    remote = [i \in Ids |-> IF i \in ids THEN Clean(data[i]) ELSE None],
                    local = [k \in Keys |-> IF k \in ids THEN LocalOf(k, data[k]) ELSE None],
                    archive = {}, given = ids, pcMatch = TRUE, slow = FALSE,
                    phase = "idle", session = "FastSync", index = 0, ignore = {},
                    link = "up", before = [remote |-> remote, local |-> local],
                    again = FALSE, exempt = {},
                    spent = [edits |-> 0, others |-> 0, breaks |-> 0]
             PROVE  IInv
  BY Zenon DEF Init
<1>1. \A i \in ids : /\ Clean(data[i]) \in PilotRecord
                     /\ LocalOf(i, data[i]) \in LocalRecord
                     /\ LocalOf(i, data[i]).id = i
                     /\ LocalOf(i, data[i]).attr = "Nothing"
  BY DEF Clean, LocalOf, PilotRecord, LocalRecord
<1>2. remote \in Database /\ local \in Places
  BY <1>1 DEF Database, Places
<1>3. OthersTyped
  <2>1. spent \in [edits: 0 .. MaxEdits, others: 0 .. MaxOther,
                  breaks: 0 .. MaxBreaks]
    BY BoundsAssumption
  <2>2. before \in [remote: Database, local: Places]
    BY <1>2
  <2> QED BY <2>1, <2>2 DEF OthersTyped, Phases, Sessions, TwoWay
<1>4. TypeOK
  BY <1>2, <1>3, TypesTogether
<1>5. \A k \in Keys : local[k] # None => k \in ids /\ local[k] = LocalOf(k, data[k])
  OBVIOUS
<1>6. KeptIds
  BY <1>1, <1>5 DEF KeptIds
<1>7. OneCounterpart
  BY <1>1, <1>5 DEF OneCounterpart, Matching
<1>8. IdsSuffice
  <2>1. Unsent = {} /\ Resent = {}
    BY <1>1, <1>5, Numbered DEF Unsent, Resent, Matching
  <2>2. Cardinality(ids) <= Cardinality(Ids) /\ Cardinality(ids) \in Nat
        /\ Cardinality(Ids) \in Nat
    BY IdsAssumption, Smaller
  <2> QED BY <2>1, <2>2, FS_EmptySet DEF IdsSuffice
<1> QED BY <1>4, <1>6, <1>7, <1>8 DEF IInv

(* Every step keeps the invariant. *)
LEMMA StepKeeps == IInv /\ [Next]_vars => IInv'
<1> SUFFICES ASSUME IInv, [Next]_vars PROVE IInv'
  OBVIOUS
<1>1. CASE \E s \in Sessions : BeginSession(s)
  BY <1>1, BeginSessionKeeps
<1>2. CASE Step
  BY <1>2, ReadRemoteKeeps, InstallNewKeeps, SyncLocalKeeps, CopyLocalKeeps,
     CopyRemoteKeeps, EndLoopKeeps, CloseKeeps DEF Step
<1>3. CASE BreakLink \/ EditRemote \/ EditLocal \/ OtherPC \/ SetSlow
  BY <1>3, BreakLinkKeeps, EditRemoteKeeps, EditLocalKeeps, OtherPCKeeps,
     SetSlowKeeps
<1>4. CASE UNCHANGED vars
  <2>1. UNCHANGED sides /\ OthersTyped'
        /\ ignore' \in SUBSET (Ids \cup {Unassigned}) /\ exempt' \in SUBSET Ids
    BY <1>4, TypesTogether DEF vars, sides, OthersTyped, IInv
  <2> QED BY <2>1, SidesUnchangedKeep
<1> QED BY <1>1, <1>2, <1>3, <1>4 DEF Next

(* The invariant the two theorems below rest on. *)
THEOREM Invariance == Spec => []IInv
<1> QED BY InitHolds, StepKeeps, PTL DEF Spec

(* Every variable keeps its type: the PDA always has an id to give where one*)
(* is asked for.                                                            *)
THEOREM TypeCorrect == Spec => []TypeOK
<1>1. IInv => TypeOK
  BY DEF IInv
<1> QED BY <1>1, Invariance, PTL

(* A record of the PDA never has two counterparts on the PC, wherever the   *)
(* link breaks.                                                             *)
THEOREM CounterpartUnique == Spec => []OneCounterpart
<1>1. IInv => OneCounterpart
  BY DEF IInv
<1> QED BY <1>1, Invariance, PTL
=============================================================================
