-------------------------- MODULE TwoWaySyncProofs --------------------------
(***************************************************************************)
(* Proofs about the sessions of RecordSync, as long as the link holds: what*)
(* a two-way session makes of every record (TableRespected), that nothing  *)
(* drifts apart in silence (FlagsSufficient), and that a repeated session  *)
(* has nothing to do (RepeatedSyncIsIdle).                                 *)
(***************************************************************************)
EXTENDS RecordSyncProofs

(* The record of the store that has the id, if there is one.               *)
Counterpart(store, id) ==
  IF Matching(store, id) = {} THEN None ELSE store[Least(Matching(store, id))]

(* A record of the PDA and its counterpart: as AgreeOn, AccountedFor, Purge*)
(* and CleanUp look at them.                                               *)
Agreeing(r, c) == IF r = None THEN c = None ELSE c # None /\ c.data = r.data
Pending(c) == c # None /\ (c.attr # "Nothing" \/ c.archived)
Accounted(r, c) == Agreeing(r, c) \/ Flagged(r) \/ Pending(c)
Purged(c) == IF c # None /\ c.attr = "Deleted" THEN None ELSE c
Cleaned(r) ==
  IF r = None \/ r.attr = "Deleted" \/ r.archived THEN None ELSE Clean(r.data)

Unique(store) == \A id \in Ids : \A j, k \in Matching(store, id) : j = k

(* The counterpart is the record in the one place that matches.            *)
LEMMA CounterpartIs ==
  ASSUME NEW store \in Places, NEW id \in Ids, Unique(store)
  PROVE  /\ Matching(store, id) = {} => Counterpart(store, id) = None
         /\ \A k \in Matching(store, id) :
              /\ Matching(store, id) = {k}
              /\ Counterpart(store, id) = store[k]
              /\ store[k] \in LocalRecord /\ store[k] # None
              /\ store[k].id = id
<1>1. Matching(store, id) = {} => Counterpart(store, id) = None
  BY DEF Counterpart
<1>2. ASSUME NEW k \in Matching(store, id)
      PROVE  /\ Matching(store, id) = {k}
             /\ Counterpart(store, id) = store[k]
             /\ store[k] \in LocalRecord /\ store[k] # None
             /\ store[k].id = id
  <2>1. \A j \in Matching(store, id) : j = k
    BY DEF Unique
  <2>2. Matching(store, id) = {k}
    BY <2>1
  <2>3. k \in Keys /\ store[k] # None /\ store[k].id = id
    BY DEF Matching
  <2>4. Least({k}) = k
    BY <2>3, Numbered
  <2>5. store[k] \in LocalRecord
    BY <2>3 DEF Places
  <2> QED BY <2>2, <2>3, <2>4, <2>5 DEF Counterpart
<1> QED BY <1>1, <1>2

(* A counterpart is a record or none. *)
LEMMA CounterpartTypes ==
  ASSUME NEW store \in Places, NEW id \in Ids
  PROVE  /\ Counterpart(store, id) \in LocalRecord \cup {None}
         /\ Counterpart(store, id) # None => Counterpart(store, id).id = id
<1>1. CASE Matching(store, id) = {}
  BY <1>1 DEF Counterpart
<1>2. CASE Matching(store, id) # {}
  <2>1. Matching(store, id) \in SUBSET Keys
    BY DEF Matching
  <2>2. Least(Matching(store, id)) \in Matching(store, id)
    BY <1>2, <2>1, Numbered
  <2>0. PICK k : k = Least(Matching(store, id))
    OBVIOUS
  <2>3. k \in Keys /\ store[k] # None /\ store[k].id = id
    BY <2>0, <2>2 DEF Matching
  <2>4. Counterpart(store, id) = store[k]
    BY <1>2, <2>0 DEF Counterpart
  <2> QED BY <2>3, <2>4 DEF Places
<1> QED BY <1>1, <1>2

(* The same places match, with the same records. *)
LEMMA SameCounterpart ==
  ASSUME NEW id, NEW s1, NEW s2,
         \A k \in Keys : (s1[k] # None /\ s1[k].id = id) \/ (s2[k] # None /\ s2[k].id = id)
                           => s1[k] = s2[k]
  PROVE  /\ Matching(s1, id) = Matching(s2, id)
         /\ Counterpart(s1, id) = Counterpart(s2, id)
<1>1. Matching(s1, id) = Matching(s2, id)
  BY DEF Matching
<1>2. \A k \in Matching(s1, id) : k \in Keys /\ s1[k] = s2[k]
  BY DEF Matching
<1>3. CASE Matching(s1, id) = {}
  BY <1>1, <1>3 DEF Counterpart
<1>4. CASE Matching(s1, id) # {}
  <2>1. Matching(s1, id) \in SUBSET Keys
    BY DEF Matching
  <2>2. Least(Matching(s1, id)) \in Matching(s1, id)
    BY <1>4, <2>1, Numbered
  <2> QED BY <1>1, <1>2, <1>4, <2>2 DEF Counterpart
<1> QED BY <1>1, <1>3, <1>4

(* The properties, in terms of a record and its counterpart. *)
LEMMA Views ==
  ASSUME NEW store \in Places, Unique(store), NEW db \in Database, NEW id \in Ids
  PROVE  /\ Now(store, id) = Content(Counterpart(store, id))
         /\ AgreeOn(db, store, id) <=> Agreeing(db[id], Counterpart(store, id))
         /\ (\E k \in Matching(store, id) : store[k].attr # "Nothing" \/ store[k].archived)
              <=> Pending(Counterpart(store, id))
         /\ Counterpart(Purge(store), id) = Purged(Counterpart(store, id))
         /\ CleanUp(db)[id] = Cleaned(db[id])
<1>1. CleanUp(db)[id] = Cleaned(db[id])
  BY DEF CleanUp, Cleaned
<1>2. CASE Matching(store, id) = {}
  <2>1. Counterpart(store, id) = None
    BY <1>2 DEF Counterpart
  <2>2. Matching(Purge(store), id) = {}
    BY <1>2 DEF Matching, Purge
  <2>3. Counterpart(Purge(store), id) = None
    BY <2>2 DEF Counterpart
  <2>4. Now(store, id) = Content(Counterpart(store, id))
    BY <1>2, <2>1 DEF Now, Content
  <2>5. AgreeOn(db, store, id) <=> Agreeing(db[id], None)
    BY <1>2 DEF AgreeOn, Agreeing
  <2> QED BY <1>1, <1>2, <2>1, <2>3, <2>4, <2>5 DEF Pending, Purged
<1>3. ASSUME NEW k \in Matching(store, id)
      PROVE  /\ Now(store, id) = Content(Counterpart(store, id))
             /\ AgreeOn(db, store, id) <=> Agreeing(db[id], Counterpart(store, id))
             /\ (\E j \in Matching(store, id) : store[j].attr # "Nothing" \/ store[j].archived)
                  <=> Pending(Counterpart(store, id))
             /\ Counterpart(Purge(store), id) = Purged(Counterpart(store, id))
  <2>1. /\ Matching(store, id) = {k} /\ k \in Keys
        /\ Counterpart(store, id) = store[k] /\ store[k] # None /\ store[k].id = id
    BY <1>3, CounterpartIs DEF Matching
  <2>2. Least({k}) = k
    BY <2>1, Numbered
  <2>3. Now(store, id) = Content(Counterpart(store, id))
    BY <2>1, <2>2 DEF Now, Content
  <2>4. AgreeOn(db, store, id) <=> Agreeing(db[id], Counterpart(store, id))
    BY <2>1 DEF AgreeOn, Agreeing
  <2>5. Counterpart(Purge(store), id) = Purged(Counterpart(store, id))
    <3>1. CASE store[k].attr = "Deleted"
      <4>1. Matching(Purge(store), id) = {}
        BY <2>1, <3>1 DEF Matching, Purge
      <4> QED BY <2>1, <3>1, <4>1 DEF Counterpart, Purged
    <3>2. CASE store[k].attr # "Deleted"
      <4>1. Matching(Purge(store), id) = {k} /\ Purge(store)[k] = store[k]
        BY <2>1, <3>2 DEF Matching, Purge
      <4> QED BY <2>1, <2>2, <3>2, <4>1 DEF Counterpart, Purged
    <3> QED BY <3>1, <3>2
  <2> QED BY <2>1, <2>3, <2>4, <2>5 DEF Pending
<1> QED BY <1>1, <1>2, <1>3

(* A record of the PDA that is unknown to the PC finds a place there. *)
LEMMA FreePlace ==
  ASSUME IInv, NEW id \in given, Matching(local, id) = {}
  PROVE  Least({k \in Keys : local[k] = None}) \in {k \in Keys : local[k] = None}
<1>1. SUFFICES ASSUME \A k \in Keys : local[k] # None
               PROVE  FALSE
  <2>1. {k \in Keys : local[k] = None} \in SUBSET Keys
    OBVIOUS
  <2> QED BY <2>1, Numbered
<1> DEFINE placed == Keys \ Unsent
<1>2. /\ IsFiniteSet(given) /\ IsFiniteSet(Unsent)
      /\ Cardinality(given) \in Nat /\ Cardinality(Unsent) \in Nat
      /\ Cardinality(Resent) \in Nat /\ Cardinality(Ids) \in Nat
  BY Counts DEF IInv
<1>3. /\ IsFiniteSet(given \ {id}) /\ Cardinality(given \ {id}) \in Nat
      /\ Cardinality(given \ {id}) <= Cardinality(given) - 1
  BY <1>2, Smaller
<1>4. /\ IsFiniteSet(placed) /\ Cardinality(placed) \in Nat
      /\ Cardinality(Keys) \in Nat
      /\ Cardinality(placed) = Cardinality(Keys) - Cardinality(Unsent)
  <2>1. Keys \cap Unsent = Unsent
    BY DEF Unsent, Matching
  <2>2. Cardinality(placed) = Cardinality(Keys) - Cardinality(Keys \cap Unsent)
        /\ IsFiniteSet(placed)
    BY IdsAssumption, FS_Difference
  <2> QED BY <2>1, <2>2, IdsAssumption, FS_CardinalityType
<1>5. Cardinality(given \ {id}) < Cardinality(placed)
  BY <1>2, <1>3, <1>4, PlacesAssumption DEF IInv, IdsSuffice
<1> DEFINE f == [k \in placed |-> local[k].id]
<1>6. \A k \in placed : k \in Keys /\ local[k].id \in given \ {id}
  BY <1>1 DEF Unsent, Matching, IInv, KeptIds
<1>7. f \in [placed -> given \ {id}]
  BY <1>6
<1>8. \E x, y \in placed : x # y /\ f[x] = f[y]
  <2> HIDE DEF f, placed
  <2> QED BY <1>3, <1>4, <1>5, <1>7, FS_PigeonHole
<1>9. PICK x \in placed, y \in placed : x # y /\ local[x].id = local[y].id
  BY <1>8
<1>10. x \in Matching(local, local[x].id) /\ y \in Matching(local, local[x].id)
       /\ local[x].id \in Ids
  BY <1>1, <1>6, <1>9 DEF Matching, IInv, TypeOK
<1> QED BY <1>9, <1>10 DEF IInv, OneCounterpart

-----------------------------------------------------------------------------
(* standard_abs_sync_record, for a record with an id in a two-way session. *)

(* The verdict, case by case.                                              *)
LEMMA VerdictCases ==
  ASSUME NEW rem \in PilotRecord, NEW loc \in LocalRecord, loc.attr # "New"
  PROVE  LET p == rem.attr
             l == loc.attr
             v == Verdict(loc, rem)
         IN  /\ l = "Modified" /\ p = "Modified" /\ loc.data # rem.data
                  => v = {"add", "store"}
             /\ l = "Modified" /\ p = "Modified" /\ loc.data = rem.data
                  => v = IF rem.archived THEN {"archiveRemote", "delete"}
                         ELSE IF loc.archived THEN {"archiveLocal", "delete"}
                         ELSE {"clear"}
             /\ rem.archived /\ l = "Modified" /\ p # "Modified" => v = {"add"}
             /\ rem.archived /\ l # "Modified" => v = {"archiveRemote"}
             /\ ~rem.archived /\ p = "Modified" /\ l # "Modified" => v = {"store"}
             /\ ~rem.archived /\ p # "Modified" /\ loc.archived
                  => v = {"archiveLocal", "delete"}
             /\ ~rem.archived /\ p # "Modified" /\ ~loc.archived /\ l = "Modified"
                  => v = {"add"}
             /\ ~rem.archived /\ p # "Modified" /\ ~loc.archived /\ l # "Modified" /\ p # l
                  => v = {"delete", "markDeleted"}
             /\ ~rem.archived /\ p # "Modified" /\ ~loc.archived /\ p = l => v = {}
<1>1. loc # None
  BY NoneAssumption
<1>2. loc.attr \in {"Nothing", "Modified", "Deleted"} /\ loc.archived \in BOOLEAN
  BY DEF LocalRecord
<1>3. rem.attr \in {"Nothing", "Modified", "Deleted"} /\ rem.archived \in BOOLEAN
  BY DEF PilotRecord
<1>4. CASE rem.archived /\ loc.attr = "Modified" /\ rem.attr = "Modified" /\ loc.data # rem.data
  <2>1. Verdict(loc, rem) = {"add", "store"}
    BY <1>1, <1>4 DEF Verdict
  <2> QED BY <1>4, <2>1
<1>5. CASE rem.archived /\ loc.attr = "Modified" /\ rem.attr = "Modified" /\ loc.data = rem.data
  <2>1. Verdict(loc, rem) = {"archiveRemote", "delete"}
    BY <1>1, <1>5 DEF Verdict
  <2> QED BY <1>5, <2>1
<1>6. CASE rem.archived /\ loc.attr = "Modified" /\ rem.attr # "Modified"
  <2>1. Verdict(loc, rem) = {"add"}
    BY <1>1, <1>6 DEF Verdict
  <2> QED BY <1>6, <2>1
<1>7. CASE rem.archived /\ loc.attr # "Modified"
  <2>1. Verdict(loc, rem) = {"archiveRemote"}
    BY <1>1, <1>2, <1>7 DEF Verdict
  <2> QED BY <1>7, <2>1
<1>8. CASE ~rem.archived /\ loc.attr = "Modified" /\ rem.attr = "Modified" /\ loc.data # rem.data
  <2>1. Verdict(loc, rem) = {"add", "store"}
    BY <1>1, <1>8 DEF Verdict
  <2> QED BY <1>8, <2>1
<1>9. CASE ~rem.archived /\ loc.attr = "Modified" /\ rem.attr = "Modified" /\ loc.data = rem.data
  <2>1. Verdict(loc, rem) = IF loc.archived THEN {"archiveLocal", "delete"} ELSE {"clear"}
    BY <1>1, <1>9 DEF Verdict
  <2> QED BY <1>9, <2>1
<1>10. CASE ~rem.archived /\ loc.attr # "Modified" /\ rem.attr = "Modified"
  <2>1. Verdict(loc, rem) = {"store"}
    BY <1>1, <1>2, <1>10 DEF Verdict
  <2> QED BY <1>10, <2>1
<1>11. CASE ~rem.archived /\ rem.attr # "Modified" /\ loc.archived
  <2>1. Verdict(loc, rem) = {"archiveLocal", "delete"}
    BY <1>1, <1>11 DEF Verdict
  <2> QED BY <1>11, <2>1
<1>12. CASE ~rem.archived /\ rem.attr # "Modified" /\ ~loc.archived /\ loc.attr = "Modified"
  <2>1. Verdict(loc, rem) = {"add"}
    BY <1>1, <1>12 DEF Verdict
  <2> QED BY <1>12, <2>1
<1>13. CASE /\ ~rem.archived /\ rem.attr # "Modified" /\ ~loc.archived
            /\ loc.attr # "Modified" /\ rem.attr # loc.attr
  <2>1. {rem.attr, loc.attr} = {"Deleted", "Nothing"}
    BY <1>2, <1>3, <1>13
  <2>2. Verdict(loc, rem) = {"delete", "markDeleted"}
    BY <1>1, <1>13, <2>1 DEF Verdict
  <2> QED BY <1>13, <2>2
<1>14. CASE ~rem.archived /\ rem.attr # "Modified" /\ ~loc.archived /\ rem.attr = loc.attr
  <2>1. {rem.attr, loc.attr} # {"Deleted", "Nothing"}
    BY <1>14
  <2>2. Verdict(loc, rem) = {}
    BY <1>1, <1>14, <2>1 DEF Verdict
  <2> QED BY <1>14, <2>2
<1> QED BY <1>2, <1>3, <1>4, <1>5, <1>6, <1>7, <1>8, <1>9, <1>10, <1>11, <1>12, <1>13, <1>14

(* What the operations make of the record of the PC and of the PDA's.      *)
OnPC(id, loc, rem, ops) ==
  IF "store" \in ops THEN LocalOf(id, rem.data)
  ELSE IF loc = None \/ ops \cap {"archiveRemote", "archiveLocal"} # {} THEN None
  ELSE IF "markDeleted" \in ops THEN [loc EXCEPT !.attr = "Deleted"]
  ELSE IF ops \cap {"add", "clear"} # {} THEN [loc EXCEPT !.attr = "Nothing"]
  ELSE loc
OnPDA(r, loc, ops) ==
  IF "add" \in ops THEN Dirty(loc.data)
  ELSE IF "delete" \in ops /\ r # None THEN Deleted ELSE r
ReadAs(r) == IF r = None THEN Clean(None) ELSE r

NothingToDo(r, c) ==
  /\ r # None /\ c # None /\ ~r.archived /\ ~c.archived
  /\ r.attr = c.attr /\ r.attr \in {"Nothing", "Deleted"}

(* Every record the session treats comes out as the table says, is quiet    *)
(* from then on, and agrees on both sides unless it is a conflict.          *)
LEMMA Outcome ==
  ASSUME NEW id \in Ids,
         NEW r \in PilotRecord \cup {None}, NEW c \in LocalRecord \cup {None},
         c # None => c.attr # "New" /\ (c.archived => c.attr # "Deleted"),
         r = None => c # None /\ ~c.archived /\ c.attr # "Nothing",
         NEW ops, ops = Verdict(c, ReadAs(r)),
         NEW c1, c1 = OnPC(id, c, ReadAs(r), ops),
         NEW r1, r1 = OnPDA(r, c, ops),
         NEW archived,
         "archiveRemote" \in ops => ReadAs(r).data \in archived,
         "archiveLocal" \in ops => c.data \in archived,
         NEW read
  PROVE  \/ r # None /\ c # None /\ ops = {} /\ NothingToDo(r, c) /\ r1 = r /\ c1 = c
         \/ /\ c1 # None => c1.attr = "Nothing" \/ (c1.attr = "Deleted" /\ "delete" \in ops)
            /\ AsTable(r, c, read, Content(Purged(c1)), Content(Cleaned(r1)), archived)
            /\ \/ {"add", "store"} \subseteq ops
               \/ c = None /\ ReadAs(r).attr = "Deleted"
               \/ Agreeing(Cleaned(r1), Purged(c1))
<1> PICK rem : rem = ReadAs(r)
  OBVIOUS
<1>0. /\ rem \in PilotRecord
      /\ r = None => rem = Clean(None) /\ rem.attr = "Nothing" /\ ~rem.archived
      /\ r # None => rem = r
  BY DEF ReadAs, Clean, PilotRecord
<1>3. rem.data \in Values \cup {None} /\ rem.attr \in {"Nothing", "Modified", "Deleted"}
  BY <1>0 DEF PilotRecord
<1>1. /\ LocalOf(id, rem.data) # None /\ LocalOf(id, rem.data).attr = "Nothing"
      /\ ~LocalOf(id, rem.data).archived /\ LocalOf(id, rem.data).data = rem.data
  <2>1. LocalOf(id, rem.data) \in LocalRecord
    BY <1>3 DEF LocalOf, LocalRecord
  <2> QED BY <2>1, NoneAssumption DEF LocalOf
<1>2. /\ \A v \in Values \cup {None} :
           /\ Dirty(v) # None /\ Dirty(v).attr = "Modified"
           /\ ~Dirty(v).archived /\ Dirty(v).data = v
           /\ Clean(v) # None /\ Clean(v).data = v
      /\ Deleted # None /\ Deleted.attr = "Deleted"
  <2>1. /\ \A v \in Values \cup {None} : Dirty(v) \in PilotRecord /\ Clean(v) \in PilotRecord
        /\ Deleted \in PilotRecord
    BY DEF Dirty, Clean, Deleted, PilotRecord
  <2>2. /\ \A v \in Values \cup {None} :
             /\ Dirty(v).attr = "Modified"
             /\ ~Dirty(v).archived /\ Dirty(v).data = v
             /\ Clean(v).data = v
        /\ Deleted.attr = "Deleted"
    BY DEF Dirty, Clean, Deleted
  <2> QED BY <2>1, <2>2, NoneAssumption
<1>4. CASE c = None
  <2>1. r # None /\ rem = r
    BY <1>0, <1>4
  <2>2. ops = IF rem.archived THEN {"archiveRemote"} ELSE {"store"}
    BY <1>4 DEF Verdict
  <2>3. CASE rem.archived
    <3>1. ops = {"archiveRemote"} /\ c1 = None /\ r1 = r
      BY <1>4, <2>2, <2>3 DEF OnPC, OnPDA
    <3>2. Purged(c1) = None /\ Cleaned(r1) = None
      BY <2>1, <2>3, <3>1 DEF Purged, Cleaned
    <3> QED BY <1>4, <2>1, <2>3, <3>1, <3>2 DEF AsTable, StateOf, Content, Agreeing
  <2>4. CASE ~rem.archived
    <3>1. ops = {"store"} /\ c1 = LocalOf(id, rem.data) /\ r1 = r
      BY <1>4, <2>2, <2>4 DEF OnPC, OnPDA
    <3>2. Purged(c1) = c1 /\ c1 # None /\ c1.data = rem.data
      BY <1>1, <3>1 DEF Purged
    <3>3. rem.attr # "Deleted" => Cleaned(r1) = Clean(rem.data)
      BY <2>1, <2>4, <3>1 DEF Cleaned
    <3>4. rem.attr # "Deleted" => Cleaned(r1) # None /\ Cleaned(r1).data = rem.data
      BY <1>2, <1>3, <3>3
    <3>5. StateOf(r) = rem.attr /\ StateOf(c) = "None" /\ Content(r) = rem.data
      BY <1>4, <2>1, <2>4 DEF StateOf, Content
    <3>6. AsTable(r, c, read, Content(Purged(c1)), Content(Cleaned(r1)), archived)
      <4>1. CASE rem.attr # "Modified"
        BY <1>3, <3>5, <4>1 DEF AsTable
      <4>2. CASE rem.attr = "Modified"
        BY <3>2, <3>4, <3>5, <4>2 DEF AsTable, Content
      <4> QED BY <4>1, <4>2
    <3>7. rem.attr = "Deleted" \/ Agreeing(Cleaned(r1), Purged(c1))
      BY <3>2, <3>4 DEF Agreeing
    <3> QED BY <1>1, <1>4, <3>1, <3>6, <3>7
  <2> QED BY <2>3, <2>4
<1>5. CASE c # None
  <2> PICK p : p = rem.attr
    OBVIOUS
  <2> PICK l : l = c.attr
    OBVIOUS
  <2>1. /\ c \in LocalRecord
        /\ p \in {"Nothing", "Modified", "Deleted"}
        /\ l \in {"Nothing", "Modified", "Deleted"}
        /\ c.data \in Values \cup {None}
    BY <1>0, <1>5 DEF LocalRecord, PilotRecord
  <2>2. /\ [c EXCEPT !.attr = "Nothing"] # None
        /\ [c EXCEPT !.attr = "Nothing"].attr = "Nothing"
        /\ [c EXCEPT !.attr = "Nothing"].data = c.data
        /\ [c EXCEPT !.attr = "Deleted"] # None
        /\ [c EXCEPT !.attr = "Deleted"].attr = "Deleted"
    <3>1. /\ [c EXCEPT !.attr = "Nothing"] \in LocalRecord
          /\ [c EXCEPT !.attr = "Deleted"] \in LocalRecord
      BY <2>1 DEF LocalRecord
    <3>2. /\ [c EXCEPT !.attr = "Nothing"].attr = "Nothing"
          /\ [c EXCEPT !.attr = "Nothing"].data = c.data
          /\ [c EXCEPT !.attr = "Deleted"].attr = "Deleted"
      BY <2>1 DEF LocalRecord
    <3> QED BY <3>1, <3>2, NoneAssumption
  <2>3. /\ StateOf(c) = IF ~c.archived THEN l
                        ELSE IF l = "Modified" THEN "ArchivedModified" ELSE "Archived"
        /\ Content(c) = c.data
    BY <1>5 DEF StateOf, Content
  <2>4. /\ r # None => /\ StateOf(r) = IF ~rem.archived THEN p
                            ELSE IF p = "Modified" THEN "ArchivedModified" ELSE "Archived"
                       /\ Content(r) = rem.data
        /\ r = None => StateOf(r) = "None" /\ Content(r) = None
    BY <1>0 DEF StateOf, Content
  <2>5. /\ l = "Modified" /\ p = "Modified" /\ c.data # rem.data => ops = {"add", "store"}
        /\ l = "Modified" /\ p = "Modified" /\ c.data = rem.data
             => ops = IF rem.archived THEN {"archiveRemote", "delete"}
                      ELSE IF c.archived THEN {"archiveLocal", "delete"} ELSE {"clear"}
        /\ rem.archived /\ l = "Modified" /\ p # "Modified" => ops = {"add"}
        /\ rem.archived /\ l # "Modified" => ops = {"archiveRemote"}
        /\ ~rem.archived /\ p = "Modified" /\ l # "Modified" => ops = {"store"}
        /\ ~rem.archived /\ p # "Modified" /\ c.archived => ops = {"archiveLocal", "delete"}
        /\ ~rem.archived /\ p # "Modified" /\ ~c.archived /\ l = "Modified" => ops = {"add"}
        /\ ~rem.archived /\ p # "Modified" /\ ~c.archived /\ l # "Modified" /\ p # l
             => ops = {"delete", "markDeleted"}
        /\ ~rem.archived /\ p # "Modified" /\ ~c.archived /\ p = l => ops = {}
    BY <1>0, <1>5, <2>1, VerdictCases
  \* the two sides swap their records, or one of them is sent or stored
  <2>6. CASE ops = {"add", "store"} /\ l = "Modified" /\ p = "Modified" /\ c.data # rem.data
    <3>1. c1 = LocalOf(id, rem.data) /\ r1 = Dirty(c.data)
      BY <2>6 DEF OnPC, OnPDA
    <3>2. Purged(c1) = c1 /\ Content(c1) = rem.data
      BY <1>1, <3>1 DEF Purged, Content
    <3>3. Content(Cleaned(r1)) = c.data
      BY <1>2, <2>1, <3>1 DEF Cleaned, Content
    <3>4. r # None
      BY <1>0, <2>6
    <3>5. AsTable(r, c, read, rem.data, c.data, archived)
      BY <2>3, <2>4, <2>6, <3>4 DEF AsTable
    <3> QED BY <1>1, <2>6, <3>1, <3>2, <3>3, <3>5
  <2>7. CASE ops = {"add"} /\ l = "Modified" /\ p # "Modified"
    <3>1. c1 = [c EXCEPT !.attr = "Nothing"] /\ r1 = Dirty(c.data)
      BY <1>5, <2>7 DEF OnPC, OnPDA
    <3>2. Purged(c1) = c1 /\ c1 # None /\ c1.data = c.data /\ c1.attr = "Nothing"
      BY <2>2, <3>1 DEF Purged
    <3>3. Cleaned(r1) # None /\ Cleaned(r1).data = c.data
      BY <1>2, <2>1, <3>1 DEF Cleaned
    <3>4. Content(Purged(c1)) = c.data /\ Content(Cleaned(r1)) = c.data
      BY <3>2, <3>3 DEF Content
    <3>5. AsTable(r, c, read, c.data, c.data, archived)
      BY <2>1, <2>3, <2>4, <2>7, <2>5 DEF AsTable
    <3>6. Agreeing(Cleaned(r1), Purged(c1))
      BY <3>2, <3>3 DEF Agreeing
    <3> QED BY <3>2, <3>4, <3>5, <3>6
  <2>8. CASE ops = {"store"} /\ l # "Modified" /\ p = "Modified" /\ ~rem.archived
    <3>1. c1 = LocalOf(id, rem.data) /\ r1 = r /\ r # None /\ rem = r
      BY <1>0, <2>8 DEF OnPC, OnPDA
    <3>2. Purged(c1) = c1 /\ c1 # None /\ c1.data = rem.data /\ c1.attr = "Nothing"
      BY <1>1, <3>1 DEF Purged
    <3>3. Cleaned(r1) # None /\ Cleaned(r1).data = rem.data
      <4>1. Cleaned(r1) = Clean(rem.data)
        BY <2>8, <3>1 DEF Cleaned
      <4> QED BY <1>2, <1>3, <4>1
    <3>4. Content(Purged(c1)) = rem.data /\ Content(Cleaned(r1)) = rem.data
      BY <3>2, <3>3 DEF Content
    <3>5. AsTable(r, c, read, rem.data, rem.data, archived)
      BY <2>1, <2>3, <2>4, <2>8, <3>1 DEF AsTable
    <3>6. Agreeing(Cleaned(r1), Purged(c1))
      BY <3>2, <3>3 DEF Agreeing
    <3> QED BY <3>2, <3>4, <3>5, <3>6
  <2>9. CASE ops = {"clear"} /\ l = "Modified" /\ p = "Modified" /\ c.data = rem.data
             /\ ~rem.archived /\ ~c.archived
    <3>1. c1 = [c EXCEPT !.attr = "Nothing"] /\ r1 = r /\ r # None /\ rem = r
      BY <1>0, <1>5, <2>9 DEF OnPC, OnPDA
    <3>2. Purged(c1) = c1 /\ c1 # None /\ c1.data = c.data /\ c1.attr = "Nothing"
      BY <2>2, <3>1 DEF Purged
    <3>3. Cleaned(r1) # None /\ Cleaned(r1).data = rem.data
      <4>1. Cleaned(r1) = Clean(rem.data)
        BY <2>9, <3>1 DEF Cleaned
      <4> QED BY <1>2, <1>3, <4>1
    <3>4. Content(Purged(c1)) = rem.data /\ Content(Cleaned(r1)) = rem.data
      BY <2>9, <3>2, <3>3 DEF Content
    <3>5. AsTable(r, c, read, rem.data, rem.data, archived)
      BY <2>3, <2>4, <2>9, <3>1 DEF AsTable
    <3>6. Agreeing(Cleaned(r1), Purged(c1))
      BY <2>9, <3>2, <3>3 DEF Agreeing
    <3> QED BY <3>2, <3>4, <3>5, <3>6
  \* the record is archived, or deleted on both sides
  <2>10. ASSUME "archiveRemote" \in ops \/ "archiveLocal" \in ops
         PROVE  /\ c1 = None
                /\ AsTable(r, c, read, Content(Purged(c1)), Content(Cleaned(r1)), archived)
                /\ Agreeing(Cleaned(r1), Purged(c1))
    <3>1. \/ /\ ops = {"archiveRemote", "delete"} /\ rem.archived
             /\ l = "Modified" /\ p = "Modified" /\ c.data = rem.data
          \/ /\ ops = {"archiveLocal", "delete"} /\ ~rem.archived /\ c.archived
             /\ l = "Modified" /\ p = "Modified" /\ c.data = rem.data
          \/ ops = {"archiveRemote"} /\ rem.archived /\ l # "Modified"
          \/ /\ ops = {"archiveLocal", "delete"} /\ ~rem.archived /\ c.archived
             /\ p # "Modified"
      <4>1. "archiveRemote" \notin {"add", "store"} /\ "archiveLocal" \notin {"add", "store"}
        OBVIOUS
      <4> QED BY <1>0, <2>1, <2>5, <2>10, <4>1 DEF PilotRecord
    <3>2. r # None /\ rem = r
      BY <1>0, <3>1
    <3>3. c1 = None /\ Purged(c1) = None
      BY <3>1 DEF OnPC, Purged
    <3>4. Cleaned(r1) = None
      <4>1. "delete" \in ops => r1 = Deleted
        BY <3>1, <3>2 DEF OnPDA
      <4>2. "delete" \notin ops => r1 = r /\ rem.archived
        BY <3>1 DEF OnPDA
      <4> QED BY <1>2, <3>2, <4>1, <4>2 DEF Cleaned
    <3>5. AsTable(r, c, read, None, None, archived)
      <4>1. "archiveRemote" \in ops => rem.data \in archived
        OBVIOUS
      <4> QED BY <2>1, <2>3, <2>4, <3>1, <3>2, <4>1 DEF AsTable
    <3> QED BY <3>3, <3>4, <3>5 DEF Content, Agreeing
  <2>11. CASE ops = {"delete", "markDeleted"} /\ ~rem.archived /\ ~c.archived
              /\ p # "Modified" /\ l # "Modified" /\ p # l
    <3>1. c1 = [c EXCEPT !.attr = "Deleted"]
          /\ (r # None => r1 = Deleted) /\ (r = None => r1 = None)
      BY <1>5, <2>11 DEF OnPC, OnPDA
    <3>2. Purged(c1) = None /\ c1.attr = "Deleted"
      BY <2>2, <3>1 DEF Purged
    <3>3. Cleaned(r1) = None
      BY <1>2, <3>1 DEF Cleaned
    <3>4. Content(None) = None
      BY DEF Content
    <3>5. AsTable(r, c, read, None, None, archived)
      BY <2>1, <2>3, <2>4, <2>11 DEF AsTable
    <3>6. Agreeing(None, None)
      BY DEF Agreeing
    <3> QED BY <2>11, <3>2, <3>3, <3>4, <3>5, <3>6
  <2>12. CASE ops = {} /\ p = l /\ ~rem.archived /\ ~c.archived /\ p # "Modified"
    <3>1. r # None /\ rem = r
      BY <1>0, <2>12
    <3>2. r1 = r /\ c1 = c
      BY <1>5, <2>12 DEF OnPC, OnPDA
    <3> QED BY <1>5, <2>1, <2>12, <3>1, <3>2 DEF NothingToDo
  <2> QED BY <2>1, <2>5, <2>6, <2>7, <2>8, <2>9, <2>10, <2>11, <2>12
<1> QED BY <1>4, <1>5

-----------------------------------------------------------------------------
(* The same on the two sides: no other record is touched.                  *)

(* A stored record finds its place, and leaves every other where it was.   *)
LEMMA StoreIn ==
  ASSUME NEW store \in Places, Unique(store), NEW id \in Ids,
         NEW v \in Values \cup {None},
         Matching(store, id) = {} => \E m \in Keys : store[m] = None
  PROVE  /\ Unique(StoreRemote(store, id, v))
         /\ Counterpart(StoreRemote(store, id, v), id) = LocalOf(id, v)
         /\ \A j \in Ids : j # id =>
              Counterpart(StoreRemote(store, id, v), j) = Counterpart(store, j)
         /\ \A m \in Keys : \/ StoreRemote(store, id, v)[m] = store[m]
                            \/ StoreRemote(store, id, v)[m] = LocalOf(id, v)
<1>1. PICK s : s = StoreRemote(store, id, v)
  OBVIOUS
<1>2. PICK r : r = LocalOf(id, v)
  OBVIOUS
<1>3. r # None /\ r.id = id
  BY <1>2, StoreDoes
<1>4. PICK p \in Keys : /\ Matching(store, id) # {} => Matching(store, id) = {p}
                        /\ Matching(store, id) = {} => store[p] = None
                        /\ \A m \in Keys : s[m] = IF m = p THEN r ELSE store[m]
  <2>1. CASE Matching(store, id) = {}
    <3>1. PICK p : p = Least({m \in Keys : store[m] = None})
      OBVIOUS
    <3>2. p \in Keys /\ store[p] = None
      <4>1. {m \in Keys : store[m] = None} \in SUBSET Keys
            /\ {m \in Keys : store[m] = None} # {}
        BY <2>1
      <4>2. p \in {m \in Keys : store[m] = None}
        BY <3>1, <4>1, Numbered
      <4> QED BY <4>2
    <3>3. \A m \in Keys : s[m] = IF m \in {p} THEN r ELSE store[m]
      BY <1>1, <1>2, <2>1, <3>1 DEF StoreRemote
    <3> QED BY <2>1, <3>2, <3>3
  <2>2. CASE Matching(store, id) # {}
    <3>1. PICK p \in Matching(store, id) : TRUE
      BY <2>2
    <3>2. p \in Keys /\ Matching(store, id) = {p}
      BY <3>1, CounterpartIs DEF Matching
    <3>3. \A m \in Keys : s[m] = IF m \in {p} THEN r ELSE store[m]
      BY <1>1, <1>2, <2>2, <3>2 DEF StoreRemote
    <3> QED BY <2>2, <3>2, <3>3
  <2> QED BY <2>1, <2>2
<1>5. Matching(s, id) = {p}
  BY <1>3, <1>4 DEF Matching
<1>6. Counterpart(s, id) = r
  <2>1. Least({p}) = p
    BY <1>4, Numbered
  <2> QED BY <1>4, <1>5, <2>1 DEF Counterpart
<1>7. ASSUME NEW j \in Ids, j # id
      PROVE  Matching(s, j) = Matching(store, j) /\ Counterpart(s, j) = Counterpart(store, j)
  <2>1. store[p] # None => store[p].id = id
    BY <1>4 DEF Matching
  <2>2. \A m \in Keys : (s[m] # None /\ s[m].id = j) \/ (store[m] # None /\ store[m].id = j)
                          => s[m] = store[m]
    BY <1>3, <1>4, <1>7, <2>1
  <2> QED BY <2>2, SameCounterpart
<1>8. Unique(s)
  <2>1. ASSUME NEW j \in Ids, NEW m \in Matching(s, j), NEW n \in Matching(s, j)
        PROVE  m = n
    <3>1. CASE j = id
      BY <1>5, <3>1
    <3>2. CASE j # id
      BY <1>7, <3>2 DEF Unique
    <3> QED BY <3>1, <3>2
  <2> QED BY <2>1 DEF Unique
<1> QED BY <1>1, <1>2, <1>4, <1>6, <1>7, <1>8

(* One place marked or emptied, and the others left alone.                 *)
LEMMA OnePlaceOf ==
  ASSUME NEW store \in Places, Unique(store), NEW s \in Places,
         NEW k \in Keys, NEW id \in Ids, store[k] # None, store[k].id = id,
         \A m \in Keys : m # k => s[m] = store[m],
         s[k] # None => s[k].id = id
  PROVE  /\ Unique(s)
         /\ Counterpart(store, id) = store[k]
         /\ Counterpart(s, id) = s[k]
         /\ \A j \in Ids : j # id => Counterpart(s, j) = Counterpart(store, j)
<1>1. k \in Matching(store, id)
  BY DEF Matching
<1>2. Matching(store, id) = {k} /\ Counterpart(store, id) = store[k]
  BY <1>1, CounterpartIs
<1>3. ASSUME NEW j \in Ids, j # id
      PROVE  Matching(s, j) = Matching(store, j) /\ Counterpart(s, j) = Counterpart(store, j)
  <2>1. \A m \in Keys : (s[m] # None /\ s[m].id = j) \/ (store[m] # None /\ store[m].id = j)
                          => s[m] = store[m]
    BY <1>3
  <2> QED BY <2>1, SameCounterpart
<1>4. \A m \in Matching(s, id) : m = k
  <2>1. \A m \in Matching(s, id) : m # k => m \in Matching(store, id)
    BY DEF Matching
  <2> QED BY <1>2, <2>1
<1>5. Unique(s)
  <2>1. ASSUME NEW j \in Ids, NEW m \in Matching(s, j), NEW n \in Matching(s, j)
        PROVE  m = n
    <3>1. CASE j = id
      BY <1>4, <3>1
    <3>2. CASE j # id
      BY <1>3, <3>2 DEF Unique
    <3> QED BY <3>1, <3>2
  <2> QED BY <2>1 DEF Unique
<1>6. Counterpart(s, id) = s[k]
  <2>1. CASE s[k] = None
    <3>1. Matching(s, id) = {}
      <4>1. k \notin Matching(s, id)
        BY <2>1 DEF Matching
      <4> QED BY <1>4, <4>1
    <3> QED BY <2>1, <3>1 DEF Counterpart
  <2>2. CASE s[k] # None
    <3>1. k \in Matching(s, id)
      BY <2>2 DEF Matching
    <3> QED BY <1>5, <3>1, CounterpartIs
  <2> QED BY <2>1, <2>2
<1> QED BY <1>2, <1>3, <1>5, <1>6

(* What a session may rely on in the store, while the link holds: a record *)
(* without an id is new, and an archived one is not deleted as well.       *)
Tidy(store) ==
  \A k \in Keys : store[k] # None =>
    /\ store[k].id = Unassigned => store[k].attr = "New" /\ ~store[k].archived
    /\ store[k].archived => store[k].attr # "Deleted"

(* What the treatment of one record leaves alone.                          *)
OnlyTouches(id) ==
  /\ \A j \in Ids : j # id => /\ Counterpart(local', j) = Counterpart(local, j)
                              /\ remote'[j] = remote[j]
  /\ \A m \in Keys : local'[m] # None =>
       \/ local'[m] = local[m]
       \/ local'[m].id = id /\ local'[m].attr \in {"Nothing", "Deleted"}
  /\ archive \subseteq archive' /\ given \subseteq given'
  /\ ignore \subseteq ignore' /\ ignore' \subseteq ignore \cup {id}
  /\ exempt \subseteq exempt' /\ exempt' \subseteq exempt \cup {id}

(* The treatment of a record: what SyncRecord makes of its two sides, and  *)
(* that it touches nothing else.                                           *)
LEMMA SyncRecordTouches ==
  ASSUME IInv, Tidy(local), NEW k, NEW id \in Ids, NEW rem, Counterparts(k, id, rem),
         SyncRecord(k, id, rem)
  PROVE  /\ OnlyTouches(id)
         /\ Tidy(local')
         /\ LET c == Counterpart(local, id)
                ops == Verdict(c, rem)
            IN  session \in TwoWay /\ link = "up" =>
                  /\ Counterpart(local', id) = OnPC(id, c, rem, ops)
                  /\ remote'[id] = OnPDA(remote[id], c, ops)
                  /\ "archiveRemote" \in ops => rem.data \in archive'
                  /\ "archiveLocal" \in ops => c.data \in archive'
                  /\ "delete" \in ops => id \in ignore'
                  /\ ops = {} => ignore' = ignore
                  /\ {"add", "store"} \subseteq ops => id \in exempt'
                  /\ c = None /\ rem.attr = "Deleted" => id \in exempt'
<1>0. PICK loc : loc = (IF k = 0 THEN None ELSE local[k])
  OBVIOUS
<1>1. PICK ops : ops = Verdict(loc, rem) \cap Permitted
  OBVIOUS
<1>2. PICK pre : pre = Prepared(k, ops)
  OBVIOUS
<1>3. /\ local' = IF "store" \in ops THEN StoreRemote(pre, id, rem.data) ELSE pre
      /\ archive' = archive \cup If("archiveRemote" \in ops, {rem.data})
                            \cup If("archiveLocal" \in ops, {loc.data})
      /\ remote' = IF "add" \in ops /\ link = "up"
                   THEN [remote EXCEPT ![AssignedId(id)] = Dirty(loc.data)]
                   ELSE IF "delete" \in ops /\ OnPilot(id)
                   THEN [remote EXCEPT ![id] = Deleted]
                   ELSE remote
      /\ given' = given \cup If("add" \in ops /\ link = "up", {AssignedId(id)})
      /\ ignore' = ignore \cup If("add" \in ops /\ link = "up", {AssignedId(id)})
                          \cup If("delete" \in ops, {id})
      /\ exempt' = exempt \cup If({"add", "store"} \subseteq ops, {id})
                          \cup If(loc = None /\ rem.attr = "Deleted", {id})
  BY <1>0, <1>1, <1>2, Zenon DEF SyncRecord, Prepared
<1>4. /\ k \in Keys \cup {0} /\ rem \in PilotRecord /\ id \in given /\ id # Unassigned
      /\ k = 0 => Matching(local, id) = {} /\ loc = None
      /\ k # 0 => k \in Keys /\ local[k] # None /\ local[k].id = id /\ loc = local[k]
      /\ local \in Places /\ remote \in Database /\ Unique(local)
      /\ loc \in LocalRecord \cup {None}
  BY <1>0, Numbered DEF Counterparts, IInv, TypeOK, Places, Database, Unique, OneCounterpart
<1>5. /\ loc = None => ops \subseteq {"archiveRemote", "store"}
      /\ rem.data \in Values \cup {None}
      /\ AssignedId(id) = id
  BY <1>1, <1>4, VerdictFacts DEF PilotRecord, AssignedId
<1>6. /\ pre \in Places
      /\ \A j \in Keys : j # k => pre[j] = local[j]
      /\ k # 0 /\ pre[k] # None =>
           /\ pre[k].id = id
           /\ pre[k] = local[k] \/ pre[k].attr \in {"Nothing", "Deleted"}
  <2>1. k = 0 => ops \subseteq {"archiveRemote", "store"}
    BY <1>4, <1>5
  <2>2. k # 0 => local[k] # None
    BY <1>4
  <2> QED BY <1>2, <1>4, <2>1, <2>2, PreparedTypes DEF IInv
<1>12. ASSUME Unique(pre), Counterpart(local, id) = loc,
              \A j \in Ids : j # id => Counterpart(pre, j) = Counterpart(local, j),
              Counterpart(pre, id) =
                IF loc = None \/ ops \cap {"archiveRemote", "archiveLocal"} # {} THEN None
                ELSE IF "markDeleted" \in ops THEN [loc EXCEPT !.attr = "Deleted"]
                ELSE IF ops \cap {"add", "clear"} # {} THEN [loc EXCEPT !.attr = "Nothing"]
                ELSE loc,
              Matching(pre, id) = {} => \E m \in Keys : pre[m] = None,
              \A m \in Keys : pre[m] # None =>
                \/ pre[m] = local[m]
                \/ pre[m].id = id /\ pre[m].attr \in {"Nothing", "Deleted"},
              Tidy(pre)
       PROVE  /\ OnlyTouches(id) /\ Tidy(local')
              /\ session \in TwoWay /\ link = "up" =>
                  /\ Counterpart(local', id) = OnPC(id, loc, rem, Verdict(loc, rem))
                  /\ remote'[id] = OnPDA(remote[id], loc, Verdict(loc, rem))
                  /\ "archiveRemote" \in Verdict(loc, rem) => rem.data \in archive'
                  /\ "archiveLocal" \in Verdict(loc, rem) => loc.data \in archive'
                  /\ "delete" \in Verdict(loc, rem) => id \in ignore'
                  /\ Verdict(loc, rem) = {} => ignore' = ignore
                  /\ {"add", "store"} \subseteq Verdict(loc, rem) => id \in exempt'
                  /\ loc = None /\ rem.attr = "Deleted" => id \in exempt'
  <2>1. /\ "store" \in ops =>
             /\ Counterpart(local', id) = LocalOf(id, rem.data)
             /\ \A j \in Ids : j # id => Counterpart(local', j) = Counterpart(pre, j)
             /\ \A m \in Keys : local'[m] = pre[m] \/ local'[m] = LocalOf(id, rem.data)
        /\ "store" \notin ops => local' = pre
    BY <1>3, <1>5, <1>6, <1>12, StoreIn
  <2>2. /\ LocalOf(id, rem.data).id = id /\ LocalOf(id, rem.data).attr = "Nothing"
    BY DEF LocalOf
  <2>3. \A j \in Ids : j # id => Counterpart(local', j) = Counterpart(local, j)
    BY <1>12, <2>1
  <2>4. \A j \in Ids : j # id => remote'[j] = remote[j]
    BY <1>3, <1>4, <1>5 DEF Database
  <2>5. /\ archive \subseteq archive' /\ given \subseteq given'
        /\ ignore \subseteq ignore' /\ ignore' \subseteq ignore \cup {id}
        /\ exempt \subseteq exempt' /\ exempt' \subseteq exempt \cup {id}
    BY <1>3, <1>5 DEF If
  <2>6. OnlyTouches(id)
    <3>1. \A m \in Keys : local'[m] # None =>
            \/ local'[m] = local[m]
            \/ local'[m].id = id /\ local'[m].attr \in {"Nothing", "Deleted"}
      BY <1>12, <2>1, <2>2
    <3> QED BY <2>3, <2>4, <2>5, <3>1 DEF OnlyTouches
  <2>7. Tidy(local')
    <3>1. \A m \in Keys : local'[m] = pre[m] \/ local'[m] = LocalOf(id, rem.data)
      BY <2>1
    <3> QED BY <1>4, <1>12, <2>2, <3>1 DEF Tidy
  <2>8. ASSUME session \in TwoWay, link = "up"
        PROVE  /\ ops = Verdict(loc, rem)
               /\ Counterpart(local', id) = OnPC(id, loc, rem, ops)
               /\ remote'[id] = OnPDA(remote[id], loc, ops)
    <3>1. ops = Verdict(loc, rem)
      <4>1. Permitted = {"add", "delete", "store", "archiveRemote", "archiveLocal",
                         "clear", "markDeleted"}
        BY <2>8 DEF Permitted, TwoWay
      <4>2. Verdict(loc, rem) \subseteq Permitted
        <5>1. CASE loc = None
          BY <1>4, <4>1, <5>1, VerdictFacts
        <5>2. CASE loc # None
          <6>1. loc \in LocalRecord /\ loc.attr # "New"
            BY <1>4, <5>2 DEF IInv, KeptIds
          <6> QED BY <1>4, <4>1, <6>1, VerdictCases DEF LocalRecord, PilotRecord
        <5> QED BY <5>1, <5>2
      <4> QED BY <1>1, <4>2
    <3>2. Counterpart(local', id) = OnPC(id, loc, rem, ops)
      BY <1>12, <2>1 DEF OnPC
    <3>3. remote'[id] = OnPDA(remote[id], loc, ops)
      BY <1>3, <1>4, <1>5, <2>8 DEF OnPDA, OnPilot, Database
    <3> QED BY <3>1, <3>2, <3>3
  <2>9. /\ "archiveRemote" \in ops => rem.data \in archive'
        /\ "archiveLocal" \in ops => loc.data \in archive'
        /\ "delete" \in ops => id \in ignore'
        /\ ops = {} => ignore' = ignore
        /\ {"add", "store"} \subseteq ops => id \in exempt'
        /\ loc = None /\ rem.attr = "Deleted" => id \in exempt'
    BY <1>3 DEF If
  <2> QED BY <2>6, <2>7, <2>8, <2>9
<1>7. CASE k = 0
  <2>1. pre = local
    BY <1>2, <1>4, <1>5, <1>7 DEF Prepared
  <2>2. Counterpart(local, id) = None /\ loc = None
    BY <1>4, <1>7 DEF Counterpart
  <2>3. \E m \in Keys : pre[m] = None
    <3>1. Least({m \in Keys : local[m] = None}) \in {m \in Keys : local[m] = None}
      BY <1>4, <1>7, FreePlace
    <3> QED BY <2>1, <3>1
  <2> QED BY <1>4, <2>1, <2>2, <2>3, <1>12
<1>8. CASE k # 0
  <2>1. /\ k \in Keys /\ local[k] # None /\ loc = local[k] /\ loc.id = id
        /\ loc \in LocalRecord /\ loc # None
    BY <1>4, <1>8
  <2>2. pre[k] = IF ops \cap {"archiveRemote", "archiveLocal"} # {} THEN None
                 ELSE IF "markDeleted" \in ops THEN [loc EXCEPT !.attr = "Deleted"]
                 ELSE IF ops \cap {"add", "clear"} # {} THEN [loc EXCEPT !.attr = "Nothing"]
                 ELSE loc
    <3>1. /\ [local EXCEPT ![k] = None][k] = None
          /\ [local EXCEPT ![k].attr = "Deleted"][k] = [loc EXCEPT !.attr = "Deleted"]
          /\ [local EXCEPT ![k].attr = "Nothing"][k] = [loc EXCEPT !.attr = "Nothing"]
      BY <1>4, <2>1 DEF Places
    <3> QED BY <1>2, <1>8, <2>1, <3>1 DEF Prepared
  <2>3. /\ Unique(pre) /\ Counterpart(local, id) = loc /\ Counterpart(pre, id) = pre[k]
        /\ \A j \in Ids : j # id => Counterpart(pre, j) = Counterpart(local, j)
    <3>1. pre[k] # None => pre[k].id = id
      BY <1>6, <1>8
    <3> QED BY <1>4, <1>6, <2>1, <3>1, OnePlaceOf
  <2>4. Matching(pre, id) = {} => \E m \in Keys : pre[m] = None
    <3>1. pre[k] # None => k \in Matching(pre, id)
      BY <1>6, <1>8, <2>1 DEF Matching
    <3> QED BY <2>1, <3>1
  <2>5. loc.attr # "New" /\ (loc.archived => loc.attr # "Deleted")
    BY <1>4, <2>1 DEF IInv, KeptIds, Tidy
  <2>6. "markDeleted" \in ops => ~loc.archived
    <3>1. "markDeleted" \in Verdict(loc, rem) => ~loc.archived
      BY <1>4, <2>1, <2>5, VerdictCases DEF LocalRecord, PilotRecord
    <3> QED BY <1>1, <3>1
  <2>7. Tidy(pre)
    <3>1. pre[k] # None => pre[k].id = id /\ (pre[k].archived => pre[k].attr # "Deleted")
      <4>1. /\ [loc EXCEPT !.attr = "Deleted"].archived = loc.archived
            /\ [loc EXCEPT !.attr = "Nothing"].attr = "Nothing"
        BY <2>1 DEF LocalRecord
      <4>2. pre[k] # None => pre[k].id = id
        BY <1>6, <1>8
      <4> QED BY <2>2, <2>5, <2>6, <4>1, <4>2
    <3> QED BY <1>4, <1>6, <3>1 DEF Tidy
  <2>8. \A m \in Keys : pre[m] # None =>
          \/ pre[m] = local[m]
          \/ pre[m].id = id /\ pre[m].attr \in {"Nothing", "Deleted"}
    BY <1>6, <2>1, <1>8
  <2> QED BY <2>1, <2>2, <2>3, <2>4, <2>7, <2>8, <1>12
<1> QED BY <1>7, <1>8

-----------------------------------------------------------------------------
(* The invariant of a session *)

(* A record as the session found it, and one the session has treated.      *)
Kept(id) ==
  /\ remote[id] = before.remote[id]
  /\ Counterpart(local, id) = FoundLocal(id)
  /\ id \notin ignore
Done(id) ==
  LET c == Counterpart(local, id)
      r == remote[id]
  IN  /\ c # None => c.attr = "Nothing" \/ (c.attr = "Deleted" /\ id \in ignore)
      /\ AsTable(before.remote[id], FoundLocal(id), ReadByLoop(before.remote[id]),
                 Content(Purged(c)), Content(Cleaned(r)), archive)
      /\ id \in exempt \/ Agreeing(Cleaned(r), Purged(c))

(* The loop over the PDA comes to it, and finds that there is nothing to do;*)
(* or does not read it at all.                                              *)
Passed(id) ==
  /\ Kept(id)
  /\ ReadByLoop(remote[id]) => NothingToDo(remote[id], FoundLocal(id))
Unread(id) == phase = "remote" /\ id > index

Waiting(a) ==
  {k \in Keys : local[k] # None /\ local[k].attr = a /\ ~local[k].archived}

(* What the loops over the PC have left behind them.                       *)
LoopsBehind ==
  /\ phase = "new" => \A k \in Waiting("New") : k > index
  /\ phase \in {"modified", "deleted"} => Waiting("New") = {}
  /\ phase = "modified" => \A k \in Waiting("Modified") : k > index
  /\ phase = "deleted" => Waiting("Modified") = {}
  /\ phase = "deleted" => \A k \in Waiting("Deleted") :
       k <= index /\ local[k].id \notin ignore =>
         remote[local[k].id] # None /\ remote[local[k].id].attr = "Deleted"

Treated ==
  /\ \A id \in Ids : Unread(id) => Kept(id)
  /\ \A id \in Ids : ~Unread(id) => Done(id) \/ Passed(id)
  /\ LoopsBehind

(* What a session finds.                                                   *)
FoundFits ==
  /\ \A i \in Ids : before.remote[i] # None => i \in given
  /\ \A k \in Keys : before.local[k] # None =>
       /\ before.local[k].id \in given \cup {Unassigned}
       /\ before.local[k].attr = "New" => before.local[k].id = Unassigned
  /\ Unique(before.local)
  /\ Tidy(before.local)
FoundAccounted ==
  \A id \in Ids \ exempt : Accounted(before.remote[id], FoundLocal(id))
NowAccounted ==
  \A id \in Ids \ exempt : Accounted(remote[id], Counterpart(local, id))

(* Nothing is left to do for a fast synchronization.                       *)
Calm ==
  /\ \A id \in Ids : ~Flagged(remote[id])
  /\ \A k \in Keys : local[k] # None => local[k].attr # "Deleted"
  /\ Waiting("New") = {} /\ Waiting("Modified") = {}

SessionFits ==
  /\ phase = "remote" => session \in TwoWay \cup {"MergeFromPilot"}
  /\ phase \in {"new", "modified"} => session \in TwoWay \cup {"MergeToPilot"}
  /\ phase = "deleted" => session \in TwoWay
  /\ phase = "copyOut" => session = "CopyToPilot"
  /\ phase = "copyIn" => session = "CopyFromPilot"

Unbroken ==
  /\ link = "up"
  /\ Tidy(local)
  /\ FoundFits
  /\ AtRest => NowAccounted
  /\ ~AtRest /\ session \in TwoWay => Treated /\ FoundAccounted
  /\ phase = "closed" /\ session \in TwoWay =>
       /\ Calm
       /\ \A id \in Ids :
            AsTable(before.remote[id], FoundLocal(id), ReadByLoop(before.remote[id]),
                    Content(Counterpart(local, id)), Content(remote[id]), archive)
  /\ again => /\ session = "FastSync" /\ Calm
              /\ remote = before.remote /\ local = before.local

SInv == SessionFits /\ (spent.breaks = 0 => Unbroken)

(* What is archived stays archived.                                        *)
LEMMA TableKept ==
  ASSUME NEW r, NEW l, NEW read, NEW x, NEW y, NEW A, NEW B, A \subseteq B,
         AsTable(r, l, read, x, y, A)
  PROVE  AsTable(r, l, read, x, y, B)
BY DEF AsTable

(* What the session found, as records.                                     *)
LEMMA FoundIs ==
  ASSUME IInv, NEW id \in Ids
  PROVE  /\ FoundLocal(id) = Counterpart(before.local, id)
         /\ FoundLocal(id) \in LocalRecord \cup {None}
         /\ before.remote[id] \in PilotRecord \cup {None}
         /\ FoundFits /\ FoundLocal(id) # None =>
              /\ FoundLocal(id).attr # "New"
              /\ FoundLocal(id).archived => FoundLocal(id).attr # "Deleted"
<1>1. FoundLocal(id) = Counterpart(before.local, id)
  BY DEF FoundLocal, Counterpart
<1>2. before.local \in Places /\ before.remote \in Database
  BY DEF IInv, TypeOK, Places, Database
<1>3. ASSUME FoundFits, FoundLocal(id) # None
      PROVE  /\ FoundLocal(id).attr # "New"
             /\ FoundLocal(id).archived => FoundLocal(id).attr # "Deleted"
  <2>1. Matching(before.local, id) # {}
    BY <1>1, <1>3 DEF Counterpart
  <2>2. PICK k \in Matching(before.local, id) : TRUE
    BY <2>1
  <2>3. k \in Keys /\ before.local[k] # None /\ before.local[k].id = id
        /\ FoundLocal(id) = before.local[k]
    BY <1>1, <1>2, <1>3, <2>2, CounterpartIs DEF FoundFits, Matching
  <2> QED BY <1>3, <2>3, Numbered DEF FoundFits, Tidy
<1> QED BY <1>1, <1>2, <1>3, CounterpartTypes DEF Database

(* What is not touched stays as it was.                                    *)
LEMMA OthersStay ==
  ASSUME NEW id \in Ids, OnlyTouches(id), before' = before, session' = session,
         NEW j \in Ids, j # id
  PROVE  /\ Kept(j) => Kept(j)'
         /\ Passed(j) => Passed(j)'
         /\ Done(j) => Done(j)'
<1>1. /\ Counterpart(local', j) = Counterpart(local, j)
      /\ remote'[j] = remote[j]
      /\ archive \subseteq archive'
      /\ j \in ignore' <=> j \in ignore
      /\ exempt \subseteq exempt'
  BY DEF OnlyTouches
<1>2. /\ FoundLocal(j)' = FoundLocal(j)
      /\ \A r : ReadByLoop(r)' <=> ReadByLoop(r)
  BY DEF FoundLocal, ReadByLoop, Matching
<1>3. Kept(j) => Kept(j)'
  BY <1>1, <1>2 DEF Kept
<1>4. Passed(j) => Passed(j)'
  BY <1>1, <1>2, <1>3 DEF Passed
<1>5. Done(j) => Done(j)'
  BY <1>1, <1>2, TableKept DEF Done
<1> QED BY <1>3, <1>4, <1>5

(* A treated record is done with, or there was nothing to do.              *)
LEMMA TreatedIs ==
  ASSUME IInv, FoundFits, Tidy(local), session \in TwoWay, link = "up",
         before' = before, session' = session,
         NEW id \in Ids, Kept(id),
         NEW k, Counterparts(k, id, ReadAs(remote[id])),
         SyncRecord(k, id, ReadAs(remote[id])),
         remote[id] = None => /\ FoundLocal(id) # None /\ ~FoundLocal(id).archived
                              /\ FoundLocal(id).attr # "Nothing"
  PROVE  Done(id)' \/ (Passed(id)' /\ NothingToDo(remote'[id], Counterpart(local', id)))
<1>1. PICK r : r = remote[id]
  OBVIOUS
<1>2. PICK c : c = Counterpart(local, id)
  OBVIOUS
<1>3. PICK ops : ops = Verdict(c, ReadAs(r))
  OBVIOUS
<1>4. /\ r \in PilotRecord \cup {None} /\ c \in LocalRecord \cup {None}
      /\ r = before.remote[id] /\ c = FoundLocal(id) /\ id \notin ignore
      /\ c # None => c.attr # "New" /\ (c.archived => c.attr # "Deleted")
      /\ r = None => c # None /\ ~c.archived /\ c.attr # "Nothing"
  BY <1>1, <1>2, FoundIs DEF Kept
<1>5. PICK c1 : c1 = OnPC(id, c, ReadAs(r), ops)
  OBVIOUS
<1>6. PICK r1 : r1 = OnPDA(r, c, ops)
  OBVIOUS
<1>7. /\ Counterpart(local', id) = c1
      /\ remote'[id] = r1
      /\ "archiveRemote" \in ops => ReadAs(r).data \in archive'
      /\ "archiveLocal" \in ops => c.data \in archive'
      /\ "delete" \in ops => id \in ignore'
      /\ ops = {} => ignore' = ignore
      /\ {"add", "store"} \subseteq ops => id \in exempt'
      /\ c = None /\ ReadAs(r).attr = "Deleted" => id \in exempt'
  BY <1>1, <1>2, <1>3, <1>5, <1>6, SyncRecordTouches
<1>8. PICK A : A = archive'
  OBVIOUS
<1>9. PICK read \in BOOLEAN : read = ReadByLoop(r)
  BY DEF ReadByLoop, Flagged
<1>10. \/ r # None /\ c # None /\ ops = {} /\ NothingToDo(r, c) /\ r1 = r /\ c1 = c
       \/ /\ c1 # None => c1.attr = "Nothing" \/ (c1.attr = "Deleted" /\ "delete" \in ops)
          /\ AsTable(r, c, read, Content(Purged(c1)), Content(Cleaned(r1)), A)
          /\ \/ {"add", "store"} \subseteq ops
             \/ c = None /\ ReadAs(r).attr = "Deleted"
             \/ Agreeing(Cleaned(r1), Purged(c1))
  <2>1. /\ id \in Ids
        /\ r \in PilotRecord \cup {None} /\ c \in LocalRecord \cup {None}
        /\ c # None => c.attr # "New" /\ (c.archived => c.attr # "Deleted")
        /\ r = None => c # None /\ ~c.archived /\ c.attr # "Nothing"
        /\ ops = Verdict(c, ReadAs(r))
        /\ c1 = OnPC(id, c, ReadAs(r), ops)
        /\ r1 = OnPDA(r, c, ops)
        /\ "archiveRemote" \in ops => ReadAs(r).data \in A
        /\ "archiveLocal" \in ops => c.data \in A
    BY <1>3, <1>4, <1>5, <1>6, <1>7, <1>8
  <2> QED BY ONLY <2>1, Outcome
<1>11. /\ FoundLocal(id)' = c /\ before'.remote[id] = r
       /\ ReadByLoop(before.remote[id])' = ReadByLoop(r)
  BY <1>4 DEF FoundLocal, ReadByLoop, Matching
<1>12. CASE r # None /\ c # None /\ ops = {} /\ NothingToDo(r, c) /\ r1 = r /\ c1 = c
  <2>1. Kept(id)'
    BY <1>4, <1>7, <1>11, <1>12 DEF Kept
  <2>2. /\ NothingToDo(remote'[id], FoundLocal(id)')
        /\ NothingToDo(remote'[id], Counterpart(local', id))
    BY <1>7, <1>11, <1>12
  <2> QED BY <2>1, <2>2 DEF Passed
<1>13. CASE /\ c1 # None => c1.attr = "Nothing" \/ (c1.attr = "Deleted" /\ "delete" \in ops)
            /\ AsTable(r, c, read, Content(Purged(c1)), Content(Cleaned(r1)), A)
            /\ \/ {"add", "store"} \subseteq ops
               \/ c = None /\ ReadAs(r).attr = "Deleted"
               \/ Agreeing(Cleaned(r1), Purged(c1))
  <2>1. c1 # None => c1.attr = "Nothing" \/ (c1.attr = "Deleted" /\ id \in ignore')
    BY <1>7, <1>13
  <2>2. id \in exempt' \/ Agreeing(Cleaned(r1), Purged(c1))
    BY <1>7, <1>13
  <2>3. AsTable(r, c, ReadByLoop(r), Content(Purged(c1)), Content(Cleaned(r1)), archive')
    BY <1>8, <1>9, <1>13
  <2> QED BY <1>7, <1>11, <2>1, <2>2, <2>3 DEF Done
<1> QED BY <1>10, <1>12, <1>13

(* An unflagged record is a record, and has its contents.                  *)
LEMMA CleanIs ==
  ASSUME NEW r \in PilotRecord \cup {None}, r # None
  PROVE  Clean(r.data) # None /\ Clean(r.data).data = r.data
<1>1. Clean(r.data) \in PilotRecord
  BY DEF Clean, PilotRecord
<1>2. Clean(r.data).data = r.data
  BY DEF Clean
<1> QED BY <1>1, <1>2, NoneAssumption

(* What becomes of a record that was passed, when the session is closed.   *)
LEMMA PassedOutcome ==
  ASSUME NEW r \in PilotRecord \cup {None}, NEW c \in LocalRecord \cup {None},
         c # None => /\ c.attr # "New" /\ (c.archived => c.attr # "Deleted")
                     /\ c.attr = "Modified" => c.archived
                     /\ c.attr = "Deleted" => r # None /\ r.attr = "Deleted",
         NEW read, r # None /\ Flagged(r) => read,
         read => NothingToDo(r, c),
         NEW archived
  PROVE  /\ AsTable(r, c, read, Content(Purged(c)), Content(Cleaned(r)), archived)
         /\ Accounted(r, c) => Agreeing(Cleaned(r), Purged(c)) \/ Pending(Purged(c))
<1>1. CASE r # None /\ c # None /\ NothingToDo(r, c)
  <2>1. /\ StateOf(r) = r.attr /\ StateOf(c) = r.attr
        /\ r.attr \in {"Nothing", "Deleted"} /\ c.attr = r.attr
        /\ ~r.archived /\ ~c.archived
    BY <1>1 DEF NothingToDo, StateOf
  <2>2. AsTable(r, c, read, Content(Purged(c)), Content(Cleaned(r)), archived)
    BY <2>1 DEF AsTable
  <2>3. CASE r.attr = "Deleted"
    BY <2>1, <2>2, <2>3, <1>1 DEF Cleaned, Purged, Agreeing
  <2>4. CASE r.attr = "Nothing"
    <3>1. ~Flagged(r) /\ ~Pending(c)
      BY <2>1, <2>4 DEF Flagged, Pending
    <3>2. Purged(c) = c /\ Cleaned(r) = Clean(r.data)
      BY <1>1, <2>1, <2>4 DEF Purged, Cleaned
    <3>3. Clean(r.data).data = r.data /\ Clean(r.data) # None
      BY <1>1, CleanIs
    <3> QED BY <1>1, <2>2, <3>1, <3>2, <3>3 DEF Accounted, Agreeing
  <2> QED BY <2>1, <2>3, <2>4
<1>2. CASE ~(r # None /\ c # None /\ NothingToDo(r, c))
  <2>1. ~read /\ ~Flagged(r)
    BY <1>2 DEF NothingToDo, Flagged
  <2>2. r # None => r.attr = "Nothing" /\ ~r.archived /\ StateOf(r) = "Nothing"
    BY <2>1 DEF Flagged, StateOf
  <2>3. r = None => StateOf(r) = "None"
    BY DEF StateOf
  <2>4. c # None => /\ c.attr \in {"Nothing", "Modified"}
                    /\ c.attr = "Modified" => c.archived
                    /\ StateOf(c) \in {"Nothing", "Archived", "ArchivedModified"}
    <3>1. c # None => c.attr \in {"Nothing", "Modified"} /\ (c.attr = "Modified" => c.archived)
      BY <2>2 DEF LocalRecord
    <3> QED BY <3>1 DEF StateOf
  <2>5. c = None => StateOf(c) = "None"
    BY DEF StateOf
  <2>6. AsTable(r, c, read, Content(Purged(c)), Content(Cleaned(r)), archived)
    BY <2>1, <2>2, <2>3, <2>4, <2>5 DEF AsTable
  <2>7. Purged(c) = c
    BY <2>4 DEF Purged
  <2>8. r # None => Cleaned(r) # None /\ Cleaned(r).data = r.data
    <3>1. r # None => Cleaned(r) = Clean(r.data)
      BY <2>2 DEF Cleaned
    <3> QED BY <3>1, CleanIs
  <2>9. r = None => Cleaned(r) = None
    BY DEF Cleaned
  <2> QED BY <2>1, <2>6, <2>7, <2>8, <2>9 DEF Accounted, Agreeing
<1> QED BY <1>1, <1>2

(* What the session found is known as long as the session lasts.           *)
LEMMA FoundStays ==
  ASSUME FoundFits, before' = before, given \subseteq given'
  PROVE  FoundFits'
BY DEF FoundFits, Unique, Tidy, Matching

(* A record of the store that has an id is the counterpart of that id.     *)
LEMMA UniqueHolds ==
  ASSUME IInv
  PROVE  /\ Unique(local) /\ local \in Places /\ remote \in Database
         /\ \A k \in Keys : local[k] # None /\ local[k].id # Unassigned =>
              /\ local[k].id \in Ids
              /\ Counterpart(local, local[k].id) = local[k]
              /\ \A j \in Keys : local[j] # None /\ local[j].id = local[k].id => j = k
<1>1. Unique(local) /\ local \in Places /\ remote \in Database
  BY DEF IInv, TypeOK, OneCounterpart, Unique, Places, Database
<1>2. ASSUME NEW k \in Keys, local[k] # None, local[k].id # Unassigned
      PROVE  /\ local[k].id \in Ids
             /\ Counterpart(local, local[k].id) = local[k]
             /\ \A j \in Keys : local[j] # None /\ local[j].id = local[k].id => j = k
  <2>1. local[k].id \in Ids
    BY <1>2 DEF IInv, KeptIds, TypeOK
  <2>2. k \in Matching(local, local[k].id)
    BY <1>2 DEF Matching
  <2>3. Matching(local, local[k].id) = {k} /\ Counterpart(local, local[k].id) = local[k]
    BY <1>1, <2>1, <2>2, CounterpartIs
  <2>4. \A j \in Keys : local[j] # None /\ local[j].id = local[k].id => j = k
    BY <2>3 DEF Matching
  <2> QED BY <2>1, <2>3, <2>4
<1> QED BY <1>1, <1>2

-----------------------------------------------------------------------------
(* The steps of a session *)

(* What every step of a session has in common.                             *)
LEMMA SessionGoesOn ==
  ASSUME Unbroken, ~AtRest, ~AtRest', Tidy(local'),
         UNCHANGED <<before, session, link, again>>,
         given \subseteq given', exempt \subseteq exempt',
         again => UNCHANGED <<remote, local>>,
         session \in TwoWay => Treated'
  PROVE  Unbroken'
<1>1. FoundFits'
  BY FoundStays DEF Unbroken
<1>2. session \in TwoWay => FoundAccounted'
  <2>1. \A id : FoundLocal(id)' = FoundLocal(id)
    BY DEF FoundLocal, Matching
  <2> QED BY <2>1 DEF Unbroken, FoundAccounted
<1>3. again' => /\ session' = "FastSync" /\ Calm'
                /\ remote' = before'.remote /\ local' = before'.local
  BY DEF Unbroken, Calm, Waiting
<1>4. phase' # "closed"
  BY DEF AtRest
<1> QED BY <1>1, <1>2, <1>3, <1>4 DEF Unbroken

(* The loop over the PDA: a record ahead of it is as the session found it, *)
(* one behind it is done with or had nothing to be done to it.             *)
LEMMA ReadRemoteGoesOn ==
  ASSUME IInv, IInv', SInv, ReadRemote
  PROVE  SInv'
<1>1. PICK id, k :
        /\ id \in Readable
        /\ id \in Ids /\ remote[id] # None /\ \A i \in Readable : id <= i
        /\ Counterparts(k, id, remote[id])
        /\ phase = "remote" /\ index' = id /\ phase' = phase /\ Unchanged
        /\ \/ /\ UNCHANGED <<sides, ignore, exempt>>
              /\ id \in ignore \/ session = "MergeFromPilot"
           \/ SyncRecord(k, id, remote[id])
  BY ReadRemoteTreats
<1>2. SessionFits'
  BY <1>1 DEF SInv, SessionFits, Unchanged
<1>3. SUFFICES ASSUME spent.breaks = 0 PROVE Unbroken'
  BY <1>1, <1>2 DEF SInv, Unchanged
<1>4. Unbroken /\ link = "up"
  BY <1>3 DEF SInv, Unbroken
<1>5. id > index /\ \A i \in Ids : i > index /\ i \notin Readable =>
                      (session \in TwoWay => ~ReadByLoop(remote[i]))
  BY <1>1, <1>4 DEF Readable, Ahead, ReadByLoop, TwoWay
<1>6. ~again
  BY <1>1, <1>4 DEF Readable, Unbroken, Calm
<1>7. \/ UNCHANGED <<remote, local, archive, given, ignore, exempt>>
      \/ OnlyTouches(id) /\ Tidy(local')
  BY <1>1, <1>4, SyncRecordTouches DEF sides, Unbroken
<1>8. /\ Tidy(local') /\ given \subseteq given' /\ exempt \subseteq exempt'
      /\ UNCHANGED <<before, session, link, again>> /\ ~AtRest /\ ~AtRest'
  BY <1>1, <1>4, <1>7 DEF OnlyTouches, Unchanged, AtRest, Unbroken, Tidy
<1>9. ASSUME session \in TwoWay PROVE Treated'
  <2>1. Treated /\ FoundFits /\ Tidy(local)
    BY <1>1, <1>4, <1>9 DEF Unbroken, AtRest
  <2>2. Kept(id)
    BY <1>1, <1>5, <2>1 DEF Treated, Unread
  <2>3. SyncRecord(k, id, remote[id])
    BY <1>1, <1>9, <2>2 DEF Kept, TwoWay
  <2>4. ReadAs(remote[id]) = remote[id]
    BY <1>1 DEF ReadAs
  <2>5. Done(id)' \/ Passed(id)'
    BY <1>1, <1>4, <1>8, <1>9, <2>1, <2>2, <2>3, <2>4, TreatedIs
  <2>6. OnlyTouches(id)
    BY <1>1, <2>1, <2>3, SyncRecordTouches
  <2>7. \A j \in Ids : j # id => /\ Kept(j) => Kept(j)'
                                 /\ Passed(j) => Passed(j)'
                                 /\ Done(j) => Done(j)'
    BY <1>1, <1>8, <2>6, OthersStay
  <2>8. index' = id /\ phase' = "remote" /\ id \in Nat /\ index \in Nat /\ Ids \subseteq Nat
    BY <1>1, IdsAssumption DEF IInv, TypeOK
  <2>9. ASSUME NEW j \in Ids, j > id PROVE Kept(j)'
    <3>1. j > index /\ j # id
      BY <1>5, <2>8, <2>9
    <3> QED BY <1>1, <2>1, <2>7, <3>1 DEF Treated, Unread
  <2>10. ASSUME NEW j \in Ids, ~(j > id) PROVE Done(j)' \/ Passed(j)'
    <3>1. CASE j = id
      BY <2>5, <3>1
    <3>2. CASE j # id /\ j > index
      <4>1. j \notin Readable
        BY <1>1, <2>8, <2>10, <3>2
      <4>2. Kept(j) /\ ~ReadByLoop(remote[j])
        BY <1>1, <1>5, <1>9, <2>1, <3>2, <4>1 DEF Treated, Unread
      <4> QED BY <2>7, <3>2, <4>2 DEF Passed
    <3>3. CASE j # id /\ ~(j > index)
      BY <2>1, <2>7, <3>3 DEF Treated, Unread
    <3> QED BY <3>1, <3>2, <3>3
  <2>11. LoopsBehind'
    BY <2>8 DEF LoopsBehind
  <2> QED BY <2>8, <2>9, <2>10, <2>11 DEF Treated, Unread
<1> QED BY <1>4, <1>6, <1>8, <1>9, SessionGoesOn

(* A new record is done with as soon as it is sent, under an id of its own. *)
LEMMA InstallNewGoesOn ==
  ASSUME IInv, IInv', SInv, InstallNew
  PROVE  SInv'
<1>1. PICK k, new :
        /\ k \in ToTreat
        /\ k \in Keys /\ \A j \in ToTreat : k <= j
        /\ local[k] # None /\ local[k].attr = "New" /\ local[k].id = Unassigned
        /\ phase = "new" /\ index' = k /\ phase' = phase /\ Unchanged
        /\ local' = Marked(local, k, "Nothing", new)
        /\ UNCHANGED <<archive, exempt>>
        /\ IF link = "up"
           THEN /\ new \in Ids \ given
                /\ remote' = [remote EXCEPT ![new] = Dirty(local[k].data)]
                /\ given' = given \cup {new}
                /\ ignore' = ignore \cup {new}
           ELSE new = Unassigned /\ UNCHANGED <<remote, given, ignore>>
  BY InstallNewGives
<1>2. SessionFits'
  BY <1>1 DEF SInv, SessionFits, Unchanged
<1>3. SUFFICES ASSUME spent.breaks = 0 PROVE Unbroken'
  BY <1>1, <1>2 DEF SInv, Unchanged
<1>4. Unbroken /\ link = "up" /\ Tidy(local)
  BY <1>3 DEF SInv, Unbroken
<1>5. /\ new \in Ids \ given
      /\ remote' = [remote EXCEPT ![new] = Dirty(local[k].data)]
      /\ given' = given \cup {new} /\ ignore' = ignore \cup {new}
  BY <1>1, <1>4
<1>6. k > index /\ k \in Waiting("New") /\ ToTreat = {j \in Waiting("New") : j > index}
  BY <1>1 DEF ToTreat, Ahead, Waiting, AttrOf
<1>7. ~again
  BY <1>4, <1>6 DEF Unbroken, Calm
<1>8. /\ local \in Places /\ remote \in Database /\ Unique(local) /\ Unique(local')
      /\ local' \in Places
  BY UniqueHolds, IInv' DEF IInv, OneCounterpart, Unique, TypeOK, Places
<1>9. /\ local'[k] # None /\ local'[k].attr = "Nothing" /\ local'[k].id = new
      /\ local'[k].data = local[k].data
      /\ \A j \in Keys : j # k => local'[j] = local[j]
  <2>1. new \in Ids \cup {Unassigned} /\ "Nothing" \in {"Nothing", "New", "Modified", "Deleted"}
    BY <1>5
  <2> QED BY <1>1, <1>8, <2>1, OnePlace
<1>10. /\ Tidy(local') /\ given \subseteq given' /\ exempt \subseteq exempt'
       /\ UNCHANGED <<before, session, link, again>> /\ ~AtRest /\ ~AtRest'
  <2>1. Tidy(local')
    BY <1>4, <1>5, <1>9, Numbered DEF Tidy
  <2> QED BY <1>1, <1>5, <2>1 DEF Unchanged, AtRest
<1>11. Matching(local, new) = {} /\ remote[new] = None
  BY <1>5, Numbered DEF Matching, IInv, KeptIds
<1>12. OnlyTouches(new)
  <2>1. ASSUME NEW j \in Ids, j # new
        PROVE  Counterpart(local', j) = Counterpart(local, j) /\ remote'[j] = remote[j]
    <3>1. \A m \in Keys :
            (local'[m] # None /\ local'[m].id = j) \/ (local[m] # None /\ local[m].id = j)
              => local'[m] = local[m]
      BY <1>1, <1>9, <2>1, Numbered
    <3>2. Counterpart(local', j) = Counterpart(local, j)
      BY <3>1, SameCounterpart
    <3>3. remote'[j] = remote[j]
      BY <1>5, <1>8, <2>1 DEF Database
    <3> QED BY <3>2, <3>3
  <2> QED BY <1>1, <1>5, <1>9, <2>1 DEF OnlyTouches
<1>13. ASSUME session \in TwoWay PROVE Treated'
  <2>1. Treated /\ FoundFits
    BY <1>1, <1>4, <1>13 DEF Unbroken, AtRest
  <2>2. Counterpart(local', new) = local'[k]
    <3>1. k \in Matching(local', new)
      BY <1>1, <1>9 DEF Matching
    <3> QED BY <1>5, <1>8, <3>1, CounterpartIs
  <2>3. before.remote[new] = None /\ FoundLocal(new) = None
    <3>1. before.remote[new] = None
      BY <1>5, <2>1 DEF FoundFits
    <3>2. Matching(before.local, new) = {}
      BY <1>5, <2>1, Numbered DEF FoundFits, Matching
    <3> QED BY <3>1, <3>2 DEF FoundLocal
  <2>4. Done(new)'
    <3>1. remote'[new] = Dirty(local[k].data)
      BY <1>5, <1>8 DEF Database
    <3>2. Cleaned(remote'[new]) # None /\ Cleaned(remote'[new]).data = local[k].data
      <4>1. Dirty(local[k].data) \in PilotRecord /\ Dirty(local[k].data).data = local[k].data
        BY <1>1, <1>8 DEF Places, Dirty, PilotRecord, LocalRecord
      <4>2. Cleaned(Dirty(local[k].data)) = Clean(Dirty(local[k].data).data)
        BY <4>1, NoneAssumption DEF Cleaned, Dirty
      <4>3. Dirty(local[k].data) \in PilotRecord \cup {None} /\ Dirty(local[k].data) # None
        BY <4>1, NoneAssumption
      <4> QED BY <3>1, <4>1, <4>2, <4>3, CleanIs
    <3>3. Agreeing(Cleaned(remote'[new]), Purged(local'[k]))
      BY <1>9, <3>2 DEF Agreeing, Purged
    <3>4. \A read, x, y, A : AsTable(None, None, read, x, y, A)
      BY DEF AsTable, StateOf
    <3>5. FoundLocal(new)' = None /\ before'.remote[new] = None
      BY <1>10, <2>3 DEF FoundLocal, Matching
    <3> QED BY <1>9, <2>2, <3>3, <3>4, <3>5 DEF Done
  <2>5. \A j \in Ids : j # new => /\ Passed(j) => Passed(j)'
                                  /\ Done(j) => Done(j)'
    BY <1>5, <1>10, <1>12, OthersStay
  <2>6. LoopsBehind'
    <3>1. ASSUME NEW j \in Waiting("New")' PROVE j > k
      <4>1. j # k /\ j \in Keys /\ j \in Waiting("New")
        BY <1>9 DEF Waiting
      <4>2. j > index
        BY <1>1, <2>1, <4>1 DEF Treated, LoopsBehind
      <4>3. k <= j
        BY <1>1, <1>6, <4>1, <4>2
      <4>4. k \in Nat /\ j \in Nat
        BY <1>1, <4>1, IdsAssumption
      <4> QED BY <4>1, <4>3, <4>4
    <3> QED BY <1>1, <3>1 DEF LoopsBehind
  <2> QED BY <1>1, <2>1, <2>4, <2>5, <2>6 DEF Treated, Unread
<1> QED BY <1>4, <1>7, <1>10, <1>13, SessionGoesOn

(* The loops over the PC: one that still waits was passed by the loop over *)
(* the PDA, or deleted and ignored by it.                                  *)
LEMMA SyncLocalGoesOn ==
  ASSUME IInv, IInv', SInv, SyncLocal
  PROVE  SInv'
<1>1. PICK k, id :
        /\ k \in ToTreat
        /\ k \in Keys /\ local[k] # None /\ id = local[k].id
        /\ \A j \in ToTreat : k <= j
        /\ Counterparts(k, id, ReadRecordById(id))
        /\ phase \in {"modified", "deleted"}
        /\ index' = k /\ phase' = phase /\ Unchanged
        /\ \/ UNCHANGED <<sides, ignore, exempt>> /\ id \in ignore
           \/ SyncRecord(k, id, ReadRecordById(id)) /\ id \notin ignore
  BY SyncLocalTreats
<1>2. SessionFits'
  BY <1>1 DEF SInv, SessionFits, Unchanged
<1>3. SUFFICES ASSUME spent.breaks = 0 PROVE Unbroken'
  BY <1>1, <1>2 DEF SInv, Unchanged
<1>4. Unbroken /\ link = "up" /\ Tidy(local)
  BY <1>3 DEF SInv, Unbroken
<1>5. PICK a \in {"Modified", "Deleted"} :
        /\ a = IF phase = "modified" THEN "Modified" ELSE "Deleted"
        /\ k \in Waiting(a) /\ k > index
        /\ ToTreat = {j \in Waiting(a) : j > index}
  <2>1. CASE phase = "modified"
    BY <1>1, <2>1 DEF ToTreat, Ahead, AttrOf, Waiting
  <2>2. CASE phase = "deleted"
    BY <1>1, <2>2 DEF ToTreat, Ahead, AttrOf, Waiting
  <2> QED BY <1>1, <2>1, <2>2
<1>6. /\ local[k].attr = a /\ ~local[k].archived /\ id # Unassigned /\ id \in Ids
      /\ Counterpart(local, id) = local[k]
      /\ \A j \in Keys : local[j] # None /\ local[j].id = id => j = k
  <2>1. local[k].attr = a /\ ~local[k].archived /\ id # Unassigned
    BY <1>1, <1>4, <1>5 DEF Waiting, Tidy
  <2> QED BY <1>1, <2>1, UniqueHolds
<1>7. ~again
  <2>1. Calm => Waiting("Modified") = {} /\ Waiting("Deleted") = {}
    BY DEF Calm, Waiting
  <2> QED BY <1>4, <1>5, <2>1 DEF Unbroken
<1>8. \/ UNCHANGED <<remote, local, archive, given, ignore, exempt>>
      \/ OnlyTouches(id) /\ Tidy(local')
  BY <1>1, <1>4, <1>6, SyncRecordTouches DEF sides
<1>9. /\ Tidy(local') /\ given \subseteq given' /\ exempt \subseteq exempt'
      /\ UNCHANGED <<before, session, link, again>> /\ ~AtRest /\ ~AtRest'
  BY <1>1, <1>4, <1>8 DEF OnlyTouches, Unchanged, AtRest, Tidy
<1>10. ASSUME session \in TwoWay PROVE Treated'
  <2>1. Treated /\ FoundFits /\ LoopsBehind
    BY <1>1, <1>4, <1>9, <1>10 DEF Unbroken, Treated
  <2>2. \A j \in Ids : Done(j) \/ Passed(j)
    BY <1>1, <2>1 DEF Treated, Unread
  <2>3. Done(id) => a = "Deleted" /\ id \in ignore
    BY <1>1, <1>6 DEF Done
  <2>4. index' = k /\ k \in Nat /\ index \in Nat /\ phase' = phase
    BY <1>1, IdsAssumption DEF IInv, TypeOK
  <2>5. CASE UNCHANGED <<sides, ignore, exempt>> /\ id \in ignore
    <3>1. a = "Deleted" /\ phase = "deleted"
      BY <1>1, <1>5, <1>6, <2>2, <2>3, <2>5 DEF Passed, Kept
    <3>2. /\ UNCHANGED <<remote, local, archive, ignore, exempt, before, session>>
          /\ \A b : Waiting(b)' = Waiting(b)
      BY <1>9, <2>5 DEF sides, Waiting
    <3>3. \A j \in Ids : Done(j)' \/ Passed(j)'
      <4>1. \A j : FoundLocal(j)' = FoundLocal(j)
        BY <3>2 DEF FoundLocal, Matching
      <4>2. \A r : ReadByLoop(r)' = ReadByLoop(r)
        BY <3>2 DEF ReadByLoop
      <4>3. \A j \in Ids : Passed(j) => Passed(j)'
        BY <3>2, <4>1, <4>2 DEF Passed, Kept
      <4>4. \A j \in Ids : Done(j) => Done(j)'
        BY <3>2, <4>1, <4>2 DEF Done
      <4> QED BY <2>2, <4>3, <4>4
    <3>4. ASSUME NEW m \in Waiting("Deleted"), m <= k, local[m].id \notin ignore
          PROVE  remote[local[m].id] # None /\ remote[local[m].id].attr = "Deleted"
      <4>1. m # k /\ m \in Nat
        BY <1>1, <2>5, <3>4, IdsAssumption DEF Waiting
      <4>2. ~(m > index)
        BY <1>1, <1>5, <2>4, <3>1, <3>4, <4>1
      <4> QED BY <2>1, <2>4, <3>1, <3>4, <4>1, <4>2 DEF LoopsBehind
    <3>5. LoopsBehind'
      BY <2>1, <2>4, <3>1, <3>2, <3>4 DEF LoopsBehind
    <3> QED BY <1>1, <3>3, <3>5 DEF Treated, Unread
  <2>6. CASE SyncRecord(k, id, ReadRecordById(id)) /\ id \notin ignore
    <3>1. Passed(id) /\ Kept(id)
      BY <1>6, <2>2, <2>3, <2>6 DEF Passed
    <3>2. ReadRecordById(id) = ReadAs(remote[id])
      BY <1>4, <1>6 DEF ReadRecordById, OnPilot, ReadAs
    <3>3. FoundLocal(id) = local[k]
      BY <1>6, <3>1 DEF Kept
    <3>4. local[k].attr # "Nothing" /\ ~local[k].archived /\ local[k] # None
      BY <1>1, <1>6
    <3>5. Done(id)' \/ (Passed(id)' /\ NothingToDo(remote'[id], Counterpart(local', id)))
      BY <1>1, <1>4, <1>6, <1>9, <1>10, <2>1, <2>6, <3>1, <3>2, <3>3, <3>4, TreatedIs
    <3>6. OnlyTouches(id)
      BY <1>1, <1>4, <1>6, <2>6, SyncRecordTouches
    <3>7. \A j \in Ids : Done(j)' \/ Passed(j)'
      <4>1. \A j \in Ids : j # id => /\ Passed(j) => Passed(j)'
                                     /\ Done(j) => Done(j)'
        BY <1>6, <1>9, <3>6, OthersStay
      <4> QED BY <2>2, <3>5, <4>1
    <3>8. \A m \in Keys : local'[m] # None /\ local'[m].id = id
                            => Counterpart(local', id) = local'[m]
      <4>1. Unique(local') /\ local' \in Places
        BY DEF IInv, TypeOK, Places, Unique, OneCounterpart
      <4> QED BY <1>6, <4>1, CounterpartIs DEF Matching
    <3>9. \A m \in Keys : local'[m] # None /\ local'[m].id = id =>
            \/ local'[m].attr = "Nothing"
            \/ /\ local'[m].attr = "Deleted"
               /\ \/ id \in ignore'
                  \/ remote'[id] # None /\ remote'[id].attr = "Deleted"
      <4>1. Done(id)' => \A m \in Keys : local'[m] # None /\ local'[m].id = id =>
              local'[m].attr = "Nothing" \/ (local'[m].attr = "Deleted" /\ id \in ignore')
        BY <3>8 DEF Done
      <4>2. NothingToDo(remote'[id], Counterpart(local', id)) =>
              \A m \in Keys : local'[m] # None /\ local'[m].id = id =>
                \/ local'[m].attr = "Nothing"
                \/ /\ local'[m].attr = "Deleted"
                   /\ remote'[id] # None /\ remote'[id].attr = "Deleted"
        BY <3>8 DEF NothingToDo
      <4> QED BY <3>5, <4>1, <4>2
    <3>10. \A m \in Keys : local'[m] # None /\ local'[m].id # id => local'[m] = local[m]
      BY <3>6 DEF OnlyTouches
    <3>11. /\ \A m \in Waiting("New")' : m \in Waiting("New")
           /\ \A m \in Waiting("Modified")' : m \in Waiting("Modified") /\ m # k
      <4>1. ASSUME NEW b \in {"New", "Modified"}, NEW m \in Waiting(b)'
            PROVE  m \in Waiting(b) /\ m # k
        <5>1. m \in Keys /\ local'[m] # None /\ local'[m].attr = b /\ ~local'[m].archived
          BY DEF Waiting
        <5>2. local'[m].id # id
          BY <3>9, <5>1
        <5>3. local'[m] = local[m]
          BY <3>10, <5>1, <5>2
        <5> QED BY <1>1, <5>1, <5>2, <5>3 DEF Waiting
      <4> QED BY <4>1
    <3>12. ASSUME phase = "deleted", NEW m \in Waiting("Deleted")', m <= k,
                  local'[m].id \notin ignore'
           PROVE  remote'[local'[m].id] # None /\ remote'[local'[m].id].attr = "Deleted"
      <4>1. m \in Keys /\ local'[m] # None /\ local'[m].attr = "Deleted" /\ ~local'[m].archived
        BY DEF Waiting
      <4>2. CASE local'[m].id = id
        BY <3>9, <3>12, <4>1, <4>2
      <4>3. CASE local'[m].id # id
        <5>1. local'[m] = local[m] /\ m # k
          BY <1>1, <3>10, <4>1, <4>3
        <5>2. m \in Waiting("Deleted") /\ m \in Nat
          BY <4>1, <5>1, IdsAssumption DEF Waiting
        <5>3. ~(m > index)
          BY <1>1, <1>5, <2>4, <3>12, <5>1, <5>2
        <5>4. local[m].id \notin ignore
          BY <3>6, <3>12, <5>1 DEF OnlyTouches
        <5>5. remote[local[m].id] # None /\ remote[local[m].id].attr = "Deleted"
          BY <2>1, <2>4, <3>12, <5>2, <5>3, <5>4 DEF LoopsBehind
        <5>6. local[m].id \in Ids
          <6>1. local[m].id # Unassigned
            BY <1>4, <4>1, <5>1 DEF Tidy
          <6> QED BY <4>1, <5>1, <6>1, UniqueHolds
        <5> QED BY <3>6, <4>3, <5>1, <5>5, <5>6 DEF OnlyTouches
      <4> QED BY <4>2, <4>3
    <3>13. phase = "modified" => \A m \in Waiting("Modified")' : m > k
      <4>1. ASSUME phase = "modified", NEW m \in Waiting("Modified")' PROVE m > k
        <5>1. m \in Waiting("Modified") /\ m # k /\ m \in Nat
          BY <3>11, <4>1, IdsAssumption DEF Waiting
        <5>2. m > index
          BY <2>1, <4>1, <5>1 DEF LoopsBehind
        <5>3. k <= m
          BY <1>1, <1>5, <4>1, <5>1, <5>2
        <5> QED BY <2>4, <5>1, <5>3
      <4> QED BY <4>1
    <3>14. LoopsBehind'
      BY <1>1, <2>1, <2>4, <3>11, <3>12, <3>13 DEF LoopsBehind
    <3> QED BY <1>1, <3>7, <3>14 DEF Treated, Unread
  <2> QED BY <1>1, <2>5, <2>6
<1> QED BY <1>4, <1>7, <1>9, <1>10, SessionGoesOn

(* A loop that ends leaves nothing that waits for it.                      *)
LEMMA EndLoopGoesOn ==
  ASSUME IInv, SInv, EndLoop
  PROVE  SInv'
<1>1. /\ ~AtRest /\ LoopDone /\ ~LastLoop /\ phase' = NextLoop /\ index' = 0
      /\ UNCHANGED <<remote, local, archive, given, ignore, exempt>>
      /\ UNCHANGED <<pcMatch, slow, session, link, before, again, spent>>
  BY DEF EndLoop, Unchanged, sides
<1>2. /\ phase \in {"remote", "new", "modified"}
      /\ phase = "remote" => phase' = "new" /\ session \in TwoWay
      /\ phase = "new" => phase' = "modified"
      /\ phase = "modified" => phase' = "deleted" /\ session \in TwoWay
  BY <1>1 DEF AtRest, LastLoop, NextLoop, IInv, TypeOK, Phases, SInv, SessionFits
<1>3. SessionFits'
  BY <1>1, <1>2 DEF SInv, SessionFits
<1>4. SUFFICES ASSUME spent.breaks = 0 PROVE Unbroken'
  BY <1>1, <1>3 DEF SInv
<1>5. Unbroken /\ link = "up"
  BY <1>4 DEF SInv, Unbroken
<1>6. ASSUME session \in TwoWay PROVE Treated'
  <2>1. Treated /\ LoopsBehind
    BY <1>1, <1>5, <1>6 DEF Unbroken, Treated
  <2>2. \A j \in Ids : Done(j) \/ Passed(j)
    <3>1. ASSUME NEW j \in Ids, Unread(j) PROVE Passed(j)
      <4>1. Readable = {} /\ j > index
        BY <1>1, <3>1 DEF LoopDone, Unread
      <4>2. ~ReadByLoop(remote[j])
        BY <1>5, <1>6, <4>1 DEF Readable, Ahead, ReadByLoop, TwoWay
      <4> QED BY <2>1, <3>1, <4>2 DEF Passed, Treated
    <3> QED BY <2>1, <3>1 DEF Treated
  <2>3. \A j \in Ids : Done(j)' \/ Passed(j)'
    <3>1. \A j : FoundLocal(j)' = FoundLocal(j)
      BY <1>1 DEF FoundLocal, Matching
    <3>2. \A r : ReadByLoop(r)' = ReadByLoop(r)
      BY <1>1 DEF ReadByLoop
    <3>3. \A j \in Ids : Passed(j) => Passed(j)'
      BY <1>1, <3>1, <3>2 DEF Passed, Kept
    <3>4. \A j \in Ids : Done(j) => Done(j)'
      BY <1>1, <3>1, <3>2 DEF Done
    <3> QED BY <2>2, <3>3, <3>4
  <2>4. \A b : Waiting(b)' = Waiting(b)
    BY <1>1 DEF Waiting
  <2>5. \A b : \A m \in Waiting(b) : m > 0 /\ m \in Nat
    BY IdsAssumption DEF Waiting
  <2>6. LoopsBehind'
    <3>1. CASE phase = "remote"
      BY <1>1, <1>2, <2>4, <2>5, <3>1 DEF LoopsBehind
    <3>2. CASE phase = "new"
      <4>1. ToTreat = {j \in Waiting("New") : j > index} /\ ToTreat = {}
        BY <1>1, <3>2 DEF ToTreat, Ahead, AttrOf, Waiting, LoopDone
      <4>2. Waiting("New") = {}
        BY <2>1, <3>2, <4>1 DEF LoopsBehind
      <4> QED BY <1>1, <1>2, <2>4, <2>5, <3>2, <4>2 DEF LoopsBehind
    <3>3. CASE phase = "modified"
      <4>1. ToTreat = {j \in Waiting("Modified") : j > index} /\ ToTreat = {}
        BY <1>1, <3>3 DEF ToTreat, Ahead, AttrOf, Waiting, LoopDone
      <4>2. Waiting("Modified") = {} /\ Waiting("New") = {}
        BY <2>1, <3>3, <4>1 DEF LoopsBehind
      <4>3. \A m \in Waiting("Deleted") : ~(m <= 0)
        BY <2>5
      <4> QED BY <1>1, <1>2, <2>4, <3>3, <4>2, <4>3 DEF LoopsBehind
    <3> QED BY <1>2, <3>1, <3>2, <3>3
  <2> QED BY <1>2, <2>3, <2>6 DEF Treated, Unread
<1>7. ~AtRest' /\ Tidy(local')
  BY <1>1, <1>2, <1>5 DEF AtRest, Unbroken, Tidy
<1> QED BY <1>1, <1>5, <1>6, <1>7, SessionGoesOn

(* The two copies: what they write has an id, while the link holds.        *)
LEMMA CopyLocalGoesOn ==
  ASSUME IInv, SInv, CopyLocal
  PROVE  SInv'
<1>a. PICK k \in Keys : \E loc, new : CopyGives(k, loc, new)
  BY CopyLocalGives
<1>b. PICK loc, new : CopyGives(k, loc, new)
  BY <1>a
<1>1. /\ k \in Keys
      /\ loc = local[k] /\ loc # None
      /\ phase = "copyOut" /\ index' = k /\ phase' = phase /\ Unchanged
      /\ archive' = archive \cup If(loc.archived, {loc.data})
      /\ local' = IF loc.archived THEN [local EXCEPT ![k] = None]
                  ELSE IF loc.attr = "Deleted" THEN local
                  ELSE [local EXCEPT ![k].attr = "Nothing",
                                     ![k].id = IF CopyWrites(loc) THEN new ELSE @]
      /\ remote' = IF CopyWrites(loc) THEN [remote EXCEPT ![new] = Dirty(loc.data)]
                   ELSE remote
      /\ given' = given \cup If(CopyWrites(loc), {new})
      /\ UNCHANGED <<ignore, exempt>>
      /\ loc.id \in given \cup {Unassigned} /\ loc.id \in Ids \cup {Unassigned}
      /\ new \in Ids
      /\ loc.id # Unassigned => new = loc.id
      /\ loc.id = Unassigned => new \notin given
  BY <1>b, Zenon DEF CopyGives
<1>2. SessionFits'
  BY <1>1 DEF SInv, SessionFits, Unchanged
<1>3. SUFFICES ASSUME spent.breaks = 0 PROVE Unbroken'
  BY <1>1, <1>2 DEF SInv, Unchanged
<1>4. Unbroken /\ link = "up" /\ Tidy(local) /\ local \in Places
  BY <1>3, UniqueHolds DEF SInv, Unbroken
<1>5. session = "CopyToPilot" /\ session \notin TwoWay /\ ~again
  BY <1>1, <1>4 DEF SInv, SessionFits, TwoWay, Unbroken
<1>6. Tidy(local')
  <2>1. CASE loc.archived
    <3>1. \A m \in Keys : local'[m] = IF m = k THEN None ELSE local[m]
      BY <1>1, <1>4, <2>1 DEF Places
    <3> QED BY <1>4, <3>1 DEF Tidy
  <2>2. CASE ~loc.archived /\ loc.attr = "Deleted"
    BY <1>1, <1>4, <2>2 DEF Tidy
  <2>3. CASE ~loc.archived /\ loc.attr # "Deleted"
    <3>1. CopyWrites(loc)
      BY <1>4, <2>3 DEF CopyWrites
    <3>2. local' = Marked(local, k, "Nothing", new)
      BY <1>1, <2>3, <3>1 DEF Marked
    <3>3. /\ local'[k].id = new /\ local'[k].attr = "Nothing"
          /\ \A m \in Keys : m # k => local'[m] = local[m]
      <4>1. new \in Ids \cup {Unassigned} /\ "Nothing" \in {"Nothing", "New", "Modified", "Deleted"}
        BY <1>1
      <4>2. k \in Keys /\ local[k] # None
        BY <1>1
      <4> QED BY <1>4, <3>2, <4>1, <4>2, OnePlace
    <3>4. new # Unassigned
      BY <1>1, Numbered
    <3> QED BY <1>4, <3>3, <3>4 DEF Tidy
  <2> QED BY <2>1, <2>2, <2>3
<1>7. /\ UNCHANGED <<before, session, link, again>> /\ ~AtRest /\ ~AtRest'
      /\ given \subseteq given' /\ exempt \subseteq exempt'
  BY <1>1 DEF Unchanged, AtRest
<1> QED BY <1>4, <1>5, <1>6, <1>7, SessionGoesOn

(* What is copied from the PDA has an id.                                  *)
LEMMA CopyRemoteGoesOn ==
  ASSUME IInv, SInv, CopyRemote
  PROVE  SInv'
<1>1. PICK id :
        /\ id = Least(Readable) /\ Readable # {} /\ phase = "copyIn" /\ phase' = phase
        /\ local' = IF remote[id].archived \/ remote[id].attr = "Deleted" THEN local
                    ELSE StoreRemote(local, id, remote[id].data)
        /\ UNCHANGED <<remote, given, ignore, exempt>> /\ Unchanged
  BY DEF CopyRemote
<1>2. SessionFits'
  BY <1>1 DEF SInv, SessionFits, Unchanged
<1>3. SUFFICES ASSUME spent.breaks = 0 PROVE Unbroken'
  BY <1>1, <1>2 DEF SInv, Unchanged
<1>4. Unbroken /\ Tidy(local) /\ local \in Places /\ remote \in Database
  BY <1>3, UniqueHolds DEF SInv, Unbroken
<1>5. session = "CopyFromPilot" /\ session \notin TwoWay /\ ~again
  BY <1>1, <1>4 DEF SInv, SessionFits, TwoWay, Unbroken
<1>6. id \in Ids /\ remote[id] # None /\ remote[id].data \in Values \cup {None}
  <2>1. Readable \in SUBSET Ids
    BY DEF Readable, Ahead
  <2>2. id \in Readable
    BY <1>1, <2>1, Numbered
  <2>3. id \in Ids /\ remote[id] # None
    BY <1>5, <2>2 DEF Readable, Ahead
  <2> QED BY <1>4, <2>3 DEF Database, PilotRecord
<1>7. Tidy(local')
  <2>1. \A m \in Keys : local'[m] = local[m] \/ local'[m] = LocalOf(id, remote[id].data)
    BY <1>1, <1>4, <1>6, StoreDoes
  <2>2. LocalOf(id, remote[id].data).id = id /\ ~LocalOf(id, remote[id].data).archived
    BY DEF LocalOf
  <2> QED BY <1>4, <1>6, <2>1, <2>2, Numbered DEF Tidy
<1>8. /\ UNCHANGED <<before, session, link, again>> /\ ~AtRest /\ ~AtRest'
      /\ given \subseteq given' /\ exempt \subseteq exempt'
  BY <1>1 DEF Unchanged, AtRest
<1> QED BY <1>4, <1>5, <1>7, <1>8, SessionGoesOn

(* A record without a flag survives the reset of the flags as it is.       *)
LEMMA CleanStays ==
  ASSUME NEW r \in PilotRecord \cup {None}
  PROVE  /\ ~Flagged(Cleaned(r))
         /\ ~Flagged(r) => Cleaned(r) = r
<1>1. CASE r = None
  BY <1>1 DEF Cleaned, Flagged
<1>2. CASE r # None
  <2>1. r \in PilotRecord /\ r.archived \in BOOLEAN
    BY <1>2 DEF PilotRecord
  <2>2. Clean(r.data).attr = "Nothing" /\ ~Clean(r.data).archived
    BY DEF Clean
  <2>3. ASSUME r.attr = "Nothing", ~r.archived PROVE Clean(r.data) = r
    BY <2>1, <2>3 DEF Clean, PilotRecord
  <2> QED BY <1>2, <2>1, <2>2, <2>3 DEF Cleaned, Flagged
<1> QED BY <1>1, <1>2

(* The last loop of a two-way session is over: whatever it passed had      *)
(* nothing to be done to it, and every record is in place.                 *)
LEMMA AllTreated ==
  ASSUME IInv, Unbroken, session \in TwoWay, SessionFits, ~AtRest, LoopDone, LastLoop,
         NEW id \in Ids
  PROVE  LET c == Counterpart(local, id)
             r == remote[id]
         IN  /\ AsTable(before.remote[id], FoundLocal(id), ReadByLoop(before.remote[id]),
                        Content(Purged(c)), Content(Cleaned(r)), archive)
             /\ id \notin exempt => Accounted(Cleaned(r), Purged(c))
<1>1. phase = "deleted" /\ ToTreat = {j \in Waiting("Deleted") : j > index} /\ ToTreat = {}
  <2>1. phase = "deleted"
    BY DEF LastLoop, SessionFits, TwoWay
  <2> QED BY <2>1 DEF LoopDone, ToTreat, Ahead, AttrOf, Waiting
<1>2. /\ Done(id) \/ Passed(id)
      /\ Waiting("Modified") = {}
      /\ \A k \in Waiting("Deleted") : local[k].id \notin ignore =>
           remote[local[k].id] # None /\ remote[local[k].id].attr = "Deleted"
      /\ FoundFits /\ FoundAccounted
  <2>1. Treated /\ LoopsBehind /\ FoundFits /\ FoundAccounted
    BY DEF Unbroken, Treated
  <2>2. \A k \in Waiting("Deleted") : k <= index
    <3>1. index \in Nat /\ \A k \in Waiting("Deleted") : k \in Nat
      BY IdsAssumption DEF Waiting, IInv, TypeOK
    <3> QED BY <1>1, <3>1
  <2> QED BY <1>1, <2>1, <2>2 DEF Treated, Unread, LoopsBehind
<1>3. PICK c : c = Counterpart(local, id)
  OBVIOUS
<1>4. PICK r : r = remote[id]
  OBVIOUS
<1>5. CASE Done(id)
  BY <1>5 DEF Done, Accounted
<1>6. CASE Passed(id)
  <2>1. /\ r = before.remote[id] /\ c = FoundLocal(id) /\ id \notin ignore
        /\ ReadByLoop(r) => NothingToDo(r, c)
    BY <1>3, <1>4, <1>6 DEF Passed, Kept
  <2>2. /\ r \in PilotRecord \cup {None} /\ c \in LocalRecord \cup {None}
        /\ c # None => c.attr # "New" /\ (c.archived => c.attr # "Deleted")
    BY <1>2, <2>1, FoundIs
  <2>3. c # None => /\ c.attr = "Modified" => c.archived
                    /\ c.attr = "Deleted" => r # None /\ r.attr = "Deleted"
    <3>1. ASSUME c # None
          PROVE  \E k \in Keys : local[k] = c /\ c.id = id
      <4>1. Matching(local, id) # {}
        BY <1>3, <3>1 DEF Counterpart
      <4>2. PICK k \in Matching(local, id) : TRUE
        BY <4>1
      <4> QED BY <1>3, <4>2, UniqueHolds, CounterpartIs DEF Matching
    <3>2. ASSUME c # None, c.attr = "Modified" PROVE c.archived
      BY <1>2, <3>1, <3>2 DEF Waiting
    <3>3. ASSUME c # None, c.attr = "Deleted" PROVE r # None /\ r.attr = "Deleted"
      <4>1. PICK k \in Keys : local[k] = c /\ c.id = id
        BY <3>1, <3>3
      <4>2. k \in Waiting("Deleted") /\ local[k].id = id
        BY <2>2, <3>3, <4>1 DEF Waiting
      <4> QED BY <1>2, <1>4, <2>1, <4>2
    <3> QED BY <3>2, <3>3
  <2>4. PICK read \in BOOLEAN : read = ReadByLoop(r)
    BY DEF ReadByLoop, Flagged
  <2>5. /\ AsTable(r, c, read, Content(Purged(c)), Content(Cleaned(r)), archive)
        /\ Accounted(r, c) => Agreeing(Cleaned(r), Purged(c)) \/ Pending(Purged(c))
    <3>1. r # None /\ Flagged(r) => read
      BY <2>4 DEF ReadByLoop
    <3>2. read => NothingToDo(r, c)
      BY <2>1, <2>4
    <3> QED BY <2>2, <2>3, <3>1, <3>2, PassedOutcome
  <2>6. id \notin exempt => Accounted(r, c)
    BY <1>2, <2>1 DEF FoundAccounted
  <2> QED BY <1>3, <1>4, <2>1, <2>4, <2>5, <2>6 DEF Accounted
<1> QED BY <1>2, <1>5, <1>6

(* Finish: the flags are reset, and what the session leaves is accounted   *)
(* for.                                                                    *)
LEMMA CloseGoesOn ==
  ASSUME IInv, IInv', SInv, Close
  PROVE  SInv'
<1>1. /\ ~AtRest /\ LoopDone /\ LastLoop /\ phase' = "closed"
      /\ local' = Purge(local)
      /\ remote' = IF link = "up" THEN CleanUp(remote) ELSE remote
      /\ link' = "up"
      /\ exempt' = {id \in (IF session \in TwoWay THEN exempt ELSE Ids) :
                      ~AgreeOn(remote', local', id)}
      /\ UNCHANGED <<archive, given, session, ignore, before, again, spent>>
  BY DEF Close
<1>2. SessionFits'
  BY <1>1 DEF SessionFits
<1>3. SUFFICES ASSUME spent.breaks = 0 PROVE Unbroken'
  BY <1>1, <1>2 DEF SInv
<1>4. Unbroken /\ Tidy(local) /\ FoundFits /\ remote' = CleanUp(remote) /\ SessionFits
  BY <1>1, <1>3 DEF SInv, Unbroken
<1>5. /\ local \in Places /\ remote \in Database /\ Unique(local)
      /\ local' \in Places /\ remote' \in Database /\ Unique(local')
  BY UniqueHolds, IInv' DEF IInv, OneCounterpart, Unique, TypeOK, Places, Database
<1>6. \A k \in Keys : local'[k] # None => local'[k] = local[k] /\ local'[k].attr # "Deleted"
  BY <1>1 DEF Purge
<1>7. Tidy(local')
  BY <1>4, <1>6 DEF Tidy
<1>8. FoundFits'
  BY <1>1, <1>4, FoundStays
<1>9. \A id \in Ids : /\ Counterpart(local', id) = Purged(Counterpart(local, id))
                      /\ remote'[id] = Cleaned(remote[id])
                      /\ AgreeOn(remote', local', id)
                           => Accounted(remote'[id], Counterpart(local', id))
  BY <1>1, <1>4, <1>5, Views DEF Accounted
<1>10. NowAccounted'
  <2>1. ASSUME NEW id \in Ids, id \notin exempt'
        PROVE  Accounted(remote'[id], Counterpart(local', id))
    <3>1. CASE AgreeOn(remote', local', id)
      BY <1>9, <3>1
    <3>2. CASE session \in TwoWay /\ id \notin exempt
      BY <1>1, <1>4, <1>9, <3>2, AllTreated
    <3> QED BY <1>1, <2>1, <3>1, <3>2
  <2> QED BY <2>1 DEF NowAccounted
<1>11. ASSUME session \in TwoWay PROVE Calm'
  <2>1. phase = "deleted"
    BY <1>1, <1>4, <1>11 DEF LastLoop, SessionFits, TwoWay
  <2>2. Waiting("New") = {} /\ Waiting("Modified") = {}
    BY <1>1, <1>4, <1>11, <2>1 DEF Unbroken, Treated, LoopsBehind
  <2>3. Waiting("New")' = {} /\ Waiting("Modified")' = {}
    <3>1. \A b : \A k \in Waiting(b)' : k \in Waiting(b)
      BY <1>6 DEF Waiting
    <3> QED BY <2>2, <3>1
  <2>4. \A id \in Ids : ~Flagged(remote'[id])
    BY <1>5, <1>9, CleanStays DEF Database
  <2> QED BY <1>6, <2>3, <2>4 DEF Calm
<1>12. ASSUME session \in TwoWay, NEW id \in Ids
       PROVE  AsTable(before.remote[id], FoundLocal(id), ReadByLoop(before.remote[id]),
                      Content(Counterpart(local, id)), Content(remote[id]), archive)'
  <2>1. FoundLocal(id)' = FoundLocal(id) /\ \A r : ReadByLoop(r)' = ReadByLoop(r)
    BY <1>1 DEF FoundLocal, ReadByLoop, Matching
  <2>2. AsTable(before.remote[id], FoundLocal(id), ReadByLoop(before.remote[id]),
                Content(Counterpart(local', id)), Content(remote'[id]), archive)
    BY <1>1, <1>4, <1>9, <1>12, AllTreated
  <2> QED BY <1>1, <2>1, <2>2
<1>13. ASSUME again
       PROVE  session = "FastSync" /\ remote' = before.remote /\ local' = before.local
  <2>1. session = "FastSync" /\ Calm /\ remote = before.remote /\ local = before.local
    BY <1>4, <1>13 DEF Unbroken
  <2>2. remote' = remote
    <3>1. \A id \in Ids : remote'[id] = remote[id]
      BY <1>5, <1>9, <2>1, CleanStays DEF Calm, Database
    <3> QED BY <1>5, <3>1 DEF Database
  <2>3. local' = local
    <3>1. \A k \in Keys : local'[k] = local[k]
      BY <1>1, <2>1 DEF Calm, Purge
    <3> QED BY <1>5, <3>1 DEF Places
  <2> QED BY <2>1, <2>2, <2>3
<1> QED BY <1>1, <1>7, <1>8, <1>10, <1>11, <1>12, <1>13 DEF Unbroken, AtRest, TwoWay

-----------------------------------------------------------------------------
(* Between the sessions *)

(* A session that begins finds every record as it is, and treats none yet. *)
LEMMA BeginSessionGoesOn ==
  ASSUME IInv, SInv, NEW s \in Sessions, BeginSession(s)
  PROVE  SInv'
<1>1. /\ AtRest /\ session' = s /\ phase' = LoopOf(s)
      /\ before' = [remote |-> remote, local |-> local]
      /\ remote' = IF s = "CopyToPilot" THEN [i \in Ids |-> None] ELSE remote
      /\ local' = IF s = "CopyFromPilot" THEN [k \in Keys |-> None] ELSE local
      /\ index' = 0 /\ ignore' = {}
      /\ again' = (phase = "closed" /\ session \in TwoWay /\ s = "FastSync")
      /\ UNCHANGED <<archive, given, pcMatch, slow, link, exempt, spent>>
  BY DEF BeginSession
<1>2. SessionFits' /\ ~AtRest' /\ (s \in TwoWay => phase' = "remote")
  BY <1>1 DEF SessionFits, LoopOf, Sessions, TwoWay, AtRest
<1>3. SUFFICES ASSUME spent.breaks = 0 PROVE Unbroken'
  BY <1>1, <1>2 DEF SInv
<1>4. Unbroken /\ Tidy(local) /\ NowAccounted
  BY <1>1, <1>3 DEF SInv, Unbroken
<1>5. Tidy(local')
  BY <1>1, <1>4 DEF Tidy
<1>6. FoundFits'
  <2>1. before'.remote = remote /\ before'.local = local /\ given' = given
    BY <1>1
  <2> QED BY <1>4, <2>1, UniqueHolds DEF FoundFits, IInv, KeptIds, Unique, Tidy, Matching
<1>7. \A id : FoundLocal(id)' = Counterpart(local, id)
  BY <1>1 DEF FoundLocal, Matching, Counterpart
<1>8. ASSUME s \in TwoWay PROVE Treated' /\ FoundAccounted'
  <2>1. remote' = remote /\ local' = local /\ before'.remote = remote
    BY <1>1, <1>8 DEF TwoWay
  <2>2. \A id \in Ids : Unread(id)'
    BY <1>1, <1>2, <1>8, IdsAssumption DEF Unread
  <2>3. \A id \in Ids : Kept(id)'
    BY <1>1, <1>7, <2>1 DEF Kept
  <2>4. LoopsBehind'
    BY <1>2, <1>8 DEF LoopsBehind
  <2>5. FoundAccounted'
    BY <1>1, <1>4, <1>7, <2>1 DEF FoundAccounted, NowAccounted
  <2> QED BY <2>2, <2>3, <2>4, <2>5 DEF Treated
<1>9. ASSUME again'
      PROVE  s = "FastSync" /\ Calm' /\ remote' = before'.remote /\ local' = before'.local
  <2>1. s = "FastSync" /\ Calm
    BY <1>1, <1>4, <1>9 DEF Unbroken
  <2>2. remote' = remote /\ local' = local
    BY <1>1, <2>1
  <2> QED BY <1>1, <2>1, <2>2 DEF Calm, Waiting
<1>10. phase' # "closed" /\ link' = "up"
  BY <1>1, <1>2, <1>4 DEF AtRest, Unbroken
<1> QED BY <1>1, <1>2, <1>5, <1>6, <1>8, <1>9, <1>10 DEF Unbroken

(* From here on nothing is promised.                                       *)
LEMMA BreakLinkGoesOn ==
  ASSUME IInv, SInv, BreakLink
  PROVE  SInv'
<1>1. SessionFits'
  BY DEF SInv, SessionFits, BreakLink
<1>2. spent.breaks \in Nat /\ spent'.breaks = spent.breaks + 1
  BY BoundsAssumption DEF IInv, TypeOK, BreakLink
<1>3. spent'.breaks # 0
  BY <1>2
<1> QED BY <1>1, <1>3 DEF SInv

(* What every step between the sessions has in common.                     *)
LEMMA LeaveGoesOn ==
  ASSUME IInv, SInv, Leave, link' = link, given \subseteq given', AtRest,
         spent'.breaks = spent.breaks,
         Unbroken => Tidy(local') /\ NowAccounted'
  PROVE  SInv'
<1>1. /\ phase' = "idle" /\ session' = "FastSync" /\ ~again'
      /\ before' = [remote |-> remote, local |-> local]
  BY DEF Leave
<1>2. SessionFits' /\ AtRest'
  BY <1>1 DEF SessionFits, AtRest
<1>3. SUFFICES ASSUME spent.breaks = 0 PROVE Unbroken'
  BY <1>2 DEF SInv
<1>4. Unbroken
  BY <1>3 DEF SInv
<1>5. FoundFits'
  <2>1. before'.remote = remote /\ before'.local = local
    BY <1>1
  <2> QED BY <1>4, <2>1, UniqueHolds
          DEF FoundFits, IInv, KeptIds, Unique, Tidy, Matching, Unbroken
<1> QED BY <1>1, <1>2, <1>4, <1>5 DEF Unbroken

(* An edit counts as one, and breaks no link.                              *)
LEMMA EditGives ==
  ASSUME IInv, Edit
  PROVE  Leave /\ AtRest /\ link' = link /\ exempt' = exempt /\ spent'.breaks = spent.breaks
BY DEF Edit, IInv, TypeOK

(* An edit on the PDA leaves a flag there.                                 *)
LEMMA EditRemoteGoesOn ==
  ASSUME IInv, IInv', SInv, EditRemote
  PROVE  SInv'
<1>1. /\ Leave /\ AtRest /\ link' = link /\ exempt' = exempt /\ spent'.breaks = spent.breaks
      /\ local' = local /\ given \subseteq given'
  BY EditGives DEF EditRemote
<1>2. remote \in Database /\ remote' \in Database
  BY UniqueHolds, IInv' DEF IInv, TypeOK, Database
<1>3. PICK i \in Ids :
        /\ \A j \in Ids : j # i => remote'[j] = remote[j]
        /\ Flagged(remote'[i])
  <2>1. CASE /\ Room
             /\ \E v \in Values : remote' = [remote EXCEPT ![Least(Ids \ given)] = Dirty(v)]
    <3>1. Least(Ids \ given) \in Ids
      BY <2>1, RoomIsFree DEF IInv
    <3>2. PICK v \in Values : remote' = [remote EXCEPT ![Least(Ids \ given)] = Dirty(v)]
      BY <2>1
    <3>3. Dirty(v) \in PilotRecord /\ Dirty(v).attr # "Nothing"
      BY DEF Dirty, PilotRecord
    <3> QED BY <1>2, <3>1, <3>2, <3>3, NoneAssumption DEF Database, Flagged
  <2>2. CASE \E i \in Ids :
               /\ remote[i] # None
               /\ remote[i].attr # "Deleted" /\ ~remote[i].archived
               /\ \/ \E v \in Values : remote' = [remote EXCEPT ![i] = Dirty(v)]
                  \/ remote' = [remote EXCEPT ![i] = Deleted]
                  \/ remote' = [remote EXCEPT ![i].archived = TRUE]
    <3>1. PICK i \in Ids :
            /\ remote[i] # None
            /\ \/ \E v \in Values : remote' = [remote EXCEPT ![i] = Dirty(v)]
               \/ remote' = [remote EXCEPT ![i] = Deleted]
               \/ remote' = [remote EXCEPT ![i].archived = TRUE]
      BY <2>2
    <3>2. \A v \in Values : Dirty(v) \in PilotRecord /\ Dirty(v).attr # "Nothing"
      BY DEF Dirty, PilotRecord
    <3>3. Deleted \in PilotRecord /\ Deleted.attr # "Nothing"
      BY DEF Deleted, PilotRecord
    <3>4. [remote[i] EXCEPT !.archived = TRUE] \in PilotRecord
          /\ [remote[i] EXCEPT !.archived = TRUE].archived
      BY <1>2, <3>1 DEF Database, PilotRecord
    <3>5. CASE \E v \in Values : remote' = [remote EXCEPT ![i] = Dirty(v)]
      BY <1>2, <3>1, <3>2, <3>5, NoneAssumption DEF Database, Flagged
    <3>6. CASE remote' = [remote EXCEPT ![i] = Deleted]
      BY <1>2, <3>1, <3>3, <3>6, NoneAssumption DEF Database, Flagged
    <3>7. CASE remote' = [remote EXCEPT ![i].archived = TRUE]
      BY <1>2, <3>1, <3>4, <3>7, NoneAssumption DEF Database, Flagged
    <3> QED BY <3>1, <3>5, <3>6, <3>7
  <2> QED BY <2>1, <2>2 DEF EditRemote
<1>4. ASSUME Unbroken PROVE Tidy(local') /\ NowAccounted'
  <2>1. Tidy(local) /\ NowAccounted
    BY <1>1, <1>4 DEF Unbroken
  <2> QED BY <1>1, <1>3, <2>1 DEF NowAccounted, Accounted, Tidy
<1> QED BY <1>1, <1>4, LeaveGoesOn

(* An edit on the PC leaves one there; a new record has no counterpart yet. *)
LEMMA EditLocalGoesOn ==
  ASSUME IInv, IInv', SInv, EditLocal
  PROVE  SInv'
<1>1. /\ Leave /\ AtRest /\ link' = link /\ exempt' = exempt /\ spent'.breaks = spent.breaks
      /\ remote' = remote /\ given' = given
  BY EditGives DEF EditLocal
<1>2. local \in Places /\ local' \in Places /\ Unique(local)
  BY UniqueHolds, IInv' DEF IInv, TypeOK, Places
<1>3. ASSUME Unbroken PROVE Tidy(local') /\ NowAccounted'
  <2>1. Tidy(local) /\ NowAccounted
    BY <1>1, <1>3 DEF Unbroken
  <2>2. CASE \E k \in Keys, v \in Values :
               /\ local[k] = None
               /\ local' = [local EXCEPT ![k] = [LocalOf(Unassigned, v) EXCEPT !.attr = "New"]]
    <3>1. PICK k \in Keys, v \in Values :
            /\ local[k] = None
            /\ local' = [local EXCEPT ![k] = [LocalOf(Unassigned, v) EXCEPT !.attr = "New"]]
      BY <2>2
    <3>2. /\ local'[k].id = Unassigned /\ local'[k].attr = "New" /\ ~local'[k].archived
          /\ \A m \in Keys : m # k => local'[m] = local[m]
      BY <1>2, <3>1 DEF Places, LocalOf
    <3>3. \A j \in Ids : Counterpart(local', j) = Counterpart(local, j)
      <4> SUFFICES ASSUME NEW j \in Ids
                   PROVE  Counterpart(local', j) = Counterpart(local, j)
        OBVIOUS
      <4>1. \A m \in Keys : (local'[m] # None /\ local'[m].id = j)
                              \/ (local[m] # None /\ local[m].id = j)
                            => local'[m] = local[m]
        <5>1. j # Unassigned
          BY Numbered
        <5> QED BY <3>1, <3>2, <5>1
      <4> QED BY ONLY <4>1, SameCounterpart
    <3>4. Tidy(local')
      BY <2>1, <3>2 DEF Tidy
    <3> QED BY <1>1, <2>1, <3>3, <3>4 DEF NowAccounted
  <2>3. CASE \E k \in Keys :
               /\ local[k] # None
               /\ local[k].attr \in {"Nothing", "Modified"} /\ ~local[k].archived
               /\ \/ /\ local[k].id = Unassigned => Room
                     /\ \E v \in Values :
                       local' = [local EXCEPT ![k].attr = "Modified", ![k].data = v]
                  \/ local' = [local EXCEPT ![k].attr = "Deleted"]
                  \/ local' = [local EXCEPT ![k].archived = TRUE]
    <3>1. PICK k \in Keys :
            /\ local[k] # None
            /\ local[k].attr \in {"Nothing", "Modified"} /\ ~local[k].archived
            /\ \/ \E v \in Values :
                    local' = [local EXCEPT ![k].attr = "Modified", ![k].data = v]
               \/ local' = [local EXCEPT ![k].attr = "Deleted"]
               \/ local' = [local EXCEPT ![k].archived = TRUE]
      BY <2>3
    <3>2. PICK id \in Ids : local[k].id = id
      <4>1. local[k].id # Unassigned
        BY <2>1, <3>1 DEF Tidy
      <4> QED BY <3>1, <4>1, UniqueHolds
    <3>3. local[k] \in LocalRecord
      BY <1>2, <3>1 DEF Places
    <3>4. /\ \A m \in Keys : m # k => local'[m] = local[m]
          /\ local'[k].id = id
          /\ local'[k].archived => local'[k].attr # "Deleted"
          /\ local'[k].attr # "Nothing" \/ local'[k].archived
      <4>1. CASE \E v \in Values :
                   local' = [local EXCEPT ![k].attr = "Modified", ![k].data = v]
        <5>1. PICK v \in Values : local' = [local EXCEPT ![k].attr = "Modified", ![k].data = v]
          BY <4>1
        <5> DEFINE changed == [[local[k] EXCEPT !.attr = "Modified"] EXCEPT !.data = v]
        <5>2. /\ changed.id = local[k].id /\ changed.attr = "Modified"
              /\ changed.archived = local[k].archived
          BY <3>3 DEF LocalRecord
        <5>3. local'[k] = changed /\ \A m \in Keys : m # k => local'[m] = local[m]
          BY <1>2, <5>1 DEF Places
        <5> QED BY <3>1, <3>2, <5>2, <5>3
      <4>2. CASE local' = [local EXCEPT ![k].attr = "Deleted"]
        BY <1>2, <3>1, <3>2, <3>3, <4>2 DEF Places, LocalRecord
      <4>3. CASE local' = [local EXCEPT ![k].archived = TRUE]
        BY <1>2, <3>1, <3>2, <3>3, <4>3 DEF Places, LocalRecord
      <4> QED BY <3>1, <4>1, <4>2, <4>3
    <3>5. local'[k] # None
      <4>1. CASE \E v \in Values :
                   local' = [local EXCEPT ![k].attr = "Modified", ![k].data = v]
        <5>1. PICK v \in Values : local' = [local EXCEPT ![k].attr = "Modified", ![k].data = v]
          BY <4>1
        <5>2. [[local[k] EXCEPT !.attr = "Modified"] EXCEPT !.data = v] \in LocalRecord
          BY <3>3 DEF LocalRecord
        <5> QED BY <1>2, <5>1, <5>2, NoneAssumption DEF Places
      <4>2. CASE local' = [local EXCEPT ![k].attr = "Deleted"]
        <5>1. [local[k] EXCEPT !.attr = "Deleted"] \in LocalRecord
          BY <3>3 DEF LocalRecord
        <5> QED BY <1>2, <4>2, <5>1, NoneAssumption DEF Places
      <4>3. CASE local' = [local EXCEPT ![k].archived = TRUE]
        <5>1. [local[k] EXCEPT !.archived = TRUE] \in LocalRecord
          BY <3>3 DEF LocalRecord
        <5> QED BY <1>2, <4>3, <5>1, NoneAssumption DEF Places
      <4> QED BY <3>1, <4>1, <4>2, <4>3
    <3>6. /\ Counterpart(local', id) = local'[k]
          /\ \A j \in Ids : j # id => Counterpart(local', j) = Counterpart(local, j)
      BY <1>2, <3>1, <3>2, <3>4, OnePlaceOf
    <3>7. Tidy(local')
      BY <2>1, <3>2, <3>4, Numbered DEF Tidy
    <3>8. Pending(Counterpart(local', id))
      BY <3>4, <3>5, <3>6 DEF Pending
    <3> QED BY <1>1, <2>1, <3>6, <3>7, <3>8 DEF NowAccounted, Accounted
  <2> QED BY <2>2, <2>3 DEF EditLocal
<1> QED BY <1>1, <1>3, LeaveGoesOn

(* Another PC resets flags: the records that had one are exempt.           *)
LEMMA OtherPCGoesOn ==
  ASSUME IInv, SInv, OtherPC
  PROVE  SInv'
<1>1. /\ Leave /\ AtRest /\ link' = link /\ remote' = CleanUp(remote)
      /\ exempt' = exempt \cup {i \in Ids : Flagged(remote[i])}
      /\ local' = local /\ given' = given /\ spent'.breaks = spent.breaks
  BY DEF OtherPC, IInv, TypeOK
<1>2. ASSUME Unbroken PROVE Tidy(local') /\ NowAccounted'
  <2>1. Tidy(local) /\ NowAccounted
    BY <1>1, <1>2 DEF Unbroken
  <2>2. remote \in Database /\ local \in Places /\ Unique(local)
    BY UniqueHolds
  <2>3. \A id \in Ids : id \notin exempt' => remote'[id] = remote[id] /\ id \notin exempt
    BY <1>1, <2>2, Views, CleanStays DEF Database
  <2> QED BY <1>1, <2>1, <2>3 DEF NowAccounted, Tidy
<1> QED BY <1>1, <1>2, LeaveGoesOn

(* The wish for a slow synchronization changes neither side.               *)
LEMMA SetSlowGoesOn ==
  ASSUME IInv, SInv, SetSlow
  PROVE  SInv'
<1>1. /\ Leave /\ AtRest /\ UNCHANGED <<link, spent, given, exempt, remote, local>>
  BY DEF SetSlow, sides
<1>2. ASSUME Unbroken PROVE Tidy(local') /\ NowAccounted'
  BY <1>1, <1>2 DEF Unbroken, Tidy, NowAccounted
<1> QED BY <1>1, <1>2, LeaveGoesOn

(* Nothing happens to the session while nothing happens.                   *)
LEMMA StutterGoesOn ==
  ASSUME SInv, UNCHANGED vars
  PROVE  SInv'
<1>1. UNCHANGED <<remote, local, archive, given, phase, session, index, ignore, link,
                  before, again, exempt, spent>>
  BY DEF vars
<1>2. /\ \A id : FoundLocal(id)' = FoundLocal(id)
      /\ \A id : Counterpart(local, id)' = Counterpart(local, id)
      /\ \A r : ReadByLoop(r)' = ReadByLoop(r)
      /\ \A a : Waiting(a)' = Waiting(a)
  BY <1>1 DEF FoundLocal, ReadByLoop, Waiting, Matching, Counterpart
<1>3. Treated => Treated'
  BY <1>1, <1>2 DEF Treated, Kept, Done, Passed, Unread, LoopsBehind
<1>4. /\ FoundFits => FoundFits'
      /\ FoundAccounted => FoundAccounted'
      /\ NowAccounted => NowAccounted'
  BY <1>1, <1>2, FoundStays DEF FoundAccounted, NowAccounted
<1>5. (SessionFits => SessionFits') /\ (Calm => Calm') /\ (Tidy(local) => Tidy(local'))
  BY <1>1, <1>2 DEF SessionFits, Calm, Tidy
<1>6. Unbroken => Unbroken'
  BY <1>1, <1>2, <1>3, <1>4, <1>5 DEF Unbroken, AtRest
<1> QED BY <1>1, <1>5, <1>6 DEF SInv

(* The two sides agree to begin with.                                      *)
LEMMA SessionInit == Init => SInv
<1> SUFFICES ASSUME Init PROVE SInv
  OBVIOUS
<1>0. IInv
  BY InitHolds
<1>1. PICK ids \in SUBSET Ids, data \in [Ids -> Values] :
        /\ ids \subseteq Keys
        /\ remote = [i \in Ids |-> IF i \in ids THEN Clean(data[i]) ELSE None]
        /\ local = [k \in Keys |-> IF k \in ids THEN LocalOf(k, data[k]) ELSE None]
        /\ phase = "idle" /\ session = "FastSync" /\ link = "up" /\ ~again
        /\ before = [remote |-> remote, local |-> local]
  BY DEF Init
<1>2. \A k \in Keys : local[k] # None =>
        k \in ids /\ local[k].id = k /\ local[k].attr = "Nothing" /\ ~local[k].archived
  BY <1>1 DEF LocalOf
<1>3. Tidy(local)
  BY <1>1, <1>2, Numbered DEF Tidy
<1>4. FoundFits
  <2>1. before.remote = remote /\ before.local = local
    BY <1>1
  <2> QED BY <1>0, <1>3, <2>1, UniqueHolds DEF FoundFits, IInv, KeptIds, Unique, Tidy, Matching
<1>5. NowAccounted
  <2>1. ASSUME NEW id \in Ids
        PROVE  Agreeing(remote[id], Counterpart(local, id))
    <3>1. CASE id \in ids
      <4>1. /\ LocalOf(id, data[id]) \in LocalRecord /\ LocalOf(id, data[id]).data = data[id]
            /\ Clean(data[id]) \in PilotRecord /\ Clean(data[id]).data = data[id]
            /\ LocalOf(id, data[id]).id = id
        BY DEF LocalOf, LocalRecord, Clean, PilotRecord
      <4>2. /\ remote[id] = Clean(data[id]) /\ local[id] = LocalOf(id, data[id])
            /\ remote[id] # None /\ local[id] # None /\ id \in Keys
        BY <1>1, <3>1, <4>1, NoneAssumption
      <4>3. id \in Matching(local, id)
        BY <4>1, <4>2 DEF Matching
      <4>4. Counterpart(local, id) = local[id]
        BY <1>0, <4>3, UniqueHolds, CounterpartIs
      <4> QED BY <4>1, <4>2, <4>4 DEF Agreeing
    <3>2. CASE id \notin ids
      <4>1. remote[id] = None /\ Matching(local, id) = {}
        BY <1>1, <1>2, <3>2 DEF Matching
      <4> QED BY <4>1 DEF Agreeing, Counterpart
    <3> QED BY <3>1, <3>2
  <2> QED BY <2>1 DEF NowAccounted, Accounted
<1> QED BY <1>1, <1>3, <1>4, <1>5 DEF SInv, SessionFits, Unbroken, AtRest

(* Every action keeps the invariant of a session.                          *)
LEMMA SessionSteps == IInv /\ IInv' /\ SInv /\ [Next]_vars => SInv'
<1> SUFFICES ASSUME IInv, IInv', SInv, [Next]_vars PROVE SInv'
  OBVIOUS
<1>1. ASSUME NEW s \in Sessions, BeginSession(s) PROVE SInv'
  BY <1>1, BeginSessionGoesOn
<1>2. CASE ReadRemote
  BY <1>2, ReadRemoteGoesOn
<1>3. CASE InstallNew
  BY <1>3, InstallNewGoesOn
<1>4. CASE SyncLocal
  BY <1>4, SyncLocalGoesOn
<1>5. CASE CopyLocal
  BY <1>5, CopyLocalGoesOn
<1>6. CASE CopyRemote
  BY <1>6, CopyRemoteGoesOn
<1>7. CASE EndLoop
  BY <1>7, EndLoopGoesOn
<1>8. CASE Close
  BY <1>8, CloseGoesOn
<1>9. CASE BreakLink
  BY <1>9, BreakLinkGoesOn
<1>10. CASE EditRemote
  BY <1>10, EditRemoteGoesOn
<1>11. CASE EditLocal
  BY <1>11, EditLocalGoesOn
<1>12. CASE OtherPC
  BY <1>12, OtherPCGoesOn
<1>13. CASE SetSlow
  BY <1>13, SetSlowGoesOn
<1>14. CASE UNCHANGED vars
  BY <1>14, StutterGoesOn
<1> QED BY <1>1, <1>2, <1>3, <1>4, <1>5, <1>6, <1>7, <1>8, <1>9, <1>10, <1>11, <1>12,
           <1>13, <1>14 DEF Next, Step

-----------------------------------------------------------------------------
(* The theorems *)

(* The invariant of a session holds throughout.                            *)
THEOREM SessionInvariance == Spec => [](IInv /\ SInv)
<1>1. Init => IInv /\ SInv
  BY InitHolds, SessionInit
<1>2. IInv /\ SInv /\ [Next]_vars => (IInv /\ SInv)'
  BY StepKeeps, SessionSteps
<1> QED BY <1>1, <1>2, PTL DEF Spec

(* A two-way session over a link that holds treats every record as the     *)
(* table of conduit.pdf says (gnome-pilot-conduit-standard-abs.c, 1106-    *)
(* 1170), however many records there are and whatever was edited.          *)
THEOREM TableHolds == Spec => []TableRespected
<1>1. IInv /\ SInv => TableRespected
  <2> SUFFICES ASSUME IInv, SInv, Settled, NEW id \in Ids
               PROVE  AsTable(before.remote[id], FoundLocal(id),
                              ReadByLoop(before.remote[id]),
                              Now(local, id), Content(remote[id]), archive)
    BY DEF TableRespected
  <2>1. phase = "closed" /\ session \in TwoWay /\ Unbroken
    BY DEF Settled, SInv
  <2>2. Now(local, id) = Content(Counterpart(local, id))
    BY UniqueHolds, Views
  <2> QED BY <2>1, <2>2 DEF Unbroken
<1> QED BY <1>1, SessionInvariance, PTL

(* Between sessions over a link that holds, what differs on the two sides  *)
(* is flagged on one of them: what FastSync relies on.                     *)
THEOREM FlagsHold == Spec => []FlagsSufficient
<1>1. IInv /\ SInv => FlagsSufficient
  <2> SUFFICES ASSUME IInv, SInv, AtRest, spent.breaks = 0, NEW id \in Ids \ exempt
               PROVE  AccountedFor(id)
    BY DEF FlagsSufficient
  <2>1. NowAccounted
    BY DEF SInv, Unbroken
  <2>2. Accounted(remote[id], Counterpart(local, id))
    BY <2>1 DEF NowAccounted
  <2> QED BY <2>2, UniqueHolds, Views DEF AccountedFor, Accounted
<1> QED BY <1>1, SessionInvariance, PTL

(* A fast synchronization that follows a two-way one with no edit in       *)
(* between changes nothing on either side.                                 *)
THEOREM RepetitionIdle == Spec => []RepeatedSyncIsIdle
<1>1. IInv /\ SInv => RepeatedSyncIsIdle
  BY DEF RepeatedSyncIsIdle, SInv, Unbroken
<1> QED BY <1>1, SessionInvariance, PTL
=============================================================================
