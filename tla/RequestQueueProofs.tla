------------------------- MODULE RequestQueueProofs -------------------------
(***************************************************************************)
(* Proofs about RequestQueue, for every set of pilots and cradles, whatever*)
(* the clients request and cancel, and for all the bounds.                 *)
(***************************************************************************)
EXTENDS RequestQueue, FiniteSetTheorems, WellFoundedInduction, TLAPS

(* How the loaded lists and the progress of the synchronization go together.*)
ListShape ==
  /\ phase = "idle" => todo = Empty /\ stage = "ready"
  /\ phase \in {"restore", "conduit", "install"} => user \in Pilots
  /\ phase # "cradle" => \A n \in Held(todo) : todo[n].kind \in PilotKinds
  /\ phase # "conduit" => outer = Empty
  /\ phase = "conduit" =>
       /\ \A n \in Held(outer) : outer[n].kind = "CONDUIT"
       /\ \A n \in Held(todo) : todo[n].kind =
            IF Held(outer) = {} THEN "CONDUIT" ELSE "INSTALL"
  /\ stage # "ready" => Held(todo) # {}

(* The inductive invariant.  That number-of-requests is a natural number,   *)
(* and the counter covers the groups, rests on every purged request being in*)
(* the file, and that on the shape of the lists.                            *)
IInv ==
  /\ TypeOK
  /\ CounterCoversGroups
  /\ BatchIsLive
  /\ ListShape

-----------------------------------------------------------------------------

(* A nonempty set of numbers has a greatest one. *)
LEMMA GreatestNumber ==
  ASSUME NEW S \in SUBSET Numbers, S # {}
  PROVE  \E n \in S : \A m \in S : m <= n
<1> DEFINE T == {MaxRequests - m : m \in S}
<1>1. T \subseteq Nat
  <2>1. \A m \in S : MaxRequests - m \in Nat
    BY BoundsAssumption DEF Numbers
  <2> QED BY <2>1
<1>2. T # {}
  OBVIOUS
<1>3. PICK x \in T : \A y \in T : x <= y
  <2> DEFINE less == {ss \in Nat \X Nat : ss[1] < ss[2]}
  <2>1. IsWellFoundedOn(less, Nat)
    BY NatLessThanWellFounded, Zenon DEF OpToRel
  <2>2. \A m, n \in Nat : m < n => <<m, n>> \in less
    OBVIOUS
  <2> HIDE DEF T, less
  <2>3. PICK x \in T : \A y \in T : ~ (<<y, x>> \in less)
    BY <1>1, <1>2, <2>1, WFMin
  <2>4. \A y \in T : ~ (y < x)
    BY <1>1, <2>2, <2>3
  <2>5. \A y \in T : x <= y
    BY <1>1, <2>4
  <2> QED BY <2>5
<1>4. PICK n \in S : x = MaxRequests - n
  OBVIOUS
<1>5. \A m \in S : m <= n
  <2>1. SUFFICES ASSUME NEW m \in S PROVE m <= n
    OBVIOUS
  <2>2. x <= MaxRequests - m
    BY <1>3
  <2> QED BY <1>4, <2>2, BoundsAssumption DEF Numbers
<1> QED BY <1>4, <1>5

(* The head of a nonempty list is its request of the highest number. *)
LEMMA HeadIsHighest ==
  ASSUME Held(todo) # {}
  PROVE  /\ HeadNumber \in Held(todo)
         /\ \A m \in Held(todo) : m <= HeadNumber
<1>1. \E n \in Held(todo) : \A m \in Held(todo) : m <= n
  BY GreatestNumber DEF Held
<1> QED BY <1>1 DEF HeadNumber

LEMMA HandleIsNatural ==
  ASSUME NEW s \in Sections, NEW n \in Numbers
  PROVE  HandleOf(s, n) \in Nat
<1>1. s \in Nat /\ n \in Nat
  BY PilotsAssumption, BoundsAssumption DEF Sections, System, Numbers
<1>2. s * HandleBase \in Nat
  BY <1>1, HandleAssumption
<1> DEFINE h == s * HandleBase + n
<1>3. h \in Nat
  BY <1>1, <1>2
<1>4. h % WordSize \in Nat
  <2> HIDE DEF h
  <2> QED BY <1>3, HandleAssumption
<1> QED BY <1>4 DEF HandleOf

(* One more element makes a finite set larger by one at most. *)
LEMMA AtMostOneMore ==
  ASSUME NEW S, NEW x, IsFiniteSet(S), Cardinality(S) \in Nat
  PROVE  /\ Cardinality(S \cup {x}) \in Nat
         /\ Cardinality(S \cup {x}) <= Cardinality(S) + 1
<1>1. Cardinality(S \cup {x}) = IF x \in S THEN Cardinality(S) ELSE Cardinality(S) + 1
  BY FS_AddElement, Zenon
<1> QED BY <1>1

(* The groups of a section are finitely many. *)
LEMMA PresentFinite ==
  ASSUME NEW s
  PROVE  IsFiniteSet(Present(s)) /\ Cardinality(Present(s)) \in Nat
<1>1. IsFiniteSet(Numbers)
  BY BoundsAssumption, FS_Interval DEF Numbers
<1>2. Present(s) \in SUBSET Numbers
  BY DEF Present
<1>3. IsFiniteSet(Present(s))
  BY <1>1, <1>2, FS_Subset
<1> QED BY <1>3, FS_CardinalityType

-----------------------------------------------------------------------------
(* What the operations of queue_io.c keep. *)

Lists == [Numbers -> Request \cup {NoGroup}]

(* A loaded list holds requests of the section, of the wanted kind. *)
LEMMA LoadedFromSection ==
  ASSUME TypeOK, NEW s \in Sections, NEW kind
  PROVE  /\ LoadRequests(s, kind) \in Lists
         /\ \A n \in Held(LoadRequests(s, kind)) :
              /\ LoadRequests(s, kind)[n] = group[s][n]
              /\ LoadRequests(s, kind)[n].kind = kind
<1> group[s] \in Lists
  BY DEF TypeOK, Lists
<1> QED BY DEF LoadRequests, Held, Lists

LEMMA LoadedForCradle ==
  ASSUME TypeOK, NEW c
  PROVE  /\ LoadForCradle(c) \in Lists
         /\ \A n \in Held(LoadForCradle(c)) :
              LoadForCradle(c)[n] = group[System][n]
<1> group[System] \in Lists
  BY DEF TypeOK, Lists, Sections
<1> QED BY DEF LoadForCradle, Held, Lists

(* A store keeps the types and leaves the counter covering the groups. *)
LEMMA StoreKeeps ==
  ASSUME TypeOK, CounterCoversGroups, NEW s \in Sections,
         NEW kind \in PilotKinds \cup SystemKinds, NEW flag \in BOOLEAN,
         NEW cradle \in Cradles \cup {NoCradle},
         StoreRequest(s, kind, flag, cradle)
  PROVE  /\ numreq' \in [Sections -> Nat]
         /\ group' \in [Sections -> Lists]
         /\ issued' \in 0 .. MaxIssued
         /\ origin' \in [Ids -> Sections]
         /\ CounterCoversGroups'
<1> DEFINE num == numreq[s] + 1
           req == [kind |-> kind, flag |-> flag, cradle |-> cradle,
                   handle |-> HandleOf(s, num), id |-> issued + 1]
<1>1. /\ num \in Numbers
      /\ issued < MaxIssued
      /\ numreq' = [numreq EXCEPT ![s] = num]
      /\ group' = [group EXCEPT ![s][num] = req]
      /\ issued' = issued + 1
      /\ origin' = [origin EXCEPT ![issued + 1] = s]
  BY DEF StoreRequest
<1>2. issued + 1 \in Ids /\ issued' \in 0 .. MaxIssued
  BY <1>1, BoundsAssumption DEF TypeOK, Ids
<1>3. req \in Request
  BY <1>1, <1>2, HandleIsNatural DEF Request
<1>4. numreq' \in [Sections -> Nat]
  BY <1>1 DEF TypeOK
<1>5. group' \in [Sections -> Lists]
  <2> HIDE DEF req
  <2> QED BY <1>1, <1>3 DEF TypeOK, Lists
<1>6. origin' \in [Ids -> Sections]
  BY <1>1, <1>2 DEF TypeOK
<1>7. ASSUME NEW t \in Sections
      PROVE  Cardinality(Present(t)') <= numreq'[t]
  <2>1. CASE t = s
    <3>1. Present(s)' = Present(s) \cup {num}
      <4> HIDE DEF req
      <4>1. req # NoGroup
        BY <1>3, NoGroupAssumption
      <4> QED BY <1>1, <4>1 DEF Present, TypeOK
    <3>2. IsFiniteSet(Present(s)) /\ Cardinality(Present(s)) \in Nat
      BY PresentFinite
    <3>3. /\ Cardinality(Present(s)') \in Nat
          /\ Cardinality(Present(s)') <= Cardinality(Present(s)) + 1
      <4> DEFINE found == Present(s)
      <4> HIDE DEF num, found
      <4>1. IsFiniteSet(found) /\ Cardinality(found) \in Nat
        BY ONLY <3>2 DEF found
      <4>2. /\ Cardinality(found \cup {num}) \in Nat
            /\ Cardinality(found \cup {num}) <= Cardinality(found) + 1
        BY ONLY <4>1, AtMostOneMore
      <4> QED BY ONLY <3>1, <4>2 DEF found
    <3>4. Cardinality(Present(s)) <= numreq[s] /\ numreq[s] \in Nat
      BY DEF CounterCoversGroups, TypeOK
    <3>5. numreq'[s] = numreq[s] + 1
      BY <1>1 DEF TypeOK
    <3> HIDE DEF req, num
    <3> QED BY <2>1, <3>2, <3>3, <3>4, <3>5
  <2>2. CASE t # s
    <3>1. Present(t)' = Present(t) /\ numreq'[t] = numreq[t]
      BY <1>1, <2>2 DEF Present, TypeOK
    <3> QED BY <3>1 DEF CounterCoversGroups
  <2> QED BY <2>1, <2>2
<1> QED BY <1>2, <1>4, <1>5, <1>6, <1>7 DEF CounterCoversGroups

(* So does the purge of a group that is in the file. *)
LEMMA PurgeKeeps ==
  ASSUME TypeOK, CounterCoversGroups, NEW s \in Sections,
         NEW n \in Present(s), PurgeRequest(s, n)
  PROVE  /\ numreq' \in [Sections -> Nat]
         /\ group' \in [Sections -> Lists]
         /\ CounterCoversGroups'
<1>1. /\ group' = [group EXCEPT ![s][n] = NoGroup]
      /\ numreq' = [numreq EXCEPT ![s] = @ - 1]
  BY DEF PurgeRequest
<1>2. /\ Present(s)' = Present(s) \ {n}
      /\ Cardinality(Present(s)') = Cardinality(Present(s)) - 1
      /\ Cardinality(Present(s)') \in Nat
  <2>1. Present(s)' = Present(s) \ {n}
    BY <1>1 DEF Present, TypeOK
  <2> QED BY <2>1, PresentFinite, FS_RemoveElement, FS_CardinalityType
<1>3. numreq[s] - 1 \in Nat /\ Cardinality(Present(s)') <= numreq[s] - 1
  BY <1>2, PresentFinite DEF CounterCoversGroups, TypeOK
<1>4. ASSUME NEW t \in Sections
      PROVE  Cardinality(Present(t)') <= numreq'[t]
  <2>1. CASE t = s
    BY <1>1, <1>3, <2>1 DEF TypeOK
  <2>2. CASE t # s
    <3>1. Present(t)' = Present(t) /\ numreq'[t] = numreq[t]
      BY <1>1, <2>2 DEF Present, TypeOK
    <3> QED BY <3>1 DEF CounterCoversGroups
  <2> QED BY <2>1, <2>2
<1>5. numreq' \in [Sections -> Nat]
  BY <1>1, <1>3 DEF TypeOK
<1>6. group' \in [Sections -> Lists]
  BY <1>1 DEF TypeOK, Lists, Present
<1> QED BY <1>4, <1>5, <1>6 DEF CounterCoversGroups

-----------------------------------------------------------------------------
(* The two ways in which a phase ends that are shared by several actions. *)

LEMMA EnterPilotKeeps ==
  ASSUME TypeOK, CounterCoversGroups, NEW p \in Pilots, EnterPilot(p),
         outer = Empty, stage = "ready",
         UNCHANGED <<file, outer, stage, past>>
  PROVE  IInv'
<1>1. p \in Sections
  BY DEF Sections
<1>2. /\ phase' = "restore"
      /\ user' = p
      /\ todo' = LoadRequests(p, "RESTORE")
      /\ normal' \in BOOLEAN
      /\ UNCHANGED <<numreq, group, outer, stage, issued, origin, signals,
                     cancelled, crashes>>
  BY DEF EnterPilot, file, past
<1>3. TypeOK'
  BY <1>1, <1>2, LoadedFromSection DEF TypeOK, Lists, Phases
<1>4. CounterCoversGroups'
  BY <1>2 DEF CounterCoversGroups, Present
<1>5. BatchIsLive'
  BY <1>1, <1>2, LoadedFromSection DEF BatchIsLive, ListSection, Held, Empty
<1>6. ListShape'
  BY <1>1, <1>2, LoadedFromSection DEF ListShape, Held, PilotKinds
<1> QED BY <1>3, <1>4, <1>5, <1>6 DEF IInv

LEMMA FinishKeeps ==
  ASSUME TypeOK, CounterCoversGroups, Finish,
         outer' = Empty, stage' = "ready",
         UNCHANGED <<file, issued, origin, signals, cancelled>>,
         crashes' \in 0 .. MaxCrashes
  PROVE  IInv'
<1>1. /\ phase' = "idle"
      /\ user' = System
      /\ todo' = Empty
      /\ normal' = TRUE
      /\ UNCHANGED <<numreq, group, issued, origin, signals, cancelled>>
  BY DEF Finish, file
<1>2. TypeOK'
  BY <1>1 DEF TypeOK, Phases, Stages, Sections, Empty
<1>3. CounterCoversGroups'
  BY <1>1 DEF CounterCoversGroups, Present
<1>4. BatchIsLive' /\ ListShape'
  BY <1>1 DEF BatchIsLive, ListShape, Held, Empty
<1> QED BY <1>2, <1>3, <1>4 DEF IInv

-----------------------------------------------------------------------------
(* Every action keeps the invariant. *)

LEMMA IssueKeeps ==
  ASSUME IInv, NEW s \in Sections,
         NEW kind \in PilotKinds \cup SystemKinds, NEW flag \in BOOLEAN,
         NEW cradle \in Cradles \cup {NoCradle},
         Issue(s, kind, flag, cradle)
  PROVE  IInv'
<1>1. /\ phase = "idle"
      /\ StoreRequest(s, kind, flag, cradle)
      /\ UNCHANGED <<phase, user, todo, outer, stage, normal, signals,
                     cancelled, crashes>>
  BY DEF Issue, sync
<1>2. TypeOK' /\ CounterCoversGroups'
  BY <1>1, StoreKeeps DEF IInv, TypeOK, Lists
<1>3. BatchIsLive' /\ ListShape'
  BY <1>1 DEF IInv, BatchIsLive, ListShape, Held, Empty
<1> QED BY <1>2, <1>3 DEF IInv

LEMMA RemoveRequestKeeps ==
  ASSUME IInv, NEW h, RemoveRequest(h)
  PROVE  IInv'
<1> DEFINE s == SectionOfHandle(h)
           n == NumberOfHandle(h)
<1>1. /\ phase = "idle"
      /\ s \in Sections
      /\ n \in Present(s)
      /\ PurgeRequest(s, n)
      /\ cancelled' = cancelled \cup {group[s][n].id}
      /\ UNCHANGED <<phase, user, todo, outer, stage, normal, issued, origin,
                     signals, crashes>>
  BY DEF RemoveRequest, Present, sync
<1> HIDE DEF s, n
<1>2. group[s][n] \in Request
  BY <1>1 DEF IInv, TypeOK, Present
<1>3. TypeOK' /\ CounterCoversGroups'
  BY <1>1, <1>2, PurgeKeeps DEF IInv, TypeOK, Lists, Request
<1>4. BatchIsLive' /\ ListShape'
  BY <1>1 DEF IInv, BatchIsLive, ListShape, Held, Empty
<1> QED BY <1>3, <1>4 DEF IInv

LEMMA SyncDeviceKeeps ==
  ASSUME IInv, NEW c \in Cradles, NEW p \in Sections, SyncDevice(c, p)
  PROVE  IInv'
<1> DEFINE events == LoadForCradle(c)
<1>1. phase = "idle" /\ outer = Empty /\ stage = "ready"
  BY DEF SyncDevice, IInv, ListShape
<1>2. stage' = "ready" /\ UNCHANGED <<file, outer, past>>
  BY DEF SyncDevice
<1>3. CASE p \in Pilots /\ EnterPilot(p)
  BY <1>1, <1>2, <1>3, EnterPilotKeeps DEF IInv
<1>4. CASE /\ phase' = "cradle"
           /\ user' = p
           /\ todo' = events
           /\ normal' = FALSE
  <2>1. TypeOK'
    BY <1>2, <1>4, LoadedForCradle
       DEF IInv, TypeOK, Lists, Phases, Stages, file, past
  <2>2. CounterCoversGroups'
    BY <1>2 DEF IInv, CounterCoversGroups, Present, file
  <2>3. BatchIsLive'
    BY <1>1, <1>2, <1>4, LoadedForCradle
       DEF IInv, BatchIsLive, ListSection, Held, Empty, file
  <2>4. ListShape'
    BY <1>1, <1>2, <1>4 DEF ListShape
  <2> QED BY <2>1, <2>2, <2>3, <2>4 DEF IInv
<1> QED BY <1>3, <1>4 DEF SyncDevice

LEMMA RunFileConduitKeeps ==
  ASSUME IInv, RunFileConduit
  PROVE  IInv'
<1>1. /\ phase = "conduit"
      /\ Held(todo) # {}
      /\ stage = "ready"
      /\ todo[HeadNumber].kind = "CONDUIT"
      /\ outer' = todo
      /\ todo' = LoadRequests(user, "INSTALL")
      /\ UNCHANGED <<numreq, group, phase, user, stage, normal, issued, origin,
                     signals, cancelled, crashes>>
  BY DEF RunFileConduit, file, past
<1>2. Held(outer) = {}
  BY <1>1, HeadIsHighest DEF IInv, ListShape
<1>3. TypeOK'
  BY <1>1, LoadedFromSection DEF IInv, TypeOK, Lists
<1>4. CounterCoversGroups'
  BY <1>1 DEF IInv, CounterCoversGroups, Present
<1>5. user \in Sections
  BY DEF IInv, TypeOK
<1>6. BatchIsLive'
  BY <1>1, <1>5, LoadedFromSection
     DEF IInv, BatchIsLive, ListSection, Held
<1>7. ListShape'
  BY <1>1, <1>2, <1>5, LoadedFromSection
     DEF IInv, ListShape, Held, PilotKinds
<1> QED BY <1>3, <1>4, <1>6, <1>7 DEF IInv

LEMMA ResumeConduitKeeps ==
  ASSUME IInv, ResumeConduit
  PROVE  IInv'
<1>1. /\ Held(outer) # {}
      /\ todo' = outer
      /\ outer' = Empty
      /\ stage' = "resumed"
      /\ UNCHANGED <<numreq, group, phase, user, normal, issued, origin,
                     signals, cancelled, crashes>>
  BY DEF ResumeConduit, file, past
<1>2. phase = "conduit"
  BY <1>1 DEF IInv, ListShape, Held, Empty
<1>3. TypeOK'
  BY <1>1 DEF IInv, TypeOK, Stages, Empty
<1>4. CounterCoversGroups'
  BY <1>1 DEF IInv, CounterCoversGroups, Present
<1>5. BatchIsLive'
  BY <1>1, <1>2 DEF IInv, BatchIsLive, ListSection, Empty
<1>6. ListShape'
  BY <1>1, <1>2 DEF IInv, ListShape, Held, Empty, PilotKinds
<1> QED BY <1>3, <1>4, <1>5, <1>6 DEF IInv

(* Only a system request changes the user id, and it is served from the     *)
(* system section.                                                          *)
LEMMA CompleteKeeps ==
  ASSUME IInv, Complete
  PROVE  IInv'
<1> DEFINE req == todo[HeadNumber]
<1>1. /\ Held(todo) # {}
      /\ signals' = [signals EXCEPT ![req.id] = @ + 1]
      /\ user' \in Sections
      /\ req.kind # "SET_USERINFO" => user' = user
      /\ normal' = (normal \/ req.flag) \/ normal' = normal
      /\ stage' = "signalled"
      /\ UNCHANGED <<numreq, group, phase, todo, outer, issued, origin,
                     cancelled, crashes>>
  BY DEF Complete, file, IInv, TypeOK
<1>2. req \in Request /\ HeadNumber \in Held(todo)
  BY <1>1, HeadIsHighest DEF IInv, TypeOK, Held
<1> HIDE DEF req
<1>3. TypeOK'
  <2>1. signals' \in [Ids -> Nat]
    BY <1>1, <1>2 DEF IInv, TypeOK, Request
  <2>2. normal' \in BOOLEAN
    BY <1>1, <1>2 DEF IInv, TypeOK, Request
  <2> QED BY <1>1, <2>1, <2>2 DEF IInv, TypeOK, Stages
<1>4. CounterCoversGroups'
  BY <1>1 DEF IInv, CounterCoversGroups, Present
<1>5. phase = "cradle" \/ user' = user
  BY <1>1, <1>2 DEF IInv, ListShape, PilotKinds, req
<1>6. BatchIsLive'
  BY <1>1, <1>5 DEF IInv, BatchIsLive, ListSection, ListShape, Empty, Held
<1>7. ListShape'
  BY <1>1, <1>5 DEF IInv, ListShape, Held, Empty
<1> QED BY <1>3, <1>4, <1>6, <1>7 DEF IInv

(* The purged group is the one that was loaded, and no other request of the *)
(* two lists has its number.                                                *)
LEMMA PurgeCompletedKeeps ==
  ASSUME IInv, PurgeCompleted
  PROVE  IInv'
<1> DEFINE s == ListSection
           n == HeadNumber
<1>1. /\ stage = "signalled"
      /\ PurgeRequest(s, n)
      /\ todo' = [todo EXCEPT ![n] = NoGroup]
      /\ stage' = "ready"
      /\ UNCHANGED <<phase, user, outer, normal, issued, origin, signals,
                     cancelled, crashes>>
  BY DEF PurgeCompleted, past
<1>2. s \in Sections
  BY DEF IInv, TypeOK, ListSection, Sections
<1>3. n \in Held(todo) /\ n \in Numbers /\ todo[n] # NoGroup
  BY <1>1, HeadIsHighest DEF IInv, ListShape, Held
<1>4. n \in Present(s)
  BY <1>3 DEF IInv, BatchIsLive, Present
<1>5. group' = [group EXCEPT ![s][n] = NoGroup]
  BY <1>1 DEF PurgeRequest
<1>6. outer[n] = NoGroup
  BY <1>3 DEF IInv, BatchIsLive, ListShape, Held, Empty, ListSection
<1>7. /\ ListSection' = s
      /\ phase = "conduit" => s = user
      /\ phase # "conduit" => outer = Empty
  BY <1>1 DEF ListSection, IInv, ListShape
<1>8. /\ todo' \in Lists
      /\ Held(todo') = Held(todo) \ {n}
      /\ \A m \in Held(todo') : todo'[m] = todo[m]
  BY <1>1, <1>3 DEF IInv, TypeOK, Lists, Held
<1> HIDE DEF s, n
<1>9. TypeOK' /\ CounterCoversGroups'
  BY <1>1, <1>2, <1>4, <1>8, PurgeKeeps DEF IInv, TypeOK, Lists, Stages
<1>10. BatchIsLive'
  <2>1. ASSUME NEW m \in Numbers, todo'[m] # NoGroup
        PROVE  group'[s][m] = todo'[m]
    <3>1. m # n /\ todo[m] = todo'[m]
      BY <1>1, <1>3, <2>1 DEF IInv, TypeOK
    <3> QED BY <1>2, <1>5, <2>1, <3>1 DEF IInv, BatchIsLive, TypeOK, s
  <2>2. ASSUME NEW m \in Numbers, outer'[m] # NoGroup
        PROVE  group'[user'][m] = outer'[m]
    <3>1. m # n /\ outer[m] = outer'[m] /\ user' = user
      BY <1>1, <1>6, <2>2
    <3> QED BY <1>2, <1>5, <2>2, <3>1 DEF IInv, BatchIsLive, TypeOK
  <2> QED BY <1>7, <2>1, <2>2 DEF BatchIsLive
<1>11. ListShape'
  BY <1>1, <1>8 DEF IInv, ListShape, Held, Empty
<1> QED BY <1>9, <1>10, <1>11 DEF IInv

(* A phase ends with nothing loaded and nothing half done. *)
LEMMA EndKeeps ==
  ASSUME IInv, EndCradle \/ EndRestore \/ EndConduit \/ EndInstall
  PROVE  IInv'
<1>1. /\ TypeOK /\ CounterCoversGroups
      /\ Held(todo) = {} /\ Held(outer) = {}
      /\ UNCHANGED <<file, outer, stage, past>>
  BY DEF IInv, EndCradle, EndRestore, EndConduit, EndInstall, ListDone
<1>2. outer = Empty /\ outer' = Empty
  BY <1>1 DEF Held, Empty, TypeOK
<1>3. stage = "ready" /\ stage' = "ready"
  BY <1>1 DEF IInv, ListShape
<1>4. UNCHANGED <<numreq, group, issued, origin, signals, cancelled, crashes>>
  BY <1>1 DEF file, past
<1>5. CASE Finish
  BY <1>1, <1>2, <1>3, <1>4, <1>5, FinishKeeps DEF file, TypeOK
<1>6. CASE user \in Pilots /\ EnterPilot(user)
  BY <1>1, <1>2, <1>3, <1>6, EnterPilotKeeps
<1>7. ASSUME NEW kind \in {"CONDUIT", "INSTALL"}, user \in Pilots,
             phase' = (IF kind = "CONDUIT" THEN "conduit" ELSE "install"),
             todo' = LoadRequests(user, kind), user' = user,
             normal' \in BOOLEAN
      PROVE  IInv'
  <2>1. user \in Sections
    BY <1>7 DEF Sections
  <2>2. TypeOK'
    BY <1>1, <1>2, <1>4, <1>7, <2>1, <1>3, LoadedFromSection
       DEF TypeOK, Lists, Phases
  <2>3. CounterCoversGroups'
    BY <1>1, <1>4 DEF CounterCoversGroups, Present
  <2>4. BatchIsLive'
    BY <1>1, <1>2, <1>4, <1>7, <2>1, LoadedFromSection
       DEF BatchIsLive, ListSection, Held, Empty
  <2>5. ListShape'
    BY <1>1, <1>2, <1>3, <1>7, <2>1, LoadedFromSection
       DEF ListShape, Held, Empty, PilotKinds
  <2> QED BY <2>2, <2>3, <2>4, <2>5 DEF IInv
<1>8. CASE EndCradle
  BY <1>5, <1>6, <1>8 DEF EndCradle
<1>9. CASE EndRestore
  BY <1>7, <1>9 DEF EndRestore, IInv, ListShape, TypeOK
<1>10. CASE EndConduit
  BY <1>1, <1>5, <1>7, <1>10 DEF EndConduit, IInv, ListShape, TypeOK
<1>11. CASE EndInstall
  BY <1>5, <1>11 DEF EndInstall
<1> QED BY <1>8, <1>9, <1>10, <1>11

LEMMA CrashKeeps ==
  ASSUME IInv, Crash
  PROVE  IInv'
<1>1. crashes' \in 0 .. MaxCrashes
  BY BoundsAssumption DEF Crash, IInv, TypeOK
<1> QED BY <1>1, FinishKeeps DEF Crash, IInv

-----------------------------------------------------------------------------

LEMMA InitHolds == Init => IInv
<1> SUFFICES ASSUME Init PROVE IInv
  OBVIOUS
<1>1. TypeOK
  BY BoundsAssumption
     DEF Init, TypeOK, Sections, Phases, Stages, Empty
<1>2. CounterCoversGroups
  <2>1. \A s \in Sections : Present(s) = {}
    BY DEF Init, Present, Empty
  <2> QED BY <2>1, FS_EmptySet DEF Init, CounterCoversGroups
<1>3. BatchIsLive /\ ListShape
  BY DEF Init, BatchIsLive, ListShape, Held, Empty
<1> QED BY <1>1, <1>2, <1>3 DEF IInv

LEMMA StepKeeps == IInv /\ [Next]_vars => IInv'
<1> SUFFICES ASSUME IInv, [Next]_vars PROVE IInv'
  OBVIOUS
<1>1. CASE Ask
  <2> System \in Sections /\ Pilots \subseteq Sections
    BY DEF Sections
  <2> QED BY <1>1, IssueKeeps
          DEF Ask, RequestInstall, RequestRestore, RequestConduit,
              GetSystemInfo, GetUserInfo, SetUserInfo, PilotKinds, SystemKinds
<1>2. CASE \E s \in CancelFrom, n \in Numbers : RemoveRequest(HandleOf(s, n))
  BY <1>2, RemoveRequestKeeps
<1>3. CASE \E c \in Cradles, p \in Sections : SyncDevice(c, p)
  BY <1>3, SyncDeviceKeeps
<1>4. CASE Serve
  BY <1>4, RunFileConduitKeeps, ResumeConduitKeeps, CompleteKeeps,
     PurgeCompletedKeeps, EndKeeps DEF Serve
<1>5. CASE Crash
  BY <1>5, CrashKeeps
<1>6. CASE UNCHANGED vars
  BY <1>6 DEF vars, IInv, TypeOK, CounterCoversGroups, BatchIsLive, ListShape,
              Present, Held, ListSection
<1> QED BY <1>1, <1>2, <1>3, <1>4, <1>5, <1>6 DEF Next

(* The inductive invariant holds throughout. *)
THEOREM Invariance == Spec => []IInv
<1> QED BY InitHolds, StepKeeps, PTL DEF Spec

(* Every variable keeps its type; number-of-requests is never negative.     *)
THEOREM TypeCorrect == Spec => []TypeOK
<1>1. IInv => TypeOK
  BY DEF IInv
<1> QED BY <1>1, Invariance, PTL

(* number-of-requests never falls below the number of groups in the file:   *)
(* gpc_queue_store_request and gpc_queue_purge_request keep them in step    *)
(* whatever is cancelled and wherever gpilotd crashes.                      *)
THEOREM CounterCovered == Spec => []CounterCoversGroups
<1>1. IInv => CounterCoversGroups
  BY DEF IInv
<1> QED BY <1>1, Invariance, PTL

(* The requests a synchronization has loaded stay in the file, as they were *)
(* loaded, until their turn, those of a list suspended for a file conduit   *)
(* included.                                                                *)
THEOREM BatchLive == Spec => []BatchIsLive
<1>1. IInv => BatchIsLive
  BY DEF IInv
<1> QED BY <1>1, Invariance, PTL

-----------------------------------------------------------------------------
(* Handles.  They lead back to their request just when the number of the    *)
(* request stays below HandleBase and the product of set_section_num fits   *)
(* in 32 bits, which that of a pilot id of 32 bits need not do.             *)

LEMMA MultipleOfBase ==
  ASSUME NEW b \in Nat \ {0}, NEW k \in Int
  PROVE  /\ k >= 1 => b * k >= b
         /\ k <= -1 => b * k <= -b
OBVIOUS

LEMMA DivisionIsUnique ==
  ASSUME NEW b \in Nat \ {0}, NEW s \in Nat, NEW n \in Nat, n < b
  PROVE  (s * b + n) \div b = s /\ (s * b + n) % b = n
<1> DEFINE h == s * b + n
           q == h \div b
           r == h % b
<1>1. s * b \in Nat /\ h \in Nat
  OBVIOUS
<1>2. q \in Int /\ r \in 0 .. b - 1 /\ h = b * q + r
  <2> HIDE DEF h
  <2> QED BY <1>1
<1> HIDE DEF q, r
<1>3. b * (q - s) = n - r
  BY <1>2
<1>4. q - s \in Int
  BY <1>2
<1>5. ~ (q - s >= 1) /\ ~ (q - s <= -1)
  BY <1>2, <1>3, <1>4, MultipleOfBase
<1>6. q = s
  BY <1>2, <1>5
<1>7. r = n
  BY <1>2, <1>3, <1>6
<1> QED BY <1>6, <1>7 DEF q, r

LEMMA QuotientAndRemainder ==
  ASSUME NEW b \in Nat \ {0}, NEW h \in Nat
  PROVE  h = (h \div b) * b + (h % b) /\ h % b < b
<1>1. h \div b \in Int /\ h % b \in 0 .. b - 1 /\ h = b * (h \div b) + (h % b)
  OBVIOUS
<1> DEFINE q == h \div b
<1>2. q \in Int => b * q = q * b
  OBVIOUS
<1> QED BY <1>1, <1>2

LEMMA HandleLeadsBack ==
  ASSUME NEW s \in Sections, NEW n \in Numbers
  PROVE  LeadsTo(HandleOf(s, n), s, n) <=> FitsWord(s, n)
<1>1. s \in Nat /\ n \in Nat
  BY PilotsAssumption, BoundsAssumption DEF Sections, System, Numbers
<1> DEFINE k == s * HandleBase + n
           h == k % WordSize
<1>2. k \in Nat
  BY <1>1, HandleAssumption
<1>3. h \in Nat /\ h < WordSize /\ (k < WordSize => h = k)
  <2> HIDE DEF k
  <2> QED BY <1>2, HandleAssumption
<1>4. HandleOf(s, n) = h
  BY DEF HandleOf
<1> HIDE DEF h
<1>5. ASSUME FitsWord(s, n) PROVE LeadsTo(HandleOf(s, n), s, n)
  <2>1. n < HandleBase /\ h = k
    BY <1>3, <1>5 DEF FitsWord
  <2>2. k \div HandleBase = s /\ k % HandleBase = n
    BY <1>1, <2>1, HandleAssumption, DivisionIsUnique
  <2> QED BY <1>4, <2>1, <2>2, Zenon DEF LeadsTo, SectionOfHandle, NumberOfHandle
<1>6. ASSUME LeadsTo(HandleOf(s, n), s, n) PROVE FitsWord(s, n)
  <2>1. h \div HandleBase = s /\ h % HandleBase = n
    BY <1>4, <1>6, Zenon DEF LeadsTo, SectionOfHandle, NumberOfHandle
  <2>2. h = (h \div HandleBase) * HandleBase + (h % HandleBase) /\ h % HandleBase < HandleBase
    BY <1>3, HandleAssumption, QuotientAndRemainder
  <2>3. h = k /\ n < HandleBase
    BY <2>1, <2>2
  <2> QED BY <1>3, <2>3 DEF FitsWord
<1> QED BY <1>5, <1>6

-----------------------------------------------------------------------------
(* Uniform sections.  A list loaded from one takes in the whole section, so *)
(* that the head of the list is the last request of the section.            *)

HandlesKept ==
  \A s \in Sections : \A n \in Present(s) : group[s][n].handle = HandleOf(s, n)

KindsKept ==
  \A s \in Sections : \A n \in Present(s) :
    IF s = System THEN group[s][n].cradle \in Cradles
                  ELSE group[s][n].kind \in KindsOf[s]

WholeSection ==
  /\ Held(todo) # {} /\ Uniform(ListSection)
       => Held(todo) = Present(ListSection)
  /\ Held(outer) # {} /\ Uniform(user) => Held(outer) = Present(user)

UInv ==
  /\ HandlesKept
  /\ KindsKept
  /\ UniformContiguous
  /\ WholeSection

LEMMA LoadsWholeSection ==
  ASSUME TypeOK, KindsKept, UniformContiguous,
         NEW p \in Pilots, Uniform(p), NEW kind,
         Held(LoadRequests(p, kind)) # {}
  PROVE  Held(LoadRequests(p, kind)) = Present(p)
<1>1. p \in Sections /\ p # System
  BY PilotsAssumption DEF Sections, System
<1>2. PICK n \in Numbers : group[p][n] # NoGroup /\ group[p][n].kind = kind
  BY DEF LoadRequests, Held
<1>3. \A m \in Present(p) : group[p][m].kind = kind /\ m <= numreq[p]
  <2>1. \A m \in Present(p) : group[p][m].kind = kind
    BY <1>1, <1>2 DEF KindsKept, Uniform, OneElement, Present
  <2>2. \A m \in Present(p) : m <= numreq[p]
    BY <1>1 DEF UniformContiguous, TypeOK
  <2> QED BY <2>1, <2>2
<1> QED BY <1>3 DEF LoadRequests, Held, Present

LEMMA LoadsWholeSystemSection ==
  ASSUME TypeOK, KindsKept, UniformContiguous,
         Uniform(System), NEW c \in Cradles
  PROVE  Held(LoadForCradle(c)) = Present(System)
<1>1. System \in Sections
  BY DEF Sections
<1>2. \A m \in Present(System) : group[System][m].cradle = c
  BY <1>1 DEF KindsKept, Uniform, OneElement
<1>3. \A m \in Present(System) : m <= numreq[System]
  BY <1>1 DEF UniformContiguous, TypeOK
<1> QED BY <1>2, <1>3 DEF LoadForCradle, Held, Present

(* Most actions leave the file alone: only the lists are to be looked at.   *)
LEMMA FileUnchanged ==
  ASSUME UInv, UNCHANGED <<numreq, group>>
  PROVE  HandlesKept' /\ KindsKept' /\ UniformContiguous'
BY DEF UInv, HandlesKept, KindsKept, UniformContiguous, Uniform, Present

LEMMA IssueKeepsUniform ==
  ASSUME IInv, UInv, NEW s \in Sections,
         NEW kind \in PilotKinds \cup SystemKinds, NEW flag \in BOOLEAN,
         NEW cradle \in Cradles \cup {NoCradle},
         IF s = System THEN cradle \in Cradles ELSE kind \in KindsOf[s],
         Issue(s, kind, flag, cradle)
  PROVE  UInv'
<1> DEFINE num == numreq[s] + 1
           req == [kind |-> kind, flag |-> flag, cradle |-> cradle,
                   handle |-> HandleOf(s, num), id |-> issued + 1]
<1>1. /\ num \in Numbers
      /\ numreq' = [numreq EXCEPT ![s] = num]
      /\ group' = [group EXCEPT ![s][num] = req]
      /\ todo' = Empty /\ outer' = Empty
  BY DEF Issue, StoreRequest, IInv, ListShape, sync
<1>2. /\ req.kind = kind /\ req.cradle = cradle
      /\ req.handle = HandleOf(s, num)
      /\ req # NoGroup
  <2>1. req \in Request
    <3>1. issued < MaxIssued /\ issued \in Nat
      BY BoundsAssumption DEF Issue, StoreRequest, IInv, TypeOK
    <3>2. issued + 1 \in Ids
      BY <3>1, BoundsAssumption DEF Ids
    <3> QED BY <1>1, <3>2, HandleIsNatural DEF Request
  <2> QED BY <2>1, NoGroupAssumption
<1> HIDE DEF req
<1>3. /\ \A t \in Sections \ {s} : /\ group'[t] = group[t]
                                  /\ numreq'[t] = numreq[t]
                                  /\ Present(t)' = Present(t)
      /\ \A n \in Numbers \ {num} : group'[s][n] = group[s][n]
      /\ group'[s][num] = req
      /\ numreq'[s] = num
      /\ Present(s)' = Present(s) \cup {num}
  BY <1>1, <1>2 DEF IInv, TypeOK, Present
<1>4. HandlesKept' /\ KindsKept'
  BY <1>2, <1>3 DEF UInv, HandlesKept, KindsKept, Present
<1>5. ASSUME NEW t \in Sections, Uniform(t)
      PROVE  Present(t)' = 1 .. numreq'[t]
  <2>1. Present(t) = 1 .. numreq[t]
    BY <1>5 DEF UInv, UniformContiguous
  <2>2. CASE t = s
    <3>1. numreq[s] \in Nat
      BY DEF IInv, TypeOK
    <3>2. 1 .. num = (1 .. numreq[s]) \cup {num}
      BY <3>1
    <3> HIDE DEF num
    <3> QED BY <1>3, <2>1, <2>2, <3>2
  <2>3. CASE t # s
    BY <1>3, <2>1, <2>3
  <2> QED BY <2>2, <2>3
<1>6. UniformContiguous'
  BY <1>5 DEF UniformContiguous, Uniform
<1>7. WholeSection'
  BY <1>1 DEF WholeSection, Held, Empty
<1> QED BY <1>4, <1>6, <1>7 DEF UInv

(* A cancelled request is not one of a uniform section, wherever its handle *)
(* leads to.                                                                *)
LEMMA CancelIsElsewhere ==
  ASSUME NEW c \in CancelFrom, NEW n \in Numbers
  PROVE  ~ Uniform(SectionOfHandle(HandleOf(c, n)))
BY DEF Uniform, CancelReaches

LEMMA RemoveRequestKeepsUniform ==
  ASSUME IInv, UInv, NEW c \in CancelFrom, NEW i \in Numbers,
         RemoveRequest(HandleOf(c, i))
  PROVE  UInv'
<1> DEFINE s == SectionOfHandle(HandleOf(c, i))
           n == NumberOfHandle(HandleOf(c, i))
<1>1. s \in Sections /\ n \in Numbers /\ ~ Uniform(s)
  BY CancelIsElsewhere DEF RemoveRequest
<1>2. /\ group' = [group EXCEPT ![s][n] = NoGroup]
      /\ numreq' = [numreq EXCEPT ![s] = @ - 1]
      /\ todo' = Empty /\ outer' = Empty
  BY DEF RemoveRequest, PurgeRequest, IInv, ListShape, sync
<1> HIDE DEF s, n
<1>3. /\ \A t \in Sections \ {s} : group'[t] = group[t] /\ numreq'[t] = numreq[t]
      /\ \A m \in Numbers \ {n} : group'[s][m] = group[s][m]
      /\ group'[s][n] = NoGroup
  BY <1>1, <1>2 DEF IInv, TypeOK
<1>4. HandlesKept' /\ KindsKept'
  BY <1>3 DEF UInv, HandlesKept, KindsKept, Present
<1>5. UniformContiguous'
  BY <1>1, <1>3 DEF UInv, UniformContiguous, Uniform, Present
<1>6. WholeSection'
  BY <1>2 DEF WholeSection, Held, Empty
<1> QED BY <1>4, <1>5, <1>6 DEF UInv

LEMMA SyncDeviceKeepsUniform ==
  ASSUME IInv, UInv, NEW c \in Cradles, NEW p \in Sections, SyncDevice(c, p)
  PROVE  UInv'
<1>1. UNCHANGED <<numreq, group>> /\ outer' = Empty
  BY DEF SyncDevice, file, IInv, ListShape
<1>2. HandlesKept' /\ KindsKept' /\ UniformContiguous'
  BY <1>1, FileUnchanged
<1>3. CASE p \in Pilots /\ EnterPilot(p)
  <2>1. /\ todo' = LoadRequests(p, "RESTORE")
        /\ ListSection' = p
        /\ Present(p)' = Present(p)
    BY <1>1, <1>3 DEF EnterPilot, ListSection, Present
  <2>2. Held(todo') # {} /\ Uniform(p) => Held(todo') = Present(p)
    BY <1>3, <2>1, LoadsWholeSection DEF IInv, UInv
  <2>3. WholeSection'
    BY <1>1, <2>1, <2>2 DEF WholeSection, Held, Empty, Uniform
  <2> QED BY <1>2, <2>3 DEF UInv
<1>4. CASE phase' = "cradle" /\ todo' = LoadForCradle(c)
  <2>1. ListSection' = System /\ Present(System)' = Present(System)
    BY <1>1, <1>4 DEF ListSection, Present
  <2>2. Uniform(System) => Held(todo') = Present(System)
    BY <1>4, LoadsWholeSystemSection DEF IInv, UInv
  <2>3. WholeSection'
    BY <1>1, <2>1, <2>2 DEF WholeSection, Held, Empty, Uniform
  <2> QED BY <1>2, <2>3 DEF UInv
<1> QED BY <1>3, <1>4 DEF SyncDevice

LEMMA CompleteKeepsUniform ==
  ASSUME IInv, UInv, Complete
  PROVE  UInv'
<1>1. UNCHANGED <<numreq, group, phase, todo, outer>>
  BY DEF Complete, file
<1>2. HandlesKept' /\ KindsKept' /\ UniformContiguous'
  BY <1>1, FileUnchanged
<1>3. phase = "cradle" \/ user' = user
  <2>1. HeadNumber \in Held(todo)
    BY HeadIsHighest DEF Complete
  <2> QED BY <2>1 DEF Complete, IInv, ListShape, PilotKinds
<1>4. phase = "cradle" => outer = Empty
  BY DEF IInv, ListShape
<1>5. WholeSection'
  <2>1. /\ Present(System)' = Present(System)
        /\ Present(user)' = Present(user) \/ user' # user
    BY <1>1 DEF Present
  <2> QED BY <1>1, <1>3, <1>4, <2>1
          DEF UInv, WholeSection, ListSection, Held, Empty, Uniform
<1> QED BY <1>2, <1>5 DEF UInv

(* While a file conduit installs, the list it suspended and the one it      *)
(* loaded are of different kinds: the section is not uniform.               *)
LEMMA OneListAtATime ==
  ASSUME IInv, UInv, Held(todo) # {}, Uniform(ListSection)
  PROVE  Held(outer) = {}
<1> SUFFICES ASSUME Held(outer) # {} PROVE FALSE
  OBVIOUS
<1>1. phase = "conduit" /\ user \in Pilots /\ ListSection = user
  BY DEF IInv, ListShape, Held, Empty, ListSection
<1>2. user \in Sections /\ user # System
  BY <1>1, PilotsAssumption DEF Sections, System
<1>3. PICK n \in Numbers : todo[n] # NoGroup /\ todo[n].kind = "INSTALL"
  BY <1>1 DEF IInv, ListShape, Held
<1>4. PICK m \in Numbers : outer[m] # NoGroup /\ outer[m].kind = "CONDUIT"
  BY <1>1 DEF IInv, ListShape, Held
<1>5. /\ n \in Present(user) /\ group[user][n].kind = "INSTALL"
      /\ m \in Present(user) /\ group[user][m].kind = "CONDUIT"
  BY <1>1, <1>3, <1>4 DEF IInv, BatchIsLive, Present
<1>6. "INSTALL" \in KindsOf[user] /\ "CONDUIT" \in KindsOf[user]
  BY <1>2, <1>5 DEF UInv, KindsKept
<1> QED BY <1>1, <1>2, <1>6 DEF Uniform, OneElement

LEMMA PurgeCompletedKeepsUniform ==
  ASSUME IInv, UInv, PurgeCompleted
  PROVE  UInv'
<1> PICK s \in Sections : s = ListSection
  BY DEF IInv, TypeOK, ListSection, Sections
<1> PICK n : n = HeadNumber
  OBVIOUS
<1>1. /\ stage = "signalled"
      /\ group' = [group EXCEPT ![s][n] = NoGroup]
      /\ numreq' = [numreq EXCEPT ![s] = @ - 1]
      /\ todo' = [todo EXCEPT ![n] = NoGroup]
      /\ UNCHANGED <<phase, user, outer>>
  BY DEF PurgeCompleted, PurgeRequest
<1>2. /\ n \in Held(todo)
      /\ \A m \in Held(todo) : m <= n
      /\ ListSection' = s
  BY <1>1, HeadIsHighest DEF IInv, TypeOK, ListShape, ListSection, Sections
<1>3. n \in Numbers /\ n \in Present(s)
  BY <1>2 DEF IInv, BatchIsLive, Present, Held
<1>4. /\ \A t \in Sections \ {s} : /\ group'[t] = group[t]
                                  /\ numreq'[t] = numreq[t]
                                  /\ Present(t)' = Present(t)
      /\ \A m \in Numbers \ {n} : group'[s][m] = group[s][m]
      /\ group'[s][n] = NoGroup
      /\ numreq'[s] = numreq[s] - 1
      /\ Present(s)' = Present(s) \ {n}
      /\ Held(todo') = Held(todo) \ {n}
  <2>1. /\ \A t \in Sections \ {s} : group'[t] = group[t] /\ numreq'[t] = numreq[t]
        /\ \A m \in Numbers \ {n} : group'[s][m] = group[s][m]
        /\ group'[s][n] = NoGroup
        /\ numreq'[s] = numreq[s] - 1
    BY <1>1, <1>2, <1>3 DEF IInv, TypeOK
  <2>2. \A t \in Sections \ {s} : Present(t)' = Present(t)
    BY <2>1 DEF Present
  <2>3. Present(s)' = Present(s) \ {n}
    BY <1>2, <1>3, <2>1 DEF Present
  <2>4. Held(todo') = Held(todo) \ {n}
    BY <1>1, <1>2 DEF IInv, TypeOK, Held
  <2> QED BY <2>1, <2>2, <2>3, <2>4
<1>5. HandlesKept' /\ KindsKept'
  BY <1>4 DEF UInv, HandlesKept, KindsKept, Present
<1>6. Uniform(s) => Held(outer) = {} /\ Held(todo) = Present(s)
  BY <1>2, OneListAtATime DEF UInv, WholeSection
<1>7. UniformContiguous'
  <2>1. SUFFICES ASSUME NEW t \in Sections, Uniform(t)
                 PROVE  Present(t)' = 1 .. numreq'[t]
    BY DEF UniformContiguous, Uniform
  <2>2. Present(t) = 1 .. numreq[t]
    BY <2>1 DEF UInv, UniformContiguous
  <2>3. CASE t = s
    <3>1. numreq[s] \in Nat /\ n \in 1 .. numreq[s]
      BY <1>2, <1>3, <2>2, <2>3 DEF IInv, TypeOK
    <3>2. \A m \in 1 .. numreq[s] : m <= n
      BY <1>2, <1>6, <2>1, <2>2, <2>3
    <3>3. n = numreq[s]
      BY <3>1, <3>2
    <3>4. (1 .. numreq[s]) \ {n} = 1 .. numreq[s] - 1
      BY <3>1, <3>3
    <3>5. Present(s)' = 1 .. numreq'[s]
      BY <1>4, <2>2, <2>3, <3>4
    <3> QED BY <2>3, <3>5 DEF Present
  <2>4. CASE t # s
    BY <1>4, <2>2, <2>4
  <2> QED BY <2>3, <2>4
<1>8. WholeSection'
  <2>1. Uniform(s) => Held(todo') = Present(s)'
    BY <1>4, <1>6
  <2>2. Held(outer) # {} => user = s
    BY DEF IInv, ListShape, Held, Empty, ListSection
  <2>3. Held(outer') # {} => ~ Uniform(user')
    BY <1>1, <1>6, <2>2
  <2> QED BY <1>2, <2>1, <2>3 DEF WholeSection, Uniform, Present
<1> QED BY <1>5, <1>7, <1>8 DEF UInv

LEMMA RunFileConduitKeepsUniform ==
  ASSUME IInv, UInv, RunFileConduit
  PROVE  UInv'
<1>1. /\ phase = "conduit"
      /\ Held(todo) # {}
      /\ outer' = todo
      /\ todo' = LoadRequests(user, "INSTALL")
      /\ UNCHANGED <<numreq, group, phase, user>>
  BY DEF RunFileConduit, file
<1>2. HandlesKept' /\ KindsKept' /\ UniformContiguous'
  BY <1>1, FileUnchanged
<1>3. /\ user \in Pilots /\ ListSection = user /\ ListSection' = user
      /\ Present(user)' = Present(user)
  BY <1>1 DEF IInv, ListShape, ListSection, Present
<1>4. Held(todo') # {} /\ Uniform(user) => Held(todo') = Present(user)
  BY <1>1, <1>3, LoadsWholeSection DEF IInv, UInv
<1>5. WholeSection'
  BY <1>1, <1>3, <1>4 DEF UInv, WholeSection, Uniform
<1> QED BY <1>2, <1>5 DEF UInv

LEMMA ResumeConduitKeepsUniform ==
  ASSUME IInv, UInv, ResumeConduit
  PROVE  UInv'
<1>1. /\ todo' = outer
      /\ outer' = Empty
      /\ UNCHANGED <<numreq, group, phase, user>>
      /\ phase = "conduit"
  BY DEF ResumeConduit, file, IInv, ListShape, Held, Empty
<1>2. HandlesKept' /\ KindsKept' /\ UniformContiguous'
  BY <1>1, FileUnchanged
<1>3. WholeSection'
  BY <1>1 DEF UInv, WholeSection, ListSection, Present, Held, Empty, Uniform
<1> QED BY <1>2, <1>3 DEF UInv

LEMMA EndKeepsUniform ==
  ASSUME IInv, UInv, EndCradle \/ EndRestore \/ EndConduit \/ EndInstall \/ Crash
  PROVE  UInv'
<1>1. /\ UNCHANGED <<numreq, group>>
      /\ Held(outer') = {}
  BY DEF EndCradle, EndRestore, EndConduit, EndInstall, Crash, ListDone,
         file, Held, Empty
<1>2. HandlesKept' /\ KindsKept' /\ UniformContiguous'
  BY <1>1, FileUnchanged
<1>3. CASE todo' = Empty
  BY <1>1, <1>2, <1>3 DEF UInv, WholeSection, Held, Empty
<1>4. ASSUME NEW kind, user \in Pilots, user' = user,
             phase' # "cradle", todo' = LoadRequests(user, kind)
      PROVE  UInv'
  <2>1. ListSection' = user /\ Present(user)' = Present(user)
    BY <1>1, <1>4 DEF ListSection, Present
  <2>2. Held(todo') # {} /\ Uniform(user) => Held(todo') = Present(user)
    BY <1>4, LoadsWholeSection DEF IInv, UInv
  <2>3. WholeSection'
    BY <1>1, <2>1, <2>2 DEF WholeSection, Uniform, Present
  <2> QED BY <1>2, <2>3 DEF UInv
<1>5. EndCradle => UInv'
  BY <1>3, <1>4 DEF EndCradle, EnterPilot, Finish
<1>6. EndRestore => UInv'
  BY <1>4 DEF EndRestore, IInv, ListShape
<1>7. EndConduit => UInv'
  BY <1>3, <1>4 DEF EndConduit, Finish, IInv, ListShape
<1>8. EndInstall \/ Crash => UInv'
  BY <1>3 DEF EndInstall, Crash, Finish
<1> QED BY <1>5, <1>6, <1>7, <1>8

LEMMA InitUniform == Init => UInv
<1> SUFFICES ASSUME Init PROVE UInv
  OBVIOUS
<1>1. \A s \in Sections : Present(s) = {}
  BY DEF Init, Present, Empty
<1>2. HandlesKept /\ KindsKept
  BY <1>1 DEF HandlesKept, KindsKept
<1>3. UniformContiguous
  BY <1>1 DEF Init, UniformContiguous
<1>4. WholeSection
  BY DEF Init, WholeSection, Held, Empty
<1> QED BY <1>2, <1>3, <1>4 DEF UInv

LEMMA StepKeepsUniform ==
  ASSUME IInv, UInv, [Next]_vars
  PROVE  UInv'
<1>1. CASE Ask
  <2> System \in Sections /\ Pilots \subseteq Sections /\ System \notin Pilots
    BY PilotsAssumption DEF Sections, System
  <2> QED BY <1>1, IssueKeepsUniform
          DEF Ask, RequestInstall, RequestRestore, RequestConduit,
              GetSystemInfo, GetUserInfo, SetUserInfo, PilotKinds, SystemKinds
<1>2. CASE \E s \in CancelFrom, n \in Numbers : RemoveRequest(HandleOf(s, n))
  BY <1>2, RemoveRequestKeepsUniform
<1>3. CASE \E c \in Cradles, p \in Sections : SyncDevice(c, p)
  BY <1>3, SyncDeviceKeepsUniform
<1>4. CASE Serve
  BY <1>4, RunFileConduitKeepsUniform, ResumeConduitKeepsUniform,
     CompleteKeepsUniform, PurgeCompletedKeepsUniform, EndKeepsUniform DEF Serve
<1>5. CASE Crash
  BY <1>5, EndKeepsUniform
<1>6. CASE UNCHANGED vars
  <2>1. HandlesKept' /\ KindsKept' /\ UniformContiguous'
    BY <1>6, FileUnchanged DEF vars
  <2>2. WholeSection'
    BY <1>6 DEF vars, UInv, WholeSection, ListSection, Present, Held, Uniform
  <2> QED BY <2>1, <2>2 DEF UInv
<1> QED BY <1>1, <1>2, <1>3, <1>4, <1>5, <1>6 DEF Next

LEMMA UniformInvariance == Spec => []UInv
<1>1. IInv /\ UInv /\ [Next]_vars => UInv'
  BY StepKeepsUniform
<1> QED BY <1>1, InitUniform, Invariance, PTL DEF Spec

(* The section and the number that gpilot_daemon_remove_request takes out   *)
(* of a handle are those of the request it was given for if the handle fits *)
(* in 32 bits, and never those if it does not.                              *)
THEOREM HandlesDecodeCorrectly == Spec => []HandlesDecode
<1>1. UInv => HandlesDecode
  <2>1. \A s \in Sections : Present(s) \subseteq Numbers
    BY DEF Present
  <2> QED BY <2>1, HandleLeadsBack DEF UInv, HandlesKept, HandlesDecode
<1> QED BY <1>1, UniformInvariance, PTL

(* A section of requests of one kind, to which no cancelled handle leads,   *)
(* is emptied from its end: no request of it is ever left where             *)
(* gpc_queue_load_requests does not look.                                   *)
THEOREM UniformSectionsContiguous == Spec => []UniformContiguous
<1>1. UInv => UniformContiguous
  BY DEF UInv
<1> QED BY <1>1, UniformInvariance, PTL

-----------------------------------------------------------------------------
(* How often a request is signalled.  Every group of the file has a request *)
(* of its own, stored in that section; the one at the head of the list is   *)
(* the only one that has been signalled since the last crash, between the   *)
(* signal and its purge.                                                    *)

IdsKnown ==
  \A s \in Sections : \A n \in Present(s) :
    /\ group[s][n].id \in 1 .. issued
    /\ origin[group[s][n].id] = s

IdsDistinct ==
  \A s \in Sections : \A n, m \in Present(s) :
    group[s][n].id = group[s][m].id => n = m

FreshIds ==
  \A i \in Ids : i > issued => signals[i] = 0 /\ i \notin cancelled

AtHead(s, n) ==
  stage = "signalled" /\ s = ListSection /\ n \in Held(todo) /\ n = HeadNumber

SignalsFollow ==
  /\ \A s \in Sections : \A n \in Present(s) :
       signals[group[s][n].id] <= crashes \/ AtHead(s, n)
  /\ stage = "signalled" => signals[todo[HeadNumber].id] > 0

SInv ==
  /\ IdsKnown
  /\ IdsDistinct
  /\ FreshIds
  /\ SignalledOnce
  /\ SignalsFollow

(* The head of the list is the request the file has under its number. *)
LEMMA HeadInFile ==
  ASSUME IInv, SInv, Held(todo) # {}
  PROVE  /\ ListSection \in Sections
         /\ HeadNumber \in Present(ListSection)
         /\ group[ListSection][HeadNumber] = todo[HeadNumber]
         /\ todo[HeadNumber].id \in 1 .. issued
         /\ todo[HeadNumber].id \in Ids
         /\ origin[todo[HeadNumber].id] = ListSection
<1>1. ListSection \in Sections
  BY DEF IInv, TypeOK, ListSection, Sections
<1>2. HeadNumber \in Held(todo)
  BY HeadIsHighest
<1>3. /\ HeadNumber \in Present(ListSection)
      /\ group[ListSection][HeadNumber] = todo[HeadNumber]
  BY <1>2 DEF IInv, BatchIsLive, Present, Held
<1>4. todo[HeadNumber] \in Request
  BY <1>2 DEF IInv, TypeOK, Held
<1>5. todo[HeadNumber].id \in Ids
  BY <1>4 DEF Request
<1> QED BY <1>1, <1>3, <1>5 DEF SInv, IdsKnown

(* A synchronization step that neither signals nor touches the file.        *)
LEMMA QuietKeepsSignals ==
  ASSUME IInv, SInv,
         UNCHANGED <<numreq, group, issued, origin, signals, cancelled>>,
         crashes' = crashes, stage # "signalled", stage' # "signalled"
  PROVE  SInv'
<1>1. IdsKnown' /\ IdsDistinct' /\ FreshIds' /\ SignalledOnce'
  BY DEF SInv, IdsKnown, IdsDistinct, FreshIds, SignalledOnce, Present
<1>2. SignalsFollow'
  BY DEF SInv, SignalsFollow, AtHead, Present
<1> QED BY <1>1, <1>2 DEF SInv

(* Each crash allows one more signal of the request that was at the head.   *)
LEMMA CrashKeepsSignals ==
  ASSUME IInv, SInv, Crash
  PROVE  SInv'
<1>1. /\ UNCHANGED <<numreq, group, issued, origin, signals, cancelled>>
      /\ crashes' = crashes + 1 /\ stage' = "ready"
  BY DEF Crash, file
<1>2. crashes \in Nat /\ signals \in [Ids -> Nat]
  BY BoundsAssumption DEF IInv, TypeOK
<1>3. IdsKnown' /\ IdsDistinct' /\ FreshIds'
  BY <1>1 DEF SInv, IdsKnown, IdsDistinct, FreshIds, Present
<1>4. SignalledOnce'
  BY <1>1, <1>2 DEF SInv, SignalledOnce
<1>5. SignalsFollow'
  <2>1. ASSUME NEW s \in Sections, NEW n \in Present(s)
        PROVE  signals[group[s][n].id] <= crashes + 1
    <3>1. group[s][n] \in Request
      BY DEF IInv, TypeOK, Present
    <3>2. group[s][n].id \in Ids
      BY <3>1 DEF Request
    <3> QED BY <1>2, <3>2 DEF SInv, SignalledOnce
  <2> QED BY <1>1, <2>1 DEF SignalsFollow, Present
<1> QED BY <1>3, <1>4, <1>5 DEF SInv

(* A new request takes an id of its own. *)
LEMMA IssueKeepsSignals ==
  ASSUME IInv, SInv, NEW s \in Sections,
         NEW kind \in PilotKinds \cup SystemKinds, NEW flag \in BOOLEAN,
         NEW cradle \in Cradles \cup {NoCradle},
         Issue(s, kind, flag, cradle)
  PROVE  SInv'
<1> DEFINE num == numreq[s] + 1
           req == [kind |-> kind, flag |-> flag, cradle |-> cradle,
                   handle |-> HandleOf(s, num), id |-> issued + 1]
<1>1. /\ num \in Numbers
      /\ issued < MaxIssued
      /\ group' = [group EXCEPT ![s][num] = req]
      /\ issued' = issued + 1
      /\ origin' = [origin EXCEPT ![issued + 1] = s]
      /\ stage = "ready"
      /\ UNCHANGED <<stage, signals, cancelled, crashes>>
  BY DEF Issue, StoreRequest, IInv, ListShape, sync
<1>2. issued \in Nat /\ issued + 1 \in Ids /\ issued + 1 \in 1 .. issued'
      /\ \A i \in 1 .. issued : i \in 1 .. issued' /\ i # issued + 1
  BY <1>1, BoundsAssumption DEF IInv, TypeOK, Ids
<1>3. req.id = issued + 1
  OBVIOUS
<1> HIDE DEF req, num
<1>4. /\ group'[s][num] = req
      /\ \A t \in Sections, n \in Numbers :
           t # s \/ n # num => group'[t][n] = group[t][n]
  BY <1>1 DEF IInv, TypeOK
<1>5. ASSUME NEW t \in Sections, NEW n \in Numbers, n \in Present(t)'
      PROVE  \/ t = s /\ n = num
             \/ n \in Present(t) /\ group'[t][n] = group[t][n]
  BY <1>4, <1>5 DEF Present
<1>6. origin'[issued + 1] = s
      /\ \A i \in 1 .. issued : origin'[i] = origin[i]
  BY <1>1, <1>2 DEF IInv, TypeOK
<1>7. IdsKnown'
  BY <1>2, <1>3, <1>4, <1>5, <1>6 DEF SInv, IdsKnown, Present
<1>8. IdsDistinct'
  BY <1>2, <1>3, <1>4, <1>5 DEF SInv, IdsKnown, IdsDistinct, Present
<1>9. FreshIds' /\ SignalledOnce'
  BY <1>1, <1>2 DEF SInv, FreshIds, SignalledOnce, Ids
<1>10. SignalsFollow'
  <2>1. signals[issued + 1] = 0 /\ crashes \in Nat
    BY <1>2, BoundsAssumption DEF SInv, FreshIds, IInv, TypeOK
  <2>2. ASSUME NEW t \in Sections, NEW n \in Numbers, n \in Present(t)'
        PROVE  signals[group'[t][n].id] <= crashes
    <3>1. CASE t = s /\ n = num
      BY <1>3, <1>4, <2>1, <3>1
    <3>2. CASE n \in Present(t) /\ group'[t][n] = group[t][n]
      BY <1>1, <3>2 DEF SInv, SignalsFollow, AtHead
    <3> QED BY <1>5, <2>2, <3>1, <3>2
  <2> QED BY <1>1, <2>2 DEF SignalsFollow, Present
<1> QED BY <1>7, <1>8, <1>9, <1>10 DEF SInv

(* A purge leaves the other groups as they are. *)
LEMMA PurgeKeepsIds ==
  ASSUME IInv, SInv, NEW s \in Sections, NEW n \in Present(s),
         PurgeRequest(s, n), UNCHANGED <<issued, origin>>
  PROVE  /\ \A t \in Sections : \A m \in Present(t)' :
              /\ m \in Present(t)
              /\ group'[t][m] = group[t][m]
              /\ t = s => m # n
         /\ IdsKnown' /\ IdsDistinct'
<1>1. group' = [group EXCEPT ![s][n] = NoGroup]
  BY DEF PurgeRequest
<1>2. \A t \in Sections : \A m \in Present(t)' :
        /\ m \in Present(t)
        /\ group'[t][m] = group[t][m]
        /\ t = s => m # n
  BY <1>1 DEF IInv, TypeOK, Present
<1> QED BY <1>2 DEF SInv, IdsKnown, IdsDistinct

(* Nothing is loaded when a client cancels. *)
LEMMA RemoveRequestKeepsSignals ==
  ASSUME IInv, SInv, NEW h, RemoveRequest(h)
  PROVE  SInv'
<1> PICK s : s = SectionOfHandle(h)
  OBVIOUS
<1> PICK n : n = NumberOfHandle(h)
  OBVIOUS
<1>1. /\ stage = "ready"
      /\ s \in Sections
      /\ n \in Present(s)
      /\ PurgeRequest(s, n)
      /\ cancelled' = cancelled \cup {group[s][n].id}
      /\ UNCHANGED <<stage, issued, origin, signals, crashes>>
  BY DEF RemoveRequest, Present, sync, IInv, ListShape
<1>2. /\ IdsKnown' /\ IdsDistinct'
      /\ \A t \in Sections : \A m \in Present(t)' :
           m \in Present(t) /\ group'[t][m] = group[t][m]
  BY <1>1, PurgeKeepsIds
<1>3. group[s][n].id \in 1 .. issued /\ issued \in Nat
  BY <1>1, BoundsAssumption DEF SInv, IdsKnown, IInv, TypeOK
<1>4. FreshIds' /\ SignalledOnce'
  BY <1>1, <1>3 DEF SInv, FreshIds, SignalledOnce, Ids
<1>5. SignalsFollow'
  BY <1>1, <1>2 DEF SInv, SignalsFollow, AtHead
<1> QED BY <1>2, <1>4, <1>5 DEF SInv

(* The request that completes had been signalled at most once per crash, and*)
(* is now the one at the head that is.                                      *)
LEMMA CompleteKeepsSignals ==
  ASSUME IInv, SInv, Complete
  PROVE  SInv'
<1> PICK i : i = todo[HeadNumber].id
  OBVIOUS
<1>1. /\ Held(todo) # {}
      /\ stage # "signalled" /\ stage' = "signalled"
      /\ signals' = [signals EXCEPT ![i] = @ + 1]
      /\ UNCHANGED <<numreq, group, phase, todo, issued, origin, cancelled,
                     crashes>>
  BY DEF Complete, file
<1>2. /\ ListSection \in Sections
      /\ HeadNumber \in Present(ListSection)
      /\ group[ListSection][HeadNumber].id = i
      /\ i \in Ids /\ i \in 1 .. issued
      /\ origin[i] = ListSection
      /\ HeadNumber \in Held(todo)
  BY <1>1, HeadInFile, HeadIsHighest
<1>3. ListSection' = ListSection /\ HeadNumber' = HeadNumber
  <2>1. phase = "cradle" \/ user' = user
    BY <1>2 DEF Complete, IInv, ListShape, PilotKinds
  <2> QED BY <1>1, <2>1 DEF ListSection, HeadNumber, Held
<1>4. /\ signals \in [Ids -> Nat] /\ crashes \in Nat
      /\ signals'[i] = signals[i] + 1
      /\ \A j \in Ids : j # i => signals'[j] = signals[j]
  BY <1>1, <1>2, BoundsAssumption DEF IInv, TypeOK
<1>5. signals[i] <= crashes
  BY <1>1, <1>2 DEF SInv, SignalsFollow, AtHead
<1>6. IdsKnown' /\ IdsDistinct'
  BY <1>1 DEF SInv, IdsKnown, IdsDistinct, Present
<1>7. FreshIds'
  <2>1. issued \in Nat
    BY BoundsAssumption DEF IInv, TypeOK
  <2>2. ~ (i > issued)
    BY <1>2, <2>1
  <2> QED BY <1>1, <1>4, <2>2 DEF SInv, FreshIds
<1>8. SignalledOnce'
  BY <1>1, <1>4, <1>5 DEF SInv, SignalledOnce
<1>9. SignalsFollow'
  <2>1. ASSUME NEW t \in Sections, NEW n \in Present(t),
               ~ (t = ListSection /\ n = HeadNumber)
        PROVE  signals'[group[t][n].id] <= crashes
    <3>1. group[t][n].id # i
      BY <1>2, <2>1 DEF SInv, IdsKnown, IdsDistinct
    <3>2. group[t][n].id \in Ids
      <4>1. group[t][n] \in Request
        BY DEF IInv, TypeOK, Present
      <4> QED BY <4>1 DEF Request
    <3> QED BY <1>1, <1>4, <3>1, <3>2 DEF SInv, SignalsFollow, AtHead
  <2>2. \A t \in Sections : \A n \in Present(t)' :
          signals'[group'[t][n].id] <= crashes' \/ AtHead(t, n)'
    BY <1>1, <1>2, <1>3, <2>1 DEF AtHead, Present, Held
  <2>3. signals'[i] > 0 /\ (todo[HeadNumber].id)' = i
    BY <1>1, <1>2, <1>3, <1>4
  <2> QED BY <2>2, <2>3 DEF SignalsFollow
<1> QED BY <1>6, <1>7, <1>8, <1>9 DEF SInv

(* The request that was signalled leaves the file with its purge. *)
LEMMA PurgeCompletedKeepsSignals ==
  ASSUME IInv, SInv, PurgeCompleted
  PROVE  SInv'
<1> PICK s : s = ListSection
  OBVIOUS
<1> PICK n : n = HeadNumber
  OBVIOUS
<1>1. /\ Held(todo) # {}
      /\ PurgeRequest(s, n)
      /\ stage' = "ready"
      /\ UNCHANGED <<issued, origin, signals, cancelled, crashes>>
  BY DEF PurgeCompleted, past, IInv, ListShape
<1>2. s \in Sections /\ n \in Present(s)
  BY <1>1, HeadInFile
<1>3. /\ IdsKnown' /\ IdsDistinct'
      /\ \A t \in Sections : \A m \in Present(t)' :
           /\ m \in Present(t)
           /\ group'[t][m] = group[t][m]
           /\ t = s => m # n
  BY <1>1, <1>2, PurgeKeepsIds
<1>4. FreshIds' /\ SignalledOnce'
  BY <1>1 DEF SInv, FreshIds, SignalledOnce
<1>5. SignalsFollow'
  BY <1>1, <1>3 DEF SInv, SignalsFollow, AtHead
<1> QED BY <1>3, <1>4, <1>5 DEF SInv

LEMMA InitSignals == Init => SInv
<1> SUFFICES ASSUME Init PROVE SInv
  OBVIOUS
<1>1. \A s \in Sections : Present(s) = {}
  BY DEF Init, Present, Empty
<1>2. IdsKnown /\ IdsDistinct
  BY <1>1 DEF IdsKnown, IdsDistinct
<1>3. FreshIds /\ SignalledOnce /\ SignalsFollow
  BY <1>1 DEF Init, FreshIds, SignalledOnce, SignalsFollow
<1> QED BY <1>2, <1>3 DEF SInv

LEMMA StepKeepsSignals == IInv /\ SInv /\ [Next]_vars => SInv'
<1> SUFFICES ASSUME IInv, SInv, [Next]_vars PROVE SInv'
  OBVIOUS
<1>1. CASE Ask
  <2> System \in Sections /\ Pilots \subseteq Sections
    BY DEF Sections
  <2> QED BY <1>1, IssueKeepsSignals
          DEF Ask, RequestInstall, RequestRestore, RequestConduit,
              GetSystemInfo, GetUserInfo, SetUserInfo, PilotKinds, SystemKinds
<1>2. CASE \E s \in CancelFrom, n \in Numbers : RemoveRequest(HandleOf(s, n))
  BY <1>2, RemoveRequestKeepsSignals
<1>3. CASE \E c \in Cradles, p \in Sections : SyncDevice(c, p)
  <2>1. /\ UNCHANGED <<numreq, group, issued, origin, signals, cancelled, crashes>>
        /\ stage' = "ready" /\ stage = "ready"
    BY <1>3 DEF SyncDevice, file, past, IInv, ListShape
  <2> QED BY <2>1, QuietKeepsSignals
<1>4. CASE RunFileConduit \/ ResumeConduit \/ EndCradle \/ EndRestore
           \/ EndConduit \/ EndInstall
  <2>1. UNCHANGED <<numreq, group, issued, origin, signals, cancelled, crashes>>
    BY <1>4 DEF RunFileConduit, ResumeConduit, EndCradle, EndRestore,
                EndConduit, EndInstall, file, past
  <2>2. stage = "ready" /\ stage' \in {"ready", "resumed"}
    BY <1>4 DEF RunFileConduit, ResumeConduit, EndCradle, EndRestore,
                EndConduit, EndInstall, ListDone, IInv, ListShape
  <2> QED BY <2>1, <2>2, QuietKeepsSignals
<1>5. CASE Complete
  BY <1>5, CompleteKeepsSignals
<1>6. CASE PurgeCompleted
  BY <1>6, PurgeCompletedKeepsSignals
<1>7. CASE Crash
  BY <1>7, CrashKeepsSignals
<1>8. CASE UNCHANGED vars
  BY <1>8 DEF vars, SInv, IdsKnown, IdsDistinct, FreshIds, SignalledOnce,
              SignalsFollow, AtHead, Present, ListSection, Held, HeadNumber
<1> QED BY <1>1, <1>2, <1>3, <1>4, <1>5, <1>6, <1>7, <1>8 DEF Next, Serve

LEMMA SignalsInvariance == Spec => []SInv
<1> QED BY InitSignals, StepKeepsSignals, Invariance, PTL DEF Spec

(* A request is answered once, and once more for each crash at most.        *)
THEOREM AnsweredOnce == Spec => []SignalledOnce
<1>1. SInv => SignalledOnce
  BY DEF SInv
<1> QED BY <1>1, SignalsInvariance, PTL

-----------------------------------------------------------------------------
(* The queue implements PendingRequests, as far as its uniform sections go. *)

(* No request of a uniform section is ever cancelled. *)
UniformKept == \A i \in cancelled : i \in 1 .. issued /\ ~ Uniform(origin[i])

(* A cancelled request is one of a section to which cancelled handles lead. *)
LEMMA StepKeepsUniformKept ==
  ASSUME IInv, SInv, UniformKept, [Next]_vars
  PROVE  UniformKept'
<1>1. CASE \E s \in CancelFrom, n \in Numbers : RemoveRequest(HandleOf(s, n))
  <2> PICK c \in CancelFrom, i \in Numbers : RemoveRequest(HandleOf(c, i))
    BY <1>1
  <2> DEFINE s == SectionOfHandle(HandleOf(c, i))
             n == NumberOfHandle(HandleOf(c, i))
  <2>1. s \in Sections /\ ~ Uniform(s)
    BY CancelIsElsewhere DEF RemoveRequest
  <2>2. /\ n \in Present(s)
        /\ cancelled' = cancelled \cup {group[s][n].id}
        /\ UNCHANGED <<issued, origin>>
    BY DEF RemoveRequest, Present
  <2> HIDE DEF s, n
  <2>3. group[s][n].id \in 1 .. issued /\ origin[group[s][n].id] = s
    BY <2>1, <2>2 DEF SInv, IdsKnown
  <2> QED BY <2>1, <2>2, <2>3 DEF UniformKept, Uniform
<1>2. CASE \E s \in Sections : \E kind, flag, cradle : Issue(s, kind, flag, cradle)
  <2> PICK s, kind, flag, cradle : s \in Sections /\ Issue(s, kind, flag, cradle)
    BY <1>2
  <2>0. /\ issued < MaxIssued /\ issued' = issued + 1
        /\ origin' = [origin EXCEPT ![issued + 1] = s]
        /\ cancelled' = cancelled
    BY DEF Issue, StoreRequest
  <2>1. issued \in Nat
    BY BoundsAssumption DEF IInv, TypeOK
  <2>2. \A i \in 1 .. issued : i \in 1 .. issued' /\ i # issued + 1 /\ i \in Ids
    BY <2>0, <2>1, BoundsAssumption DEF Ids
  <2>3. \A i \in 1 .. issued : origin'[i] = origin[i]
    BY <2>0, <2>2 DEF IInv, TypeOK
  <2> QED BY <2>0, <2>2, <2>3 DEF UniformKept, Uniform
<1>3. CASE UNCHANGED <<issued, origin, cancelled>>
  BY <1>3 DEF UniformKept, Uniform
<1>4. Ask => \E s \in Sections : \E kind, flag, cradle : Issue(s, kind, flag, cradle)
  BY DEF Ask, RequestInstall, RequestRestore, RequestConduit,
         GetSystemInfo, GetUserInfo, SetUserInfo, Sections
<1>5. (\E c \in Cradles, p \in Sections : SyncDevice(c, p)) \/ Serve \/ Crash
        \/ UNCHANGED vars
      => UNCHANGED <<issued, origin, cancelled>>
  BY DEF SyncDevice, Serve, RunFileConduit, ResumeConduit, Complete,
         PurgeCompleted, EndCradle, EndRestore, EndConduit, EndInstall, Crash,
         past, vars
<1> QED BY <1>1, <1>2, <1>3, <1>4, <1>5 DEF Next

(* What the file holds of the uniform sections, read as PendingRequests     *)
(* reads it.                                                                *)
Pending == {i \in UniformIds :
              \E n \in Loadable(origin[i]) : group[origin[i]][n].id = i}
Answered == {i \in UniformIds : signals[i] > 0}
Withdrawn == cancelled \cap UniformIds

(* Everything a uniform section holds is found by the next load. *)
InUniform == {i \in Ids : \E s \in Sections : \E n \in Present(s) :
                Uniform(s) /\ group[s][n].id = i}

LEMMA PendingIsPresent == IInv /\ UInv /\ SInv => Pending = InUniform
<1> SUFFICES ASSUME IInv, UInv, SInv PROVE Pending = InUniform
  OBVIOUS
<1>1. ASSUME NEW s \in Sections, NEW n \in Present(s), Uniform(s)
      PROVE  n \in Loadable(s)
  BY <1>1 DEF UInv, UniformContiguous, Loadable, IInv, TypeOK
<1>2. \A j \in UniformIds : j \in Ids /\ origin[j] \in Sections
  BY BoundsAssumption DEF UniformIds, IInv, TypeOK, Ids
<1>3. \A s : Loadable(s) \subseteq Present(s)
  BY DEF Loadable
<1>4. ASSUME NEW s \in Sections, NEW n \in Present(s), Uniform(s)
      PROVE  /\ group[s][n].id \in UniformIds
             /\ origin[group[s][n].id] = s
  BY <1>4 DEF SInv, IdsKnown, UniformIds
<1>5. ASSUME NEW i \in Pending
      PROVE  i \in InUniform
  BY <1>2, <1>3, <1>5 DEF Pending, InUniform, UniformIds
<1>6. ASSUME NEW s \in Sections, NEW n \in Present(s), Uniform(s)
      PROVE  group[s][n].id \in Pending
  BY <1>1, <1>4, <1>6 DEF Pending
<1> QED BY <1>5, <1>6 DEF InUniform

LEMMA PendingIsPresentNext ==
  IInv' /\ UInv' /\ SInv' => Pending' = InUniform'
<1>1. (IInv /\ UInv /\ SInv => Pending = InUniform)'
  BY PendingIsPresent, PTL
<1> QED BY <1>1

RInv == IInv /\ UInv /\ SInv /\ UniformKept

(* Nothing of a uniform section is withdrawn. *)
LEMMA NothingWithdrawn == UniformKept => Withdrawn = {}
BY DEF UniformKept, Withdrawn, UniformIds

LEMMA NothingWithdrawnNext == UniformKept' => Withdrawn' = {}
<1>1. (UniformKept => Withdrawn = {})'
  BY NothingWithdrawn, PTL
<1> QED BY <1>1

(* A new request of a uniform section is queued; another is not seen. *)
LEMMA IssueImplements ==
  ASSUME RInv, RInv', NEW s \in Sections,
         NEW kind \in PilotKinds \cup SystemKinds, NEW flag \in BOOLEAN,
         NEW cradle \in Cradles \cup {NoCradle},
         Issue(s, kind, flag, cradle)
  PROVE  \/ UNCHANGED <<Pending, Answered, Withdrawn>>
         \/ \E i \in Ids :
              /\ i \notin Pending \cup Answered \cup Withdrawn
              /\ Pending' = Pending \cup {i}
              /\ UNCHANGED <<Answered, Withdrawn>>
<1> PICK num : num = numreq[s] + 1
  OBVIOUS
<1> PICK req : req = [kind |-> kind, flag |-> flag, cradle |-> cradle,
                      handle |-> HandleOf(s, num), id |-> issued + 1]
  OBVIOUS
<1> PICK i : i = issued + 1
  OBVIOUS
<1>1. /\ num \in Numbers /\ issued < MaxIssued /\ issued' = i
      /\ group' = [group EXCEPT ![s][num] = req]
      /\ origin' = [origin EXCEPT ![i] = s]
      /\ UNCHANGED <<signals, cancelled>>
  BY DEF Issue, StoreRequest
<1>2. req.id = i
  OBVIOUS
<1>3. /\ issued \in Nat /\ i \in Ids /\ i \notin 1 .. issued
      /\ 1 .. i = (1 .. issued) \cup {i}
      /\ signals[i] = 0
  <2>1. issued \in Nat /\ i \in Ids /\ i > issued
    BY <1>1, BoundsAssumption DEF RInv, IInv, TypeOK, Ids
  <2>2. signals[i] = 0
    BY <2>1 DEF RInv, SInv, FreshIds
  <2> QED BY <2>1, <2>2
<1>4. /\ origin'[i] = s
      /\ \A j \in 1 .. issued : origin'[j] = origin[j]
  <2>1. 1 .. issued \subseteq Ids
    BY <1>1, <1>3, BoundsAssumption DEF Ids
  <2> QED BY <1>1, <1>3, <2>1 DEF RInv, IInv, TypeOK
<1>5. UniformIds' = UniformIds \cup (IF Uniform(s) THEN {i} ELSE {})
  BY <1>1, <1>3, <1>4 DEF UniformIds, Uniform
<1>6. Answered' = Answered
  BY <1>1, <1>3, <1>5 DEF Answered, UniformIds
<1>7. Withdrawn = {} /\ Withdrawn' = {}
  BY NothingWithdrawn, NothingWithdrawnNext DEF RInv
<1>8. Pending = InUniform /\ Pending' = InUniform'
  BY PendingIsPresent, PendingIsPresentNext DEF RInv
<1>9. i \notin Pending /\ i \notin Answered
  BY <1>3 DEF Pending, Answered, UniformIds
<1>10. /\ \A t \in Sections \ {s} :
            Present(t)' = Present(t) /\ group'[t] = group[t]
       /\ \A n \in Numbers \ {num} : group'[s][n] = group[s][n]
       /\ group'[s][num] = req
       /\ req # NoGroup
  <2>1. req \in Request
    BY <1>1, <1>3, HandleIsNatural DEF Request
  <2>2. req # NoGroup
    BY <2>1, NoGroupAssumption
  <2> QED BY <1>1, <2>2 DEF RInv, IInv, TypeOK, Present
<1>11. CASE Uniform(s)
  <2>1. num \notin Present(s)
    <3>1. Present(s) = 1 .. numreq[s] /\ numreq[s] \in Nat
      BY <1>11 DEF RInv, UInv, UniformContiguous, IInv, TypeOK
    <3> QED BY <3>1
  <2>2. /\ num \in Present(s)' /\ group'[s][num].id = i
        /\ \A n \in Present(s) : /\ n \in Present(s)'
                                 /\ group'[s][n] = group[s][n]
        /\ \A n \in Present(s)' : n = num \/ (/\ n \in Present(s)
                                             /\ group'[s][n] = group[s][n])
    BY <1>1, <1>2, <1>10, <2>1 DEF Present
  <2>3. \A j \in InUniform : j \in InUniform'
    <3> TAKE j \in InUniform
    <3>1. PICK t \in Sections : \E n \in Present(t) :
                                  Uniform(t) /\ group[t][n].id = j
      BY DEF InUniform
    <3>2. PICK n \in Present(t) : Uniform(t) /\ group[t][n].id = j
      BY <3>1
    <3>3. n \in Present(t)' /\ group'[t][n] = group[t][n]
      BY <1>10, <2>2
    <3>4. j \in Ids
      BY DEF InUniform
    <3> QED BY <3>2, <3>3, <3>4 DEF InUniform, Uniform
  <2>4. i \in InUniform'
    BY <1>3, <1>11, <2>2 DEF InUniform, Uniform
  <2>5. ASSUME NEW j \in InUniform' PROVE j \in InUniform \cup {i}
    <3>1. PICK t \in Sections : \E n \in Present(t)' :
                                  Uniform(t) /\ group'[t][n].id = j
      BY <2>5 DEF InUniform, Uniform
    <3>2. PICK n \in Present(t)' : Uniform(t) /\ group'[t][n].id = j
      BY <3>1
    <3>3. (t = s /\ n = num) \/ (n \in Present(t) /\ group'[t][n] = group[t][n])
      BY <1>10, <2>2
    <3>4. j \in Ids
      BY <2>5 DEF InUniform
    <3> QED BY <2>2, <3>2, <3>3, <3>4 DEF InUniform
  <2>6. InUniform' = InUniform \cup {i}
    BY <2>3, <2>4, <2>5
  <2> QED BY <1>3, <1>6, <1>7, <1>8, <1>9, <2>6
<1>12. CASE ~ Uniform(s)
  <2>1. InUniform' = InUniform
    BY <1>10, <1>12 DEF InUniform, Uniform
  <2> QED BY <1>6, <1>7, <1>8, <2>1
<1> QED BY <1>11, <1>12

(* The answer of a request of a uniform section, which is pending. *)
LEMMA CompleteImplements ==
  ASSUME RInv, RInv', Complete
  PROVE  \/ UNCHANGED <<Pending, Answered, Withdrawn>>
         \/ \E i \in Ids :
              /\ i \in Pending
              /\ Answered' = Answered \cup {i}
              /\ UNCHANGED <<Pending, Withdrawn>>
<1> PICK i : i = todo[HeadNumber].id
  OBVIOUS
<1>1. /\ Held(todo) # {}
      /\ signals' = [signals EXCEPT ![i] = @ + 1]
      /\ UNCHANGED <<numreq, group, issued, origin, cancelled>>
  BY DEF Complete, file
<1>2. /\ ListSection \in Sections
      /\ HeadNumber \in Present(ListSection)
      /\ group[ListSection][HeadNumber].id = i
      /\ i \in Ids /\ i \in 1 .. issued
      /\ origin[i] = ListSection
  BY <1>1, HeadInFile DEF RInv
<1>3. signals \in [Ids -> Nat] /\ signals'[i] > 0
      /\ \A j \in Ids : j # i => signals'[j] = signals[j]
  BY <1>1, <1>2 DEF RInv, IInv, TypeOK
<1>4. UniformIds' = UniformIds /\ UniformIds \subseteq Ids
  BY <1>1, BoundsAssumption DEF UniformIds, Uniform, RInv, IInv, TypeOK, Ids
<1>5. Pending' = Pending /\ Withdrawn' = Withdrawn
  BY <1>1, <1>4 DEF Pending, Withdrawn, Loadable, Present
<1>6. CASE Uniform(ListSection)
  <2>1. i \in UniformIds
    BY <1>2, <1>6 DEF UniformIds
  <2>2. Answered' = Answered \cup {i}
    BY <1>3, <1>4, <2>1 DEF Answered
  <2>3. i \in Pending
    BY <1>2, <1>6, PendingIsPresent DEF InUniform, RInv
  <2> QED BY <1>2, <1>5, <2>2, <2>3
<1>7. CASE ~ Uniform(ListSection)
  <2>1. i \notin UniformIds
    BY <1>2, <1>7 DEF UniformIds
  <2>2. Answered' = Answered
    BY <1>3, <1>4, <2>1 DEF Answered
  <2> QED BY <1>5, <2>2
<1> QED BY <1>6, <1>7

(* Only a request that has been answered is dropped from the queue. *)
LEMMA PurgeCompletedImplements ==
  ASSUME RInv, RInv', PurgeCompleted
  PROVE  \/ UNCHANGED <<Pending, Answered, Withdrawn>>
         \/ \E i \in Ids :
              /\ i \in Pending \cap Answered
              /\ Pending' = Pending \ {i}
              /\ UNCHANGED <<Answered, Withdrawn>>
<1> PICK s : s = ListSection
  OBVIOUS
<1> PICK n : n = HeadNumber
  OBVIOUS
<1> PICK i : i = todo[HeadNumber].id
  OBVIOUS
<1>1. /\ Held(todo) # {} /\ stage = "signalled"
      /\ PurgeRequest(s, n)
      /\ UNCHANGED <<issued, origin, signals, cancelled>>
  BY DEF PurgeCompleted, past, RInv, IInv, ListShape
<1>2. /\ s \in Sections /\ n \in Present(s)
      /\ group[s][n].id = i
      /\ i \in Ids /\ i \in 1 .. issued
      /\ origin[i] = s
      /\ signals[i] > 0
  BY <1>1, HeadInFile DEF RInv, SInv, SignalsFollow
<1>3. \A t \in Sections : \A m \in Numbers :
        /\ t # s \/ m # n => group'[t][m] = group[t][m]
        /\ t = s /\ m = n => group'[t][m] = NoGroup
  BY <1>1, <1>2 DEF PurgeRequest, RInv, IInv, TypeOK, Present
<1>4. \A t \in Sections : \A m \in Present(t)' :
        m \in Present(t) /\ group'[t][m] = group[t][m] /\ ~ (t = s /\ m = n)
  BY <1>3 DEF Present
<1>5. \A t \in Sections : \A m \in Present(t) :
        t # s \/ m # n => m \in Present(t)' /\ group'[t][m] = group[t][m]
  BY <1>3 DEF Present
<1>6. UniformIds' = UniformIds /\ Answered' = Answered /\ Withdrawn' = Withdrawn
  BY <1>1 DEF UniformIds, Uniform, Answered, Withdrawn
<1>7. Pending = InUniform /\ Pending' = InUniform'
  BY PendingIsPresent, PendingIsPresentNext DEF RInv
<1>8. \A t \in Sections : \A m \in Present(t) :
        group[t][m].id = i => t = s /\ m = n
  BY <1>2 DEF RInv, SInv, IdsKnown, IdsDistinct
<1>9. CASE Uniform(s)
  <2>1. i \in InUniform
    BY <1>2, <1>9 DEF InUniform
  <2>2. i \in Answered
    BY <1>2, <1>9 DEF Answered, UniformIds
  <2>3. InUniform' = InUniform \ {i}
    <3>1. ASSUME NEW j \in InUniform' PROVE j \in InUniform /\ j # i
      <4>1. PICK t \in Sections : \E m \in Present(t)' :
                                    Uniform(t) /\ group'[t][m].id = j
        BY <3>1 DEF InUniform, Uniform
      <4>2. PICK m \in Present(t)' : Uniform(t) /\ group'[t][m].id = j
        BY <4>1
      <4>3. m \in Present(t) /\ group[t][m].id = j /\ ~ (t = s /\ m = n)
        BY <1>4, <4>2
      <4>4. j \in Ids
        BY <3>1 DEF InUniform
      <4> QED BY <1>8, <4>2, <4>3, <4>4 DEF InUniform
    <3>2. ASSUME NEW j \in InUniform, j # i PROVE j \in InUniform'
      <4>1. PICK t \in Sections : \E m \in Present(t) :
                                    Uniform(t) /\ group[t][m].id = j
        BY DEF InUniform
      <4>2. PICK m \in Present(t) : Uniform(t) /\ group[t][m].id = j
        BY <4>1
      <4>3. m \in Present(t)' /\ group'[t][m].id = j
        BY <1>2, <1>5, <3>2, <4>2
      <4>4. j \in Ids
        BY DEF InUniform
      <4> QED BY <4>2, <4>3, <4>4 DEF InUniform, Uniform
    <3> QED BY <3>1, <3>2
  <2> QED BY <1>2, <1>6, <1>7, <2>1, <2>2, <2>3
<1>10. CASE ~ Uniform(s)
  <2>1. InUniform' = InUniform
    BY <1>4, <1>5, <1>10 DEF InUniform, Uniform
  <2> QED BY <1>6, <1>7, <2>1
<1> QED BY <1>9, <1>10

(* What is cancelled is in a section that is not uniform. *)
LEMMA RemoveRequestImplements ==
  ASSUME RInv, RInv', NEW c \in CancelFrom, NEW i \in Numbers,
         RemoveRequest(HandleOf(c, i))
  PROVE  UNCHANGED <<Pending, Answered, Withdrawn>>
<1> DEFINE s == SectionOfHandle(HandleOf(c, i))
           n == NumberOfHandle(HandleOf(c, i))
<1>1. s \in Sections /\ ~ Uniform(s)
  BY CancelIsElsewhere DEF RemoveRequest
<1>2. /\ group' = [group EXCEPT ![s][n] = NoGroup]
      /\ UNCHANGED <<issued, origin, signals>>
  BY DEF RemoveRequest, PurgeRequest
<1> HIDE DEF s, n
<1>3. \A t \in Sections \ {s} : Present(t)' = Present(t) /\ group'[t] = group[t]
  BY <1>1, <1>2 DEF RInv, IInv, TypeOK, Present
<1>4. Answered' = Answered
  BY <1>2 DEF Answered, UniformIds, Uniform
<1>5. Withdrawn = {} /\ Withdrawn' = {}
  BY NothingWithdrawn, NothingWithdrawnNext DEF RInv
<1>6. InUniform' = InUniform
  BY <1>1, <1>3 DEF InUniform, Uniform
<1> QED BY <1>4, <1>5, <1>6, PendingIsPresent, PendingIsPresentNext DEF RInv

(* A step that neither signals nor touches the file is not seen. *)
LEMMA QuietImplements ==
  ASSUME UNCHANGED <<numreq, group, issued, origin, signals, cancelled>>
  PROVE  UNCHANGED <<Pending, Answered, Withdrawn>>
BY DEF Pending, Answered, Withdrawn, UniformIds, Uniform, Loadable, Present

(* Every step is one of PendingRequests, or a stutter. *)
LEMMA StepImplements ==
  ASSUME RInv, RInv', [Next]_vars
  PROVE  [Abstract!Next]_(Abstract!vars)
<1>2. CASE Ask
  <2> System \in Sections /\ Pilots \subseteq Sections
    BY DEF Sections
  <2>1. PICK s \in Sections, kind \in PilotKinds \cup SystemKinds,
             flag \in BOOLEAN, cradle \in Cradles \cup {NoCradle} :
          Issue(s, kind, flag, cradle)
    BY <1>2 DEF Ask, RequestInstall, RequestRestore, RequestConduit,
              GetSystemInfo, GetUserInfo, SetUserInfo, PilotKinds, SystemKinds
  <2> QED BY <2>1, IssueImplements
          DEF Abstract!Next, Abstract!Queue, Abstract!vars,
              Pending, Answered, Withdrawn
<1>3. CASE \E s \in CancelFrom, n \in Numbers : RemoveRequest(HandleOf(s, n))
  BY <1>3, RemoveRequestImplements
     DEF Abstract!vars, Pending, Answered, Withdrawn
<1>4. CASE Complete
  BY <1>4, CompleteImplements
     DEF Abstract!Next, Abstract!Answer, Abstract!vars,
         Pending, Answered, Withdrawn
<1>5. CASE PurgeCompleted
  BY <1>5, PurgeCompletedImplements
     DEF Abstract!Next, Abstract!Drop, Abstract!vars,
         Pending, Answered, Withdrawn
<1>6. CASE \/ \E c \in Cradles, p \in Sections : SyncDevice(c, p)
           \/ RunFileConduit \/ ResumeConduit \/ EndCradle \/ EndRestore
           \/ EndConduit \/ EndInstall \/ Crash
  <2>1. UNCHANGED <<numreq, group, issued, origin, signals, cancelled>>
    BY <1>6 DEF SyncDevice, RunFileConduit, ResumeConduit, EndCradle,
                EndRestore, EndConduit, EndInstall, Crash, file, past
  <2> QED BY <2>1, QuietImplements
          DEF Abstract!vars, Pending, Answered, Withdrawn
<1>7. CASE UNCHANGED vars
  BY <1>7, QuietImplements DEF vars, Abstract!vars, Pending, Answered, Withdrawn
<1> QED BY <1>2, <1>3, <1>4, <1>5, <1>6, <1>7 DEF Next, Serve

LEMMA InitImplements == Init => UniformKept /\ Abstract!Init
<1> SUFFICES ASSUME Init PROVE UniformKept /\ Abstract!Init
  OBVIOUS
<1>1. UniformIds = {} /\ cancelled = {}
  BY DEF Init, UniformIds
<1> QED BY <1>1 DEF UniformKept, Abstract!Init

(* The queue implements PendingRequests for the requests of the uniform     *)
(* sections: none leaves the queue before it is answered, whatever the      *)
(* other sections hold and wherever gpilotd crashes.                        *)
THEOREM QueueImplementsPending == Spec => ImplementsPending
<1>1. Spec => []UInv
  BY UniformInvariance
<1>2. IInv /\ SInv /\ UniformKept /\ [Next]_vars => UniformKept'
  BY StepKeepsUniformKept
<1>3. RInv <=> IInv /\ UInv /\ SInv /\ UniformKept
  BY DEF RInv
<1>4. Spec => []RInv
  BY <1>1, <1>2, <1>3, InitImplements, Invariance, SignalsInvariance, PTL DEF Spec
<1>5. RInv /\ RInv' /\ [Next]_vars => [Abstract!Next]_(Abstract!vars)
  BY StepImplements
<1>6. Init => Abstract!Init
  BY InitImplements
<1>7. Spec => Init /\ [][Next]_vars
  BY DEF Spec
<1>8. Spec => Abstract!Init /\ [][Abstract!Next]_(Abstract!vars)
  BY <1>4, <1>5, <1>6, <1>7, PTL
<1> QED BY <1>8 DEF ImplementsPending, Abstract!Spec
=============================================================================
