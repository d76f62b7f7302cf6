--------------------------- MODULE EdsPairingProofs ---------------------------
(***************************************************************************)
(* What an EDS conduit pairs with what, for any number of items and any sets *)
(* of ids, uids and sources:                                                 *)
(*   - the map is of the source that last_uri names (MapOfLastSource), by    *)
(*     the invariant Located;                                                *)
(*   - what is archived stays marked (ArchivedIsRemembered), by Remembered;  *)
(*   - a synchronization leaves no object without a record that holds its    *)
(*     item (EverythingPaired), by PairsAgree - items of objects and records *)
(*     never change but by being given new ids - and Covered - an object is  *)
(*     still to be treated, or need not be sent, or is paired;               *)
(*   - without a wound nothing is there twice (NoDuplicates), by Unwounded:  *)
(*     whoever holds the same item on the two sides is paired, what is split *)
(*     goes on both sides, and what the map marks is what the PDA has        *)
(*     archived.                                                             *)
(***************************************************************************)
EXTENDS EdsConduitProofs

(* Uids that are in no other source than s.                                 *)
OfSource(S, s, st) == \A t \in Sources \ {s} : \A u \in S : u \notin DOMAIN st[t]

(* No end of a session was cut between the two files, and no settings window *)
(* wrote an older last_uri.                                                 *)
Sound == wounds \cap {"half saved", "settings"} = {}

(* Where the uids of the file, of what is listed and of the map come from.  *)
Located ==
  /\ conf.last = "none" => DOMAIN file = {}
  /\ phase = "save" => conf.last # "none"
  /\ phase = "loaded" /\ ses.cfg.last = "none" => DOMAIN file = {}
  /\ phase # "idle" => OfSource(DOMAIN ses.listed, ses.cfg.source, store)
  /\ Sound /\ conf.last \in Sources /\ phase # "save" => OfSource(DOMAIN file, conf.last, store)
  /\ Sound /\ phase = "loaded" /\ ses.cfg.last \in Sources
       => OfSource(DOMAIN file, ses.cfg.last, store)
  /\ Sound /\ phase # "idle" => OfSource(DOMAIN ses.map.uids, ses.cfg.source, store)
  /\ Sound /\ phase = "save" /\ conf.last \in Sources => conf.last = ses.cfg.source

(* What comes into a source in a step has a uid that nobody had before.     *)
Fresh == \A s \in Sources : \A u \in DOMAIN store'[s] :
           u \in DOMAIN store[s] \/ (u \in Nat /\ uidsUsed < u)

(* Uids of one source stay in no other, as long as steps give objects new   *)
(* uids only.                                                               *)
LEMMA StaysOfSource ==
  ASSUME Fresh, uidsUsed \in Nat, NEW S, NEW s, OfSource(S, s, store),
         \A u \in S : u \in Nat /\ u <= uidsUsed
  PROVE  OfSource(S, s, store')
BY DEF OfSource, Fresh

(* Uids of the file, and of a session.                                      *)
LEMMA UidFacts ==
  ASSUME TInv
  PROVE  /\ uidsUsed \in Nat
         /\ \A u \in DOMAIN file : u \in Nat /\ u <= uidsUsed
         /\ \A s \in Sources : \A u \in DOMAIN store[s] : u \in Nat /\ u <= uidsUsed
         /\ phase # "idle" =>
              /\ \A u \in DOMAIN ses.listed : u \in Nat /\ u <= uidsUsed
              /\ \A u \in DOMAIN ses.map.uids : u \in Nat /\ u <= uidsUsed
              /\ ses.cfg.source \in Sources
<1>1. TypeOK /\ Handed
  BY DEF TInv
<1>2. \A u \in Uids : u \in Nat
  BY <1>1, Counters
<1>3. DOMAIN file \subseteq Uids
  BY DEF TInv, IInv, GoodFile
<1>4. phase # "idle" => DOMAIN ses.map.uids \subseteq Uids
  BY InverseFacts DEF TInv, IInv, GoodSession
<1> QED BY <1>1, <1>2, <1>3, <1>4, Counters, StoreFacts, SessionFacts DEF Handed

(* A step that leaves the session in its place, and file and key file alone. *)
LEMMA LocatedInSession ==
  ASSUME TInv, Located, Fresh, phase # "idle", phase' = phase, UNCHANGED <<file, conf>>,
         wounds \subseteq wounds', ses'.cfg = ses.cfg,
         ses'.listed = ses.listed,
         Sound => OfSource(DOMAIN ses'.map.uids, ses.cfg.source, store')
  PROVE  Located'
<1>1. Sound' => Sound
  BY DEF Sound
<1>2. /\ OfSource(DOMAIN ses.listed, ses.cfg.source, store')
      /\ \A s : OfSource(DOMAIN file, s, store) => OfSource(DOMAIN file, s, store')
  BY UidFacts, StaysOfSource DEF Located
<1> QED BY <1>1, <1>2 DEF Located

(* A handler adds to the map only what it adds to the source of its         *)
(* configuration.                                                           *)
LEMMA LocatedHandler ==
  ASSUME TInv, Located, Handler
  PROVE  Located'
<1>1. /\ phase # "idle" /\ phase' = phase /\ UNCHANGED <<file, conf, wounds>> /\ TypeOK
  BY DEF Handler, InHandler, TInv
<1>2. /\ uidsUsed \in Nat /\ ses.cfg.source \in Sources
      /\ \A u \in DOMAIN ses.map.uids : u \in Nat /\ u <= uidsUsed
      /\ \A s \in Sources : \A u \in DOMAIN store[s] : u \in Nat /\ u <= uidsUsed
  BY <1>1, UidFacts
<1>3. ASSUME NEW w, NEW M, NEW C, NEW Q, NEW T, Lesser(w, M, C, Q, T)
      PROVE  Located'
  <2>1. /\ ses'.cfg = ses.cfg /\ ses'.listed = ses.listed /\ ses'.map = M
        /\ DOMAIN M.uids \subseteq DOMAIN ses.map.uids
    BY <1>1, <1>3, HandsFields DEF Lesser
  <2>2. Fresh
    BY <1>1, <1>3, StoreLess DEF Lesser, Fresh
  <2>3. Sound => OfSource(DOMAIN M.uids, ses.cfg.source, store')
    <3>1. Sound => OfSource(DOMAIN M.uids, ses.cfg.source, store)
      BY <1>1, <2>1 DEF Located, OfSource
    <3> QED BY <1>2, <2>1, <2>2, <3>1, StaysOfSource
  <2> QED BY <1>1, <2>1, <2>2, <2>3, LocatedInSession
<1>4. ASSUME NEW p \in DOMAIN pda, NEW M, Added(p, M, ses.queue)
      PROVE  Located'
  <2>1. /\ ses'.cfg = ses.cfg /\ ses'.listed = ses.listed /\ ses'.map = M
        /\ \A v \in DOMAIN M.uids : v # NewUid => v \in DOMAIN ses.map.uids
    BY <1>1, <1>4, HandsFields DEF Added, Beyond
  <2>2. pda[p].item \in Things /\ NewUid = uidsUsed + 1
    BY <1>1, PdaFacts, Counters
  <2>3. \A s \in Sources : \A v : v \in DOMAIN store'[s]
           <=> v \in DOMAIN store[s] \/ (v = NewUid /\ s = ses.cfg.source)
    BY <1>1, <1>4, <2>2, StoreMore DEF Added
  <2>4. Fresh
    BY <1>2, <2>2, <2>3 DEF Fresh
  <2>5. Sound => OfSource(DOMAIN M.uids, ses.cfg.source, store')
    <3>1. Sound => OfSource(DOMAIN ses.map.uids, ses.cfg.source, store')
      BY <1>1, <1>2, <2>4, StaysOfSource DEF Located
    <3>2. \A t \in Sources \ {ses.cfg.source} : NewUid \notin DOMAIN store'[t]
      BY <1>2, <2>2, <2>3
    <3> QED BY <2>1, <3>1, <3>2 DEF OfSource
  <2> QED BY <1>1, <2>1, <2>4, <2>5, LocatedInSession
<1>5. ASSUME NEW u \in ses.queue, NEW M, SentNew(u, M)
      PROVE  Located'
  <2>1. /\ ses'.cfg = ses.cfg /\ ses'.listed = ses.listed /\ ses'.map = M
        /\ \A v \in DOMAIN M.uids : v # u => v \in DOMAIN ses.map.uids
        /\ store' = store
    BY <1>1, <1>5, HandsFields DEF SentNew, Beyond, StoreStays
  <2>2. Fresh
    BY <2>1 DEF Fresh
  <2>3. u \in DOMAIN ses.listed
    BY <1>1 DEF TInv, Handed
  <2>4. Sound => OfSource(DOMAIN M.uids, ses.cfg.source, store')
    BY <1>1, <2>1, <2>3 DEF Located, OfSource
  <2> QED BY <1>1, <2>1, <2>2, <2>4, LocatedInSession
<1> QED BY <1>3, <1>4, <1>5 DEF Handler

(* How a session begins.                                                    *)
LEMMA LocatedBegin ==
  ASSUME TInv, Located, phase = "loaded", NEW m, GoodMap(m), NEW comps, NEW changes,
         Begin(m, comps, changes), Fresh,
         DOMAIN m.uids \subseteq DOMAIN file,
         OfSource(DOMAIN comps, ses.cfg.source, store')
  PROVE  Located'
<1>1. TypeOK /\ ses.cfg.source \in Sources /\ ses.cfg \in Conf
  BY SessionFacts DEF TInv
<1>2. /\ phase' = "running" /\ UNCHANGED <<file, conf>> /\ wounds \subseteq wounds'
      /\ ses'.cfg = ses.cfg /\ ses'.listed = comps
      /\ ses'.map.uids = IF OtherSource(ses.cfg) THEN NoEntries ELSE m.uids
  BY <1>1, BeginFacts
<1>3. Sound' => Sound
  BY <1>2 DEF Sound
<1>4. \A s : OfSource(DOMAIN file, s, store) => OfSource(DOMAIN file, s, store')
  BY UidFacts, StaysOfSource
<1>5. Sound => OfSource(DOMAIN ses'.map.uids, ses.cfg.source, store')
  <2>1. CASE OtherSource(ses.cfg)
    BY <1>2, <2>1 DEF OfSource, NoEntries
  <2>2. CASE ~OtherSource(ses.cfg) /\ ses.cfg.last = "none"
    <3>1. DOMAIN ses'.map.uids = {}
      BY <1>2, <2>2 DEF Located
    <3> QED BY <3>1 DEF OfSource
  <2>3. CASE ~OtherSource(ses.cfg) /\ ses.cfg.last # "none"
    <3>1. ses.cfg.last = ses.cfg.source /\ ses'.map.uids = m.uids
      BY <1>2, <2>3 DEF OtherSource
    <3>2. Sound => OfSource(DOMAIN file, ses.cfg.source, store')
      BY <1>1, <1>4, <3>1 DEF Located
    <3> QED BY <3>1, <3>2 DEF OfSource
  <2> QED BY <2>1, <2>2, <2>3
<1> QED BY <1>2, <1>3, <1>4, <1>5 DEF Located

(* The contacts' and the tasks' pre_sync lists the objects of the source    *)
(* that is configured.                                                      *)
LEMMA LocatedPlain ==
  ASSUME TInv, Located, PlainPreSync
  PROVE  Located'
<1> DEFINE m == ReadMap(file)
<1>1. /\ phase = "loaded" /\ Begin(m, Objects, AllModified(Objects))
      /\ UNCHANGED <<store, uidsUsed>> /\ TypeOK
  BY DEF PlainPreSync, MemoPreSync, TodoPreSync, AddressPreSync, TInv
<1>2. GoodMap(m) /\ DOMAIN m.uids \subseteq DOMAIN file
  BY ReadTyped
<1>3. Fresh
  BY <1>1 DEF Fresh
<1>4. OfSource(DOMAIN Objects, ses.cfg.source, store')
  BY <1>1, UidFacts DEF OfSource, Objects, TInv, Handed
<1> HIDE DEF m
<1> QED BY <1>1, <1>2, <1>3, <1>4, LocatedBegin

(* The calendar's objects, when it has split what it splits, are of its     *)
(* source.                                                                  *)
LEMMA SplitStore ==
  ASSUME TInv, CalendarPreSync
  PROVE  /\ Fresh
         /\ \A s \in Sources : s # ses.cfg.source => store'[s] = store[s]
         /\ store'[ses.cfg.source] = Over(Clones, Unsplit)
<1>1. /\ phase = "loaded" /\ TypeOK /\ DOMAIN Clones \subseteq Uids
      /\ store' = [store EXCEPT ![ses.cfg.source] = Over(Clones, Unsplit)]
  BY CalendarFacts DEF TInv
<1>2. ses.cfg.source \in Sources /\ store \in [Sources -> Content]
  BY <1>1, SessionFacts DEF TypeOK
<1> DEFINE now == Over(Clones, Unsplit)
<1>3. \A u \in DOMAIN now : u \in DOMAIN Clones \/ u \in DOMAIN store[ses.cfg.source]
  BY <1>1, ClonesTyped DEF Objects
<1>4. \A c \in DOMAIN Clones : c \in Nat /\ uidsUsed < c
  BY <1>1, ClonesFacts
<1>5. store' = [store EXCEPT ![ses.cfg.source] = now]
  BY <1>1
<1> HIDE DEF now
<1>6. /\ \A s \in Sources : s # ses.cfg.source => store'[s] = store[s]
      /\ store'[ses.cfg.source] = now
  BY <1>2, <1>5
<1>7. Fresh
  BY <1>3, <1>4, <1>6 DEF Fresh
<1> QED BY <1>6, <1>7 DEF now

(* The calendar's pre_sync does, too.                                       *)
LEMMA LocatedCalendar ==
  ASSUME TInv, Located, CalendarPreSync
  PROVE  Located'
<1>1. /\ phase = "loaded" /\ TypeOK /\ DOMAIN Clones \subseteq Uids
  BY CalendarFacts DEF TInv
<1>2. PICK m, gone : /\ m = ReadMap(file) /\ GoodMap(m)
                     /\ gone = {u \in ToSplit \cap Kept(m) : u \in DOMAIN m.uids}
                     /\ GoodMap(ForgetArchived(m, gone))
                     /\ Begin(ForgetArchived(m, gone), Over(Clones, Objects), SplitChanges(m))
  BY CalendarFacts
<1> DEFINE r == ForgetArchived(m, gone)
           comps == Over(Clones, Objects)
           changes == SplitChanges(m)
<1>3. DOMAIN r.uids \subseteq DOMAIN file
  <2>1. gone \in SUBSET DOMAIN m.uids
    BY <1>2
  <2>2. DOMAIN r.uids \subseteq DOMAIN m.uids
    BY <1>2, <2>1, ForgetArchivedUids
  <2> QED BY <1>2, <2>2, ReadTyped
<1>4. DOMAIN comps = DOMAIN Clones \cup DOMAIN Objects
  BY <1>1, ClonesTyped
<1>5. GoodMap(r) /\ Begin(r, comps, changes)
  BY <1>2
<1>6. OfSource(DOMAIN comps, ses.cfg.source, store')
  <2>1. \A c \in DOMAIN Clones : c \in Nat /\ uidsUsed < c
    BY <1>1, ClonesFacts
  <2>2. /\ uidsUsed \in Nat /\ ses.cfg.source \in Sources
        /\ \A s \in Sources : \A u \in DOMAIN store[s] : u \in Nat /\ u <= uidsUsed
    BY <1>1, UidFacts
  <2> HIDE DEF comps
  <2> SUFFICES ASSUME NEW t \in Sources \ {ses.cfg.source}, NEW u \in DOMAIN comps,
                      u \in DOMAIN store'[t]
               PROVE  FALSE
    BY DEF OfSource
  <2>3. u \in DOMAIN store[t]
    BY SplitStore
  <2>4. u \notin DOMAIN Clones
    BY <2>1, <2>2, <2>3
  <2>5. u \in DOMAIN store[ses.cfg.source]
    BY <1>4, <2>4 DEF Objects
  <2> QED BY <2>2, <2>3, <2>5 DEF TInv, Handed
<1> HIDE DEF r, comps, changes
<1> QED BY <1>1, <1>3, <1>5, <1>6, SplitStore, LocatedBegin

---------------------------------------------------------------------------
(* The users.                                                               *)
LEMMA UsersStore ==
  ASSUME TInv, Users
  PROVE  /\ Fresh /\ UNCHANGED <<kind, file, conf, gui, phase, ses, wounds>>
<1>1. TypeOK /\ store \in [Sources -> Content] /\ uidsUsed \in Nat /\ NewUid = uidsUsed + 1
  BY Counters DEF TInv, TypeOK
<1>2. ASSUME NEW s \in Sources, NewObject(s)
      PROVE  Fresh
  <2> DEFINE more == Put(store[s], NewUid, NewItem)
  <2>1. store' = [store EXCEPT ![s] = more] /\ DOMAIN more = DOMAIN store[s] \cup {NewUid}
    BY <1>2 DEF NewObject, Put
  <2> HIDE DEF more
  <2> QED BY <1>1, <2>1 DEF Fresh
<1>3. ASSUME NEW s \in Sources, NEW u, DropObject(s, u)
      PROVE  Fresh
  <2> DEFINE rest == Without(store[s], u)
  <2>1. store' = [store EXCEPT ![s] = rest] /\ DOMAIN rest \subseteq DOMAIN store[s]
    BY <1>3 DEF DropObject, Without
  <2> HIDE DEF rest
  <2> QED BY <1>1, <2>1 DEF Fresh
<1>4. NewRecord \/ (\E p \in DOMAIN pda : \E f \in Flags \ {"none"} : EditRecord(p, f)) => Fresh
  BY DEF NewRecord, EditRecord, Fresh
<1>5. Fresh
  BY <1>2, <1>3, <1>4 DEF Users
<1> QED BY <1>5 DEF Users, NewObject, DropObject, NewRecord, EditRecord

(* The users give objects uids that no map has.                             *)
LEMMA LocatedUsers ==
  ASSUME TInv, Located, Users
  PROVE  Located'
<1>1. Fresh /\ UNCHANGED <<kind, file, conf, gui, phase, ses, wounds>>
  BY UsersStore
<1>2. /\ \A s : OfSource(DOMAIN file, s, store) => OfSource(DOMAIN file, s, store')
      /\ phase # "idle" => \A s :
           /\ OfSource(DOMAIN ses.listed, s, store) => OfSource(DOMAIN ses.listed, s, store')
           /\ OfSource(DOMAIN ses.map.uids, s, store) => OfSource(DOMAIN ses.map.uids, s, store')
  BY <1>1, UidFacts, StaysOfSource
<1> QED BY <1>1, <1>2 DEF Located, Sound

(* The settings window leaves last_uri as it is or spoils it: then it is    *)
(* told by a wound, or by being empty.                                      *)
LEMMA SettingsConf ==
  ASSUME TInv, Settings
  PROVE  /\ UNCHANGED <<kind, store, pda, file, phase, ses, uidsUsed, pidsUsed>>
         /\ wounds \subseteq wounds'
         /\ \/ UNCHANGED conf
            \/ /\ conf'.last # "none"
               /\ Sound' => conf'.last \in {conf.last, "empty"}
<1>1. UNCHANGED <<kind, store, pda, file, phase, ses, uidsUsed, pidsUsed>>
  BY DEF Settings, OpenSettings, SaveSettings, RevertSettings, CloseSettings
<1>2. ASSUME NEW c \in Conf, WriteConf(c)
      PROVE  /\ wounds \subseteq wounds' /\ conf'.last # "none"
             /\ Sound' => conf'.last \in {conf.last, "empty"}
  BY <1>2 DEF WriteConf, Saved, Conf, Sound
<1>3. gui = Closed \/ gui \in [cfg: Conf, new: Conf]
  BY DEF TInv, TypeOK
<1>4. CASE OpenSettings \/ CloseSettings
  BY <1>1, <1>4 DEF OpenSettings, CloseSettings
<1>5. CASE RevertSettings
  <2>1. gui.cfg \in Conf /\ WriteConf(gui.cfg)
    BY <1>3, <1>5 DEF RevertSettings
  <2> QED BY <1>1, <1>2, <2>1
<1>6. CASE \E s \in Sources : SaveSettings(s)
  <2>1. PICK s \in Sources : SaveSettings(s)
    BY <1>6
  <2>2. /\ gui \in [cfg: Conf, new: Conf] /\ WriteConf(gui'.new)
        /\ gui' = [gui EXCEPT !.new.source = s]
    BY <1>3, <2>1 DEF SaveSettings
  <2>3. gui'.new \in Conf
    BY <2>2 DEF Conf
  <2> QED BY <1>1, <1>2, <2>2, <2>3
<1> QED BY <1>4, <1>5, <1>6 DEF Settings

(* The settings window leaves the map's file where it is.                   *)
LEMMA LocatedSettings ==
  ASSUME TInv, Located, Settings
  PROVE  Located'
<1>1. Sound' => Sound
  BY SettingsConf DEF Sound
<1> QED BY <1>1, SettingsConf, SourcesAssumption DEF Located

(* A conduit that is loaded has no map yet.                                 *)
LEMMA LocatedLoad ==
  ASSUME TInv, Located, NEW op \in Ops, Load(op)
  PROVE  Located'
<1>1. /\ phase = "idle" /\ phase' = "loaded"
      /\ ses'.cfg = conf /\ DOMAIN ses'.map.uids = {} /\ DOMAIN ses'.listed = {}
      /\ UNCHANGED <<store, file, conf>> /\ wounds \subseteq wounds'
  BY LoadFacts DEF TInv, EmptyMap, NoEntries
<1>2. Sound' => Sound
  BY <1>1 DEF Sound
<1> QED BY <1>1, <1>2 DEF Located, OfSource

(* The end of a session writes the map and last_uri together, or is         *)
(* wounded.                                                                 *)
LEMMA LocatedEnds ==
  ASSUME TInv, Located, Ends
  PROVE  Located'
<1>1. TypeOK
  BY DEF TInv
<1>2. CASE PostSync
  <2>1. /\ phase = "running" /\ phase' = "save"
        /\ conf' = [ses.cfg EXCEPT !.last = ses.cfg.source]
        /\ UNCHANGED <<store, file, ses, wounds>>
    BY <1>2 DEF PostSync
  <2>2. ses.cfg \in Conf /\ ses.cfg.source \in Sources
    BY <1>1, <2>1, SessionFacts
  <2>3. conf'.last = ses.cfg.source
    BY <2>1, <2>2 DEF Conf
  <2> QED BY <2>1, <2>2, <2>3, SourcesAssumption DEF Located, Sound
<1>3. CASE WriteMapFile
  <2>1. /\ phase = "save" /\ phase' = "done" /\ UNCHANGED <<store, conf, ses>>
        /\ \/ file' = WriteMap(ses.map) /\ UNCHANGED wounds
           \/ wounds' = wounds \cup {"half saved"} /\ UNCHANGED file
    BY <1>3 DEF WriteMapFile
  <2>2. GoodMap(ses.map)
    BY <2>1 DEF TInv, IInv, GoodSession
  <2>3. CASE file' = WriteMap(ses.map) /\ UNCHANGED wounds
    <3>1. DOMAIN file' \subseteq DOMAIN ses.map.uids
      BY <2>2, <2>3, WrittenFacts
    <3> QED BY <2>1, <2>3, <3>1 DEF Located, Sound, OfSource
  <2>4. CASE wounds' = wounds \cup {"half saved"} /\ UNCHANGED file
    <3>1. ~Sound'
      BY <2>4 DEF Sound
    <3> QED BY <2>1, <2>4, <3>1 DEF Located
  <2> QED BY <2>1, <2>3, <2>4
<1>4. CASE CleanUp
  BY <1>4 DEF CleanUp, Located, Sound
<1>5. CASE Break
  <2>1. /\ phase # "idle" /\ phase' = "idle" /\ UNCHANGED <<store, file, conf>>
        /\ wounds \subseteq wounds' /\ (phase = "save" => "half saved" \in wounds')
    BY <1>5 DEF Break
  <2>2. Sound' => Sound /\ phase # "save"
    BY <2>1 DEF Sound
  <2> QED BY <2>1, <2>2 DEF Located
<1>6. CASE \E p \in Pids : ReplaceFails(p)
  <2>1. /\ phase = "running" /\ phase' = "idle" /\ UNCHANGED <<store, file, conf>>
        /\ wounds \subseteq wounds'
    BY <1>6 DEF ReplaceFails
  <2>2. Sound' => Sound
    BY <2>1 DEF Sound
  <2> QED BY <2>1, <2>2 DEF Located
<1> QED BY <1>2, <1>3, <1>4, <1>5, <1>6 DEF Ends

(* The kinds of steps there are.                                            *)
LEMMA NextSplits ==
  ASSUME IInv, TypeOK, [Next]_vars
  PROVE  \/ Users \/ Settings \/ (\E op \in Ops : Load(op)) \/ Ends
         \/ PlainPreSync \/ CalendarPreSync \/ Handler
         \/ UNCHANGED vars
BY HandlerForms DEF Next, SessionStep, Ends, PreSync, PlainPreSync

(* Every step keeps the map with its source.                                *)
LEMMA LocatedNext ==
  ASSUME TInv, Located, [Next]_vars
  PROVE  Located'
<1>1. CASE UNCHANGED vars
  BY <1>1 DEF vars, Located, Sound
<1> QED BY <1>1, NextSplits, LocatedUsers, LocatedSettings, LocatedLoad, LocatedEnds,
           LocatedPlain, LocatedCalendar, LocatedHandler DEF TInv

(* At first there is no map.                                                *)
LEMMA InitLocated == Init => Located
<1>1. Init => /\ DOMAIN file = {} /\ phase = "idle" /\ conf.last = "none"
  BY DEF Init, NoEntries
<1> QED BY <1>1, SourcesAssumption DEF Located

(* As long as no end of a session was cut in half and no settings window    *)
(* wrote a last_uri that it had read before (Sound), the uids of the map    *)
(* are in no other source than the one that last_uri names                  *)
(* (MapOfLastSource): the comparison of last_uri with the source that is    *)
(* configured, in pre_sync, keeps the conduit from pairing objects of one   *)
(* address book or calendar with the ids of another.                        *)
THEOREM MapIsOfLastSource == Spec => []MapOfLastSource
<1>1. TInv /\ Located => MapOfLastSource
  BY DEF Located, MapOfLastSource, OfSource, Sound
<1>2. Init => Located
  BY InitLocated
<1>3. TInv /\ Located /\ [Next]_vars => Located'
  BY LocatedNext
<1> QED BY <1>1, <1>2, <1>3, TypedInvariance, PTL DEF Spec

-------------------------------------------------------------------------------
(* What is archived.                                                        *)

(* The file gives an archived object no id; what it marks archived the map   *)
(* of a session that writes everything marks so, too, without an id, and    *)
(* nothing that is archived is among the changes.                           *)
Remembered ==
  /\ \A u \in DOMAIN file : file[u].archived => file[u].pid = 0
  /\ phase \in {"running", "save"} /\ ses.op \in {"copy to", "copy from"} => ses.map.touchedOnly
  /\ phase \in {"running", "save"} /\ ~ses.map.touchedOnly =>
       \A u \in DOMAIN file : file[u].archived /\ u \in DOMAIN Objects =>
         u \in DOMAIN ses.map.uids /\ ses.map.uids[u].archived /\ ses.map.uids[u].pid = 0
  /\ phase = "running" => \A u \in DOMAIN ses.changed : ~UidIsArchived(ses.map, u)

(* A handler that is about the uid w.                                       *)
LEMMA RememberedBeyond ==
  ASSUME TInv, Remembered, InHandler, NEW w, NEW q, NEW M, NEW C, NEW Q, NEW T,
         Hands(M, C, Q, T), Beyond(M, ses.map, w, q), DOMAIN C \subseteq DOMAIN ses.changed,
         \A v \in DOMAIN file : v \in DOMAIN Objects' => v \in DOMAIN Objects,
         \/ ses.map.touchedOnly
         \/ w \notin DOMAIN file \/ w \notin DOMAIN Objects'
         \/ w \in DOMAIN ses.map.uids /\ ses.map.uids[w].pid # 0
         \/ ~UidIsArchived(ses.map, w),
         w \notin DOMAIN C \/ ~UidIsArchived(M, w)
  PROVE  Remembered'
<1>1. /\ phase = "running" /\ phase' = "running" /\ UNCHANGED file /\ TypeOK
  BY DEF InHandler, TInv
<1>2. /\ ses'.map = M /\ ses'.changed = C /\ ses'.op = ses.op
  BY <1>1, HandsFields
<1>3. M.touchedOnly = ses.map.touchedOnly
  BY DEF Beyond
<1>4. ASSUME ~M.touchedOnly, NEW u \in DOMAIN file, file[u].archived, u \in DOMAIN Objects'
      PROVE  u \in DOMAIN M.uids /\ M.uids[u].archived /\ M.uids[u].pid = 0
  <2>1. /\ u \in DOMAIN ses.map.uids /\ ses.map.uids[u].archived /\ ses.map.uids[u].pid = 0
    BY <1>1, <1>3, <1>4 DEF Remembered
  <2>2. u # w
    BY <1>3, <1>4, <2>1 DEF UidIsArchived
  <2> QED BY <2>1, <2>2 DEF Beyond
<1>5. ASSUME NEW u \in DOMAIN C
      PROVE  ~UidIsArchived(M, u)
  <2>1. CASE u = w
    BY <1>5, <2>1
  <2>2. CASE u # w
    BY <1>1, <2>2 DEF Remembered, UidIsArchived, Beyond
  <2> QED BY <2>1, <2>2
<1> QED BY <1>1, <1>2, <1>3, <1>4, <1>5 DEF Remembered

(* The objects after a handler.                                             *)
LEMMA HandlerObjects ==
  ASSUME TInv, InHandler, ses'.cfg = ses.cfg,
         StoreStays \/ (\E w : StoreLoses(w)) \/ (\E x \in Things : StoreGains(x))
  PROVE  /\ \A v \in DOMAIN Objects' : v \in DOMAIN Objects \/ v = NewUid
         /\ \A v \in DOMAIN file : v # NewUid
         /\ \A v \in DOMAIN file : v \in DOMAIN Objects' => v \in DOMAIN Objects
<1>1. phase # "idle" /\ TypeOK /\ ses.cfg.source \in Sources
  BY SessionFacts DEF InHandler, TInv
<1>2. Objects' = store'[ses.cfg.source] /\ Objects = store[ses.cfg.source]
  BY DEF Objects
<1>3. CASE StoreStays \/ \E w : StoreLoses(w)
  <2>1. ASSUME NEW w, StoreStays \/ StoreLoses(w)
        PROVE  \A s \in Sources : DOMAIN store'[s] \subseteq DOMAIN store[s]
    BY <1>1, <2>1, StoreLess
  <2>2. \A s \in Sources : DOMAIN store'[s] \subseteq DOMAIN store[s]
    BY <1>3, <2>1
  <2> QED BY <1>1, <1>2, <2>2, UidFacts, Counters
<1>4. CASE \E x \in Things : StoreGains(x)
  <2>1. PICK x \in Things : StoreGains(x)
    BY <1>4
  <2>2. \A v : v \in DOMAIN store'[ses.cfg.source] <=> v \in DOMAIN store[ses.cfg.source] \/ v = NewUid
    BY <1>1, <2>1, StoreMore
  <2> QED BY <1>1, <1>2, <2>2, UidFacts, Counters
<1>5. \A v \in DOMAIN file : v # NewUid
  BY <1>1, UidFacts, Counters
<1> QED BY <1>3, <1>4, <1>5

(* Looking up an id gives an object that has one.                           *)
LEMMA RememberedRemote ==
  ASSUME TInv, Remembered, NEW p \in Pids, RemoteRecord(p)
  PROVE  Remembered'
<1>1. /\ InHandler /\ p \in DOMAIN pda /\ RemoteForm(p)
      /\ TypeOK /\ phase = "running" /\ phase # "idle" /\ GoodMap(ses.map) /\ p # 0
  BY RemoteForms, NoPidIsZero DEF TInv, IInv, GoodSession, InHandler
<1>2. CASE Ignored(p)
  <2>1. Hands(ses.map, ses.changed, ses.queue, ses.todo \ {p}) /\ StoreStays
    BY <1>2 DEF Ignored
  <2>2. Beyond(ses.map, ses.map, 0, 0)
    BY <1>1, BeyondItself
  <2>3. 0 \notin DOMAIN ses.changed
    BY <1>1, SessionFacts, Counters
  <2>4. 0 \notin DOMAIN file
    BY UidsAssumption DEF TInv, IInv, GoodFile
  <2>5. ses'.cfg = ses.cfg
    BY <1>1, <2>1, HandsFields
  <2> QED BY <1>1, <2>1, <2>2, <2>3, <2>4, <2>5, HandlerObjects, RememberedBeyond
<1>3. ASSUME NEW M, Added(p, M, ses.queue)
      PROVE  Remembered'
  <2>1. /\ Hands(M, ses.changed, ses.queue, ses.todo \ {p}) /\ StoreGains(pda[p].item)
        /\ Beyond(M, ses.map, NewUid, p)
        /\ M.uids[NewUid] = [pid |-> p, archived |-> FALSE, touched |-> TRUE]
    BY <1>3 DEF Added
  <2>2. pda[p].item \in Things
    BY <1>1, PdaFacts
  <2>3. ~UidIsArchived(M, NewUid)
    BY <2>1 DEF UidIsArchived
  <2>4. ses'.cfg = ses.cfg
    BY <1>1, <2>1, HandsFields
  <2>5. /\ \A v \in DOMAIN file : v # NewUid
        /\ \A v \in DOMAIN file : v \in DOMAIN Objects' => v \in DOMAIN Objects
    BY <1>1, <2>1, <2>2, <2>4, HandlerObjects
  <2>6. NewUid \notin DOMAIN file
    BY <2>5
  <2> QED BY <1>1, <2>1, <2>3, <2>5, <2>6, RememberedBeyond
<1>4. ASSUME NEW w, NEW M, Removed(p, w, M)
      PROVE  Remembered'
  <2>1. /\ Hands(M, Without(ses.changed, w), ses.queue, ses.todo \ {p}) /\ StoreLoses(w)
        /\ Beyond(M, ses.map, w, 0) /\ w \notin DOMAIN M.uids
        /\ w \in DOMAIN ses.map.uids /\ ses.map.uids[w].pid # 0
    BY <1>1, <1>4 DEF Removed
  <2>2. /\ DOMAIN Without(ses.changed, w) \subseteq DOMAIN ses.changed
        /\ w \notin DOMAIN Without(ses.changed, w)
    BY DEF Without
  <2>3. ses'.cfg = ses.cfg
    BY <1>1, <2>1, HandsFields
  <2>4. \A v \in DOMAIN file : v \in DOMAIN Objects' => v \in DOMAIN Objects
    BY <1>1, <2>1, <2>3, HandlerObjects
  <2> QED BY <1>1, <2>1, <2>2, <2>4, RememberedBeyond
<1>5. ASSUME NEW w, NEW M, NEW C, NEW a \in BOOLEAN, Settled(p, w, M, C, a)
      PROVE  Remembered'
  <2>1. /\ Hands(M, C, ses.queue, ses.todo \ {p}) /\ StoreStays
        /\ Beyond(M, ses.map, w, 0)
        /\ w \in DOMAIN ses.map.uids /\ ses.map.uids[w].pid # 0
        /\ M.uids[w] = [pid |-> p, archived |-> a, touched |-> TRUE]
    BY <1>1, <1>5 DEF Settled
  <2>2. /\ DOMAIN C \subseteq DOMAIN ses.changed
        /\ w \notin DOMAIN C \/ a = ses.map.uids[w].archived
    BY <1>5 DEF Settled, Without
  <2>3. w \notin DOMAIN C \/ ~UidIsArchived(M, w)
    <3>1. M.uids[w].archived = a
      BY ONLY <2>1
    <3> QED BY <1>1, <2>1, <2>2, <3>1 DEF Remembered, UidIsArchived
  <2>4. ses'.cfg = ses.cfg
    BY <1>1, <2>1, HandsFields
  <2>5. \A v \in DOMAIN file : v \in DOMAIN Objects' => v \in DOMAIN Objects
    BY <1>1, <2>1, <2>4, HandlerObjects
  <2> QED BY <1>1, <2>1, <2>2, <2>3, <2>5, RememberedBeyond
<1> QED BY <1>1, <1>2, <1>3, <1>4, <1>5 DEF RemoteForm

(* The two loops of copying: the map that they write holds only what was    *)
(* touched.                                                                 *)
LEMMA RememberedCopy ==
  ASSUME TInv, Remembered, CopyFromPilot \/ CopyToPilot
  PROVE  Remembered'
<1>1. /\ InHandler /\ phase = "running" /\ phase # "idle" /\ TypeOK /\ GoodMap(ses.map)
      /\ ses.op \in {"copy from", "copy to"}
      /\ \/ \E u, M : u \in Uids /\ Deleted(u, M)
         \/ \E p, M : p \in DOMAIN pda /\ p \in ses.todo /\ Added(p, M, ses.queue)
         \/ \E p \in DOMAIN pda : p \in ses.todo /\ Dropped(p)
  BY CopyForms DEF TInv, IInv, GoodSession, InHandler
<1>2. ses.map.touchedOnly
  BY <1>1 DEF Remembered
<1>3. ASSUME NEW u, NEW M, Deleted(u, M)
      PROVE  Remembered'
  <2>1. /\ Hands(M, ses.changed, ses.queue \ {u}, ses.todo) /\ StoreLoses(u)
        /\ Beyond(M, ses.map, u, 0) /\ u \notin DOMAIN M.uids
    BY <1>3 DEF Deleted
  <2>2. ses'.cfg = ses.cfg
    BY <1>1, <2>1, HandsFields
  <2>3. \A v \in DOMAIN file : v \in DOMAIN Objects' => v \in DOMAIN Objects
    BY <1>1, <2>1, <2>2, HandlerObjects
  <2>4. ~UidIsArchived(M, u)
    BY <2>1 DEF UidIsArchived
  <2> QED BY <1>1, <1>2, <2>1, <2>3, <2>4, RememberedBeyond
<1>4. ASSUME NEW p \in DOMAIN pda, NEW M, Added(p, M, ses.queue)
      PROVE  Remembered'
  <2>1. /\ Hands(M, ses.changed, ses.queue, ses.todo \ {p}) /\ StoreGains(pda[p].item)
        /\ Beyond(M, ses.map, NewUid, p)
        /\ M.uids[NewUid] = [pid |-> p, archived |-> FALSE, touched |-> TRUE]
    BY <1>4 DEF Added
  <2>2. pda[p].item \in Things
    BY <1>1, PdaFacts
  <2>3. ~UidIsArchived(M, NewUid)
    BY <2>1 DEF UidIsArchived
  <2>4. ses'.cfg = ses.cfg
    BY <1>1, <2>1, HandsFields
  <2>5. \A v \in DOMAIN file : v \in DOMAIN Objects' => v \in DOMAIN Objects
    BY <1>1, <2>1, <2>2, <2>4, HandlerObjects
  <2> QED BY <1>1, <1>2, <2>1, <2>3, <2>5, RememberedBeyond
<1>5. ASSUME NEW p, Dropped(p)
      PROVE  Remembered'
  <2>1. Hands(ses.map, ses.changed, ses.queue, ses.todo \ {p}) /\ StoreStays
    BY <1>5 DEF Dropped
  <2>2. Beyond(ses.map, ses.map, 0, 0)
    BY <1>1, BeyondItself
  <2>3. 0 \notin DOMAIN ses.changed
    BY <1>1, SessionFacts, Counters
  <2>4. ses'.cfg = ses.cfg
    BY <1>1, <2>1, HandsFields
  <2>5. \A v \in DOMAIN file : v \in DOMAIN Objects' => v \in DOMAIN Objects
    BY <1>1, <2>1, <2>4, HandlerObjects
  <2> QED BY <1>1, <1>2, <2>1, <2>2, <2>3, <2>5, RememberedBeyond
<1> QED BY <1>1, <1>3, <1>4, <1>5

(* A callback of an object: an archived one is not among the changes.       *)
LEMMA RememberedLocal ==
  ASSUME TInv, Remembered, NEW u \in Uids, LocalObject(u)
  PROVE  Remembered'
<1>1. /\ InHandler /\ phase = "running" /\ phase # "idle" /\ TypeOK
      /\ u \in DOMAIN ses.changed \/ ses.op = "copy to"
      /\ LocalForm(u)
  BY LocalForms DEF TInv, InHandler
<1>2. ses.map.touchedOnly \/ ~UidIsArchived(ses.map, u)
  BY <1>1 DEF Remembered
<1>3. /\ DOMAIN Without(ses.changed, u) \subseteq DOMAIN ses.changed
      /\ u \notin DOMAIN Without(ses.changed, u)
  BY DEF Without
<1>4. ASSUME NEW q, NEW M, Hands(M, Without(ses.changed, u), ses.queue \ {u}, ses.todo),
             Beyond(M, ses.map, u, q), StoreStays \/ StoreLoses(u)
      PROVE  Remembered'
  <2>1. ses'.cfg = ses.cfg
    BY <1>1, <1>4, HandsFields
  <2>2. \A v \in DOMAIN file : v \in DOMAIN Objects' => v \in DOMAIN Objects
    BY <1>1, <1>4, <2>1, HandlerObjects
  <2> QED BY <1>1, <1>2, <1>3, <1>4, <2>2, RememberedBeyond
<1>5. ASSUME NEW M, SentDeletion(u, M)
      PROVE  Remembered'
  BY <1>4, <1>5 DEF SentDeletion
<1>6. ASSUME NEW M, SentNew(u, M)
      PROVE  Remembered'
  BY <1>4, <1>6 DEF SentNew
<1>7. ASSUME NEW p, NEW M, SentChanged(u, p, M)
      PROVE  Remembered'
  BY <1>4, <1>7 DEF SentChanged
<1> QED BY <1>1, <1>5, <1>6, <1>7 DEF LocalForm

(* How a session begins: r is the map that is read, and what is forgotten of *)
(* it is not in the source any more.                                        *)
LEMMA RememberedBegin ==
  ASSUME TInv, Remembered, phase = "loaded", NEW m, GoodMap(m), NEW comps, NEW changes,
         Begin(m, comps, changes),
         \A u \in DOMAIN file : file[u].archived /\ u \in DOMAIN store'[ses.cfg.source] =>
           u \in DOMAIN m.uids /\ m.uids[u].archived /\ m.uids[u].pid = file[u].pid
  PROVE  Remembered'
<1>1. TypeOK
  BY DEF TInv
<1>2. /\ phase' = "running" /\ UNCHANGED file
      /\ ses'.cfg = ses.cfg /\ ses'.op = ses.op
      /\ (ses'.slow <=> ses.slow \/ DOMAIN m.pids = {} \/ OtherSource(ses.cfg))
      /\ (ses'.map.touchedOnly <=> ses'.slow \/ ses.op \in {"copy to", "copy from"})
      /\ ses'.map.uids = IF OtherSource(ses.cfg) THEN NoEntries ELSE m.uids
      /\ Restricts(ses'.changed, changes, m)
  BY <1>1, BeginFacts
<1>3. Objects' = store'[ses.cfg.source]
  BY <1>2 DEF Objects
<1>4. ASSUME NEW u \in DOMAIN ses'.changed
      PROVE  ~UidIsArchived(ses'.map, u)
  <2>1. ~UidIsArchived(m, u)
    BY <1>2, <1>4 DEF Restricts
  <2>2. CASE OtherSource(ses.cfg)
    BY <1>2, <2>2 DEF UidIsArchived, NoEntries
  <2>3. CASE ~OtherSource(ses.cfg)
    BY <1>2, <2>1, <2>3 DEF UidIsArchived
  <2> QED BY <2>2, <2>3
<1>5. ASSUME ~ses'.map.touchedOnly, NEW u \in DOMAIN file, file[u].archived, u \in DOMAIN Objects'
      PROVE  /\ u \in DOMAIN ses'.map.uids /\ ses'.map.uids[u].archived
             /\ ses'.map.uids[u].pid = 0
  BY <1>2, <1>3, <1>5 DEF Remembered
<1> QED BY <1>2, <1>4, <1>5 DEF Remembered

(* The contacts' and the tasks' pre_sync.                                   *)
LEMMA RememberedPlain ==
  ASSUME TInv, Remembered, PlainPreSync
  PROVE  Remembered'
<1> DEFINE m == ReadMap(file)
<1>1. /\ phase = "loaded" /\ Begin(m, Objects, AllModified(Objects))
  BY DEF PlainPreSync, MemoPreSync, TodoPreSync, AddressPreSync
<1>2. /\ GoodMap(m)
      /\ \A u \in DOMAIN file : file[u].archived =>
           u \in DOMAIN m.uids /\ m.uids[u].archived /\ m.uids[u].pid = file[u].pid
  <2>1. GoodFile(file)
    BY DEF TInv, IInv
  <2>2. /\ GoodMap(m) /\ DOMAIN m.uids = Accepted(file)
        /\ \A u \in Accepted(file) : m.uids[u].pid = file[u].pid /\ m.uids[u].archived = file[u].archived
        /\ \A u \in DOMAIN file : file[u].archived => u \in Accepted(file)
    <3>1. ReadGives(file, ReadMap(file))
      BY <2>1, ReadMapUids
    <3> QED BY <3>1 DEF ReadGives
  <2> HIDE DEF m
  <2> QED BY <2>2
<1> HIDE DEF m
<1> QED BY <1>1, <1>2, RememberedBegin

(* The calendar's pre_sync: what it forgets has left the source.            *)
LEMMA RememberedCalendar ==
  ASSUME TInv, Remembered, CalendarPreSync
  PROVE  Remembered'
<1>1. /\ phase = "loaded" /\ TypeOK /\ DOMAIN Clones \subseteq Uids
  BY CalendarFacts DEF TInv
<1>2. PICK m, gone : /\ m = ReadMap(file) /\ GoodMap(m)
                     /\ gone = {u \in ToSplit \cap Kept(m) : u \in DOMAIN m.uids}
                     /\ GoodMap(ForgetArchived(m, gone))
                     /\ Begin(ForgetArchived(m, gone), Over(Clones, Objects), SplitChanges(m))
  BY CalendarFacts
<1> DEFINE r == ForgetArchived(m, gone)
<1>3. /\ DOMAIN r.uids = DOMAIN m.uids \ {u \in gone : m.uids[u].archived}
      /\ \A u \in DOMAIN r.uids : r.uids[u] = m.uids[u]
  <2>1. gone \in SUBSET DOMAIN m.uids
    BY <1>2
  <2> QED BY <1>2, <2>1, ForgetArchivedUids
<1>4. \A u \in DOMAIN file : file[u].archived =>
         u \in DOMAIN m.uids /\ m.uids[u].archived /\ m.uids[u].pid = file[u].pid
  <2>1. GoodFile(file)
    BY DEF TInv, IInv
  <2>2. /\ DOMAIN m.uids = Accepted(file)
        /\ \A u \in Accepted(file) : m.uids[u].pid = file[u].pid /\ m.uids[u].archived = file[u].archived
        /\ \A u \in DOMAIN file : file[u].archived => u \in Accepted(file)
    <3>1. ReadGives(file, m)
      BY <1>2, <2>1, ReadMapUids
    <3> QED BY <3>1 DEF ReadGives
  <2> QED BY <2>2
<1>5. \A u \in DOMAIN file : u \in DOMAIN store'[ses.cfg.source] => u \notin ToSplit
  <2>1. \A u \in DOMAIN store'[ses.cfg.source] : u \in DOMAIN Clones \/ u \notin ToSplit
    BY <1>1, SplitStore, ClonesTyped
  <2>2. \A c \in DOMAIN Clones : c \in Nat /\ uidsUsed < c
    BY <1>1, ClonesFacts
  <2>3. uidsUsed \in Nat /\ \A u \in DOMAIN file : u \in Nat /\ u <= uidsUsed
    BY UidFacts
  <2> QED BY <2>1, <2>2, <2>3
<1>6. GoodMap(r) /\ Begin(r, Over(Clones, Objects), SplitChanges(m))
  BY <1>2
<1> HIDE DEF r
<1>7. \A u \in DOMAIN file : file[u].archived /\ u \in DOMAIN store'[ses.cfg.source] =>
           u \in DOMAIN r.uids /\ r.uids[u].archived /\ r.uids[u].pid = file[u].pid
  BY <1>2, <1>3, <1>4, <1>5
<1> QED BY <1>1, <1>6, <1>7, RememberedBegin

(* The other steps.                                                         *)
LEMMA RememberedEnds ==
  ASSUME TInv, Remembered, Ends
  PROVE  Remembered'
<1>1. CASE PostSync
  BY <1>1 DEF PostSync, Remembered, Objects
<1>2. CASE WriteMapFile
  <2>1. /\ phase' = "done" /\ phase = "save"
        /\ file' = WriteMap(ses.map) \/ UNCHANGED file
    BY <1>2 DEF WriteMapFile
  <2>2. GoodMap(ses.map)
    BY <2>1 DEF TInv, IInv, GoodSession
  <2>3. \A u \in DOMAIN file' : file'[u].archived => file'[u].pid = 0
    <3>1. CASE file' = WriteMap(ses.map)
      BY <2>2, <3>1, WrittenFacts
    <3>2. CASE UNCHANGED file
      BY <3>2 DEF Remembered
    <3> QED BY <2>1, <3>1, <3>2
  <2> QED BY <2>1, <2>3 DEF Remembered
<1>3. CASE CleanUp \/ Break \/ \E p \in Pids : ReplaceFails(p)
  <2>1. phase' = "idle" /\ UNCHANGED file
    BY <1>3 DEF CleanUp, Break, ReplaceFails
  <2> QED BY <2>1 DEF Remembered
<1> QED BY <1>1, <1>2, <1>3 DEF Ends

(* The users bring no uid of the file back into a source.                   *)
LEMMA RememberedUsers ==
  ASSUME TInv, Remembered, Users
  PROVE  Remembered'
<1>1. Fresh /\ UNCHANGED <<file, phase, ses>>
  BY UsersStore
<1>2. ASSUME phase # "idle", NEW u \in DOMAIN file, u \in DOMAIN Objects'
      PROVE  u \in DOMAIN Objects
  <2>1. u \in Nat /\ u <= uidsUsed /\ uidsUsed \in Nat /\ ses.cfg.source \in Sources
    BY <1>2, UidFacts
  <2>2. u \in DOMAIN store'[ses.cfg.source]
    BY <1>1, <1>2 DEF Objects
  <2> QED BY <1>1, <2>1, <2>2 DEF Fresh, Objects
<1> QED BY <1>1, <1>2 DEF Remembered

(* Every step remembers what is archived.                                   *)
LEMMA RememberedNext ==
  ASSUME TInv, Remembered, [Next]_vars
  PROVE  Remembered'
<1>1. CASE UNCHANGED vars
  BY <1>1 DEF vars, Remembered, Objects
<1>2. CASE Settings
  <2>1. UNCHANGED <<store, file, phase, ses>>
    BY <1>2, SettingsConf
  <2> QED BY <2>1 DEF Remembered, Objects
<1>3. CASE \E op \in Ops : Load(op)
  <2>1. phase' = "loaded" /\ UNCHANGED file
    BY <1>3 DEF Load
  <2> QED BY <2>1 DEF Remembered
<1>4. CASE PreSync
  <2>1. PlainPreSync \/ CalendarPreSync
    BY <1>4 DEF PreSync, PlainPreSync
  <2> QED BY <2>1, RememberedPlain, RememberedCalendar
<1>5. CASE Users \/ Ends
  BY <1>5, RememberedUsers, RememberedEnds
<1>6. CASE \/ \E p \in Pids : RemoteRecord(p)
           \/ CopyFromPilot \/ CopyToPilot
           \/ \E u \in Uids : LocalObject(u)
  BY <1>6, RememberedRemote, RememberedCopy, RememberedLocal
<1> QED BY <1>1, <1>2, <1>3, <1>4, <1>5, <1>6 DEF Next, SessionStep, Ends

(* Every step that writes the file writes what is archived into it.         *)
LEMMA RememberedStep ==
  ASSUME TInv, Remembered, [Next]_vars
  PROVE  \A u \in DOMAIN file :
           file[u].archived /\ file' # file /\ ~ses.map.touchedOnly /\ u \in DOMAIN Objects
             => u \in DOMAIN file' /\ file'[u].archived
<1> SUFFICES ASSUME NEW u \in DOMAIN file, file[u].archived, file' # file,
                    ~ses.map.touchedOnly, u \in DOMAIN Objects
             PROVE  u \in DOMAIN file' /\ file'[u].archived
  OBVIOUS
<1>1. WriteMapFile
  <2>1. UNCHANGED vars => FALSE
    BY DEF vars
  <2>2. Handler => FALSE
    BY DEF Handler, InHandler
  <2>3. Users => FALSE
    BY UsersStore
  <2>4. Settings => FALSE
    BY SettingsConf
  <2>5. (\E op \in Ops : Load(op)) => FALSE
    BY DEF Load
  <2>6. PlainPreSync \/ CalendarPreSync => FALSE
    BY DEF PlainPreSync, MemoPreSync, TodoPreSync, AddressPreSync, CalendarPreSync, Begin
  <2> QED BY <2>1, <2>2, <2>3, <2>4, <2>5, <2>6, NextSplits
          DEF TInv, Ends, PostSync, CleanUp, Break, ReplaceFails
<1>2. phase = "save" /\ file' = WriteMap(ses.map)
  BY <1>1 DEF WriteMapFile
<1>3. GoodMap(ses.map)
  BY <1>2 DEF TInv, IInv, GoodSession
<1>4. u \in DOMAIN ses.map.uids /\ ses.map.uids[u].archived
  BY <1>2 DEF Remembered
<1> QED BY <1>2, <1>3, <1>4, WrittenFacts

(* What the user has archived on the PDA stays marked in the map as long as *)
(* its object is in the source and no session writes only what it touched   *)
(* (ArchivedIsRemembered, an action property of the steps): otherwise the   *)
(* next synchronization would send the archived record to the PDA again.    *)
THEOREM ArchivedStays == Spec => ArchivedIsRemembered
<1>1. Init => Remembered
  BY DEF Init, Remembered, NoEntries
<1>2. TInv /\ Remembered /\ [Next]_vars => Remembered'
  BY RememberedNext
<1>3. Spec => []Remembered
  BY <1>1, <1>2, TypedInvariance, PTL DEF Spec
<1>4. TInv /\ Remembered /\ [Next]_vars =>
        [\A u \in DOMAIN file :
           file[u].archived /\ file' # file /\ ~ses.map.touchedOnly /\ u \in DOMAIN Objects
             => u \in DOMAIN file' /\ file'[u].archived]_vars
  BY RememberedStep
<1> QED BY <1>3, <1>4, TypedInvariance, PTL DEF Spec, ArchivedIsRemembered

-------------------------------------------------------------------------------
(* The pairs hold the same items.                                           *)

(* A table of pairs in which the record and the object hold the same item.  *)
Agrees(table, st, pd) ==
  \A u \in DOMAIN table : \A s \in Sources :
    table[u].pid \in DOMAIN pd /\ u \in DOMAIN st[s] => pd[table[u].pid].item = st[s][u]

(* The file and the map pair a record with an object that holds the same,   *)
(* and what is listed is what the source and the record hold.               *)
PairsAgree ==
  /\ Agrees(file, store, pda)
  /\ phase # "idle" =>
       /\ Agrees(ses.map.uids, store, pda)
       /\ \A u \in DOMAIN ses.listed :
            /\ \A s \in Sources : u \in DOMAIN store[s] => store[s][u] = ses.listed[u]
            /\ u \in DOMAIN ses.map.uids /\ ses.map.uids[u].pid \in DOMAIN pda
                 => pda[ses.map.uids[u].pid].item = ses.listed[u]

(* An object keeps what it holds, and so does a record; what is new has a   *)
(* uid or an id that nobody had before.                                     *)
SameObjects ==
  \A s \in Sources : \A u \in DOMAIN store'[s] :
    \/ u \in DOMAIN store[s] /\ store'[s][u] = store[s][u]
    \/ u \in Nat /\ uidsUsed < u
SameRecords ==
  \A p \in DOMAIN pda' :
    \/ p \in DOMAIN pda /\ pda'[p].item = pda[p].item
    \/ p \in Nat /\ pidsUsed < p

(* A table that agrees with the stores goes on agreeing, as long as objects *)
(* and records keep their items and new ones get new ids.                   *)
LEMMA StaysAgreed ==
  ASSUME SameObjects, SameRecords, uidsUsed \in Nat, pidsUsed \in Nat,
         NEW table, Agrees(table, store, pda),
         \A u \in DOMAIN table : /\ u \in Nat /\ u <= uidsUsed
                                 /\ table[u].pid \in Nat /\ table[u].pid <= pidsUsed
  PROVE  Agrees(table, store', pda')
BY DEF Agrees, SameObjects, SameRecords

(* Ids of the file, and of a session.                                       *)
LEMMA PidFacts ==
  ASSUME TInv
  PROVE  /\ pidsUsed \in Nat
         /\ \A p \in DOMAIN pda : p \in Nat /\ p <= pidsUsed /\ p # 0
         /\ \A u \in DOMAIN file : file[u].pid \in Nat /\ file[u].pid <= pidsUsed
         /\ phase # "idle" =>
              \A u \in DOMAIN ses.map.uids :
                ses.map.uids[u].pid \in Nat /\ ses.map.uids[u].pid <= pidsUsed
<1>1. TypeOK /\ Handed
  BY DEF TInv
<1>2. \A u \in DOMAIN file : file[u].pid \in Pids \cup {0}
  <2>1. \A u \in DOMAIN file : file[u] \in Entry
    BY DEF TInv, IInv, GoodFile
  <2> QED BY <2>1 DEF Entry
<1>3. phase # "idle" => \A u \in DOMAIN ses.map.uids : ses.map.uids[u].pid \in Pids \cup {0}
  <2>1. phase # "idle" => GoodMap(ses.map)
    BY DEF TInv, IInv, GoodSession
  <2>2. phase # "idle" => \A u \in DOMAIN ses.map.uids : ses.map.uids[u] \in UidNode
    BY <2>1, InverseFacts
  <2> QED BY <2>2 DEF UidNode
<1> QED BY <1>1, <1>2, <1>3, Counters, PdaFacts DEF Handed

(* What the file says stays true, and what a session knows does.            *)
LEMMA KnownStays ==
  ASSUME TInv, PairsAgree, SameObjects, SameRecords
  PROVE  /\ Agrees(file, store', pda')
         /\ phase # "idle" =>
              /\ Agrees(ses.map.uids, store', pda')
              /\ \A u \in DOMAIN ses.listed :
                   /\ \A s \in Sources : u \in DOMAIN store'[s] => store'[s][u] = ses.listed[u]
                   /\ u \in DOMAIN ses.map.uids /\ ses.map.uids[u].pid \in DOMAIN pda'
                        => pda'[ses.map.uids[u].pid].item = ses.listed[u]
<1>1. /\ uidsUsed \in Nat /\ pidsUsed \in Nat
      /\ \A u \in DOMAIN file : /\ u \in Nat /\ u <= uidsUsed
                                /\ file[u].pid \in Nat /\ file[u].pid <= pidsUsed
      /\ phase # "idle" =>
           /\ \A u \in DOMAIN ses.listed : u \in Nat /\ u <= uidsUsed
           /\ \A u \in DOMAIN ses.map.uids :
                /\ u \in Nat /\ u <= uidsUsed
                /\ ses.map.uids[u].pid \in Nat /\ ses.map.uids[u].pid <= pidsUsed
  BY UidFacts, PidFacts
<1>2. Agrees(file, store', pda')
  BY <1>1, StaysAgreed DEF PairsAgree
<1>3. phase # "idle" => Agrees(ses.map.uids, store', pda')
  BY <1>1, StaysAgreed DEF PairsAgree
<1>4. ASSUME phase # "idle", NEW u \in DOMAIN ses.listed
      PROVE  /\ \A s \in Sources : u \in DOMAIN store'[s] => store'[s][u] = ses.listed[u]
             /\ u \in DOMAIN ses.map.uids /\ ses.map.uids[u].pid \in DOMAIN pda'
                  => pda'[ses.map.uids[u].pid].item = ses.listed[u]
  <2>1. /\ \A s \in Sources : u \in DOMAIN store[s] => store[s][u] = ses.listed[u]
        /\ u \in DOMAIN ses.map.uids /\ ses.map.uids[u].pid \in DOMAIN pda
             => pda[ses.map.uids[u].pid].item = ses.listed[u]
    BY <1>4 DEF PairsAgree
  <2>2. \A s \in Sources : u \in DOMAIN store'[s] => store'[s][u] = ses.listed[u]
    BY <1>1, <1>4, <2>1 DEF SameObjects
  <2>3. u \in DOMAIN ses.map.uids /\ ses.map.uids[u].pid \in DOMAIN pda'
          => pda'[ses.map.uids[u].pid].item = ses.listed[u]
    BY <1>1, <1>4, <2>1 DEF SameRecords
  <2> QED BY <2>2, <2>3
<1> QED BY <1>2, <1>3, <1>4

---------------------------------------------------------------------------
(* The handlers.                                                            *)
LEMMA HandlerSame ==
  ASSUME TInv, PairsAgree, Handler
  PROVE  SameObjects /\ SameRecords
<1>1. /\ phase # "idle" /\ TypeOK /\ uidsUsed \in Nat /\ NewUid = uidsUsed + 1
      /\ pidsUsed \in Nat /\ NewPid = pidsUsed + 1
      /\ \A s \in Sources : \A u \in DOMAIN store[s] : u \in Nat /\ u <= uidsUsed
      /\ \A p \in DOMAIN pda : p \in Nat /\ p <= pidsUsed
  BY Counters, UidFacts, PidFacts DEF Handler, InHandler, TInv
<1>2. ASSUME NEW w, NEW M, NEW C, NEW Q, NEW T, Lesser(w, M, C, Q, T)
      PROVE  SameObjects /\ SameRecords
  <2>1. SameObjects
    BY <1>1, <1>2, StoreLess DEF Lesser, SameObjects
  <2>2. CASE PdaStays
    BY <2>1, <2>2 DEF PdaStays, SameRecords
  <2>3. CASE \E p : PdaLoses(p)
    BY <1>1, <2>1, <2>3, PdaLess DEF SameRecords
  <2>4. CASE /\ w \in ses.queue
             /\ w \in DOMAIN ses.map.uids /\ ses.map.uids[w].pid \in DOMAIN pda
             /\ PdaChanges(ses.map.uids[w].pid, ses.listed[w])
    <3> DEFINE p == ses.map.uids[w].pid
    <3>1. w \in DOMAIN ses.listed
      BY <1>1, <2>4 DEF TInv, Handed
    <3>2. ses.listed[w] \in Things /\ pda[p].item = ses.listed[w]
      BY <1>1, <2>4, <3>1, SessionFacts DEF PairsAgree
    <3>3. /\ DOMAIN pda' = DOMAIN pda
          /\ \A q \in DOMAIN pda : q # p => pda'[q] = pda[q]
          /\ pda'[p] = [item |-> ses.listed[w], flag |-> "none"]
      BY <1>1, <2>4, <3>2, PdaOverwritten
    <3> HIDE DEF p
    <3>4. pda'[p].item = pda[p].item
      BY <3>2, <3>3
    <3>5. SameRecords
      BY <3>3, <3>4 DEF SameRecords
    <3> QED BY <2>1, <3>5
  <2> QED BY <1>2, <2>2, <2>3, <2>4 DEF Lesser
<1>3. ASSUME NEW p \in DOMAIN pda, NEW M, Added(p, M, ses.queue)
      PROVE  SameObjects /\ SameRecords
  <2>1. pda[p].item \in Things
    BY <1>1, PdaFacts
  <2>2. SameRecords
    BY <1>3 DEF Added, PdaStays, SameRecords
  <2>3. \A s \in Sources :
              /\ \A v : v \in DOMAIN store'[s]
                   <=> v \in DOMAIN store[s] \/ (v = NewUid /\ s = ses.cfg.source)
              /\ \A v \in DOMAIN store[s] :
                   v # NewUid => store'[s][v] = store[s][v]
    BY <1>1, <1>3, <2>1, StoreMore DEF Added
  <2>4. SameObjects
    BY <1>1, <2>3 DEF SameObjects
  <2> QED BY <2>2, <2>4
<1>4. ASSUME NEW u \in ses.queue, NEW M, SentNew(u, M)
      PROVE  SameObjects /\ SameRecords
  <2>1. ses.listed[u] \in Things
    BY <1>1, SessionFacts DEF TInv, Handed
  <2>2. /\ DOMAIN pda' = DOMAIN pda \cup {NewPid}
        /\ \A q \in DOMAIN pda : q # NewPid => pda'[q] = pda[q]
    BY <1>1, <1>4, <2>1, PdaMore DEF SentNew
  <2>3. SameRecords
    BY <1>1, <2>2 DEF SameRecords
  <2> QED BY <1>4, <2>3 DEF SentNew, StoreStays, SameObjects
<1> QED BY <1>2, <1>3, <1>4 DEF Handler

(* A session's map after a handler: only the entry of w may be new.         *)
OneEntry(w, M) ==
  /\ \A v \in DOMAIN M.uids \ {w} :
       v \in DOMAIN ses.map.uids /\ M.uids[v].pid = ses.map.uids[v].pid
  /\ w \in DOMAIN M.uids =>
       \/ w \in DOMAIN ses.map.uids /\ M.uids[w].pid = ses.map.uids[w].pid
       \/ \E p \in DOMAIN pda' :
            /\ M.uids[w].pid = p
            /\ \A s \in Sources : w \in DOMAIN store'[s] => pda'[p].item = store'[s][w]
            /\ w \in DOMAIN ses.listed => pda'[p].item = ses.listed[w]

(* A handler that changes one entry of the map.                             *)
LEMMA AgreedMap ==
  ASSUME TInv, PairsAgree, Handler, NEW w, NEW M, NEW C, NEW Q, NEW T, Hands(M, C, Q, T),
         OneEntry(w, M)
  PROVE  PairsAgree'
<1>1. /\ phase # "idle" /\ UNCHANGED <<file, phase>> /\ TypeOK
  BY DEF Handler, InHandler, TInv
<1>2. ses'.map = M /\ ses'.listed = ses.listed
  BY <1>1, HandsFields
<1>3. SameObjects /\ SameRecords
  BY HandlerSame
<1>4. /\ Agrees(file, store', pda')
      /\ Agrees(ses.map.uids, store', pda')
      /\ \A u \in DOMAIN ses.listed :
           /\ \A s \in Sources : u \in DOMAIN store'[s] => store'[s][u] = ses.listed[u]
           /\ u \in DOMAIN ses.map.uids /\ ses.map.uids[u].pid \in DOMAIN pda'
                => pda'[ses.map.uids[u].pid].item = ses.listed[u]
  BY <1>1, <1>3, KnownStays
<1>5. ASSUME NEW u \in DOMAIN M.uids, NEW s \in Sources,
             M.uids[u].pid \in DOMAIN pda', u \in DOMAIN store'[s]
      PROVE  pda'[M.uids[u].pid].item = store'[s][u]
  <2>1. CASE u \in DOMAIN ses.map.uids /\ M.uids[u].pid = ses.map.uids[u].pid
    BY <1>4, <1>5, <2>1 DEF Agrees
  <2>2. CASE ~ (u \in DOMAIN ses.map.uids /\ M.uids[u].pid = ses.map.uids[u].pid)
    BY <1>5, <2>2 DEF OneEntry
  <2> QED BY <2>1, <2>2
<1>6. ASSUME NEW u \in DOMAIN ses.listed, u \in DOMAIN M.uids, M.uids[u].pid \in DOMAIN pda'
      PROVE  pda'[M.uids[u].pid].item = ses.listed[u]
  <2>1. CASE u \in DOMAIN ses.map.uids /\ M.uids[u].pid = ses.map.uids[u].pid
    BY <1>4, <1>6, <2>1
  <2>2. CASE ~ (u \in DOMAIN ses.map.uids /\ M.uids[u].pid = ses.map.uids[u].pid)
    BY <1>6, <2>2 DEF OneEntry
  <2> QED BY <2>1, <2>2
<1>7. Agrees(M.uids, store', pda')
  BY <1>5 DEF Agrees
<1> QED BY <1>1, <1>2, <1>4, <1>6, <1>7 DEF PairsAgree

(* All handlers.                                                            *)
LEMMA AgreedHandler ==
  ASSUME TInv, PairsAgree, Handler
  PROVE  PairsAgree'
<1>1. /\ phase # "idle" /\ TypeOK /\ UNCHANGED phase
      /\ uidsUsed \in Nat /\ NewUid = uidsUsed + 1 /\ ses.cfg.source \in Sources
      /\ \A s \in Sources : \A u \in DOMAIN store[s] : u \in Nat /\ u <= uidsUsed
      /\ \A u \in DOMAIN ses.listed : u \in Nat /\ u <= uidsUsed
  BY Counters, UidFacts DEF Handler, InHandler, TInv
<1>2. ASSUME NEW w, NEW M, NEW C, NEW Q, NEW T, Lesser(w, M, C, Q, T)
      PROVE  PairsAgree'
  <2>1. OneEntry(w, M) /\ Hands(M, C, Q, T)
    BY <1>2 DEF Lesser, OneEntry
  <2> QED BY <2>1, AgreedMap
<1>3. ASSUME NEW p \in DOMAIN pda, NEW M, Added(p, M, ses.queue)
      PROVE  PairsAgree'
  <2>1. pda[p].item \in Things
    BY <1>1, PdaFacts
  <2>2. /\ Hands(M, ses.changed, ses.queue, ses.todo \ {p})
        /\ \A v \in DOMAIN M.uids \ {NewUid} :
             v \in DOMAIN ses.map.uids /\ M.uids[v].pid = ses.map.uids[v].pid
        /\ M.uids[NewUid] = [pid |-> p, archived |-> FALSE, touched |-> TRUE]
        /\ pda' = pda
    BY <1>3 DEF Added, Beyond, PdaStays
  <2>3. M.uids[NewUid].pid = p
    BY ONLY <2>2
  <2>4. /\ \A s \in Sources : \A v : v \in DOMAIN store'[s]
              <=> v \in DOMAIN store[s] \/ (v = NewUid /\ s = ses.cfg.source)
        /\ store'[ses.cfg.source][NewUid] = pda[p].item
    BY <1>1, <1>3, <2>1, StoreMore DEF Added
  <2>5. \A s \in Sources : NewUid \in DOMAIN store'[s] => pda'[p].item = store'[s][NewUid]
    BY <1>1, <2>2, <2>4
  <2>6. NewUid \notin DOMAIN ses.listed
    BY <1>1
  <2>7. p \in DOMAIN pda'
    BY <2>2
  <2>8. OneEntry(NewUid, M)
    BY <2>2, <2>3, <2>5, <2>6, <2>7 DEF OneEntry
  <2> QED BY <2>2, <2>8, AgreedMap
<1>4. ASSUME NEW u \in ses.queue, NEW M, SentNew(u, M)
      PROVE  PairsAgree'
  <2>1. ses.listed[u] \in Things /\ u \in DOMAIN ses.listed
    BY <1>1, SessionFacts DEF TInv, Handed
  <2>2. /\ Hands(M, Without(ses.changed, u), ses.queue \ {u}, ses.todo)
        /\ \A v \in DOMAIN M.uids \ {u} :
             v \in DOMAIN ses.map.uids /\ M.uids[v].pid = ses.map.uids[v].pid
        /\ store' = store
    BY <1>4 DEF SentNew, Beyond, StoreStays
  <2>3. M.uids[u].pid = NewPid
    BY <1>4, SentEntry
  <2>4. /\ DOMAIN pda' = DOMAIN pda \cup {NewPid}
        /\ pda'[NewPid] = [item |-> ses.listed[u], flag |-> "none"]
    BY <1>1, <1>4, <2>1, PdaMore DEF SentNew
  <2>5. NewPid \in DOMAIN pda' /\ pda'[NewPid].item = ses.listed[u]
    BY ONLY <2>4
  <2>6. \A s \in Sources : u \in DOMAIN store'[s] => pda'[NewPid].item = store'[s][u]
    BY <1>1, <2>1, <2>2, <2>5 DEF PairsAgree
  <2>7. OneEntry(u, M)
    BY <2>2, <2>3, <2>5, <2>6 DEF OneEntry
  <2> QED BY <2>2, <2>7, AgreedMap
<1> QED BY <1>2, <1>3, <1>4 DEF Handler

---------------------------------------------------------------------------
(* How a session begins.                                                    *)
LEMMA AgreedBegin ==
  ASSUME TInv, PairsAgree, phase = "loaded", NEW m, GoodMap(m), NEW comps, NEW changes,
         Begin(m, comps, changes), SameObjects,
         \A u \in DOMAIN m.uids : u \in DOMAIN file /\ m.uids[u].pid = file[u].pid,
         \A u \in DOMAIN comps :
           /\ \A s \in Sources : u \in DOMAIN store'[s] => store'[s][u] = comps[u]
           /\ \/ u \in Nat /\ uidsUsed < u
              \/ \E s \in Sources : u \in DOMAIN store[s] /\ store[s][u] = comps[u]
  PROVE  PairsAgree'
<1>1. TypeOK
  BY DEF TInv
<1>2. /\ phase' = "running" /\ UNCHANGED <<pda, file>>
      /\ ses'.listed = comps
      /\ ses'.map.uids = IF OtherSource(ses.cfg) THEN NoEntries ELSE m.uids
  BY <1>1, BeginFacts
<1>3. SameRecords
  BY <1>2 DEF SameRecords
<1>4. Agrees(file, store', pda')
  BY <1>3, KnownStays
<1>5. \A u \in DOMAIN ses'.map.uids : u \in DOMAIN file /\ ses'.map.uids[u].pid = file[u].pid
  BY <1>2 DEF NoEntries
<1>6. Agrees(ses'.map.uids, store', pda')
  BY <1>4, <1>5 DEF Agrees
<1>7. ASSUME NEW u \in DOMAIN comps, u \in DOMAIN ses'.map.uids,
             ses'.map.uids[u].pid \in DOMAIN pda
      PROVE  pda[ses'.map.uids[u].pid].item = comps[u]
  <2>1. u \in DOMAIN file /\ ses'.map.uids[u].pid = file[u].pid
    BY <1>5, <1>7
  <2>2. u \in Nat /\ u <= uidsUsed /\ uidsUsed \in Nat
    BY <2>1, UidFacts
  <2>3. PICK s \in Sources : u \in DOMAIN store[s] /\ store[s][u] = comps[u]
    BY <2>2
  <2> QED BY <1>7, <2>1, <2>3 DEF PairsAgree, Agrees
<1> QED BY <1>2, <1>4, <1>6, <1>7 DEF PairsAgree

(* The contacts' and the tasks' pre_sync.                                   *)
LEMMA AgreedPlain ==
  ASSUME TInv, PairsAgree, PlainPreSync
  PROVE  PairsAgree'
<1> DEFINE m == ReadMap(file)
<1>1. /\ phase = "loaded" /\ Begin(m, Objects, AllModified(Objects))
      /\ UNCHANGED <<store, uidsUsed>> /\ TypeOK
  BY DEF PlainPreSync, MemoPreSync, TodoPreSync, AddressPreSync, TInv
<1>2. /\ GoodMap(m)
      /\ \A u \in DOMAIN m.uids : u \in DOMAIN file /\ m.uids[u].pid = file[u].pid
  BY ReadTyped
<1>3. SameObjects
  BY <1>1 DEF SameObjects
<1>4. ses.cfg.source \in Sources
  BY <1>1, SessionFacts
<1>5. \A u \in DOMAIN Objects :
           /\ \A s \in Sources : u \in DOMAIN store'[s] => store'[s][u] = Objects[u]
           /\ \E s \in Sources : u \in DOMAIN store[s] /\ store[s][u] = Objects[u]
  BY <1>1, <1>4 DEF Objects, TInv, Handed
<1> HIDE DEF m
<1> QED BY <1>1, <1>2, <1>3, <1>5, AgreedBegin

(* What is in the source after splitting, by uid.                           *)
LEMMA SplitObjects ==
  ASSUME TInv, CalendarPreSync
  PROVE  /\ SameObjects
         /\ \A u \in DOMAIN Over(Clones, Objects) :
              /\ \A s \in Sources : u \in DOMAIN store'[s] => store'[s][u] = Over(Clones, Objects)[u]
              /\ \/ u \in DOMAIN Clones /\ u \in Nat /\ uidsUsed < u
                 \/ u \in DOMAIN Objects /\ Over(Clones, Objects)[u] = Objects[u]
<1>1. /\ phase = "loaded" /\ TypeOK /\ DOMAIN Clones \subseteq Uids
  BY CalendarFacts DEF TInv
<1>2. /\ uidsUsed \in Nat /\ ses.cfg.source \in Sources
      /\ \A s \in Sources : \A u \in DOMAIN store[s] : u \in Nat /\ u <= uidsUsed
      /\ \A c \in DOMAIN Clones : c \in Nat /\ uidsUsed < c
  BY <1>1, UidFacts, ClonesFacts
<1>3. /\ \A s \in Sources : s # ses.cfg.source => store'[s] = store[s]
      /\ store'[ses.cfg.source] = Over(Clones, Unsplit)
  BY SplitStore
<1>4. /\ DOMAIN Over(Clones, Objects) = DOMAIN Clones \cup DOMAIN Objects
      /\ DOMAIN Over(Clones, Unsplit) = DOMAIN Clones \cup (DOMAIN Objects \ ToSplit)
      /\ \A u \in DOMAIN Clones : Over(Clones, Objects)[u] = Over(Clones, Unsplit)[u]
      /\ \A u \in DOMAIN Objects \ DOMAIN Clones : Over(Clones, Objects)[u] = Objects[u]
      /\ \A u \in DOMAIN Objects \ (DOMAIN Clones \cup ToSplit) :
           Over(Clones, Unsplit)[u] = Objects[u]
  BY <1>1, ClonesTyped
<1> DEFINE now == Over(Clones, Unsplit)
           all == Over(Clones, Objects)
<1>8. /\ DOMAIN all = DOMAIN Clones \cup DOMAIN Objects
      /\ DOMAIN now = DOMAIN Clones \cup (DOMAIN Objects \ ToSplit)
      /\ \A u \in DOMAIN Clones : all[u] = now[u]
      /\ \A u \in DOMAIN Objects \ DOMAIN Clones : all[u] = Objects[u]
      /\ \A u \in DOMAIN Objects \ (DOMAIN Clones \cup ToSplit) : now[u] = Objects[u]
  BY <1>4, Zenon
<1> HIDE DEF now, all
<1>5. \A u \in DOMAIN now : /\ u \in DOMAIN all /\ all[u] = now[u]
                            /\ u \in DOMAIN Clones \/ (u \in DOMAIN Objects /\ now[u] = Objects[u])
  BY <1>8
<1>6. SameObjects
  <2> SUFFICES ASSUME NEW s \in Sources, NEW u \in DOMAIN store'[s]
               PROVE  \/ u \in DOMAIN store[s] /\ store'[s][u] = store[s][u]
                      \/ u \in Nat /\ uidsUsed < u
    BY DEF SameObjects
  <2>1. CASE s # ses.cfg.source
    BY <1>3, <2>1
  <2>2. CASE s = ses.cfg.source
    BY <1>2, <1>3, <1>5, <2>2 DEF now, Objects
  <2> QED BY <2>1, <2>2
<1>7. ASSUME NEW u \in DOMAIN all
      PROVE  /\ \A s \in Sources : u \in DOMAIN store'[s] => store'[s][u] = all[u]
             /\ \/ u \in DOMAIN Clones /\ u \in Nat /\ uidsUsed < u
                \/ u \in DOMAIN Objects /\ all[u] = Objects[u]
  <2>1. \/ u \in DOMAIN Clones /\ u \in Nat /\ uidsUsed < u
        \/ u \in DOMAIN Objects /\ all[u] = Objects[u]
    BY <1>2, <1>8
  <2>2. ASSUME NEW s \in Sources, u \in DOMAIN store'[s]
        PROVE  store'[s][u] = all[u]
    <3>1. CASE s = ses.cfg.source
      BY <1>3, <1>5, <2>2, <3>1 DEF now
    <3>2. CASE s # ses.cfg.source
      <4>1. u \in DOMAIN store[s]
        BY <1>3, <2>2, <3>2
      <4>2. u \notin DOMAIN Clones
        BY <1>2, <4>1
      <4>3. u \in DOMAIN store[ses.cfg.source]
        BY <2>1, <4>2 DEF Objects
      <4> QED BY <1>2, <3>2, <4>1, <4>3 DEF TInv, Handed
    <3> QED BY <3>1, <3>2
  <2> QED BY <2>1, <2>2
<1> QED BY <1>6, <1>7 DEF all

(* The calendar's pre_sync: a day of a long event gets a uid that no map    *)
(* has.                                                                     *)
LEMMA AgreedCalendar ==
  ASSUME TInv, PairsAgree, CalendarPreSync
  PROVE  PairsAgree'
<1>1. /\ phase = "loaded" /\ TypeOK /\ ses.cfg.source \in Sources
  BY CalendarFacts, SessionFacts DEF TInv
<1>2. PICK m, gone : /\ m = ReadMap(file) /\ GoodMap(m)
                     /\ gone = {u \in ToSplit \cap Kept(m) : u \in DOMAIN m.uids}
                     /\ GoodMap(ForgetArchived(m, gone))
                     /\ Begin(ForgetArchived(m, gone), Over(Clones, Objects), SplitChanges(m))
  BY CalendarFacts
<1> DEFINE r == ForgetArchived(m, gone)
           comps == Over(Clones, Objects)
           changes == SplitChanges(m)
<1>3. \A u \in DOMAIN r.uids : u \in DOMAIN file /\ r.uids[u].pid = file[u].pid
  <2>1. gone \in SUBSET DOMAIN m.uids
    BY <1>2
  <2>2. DOMAIN r.uids \subseteq DOMAIN m.uids /\ \A u \in DOMAIN r.uids : r.uids[u] = m.uids[u]
    BY <1>2, <2>1, ForgetArchivedUids
  <2>3. \A u \in DOMAIN m.uids : u \in DOMAIN file /\ m.uids[u].pid = file[u].pid
    BY <1>2, ReadTyped
  <2> QED BY <2>2, <2>3
<1>4. GoodMap(r) /\ Begin(r, comps, changes)
  BY <1>2
<1>5. SameObjects /\ \A u \in DOMAIN comps :
        /\ \A s \in Sources : u \in DOMAIN store'[s] => store'[s][u] = comps[u]
        /\ \/ u \in Nat /\ uidsUsed < u
           \/ u \in DOMAIN Objects /\ comps[u] = Objects[u]
  BY SplitObjects
<1> HIDE DEF r, comps, changes
<1>6. \A u \in DOMAIN comps :
        \/ u \in Nat /\ uidsUsed < u
        \/ \E s \in Sources : u \in DOMAIN store[s] /\ store[s][u] = comps[u]
  BY <1>1, <1>5 DEF Objects
<1> QED BY <1>1, <1>3, <1>4, <1>5, <1>6, AgreedBegin

---------------------------------------------------------------------------
(* The other steps.                                                         *)
LEMMA UsersSame ==
  ASSUME TInv, Users
  PROVE  SameObjects /\ SameRecords
<1>1. /\ TypeOK /\ store \in [Sources -> Content] /\ uidsUsed \in Nat /\ NewUid = uidsUsed + 1
      /\ pidsUsed \in Nat /\ NewPid = pidsUsed + 1
  BY Counters DEF TInv, TypeOK
<1>2. ASSUME NEW s \in Sources, NewObject(s)
      PROVE  SameObjects /\ SameRecords
  <2> DEFINE more == Put(store[s], NewUid, NewItem)
  <2>1. /\ store' = [store EXCEPT ![s] = more] /\ DOMAIN more = DOMAIN store[s] \cup {NewUid}
        /\ \A u \in DOMAIN store[s] : u # NewUid => more[u] = store[s][u]
        /\ pda' = pda
    BY <1>2 DEF NewObject, Put
  <2> HIDE DEF more
  <2> QED BY <1>1, <2>1 DEF SameObjects, SameRecords
<1>3. ASSUME NEW s \in Sources, NEW u, DropObject(s, u)
      PROVE  SameObjects /\ SameRecords
  <2> DEFINE rest == Without(store[s], u)
  <2>1. /\ store' = [store EXCEPT ![s] = rest] /\ DOMAIN rest \subseteq DOMAIN store[s]
        /\ \A v \in DOMAIN rest : rest[v] = store[s][v]
        /\ pda' = pda
    BY <1>3 DEF DropObject, Without
  <2> HIDE DEF rest
  <2> QED BY <1>1, <2>1 DEF SameObjects, SameRecords
<1>4. ASSUME NewRecord
      PROVE  SameObjects /\ SameRecords
  <2>1. /\ DOMAIN pda' = DOMAIN pda \cup {NewPid} /\ store' = store
        /\ \A q \in DOMAIN pda : q # NewPid => pda'[q] = pda[q]
    BY <1>4 DEF NewRecord, Put
  <2> QED BY <1>1, <2>1 DEF SameObjects, SameRecords
<1>5. ASSUME NEW p \in DOMAIN pda, NEW f, EditRecord(p, f)
      PROVE  SameObjects /\ SameRecords
  <2>1. /\ pda' = [pda EXCEPT ![p] = [pda[p] EXCEPT !.flag = f]] /\ store' = store
    BY <1>5 DEF EditRecord
  <2>2. [pda[p] EXCEPT !.flag = f].item = pda[p].item
    BY <1>1, PdaFacts
  <2>3. /\ DOMAIN pda' = DOMAIN pda /\ \A q \in DOMAIN pda : pda'[q].item = pda[q].item
    BY <2>1, <2>2
  <2> QED BY <2>1, <2>3 DEF SameObjects, SameRecords
<1> QED BY <1>2, <1>3, <1>4, <1>5 DEF Users

(* The file that is written agrees like the map it is written of.           *)
LEMMA AgreedWritten ==
  ASSUME TInv, PairsAgree, phase = "save", NEW f, f = WriteMap(ses.map)
  PROVE  Agrees(f, store, pda)
<1>1. GoodMap(ses.map)
  BY DEF TInv, IInv, GoodSession
<1>2. \A u \in DOMAIN f : u \in DOMAIN ses.map.uids /\ f[u].pid \in {0, ses.map.uids[u].pid}
  BY <1>1, WrittenFacts
<1>3. 0 \notin DOMAIN pda
  BY PidFacts
<1> QED BY <1>2, <1>3 DEF Agrees, PairsAgree

(* The end of a session.                                                    *)
LEMMA AgreedEnds ==
  ASSUME TInv, PairsAgree, Ends
  PROVE  PairsAgree'
<1>1. CASE PostSync
  BY <1>1 DEF PostSync, PairsAgree
<1>2. CASE WriteMapFile
  <2>1. /\ phase = "save" /\ phase' = "done" /\ UNCHANGED <<store, pda, ses>>
        /\ file' = WriteMap(ses.map) \/ UNCHANGED file
    BY <1>2 DEF WriteMapFile
  <2>2. Agrees(file', store, pda)
    BY <2>1, AgreedWritten DEF PairsAgree
  <2> QED BY <2>1, <2>2 DEF PairsAgree
<1>3. CASE CleanUp
  <2>1. /\ phase' = "idle" /\ UNCHANGED <<store, file, uidsUsed, pidsUsed>>
        /\ SameObjects /\ SameRecords
    BY <1>3, CleanUpFacts DEF TInv, SameObjects, SameRecords
  <2>2. Agrees(file, store', pda')
    BY <2>1, KnownStays
  <2> QED BY <2>1, <2>2 DEF PairsAgree
<1>4. CASE Break \/ \E p \in Pids : ReplaceFails(p)
  BY <1>4 DEF Break, ReplaceFails, PairsAgree
<1> QED BY <1>1, <1>2, <1>3, <1>4 DEF Ends

(* Every step keeps the pairs agreeing.                                     *)
LEMMA AgreedNext ==
  ASSUME TInv, PairsAgree, [Next]_vars
  PROVE  PairsAgree'
<1>1. CASE UNCHANGED vars
  BY <1>1 DEF vars, PairsAgree
<1>2. CASE Settings
  <2>1. UNCHANGED <<store, pda, file, phase, ses>>
    BY <1>2, SettingsConf
  <2> QED BY <2>1 DEF PairsAgree
<1>3. CASE \E op \in Ops : Load(op)
  <2>1. PICK op \in Ops : Load(op)
    BY <1>3
  <2>2. /\ DOMAIN ses'.map.uids = {} /\ DOMAIN ses'.listed = {}
        /\ UNCHANGED <<store, pda, file>>
    BY <2>1, LoadFacts DEF TInv, EmptyMap, NoEntries
  <2> QED BY <2>2 DEF PairsAgree, Agrees
<1>4. CASE Users
  <2>1. SameObjects /\ SameRecords /\ UNCHANGED <<file, phase, ses>>
    BY <1>4, UsersSame, UsersStore
  <2> QED BY <2>1, KnownStays DEF PairsAgree
<1> QED BY <1>1, <1>2, <1>3, <1>4, NextSplits, AgreedPlain, AgreedCalendar, AgreedHandler,
           AgreedEnds DEF TInv

-------------------------------------------------------------------------------
(* Everything is paired.                                                    *)

(* In a synchronization an object is still to be treated, or need not be    *)
(* sent, or has a record.                                                   *)
Covered ==
  phase = "running" /\ ses.op = "synchronize" =>
    \A u \in DOMAIN Objects :
      \/ u \in ses.queue /\ u \in DOMAIN ses.changed
      \/ UidIsArchived(ses.map, u)
      \/ UidIsArchived(ReadMap(file), u)
      \/ kind = "calendar" /\ Objects[u] \in LongThings
      \/ u \in DOMAIN ses.map.uids /\ ses.map.uids[u].pid \in DOMAIN pda

(* A handler that is about the uid w: it leaves w with a record, or gone.   *)
LEMMA CoveredBeyond ==
  ASSUME TInv, Covered, InHandler, ses.op = "synchronize",
         NEW w, NEW M, NEW C, NEW Q, NEW T, Hands(M, C, Q, T), Beyond(M, ses.map, w, 0),
         \A v \in DOMAIN ses.changed : v # w => v \in DOMAIN C,
         \A v \in ses.queue : v # w => v \in Q,
         \A v \in DOMAIN Objects' : v # w => v \in DOMAIN Objects /\ Objects'[v] = Objects[v],
         w \in DOMAIN Objects' => w \in DOMAIN M.uids /\ M.uids[w].pid \in DOMAIN pda',
         \A v \in DOMAIN ses.map.uids : v # w /\ ses.map.uids[v].pid \in DOMAIN pda
            => ses.map.uids[v].pid \in DOMAIN pda'
  PROVE  Covered'
<1>1. /\ phase = "running" /\ phase' = "running" /\ UNCHANGED <<file, kind>> /\ TypeOK
  BY DEF InHandler, TInv
<1>2. /\ ses'.map = M /\ ses'.changed = C /\ ses'.queue = Q /\ ses'.op = ses.op
  BY <1>1, HandsFields
<1>3. ASSUME NEW u \in DOMAIN Objects', u # w
      PROVE  \/ u \in Q /\ u \in DOMAIN C
             \/ UidIsArchived(M, u)
             \/ UidIsArchived(ReadMap(file), u)
             \/ kind = "calendar" /\ Objects'[u] \in LongThings
             \/ u \in DOMAIN M.uids /\ M.uids[u].pid \in DOMAIN pda'
  <2>1. u \in DOMAIN Objects /\ Objects'[u] = Objects[u]
    BY <1>3
  <2>2. CASE u \in ses.queue /\ u \in DOMAIN ses.changed
    BY <1>3, <2>2
  <2>3. CASE UidIsArchived(ses.map, u)
    BY <1>3, <2>3 DEF Beyond, UidIsArchived
  <2>4. CASE u \in DOMAIN ses.map.uids /\ ses.map.uids[u].pid \in DOMAIN pda
    BY <1>3, <2>4 DEF Beyond
  <2> QED BY <1>1, <2>1, <2>2, <2>3, <2>4 DEF Covered
<1> QED BY <1>1, <1>2, <1>3 DEF Covered

(* What a handler that adds nothing to the store leaves of the objects.     *)
LEMMA FewerObjects ==
  ASSUME TInv, InHandler, ses'.cfg = ses.cfg, NEW w, StoreStays \/ StoreLoses(w)
  PROVE  /\ \A v \in DOMAIN Objects' : v \in DOMAIN Objects /\ Objects'[v] = Objects[v]
         /\ StoreLoses(w) => w \notin DOMAIN Objects'
<1>1. phase # "idle" /\ TypeOK /\ ses.cfg.source \in Sources
  BY SessionFacts DEF InHandler, TInv
<1>2. Objects' = store'[ses.cfg.source] /\ Objects = store[ses.cfg.source]
  BY DEF Objects
<1>3. /\ DOMAIN store'[ses.cfg.source] \subseteq DOMAIN store[ses.cfg.source]
      /\ \A v \in DOMAIN store'[ses.cfg.source] :
           store'[ses.cfg.source][v] = store[ses.cfg.source][v]
  BY <1>1, StoreLess
<1> QED BY <1>1, <1>2, <1>3, StoreLost

(* A callback of a record.                                                  *)
LEMMA CoveredRemote ==
  ASSUME TInv, Covered, ses.op = "synchronize", NEW p \in Pids, RemoteRecord(p)
  PROVE  Covered'
<1>1. /\ InHandler /\ p \in DOMAIN pda /\ RemoteForm(p)
      /\ TypeOK /\ phase = "running" /\ phase # "idle" /\ GoodMap(ses.map) /\ p # 0
  BY RemoteForms, NoPidIsZero DEF TInv, IInv, GoodSession, InHandler
<1>2. CASE Ignored(p)
  <2>1. /\ Hands(ses.map, ses.changed, ses.queue, ses.todo \ {p}) /\ StoreStays /\ pda' = pda
    BY <1>2 DEF Ignored, PdaStays
  <2>2. Beyond(ses.map, ses.map, 0, 0)
    BY <1>1, BeyondItself
  <2>3. ses'.cfg = ses.cfg
    BY <1>1, <2>1, HandsFields
  <2>4. \A v \in DOMAIN Objects' : v \in DOMAIN Objects /\ Objects'[v] = Objects[v]
    BY <1>1, <2>1, <2>3, FewerObjects
  <2>5. 0 \notin DOMAIN Objects'
    <3>1. ses.cfg.source \in Sources
      BY <1>1, SessionFacts
    <3> QED BY <1>1, <2>4, <3>1, StoreFacts, Counters DEF Objects
  <2> QED BY <1>1, <2>1, <2>2, <2>4, <2>5, CoveredBeyond
<1>3. ASSUME NEW M, p \notin DOMAIN ses.map.pids, Added(p, M, ses.queue)
      PROVE  Covered'
  <2>1. /\ Hands(M, ses.changed, ses.queue, ses.todo \ {p}) /\ StoreGains(pda[p].item)
        /\ pda' = pda /\ Beyond(M, ses.map, NewUid, p)
        /\ NewUid \in DOMAIN M.uids
        /\ M.uids[NewUid] = [pid |-> p, archived |-> FALSE, touched |-> TRUE]
    BY <1>3 DEF Added, PdaStays
  <2>2. \A v \in DOMAIN ses.map.uids : ses.map.uids[v].pid # p
    BY <1>1, <1>3, PairedBack
  <2>3. Beyond(M, ses.map, NewUid, 0)
    BY <2>1, <2>2, BeyondUnpaired
  <2>4. pda[p].item \in Things
    BY <1>1, PdaFacts
  <2>5. ses.cfg.source \in Sources
    BY <1>1, SessionFacts
  <2>6. \A v \in DOMAIN Objects' : v # NewUid => v \in DOMAIN Objects /\ Objects'[v] = Objects[v]
    <3>1. Objects' = store'[ses.cfg.source]
      BY <1>1, <2>1, HandsFields
    <3>2. /\ \A v : v \in DOMAIN store'[ses.cfg.source]
                   => v \in DOMAIN store[ses.cfg.source] \/ v = NewUid
          /\ \A v \in DOMAIN store[ses.cfg.source] :
                   v # NewUid => store'[ses.cfg.source][v] = store[ses.cfg.source][v]
      BY <1>1, <2>1, <2>4, <2>5, StoreMore
    <3> QED BY <3>1, <3>2 DEF Objects
  <2>7. M.uids[NewUid].pid = p
    BY ONLY <2>1
  <2>8. M.uids[NewUid].pid \in DOMAIN pda'
    BY <1>1, <2>1, <2>7
  <2>9. \A v \in DOMAIN ses.map.uids : v # NewUid /\ ses.map.uids[v].pid \in DOMAIN pda
            => ses.map.uids[v].pid \in DOMAIN pda'
    BY <2>1
  <2> QED BY <1>1, <2>1, <2>3, <2>6, <2>8, <2>9, CoveredBeyond
<1>4. ASSUME NEW w, NEW M, Removed(p, w, M)
      PROVE  Covered'
  <2>1. /\ Hands(M, Without(ses.changed, w), ses.queue, ses.todo \ {p}) /\ StoreLoses(w)
        /\ pda' = pda /\ Beyond(M, ses.map, w, 0)
    BY <1>4 DEF Removed, PdaStays
  <2>2. \A v \in DOMAIN ses.changed : v # w => v \in DOMAIN Without(ses.changed, w)
    BY DEF Without
  <2>3. ses'.cfg = ses.cfg
    BY <1>1, <2>1, HandsFields
  <2>4. /\ \A v \in DOMAIN Objects' : v \in DOMAIN Objects /\ Objects'[v] = Objects[v]
        /\ w \notin DOMAIN Objects'
    BY <1>1, <2>1, <2>3, FewerObjects
  <2> QED BY <1>1, <2>1, <2>2, <2>4, CoveredBeyond
<1>5. ASSUME NEW w, NEW M, NEW C, NEW a, Settled(p, w, M, C, a)
      PROVE  Covered'
  <2>1. /\ Hands(M, C, ses.queue, ses.todo \ {p}) /\ StoreStays /\ pda' = pda
        /\ Beyond(M, ses.map, w, 0)
        /\ w \in DOMAIN M.uids /\ M.uids[w] = [pid |-> p, archived |-> a, touched |-> TRUE]
    BY <1>5 DEF Settled, PdaStays
  <2>2. \A v \in DOMAIN ses.changed : v # w => v \in DOMAIN C
    BY <1>5 DEF Settled, Without
  <2>3. M.uids[w].pid = p
    BY ONLY <2>1
  <2>4. ses'.cfg = ses.cfg
    BY <1>1, <2>1, HandsFields
  <2>5. \A v \in DOMAIN Objects' : v \in DOMAIN Objects /\ Objects'[v] = Objects[v]
    BY <1>1, <2>1, <2>4, FewerObjects
  <2>6. w \in DOMAIN M.uids /\ M.uids[w].pid \in DOMAIN pda'
    BY <1>1, <2>1, <2>3
  <2> QED BY <1>1, <2>1, <2>2, <2>5, <2>6, CoveredBeyond
<1> QED BY <1>1, <1>2, <1>3, <1>4, <1>5 DEF RemoteForm

(* A callback of an object.                                                 *)
LEMMA CoveredLocal ==
  ASSUME TInv, Covered, ses.op = "synchronize", NEW u \in Uids, LocalObject(u)
  PROVE  Covered'
<1>1. /\ InHandler /\ phase = "running" /\ phase # "idle" /\ TypeOK /\ GoodMap(ses.map)
      /\ u \in ses.queue /\ LocalForm(u)
  BY LocalForms DEF TInv, IInv, GoodSession, InHandler
<1>2. /\ \A v \in DOMAIN ses.changed : v # u => v \in DOMAIN Without(ses.changed, u)
      /\ \A v \in ses.queue : v # u => v \in ses.queue \ {u}
  BY DEF Without
<1>3. ASSUME NEW M, Hands(M, Without(ses.changed, u), ses.queue \ {u}, ses.todo)
      PROVE  ses'.cfg = ses.cfg
  BY <1>1, <1>3, HandsFields
<1>4. ASSUME NEW M, SentDeletion(u, M)
      PROVE  Covered'
  <2> DEFINE p == LookupPid(ses.map, u)
  <2>1. /\ Hands(M, Without(ses.changed, u), ses.queue \ {u}, ses.todo) /\ StoreLoses(u)
        /\ PdaLoses(p) /\ Beyond(M, ses.map, u, 0)
    BY <1>4 DEF SentDeletion
  <2>2. /\ \A v \in DOMAIN Objects' : v \in DOMAIN Objects /\ Objects'[v] = Objects[v]
        /\ u \notin DOMAIN Objects'
    BY <1>1, <1>3, <2>1, FewerObjects
  <2>3. \A v \in DOMAIN ses.map.uids : v # u /\ ses.map.uids[v].pid \in DOMAIN pda
            => ses.map.uids[v].pid # p
    <3>1. p = IF u \in DOMAIN ses.map.uids THEN ses.map.uids[u].pid ELSE 0
      BY Zenon DEF LookupPid
    <3>2. 0 \notin DOMAIN pda
      BY <1>1, PidFacts
    <3> HIDE DEF p
    <3> QED BY ONLY <1>1, <3>1, <3>2, PairedBack
  <2> HIDE DEF p
  <2>4. \A q \in DOMAIN pda : q # p => q \in DOMAIN pda'
    BY <2>1 DEF PdaLoses, Without
  <2> QED BY <1>1, <1>2, <2>1, <2>2, <2>3, <2>4, CoveredBeyond
<1>5. ASSUME NEW M, SentNew(u, M)
      PROVE  Covered'
  <2>1. /\ Hands(M, Without(ses.changed, u), ses.queue \ {u}, ses.todo) /\ StoreStays
        /\ PdaGains(ses.listed[u]) /\ Beyond(M, ses.map, u, NewPid) /\ u \in DOMAIN M.uids
    BY <1>5 DEF SentNew
  <2>2. M.uids[u].pid = NewPid
    BY <1>5, SentEntry
  <2>3. \A v \in DOMAIN ses.map.uids : ses.map.uids[v].pid # NewPid
    BY <1>1, PidFacts, Counters
  <2>4. Beyond(M, ses.map, u, 0)
    BY <2>1, <2>3, BeyondUnpaired
  <2>5. \A v \in DOMAIN Objects' : v \in DOMAIN Objects /\ Objects'[v] = Objects[v]
    BY <1>1, <1>3, <2>1, FewerObjects
  <2>6. DOMAIN pda' = DOMAIN pda \cup {NewPid}
    BY <2>1 DEF PdaGains, Put
  <2> QED BY <1>1, <1>2, <2>1, <2>2, <2>4, <2>5, <2>6, CoveredBeyond
<1>6. ASSUME NEW p, NEW M, SentChanged(u, p, M)
      PROVE  Covered'
  <2>1. /\ Hands(M, Without(ses.changed, u), ses.queue \ {u}, ses.todo) /\ StoreStays
        /\ PdaChanges(p, ses.listed[u]) /\ Beyond(M, ses.map, u, 0)
        /\ u \in DOMAIN M.uids /\ p \in DOMAIN pda
        /\ M.uids[u] = [pid |-> p, archived |-> ses.map.uids[u].archived, touched |-> TRUE]
    BY <1>6 DEF SentChanged
  <2>2. M.uids[u].pid = p
    BY ONLY <2>1
  <2>3. \A v \in DOMAIN Objects' : v \in DOMAIN Objects /\ Objects'[v] = Objects[v]
    BY <1>1, <1>3, <2>1, FewerObjects
  <2>4. DOMAIN pda' = DOMAIN pda
    BY <2>1 DEF PdaChanges
  <2> QED BY <1>1, <1>2, <2>1, <2>2, <2>3, <2>4, CoveredBeyond
<1> QED BY <1>1, <1>4, <1>5, <1>6 DEF LocalForm

---------------------------------------------------------------------------
(* How a session begins.                                                    *)
LEMMA CoveredBegin ==
  ASSUME TInv, phase = "loaded", NEW m, GoodMap(m), NEW comps, NEW changes,
         Begin(m, comps, changes),
         \A u \in DOMAIN store'[ses.cfg.source] :
           \/ u \in DOMAIN changes
           \/ kind = "calendar" /\ store'[ses.cfg.source][u] \in LongThings,
         \A u : UidIsArchived(m, u) => UidIsArchived(ReadMap(file), u)
  PROVE  Covered'
<1>1. TypeOK
  BY DEF TInv
<1>2. /\ phase' = "running" /\ UNCHANGED <<file, kind>>
      /\ ses'.cfg = ses.cfg /\ ses'.op = ses.op
      /\ ses'.queue = ObjectsToTreat(comps, changes)
      /\ Restricts(ses'.changed, changes, m)
  BY <1>1, BeginFacts
<1>3. Objects' = store'[ses.cfg.source]
  BY <1>2 DEF Objects
<1>4. ses.op = "synchronize" => ses'.queue = DOMAIN changes
  BY <1>2 DEF ObjectsToTreat
<1>5. ASSUME ses.op = "synchronize", NEW u \in DOMAIN Objects'
      PROVE  \/ u \in ses'.queue /\ u \in DOMAIN ses'.changed
             \/ UidIsArchived(ReadMap(file), u)
             \/ kind = "calendar" /\ Objects'[u] \in LongThings
  <2>1. CASE u \in DOMAIN changes /\ ~UidIsArchived(m, u)
    BY <1>2, <1>4, <1>5, <2>1 DEF Restricts
  <2> QED BY <1>3, <1>5, <2>1
<1> QED BY <1>2, <1>5 DEF Covered

(* The contacts' and the tasks' pre_sync finds every object among the       *)
(* changes, in a map that covers the source or in one that was just read.   *)
LEMMA CoveredPlain ==
  ASSUME TInv, PlainPreSync
  PROVE  Covered'
<1> DEFINE m == ReadMap(file)
           changes == AllModified(Objects)
<1>1. /\ phase = "loaded" /\ Begin(m, Objects, changes) /\ UNCHANGED store
  BY DEF PlainPreSync, MemoPreSync, TodoPreSync, AddressPreSync
<1>2. GoodMap(m) /\ DOMAIN changes = DOMAIN Objects
  BY ReadTyped DEF AllModified
<1>3. \A u \in DOMAIN store'[ses.cfg.source] : u \in DOMAIN changes
  BY <1>1, <1>2 DEF Objects
<1>4. \A u : UidIsArchived(m, u) => UidIsArchived(ReadMap(file), u)
  OBVIOUS
<1> HIDE DEF m, changes
<1> QED BY <1>1, <1>2, <1>3, <1>4, CoveredBegin

(* The calendar's pre_sync adds the days to the changes.                    *)
LEMMA CoveredCalendar ==
  ASSUME TInv, CalendarPreSync
  PROVE  Covered'
<1>1. /\ phase = "loaded" /\ kind = "calendar" /\ TypeOK /\ DOMAIN Clones \subseteq Uids
  BY CalendarFacts DEF TInv
<1>2. PICK m, gone : /\ m = ReadMap(file) /\ GoodMap(m)
                     /\ gone = {u \in ToSplit \cap Kept(m) : u \in DOMAIN m.uids}
                     /\ GoodMap(ForgetArchived(m, gone))
                     /\ Begin(ForgetArchived(m, gone), Over(Clones, Objects), SplitChanges(m))
  BY CalendarFacts
<1> DEFINE r == ForgetArchived(m, gone)
           comps == Over(Clones, Objects)
           changes == SplitChanges(m)
           now == Over(Clones, Unsplit)
<1>3. \A u : UidIsArchived(r, u) => UidIsArchived(ReadMap(file), u)
  <2>1. gone \in SUBSET DOMAIN m.uids
    BY <1>2
  <2>2. DOMAIN r.uids \subseteq DOMAIN m.uids /\ \A u \in DOMAIN r.uids : r.uids[u] = m.uids[u]
    BY <1>2, <2>1, ForgetArchivedUids
  <2> QED BY <1>2, <2>2 DEF UidIsArchived
<1>4. GoodMap(r) /\ Begin(r, comps, changes)
  BY <1>2
<1>5. store'[ses.cfg.source] = now
  BY SplitStore
<1>6. DOMAIN changes = DOMAIN Clones \cup Kept(m)
  BY CalendarFacts
<1>7. /\ DOMAIN now = DOMAIN Clones \cup (DOMAIN Objects \ ToSplit)
      /\ \A u \in DOMAIN Objects \ (DOMAIN Clones \cup ToSplit) : now[u] = Objects[u]
  BY <1>1, ClonesTyped
<1> HIDE DEF r, comps, changes, now
<1>8. ASSUME NEW u \in DOMAIN now, u \notin DOMAIN changes
      PROVE  now[u] \in LongThings
  <2>1. u \in DOMAIN Objects \ (DOMAIN Clones \cup ToSplit) /\ u \notin Kept(m)
    BY <1>6, <1>7, <1>8
  <2>2. Objects[u] \in LongThings
    BY <2>1 DEF Kept, Spanning
  <2> QED BY <1>7, <2>1, <2>2
<1> QED BY <1>1, <1>3, <1>4, <1>5, <1>8, CoveredBegin

---------------------------------------------------------------------------
(* The users add no object while a session runs.                            *)
LEMMA CoveredUsers ==
  ASSUME TInv, Covered, Users
  PROVE  Covered'
<1>1. SameObjects /\ Fresh /\ UNCHANGED <<kind, file, phase, ses>>
  BY UsersSame, UsersStore
<1>2. CASE phase = "idle"
  BY <1>1, <1>2 DEF Covered
<1>3. CASE phase # "idle"
  <2>1. PICK s \in Sources : \E u : DropObject(s, u)
    BY <1>3 DEF Users, NewObject, NewRecord, EditRecord
  <2>2. PICK u : DropObject(s, u)
    BY <2>1
  <2>3. ses.cfg.source \in Sources /\ store \in [Sources -> Content]
    BY <1>3, SessionFacts DEF TInv, TypeOK
  <2>4. pda' = pda
    BY <2>2 DEF DropObject
  <2>5. \A v \in DOMAIN Objects' : v \in DOMAIN Objects /\ Objects'[v] = Objects[v]
    <3> DEFINE rest == Without(store[s], u)
    <3>1. /\ store' = [store EXCEPT ![s] = rest] /\ DOMAIN rest \subseteq DOMAIN store[s]
          /\ \A v \in DOMAIN rest : rest[v] = store[s][v]
      BY <2>2 DEF DropObject, Without
    <3> HIDE DEF rest
    <3>2. Objects' = store'[ses.cfg.source] /\ Objects = store[ses.cfg.source]
      BY <1>1 DEF Objects
    <3> QED BY <2>3, <3>1, <3>2
  <2> QED BY <1>1, <2>4, <2>5 DEF Covered
<1> QED BY <1>2, <1>3

(* Every step keeps the objects covered.                                    *)
LEMMA CoveredNext ==
  ASSUME TInv, Covered, [Next]_vars
  PROVE  Covered'
<1>1. CASE UNCHANGED vars
  BY <1>1 DEF vars, Covered, Objects
<1>2. CASE Settings
  <2>1. UNCHANGED <<kind, store, pda, file, phase, ses>>
    BY <1>2, SettingsConf
  <2> QED BY <2>1 DEF Covered, Objects
<1>3. CASE (\E op \in Ops : Load(op)) \/ Ends
  <2>1. phase' # "running"
    BY <1>3 DEF Load, Ends, PostSync, WriteMapFile, CleanUp, Break, ReplaceFails
  <2> QED BY <2>1 DEF Covered
<1>4. CASE PreSync
  <2>1. PlainPreSync \/ CalendarPreSync
    BY <1>4 DEF PreSync, PlainPreSync
  <2> QED BY <2>1, CoveredPlain, CoveredCalendar
<1>5. CASE \/ \E p \in Pids : RemoteRecord(p)
           \/ CopyFromPilot \/ CopyToPilot
           \/ \E u \in Uids : LocalObject(u)
  <2>1. CASE ses.op = "synchronize"
    <3>1. ~(CopyFromPilot \/ CopyToPilot)
      BY <2>1 DEF CopyFromPilot, CopyToPilot
    <3> QED BY <1>5, <2>1, <3>1, CoveredRemote, CoveredLocal
  <2>2. CASE ses.op # "synchronize"
    <3>1. phase # "idle" /\ TypeOK /\ Handler
      BY <1>5, HandlerForms DEF Handler, InHandler, TInv
    <3>2. ses'.op = ses.op
      BY <3>1, HandsFields DEF Handler, Lesser, Added, SentNew
    <3> QED BY <2>2, <3>2 DEF Covered
  <2> QED BY <2>1, <2>2
<1>6. CASE Users
  BY <1>6, CoveredUsers
<1> QED BY <1>1, <1>2, <1>3, <1>4, <1>5, <1>6 DEF Next, SessionStep, Ends

(* When nothing is left to be treated, every object that should be sent has *)
(* a record that holds its item.                                            *)
LEMMA PairedWhenDone ==
  ASSUME TInv, PairsAgree, Covered
  PROVE  EverythingPaired
<1> SUFFICES ASSUME phase = "running", LocalDone, ses.op = "synchronize",
                    NEW u \in DOMAIN Objects, ~Unsent(u)
             PROVE  LookupPid(ses.map, u) \in DOMAIN pda
                    /\ pda[LookupPid(ses.map, u)].item = Objects[u]
  BY DEF EverythingPaired
<1>1. ses.cfg.source \in Sources
  BY UidFacts
<1>2. ~(u \in ses.queue /\ u \in DOMAIN ses.changed)
  BY DEF LocalDone, NextItems, Offered
<1>3. u \in DOMAIN ses.map.uids /\ ses.map.uids[u].pid \in DOMAIN pda
  BY <1>2 DEF Covered, Unsent
<1> QED BY <1>1, <1>3 DEF PairsAgree, Agrees, LookupPid, Objects

(* When a synchronization comes to post_sync, every object of the source    *)
(* that is not archived, and is no event of several days that the calendar  *)
(* does not split, is paired with a record of the PDA that holds the same   *)
(* item (EverythingPaired): neither the callbacks of the records nor those  *)
(* of the objects, nor the order in which pilot-link calls them, leave one  *)
(* out.                                                                     *)
THEOREM AllPaired == Spec => []EverythingPaired
<1>1. Init => PairsAgree /\ Covered
  BY DEF Init, PairsAgree, Covered, Agrees, NoEntries
<1>2. TInv /\ PairsAgree /\ Covered /\ [Next]_vars => (PairsAgree /\ Covered)'
  BY AgreedNext, CoveredNext
<1>3. TInv /\ PairsAgree /\ Covered => EverythingPaired
  BY PairedWhenDone
<1> QED BY <1>1, <1>2, <1>3, TypedInvariance, PTL DEF Spec

-------------------------------------------------------------------------------
(* Nothing is there twice, without a wound.                                 *)

(* Who holds what, and which record is an object's: by the map of a session *)
(* that has begun, by the file otherwise.                                   *)
InSession == phase \in {"running", "save", "done"}
Held(u, x) ==
  \/ \E s \in Sources : u \in DOMAIN store[s] /\ store[s][u] = x
  \/ InSession /\ u \in DOMAIN ses.changed /\ ses.listed[u] = x
Paired(u, p) ==
  IF InSession THEN u \in DOMAIN ses.map.uids /\ ses.map.uids[u].pid = p
               ELSE u \in DOMAIN file /\ file[u].pid = p
About(x) == (\E u : Held(u, x)) \/ \E p \in DOMAIN pda : pda[p].item = x

(* No item is in two objects or in two records; an object and a record that *)
(* hold the same item are paired.                                           *)
Single ==
  /\ \A u, v, x : Held(u, x) /\ Held(v, x) => u = v
  /\ \A p, q \in DOMAIN pda : pda[p].item = pda[q].item => p = q
  /\ \A u, x : \A p \in DOMAIN pda : Held(u, x) /\ pda[p].item = x => Paired(u, p)

(* What is about has been entered.                                          *)
Entered == \A x : About(x) => x[1] <= Cardinality(Items) - left.items

(* An object, and a record, that go in this session.                        *)
Going(u) == InSession /\ u \in DOMAIN ses.changed /\ ses.changed[u] = "deleted"
Doomed(p) ==
  /\ InSession
  /\ \/ p \notin ses.todo /\ pda[p].flag \in {"deleted", "archived"}
     \/ \E u \in ses.queue : Going(u) /\ u \in DOMAIN ses.map.uids /\ ses.map.uids[u].pid = p

(* Where the days of an event are about, the event itself goes.             *)
Splitting(i) == \E x \in Days(i) : About(x)
SplitOnce ==
  \A i \in Long : Splitting(i) =>
    /\ \A u : Held(u, Whole(i)) => Going(u)
    /\ \A p \in DOMAIN pda : pda[p].item = Whole(i) => Doomed(p)
Gone == \A u : Going(u) => u \notin DOMAIN Objects

(* The map marks archived only what the PDA has archived, and touches what  *)
(* has been treated.                                                        *)
Marked ==
  InSession =>
    \A u \in DOMAIN ses.map.uids : ses.map.uids[u].pid \in DOMAIN pda =>
      /\ ses.map.uids[u].archived => pda[ses.map.uids[u].pid].flag = "archived"
      /\ ses.map.touchedOnly /\ ses.map.uids[u].pid \notin ses.todo => ses.map.uids[u].touched

(* Without a wound there are synchronizations only, and they come to an end. *)
Ordered ==
  /\ phase # "idle" => ses.op = "synchronize"
  /\ phase \in {"save", "done"} => ses.todo = {} /\ \A u \in ses.queue : u \notin DOMAIN ses.changed
  /\ phase = "done" => file = WriteMap(ses.map)

Unwounded == Ordered /\ Single /\ Entered /\ SplitOnce /\ Gone /\ Marked

(* What the invariants that are proved above say.                           *)
Known == TInv /\ Located /\ Remembered /\ PairsAgree

---------------------------------------------------------------------------
(* Nobody holds anything new.                                               *)
Fewer ==
  /\ \A u, x : Held(u, x)' => Held(u, x)
  /\ \A p \in DOMAIN pda' : p \in DOMAIN pda /\ pda'[p].item = pda[p].item

(* An object holds one thing, that has been given a uid.                    *)
LEMMA HeldFacts ==
  ASSUME TInv, PairsAgree, NEW u, NEW x, Held(u, x)
  PROVE  /\ u \in Uids /\ u \in Nat /\ u <= uidsUsed /\ x \in Things
         /\ \A y : Held(u, y) => x = y
<1>1. TypeOK
  BY DEF TInv
<1>2. CASE \E s \in Sources : u \in DOMAIN store[s] /\ store[s][u] = x
  <2>1. PICK s \in Sources : u \in DOMAIN store[s] /\ store[s][u] = x
    BY <1>2
  <2>2. u \in Uids /\ u \in Nat /\ u <= uidsUsed /\ x \in Things
    BY <1>1, <2>1, StoreFacts, UidFacts
  <2>3. ASSUME NEW y, Held(u, y)
        PROVE  x = y
    <3>1. CASE \E t \in Sources : u \in DOMAIN store[t] /\ store[t][u] = y
      BY <2>1, <3>1 DEF TInv, Handed
    <3>2. CASE InSession /\ u \in DOMAIN ses.changed /\ ses.listed[u] = y
      BY <2>1, <3>2 DEF InSession, TInv, Handed, PairsAgree
    <3> QED BY <2>3, <3>1, <3>2 DEF Held
  <2> QED BY <2>2, <2>3
<1>3. CASE InSession /\ u \in DOMAIN ses.changed /\ ses.listed[u] = x
  <2>1. phase # "idle" /\ u \in DOMAIN ses.listed
    BY <1>3 DEF InSession, TInv, Handed
  <2>2. u \in Uids /\ u \in Nat /\ u <= uidsUsed /\ x \in Things
    BY <1>1, <1>3, <2>1, SessionFacts, UidFacts
  <2>3. ASSUME NEW y, Held(u, y)
        PROVE  x = y
    BY <1>3, <2>1, <2>3 DEF Held, PairsAgree
  <2> QED BY <2>2, <2>3
<1> QED BY <1>2, <1>3 DEF Held

(* Then no item comes to be twice, as long as the pairs stay.               *)
LEMMA SingleFewer ==
  ASSUME Single, Fewer,
         \A u, x : \A p \in DOMAIN pda' :
           Held(u, x)' /\ pda'[p].item = x /\ Paired(u, p) => Paired(u, p)'
  PROVE  Single'
<1>1. ASSUME NEW u, NEW v, NEW x, Held(u, x)', Held(v, x)'
      PROVE  u = v
  BY <1>1 DEF Single, Fewer
<1>2. ASSUME NEW p \in DOMAIN pda', NEW q \in DOMAIN pda', pda'[p].item = pda'[q].item
      PROVE  p = q
  BY <1>2 DEF Single, Fewer
<1>3. ASSUME NEW u, NEW x, NEW p \in DOMAIN pda', Held(u, x)', pda'[p].item = x
      PROVE  Paired(u, p)'
  <2>1. p \in DOMAIN pda /\ Held(u, x) /\ pda[p].item = x
    BY <1>3 DEF Fewer
  <2>2. Paired(u, p)
    BY <2>1 DEF Single
  <2> QED BY <1>3, <2>2
<1> QED BY <1>1, <1>2, <1>3 DEF Single

(* And nothing comes about that was not.                                    *)
LEMMA FewerAbout ==
  ASSUME Fewer, NEW x, About(x)'
  PROVE  About(x)
<1>1. (\E u : Held(u, x)') \/ \E p \in DOMAIN pda' : pda'[p].item = x
  BY DEF About
<1> QED BY <1>1 DEF Fewer, About

(* As long as nothing comes about: what has been entered ...                *)
LEMMA EnteredStays ==
  ASSUME Entered, left'.items = left.items, \A x : About(x)' => About(x)
  PROVE  Entered'
BY DEF Entered

(* ... and what is split.                                                   *)
LEMMA SplitStays ==
  ASSUME \A x : About(x)' => About(x),
         \A i \in Long : Splitting(i) =>
           /\ \A u : Held(u, Whole(i))' => Going(u)'
           /\ \A p \in DOMAIN pda' : pda'[p].item = Whole(i) => Doomed(p)'
  PROVE  SplitOnce'
<1> SUFFICES ASSUME NEW i \in Long, Splitting(i)'
             PROVE  /\ \A u : Held(u, Whole(i))' => Going(u)'
                    /\ \A p \in DOMAIN pda' : pda'[p].item = Whole(i) => Doomed(p)'
  BY DEF SplitOnce
<1>1. Splitting(i)
  BY DEF Splitting
<1> QED BY <1>1

(* What is split stays split, if who goes goes on going.                    *)
LEMMA SplitFewer ==
  ASSUME SplitOnce, Fewer,
         \A u : \A i \in Long : Held(u, Whole(i))' /\ Going(u) => Going(u)',
         \A i \in Long : \A p \in DOMAIN pda' :
           Splitting(i) /\ pda'[p].item = Whole(i) /\ Doomed(p) => Doomed(p)'
  PROVE  SplitOnce'
<1>1. \A x : About(x)' => About(x)
  BY FewerAbout
<1>2. ASSUME NEW i \in Long, Splitting(i)
      PROVE  /\ \A u : Held(u, Whole(i))' => Going(u)'
             /\ \A p \in DOMAIN pda' : pda'[p].item = Whole(i) => Doomed(p)'
  <2>1. /\ \A u : Held(u, Whole(i)) => Going(u)
        /\ \A p \in DOMAIN pda : pda[p].item = Whole(i) => Doomed(p)
    BY <1>2 DEF SplitOnce
  <2> QED BY <1>2, <2>1 DEF Fewer
<1> QED BY <1>1, <1>2, SplitStays

(* Who holds what after a handler that adds nothing to the store.           *)
LEMMA HandlerHeld ==
  ASSUME TInv, InHandler, NEW w, NEW M, NEW C, NEW Q, NEW T, Hands(M, C, Q, T),
         StoreStays \/ StoreLoses(w), DOMAIN C \subseteq DOMAIN ses.changed
  PROVE  /\ \A u, x : Held(u, x)' => Held(u, x)
         /\ StoreLoses(w) /\ w \notin DOMAIN C /\ OfSource({w}, ses.cfg.source, store)
              => \A x : ~Held(w, x)'
<1>1. /\ phase # "idle" /\ phase = "running" /\ phase' = "running" /\ TypeOK
      /\ ses.cfg.source \in Sources
  BY UidFacts DEF InHandler, TInv
<1>2. ses'.changed = C /\ ses'.listed = ses.listed
  BY <1>1, HandsFields
<1>3. \A s \in Sources : /\ DOMAIN store'[s] \subseteq DOMAIN store[s]
                         /\ \A v \in DOMAIN store'[s] : store'[s][v] = store[s][v]
  BY <1>1, StoreLess
<1>4. \A u, x : Held(u, x)' => Held(u, x)
  BY <1>1, <1>2, <1>3 DEF Held, InSession
<1>5. ASSUME StoreLoses(w), w \notin DOMAIN C, OfSource({w}, ses.cfg.source, store),
             NEW x, Held(w, x)'
      PROVE  FALSE
  <2>1. PICK s \in Sources : w \in DOMAIN store'[s]
    BY <1>2, <1>5 DEF Held
  <2>2. s = ses.cfg.source
    BY <1>3, <1>5, <2>1 DEF OfSource
  <2> QED BY <1>1, <1>5, <2>1, <2>2, StoreLost
<1> QED BY <1>4, <1>5

(* A handler that is about w and pairs nothing new keeps the pairs.         *)
LEMMA HandlerSingle ==
  ASSUME Single, InHandler, TInv, NEW w, NEW M, NEW C, NEW Q, NEW T, Hands(M, C, Q, T),
         Beyond(M, ses.map, w, 0), Fewer,
         \/ \A x : ~Held(w, x)'
         \/ w \in DOMAIN ses.map.uids =>
              w \in DOMAIN M.uids /\ M.uids[w].pid = ses.map.uids[w].pid
  PROVE  Single'
<1>1. phase # "idle" /\ InSession /\ InSession' /\ TypeOK
  BY DEF InHandler, InSession, TInv
<1>2. ses'.map = M
  BY <1>1, HandsFields
<1>3. ASSUME NEW u, NEW x, NEW p, Held(u, x)', Paired(u, p)
      PROVE  Paired(u, p)'
  <2>1. u \in DOMAIN ses.map.uids /\ ses.map.uids[u].pid = p
    BY <1>1, <1>3 DEF Paired
  <2>2. u \in DOMAIN M.uids /\ M.uids[u].pid = p
    BY <1>3, <2>1 DEF Beyond
  <2> QED BY <1>1, <1>2, <2>2 DEF Paired
<1> QED BY <1>3, SingleFewer

(* And what is split, if w goes on going or is gone.                        *)
LEMMA HandlerSplit ==
  ASSUME SplitOnce, Gone, InHandler, TInv, NEW w, NEW M, NEW C, NEW Q, NEW T, Hands(M, C, Q, T),
         Fewer, StoreStays \/ StoreLoses(w), C \in {ses.changed, Without(ses.changed, w)},
         w \in DOMAIN C \/ ~Going(w) \/ \A x : ~Held(w, x)',
         \A i \in Long : \A p \in DOMAIN pda' :
           Splitting(i) /\ pda'[p].item = Whole(i) /\ Doomed(p) => Doomed(p)'
  PROVE  SplitOnce' /\ Gone'
<1>1. phase # "idle" /\ InSession /\ InSession' /\ TypeOK
  BY DEF InHandler, InSession, TInv
<1>2. ses'.changed = C /\ ses'.cfg = ses.cfg
  BY <1>1, HandsFields
<1>3. /\ \A u \in DOMAIN C : u \in DOMAIN ses.changed /\ C[u] = ses.changed[u]
      /\ \A u \in DOMAIN ses.changed : u # w => u \in DOMAIN C
  BY DEF Without
<1>4. \A u : u # w \/ u \in DOMAIN C => (Going(u) => Going(u)')
  BY <1>1, <1>2, <1>3 DEF Going
<1>5. SplitOnce'
  BY <1>4, SplitFewer
<1>6. \A u : Going(u)' => Going(u)
  BY <1>1, <1>2, <1>3 DEF Going
<1>7. \A u : u \in DOMAIN Objects' => u \in DOMAIN Objects
  BY <1>2, FewerObjects
<1>8. Gone'
  BY <1>6, <1>7 DEF Gone
<1> QED BY <1>5, <1>8

(* A record that goes goes on going, unless it is that of w.                *)
LEMMA HandlerDoomed ==
  ASSUME InHandler, TInv, NEW w, NEW M, NEW C, NEW Q, NEW T, Hands(M, C, Q, T),
         Beyond(M, ses.map, w, 0), C \in {ses.changed, Without(ses.changed, w)},
         Q \in {ses.queue, ses.queue \ {w}}, T \subseteq ses.todo,
         NEW p \in DOMAIN pda', p \in DOMAIN pda, pda'[p].flag = pda[p].flag, Doomed(p)
  PROVE  \/ Doomed(p)'
         \/ Going(w) /\ w \in ses.queue /\ w \in DOMAIN ses.map.uids /\ ses.map.uids[w].pid = p
<1>1. phase # "idle" /\ InSession /\ InSession' /\ TypeOK
  BY DEF InHandler, InSession, TInv
<1>2. ses'.map = M /\ ses'.changed = C /\ ses'.queue = Q /\ ses'.todo = T
  BY <1>1, HandsFields
<1>3. CASE p \notin ses.todo /\ pda[p].flag \in {"deleted", "archived"}
  BY <1>1, <1>2, <1>3 DEF Doomed
<1>4. CASE \E u \in ses.queue : Going(u) /\ u \in DOMAIN ses.map.uids /\ ses.map.uids[u].pid = p
  <2>1. PICK u \in ses.queue : Going(u) /\ u \in DOMAIN ses.map.uids /\ ses.map.uids[u].pid = p
    BY <1>4
  <2>2. CASE u # w
    <3>1. u \in Q /\ u \in DOMAIN C /\ C[u] = ses.changed[u]
      BY <2>1, <2>2 DEF Going, Without
    <3>2. u \in DOMAIN M.uids /\ M.uids[u].pid = p
      BY <2>1, <2>2 DEF Beyond
    <3> QED BY <1>1, <1>2, <2>1, <3>1, <3>2 DEF Doomed, Going
  <2> QED BY <2>1, <2>2
<1> QED BY <1>3, <1>4 DEF Doomed

(* Marks that stay, and the mark of w.                                      *)
LEMMA HandlerMarked ==
  ASSUME Marked, InHandler, TInv, NEW w, NEW M, NEW C, NEW Q, NEW T, Hands(M, C, Q, T),
         Beyond(M, ses.map, w, 0),
         \A u \in DOMAIN ses.map.uids \ {w} :
           LET p == ses.map.uids[u].pid
           IN p \in DOMAIN pda' =>
                /\ p \in DOMAIN pda /\ pda'[p].flag = pda[p].flag
                /\ p \in ses.todo => p \in T,
         w \in DOMAIN M.uids /\ M.uids[w].pid \in DOMAIN pda' =>
           /\ M.uids[w].touched
           /\ M.uids[w].archived => pda'[M.uids[w].pid].flag = "archived"
  PROVE  Marked'
<1>1. phase # "idle" /\ InSession /\ InSession' /\ TypeOK
  BY DEF InHandler, InSession, TInv
<1>2. ses'.map = M /\ ses'.todo = T
  BY <1>1, HandsFields
<1>3. ASSUME NEW u \in DOMAIN M.uids, M.uids[u].pid \in DOMAIN pda', u # w
      PROVE  /\ M.uids[u].archived => pda'[M.uids[u].pid].flag = "archived"
             /\ M.touchedOnly /\ M.uids[u].pid \notin T => M.uids[u].touched
  <2>1. /\ u \in DOMAIN ses.map.uids /\ M.uids[u].pid = ses.map.uids[u].pid
        /\ M.uids[u].archived = ses.map.uids[u].archived
        /\ ses.map.uids[u].touched => M.uids[u].touched
        /\ M.touchedOnly = ses.map.touchedOnly
    BY <1>3 DEF Beyond
  <2> QED BY <1>1, <1>3, <2>1 DEF Marked
<1> QED BY <1>1, <1>2, <1>3 DEF Marked

-------------------------------------------------------------------------------
(* What each form of a handler does to the pairs.                           *)

(* A handler is of a synchronization, and stays in it.                      *)
LEMMA OrderedStays ==
  ASSUME Ordered, InHandler, TInv, NEW M, NEW C, NEW Q, NEW T, Hands(M, C, Q, T)
  PROVE  Ordered'
<1>1. phase = "running" /\ phase' = "running" /\ TypeOK /\ phase # "idle"
  BY DEF InHandler, TInv
<1>2. ses'.op = ses.op
  BY <1>1, HandsFields
<1> QED BY <1>1, <1>2 DEF Ordered

(* A uid of the map is in no other source.                                  *)
LEMMA OnlyHere ==
  ASSUME Known, wounds = {}, phase # "idle", NEW w,
         w \in DOMAIN ses.map.uids \/ w \in DOMAIN ses.listed
  PROVE  OfSource({w}, ses.cfg.source, store)
<1>1. Sound
  BY DEF Sound
<1> QED BY <1>1 DEF Known, Located, OfSource

(* A record that the desktop does not know and the PDA has deleted.         *)
LEMMA UnwoundedIgnored ==
  ASSUME Known, Unwounded, wounds = {}, InHandler, NEW p \in ses.todo, p \in DOMAIN pda, Ignored(p)
  PROVE  Unwounded'
<1> DEFINE T == ses.todo \ {p}
<1>1. /\ Hands(ses.map, ses.changed, ses.queue, T) /\ StoreStays /\ pda' = pda
      /\ p \notin DOMAIN ses.map.pids
  BY DEF Ignored, PdaStays
<1>2. /\ TInv /\ TypeOK /\ phase # "idle" /\ GoodMap(ses.map) /\ left' = left
      /\ T \subseteq ses.todo
  BY DEF Known, TInv, IInv, GoodSession, InHandler
<1>3. Beyond(ses.map, ses.map, 0, 0)
  BY <1>2, BeyondItself
<1>4. 0 \notin DOMAIN ses.map.uids /\ 0 \notin DOMAIN ses.changed
  BY <1>2, SessionFacts, InverseFacts, Counters
<1>5. Fewer
  <2>1. \A u, x : Held(u, x)' => Held(u, x)
    BY <1>1, <1>2, HandlerHeld
  <2> QED BY <1>1, <2>1 DEF Fewer
<1> HIDE DEF T
<1>6. Single'
  BY <1>1, <1>2, <1>3, <1>4, <1>5, HandlerSingle DEF Unwounded
<1>7. \A q \in DOMAIN pda' : Doomed(q) => Doomed(q)'
  BY <1>1, <1>2, <1>3, <1>4, HandlerDoomed
<1>8. SplitOnce' /\ Gone'
  <2>1. ~Going(0)
    BY <1>4 DEF Going
  <2> QED BY <1>1, <1>2, <1>5, <1>7, <2>1, HandlerSplit DEF Unwounded
<1>9. Marked'
  <2>1. ASSUME NEW u \in DOMAIN ses.map.uids, ses.map.uids[u].pid \in DOMAIN pda
        PROVE  ses.map.uids[u].pid # p
    <3>1. ses.map.uids[u].pid # 0
      BY <1>2, <2>1, PdaFacts, Counters
    <3>2. ses.map.uids[u].pid \in DOMAIN ses.map.pids
      BY ONLY <1>2, <3>1, PairedBack
    <3> QED BY <1>1, <3>2
  <2>2. \A u \in DOMAIN ses.map.uids \ {0} :
          LET q == ses.map.uids[u].pid
          IN q \in DOMAIN pda' =>
               /\ q \in DOMAIN pda /\ pda'[q].flag = pda[q].flag
               /\ q \in ses.todo => q \in T
    BY <1>1, <2>1 DEF T
  <2> QED BY <1>1, <1>2, <1>3, <1>4, <2>2, HandlerMarked DEF Unwounded
<1>10. Entered'
  BY <1>2, <1>5, FewerAbout, EnteredStays DEF Unwounded
<1>11. Ordered'
  BY <1>1, <1>2, OrderedStays DEF Unwounded
<1> QED BY <1>6, <1>8, <1>9, <1>10, <1>11 DEF Unwounded

(* A record that is deleted, and its object with it.                        *)
LEMMA UnwoundedRemoved ==
  ASSUME Known, Unwounded, wounds = {}, InHandler, NEW p \in ses.todo, p \in DOMAIN pda,
         NEW w, NEW M, Removed(p, w, M)
  PROVE  Unwounded'
<1> DEFINE T == ses.todo \ {p}
           C == Without(ses.changed, w)
<1>1. /\ Hands(M, C, ses.queue, T) /\ StoreLoses(w) /\ pda' = pda
      /\ Beyond(M, ses.map, w, 0) /\ w \notin DOMAIN M.uids
      /\ w \in DOMAIN ses.map.uids /\ ses.map.uids[w].pid = p
      /\ p \in DOMAIN ses.map.pids /\ w = ses.map.pids[p].uid
      /\ pda[p].flag = "deleted"
  BY DEF Removed, PdaStays, MatchedUid
<1>2. /\ TInv /\ TypeOK /\ phase # "idle" /\ GoodMap(ses.map) /\ left' = left
      /\ T \subseteq ses.todo /\ p \notin T
      /\ DOMAIN C \subseteq DOMAIN ses.changed /\ w \notin DOMAIN C
  BY DEF Known, TInv, IInv, GoodSession, InHandler, Without
<1>3. OfSource({w}, ses.cfg.source, store)
  BY <1>1, <1>2, OnlyHere
<1>4. C \in {ses.changed, Without(ses.changed, w)}
  OBVIOUS
<1> HIDE DEF T, C
<1>5. Fewer /\ \A x : ~Held(w, x)'
  <2>1. (\A u, x : Held(u, x)' => Held(u, x)) /\ \A x : ~Held(w, x)'
    BY <1>1, <1>2, <1>3, HandlerHeld
  <2> QED BY <1>1, <2>1 DEF Fewer
<1>6. Single'
  BY <1>1, <1>2, <1>5, HandlerSingle DEF Unwounded
<1>7. \A q \in DOMAIN pda' : Doomed(q) => Doomed(q)'
  <2>1. Doomed(p)'
    <3>1. ses'.todo = T /\ phase' = "running"
      BY <1>1, <1>2, HandsFields DEF InHandler
    <3> QED BY <1>1, <1>2, <3>1 DEF Doomed, InSession
  <2> QED BY <1>1, <1>2, <1>4, <2>1, HandlerDoomed
<1>8. SplitOnce' /\ Gone'
  BY <1>1, <1>2, <1>4, <1>5, <1>7, HandlerSplit DEF Unwounded
<1>9. Marked'
  <2>1. \A u \in DOMAIN ses.map.uids \ {w} :
          LET q == ses.map.uids[u].pid
          IN q \in DOMAIN pda' =>
               /\ q \in DOMAIN pda /\ pda'[q].flag = pda[q].flag
               /\ q \in ses.todo => q \in T
    <3>1. \A q \in DOMAIN pda' : q \in DOMAIN pda /\ pda'[q].flag = pda[q].flag
      BY <1>1
    <3>2. \A u \in DOMAIN ses.map.uids \ {w} : ses.map.uids[u].pid # p
      BY <1>1, <1>2, OnlyPartner
    <3> QED BY <3>1, <3>2 DEF T
  <2> QED BY <1>1, <1>2, <2>1, HandlerMarked DEF Unwounded
<1>10. Entered'
  BY <1>2, <1>5, FewerAbout, EnteredStays DEF Unwounded
<1>11. Ordered'
  BY <1>1, <1>2, OrderedStays DEF Unwounded
<1> QED BY <1>6, <1>8, <1>9, <1>10, <1>11 DEF Unwounded

(* A record that is matched: left alone, or replacing its object, or        *)
(* archived.                                                                *)
LEMMA UnwoundedSettled ==
  ASSUME Known, Unwounded, wounds = {}, InHandler, NEW p \in ses.todo, p \in DOMAIN pda,
         NEW w, NEW M, NEW C, NEW a \in BOOLEAN, Settled(p, w, M, C, a)
  PROVE  Unwounded'
<1> DEFINE T == ses.todo \ {p}
<1>1. /\ Hands(M, C, ses.queue, T) /\ StoreStays /\ pda' = pda
      /\ Beyond(M, ses.map, w, 0)
      /\ w \in DOMAIN ses.map.uids /\ ses.map.uids[w].pid = p
      /\ p \in DOMAIN ses.map.pids /\ w = ses.map.pids[p].uid
      /\ w \in DOMAIN M.uids /\ M.uids[w] = [pid |-> p, archived |-> a, touched |-> TRUE]
      /\ \/ C = ses.changed /\ a = ses.map.uids[w].archived
         \/ /\ C = Without(ses.changed, w) /\ a = ses.map.uids[w].archived
            /\ w \in DOMAIN Objects /\ pda[p].flag = "dirty"
         \/ C = Without(ses.changed, w) /\ a = TRUE /\ pda[p].flag = "archived"
  BY DEF Settled, PdaStays, MatchedUid
<1>2. /\ TInv /\ TypeOK /\ phase # "idle" /\ GoodMap(ses.map) /\ left' = left
      /\ T \subseteq ses.todo /\ p \notin T
  BY DEF Known, TInv, IInv, GoodSession, InHandler
<1>3. OfSource({w}, ses.cfg.source, store)
  BY <1>1, <1>2, OnlyHere
<1>4. /\ C \in {ses.changed, Without(ses.changed, w)}
      /\ DOMAIN C \subseteq DOMAIN ses.changed
      /\ w \notin DOMAIN C \/ C = ses.changed
  BY <1>1 DEF Without
<1>a. M.uids[w].pid = p /\ M.uids[w].archived = a /\ M.uids[w].touched
  <2>1. M.uids[w] = [pid |-> p, archived |-> a, touched |-> TRUE]
    BY <1>1, Zenon
  <2> QED BY ONLY <2>1
<1> HIDE DEF T
<1>5. Fewer
  <2>1. \A u, x : Held(u, x)' => Held(u, x)
    BY <1>1, <1>2, <1>4, HandlerHeld
  <2> QED BY <1>1, <2>1 DEF Fewer
<1>6. Single'
  BY <1>1, <1>2, <1>5, <1>a, HandlerSingle DEF Unwounded
<1>b. ses'.todo = T /\ ses'.changed = C /\ phase' = "running" /\ phase = "running"
      /\ ses'.queue = ses.queue /\ ses'.map = M
  BY <1>1, <1>2, HandsFields DEF InHandler
<1>c. Gone
  BY DEF Unwounded
<1>7. \A q \in DOMAIN pda' : Doomed(q) => Doomed(q)'
  <2>1. ASSUME Going(w), w \in ses.queue, Doomed(p)
        PROVE  Doomed(p)'
    <3>1. CASE pda[p].flag = "archived"
      BY <1>1, <1>2, <1>b, <3>1 DEF Doomed, InSession
    <3>2. CASE pda[p].flag # "archived"
      <4>1. C = ses.changed
        BY <1>1, <1>c, <2>1, <3>2 DEF Gone
      <4>2. Going(w)'
        BY <1>b, <2>1, <4>1 DEF Going, InSession
      <4> QED BY <1>1, <1>a, <1>b, <2>1, <4>2 DEF Doomed, InSession
    <3> QED BY <3>1, <3>2
  <2> QED BY <1>1, <1>2, <1>4, <2>1, HandlerDoomed
<1>8. SplitOnce' /\ Gone'
  <2>1. w \in DOMAIN C \/ ~Going(w) \/ \A x : ~Held(w, x)'
    <3> SUFFICES ASSUME w \notin DOMAIN C, Going(w), NEW x, Held(w, x)'
                 PROVE  FALSE
      OBVIOUS
    <3>1. PICK s \in Sources : w \in DOMAIN store[s]
      BY <1>1, <1>b DEF Held, StoreStays
    <3>2. w \notin DOMAIN Objects
      BY <1>c DEF Gone
    <3> QED BY <1>3, <3>1, <3>2 DEF OfSource, Objects
  <2> QED BY <1>1, <1>2, <1>4, <1>5, <1>7, <2>1, HandlerSplit DEF Unwounded
<1>9. Marked'
  <2>1. \A u \in DOMAIN ses.map.uids \ {w} :
          LET q == ses.map.uids[u].pid
          IN q \in DOMAIN pda' =>
               /\ q \in DOMAIN pda /\ pda'[q].flag = pda[q].flag
               /\ q \in ses.todo => q \in T
    <3>1. \A u \in DOMAIN ses.map.uids \ {w} : ses.map.uids[u].pid # p
      BY <1>1, <1>2, OnlyPartner
    <3> QED BY <1>1, <3>1 DEF T
  <2>2. M.uids[w].archived => pda'[M.uids[w].pid].flag = "archived"
    <3>1. Marked /\ InSession
      BY <1>b DEF Unwounded, InSession
    <3>2. ses.map.uids[w].archived => pda[p].flag = "archived"
      BY <1>1, <3>1 DEF Marked
    <3> QED BY <1>1, <1>a, <3>2
  <2> QED BY <1>1, <1>2, <1>a, <2>1, <2>2, HandlerMarked DEF Unwounded
<1>10. Entered'
  BY <1>2, <1>5, FewerAbout, EnteredStays DEF Unwounded
<1>11. Ordered'
  BY <1>1, <1>2, OrderedStays DEF Unwounded
<1> QED BY <1>6, <1>8, <1>9, <1>10, <1>11 DEF Unwounded

(* A record that the desktop does not know becomes an object.               *)
LEMMA UnwoundedAdded ==
  ASSUME Known, Unwounded, wounds = {}, InHandler, NEW p \in ses.todo, p \in DOMAIN pda,
         p \notin DOMAIN ses.map.pids, NEW M, Added(p, M, ses.queue)
  PROVE  Unwounded'
<1> DEFINE T == ses.todo \ {p}
           x == pda[p].item
<1>1. /\ Hands(M, ses.changed, ses.queue, T) /\ StoreGains(x) /\ pda' = pda
      /\ Beyond(M, ses.map, NewUid, p)
      /\ NewUid \in DOMAIN M.uids
      /\ M.uids[NewUid] = [pid |-> p, archived |-> FALSE, touched |-> TRUE]
  BY DEF Added, PdaStays
<1>2. /\ TInv /\ TypeOK /\ PairsAgree /\ phase # "idle" /\ GoodMap(ses.map) /\ left' = left
      /\ T \subseteq ses.todo /\ p \notin T
      /\ phase = "running" /\ phase' = "running" /\ InSession /\ InSession'
  BY DEF Known, TInv, IInv, GoodSession, InHandler, InSession
<1>3. ~M.uids[NewUid].archived /\ M.uids[NewUid].touched /\ M.uids[NewUid].pid = p
  BY <1>1
<1>4. \A v \in DOMAIN ses.map.uids : ses.map.uids[v].pid # p
  <2>1. p # 0
    BY <1>2, PdaFacts, NoPidIsZero
  <2> QED BY <1>2, <2>1, PairedBack
<1>5. Beyond(M, ses.map, NewUid, 0)
  BY <1>1, <1>4, BeyondUnpaired
<1>6. /\ ses'.map = M /\ ses'.changed = ses.changed /\ ses'.listed = ses.listed
      /\ ses'.queue = ses.queue /\ ses'.todo = T /\ ses'.cfg = ses.cfg
  BY <1>1, <1>2, HandsFields
<1>7. /\ x \in Things /\ ses.cfg.source \in Sources /\ uidsUsed \in Nat /\ NewUid = uidsUsed + 1
  BY <1>2, PdaFacts, UidFacts, Counters
<1>8. /\ \A u, y : Held(u, y) => u # NewUid
      /\ NewUid \notin DOMAIN ses.changed
  <2>1. ASSUME NEW u, NEW y, Held(u, y)
        PROVE  u # NewUid
    <3>1. u \in Nat /\ u <= uidsUsed
      BY <1>2, <2>1, HeldFacts
    <3> QED BY <1>7, <3>1
  <2>2. NewUid \notin DOMAIN ses.changed
    <3>1. \A u \in DOMAIN ses.listed : u \in Nat /\ u <= uidsUsed
      BY <1>2, UidFacts
    <3> QED BY <1>2, <1>7, <3>1 DEF TInv, Handed
  <2> QED BY <2>1, <2>2
<1>9. \A s \in Sources :
        /\ \A v : v \in DOMAIN store'[s]
             <=> v \in DOMAIN store[s] \/ (v = NewUid /\ s = ses.cfg.source)
        /\ \A v \in DOMAIN store[s] : v # NewUid => store'[s][v] = store[s][v]
  BY <1>1, <1>2, <1>7, StoreMore
<1>10. store'[ses.cfg.source][NewUid] = x
  BY <1>1, <1>2, <1>7, StoreMore
<1> HIDE DEF T, x
<1>11. ASSUME NEW u, NEW y, Held(u, y)'
       PROVE  Held(u, y) \/ (u = NewUid /\ y = x)
  <2>1. CASE \E s \in Sources : u \in DOMAIN store'[s] /\ store'[s][u] = y
    <3>1. PICK s \in Sources : u \in DOMAIN store'[s] /\ store'[s][u] = y
      BY <2>1
    <3>2. CASE u = NewUid
      <4>1. u \notin DOMAIN store[s]
        BY <1>8, <3>2 DEF Held
      <4> QED BY <1>9, <1>10, <3>1, <3>2, <4>1
    <3>3. CASE u # NewUid
      BY <1>9, <3>1, <3>3 DEF Held
    <3> QED BY <3>2, <3>3
  <2>2. CASE InSession' /\ u \in DOMAIN ses'.changed /\ ses'.listed[u] = y
    BY <1>2, <1>6, <2>2 DEF Held
  <2> QED BY <1>11, <2>1, <2>2 DEF Held
<1>12. \A v : ~Held(v, x)
  <2> SUFFICES ASSUME NEW v, Held(v, x)
               PROVE  FALSE
    OBVIOUS
  <2>1. Paired(v, p)
    BY DEF Unwounded, Single, x
  <2> QED BY <1>2, <1>4, <2>1 DEF Paired
<1>13. Single'
  <2>1. ASSUME NEW u, NEW v, NEW y, Held(u, y)', Held(v, y)'
        PROVE  u = v
    BY <1>11, <1>12, <2>1 DEF Unwounded, Single
  <2>2. \A q, r \in DOMAIN pda' : pda'[q].item = pda'[r].item => q = r
    BY <1>1 DEF Unwounded, Single
  <2>3. ASSUME NEW u, NEW y, NEW q \in DOMAIN pda', Held(u, y)', pda'[q].item = y
        PROVE  Paired(u, q)'
    <3>1. CASE Held(u, y)
      <4>1. Paired(u, q)
        BY <1>1, <2>3, <3>1 DEF Unwounded, Single
      <4>2. u # NewUid /\ u \in DOMAIN ses.map.uids /\ ses.map.uids[u].pid = q
        BY <1>2, <1>8, <3>1, <4>1 DEF Paired
      <4>3. u \in DOMAIN M.uids /\ M.uids[u].pid = q
        BY <1>5, <4>2 DEF Beyond
      <4> QED BY <1>2, <1>6, <4>3 DEF Paired
    <3>2. CASE u = NewUid /\ y = x
      <4>1. q = p
        BY <1>1, <2>3, <3>2 DEF Unwounded, Single, x
      <4> QED BY <1>1, <1>2, <1>3, <1>6, <3>2, <4>1 DEF Paired
    <3> QED BY <1>11, <2>3, <3>1, <3>2
  <2> QED BY <2>1, <2>2, <2>3 DEF Single
<1>14. ASSUME NEW y, About(y)'
       PROVE  About(y)
  <2>1. CASE \E u : Held(u, y)'
    BY <1>11, <2>1 DEF About, x
  <2>2. CASE \E q \in DOMAIN pda' : pda'[q].item = y
    BY <1>1, <2>2 DEF About
  <2> QED BY <1>14, <2>1, <2>2 DEF About
<1>15. \A u : Going(u)' <=> Going(u)
  BY <1>2, <1>6 DEF Going
<1>16. \A q \in DOMAIN pda' : Doomed(q) => Doomed(q)'
  <2>1. ~Going(NewUid)
    BY <1>8 DEF Going
  <2> QED BY <1>1, <1>2, <1>5, <2>1, HandlerDoomed
<1>17. SplitOnce'
  <2>1. ASSUME NEW i \in Long, Splitting(i)
        PROVE  /\ \A u : Held(u, Whole(i))' => Going(u)'
               /\ \A q \in DOMAIN pda' : pda'[q].item = Whole(i) => Doomed(q)'
    <3>1. /\ \A u : Held(u, Whole(i)) => Going(u)
          /\ \A q \in DOMAIN pda : pda[q].item = Whole(i) => Doomed(q)
      BY <2>1 DEF Unwounded, SplitOnce
    <3>2. x # Whole(i)
      <4>1. ~Doomed(p)
        BY <1>4 DEF Doomed
      <4> QED BY <3>1, <4>1 DEF x
    <3> QED BY <1>1, <1>11, <1>15, <1>16, <3>1, <3>2
  <2> QED BY <1>14, <2>1, SplitStays
<1>18. Gone'
  <2>1. ASSUME NEW u, Going(u)'
        PROVE  u \notin DOMAIN Objects'
    <3>1. u # NewUid /\ u \notin DOMAIN Objects
      BY <1>8, <1>15, <2>1 DEF Going, Unwounded, Gone
    <3> QED BY <1>6, <1>7, <1>9, <3>1 DEF Objects
  <2> QED BY <2>1 DEF Gone
<1>19. Marked'
  <2>1. \A u \in DOMAIN ses.map.uids \ {NewUid} :
          LET q == ses.map.uids[u].pid
          IN q \in DOMAIN pda' =>
               /\ q \in DOMAIN pda /\ pda'[q].flag = pda[q].flag
               /\ q \in ses.todo => q \in T
    BY <1>1, <1>4 DEF T
  <2> QED BY <1>1, <1>2, <1>3, <1>5, <2>1, HandlerMarked DEF Unwounded
<1>20. Entered'
  BY <1>2, <1>14, EnteredStays DEF Unwounded
<1>21. Ordered'
  BY <1>1, <1>2, OrderedStays DEF Unwounded
<1> QED BY <1>13, <1>17, <1>18, <1>19, <1>20, <1>21 DEF Unwounded

---------------------------------------------------------------------------
(* An object that was split, and its record with it.                        *)
LEMMA UnwoundedDeletion ==
  ASSUME Known, Unwounded, wounds = {}, InHandler, NEW u \in DOMAIN ses.changed, NEW M,
         SentDeletion(u, M)
  PROVE  Unwounded'
<1> DEFINE C == Without(ses.changed, u)
           Q == ses.queue \ {u}
           p == LookupPid(ses.map, u)
<1>1. /\ Hands(M, C, Q, ses.todo) /\ StoreLoses(u) /\ PdaLoses(p)
      /\ Beyond(M, ses.map, u, 0) /\ u \notin DOMAIN M.uids
  BY DEF SentDeletion
<1>2. /\ TInv /\ TypeOK /\ phase # "idle" /\ GoodMap(ses.map) /\ left' = left
      /\ DOMAIN C \subseteq DOMAIN ses.changed /\ u \notin DOMAIN C
      /\ u \in DOMAIN ses.listed
  BY DEF Known, TInv, IInv, GoodSession, InHandler, Without, Handed
<1>3. OfSource({u}, ses.cfg.source, store)
  BY <1>2, OnlyHere
<1>4. /\ C \in {ses.changed, Without(ses.changed, u)}
      /\ Q \in {ses.queue, ses.queue \ {u}}
  OBVIOUS
<1>5. u \in DOMAIN ses.map.uids => ses.map.uids[u].pid = p
  BY DEF LookupPid
<1> HIDE DEF C, Q, p
<1>6. /\ DOMAIN pda' \subseteq DOMAIN pda /\ p \notin DOMAIN pda'
      /\ \A q \in DOMAIN pda' : pda'[q] = pda[q]
  BY <1>1, <1>2, PdaLess
<1>7. Fewer /\ \A x : ~Held(u, x)'
  <2>1. (\A v, x : Held(v, x)' => Held(v, x)) /\ \A x : ~Held(u, x)'
    BY <1>1, <1>2, <1>3, HandlerHeld
  <2> QED BY <1>6, <2>1 DEF Fewer
<1>8. Single'
  BY <1>1, <1>2, <1>7, HandlerSingle DEF Unwounded
<1>9. \A q \in DOMAIN pda' : Doomed(q) => Doomed(q)'
  BY <1>1, <1>2, <1>4, <1>5, <1>6, HandlerDoomed
<1>10. SplitOnce' /\ Gone'
  BY <1>1, <1>2, <1>4, <1>7, <1>9, HandlerSplit DEF Unwounded
<1>11. Marked'
  <2>1. \A v \in DOMAIN ses.map.uids \ {u} :
          LET q == ses.map.uids[v].pid
          IN q \in DOMAIN pda' =>
               /\ q \in DOMAIN pda /\ pda'[q].flag = pda[q].flag
               /\ q \in ses.todo => q \in ses.todo
    BY <1>6
  <2> QED BY <1>1, <1>2, <2>1, HandlerMarked DEF Unwounded
<1>12. Entered'
  BY <1>2, <1>7, FewerAbout, EnteredStays DEF Unwounded
<1>13. Ordered'
  BY <1>1, <1>2, OrderedStays DEF Unwounded
<1> QED BY <1>8, <1>10, <1>11, <1>12, <1>13 DEF Unwounded

(* An object that changed is written into its record: it holds the same.    *)
LEMMA UnwoundedChanged ==
  ASSUME Known, Unwounded, wounds = {}, InHandler, NEW u \in DOMAIN ses.changed, NEW p, NEW M,
         u \in ses.queue, SentChanged(u, p, M)
  PROVE  Unwounded'
<1> DEFINE C == Without(ses.changed, u)
           Q == ses.queue \ {u}
           x == ses.listed[u]
<1>1. /\ Hands(M, C, Q, ses.todo) /\ StoreStays /\ PdaChanges(p, x)
      /\ Beyond(M, ses.map, u, 0) /\ u \in DOMAIN M.uids
      /\ u \in DOMAIN ses.map.uids /\ p = ses.map.uids[u].pid /\ p \in DOMAIN pda
      /\ M.uids[u] = [pid |-> p, archived |-> ses.map.uids[u].archived, touched |-> TRUE]
      /\ ses.changed[u] # "deleted"
  BY DEF SentChanged, Status
<1>2. /\ TInv /\ TypeOK /\ phase # "idle" /\ GoodMap(ses.map) /\ left' = left
      /\ DOMAIN C \subseteq DOMAIN ses.changed /\ u \notin DOMAIN C
      /\ u \in DOMAIN ses.listed /\ PairsAgree /\ InSession
      /\ ~UidIsArchived(ses.map, u)
  BY DEF Known, TInv, IInv, GoodSession, InHandler, Without, Handed, InSession, Remembered
<1>3. M.uids[u].pid = p /\ ~M.uids[u].archived /\ M.uids[u].touched
  BY <1>1, <1>2 DEF UidIsArchived
<1>4. /\ C \in {ses.changed, Without(ses.changed, u)}
      /\ Q \in {ses.queue, ses.queue \ {u}}
  OBVIOUS
<1>5. x \in Things /\ pda[p].item = x
  BY <1>1, <1>2, SessionFacts DEF PairsAgree
<1>6. Held(u, x)
  BY <1>2 DEF Held
<1> HIDE DEF C, Q, x
<1>7. /\ DOMAIN pda' = DOMAIN pda
      /\ \A q \in DOMAIN pda : q # p => pda'[q] = pda[q]
      /\ pda'[p].item = x
  <2>1. /\ DOMAIN pda' = DOMAIN pda
        /\ \A q \in DOMAIN pda : q # p => pda'[q] = pda[q]
        /\ pda'[p] = [item |-> x, flag |-> "none"]
    BY <1>1, <1>2, <1>5, PdaOverwritten
  <2> QED BY <2>1
<1>8. Fewer
  <2>1. \A v, y : Held(v, y)' => Held(v, y)
    BY <1>1, <1>2, HandlerHeld
  <2> QED BY <1>5, <1>7, <2>1 DEF Fewer
<1>9. Single'
  BY <1>1, <1>2, <1>3, <1>8, HandlerSingle DEF Unwounded
<1>10. ~Going(u)
  BY <1>1 DEF Going
<1>11. ASSUME NEW i \in Long, NEW q \in DOMAIN pda',
              Splitting(i), pda'[q].item = Whole(i), Doomed(q)
       PROVE  Doomed(q)'
  <2>1. q # p
    <3>1. \A v : Held(v, Whole(i)) => Going(v)
      BY <1>11 DEF Unwounded, SplitOnce
    <3> QED BY <1>6, <1>7, <1>10, <1>11, <3>1
  <2>2. q \in DOMAIN pda /\ pda'[q].flag = pda[q].flag
    BY <1>7, <2>1
  <2> QED BY <1>1, <1>2, <1>4, <1>10, <1>11, <2>2, HandlerDoomed
<1>12. SplitOnce' /\ Gone'
  BY <1>1, <1>2, <1>4, <1>8, <1>10, <1>11, HandlerSplit DEF Unwounded
<1>13. Marked'
  <2>1. ASSUME NEW v \in DOMAIN ses.map.uids \ {u}
        PROVE  ses.map.uids[v].pid # p
    <3>1. p # 0 /\ u \in DOMAIN ses.map.uids /\ ses.map.uids[u].pid = p
      BY <1>1, <1>2, PdaFacts, Counters
    <3> QED BY ONLY <1>2, <2>1, <3>1, PairedBack
  <2>2. \A v \in DOMAIN ses.map.uids \ {u} :
          LET q == ses.map.uids[v].pid
          IN q \in DOMAIN pda' =>
               /\ q \in DOMAIN pda /\ pda'[q].flag = pda[q].flag
               /\ q \in ses.todo => q \in ses.todo
    BY <1>7, <2>1
  <2> QED BY <1>1, <1>2, <1>3, <2>2, HandlerMarked DEF Unwounded
<1>14. Entered'
  BY <1>2, <1>8, FewerAbout, EnteredStays DEF Unwounded
<1>15. Ordered'
  BY <1>1, <1>2, OrderedStays DEF Unwounded
<1> QED BY <1>9, <1>12, <1>13, <1>14, <1>15 DEF Unwounded

(* An object that the PDA does not have becomes a record.                   *)
LEMMA UnwoundedSent ==
  ASSUME Known, Unwounded, wounds = {}, InHandler, NEW u \in DOMAIN ses.changed, NEW M,
         u \in ses.queue, ses.op = "synchronize", SentNew(u, M)
  PROVE  Unwounded'
<1> DEFINE C == Without(ses.changed, u)
           Q == ses.queue \ {u}
           x == ses.listed[u]
<1>1. /\ Hands(M, C, Q, ses.todo) /\ StoreStays /\ PdaGains(x)
      /\ Beyond(M, ses.map, u, NewPid) /\ u \in DOMAIN M.uids
      /\ M.uids[u] = [pid |-> NewPid, archived |-> FALSE, touched |-> TRUE]
      /\ ses.changed[u] # "deleted"
      /\ LookupPid(ses.map, u) \notin DOMAIN pda
  BY DEF SentNew, Status
<1>2. /\ TInv /\ TypeOK /\ phase # "idle" /\ GoodMap(ses.map) /\ left' = left
      /\ DOMAIN C \subseteq DOMAIN ses.changed /\ u \notin DOMAIN C
      /\ u \in DOMAIN ses.listed /\ InSession /\ InSession'
  BY DEF Known, TInv, IInv, GoodSession, InHandler, Without, Handed, InSession
<1>3. M.uids[u].pid = NewPid /\ ~M.uids[u].archived /\ M.uids[u].touched
  BY <1>1
<1>4. /\ C \in {ses.changed, Without(ses.changed, u)}
      /\ Q \in {ses.queue, ses.queue \ {u}}
  OBVIOUS
<1>5. x \in Things /\ Held(u, x)
  BY <1>2, SessionFacts DEF Held
<1>6. u \in DOMAIN ses.map.uids => ses.map.uids[u].pid \notin DOMAIN pda
  BY <1>1 DEF LookupPid
<1> HIDE DEF C, Q, x
<1>7. /\ DOMAIN pda' = DOMAIN pda \cup {NewPid}
      /\ \A q \in DOMAIN pda : q # NewPid => pda'[q] = pda[q]
      /\ pda'[NewPid].item = x
  <2>1. /\ DOMAIN pda' = DOMAIN pda \cup {NewPid}
        /\ \A q \in DOMAIN pda : q # NewPid => pda'[q] = pda[q]
        /\ pda'[NewPid] = [item |-> x, flag |-> "none"]
    BY <1>1, <1>2, <1>5, PdaMore
  <2> QED BY <2>1
<1>8. /\ \A q \in DOMAIN pda : q # NewPid
      /\ \A v \in DOMAIN ses.map.uids : ses.map.uids[v].pid # NewPid
  BY <1>2, PidFacts, Counters
<1>9. Beyond(M, ses.map, u, 0)
  BY <1>1, <1>8, BeyondUnpaired
<1>10. \A v, y : Held(v, y)' => Held(v, y)
  BY <1>1, <1>2, HandlerHeld
<1>11. \A q \in DOMAIN pda : pda[q].item # x
  <2> SUFFICES ASSUME NEW q \in DOMAIN pda, pda[q].item = x
               PROVE  FALSE
    OBVIOUS
  <2>1. Paired(u, q)
    BY <1>5 DEF Unwounded, Single
  <2> QED BY <1>2, <1>6, <2>1 DEF Paired
<1>12. ses'.map = M
  BY <1>1, <1>2, HandsFields
<1>13. Single'
  <2>1. \A v, w, y : Held(v, y)' /\ Held(w, y)' => v = w
    BY <1>10 DEF Unwounded, Single
  <2>2. \A q, r \in DOMAIN pda' : pda'[q].item = pda'[r].item => q = r
    BY <1>7, <1>8, <1>11 DEF Unwounded, Single
  <2>3. ASSUME NEW v, NEW y, NEW q \in DOMAIN pda', Held(v, y)', pda'[q].item = y
        PROVE  Paired(v, q)'
    <3>1. CASE q = NewPid
      <4>1. v = u
        BY <1>5, <1>7, <1>10, <2>3, <3>1 DEF Unwounded, Single
      <4> QED BY <1>1, <1>2, <1>3, <1>12, <3>1, <4>1 DEF Paired
    <3>2. CASE q # NewPid
      <4>1. q \in DOMAIN pda /\ pda[q].item = y
        BY <1>7, <1>8, <2>3, <3>2
      <4>2. Paired(v, q)
        BY <1>10, <2>3, <4>1 DEF Unwounded, Single
      <4>3. v \in DOMAIN ses.map.uids /\ ses.map.uids[v].pid = q /\ v # u
        BY <1>2, <1>6, <4>1, <4>2 DEF Paired
      <4>4. v \in DOMAIN M.uids /\ M.uids[v].pid = q
        BY <1>9, <4>3 DEF Beyond
      <4> QED BY <1>2, <1>12, <4>4 DEF Paired
    <3> QED BY <3>1, <3>2
  <2> QED BY <2>1, <2>2, <2>3 DEF Single
<1>14. ASSUME NEW y, About(y)'
       PROVE  About(y)
  <2>1. CASE \E v : Held(v, y)'
    BY <1>10, <2>1 DEF About
  <2>2. CASE \E q \in DOMAIN pda' : pda'[q].item = y
    BY <1>5, <1>7, <1>8, <2>2 DEF About
  <2> QED BY <1>14, <2>1, <2>2 DEF About
<1>15. ~Going(u)
  BY <1>1 DEF Going
<1>16. ses'.changed = C /\ ses'.cfg = ses.cfg
  BY <1>1, <1>2, HandsFields
<1>17. /\ \A v : Going(v)' => Going(v)
       /\ \A v : Going(v) => Going(v)'
  <2>1. /\ \A v \in DOMAIN C : C[v] = ses.changed[v]
        /\ \A v \in DOMAIN ses.changed : v # u => v \in DOMAIN C
    BY DEF C, Without
  <2> QED BY <1>2, <1>15, <1>16, <2>1 DEF Going
<1>18. SplitOnce'
  <2>1. ASSUME NEW i \in Long, Splitting(i)
        PROVE  /\ \A v : Held(v, Whole(i))' => Going(v)'
               /\ \A q \in DOMAIN pda' : pda'[q].item = Whole(i) => Doomed(q)'
    <3>1. /\ \A v : Held(v, Whole(i)) => Going(v)
          /\ \A q \in DOMAIN pda : pda[q].item = Whole(i) => Doomed(q)
      BY <2>1 DEF Unwounded, SplitOnce
    <3>2. x # Whole(i)
      BY <1>5, <1>15, <3>1
    <3>3. ASSUME NEW q \in DOMAIN pda', pda'[q].item = Whole(i)
          PROVE  Doomed(q)'
      <4>1. q \in DOMAIN pda /\ pda'[q] = pda[q]
        BY <1>7, <1>8, <3>2, <3>3
      <4>2. Doomed(q)
        BY <3>1, <3>3, <4>1
      <4> QED BY <1>1, <1>2, <1>4, <1>9, <1>15, <4>1, <4>2, HandlerDoomed
    <3> QED BY <1>10, <1>17, <3>1, <3>3
  <2> QED BY <1>14, <2>1, SplitStays
<1>19. Gone'
  <2>1. Objects' = Objects
    BY <1>1, <1>16 DEF StoreStays, Objects
  <2> QED BY <1>17, <2>1 DEF Unwounded, Gone
<1>20. Marked'
  <2>1. \A v \in DOMAIN ses.map.uids \ {u} :
          LET q == ses.map.uids[v].pid
          IN q \in DOMAIN pda' =>
               /\ q \in DOMAIN pda /\ pda'[q].flag = pda[q].flag
               /\ q \in ses.todo => q \in ses.todo
    BY <1>7, <1>8
  <2> QED BY <1>1, <1>2, <1>3, <1>9, <2>1, HandlerMarked DEF Unwounded
<1>21. Entered'
  BY <1>2, <1>14, EnteredStays DEF Unwounded
<1>22. Ordered'
  BY <1>1, <1>2, OrderedStays DEF Unwounded
<1> QED BY <1>13, <1>18, <1>19, <1>20, <1>21, <1>22 DEF Unwounded

(* So no handler of a record makes anything double ...                      *)
LEMMA UnwoundedRemote ==
  ASSUME Known, Unwounded, wounds = {}, NEW p \in Pids, RemoteRecord(p)
  PROVE  Unwounded'
<1>1. /\ InHandler /\ p \in ses.todo /\ p \in DOMAIN pda /\ RemoteForm(p)
  BY RemoteForms DEF Known, TInv
<1>2. CASE Ignored(p)
  BY <1>1, <1>2, UnwoundedIgnored
<1>3. CASE p \notin DOMAIN ses.map.pids /\ pda[p].flag # "deleted" /\ \E M : Added(p, M, ses.queue)
  BY <1>1, <1>3, UnwoundedAdded
<1>4. CASE \E w, M : w \in Uids /\ Removed(p, w, M)
  BY <1>1, <1>4, UnwoundedRemoved
<1>5. CASE \E w, M, C, a : w \in Uids /\ a \in BOOLEAN /\ Settled(p, w, M, C, a)
  BY <1>1, <1>5, UnwoundedSettled
<1> QED BY <1>1, <1>2, <1>3, <1>4, <1>5 DEF RemoteForm

(* ... nor one of an object.                                                *)
LEMMA UnwoundedLocal ==
  ASSUME Known, Unwounded, wounds = {}, NEW u \in Uids, LocalObject(u)
  PROVE  Unwounded'
<1>1. /\ InHandler /\ u \in ses.queue /\ LocalForm(u)
      /\ u \in DOMAIN ses.changed \/ ses.op = "copy to"
  BY LocalForms DEF Known, TInv
<1>2. ses.op = "synchronize"
  BY <1>1 DEF InHandler, Unwounded, Ordered
<1>3. u \in DOMAIN ses.changed
  BY <1>1, <1>2
<1>4. CASE \E M : SentDeletion(u, M)
  BY <1>1, <1>3, <1>4, UnwoundedDeletion
<1>5. CASE \E M : SentNew(u, M)
  BY <1>1, <1>2, <1>3, <1>5, UnwoundedSent
<1>6. CASE \E p, M : SentChanged(u, p, M)
  BY <1>1, <1>3, <1>6, UnwoundedChanged
<1> QED BY <1>1, <1>4, <1>5, <1>6 DEF LocalForm

(* Copies only go with a wound.                                             *)
LEMMA UnwoundedCopy ==
  ASSUME Known, Unwounded, CopyFromPilot \/ CopyToPilot
  PROVE  FALSE
<1>1. InHandler /\ ses.op \in {"copy from", "copy to"}
  BY CopyForms DEF Known, TInv
<1> QED BY <1>1 DEF InHandler, Unwounded, Ordered

---------------------------------------------------------------------------
(* The begin of a session without a wound: it takes over the whole map,     *)
(* nothing is marked, and a slow one has all the records before it.         *)
LEMMA BeginUnwounded ==
  ASSUME TInv, Ordered, phase = "loaded", NEW m, GoodMap(m), NEW comps, NEW changes,
         Begin(m, comps, changes), wounds' = {},
         \A u \in DOMAIN m.uids : m.uids[u].archived => m.uids[u].pid = 0
  PROVE  /\ wounds = {} /\ Ordered' /\ Marked' /\ phase' = "running"
         /\ UNCHANGED <<pda, file, left>> /\ ses'.cfg = ses.cfg
         /\ DOMAIN ses'.map.uids = DOMAIN m.uids
         /\ \A u \in DOMAIN m.uids : ses'.map.uids[u] = m.uids[u]
         /\ ses'.queue = DOMAIN changes /\ ses'.listed = comps
         /\ \A u : u \in DOMAIN ses'.changed <=> u \in DOMAIN changes /\ ~UidIsArchived(m, u)
         /\ \A u \in DOMAIN ses'.changed : ses'.changed[u] = changes[u]
<1>1. TypeOK /\ ses.op = "synchronize"
  BY DEF TInv, Ordered
<1>2. /\ phase' = "running" /\ UNCHANGED <<pda, file, left>>
      /\ ses'.op = ses.op /\ ses'.cfg = ses.cfg /\ ses'.listed = comps
      /\ (ses'.map.touchedOnly <=> ses'.slow \/ ses.op \in {"copy to", "copy from"})
      /\ ses'.map.uids = IF OtherSource(ses.cfg) THEN NoEntries ELSE m.uids
      /\ Restricts(ses'.changed, changes, m)
      /\ ses'.queue = ObjectsToTreat(comps, changes)
      /\ ses'.todo = RecordsToTreat(ses'.slow)
      /\ wounds' = IF OtherSource(ses.cfg) /\ DOMAIN m.uids # {}
                   THEN wounds \cup {"unfinished"} ELSE wounds
  BY <1>1, BeginFacts
<1>3. wounds = {} /\ (OtherSource(ses.cfg) => DOMAIN m.uids = {})
  BY <1>2
<1>4. /\ DOMAIN ses'.map.uids = DOMAIN m.uids
      /\ \A u \in DOMAIN m.uids : ses'.map.uids[u] = m.uids[u]
  BY <1>2, <1>3 DEF NoEntries
<1>5. ses'.queue = DOMAIN changes
  BY <1>1, <1>2 DEF ObjectsToTreat
<1>6. ses'.slow => \A p \in DOMAIN pda : p \in ses'.todo
  BY <1>1, <1>2 DEF RecordsToTreat
<1>7. Ordered'
  BY <1>1, <1>2 DEF Ordered
<1>8. 0 \notin DOMAIN pda
  BY <1>1, PdaFacts, NoPidIsZero
<1>9. Marked'
  BY <1>1, <1>2, <1>4, <1>6, <1>8 DEF Marked, InSession
<1> QED BY <1>2, <1>3, <1>4, <1>5, <1>7, <1>9 DEF Restricts

(* The map that a session begins with has every pair of a record the PDA    *)
(* has.                                                                     *)
LEMMA ReadPairs ==
  ASSUME Known, NEW m, m = ReadMap(file)
  PROVE  /\ GoodMap(m)
         /\ \A u \in DOMAIN m.uids : m.uids[u].archived => m.uids[u].pid = 0
         /\ \A u : UidIsArchived(m, u) => u \in DOMAIN file /\ file[u].archived /\ file[u].pid = 0
         /\ \A u \in DOMAIN file : \A p \in DOMAIN pda : file[u].pid = p =>
              u \in DOMAIN m.uids /\ m.uids[u].pid = p
<1>1. GoodFile(file) /\ TypeOK
  BY DEF Known, TInv, IInv
<1>2. /\ GoodMap(m)
      /\ DOMAIN m.uids = Accepted(file) /\ Accepted(file) \subseteq DOMAIN file
      /\ \A u \in Accepted(file) : m.uids[u].pid = file[u].pid /\ m.uids[u].archived = file[u].archived
      /\ \A u \in DOMAIN file : file[u].pid # 0 => u \in Accepted(file)
  <2>1. ReadGives(file, m)
    BY <1>1, ReadMapUids
  <2> QED BY <2>1 DEF ReadGives
<1>3. \A u \in DOMAIN file : file[u].archived => file[u].pid = 0
  BY DEF Known, Remembered
<1>4. 0 \notin DOMAIN pda
  BY <1>1, PdaFacts, NoPidIsZero
<1> QED BY <1>2, <1>3, <1>4 DEF UidIsArchived

(* A source that is taken as it is.                                         *)
LEMMA UnwoundedPlain ==
  ASSUME Known, Unwounded, PlainPreSync, wounds' = {}
  PROVE  Unwounded'
<1> DEFINE m == ReadMap(file)
           changes == AllModified(Objects)
<1>1. /\ phase = "loaded" /\ Begin(m, Objects, changes) /\ UNCHANGED store
      /\ TypeOK /\ ~InSession
  BY DEF PlainPreSync, MemoPreSync, TodoPreSync, AddressPreSync, Known, TInv, InSession
<1>2. ses.cfg.source \in Sources
  BY <1>1, SessionFacts
<1>3. /\ GoodMap(m)
      /\ \A u \in DOMAIN m.uids : m.uids[u].archived => m.uids[u].pid = 0
      /\ \A u \in DOMAIN file : \A p \in DOMAIN pda : file[u].pid = p =>
           u \in DOMAIN m.uids /\ m.uids[u].pid = p
  BY ReadPairs
<1>4. DOMAIN changes = DOMAIN Objects /\ \A u \in DOMAIN changes : changes[u] = "modified"
  BY DEF AllModified
<1> HIDE DEF m, changes
<1>5. /\ Ordered' /\ Marked' /\ phase' = "running" /\ InSession'
      /\ UNCHANGED <<pda, file, left>> /\ ses'.cfg = ses.cfg
      /\ DOMAIN ses'.map.uids = DOMAIN m.uids
      /\ \A u \in DOMAIN m.uids : ses'.map.uids[u] = m.uids[u]
      /\ ses'.listed = Objects
      /\ \A u : u \in DOMAIN ses'.changed => u \in DOMAIN changes
      /\ \A u \in DOMAIN ses'.changed : ses'.changed[u] = changes[u]
  <2>1. TInv /\ Ordered
    BY DEF Known, Unwounded
  <2> QED BY <1>1, <1>3, <2>1, BeginUnwounded DEF InSession
<1>6. \A u, x : Held(u, x)' => Held(u, x)
  BY <1>1, <1>2, <1>4, <1>5 DEF Held, Objects
<1>7. Fewer
  BY <1>5, <1>6 DEF Fewer
<1>8. \A u : \A p \in DOMAIN pda : Paired(u, p) => Paired(u, p)'
  BY <1>1, <1>3, <1>5 DEF Paired
<1>9. Single'
  BY <1>5, <1>7, <1>8, SingleFewer DEF Unwounded
<1>10. Entered'
  BY <1>5, <1>7, EnteredStays, FewerAbout DEF Unwounded
<1>11. \A u : ~Going(u)'
  BY <1>4, <1>5 DEF Going
<1>12. SplitOnce'
  BY <1>1, <1>7, SplitFewer DEF Unwounded, Going, Doomed
<1>13. Gone'
  BY <1>11 DEF Gone
<1> QED BY <1>5, <1>9, <1>10, <1>12, <1>13 DEF Unwounded

-------------------------------------------------------------------------------
(* The users.                                                               *)

(* The numbers of items: what is about has one.                             *)
LEMMA AboutFacts ==
  ASSUME Known
  PROVE  /\ \A x : About(x) => x \in Things /\ x[1] \in Nat
         /\ left.items \in Nat /\ Cardinality(Items) \in Nat
         /\ Edit \/ Odd => left'.items = left.items
         /\ Enter => left'.items = left.items - 1 /\ left.items \in Nat \ {0}
<1>1. TInv /\ PairsAgree /\ TypeOK
  BY DEF Known, TInv
<1>2. \A x : About(x) => x \in Things
  <2>1. \A u, x : Held(u, x) => x \in Things
    BY <1>1, HeldFacts
  <2>2. \A p \in DOMAIN pda : pda[p].item \in Things
    BY <1>1, PdaFacts
  <2> QED BY <2>1, <2>2 DEF About
<1>3. \A x \in Things : x[1] \in Nat
  <2>1. Items \subseteq Nat /\ Long \subseteq Items
    BY ItemCount, ItemsAssumption
  <2> QED BY <2>1, ThingsFacts DEF Things
<1>4. left \in [items: 0 .. Cardinality(Items), edits: 0 .. MaxEdits, odd: 0 .. MaxOdd]
  BY <1>1 DEF TypeOK
<1>5. Cardinality(Items) \in Nat /\ left.items \in Nat
  BY <1>4, ItemCount
<1>6. /\ Edit \/ Odd => left'.items = left.items
      /\ Enter => left'.items = left.items - 1 /\ left.items > 0
  BY <1>4 DEF Edit, Odd, Enter
<1> QED BY <1>2, <1>3, <1>5, <1>6

(* The next item is nowhere, and splits nothing.                            *)
LEMMA NextItemIsNew ==
  ASSUME Known, Entered, Enter
  PROVE  /\ ~About(NewItem)
         /\ NewItem[1] <= Cardinality(Items) - left'.items
         /\ \A x : About(x) => x[1] <= Cardinality(Items) - left'.items
         /\ \A i : Splitting(i) => Whole(i) # NewItem
         /\ \A i : \A x \in Days(i) : x # NewItem
<1> DEFINE n == Cardinality(Items)
<1>1. /\ left.items \in Nat /\ n \in Nat /\ left'.items = left.items - 1
      /\ \A x : About(x) => x[1] \in Nat /\ x[1] <= n - left.items
  BY AboutFacts DEF Entered
<1>2. NewItem = Whole(n - left.items + 1) /\ NewItem[1] = n - left.items + 1
  BY ThingsFacts DEF NewItem
<1> HIDE DEF n
<1>3. ~About(NewItem)
  BY <1>1, <1>2
<1>4. \A x : About(x) => x[1] <= n - left'.items
  BY <1>1
<1>5. NewItem[1] <= n - left'.items
  BY <1>1, <1>2
<1>6. ASSUME NEW i, Splitting(i)
      PROVE  Whole(i) # NewItem
  <2>1. PICK x \in Days(i) : About(x)
    BY <1>6 DEF Splitting
  <2>2. i \in Nat /\ i <= n - left.items
    BY <1>1, <2>1, ThingsFacts
  <2> QED BY <1>1, <1>2, <2>2, ThingsFacts
<1>7. ASSUME NEW i, NEW x \in Days(i)
      PROVE  x # NewItem
  BY <1>2, ThingsFacts
<1> QED BY <1>3, <1>4, <1>5, <1>6, <1>7 DEF n

(* A user enters an item, on one of the two sides.                          *)
LEMMA UnwoundedEntered ==
  ASSUME Known, Unwounded, Enter, phase = "idle", UNCHANGED <<phase, ses, file>>, NEW n, NEW q,
         \A u, x : Held(u, x)' => Held(u, x) \/ (u = n /\ x = NewItem),
         \A p \in DOMAIN pda' : \/ p \in DOMAIN pda /\ pda'[p].item = pda[p].item
                                \/ p = q /\ pda'[p].item = NewItem,
         \/ \A p \in DOMAIN pda' : pda'[p].item # NewItem
         \/ \A u, x : Held(u, x)' => x # NewItem
  PROVE  Unwounded'
<1>1. /\ ~About(NewItem)
      /\ NewItem[1] <= Cardinality(Items) - left'.items
      /\ \A x : About(x) => x[1] <= Cardinality(Items) - left'.items
      /\ \A i : Splitting(i) => Whole(i) # NewItem
      /\ \A i : \A x \in Days(i) : x # NewItem
  BY NextItemIsNew DEF Unwounded
<1>2. ~InSession /\ ~InSession'
  BY DEF InSession
<1>3. (\A u : ~Held(u, NewItem)) /\ \A p \in DOMAIN pda : pda[p].item # NewItem
  BY <1>1 DEF About
<1>4. \A x : About(x)' => About(x) \/ x = NewItem
  BY DEF About
<1>5. Single'
  <2>1. \A u, v, x : Held(u, x)' /\ Held(v, x)' => u = v
    BY <1>3 DEF Unwounded, Single
  <2>2. \A p, r \in DOMAIN pda' : pda'[p].item = pda'[r].item => p = r
    BY <1>3 DEF Unwounded, Single
  <2>3. ASSUME NEW u, NEW x, NEW p \in DOMAIN pda', Held(u, x)', pda'[p].item = x
        PROVE  Paired(u, p)'
    <3>1. x # NewItem
      BY <2>3
    <3>2. Held(u, x) /\ p \in DOMAIN pda /\ pda[p].item = x
      BY <2>3, <3>1
    <3>3. Paired(u, p)
      BY <3>2 DEF Unwounded, Single
    <3> QED BY <1>2, <3>3 DEF Paired
  <2> QED BY <2>1, <2>2, <2>3 DEF Single
<1>6. Entered'
  BY <1>1, <1>4 DEF Entered
<1>7. SplitOnce'
  <2> SUFFICES ASSUME NEW i \in Long, Splitting(i)'
               PROVE  /\ \A u : ~Held(u, Whole(i))'
                      /\ \A p \in DOMAIN pda' : pda'[p].item # Whole(i)
    BY DEF SplitOnce
  <2>1. Splitting(i)
    BY <1>1, <1>4 DEF Splitting
  <2>2. Whole(i) # NewItem
    BY <1>1, <2>1
  <2>3. /\ \A u : ~Held(u, Whole(i))
        /\ \A p \in DOMAIN pda : pda[p].item # Whole(i)
    BY <1>2, <2>1 DEF Unwounded, SplitOnce, Going, Doomed
  <2> QED BY <2>2, <2>3
<1>8. Gone' /\ Marked'
  BY <1>2 DEF Gone, Going, Marked
<1>9. Ordered'
  BY DEF Ordered
<1> QED BY <1>5, <1>6, <1>7, <1>8, <1>9 DEF Unwounded

(* On the desktop ...                                                       *)
LEMMA UnwoundedNewObject ==
  ASSUME Known, Unwounded, NEW s \in Sources, NewObject(s)
  PROVE  Unwounded'
<1>1. /\ phase = "idle" /\ Enter
      /\ store' = [store EXCEPT ![s] = Put(store[s], NewUid, NewItem)]
      /\ UNCHANGED <<pda, file, phase, ses>> /\ TypeOK
  BY DEF NewObject, Known, TInv
<1>2. \A t \in Sources : \A u \in DOMAIN store'[t] :
        \/ u \in DOMAIN store[t] /\ store'[t][u] = store[t][u]
        \/ u = NewUid /\ store'[t][u] = NewItem
  <2> DEFINE more == Put(store[s], NewUid, NewItem)
  <2>1. \A u \in DOMAIN more : \/ u \in DOMAIN store[s] /\ more[u] = store[s][u]
                               \/ u = NewUid /\ more[u] = NewItem
    BY DEF Put
  <2>2. store' = [store EXCEPT ![s] = more] /\ store \in [Sources -> Content]
    BY <1>1 DEF TypeOK
  <2> HIDE DEF more
  <2> QED BY <2>1, <2>2
<1>3. \A u, x : Held(u, x)' => Held(u, x) \/ (u = NewUid /\ x = NewItem)
  BY <1>1, <1>2 DEF Held, InSession
<1>4. \A p \in DOMAIN pda' : pda'[p].item # NewItem
  BY <1>1, NextItemIsNew DEF About, Unwounded
<1>5. \A p \in DOMAIN pda' : p \in DOMAIN pda /\ pda'[p].item = pda[p].item
  BY <1>1
<1> QED BY <1>1, <1>3, <1>4, <1>5, UnwoundedEntered

(* ... and on the PDA.                                                      *)
LEMMA UnwoundedNewRecord ==
  ASSUME Known, Unwounded, NewRecord
  PROVE  Unwounded'
<1>1. /\ phase = "idle" /\ Enter
      /\ pda' = Put(pda, NewPid, [item |-> NewItem, flag |-> "dirty"])
      /\ UNCHANGED <<store, file, phase, ses>>
  BY DEF NewRecord
<1>2. \A p \in DOMAIN pda' : \/ p \in DOMAIN pda /\ pda'[p].item = pda[p].item
                             \/ p = NewPid /\ pda'[p].item = NewItem
  BY <1>1 DEF Put
<1>3. \A u, x : Held(u, x)' => Held(u, x)
  BY <1>1 DEF Held, InSession
<1>4. \A u, x : Held(u, x)' => x # NewItem
  BY <1>1, <1>3, NextItemIsNew DEF About, Unwounded
<1> QED BY <1>1, <1>2, <1>3, <1>4, UnwoundedEntered

(* An object goes, and who is paired stays so.                              *)
LEMMA UnwoundedDropped ==
  ASSUME Known, Unwounded, NEW s \in Sources, NEW u \in DOMAIN store[s], DropObject(s, u)
  PROVE  Unwounded'
<1>1. /\ Edit /\ store' = [store EXCEPT ![s] = Without(store[s], u)]
      /\ UNCHANGED <<pda, file, phase, ses>> /\ TypeOK
  BY DEF DropObject, Known, TInv
<1>2. \A t \in Sources : \A v \in DOMAIN store'[t] :
        v \in DOMAIN store[t] /\ store'[t][v] = store[t][v]
  <2> DEFINE rest == Without(store[s], u)
  <2>1. \A v \in DOMAIN rest : v \in DOMAIN store[s] /\ rest[v] = store[s][v]
    BY DEF Without
  <2>2. store' = [store EXCEPT ![s] = rest] /\ store \in [Sources -> Content]
    BY <1>1 DEF TypeOK
  <2> HIDE DEF rest
  <2> QED BY <2>1, <2>2
<1>3. Fewer
  BY <1>1, <1>2 DEF Fewer, Held, InSession
<1>4. \A v : \A p : Paired(v, p) => Paired(v, p)'
  BY <1>1 DEF Paired, InSession
<1>5. Single'
  BY <1>3, <1>4, SingleFewer DEF Unwounded
<1>6. Entered'
  BY <1>1, <1>3, FewerAbout, EnteredStays, AboutFacts DEF Unwounded
<1>7. (\A v : Going(v)' <=> Going(v)) /\ \A p : Doomed(p) => Doomed(p)'
  BY <1>1 DEF Going, Doomed, InSession
<1>8. SplitOnce'
  BY <1>3, <1>7, SplitFewer DEF Unwounded
<1>9. Gone'
  <2> SUFFICES ASSUME NEW v, Going(v), v \in DOMAIN Objects'
               PROVE  FALSE
    BY <1>7 DEF Gone
  <2>1. phase # "idle"
    BY DEF Going, InSession
  <2>2. Objects' = store'[ses.cfg.source] /\ ses.cfg.source \in Sources
    BY <1>1, <2>1, SessionFacts DEF Objects
  <2>3. v \in DOMAIN Objects
    BY <1>2, <2>2 DEF Objects
  <2> QED BY <2>3 DEF Unwounded, Gone
<1>10. Marked' /\ Ordered'
  BY <1>1 DEF Unwounded, Marked, Ordered, InSession
<1> QED BY <1>5, <1>6, <1>8, <1>9, <1>10 DEF Unwounded

(* A record is edited, deleted or archived.                                 *)
LEMMA UnwoundedEdited ==
  ASSUME Known, Unwounded, NEW q \in DOMAIN pda, NEW flag \in Flags, EditRecord(q, flag)
  PROVE  Unwounded'
<1>1. /\ phase = "idle" /\ Edit /\ pda' = [pda EXCEPT ![q].flag = flag]
      /\ UNCHANGED <<store, file, phase, ses>> /\ TypeOK
  BY DEF EditRecord, Known, TInv
<1>2. DOMAIN pda' = DOMAIN pda /\ \A p \in DOMAIN pda' : pda'[p].item = pda[p].item
  <2>1. DOMAIN pda' = DOMAIN pda /\ \A p \in DOMAIN pda : p # q => pda'[p] = pda[p]
    BY <1>1
  <2>2. pda[q] = [item |-> pda[q].item, flag |-> pda[q].flag]
    BY <1>1, PdaFacts
  <2>3. pda'[q] = [pda[q] EXCEPT !.flag = flag]
    BY <1>1
  <2>4. pda'[q].item = pda[q].item
    BY <2>2, <2>3
  <2> QED BY <2>1, <2>4
<1>3. ~InSession /\ ~InSession'
  BY <1>1 DEF InSession
<1>4. Fewer
  BY <1>1, <1>2, <1>3 DEF Fewer, Held
<1>5. Single'
  BY <1>1, <1>3, <1>4, SingleFewer DEF Unwounded, Paired
<1>6. Entered'
  BY <1>1, <1>4, FewerAbout, EnteredStays, AboutFacts DEF Unwounded
<1>7. SplitOnce'
  BY <1>3, <1>4, SplitFewer DEF Unwounded, Going, Doomed
<1>8. Gone' /\ Marked' /\ Ordered'
  BY <1>1, <1>3 DEF Gone, Going, Marked, Ordered
<1> QED BY <1>5, <1>6, <1>7, <1>8 DEF Unwounded

(* Whatever users do.                                                       *)
LEMMA UnwoundedUsers ==
  ASSUME Known, Unwounded, Users
  PROVE  Unwounded'
BY UnwoundedNewObject, UnwoundedDropped, UnwoundedNewRecord, UnwoundedEdited DEF Users

-------------------------------------------------------------------------------
(* The settings window, and the ends of a session.                          *)

(* A step that leaves objects, records and pairs alone.                     *)
LEMMA UnwoundedSame ==
  ASSUME Unwounded, UNCHANGED <<store, pda>>, left'.items = left.items, Ordered',
         \/ InSession /\ InSession' /\ ses' = ses
         \/ ~InSession /\ ~InSession' /\ file' = file
  PROVE  Unwounded'
<1>1. (\A u, x : Held(u, x)' <=> Held(u, x)) /\ (\A u, p : Paired(u, p)' <=> Paired(u, p))
  BY DEF Held, Paired
<1>2. Fewer
  BY <1>1 DEF Fewer
<1>3. Single'
  BY <1>1, <1>2, SingleFewer DEF Unwounded
<1>4. Entered'
  BY <1>2, FewerAbout, EnteredStays DEF Unwounded
<1>5. CASE InSession /\ InSession' /\ ses' = ses
  <2>1. (\A u : Going(u)' <=> Going(u)) /\ (\A p : Doomed(p) => Doomed(p)') /\ Objects' = Objects
    BY <1>5 DEF Going, Doomed, Objects
  <2>2. SplitOnce'
    BY <1>2, <2>1, SplitFewer DEF Unwounded
  <2>3. Gone' /\ Marked'
    BY <1>5, <2>1 DEF Unwounded, Gone, Marked
  <2> QED BY <1>3, <1>4, <2>2, <2>3 DEF Unwounded
<1>6. CASE ~InSession /\ ~InSession' /\ file' = file
  <2>1. SplitOnce'
    BY <1>2, <1>6, SplitFewer DEF Unwounded, Going, Doomed
  <2>2. Gone' /\ Marked'
    BY <1>6 DEF Gone, Going, Marked
  <2> QED BY <1>3, <1>4, <2>1, <2>2 DEF Unwounded
<1> QED BY <1>5, <1>6

(* Settings touch none of it.                                               *)
LEMMA UnwoundedSettings ==
  ASSUME Known, Unwounded, Settings
  PROVE  Unwounded'
<1>1. UNCHANGED <<store, pda, file, phase, ses>>
  BY SettingsConf DEF Known
<1>2. left'.items = left.items
  <2>1. left' = left \/ Odd
    BY DEF Settings, OpenSettings, SaveSettings, RevertSettings, CloseSettings
  <2> QED BY <2>1, AboutFacts
<1>3. Ordered'
  BY <1>1 DEF Unwounded, Ordered
<1> QED BY <1>1, <1>2, <1>3, UnwoundedSame DEF InSession

(* A synchronization is loaded; any other operation is a wound.             *)
LEMMA UnwoundedLoad ==
  ASSUME Known, Unwounded, wounds' = {}, NEW op \in Ops, Load(op)
  PROVE  Unwounded'
<1>1. /\ phase = "idle" /\ phase' = "loaded" /\ ses'.op = op /\ UNCHANGED <<store, pda, file>>
      /\ \/ op = "synchronize" /\ UNCHANGED <<left, wounds>>
         \/ op # "synchronize" /\ Odd /\ wounds' = wounds \cup {"unfinished"}
  BY LoadFacts DEF Known, TInv
<1>2. op = "synchronize" /\ left' = left
  BY <1>1
<1>3. Ordered'
  BY <1>1, <1>2 DEF Ordered
<1> QED BY <1>1, <1>2, <1>3, UnwoundedSame DEF InSession

(* The end of a session: what was deleted or archived on the PDA goes, and  *)
(* the pairs are those of the file.                                         *)
LEMMA UnwoundedCleanUp ==
  ASSUME Known, Unwounded, wounds = {}, CleanUp
  PROVE  Unwounded'
<1>1. /\ phase = "done" /\ phase' = "idle" /\ UNCHANGED <<store, file, left>>
      /\ \A p : p \in DOMAIN pda' <=> p \in DOMAIN pda /\ pda[p].flag \notin {"deleted", "archived"}
      /\ \A p \in DOMAIN pda' : pda'[p].item = pda[p].item
  BY CleanUpFacts DEF Known, TInv
<1>2. InSession /\ ~InSession' /\ phase # "idle" /\ TInv
  BY <1>1 DEF InSession, Known
<1>3. /\ ses.todo = {} /\ \A u \in ses.queue : u \notin DOMAIN ses.changed
      /\ file = WriteMap(ses.map)
  BY <1>1 DEF Unwounded, Ordered
<1>4. \A u, x : Held(u, x)' => \E s \in Sources : u \in DOMAIN store[s] /\ store[s][u] = x
  BY <1>1, <1>2 DEF Held
<1>5. Fewer
  BY <1>1, <1>4 DEF Fewer, Held
<1>6. ASSUME NEW u, NEW p \in DOMAIN pda', Paired(u, p)
      PROVE  Paired(u, p)'
  <2>1. u \in DOMAIN ses.map.uids /\ ses.map.uids[u].pid = p /\ p \in DOMAIN pda
    BY <1>1, <1>2, <1>6 DEF Paired
  <2>2. ~ses.map.uids[u].archived /\ (ses.map.touchedOnly => ses.map.uids[u].touched)
    BY <1>1, <1>2, <1>3, <2>1 DEF Unwounded, Marked
  <2>3. GoodMap(ses.map)
    BY <1>2 DEF TInv, IInv, GoodSession
  <2>4. u \in DOMAIN file /\ file[u].pid = p
    BY <1>3, <2>1, <2>2, <2>3, WrittenFacts
  <2> QED BY <1>1, <1>2, <2>4 DEF Paired
<1>7. Single'
  BY <1>5, <1>6, SingleFewer DEF Unwounded
<1>8. Entered'
  BY <1>1, <1>5, FewerAbout, EnteredStays DEF Unwounded
<1>9. SplitOnce'
  <2>1. ASSUME NEW i \in Long, NEW u, Held(u, Whole(i))', Going(u)
        PROVE  FALSE
    <3>1. PICK s \in Sources : u \in DOMAIN store[s]
      BY <1>4, <2>1
    <3>2. u \in DOMAIN ses.listed
      BY <1>2, <2>1 DEF Going, TInv, Handed
    <3>3. s = ses.cfg.source
      BY <1>2, <3>1, <3>2, OnlyHere DEF OfSource
    <3> QED BY <2>1, <3>1, <3>3 DEF Objects, Unwounded, Gone
  <2>2. ASSUME NEW p \in DOMAIN pda', Doomed(p)
        PROVE  FALSE
    <3>1. pda[p].flag \notin {"deleted", "archived"}
      BY <1>1
    <3>2. \A u \in ses.queue : ~Going(u)
      BY <1>3 DEF Going
    <3> QED BY <2>2, <3>1, <3>2 DEF Doomed
  <2> QED BY <1>5, <2>1, <2>2, SplitFewer DEF Unwounded
<1>10. Gone' /\ Marked' /\ Ordered'
  BY <1>1, <1>2 DEF Gone, Going, Marked, Ordered
<1> QED BY <1>7, <1>8, <1>9, <1>10 DEF Unwounded

(* The other steps that end a session, or that part of one: without a wound *)
(* it goes on to the file, or has not begun.                                *)
LEMMA UnwoundedEnds ==
  ASSUME Known, Unwounded, wounds' = {}, Ends
  PROVE  Unwounded'
<1>1. CASE PostSync
  <2>1. /\ phase = "running" /\ phase' = "save" /\ RemoteDone /\ LocalDone
        /\ UNCHANGED <<store, pda, file, ses, left>>
    BY <1>1 DEF PostSync
  <2>2. ses.op = "synchronize"
    BY <2>1 DEF Unwounded, Ordered
  <2>3. ses.todo = {} /\ \A u \in ses.queue : u \notin DOMAIN ses.changed
    BY <2>1, <2>2 DEF RemoteDone, LocalDone, NextItems, Offered
  <2>4. Ordered'
    BY <2>1, <2>2, <2>3 DEF Ordered
  <2> QED BY <2>1, <2>4, UnwoundedSame DEF InSession
<1>2. CASE WriteMapFile
  <2>1. /\ phase = "save" /\ phase' = "done" /\ UNCHANGED <<store, pda, ses>>
        /\ file' = WriteMap(ses.map) /\ left' = left
    BY <1>2 DEF WriteMapFile
  <2>2. Ordered'
    BY <2>1 DEF Unwounded, Ordered
  <2> QED BY <2>1, <2>2, UnwoundedSame DEF InSession
<1>3. CASE CleanUp
  <2>1. wounds = {}
    BY <1>3 DEF CleanUp
  <2> QED BY <1>3, <2>1, UnwoundedCleanUp
<1>4. CASE Break
  <2>1. /\ phase' = "idle" /\ UNCHANGED <<store, pda, file>> /\ Odd
        /\ phase = "loaded"
    BY <1>4 DEF Break
  <2>2. left'.items = left.items
    BY <2>1, AboutFacts
  <2>3. Ordered'
    BY <2>1 DEF Ordered
  <2> QED BY <2>1, <2>2, <2>3, UnwoundedSame DEF InSession
<1>5. CASE \E p \in Pids : ReplaceFails(p)
  BY <1>5 DEF ReplaceFails
<1> QED BY <1>1, <1>2, <1>3, <1>4, <1>5 DEF Ends

-------------------------------------------------------------------------------
(* The calendar splits its events.                                          *)

(* What the calendar puts in the place of an event: days of it that are     *)
(* nowhere yet, each once.                                                  *)
LEMMA ClonesAreNew ==
  ASSUME Known, Unwounded, phase = "loaded"
  PROVE  /\ \A c \in DOMAIN Clones : \E v \in ToSplit :
              /\ v \in DOMAIN Objects /\ Objects[v] = Whole(Objects[v][1])
              /\ Objects[v][1] \in Long /\ Held(v, Objects[v])
              /\ Clones[c] \in Days(Objects[v][1])
         /\ \A c \in DOMAIN Clones : ~About(Clones[c]) /\ c \in Nat /\ uidsUsed < c
         /\ \A c, d \in DOMAIN Clones : Clones[c] = Clones[d] => c = d
<1>1. TInv /\ TypeOK /\ ~InSession /\ ses.cfg.source \in Sources /\ uidsUsed \in Nat
  BY SessionFacts, Counters DEF Known, TInv, InSession
<1>2. /\ \A c \in DOMAIN Clones : c \in Nat /\ uidsUsed < c
      /\ \A c \in DOMAIN Clones : \E u \in ToSplit :
           /\ Clones[c] = <<Objects[u][1], c - FirstClone(u) + 1>>
           /\ Clones[c] \in Days(Objects[u][1])
      /\ ToSplit \subseteq DOMAIN Objects
      /\ \A u \in ToSplit : FirstClone(u) \in Nat /\ Objects[u] \in LongThings
  BY <1>1, ClonesFacts
<1>3. \A v \in ToSplit : /\ v \in DOMAIN Objects /\ Objects[v] = Whole(Objects[v][1])
                         /\ Objects[v][1] \in Long /\ Held(v, Objects[v])
  BY <1>1, <1>2, ThingsFacts DEF Held, Objects
<1>4. ASSUME NEW v \in ToSplit
      PROVE  ~Splitting(Objects[v][1])
  <2>1. Held(v, Whole(Objects[v][1])) /\ Objects[v][1] \in Long
    BY <1>3
  <2> QED BY <1>1, <2>1 DEF Unwounded, SplitOnce, Going
<1>5. \A c \in DOMAIN Clones : ~About(Clones[c])
  BY <1>2, <1>4 DEF Splitting
<1>6. ASSUME NEW c \in DOMAIN Clones, NEW d \in DOMAIN Clones, Clones[c] = Clones[d]
      PROVE  c = d
  <2>1. PICK v \in ToSplit : Clones[c] = <<Objects[v][1], c - FirstClone(v) + 1>>
    BY <1>2
  <2>2. PICK w \in ToSplit : Clones[d] = <<Objects[w][1], d - FirstClone(w) + 1>>
    BY <1>2
  <2>3. Objects[v][1] = Objects[w][1] /\ c - FirstClone(v) + 1 = d - FirstClone(w) + 1
    <3>1. <<Objects[v][1], c - FirstClone(v) + 1>> = <<Objects[w][1], d - FirstClone(w) + 1>>
      BY <1>6, <2>1, <2>2
    <3> QED BY <3>1, Zenon
  <2>4. v = w
    <3>1. Objects[v] = Objects[w]
      BY <1>3, <2>3
    <3> QED BY <1>3, <3>1 DEF Unwounded, Single
  <2> QED BY <1>2, <2>3, <2>4
<1>7. \A c \in DOMAIN Clones : \E v \in ToSplit :
        /\ v \in DOMAIN Objects /\ Objects[v] = Whole(Objects[v][1])
        /\ Objects[v][1] \in Long /\ Held(v, Objects[v])
        /\ Clones[c] \in Days(Objects[v][1])
  BY <1>2, <1>3
<1> QED BY <1>2, <1>5, <1>6, <1>7

(* The days take the place of the event: its object goes, and so does its   *)
(* record.                                                                  *)
LEMMA UnwoundedCalendar ==
  ASSUME Known, Unwounded, CalendarPreSync, wounds' = {}
  PROVE  Unwounded'
<1>1. /\ phase = "loaded" /\ TInv /\ TypeOK /\ DOMAIN Clones \subseteq Uids /\ ~InSession
      /\ \A c \in DOMAIN Clones : c \notin DOMAIN Objects
      /\ ses.cfg.source \in Sources
  BY CalendarFacts, SessionFacts DEF Known, TInv, InSession
<1>2. PICK m, gone : /\ m = ReadMap(file) /\ GoodMap(m)
                     /\ gone = {u \in ToSplit \cap Kept(m) : u \in DOMAIN m.uids}
                     /\ GoodMap(ForgetArchived(m, gone))
                     /\ Begin(ForgetArchived(m, gone), Over(Clones, Objects), SplitChanges(m))
  BY <1>1, CalendarFacts
<1> DEFINE F == ForgetArchived(m, gone)
           changes == SplitChanges(m)
           comps == Over(Clones, Objects)
           source == ses.cfg.source
<1>3. /\ DOMAIN changes = DOMAIN Clones \cup Kept(m)
      /\ \A c \in DOMAIN Clones : changes[c] = "added"
      /\ \A u \in Kept(m) : changes[u] = IF u \in ToSplit THEN "deleted" ELSE "modified"
      /\ Kept(m) \subseteq DOMAIN Objects
      /\ \A u \in DOMAIN Objects : LookupPid(m, u) # 0 => u \in Kept(m)
      /\ ToSplit \subseteq DOMAIN Objects
  BY <1>1, CalendarFacts DEF Kept, ToSplit, Spanning
<1>4. /\ \A u \in DOMAIN m.uids : m.uids[u].archived => m.uids[u].pid = 0
      /\ \A u \in DOMAIN file : \A p \in DOMAIN pda : file[u].pid = p =>
           u \in DOMAIN m.uids /\ m.uids[u].pid = p
  BY <1>2, ReadPairs
<1>5. /\ DOMAIN F.uids = DOMAIN m.uids \ {u \in gone : m.uids[u].archived}
      /\ \A u \in DOMAIN F.uids : F.uids[u] = m.uids[u]
  <2>1. gone \in SUBSET DOMAIN m.uids
    BY <1>2
  <2> QED BY <1>2, <2>1, ForgetArchivedUids
<1>6. 0 \notin DOMAIN pda
  BY <1>1, PdaFacts, NoPidIsZero
<1>7. \A u \in DOMAIN file : \A p \in DOMAIN pda : file[u].pid = p =>
        /\ u \in DOMAIN F.uids /\ F.uids[u].pid = p /\ ~UidIsArchived(F, u)
        /\ LookupPid(m, u) # 0
  <2> SUFFICES ASSUME NEW u \in DOMAIN file, NEW p \in DOMAIN pda, file[u].pid = p
               PROVE  /\ u \in DOMAIN F.uids /\ F.uids[u].pid = p /\ ~UidIsArchived(F, u)
                      /\ LookupPid(m, u) # 0
    OBVIOUS
  <2>1. u \in DOMAIN m.uids /\ m.uids[u].pid = p /\ ~m.uids[u].archived /\ p # 0
    BY <1>4, <1>6
  <2>2. u \in DOMAIN F.uids /\ F.uids[u] = m.uids[u]
    BY <1>5, <2>1
  <2> QED BY <2>1, <2>2 DEF UidIsArchived, LookupPid
<1>8. /\ DOMAIN comps = DOMAIN Clones \cup DOMAIN Objects
      /\ \A u \in DOMAIN Clones : comps[u] = Clones[u]
      /\ \A u \in DOMAIN Objects : comps[u] = Objects[u]
  <2>1. /\ DOMAIN comps = DOMAIN Clones \cup DOMAIN Objects
        /\ \A u \in DOMAIN Clones : comps[u] = Clones[u]
        /\ \A u \in DOMAIN Objects \ DOMAIN Clones : comps[u] = Objects[u]
    BY <1>1, ClonesTyped
  <2> QED BY <1>1, <2>1
<1>9. /\ DOMAIN store'[source] = DOMAIN Clones \cup (DOMAIN Objects \ ToSplit)
      /\ \A u \in DOMAIN Clones : store'[source][u] = Clones[u]
      /\ \A u \in DOMAIN Objects \ ToSplit : store'[source][u] = Objects[u]
      /\ \A s \in Sources : s # source => store'[s] = store[s]
  <2> DEFINE rest == Over(Clones, Unsplit)
  <2>1. store'[source] = rest /\ \A s \in Sources : s # source => store'[s] = store[s]
    BY <1>1, SplitStore
  <2>2. /\ DOMAIN rest = DOMAIN Clones \cup (DOMAIN Objects \ ToSplit)
        /\ \A u \in DOMAIN Clones : rest[u] = Clones[u]
        /\ \A u \in DOMAIN Objects \ (DOMAIN Clones \cup ToSplit) : rest[u] = Objects[u]
    BY <1>1, ClonesTyped
  <2> HIDE DEF rest
  <2> QED BY <1>1, <2>1, <2>2
<1>10. /\ Ordered' /\ Marked' /\ InSession'
       /\ UNCHANGED <<pda, file, left>> /\ ses'.cfg = ses.cfg
       /\ DOMAIN ses'.map.uids = DOMAIN F.uids
       /\ \A u \in DOMAIN F.uids : ses'.map.uids[u] = F.uids[u]
       /\ ses'.queue = DOMAIN changes /\ ses'.listed = comps
       /\ \A u : u \in DOMAIN ses'.changed <=> u \in DOMAIN changes /\ ~UidIsArchived(F, u)
       /\ \A u \in DOMAIN ses'.changed : ses'.changed[u] = changes[u]
  <2>1. Ordered /\ GoodMap(F) /\ Begin(F, comps, changes)
    BY <1>2 DEF Unwounded
  <2>2. \A u \in DOMAIN F.uids : F.uids[u].archived => F.uids[u].pid = 0
    BY <1>4, <1>5
  <2> HIDE DEF F, comps, changes
  <2> QED BY <1>1, <2>1, <2>2, BeginUnwounded DEF InSession
<1> HIDE DEF F, comps, changes
<1>11. /\ \A c \in DOMAIN Clones : \E v \in ToSplit :
            /\ v \in DOMAIN Objects /\ Objects[v] = Whole(Objects[v][1])
            /\ Objects[v][1] \in Long /\ Held(v, Objects[v])
            /\ Clones[c] \in Days(Objects[v][1])
       /\ \A c \in DOMAIN Clones : ~About(Clones[c]) /\ c \in Nat /\ uidsUsed < c
       /\ \A c, d \in DOMAIN Clones : Clones[c] = Clones[d] => c = d
  BY <1>1, ClonesAreNew
<1>12. \A u, x : Held(u, x)' =>
         Held(u, x) \/ (u \in DOMAIN Clones /\ x = Clones[u])
  <2> SUFFICES ASSUME NEW u, NEW x, Held(u, x)', u \notin DOMAIN Clones \/ x # Clones[u]
               PROVE  Held(u, x)
    OBVIOUS
  <2>1. CASE \E s \in Sources : u \in DOMAIN store'[s] /\ store'[s][u] = x
    <3>1. PICK s \in Sources : u \in DOMAIN store'[s] /\ store'[s][u] = x
      BY <2>1
    <3>2. u \in DOMAIN store[s] /\ store[s][u] = x
      BY <1>9, <3>1 DEF Objects
    <3> QED BY <3>2 DEF Held
  <2>2. CASE u \in DOMAIN ses'.changed /\ ses'.listed[u] = x
    <3>1. u \in DOMAIN Objects /\ Objects[u] = x
      BY <1>3, <1>8, <1>10, <2>2
    <3> QED BY <1>1, <3>1 DEF Held, Objects
  <2> QED BY <2>1, <2>2 DEF Held
<1>13. \A x : About(x)' => About(x) \/ \E c \in DOMAIN Clones : x = Clones[c]
  BY <1>10, <1>12 DEF About
<1>14. Single'
  <2>1. ASSUME NEW u, NEW v, NEW x, Held(u, x)', Held(v, x)'
        PROVE  u = v
    BY <1>11, <1>12, <2>1 DEF Unwounded, Single, About
  <2>2. \A p, q \in DOMAIN pda' : pda'[p].item = pda'[q].item => p = q
    BY <1>10 DEF Unwounded, Single
  <2>3. ASSUME NEW u, NEW x, NEW p \in DOMAIN pda', Held(u, x)', pda'[p].item = x
        PROVE  Paired(u, p)'
    <3>1. p \in DOMAIN pda /\ pda[p].item = x
      BY <1>10, <2>3
    <3>2. About(x)
      BY <3>1 DEF About
    <3>3. Held(u, x)
      BY <1>11, <1>12, <2>3, <3>2
    <3>4. Paired(u, p)
      BY <3>1, <3>3 DEF Unwounded, Single
    <3>5. u \in DOMAIN F.uids /\ F.uids[u].pid = p
      BY <1>1, <1>7, <3>1, <3>4 DEF Paired
    <3> QED BY <1>10, <3>5 DEF Paired
  <2> QED BY <2>1, <2>2, <2>3 DEF Single
<1>15. Entered'
  <2> SUFFICES ASSUME NEW x, About(x)'
               PROVE  x[1] <= Cardinality(Items) - left.items
    BY <1>10 DEF Entered
  <2>1. CASE About(x)
    BY <2>1 DEF Unwounded, Entered
  <2>2. CASE \E c \in DOMAIN Clones : x = Clones[c]
    <3>1. PICK v \in ToSplit : Held(v, Objects[v]) /\ x \in Days(Objects[v][1])
      BY <1>11, <2>2
    <3>2. About(Objects[v]) /\ x[1] = Objects[v][1]
      BY <3>1, ThingsFacts DEF About
    <3> QED BY <3>2 DEF Unwounded, Entered
  <2> QED BY <1>13, <2>1, <2>2
<1>16. \A c \in DOMAIN Clones : \A i : Clones[c] # Whole(i)
  <2> SUFFICES ASSUME NEW c \in DOMAIN Clones, NEW i, Clones[c] = Whole(i)
               PROVE  FALSE
    OBVIOUS
  <2>1. PICK v \in ToSplit : Clones[c] \in Days(Objects[v][1])
    BY <1>11
  <2>2. i = Objects[v][1]
    BY <2>1, ThingsFacts
  <2> QED BY <2>1, <2>2, ThingsFacts
<1>17. SplitOnce'
  <2> SUFFICES ASSUME NEW i \in Long, NEW x \in Days(i), About(x)'
               PROVE  /\ \A u : Held(u, Whole(i))' => Going(u)'
                      /\ \A p \in DOMAIN pda' : pda'[p].item = Whole(i) => Doomed(p)'
    BY DEF SplitOnce, Splitting
  <2>1. \A u : Held(u, Whole(i))' => Held(u, Whole(i))
    BY <1>12, <1>16
  <2>2. CASE About(x)
    <3>1. Splitting(i)
      BY <2>2 DEF Splitting
    <3>2. (\A u : ~Held(u, Whole(i))) /\ \A p \in DOMAIN pda : pda[p].item # Whole(i)
      BY <1>1, <3>1 DEF Unwounded, SplitOnce, Going, Doomed
    <3> QED BY <1>10, <2>1, <3>2
  <2>3. CASE \E c \in DOMAIN Clones : x = Clones[c]
    <3>1. PICK v \in ToSplit : /\ v \in DOMAIN Objects /\ Objects[v] = Whole(Objects[v][1])
                               /\ Held(v, Objects[v]) /\ x \in Days(Objects[v][1])
      BY <1>11, <2>3
    <3>2. i = Objects[v][1]
      <4>1. x[1] = Objects[v][1] /\ x[1] = i
        BY <3>1, ThingsFacts
      <4> QED BY <4>1
    <3>3. Held(v, Whole(i)) /\ v \notin DOMAIN Clones
      BY <1>1, <3>1, <3>2
    <3>4. ASSUME v \in DOMAIN ses'.changed
          PROVE  Going(v)'
      <4>1. v \in Kept(m) /\ changes[v] = "deleted"
        BY <1>3, <1>10, <3>3, <3>4
      <4> QED BY <1>10, <3>4, <4>1 DEF Going
    <3>5. ASSUME NEW u, Held(u, Whole(i))'
          PROVE  Going(u)'
      <4>1. u = v
        BY <2>1, <3>3, <3>5 DEF Unwounded, Single
      <4>2. \A s \in Sources : v \notin DOMAIN store'[s]
        <5> SUFFICES ASSUME NEW s \in Sources, v \in DOMAIN store'[s]
                     PROVE  FALSE
          OBVIOUS
        <5>1. s # source
          BY <1>9, <3>1, <3>3
        <5>2. v \in DOMAIN store[s] /\ v \in DOMAIN store[source]
          BY <1>9, <3>1, <5>1 DEF Objects
        <5> QED BY <1>1, <5>1, <5>2 DEF TInv, Handed
      <4>3. v \in DOMAIN ses'.changed
        BY <3>5, <4>1, <4>2 DEF Held
      <4> QED BY <3>4, <4>1, <4>3
    <3>6. ASSUME NEW p \in DOMAIN pda', pda'[p].item = Whole(i)
          PROVE  Doomed(p)'
      <4>1. p \in DOMAIN pda /\ pda[p].item = Whole(i)
        BY <1>10, <3>6
      <4>2. Paired(v, p)
        BY <3>3, <4>1 DEF Unwounded, Single
      <4>3. /\ v \in DOMAIN F.uids /\ F.uids[v].pid = p /\ ~UidIsArchived(F, v)
            /\ LookupPid(m, v) # 0
        BY <1>1, <1>7, <4>1, <4>2 DEF Paired
      <4>4. v \in DOMAIN changes
        BY <1>3, <3>1, <4>3
      <4>5. Going(v)'
        BY <1>10, <3>4, <4>3, <4>4
      <4> QED BY <1>10, <4>3, <4>4, <4>5 DEF Doomed
    <3> QED BY <3>5, <3>6
  <2> QED BY <1>13, <2>2, <2>3
<1>18. Gone'
  <2> SUFFICES ASSUME NEW u, Going(u)'
               PROVE  u \notin DOMAIN Objects'
    BY DEF Gone
  <2>1. u \in DOMAIN changes /\ changes[u] = "deleted"
    BY <1>10 DEF Going
  <2>2. u \in ToSplit /\ u \notin DOMAIN Clones
    BY <1>3, <2>1
  <2>3. Objects' = store'[source]
    BY <1>10 DEF Objects
  <2> QED BY <1>9, <2>2, <2>3
<1> QED BY <1>10, <1>14, <1>15, <1>17, <1>18 DEF Unwounded

---------------------------------------------------------------------------
(* Wounds do not heal.                                                      *)
LEMMA WoundsStay ==
  ASSUME Known, [Next]_vars, wounds' = {}
  PROVE  wounds = {}
<1>1. TInv /\ TypeOK /\ IInv
  BY DEF Known, TInv
<1>2. CASE Users
  BY <1>2 DEF Users, NewObject, DropObject, NewRecord, EditRecord
<1>3. CASE Settings
  BY <1>1, <1>3, SettingsConf
<1>4. CASE \E op \in Ops : Load(op)
  BY <1>1, <1>4, LoadFacts
<1>5. CASE SessionStep
  <2>1. CASE PlainPreSync
    BY <2>1 DEF PlainPreSync, MemoPreSync, TodoPreSync, AddressPreSync, Begin
  <2>2. CASE CalendarPreSync
    <3>1. wounds' \in {wounds, wounds \cup {"unfinished"}}
      BY <2>2, Zenon DEF CalendarPreSync, Begin
    <3> QED BY <3>1
  <2>3. CASE \E p \in Pids : RemoteRecord(p) \/ ReplaceFails(p)
    BY <2>3 DEF RemoteRecord, ReplaceFails
  <2>4. CASE CopyFromPilot \/ CopyToPilot \/ \E u \in Uids : LocalObject(u)
    BY <2>4 DEF CopyFromPilot, CopyToPilot, LocalObject
  <2>5. CASE PostSync \/ WriteMapFile \/ CleanUp
    BY <2>5 DEF PostSync, WriteMapFile, CleanUp
  <2> QED BY <1>5, <2>1, <2>2, <2>3, <2>4, <2>5 DEF SessionStep, PreSync, PlainPreSync
<1>6. CASE Break
  BY <1>6 DEF Break
<1>7. CASE UNCHANGED vars
  BY <1>7 DEF vars
<1> QED BY <1>2, <1>3, <1>4, <1>5, <1>6, <1>7 DEF Next

(* As long as there is no wound, every step keeps it.                       *)
LEMMA UnwoundedNext ==
  ASSUME Known, wounds = {} => Unwounded, [Next]_vars
  PROVE  (wounds = {} => Unwounded)'
<1> SUFFICES ASSUME wounds' = {}
             PROVE  Unwounded'
  OBVIOUS
<1>1. wounds = {} /\ Unwounded
  BY WoundsStay
<1>2. CASE Users
  BY <1>1, <1>2, UnwoundedUsers
<1>3. CASE Settings
  BY <1>1, <1>3, UnwoundedSettings
<1>4. CASE \E op \in Ops : Load(op)
  BY <1>1, <1>4, UnwoundedLoad
<1>5. CASE SessionStep
  <2>1. CASE PlainPreSync
    BY <1>1, <2>1, UnwoundedPlain
  <2>2. CASE CalendarPreSync
    BY <1>1, <2>2, UnwoundedCalendar
  <2>3. CASE \E p \in Pids : RemoteRecord(p)
    BY <1>1, <2>3, UnwoundedRemote
  <2>4. CASE CopyFromPilot \/ CopyToPilot
    BY <1>1, <2>4, UnwoundedCopy
  <2>5. CASE \E u \in Uids : LocalObject(u)
    BY <1>1, <2>5, UnwoundedLocal
  <2>6. CASE Ends
    BY <1>1, <2>6, UnwoundedEnds
  <2> QED BY <1>5, <2>1, <2>2, <2>3, <2>4, <2>5, <2>6 DEF SessionStep, PreSync, PlainPreSync, Ends
<1>6. CASE Break
  BY <1>1, <1>6, UnwoundedEnds DEF Ends
<1>7. CASE UNCHANGED vars
  <2>1. UNCHANGED <<store, pda, left, phase, ses, file>>
    BY <1>7 DEF vars
  <2>2. Ordered'
    BY <1>1, <2>1 DEF Unwounded, Ordered
  <2> QED BY <1>1, <2>1, <2>2, UnwoundedSame DEF InSession
<1> QED BY <1>2, <1>3, <1>4, <1>5, <1>6, <1>7 DEF Next

(* In the beginning nothing is about.                                       *)
LEMMA InitUnwounded == Init => Unwounded
<1> SUFFICES ASSUME Init
             PROVE  Unwounded
  OBVIOUS
<1>1. /\ phase = "idle" /\ ~InSession /\ DOMAIN pda = {}
      /\ \A s \in Sources : DOMAIN store[s] = {}
  BY DEF Init, InSession, NoEntries
<1>2. \A u, x : ~Held(u, x)
  BY <1>1 DEF Held
<1>3. \A x : ~About(x)
  BY <1>1, <1>2 DEF About
<1> QED BY <1>1, <1>2, <1>3
     DEF Unwounded, Ordered, Single, Entered, SplitOnce, Splitting, Gone, Going, Marked

(* Whatever is entered, edited, deleted and archived on either side, and    *)
(* whatever the order of callbacks, as long as there is no wound no item is *)
(* in two records of the PDA or in two objects of a source: an object and a *)
(* record that hold the same are paired in the map, or by the file when no  *)
(* session runs, so neither is ever sent to the other side as new.          *)
THEOREM NobodyTwice == Spec => []NoDuplicates
<1> DEFINE J == Known /\ (wounds = {} => Unwounded)
<1>1. Init => J
  <2>1. Init => TInv /\ Located /\ Remembered /\ PairsAgree
    BY InitTyped, InitLocated DEF Init, Remembered, PairsAgree, Agrees, NoEntries
  <2> QED BY <2>1, InitUnwounded DEF Known
<1>2. J /\ [Next]_vars => J'
  BY NextTyped, LocatedNext, RememberedNext, AgreedNext, UnwoundedNext DEF Known
<1>3. J => NoDuplicates
  <2> SUFFICES ASSUME J, wounds = {}
               PROVE  /\ \A p, q \in DOMAIN pda : pda[p].item = pda[q].item => p = q
                      /\ \A s \in Sources : \A u, v \in DOMAIN store[s] :
                           store[s][u] = store[s][v] => u = v
    BY DEF NoDuplicates
  <2>1. Single
    BY DEF Unwounded
  <2> QED BY <2>1 DEF Single, Held
<1> HIDE DEF J
<1> QED BY <1>1, <1>2, <1>3, PTL DEF Spec

===============================================================================
