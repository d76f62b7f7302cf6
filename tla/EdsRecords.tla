----------------------------- MODULE EdsRecords -----------------------------
(***************************************************************************)
(* One record, going back and forth between evolution-data-server and the   *)
(* PDA, as the conduits of conduits/evolution-data-server convert it.  The  *)
(* conversions are in the modules EventRecord, TaskRecord, ContactRecord and*)
(* Categories; which record is converted when is in EdsConduit.             *)
(*                                                                         *)
(* The users change what they like on either side, one thing at a time, from*)
(* DeskValues and PdaValues.                                                *)
(***************************************************************************)
EXTENDS EventRecord, TaskRecord, ContactRecord, Categories

CONSTANTS
  Kinds,       \* subset of {"event", "task", "memo", "contact"}
  DeskValues,  \* [Kinds -> what a user may change at once: sets of records]
  PdaValues,   \* the same of the PDA
  MaxEdits     \* bound on changes by users

PlainObject == [event |-> PlainEvent, task |-> PlainTask, memo |-> PlainMemo,
                contact |-> PlainContact]
PlainRecord == [event |-> PlainAppointment, task |-> PlainTodo, memo |-> PlainNote,
                contact |-> PlainAddress]

Objects(k) ==
  CASE k = "event" -> Events [] k = "task" -> Tasks [] k = "memo" -> Memos [] k = "contact" -> Contacts
Records(k) ==
  CASE k = "event" -> Appointments [] k = "task" -> Todos [] k = "memo" -> Notes
    [] k = "contact" -> AddressRecords

Changed(r, change) == [f \in DOMAIN r |-> IF f \in DOMAIN change THEN change[f] ELSE r[f]]

(* What the user of the PDA can only change together.                       *)
Together ==
  [event |-> {"repeat", "days", "day", "forever", "end"}, task |-> {"indefinite", "due"},
   memo |-> {}, contact |-> {}]

ASSUME KindsAssumption == Kinds \subseteq {"event", "task", "memo", "contact"}
ASSUME EditsAssumption == MaxEdits \in Nat
ASSUME DeskValuesAssumption ==
  \A k \in Kinds : \A v \in DeskValues[k] : Changed(PlainObject[k], v) \in Objects(k)
ASSUME PdaValuesAssumption ==
  \A k \in Kinds : \A v \in PdaValues[k] :
    /\ Changed(PlainRecord[k], v) \in Records(k)
    /\ Together[k] \subseteq DOMAIN v \/ Together[k] \cap DOMAIN v = {}

VARIABLES
  kind,    \* of the record
  desk,    \* the object in evolution-data-server
  cats,    \* its categories
  palm,    \* the record on the PDA
  slot,    \* its category
  table,   \* the categories of the PDA database
  last,    \* what happened last: "edit", "sent", "fetched"
  before,  \* what the side that was converted to held before
  edits    \* what the bound has left

vars == <<kind, desk, cats, palm, slot, table, last, before, edits>>

(* What is sent of an object over a record, and fetched of a record over an *)
(* object.                                                                  *)
ToPda(k, object, record) ==
  CASE k = "event" -> ToAppointment(object, record)
    [] k = "task" -> ToTodo(object)
    [] k = "memo" -> ToMemo(object)
    [] k = "contact" -> ToAddress(object, record)

FromPda(k, record, object) ==
  CASE k = "event" -> FromAppointment(record, object)
    [] k = "task" -> FromTodo(record, object)
    [] k = "memo" -> FromMemo(record, object)
    [] k = "contact" -> FromAddress(record, object)

CategoryToPda(k, list, t) ==
  IF k = "contact" THEN ContactToPda(list, t) ELSE CommonToPda(list, t)

TypeOK ==
  /\ kind \in Kinds
  /\ desk \in Objects(kind) /\ palm \in Records(kind)
  /\ cats \in Seq(Names)
  /\ slot \in Slot /\ table \in Table
  /\ last \in {"edit", "sent", "fetched"}
  /\ edits \in 0 .. MaxEdits

Init ==
  /\ kind \in Kinds
  /\ desk = PlainObject[kind] /\ palm = PlainRecord[kind]
  /\ cats = <<>> /\ slot = 0 /\ table = EmptyTable
  /\ last = "edit" /\ before = "nothing"
  /\ edits = MaxEdits

Edit == edits > 0 /\ edits' = edits - 1 /\ last' = "edit" /\ before' = "nothing"

EditObject(change) ==
  /\ Edit
  /\ desk' = Changed(desk, change)
  /\ UNCHANGED <<kind, cats, palm, slot, table>>

EditRecord(change) ==
  /\ Edit
  /\ palm' = Changed(palm, change)
  /\ UNCHANGED <<kind, desk, cats, slot, table>>

(* On the desktop any category may come first; the PDA has those of its     *)
(* table, and may drop one.                                                 *)
EditCategories(n) ==
  /\ Edit
  /\ cats' = ToFront(n, cats)
  /\ UNCHANGED <<kind, desk, palm, slot, table>>

EditCategory(i) ==
  /\ Edit
  /\ i \notin Free(table)
  /\ slot' = i
  /\ UNCHANGED <<kind, desk, cats, palm, table>>

DropCategory(i) ==
  /\ Edit
  /\ i # 0 /\ i \notin Free(table)
  /\ table' = [table EXCEPT !.names[i] = ""]
  /\ slot' = IF slot = i THEN 0 ELSE slot
  /\ UNCHANGED <<kind, desk, cats, palm>>

(* The object is sent in the place of the record.                           *)
Send ==
  /\ LET category == CategoryToPda(kind, cats, table)
     IN slot' = category.slot /\ table' = category.table
  /\ palm' = ToPda(kind, desk, palm)
  /\ last' = "sent" /\ before' = palm
  /\ UNCHANGED <<kind, desk, cats, edits>>

(* The record replaces the object.                                          *)
Fetch ==
  /\ desk' = FromPda(kind, palm, desk)
  /\ cats' = ToDesktop(slot, cats, table)
  /\ last' = "fetched" /\ before' = desk
  /\ UNCHANGED <<kind, palm, slot, table, edits>>

Next ==
  \/ \E v \in DeskValues[kind] : EditObject(v)
  \/ \E v \in PdaValues[kind] : EditRecord(v)
  \/ \E n \in Names : EditCategories(n)
  \/ \E i \in Slot : EditCategory(i) \/ DropCategory(i)
  \/ Send
  \/ Fetch

Spec == Init /\ [][Next]_vars

---------------------------------------------------------------------------
(* A number behind a gap moves up, and its old text stays where it was,     *)
(* under another label.                                                     *)
Gapless(numbers) ==
  \A i \in DOMAIN numbers : numbers[i].text # "" => \A j \in 1 .. i : numbers[j].text # ""

(* The second number of a label, on its own, becomes the first.             *)
Orderly(contact) ==
  \A label \in ToSet(Labels) : Gapless([i \in DOMAIN Chain(label) |->
    [text |-> contact.numbers[Chain(label)[i]]]])

NumberCount(contact) == Cardinality({f \in Fields : contact.numbers[f] # ""})

(* What the PDA keeps through a round trip.  The order of exceptions is     *)
(* reversed each time; an event that already had an alarm keeps it; a       *)
(* missing note does not remove the one a task has; priority 2 comes back as*)
(* 3; an address is never private, and an empty number gets the label its   *)
(* slot has at first.                                                       *)
LabelledWhereFilled(numbers) ==
  [i \in NumberSlots |-> IF numbers[i].text = "" THEN PlainAddress.numbers[i] ELSE numbers[i]]
AppointmentKeeps(a) ==
  [summary |-> a.summary, note |-> a.note, begin |-> a.begin, event |-> a.event,
   repeat |-> a.repeat, days |-> a.days, day |-> a.day,
   forever |-> a.forever /\ a.repeat # "none", end |-> IF a.repeat = "none" THEN 0 ELSE a.end,
   exceptions |-> ToSet(a.exceptions), secret |-> a.secret]
Reminder(a) == <<a.alarm, a.advance, a.units>>
Coarse(priority) == IF priority = 2 THEN 3 ELSE priority
PdaKeeps(a) ==
  CASE kind = "event" -> AppointmentKeeps(a)
    [] kind = "task" -> [a EXCEPT !.priority = Coarse(@)]
    [] kind = "contact" ->
         [a EXCEPT !.secret = FALSE, !.show = 1, !.numbers = LabelledWhereFilled(@)]
    [] OTHER -> a

(* A record that was fetched and is sent again unchanged is what it was.    *)
PdaSurvives ==
  last = "fetched"
  /\ (kind = "task" => palm.note # "none" \/ before.note = "none")
  /\ (kind = "contact" => palm.address # <<>> /\ Gapless(palm.numbers)
                           /\ before.numbers = PlainContact.numbers)
    => PdaKeeps(ToPda(kind, desk, palm)) = PdaKeeps(palm)

(* What the desktop keeps.                                                  *)
DesktopKeeps(d) ==
  CASE kind = "event" ->
         LET a == ToAppointment(d, PlainAppointment) IN <<AppointmentKeeps(a), Reminder(a)>>
    [] kind = "task" -> [d EXCEPT !.priority = Coarse(PriorityForPda(@)), !.class = @ = "private",
                          !.percent = IF d.status = "completed" THEN 100
                                      ELSE IF @ = 100 THEN 0 ELSE @]
    [] kind = "memo" -> ToMemo(d)
    [] kind = "contact" -> [d EXCEPT !.fileAs = ""]

(* An object that was sent and is fetched again unchanged is what it was.   *)
DesktopSurvives ==
  last = "sent"
  /\ (kind = "contact" => Orderly(desk) /\ Filled(before.numbers) = {})
    => DesktopKeeps(FromPda(kind, palm, desk)) = DesktopKeeps(desk)

(* Going back and forth comes to rest: what further rounds make of a record,*)
(* one has made of it.  (A contact whose first number of a label is empty   *)
(* gets the same number under more and more fields.)                        *)
Round(record, object) ==
  LET new == FromPda(kind, record, object)
  IN [record |-> ToPda(kind, new, record), object |-> new]
Settles ==
  kind # "contact" =>
  LET once == Round(palm, desk)
      twice == Round(once.record, once.object)
  IN Round(twice.record, twice.object).record = once.record

(* No two slots of the table have one name, and for contacts no two have one*)
(* id.  The other conduits look for the full name, and so add a name that   *)
(* was cut off to the table again and again; every conduit adds "Unfiled",  *)
(* as what it finds in slot 0 is nothing to it.                             *)
CutOff == {Stem[n] : n \in {n \in Names : Stem[n] # n}}
CategoriesDistinct ==
  \A i, j \in Slot \ Free(table) : i # j =>
    /\ table.names[i] = table.names[j] =>
         table.names[i] = "Unfiled" \/ (kind # "contact" /\ table.names[i] \in CutOff)
    /\ kind = "contact" => table.ids[i] # table.ids[j]
=============================================================================
