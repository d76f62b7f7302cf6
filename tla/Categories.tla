----------------------------- MODULE Categories -----------------------------
(***************************************************************************)
(* The categories of a PDA database, and what they are on the desktop       *)
(* (conduits/evolution-data-server/libecalendar-common-conduit.c, and, with *)
(* differences, address-conduit.c).  A record of the PDA is in one category;*)
(* an object of evolution-data-server is in a list of them.                 *)
(***************************************************************************)
EXTENDS Naturals, Sequences, SequencesExt, FiniteSetsExt

CONSTANTS
  Names,    \* names of categories on the desktop
  Stem,     \* [Names -> Names]: what 15 characters hold of a name
  Slots     \* places in the table of the PDA; slot 0 is "Unfiled"

ASSUME StemAssumption == Stem \in [Names -> Names] /\ \A n \in Names : Stem[Stem[n]] = Stem[n]
ASSUME SlotsAssumption == Slots \in 2 .. 16   \* PILOT_MAX_CATEGORIES is 16

Slot == 0 .. Slots - 1
Table == [names: [Slot -> Names \cup {"", "Unfiled"}], ids: [Slot -> 0 .. 255]]
EmptyTable == [names |-> [i \in Slot |-> IF i = 0 THEN "Unfiled" ELSE ""],
               ids |-> [i \in Slot |-> 0]]

Free(table) == {i \in Slot : table.names[i] = ""}

(* e_pilot_add_category_if_possible.  In the common code the search for an  *)
(* unused id looks only at the id that the free slot had before.            *)
CommonId(table) == IF table.ids[Min(Free(table))] = 128 THEN 129 ELSE 128
UnusedId(table) == Min((128 .. 255) \ {table.ids[i] : i \in Slot})

Named(table, name, id) ==
  [names |-> [table.names EXCEPT ![Min(Free(table))] = Stem[name]],
   ids |-> [table.ids EXCEPT ![Min(Free(table))] = id]]

Added(table, name, id) ==
  IF Free(table) = {} THEN [slot |-> 0, table |-> table]
  ELSE [slot |-> Min(Free(table)), table |-> Named(table, name, id)]

(* e_pilot_local_category_to_remote: the first category of the object, by   *)
(* its full name; it is added if the table does not have it.                *)
CommonToPda(list, table) ==
  IF list = <<>> THEN [slot |-> 0, table |-> table]
  ELSE LET found == {i \in Slot \ {0} : table.names[i] = Head(list)}
       IN IF found # {} THEN [slot |-> Min(found), table |-> table]
          ELSE Added(table, Head(list), CommonId(table))

(* A contact: the first of its categories that the table has, by 15         *)
(* characters; the first of all is added if it has none.  "Unfiled" is found *)
(* in slot 0, which counts for not found.                                   *)
ContactToPda(list, table) ==
  LET slotsOf(name) == {i \in Slot : table.names[i] = Stem[name]}
      known == {k \in DOMAIN list : slotsOf(list[k]) # {} /\ Min(slotsOf(list[k])) # 0}
  IN IF list = <<>> THEN [slot |-> 0, table |-> table]
     ELSE IF known # {} THEN [slot |-> Min(slotsOf(list[Min(known)])), table |-> table]
     ELSE Added(table, Head(list), UnusedId(table))

(* e_pilot_remote_category_to_local: the category of the record comes first *)
(* in the list, and not again later; a record that is in none empties it.   *)
ToFront(name, list) ==
  LET at == {k \in DOMAIN list : list[k] = name}
  IN <<name>> \o (IF at = {} THEN list ELSE RemoveAt(list, Min(at)))

ToDesktop(slot, list, table) ==
  IF slot = 0 THEN <<>> ELSE ToFront(table.names[slot], list)
=============================================================================
