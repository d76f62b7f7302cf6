---------------------------- MODULE ContactRecord ----------------------------
(***************************************************************************)
(* What the address conduit makes of a contact for the PDA, and of an       *)
(* address for evolution-data-server                                        *)
(* (conduits/evolution-data-server/address-conduit.c).                       *)
(*                                                                         *)
(* A PDA address has five numbers, each under a label; a contact has one of *)
(* each of fourteen fields.                                                 *)
(***************************************************************************)
EXTENDS RecordTexts, Naturals, Sequences, SequencesExt, FiniteSetsExt

CONSTANT DefaultAddress   \* the setting of that name: "home", "work", "other"
ASSUME AddressAssumption == DefaultAddress \in {"home", "work", "other"}

Labels == <<"work", "home", "fax", "other", "email", "main", "pager", "mobile">>

(* The fields in the order in which they get a place on the PDA.            *)
Priority ==
  <<[field |-> "business", label |-> "work"],
    [field |-> "home", label |-> "home"],
    [field |-> "business fax", label |-> "fax"],
    [field |-> "email 1", label |-> "email"],
    [field |-> "pager", label |-> "pager"],
    [field |-> "mobile", label |-> "mobile"],
    [field |-> "business 2", label |-> "work"],
    [field |-> "home 2", label |-> "home"],
    [field |-> "home fax", label |-> "fax"],
    [field |-> "email 2", label |-> "email"],
    [field |-> "other", label |-> "other"],
    [field |-> "primary", label |-> "main"],
    [field |-> "other fax", label |-> "fax"],
    [field |-> "email 3", label |-> "email"]>>

Fields == {Priority[i].field : i \in DOMAIN Priority}
NumberSlots == 1 .. 5
Addresses == <<"home", "work", "other">>

(* Which field the n-th number of a label is: get_next_mail and its like.   *)
Chain(label) ==
  CASE label = "email" -> <<"email 1", "email 2", "email 3">>
    [] label = "home" -> <<"home", "home 2">>
    [] label = "work" -> <<"business", "business 2">>
    [] label = "fax" -> <<"business fax", "home fax", "other fax">>
    [] label = "main" -> <<"primary">>
    [] OTHER -> <<label>>

PlainContact == [name |-> "a", company |-> "", fileAs |-> "a", note |-> "",
                 addresses |-> [a \in ToSet(Addresses) |-> <<>>],
                 numbers |-> [f \in Fields |-> ""]]
PlainAddress == [name |-> "a", company |-> "", note |-> "", address |-> <<>>, custom |-> "",
                 numbers |-> [i \in NumberSlots |-> [label |-> Labels[i], text |-> ""]],
                 show |-> 1, secret |-> FALSE]

Contacts ==
  [name: Texts, company: Texts, fileAs: Texts, note: Texts,
   addresses: [ToSet(Addresses) -> Seq(Texts)], numbers: [Fields -> Texts]]
AddressRecords ==
  [name: Texts, company: Texts, note: Texts, address: Seq(Texts), custom: Texts,
   numbers: [NumberSlots -> [label: ToSet(Labels), text: Texts]],
   show: NumberSlots, secret: BOOLEAN]

Filled(numbers) == {i \in DOMAIN numbers : numbers[i].text # ""}

(* The number in slot i is the n-th with its label.                         *)
Nth(numbers, i) == Cardinality({j \in 1 .. i : numbers[j].label = numbers[i].label})
HasField(numbers, i) == Nth(numbers, i) <= Len(Chain(numbers[i].label))
FieldOf(numbers, i) == Chain(numbers[i].label)[Nth(numbers, i)]

---------------------------------------------------------------------------
(* is_syncable: the numbers of the PDA record are those of a contact in the *)
(* order of Priority.  A place in that order serves as long as the labels   *)
(* that follow are the same.                                                *)
NextPlace(from, x) ==
  Min({l \in from .. Len(Priority) : Priority[l].label = x.label} \cup {Len(Priority) + 1})

Syncable(numbers) ==
  LET filled == SelectSeq(numbers, LAMBDA x : x.text # "")
      place(i) == FoldLeft(NextPlace, 1, SubSeq(filled, 1, i))
  IN \A i \in DOMAIN filled :
       /\ place(i) <= Len(Priority)
       /\ HasField(filled, i)
       /\ FieldOf(filled, i) = Priority[place(i)].field

(* By priority; a slot for which nothing is left gets its own label, and    *)
(* keeps its text.                                                          *)
ByPriority(contact, numbers) ==
  LET sent == {l \in DOMAIN Priority : contact.numbers[Priority[l].field] # ""}
      ith(i) == {l \in sent : Cardinality({m \in sent : m <= l}) = i}
  IN [i \in NumberSlots |->
       IF ith(i) # {}
       THEN LET next == Priority[Min(ith(i))]
            IN [label |-> next.label, text |-> contact.numbers[next.field]]
       ELSE [label |-> Labels[i], text |-> numbers[i].text]]

(* By label: "the best we can".                                             *)
ByLabel(contact, numbers) ==
  [i \in NumberSlots |->
    IF HasField(numbers, i) /\ contact.numbers[FieldOf(numbers, i)] # ""
    THEN [numbers[i] EXCEPT !.text = contact.numbers[FieldOf(numbers, i)]]
    ELSE numbers[i]]

(* The address of the settings, or the first the contact has.               *)
AddressField(contact) ==
  LET present == {k \in DOMAIN Addresses : contact.addresses[Addresses[k]] # <<>>}
  IN IF contact.addresses[DefaultAddress] # <<>> \/ present = {} THEN DefaultAddress
     ELSE Addresses[Min(present)]

(* local_record_from_ecard: numbers and custom fields are those of the      *)
(* record the PDA has, and old is an empty one if it has none.              *)
NumbersForPda(contact, old) ==
  IF Syncable(old.numbers) THEN ByPriority(contact, old.numbers)
  ELSE ByLabel(contact, old.numbers)

ToAddress(contact, old) ==
  [name |-> contact.name, company |-> contact.company, note |-> contact.note,
   address |-> contact.addresses[AddressField(contact)],
   custom |-> old.custom,
   numbers |-> NumbersForPda(contact, old),
   show |-> IF Syncable(old.numbers) THEN 1 ELSE old.show,
   secret |-> FALSE]

(* ecard_from_remote_record: every number goes to the next field of its     *)
(* label, and an empty one empties it.                                      *)
FromAddress(address, contact) ==
  [name |-> address.name, company |-> address.company, note |-> address.note,
   fileAs |-> IF address.name = "" THEN address.company ELSE contact.fileAs,
   addresses |-> [contact.addresses EXCEPT ![AddressField(contact)] = address.address],
   numbers |-> [f \in Fields |->
     LET slots == {i \in NumberSlots : HasField(address.numbers, i)
                                       /\ FieldOf(address.numbers, i) = f}
     IN IF slots = {} THEN contact.numbers[f]
        ELSE address.numbers[CHOOSE i \in slots : TRUE].text]]
=============================================================================
