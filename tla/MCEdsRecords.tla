---------------------------- MODULE MCEdsRecords ----------------------------
EXTENDS EdsRecords, TLC

MCNames == {"one", "Unfiled", "a long name", "a long"}
MCStem == [n \in MCNames |-> IF n = "a long name" THEN "a long" ELSE n]

Rule(freq, days, pos, mday, weekStart, ends) ==
  [freq |-> freq, days |-> days, pos |-> pos, mday |-> mday, weekStart |-> weekStart,
   ends |-> ends, last |-> IF ends = "never" THEN 0 ELSE 3]
MCRules ==
  {Rule("daily", {}, 0, 0, w, e) : w \in {0, 1}, e \in {"never", "until", "count"}}
  \cup {Rule("weekly", d, 0, 0, 1, "never") : d \in {{}, {1}, {1, 6}}}
  \cup {Rule("monthly", {d}, p, 0, 1, "never") : d \in {0, 6}, p \in {-1, 1, 4, 5}}
  \cup {Rule("monthly", {}, 0, m, 1, "until") : m \in {1, 2}}
  \cup {Rule("yearly", {}, 0, 0, 0, "count"), Rule("hourly", {}, 0, 0, 1, "never")}

Number(l, t) == [label |-> l, text |-> t]
NumbersOf(a, b, c) == <<a, b, c, Number("other", ""), Number("email", "")>>
MCNumbers ==
  {NumbersOf(Number("work", a), Number("home", b), Number("fax", c)) : a, b, c \in {"", "1"}}
  \cup {NumbersOf(Number("work", "1"), Number("mobile", ""), Number("pager", "")),
        NumbersOf(Number("home", "2"), Number("work", "1"), Number("home", "3")),
        NumbersOf(Number("work", "1"), Number("work", "2"), Number("work", "3")),
        NumbersOf(Number("home", "2"), Number("email", "4"), Number("mobile", "5"))}

ContactNumbers ==
  {[PlainContact.numbers EXCEPT ![f] = "7", ![g] = "8"] : f, g \in {"home", "email 1", "pager", "business 2"}}

MCDeskValues ==
  [event |-> [span: {"day", "dates", "open"}] \cup [rule: MCRules] \cup [exdates: {<<1, 2>>, <<2>>}]
       \cup [alarms: {<<Minutes(15)>>, <<Minutes(90)>>, <<Hours(5)>>, <<Minutes(100)>>,
                      <<ForDays(5)>>, <<ForDays(140)>>, <<OtherAlarm>>, <<OtherAlarm, AtStart>>}]
       \cup [class: {"private", "confidential"}] \cup [note: {"b"}],
   task |-> [due: {1}] \cup [status: {"completed"}, percent: {0, 100}]
       \cup [status: {"in process", "cancelled"}, percent: {50, 100}] \cup [priority: 1 .. 9] \cup [note: {"b"}]
       \cup [class: {"private", "confidential"}],
   memo |-> [summary: {"b"}] \cup [text: {<<>>, <<"b", "c">>, <<"long", "b">>}] \cup [class: {"private"}],
   contact |-> [numbers: ContactNumbers] \cup [company: {"b"}] \cup [name: {""}]
       \cup [addresses: {[PlainContact.addresses EXCEPT !["work"] = <<"x">>],
                         [PlainContact.addresses EXCEPT !["home"] = <<"x", "y">>, !["other"] = <<"z">>]}]]

MCPdaValues ==
  [event |-> [begin: {2}] \cup [event: {TRUE}] \cup [exceptions: {<<1, 2>>}]
       \cup [secret: {TRUE}] \cup [note: {"b"}]
       \cup [repeat: {"daily", "yearly", "monthly by date"}, days: {{}}, day: {0}, forever: {TRUE}, end: {0},
             weekStart: {0, 1}]
       \cup [repeat: {"weekly"}, days: {{1}, {0, 6}}, day: {0}, forever: {FALSE}, end: {3}]
       \cup [repeat: {"monthly by day"}, days: {{}}, day: {0, 6, 27, 28, 34}, forever: {FALSE}, end: {3}]
       \cup [repeat: {"none"}, days: {{}}, day: {0}, forever: {FALSE}, end: {0}]
       \cup [alarm: {TRUE}, advance: {0, 20}, units: {"minutes", "days"}] \cup [alarm: {FALSE}],
   task |-> [indefinite: {FALSE}, due: {2}] \cup [complete: {TRUE}] \cup [priority: 1 .. 5]
       \cup [note: {"none", "b"}] \cup [secret: {TRUE}],
   memo |-> [text: {<<>>, <<"b", "c">>, <<"long", "b">>}] \cup [secret: {TRUE}],
   contact |-> [numbers: MCNumbers] \cup [name: {""}] \cup [secret: {TRUE}]
       \cup [address: {<<"x", "y">>, <<"x">>}] \cup [custom: {"c"}]]
=============================================================================
