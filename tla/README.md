# gnome-pilot: specifications, model checks and proofs

TLA+ modules for gnome-pilot 4.0.1, the daemon that synchronizes Palm PDAs
with a GNOME desktop. They are written from the C source; file names and line
numbers below are those of `src/`. Every definition that stands for code is
listed with its lines in `PROJECT.json` ("map").

    tlc -workers 2 -config RequestQueue.cfg MCRequestQueue     # one run
    tlapm RequestQueueProofs.tla                               # the proofs

## 1. Inventory

gnome-pilot is one process, `gpilotd`, that runs a single-threaded GLib main
loop, and a few programs around it. What makes it hard is not threads but
(a) a main loop that is entered again inside of handlers (every dialog), (b)
two data bases that are edited independently and reconciled by flags, (c) files
that outlive a crash, are updated in several steps, and are written as a whole
by several processes, (d) a serial link that may break anywhere, (e) signals
that go to everybody, with handles that are given again.

| Component | Source | State | Operations | Hard part |
|---|---|---|---|---|
| Request queue | `gpilotd/queue_io.c` | key file: a counter per section, a group per request | load, store, purge, purge by handle | requests are found by counting down from a counter; survives crashes |
| D-Bus operations | `gpilotd/gpilot-daemon.c` 1515-2286 | the queue, the context | request_*, get/set info, remove_request, pause, reread_config | called at any time the main loop runs, nested ones included |
| Serving of requests | `gpilot-daemon.c` 631-802, `manager.c` 551-887, 1006-1030 | loaded lists, what follows | cradle events, restore, conduit, install | order of serving, early ends, a list within a list |
| Main loop and devices | `gpilot-daemon.c` 132-535, 984-1437, `gnome-pilot-structures.c`, `gpilot-gui.c` | context, list of devices, GLib sources, paused | device_in, device_err, uevents, reread | nested main loops, freed objects, watches that are lost |
| Synchronization session | `manager.c` 110-504, 644-717, 889-1077 | conduits with their settings, first_sync, sync stamp | load, iterate_dbs, sync_default, stamp, unload | partial failures, what is written before what |
| Record synchronization (library) | `gnome-pilot-conduit-standard-abs.c` | PDA records, desktop records, ids to ignore | synchronize, copy_*, merge_* | the table of twenty cases, flags, ids, a broken link |
| Record synchronization over pilot-link | `gnome-pilot-conduit-sync-abs.c` | none of its own | adapter to pilot-link's sync.c | its algorithm is not in the repository |
| EDS conduits | `conduits/evolution-data-server/*.c` | change list, map file, settings | pre_sync, match, add, replace, delete, post_sync; conversions | map and store written apart; no change log; round trips |
| Map of ids | `e-pilot-map.c` | two hash tables, XML file | insert, remove, look up, read, write | tables stay inverse; shared keys |
| Backup conduit | `conduits/backup` | directory of databases and generations | backup, restore, move away on exit | what counts as deleted after an early end |
| File conduit, installer | `conduits/file` | queued files | install_db; the installer's dialog | file and request removed apart |
| Configuration | `gnome-pilot-config.c`, `-structures.c`, `-conduit-config.c` | key files | load, save, migrate | several processes rewrite whole files |
| Process life cycle | `gpilotd.c` | pid file, bus name | start, signals, name lost | two daemons started at a time |
| Client library | `gnome-pilot-client.c` | D-Bus proxy | calls and signals | calls that time out while the daemon is busy |
| Capplet, assistant | `capplet/` | dialogs over a copy of the key files | edit, ask the PDA, apply | write, then have the daemon reread; stale answers |
| Tray applet | `applet/` | icon, dialogs | restore, restart, signals | takes any completion for its own |
| Command line tools | `utils/` | list of handles | requests, then waiting | whose completion it is |
| Conduit classes, management | `gnome-pilot-conduit*.c` | GObject boilerplate, plug-ins | signals, dlopen | none |
| Build, translations, help | `macros/ po/ help/ debian/` | - | - | - |

How they interact: clients, the capplet and the tray talk to the daemon over
D-Bus; the daemon turns requests into queue entries and HotSync events into
calls of the manager; the manager loads conduits as plug-ins and calls their
class operations; a conduit talks to the PDA by pilot-link and to its desktop
store. Daemon, capplet and conduits share key files.

**In this commit the D-Bus methods are not exported.** `register_daemon`
(`gpilot-daemon.c:2511-2531`) ends in "TODO: register D-Bus interface using
gdbus-codegen generated skeleton", and `gpilotd.c:151-158` in "TODO: register
D-Bus objects here in Phase 2"; a client's call is refused as unknown. The
models take the handlers `gpilot_daemon_*` as what they are written to be: the
methods of `gpilot-daemon.xml`, called from the main loop by the client library
of the same repository. What the modules `RequestQueue`, `Daemon` and `Desktop`
say of a call is said under this assumption. (Emission of signals is complete
and needs none, but for `SysInfoRequested`, which is emitted as "(suuussuu)"
and read as "(&siii&s&sii)": its contents are left out.)

What makes each component correct:

- *Queue*: a request stays until it is completed or withdrawn; it is completed
  once; a handle means one request; nothing is purged that was not asked for.
- *Main loop*: a source never outlives its device; a device is only deaf for a
  reason; nothing is synchronized while paused; every HotSync is answered.
- *Record synchronization*: each record is treated as the table says, exactly
  once; a second synchronization has nothing to do; between two sessions every
  difference is flagged; sessions end.
- *Session*: the stamp that makes the next session a fast one can be relied on;
  a first synchronization is performed once; a conduit that failed is not taken
  for one that succeeded.
- *EDS conduits, map*: the two tables are inverse; nothing is there twice; what
  is on the desktop is paired with the PDA; a record survives a round trip.
- *Backup*: a whole backup survives failed attempts; there is one of every
  database; one is moved away only if the PDA lacks the database.
- *Desktop*: who waits is answered; what a window saves takes effect.

## 2. Modules

| Module | Models | Lines |
|---|---|---|
| `RequestQueue` | key file, D-Bus operations that use it, serving in a synchronization, a crash | 459 |
| `PendingRequests` | abstract: a request is pending until answered and dropped, or withdrawn | 44 |
| `RecordSync` | the class `GnomePilotConduitStandardAbs` between two edited sides | 584 |
| `Daemon` | main loop, devices, nested dialogs, pause, reread | 361 |
| `PilotMap` | e-pilot-map.c: two tables, operations that return the new map, the file | 107 |
| `EdsConduit` | sessions of the four EDS conduits over `PilotMap`, and the class over pilot-link | 538 |
| `EdsRecords` | a record going back and forth, composed of the next four | 228 |
| `EventRecord`, `TaskRecord`, `ContactRecord`, `Categories` | conversion of each kind of record, and of categories | 451 |
| `RecordTexts` | the texts of records, as far as conversions tell them apart | 10 |
| `BackupFiles` | the backup, its generations and `del/`, as operators | 75 |
| `SyncSession` | a whole session: loading, requests, iterate_dbs with conduit and backup, stamp, unloading | 420 |
| `DesktopQueue` | the queue as clients see it: calls, handles, a HotSync that serves it, signals | 138 |
| `Desktop` | capplet, PDA dialog, assistant, tray, gpilotd-client, installer, pid file, over `DesktopQueue` | 734 |
| `RequestQueueProofs`, `DaemonProofs`, `SyncSessionProofs` | theorems about each of these modules | 4088 |
| `RecordSyncProofs`, `TwoWaySyncProofs` | theorems about `RecordSync`: what holds wherever the link breaks; two-way sessions | 4001 |
| `EdsConduitProofs`, `EdsPairingProofs` | theorems about `EdsConduit`: the map and the types; what is paired with what | 7196 |
| `EdsRecordsProofs` | theorems about `EdsRecords` and the conversions | 2753 |
| `MC*` | instances for TLC | 123 |

### RequestQueue

`numreq[s]` is the key number-of-requests of a section, `group[s][n]` the group
`<s>-<n>`; section 0 is "system". A request keeps its type, its cradle, its
handle and one flag that the control depends on (continue_sync, or whether the
conduit asked for is a file conduit); file names, passwords and time-outs are
left out. `todo` is the list a synchronization has loaded, `outer` the list of
CONDUIT requests that waits while a file conduit installs
(`run_conduit_sync_foreach` calls `install_foreach`); `stage` tells whether the
first request of the list has been signalled already. Completing
(`dbus_notify_completion`) is cut in two, the signal and the purge, because a
crash in between is visible to a client.

D-Bus operations are enabled only when no synchronization runs. That is not a
simplification of the code: dialogs, in which the main loop could dispatch
them, open before a list is loaded (`manager.c:677,687`, `gpilot-daemon.c:601ff`)
and never while one is held, so every operation comes before the first load or
after the last purge.

The handle is `pilot_id * 65535 + n` modulo 2^32 as in `set_section_num`; base
and word are constants, so that the wrap can be seen with small numbers: in the
run the handles of PDA 5 wrap onto those of PDA 2, one lower, as those of PDA
65539 do with the numbers of the code. `HandlesDecode` says exactly when a handle
leads back to its request (`FitsWord`). A client may cancel with any handle it was
given, so a wrapped one removes a request of another section, and a section is
`Uniform` only if no cancelled handle leads to it (`CancelReaches`), whether its
own or a wrapped one.

### RecordSync

`remote` and `local` are the two sides; `BeginSession(s)` starts one of the six
operations, then each step treats one record of the loop that runs: `ReadRemote`
(FastSync, SlowSync, standard_abs_merge_to_local), `InstallNew` and `SyncLocal`
(standard_abs_merge_to_remote, standard_abs_check_locally_deleted_records),
`CopyLocal`, `CopyRemote`, `EndLoop`, `Close`. `Verdict` is the nested switch of
`standard_abs_sync_record`, its case numbers kept as comments. The steps of
other actors: edits on either side, the other PC, a broken link, and a user who
asks for a slow synchronization. The PDA and the conduit's store are external;
what is assumed of them is stated in the head of the module (in particular,
match_record hands out a copy of the stored record).

Two bounds speak of what is finite in the model only. There is a place in the
store for every id (`PlacesAssumption`). A user makes a new record only while
there is `Room`: an id is left for every record that has none, and a second one
for each that is modified as well, because `SyncLocal` writes such a record once
more than it needs to and its store does not learn the first id. Without this
the PDA of the model would run out of ids in the middle of a session, where a
real one has sixteen million.

`before`, `again` and `exempt` are history: how the session found the two sides;
whether it repeats the previous one with no edit in between; and the ids for
which a difference without a flag is the documented outcome (a conflict is
"swapped", a one-way operation leaves the other side alone, another PC has reset
the flags).

### Daemon

`listed` is context->devices, `freed` the objects that were freed, `watches` the
GLib sources. A handler that opens a dialog is cut there: its frame goes onto
`stack`, and while it waits every other source may be dispatched, but not the
same one again (GLib blocks a source while it is dispatched). `Answer` continues
the innermost handler. Reading a freed object is undefined behaviour: `Touch`
lets gpilotd crash or go on with the old contents. What a synchronization does
with the PDA is one step here; it is detailed by the other modules.

A GPilotDevice is a pair <<number in the configuration, slot>>: the slot tells a
new object from an old one of the same name to which a waiting handler still
has a pointer. That an address is used again while somebody holds it is not
modelled.

### PilotMap and EdsConduit

`PilotMap` has the two hash tables of `EPilotMap` as functions over the keys
that are present (`pids`, `uids`), each operation of e-pilot-map.c as an
operator that returns the new map, and `WriteMap` and `ReadMap` for the file,
in which an archived entry has lost its PDA id.

`EdsConduit` runs sessions of one conduit over it. `pda` and `store` are the two
sides (an object or record holds an *item*: whatever a user entered once),
`conf` the conduit's key file (source, last_uri), `file` the map file, `ses`
what the conduit has in memory: map, source, change list, what is still to be
treated. `PreSync` is pre_sync with the three reasons for a slow
synchronization; `RemoteRecord` and `LocalObject` hand one record or object to
the conduit. In which order and with which treatment is up to pilot-link's
sync.c, which is not in the repository; therefore every treatment that the flags
of the pair permit is allowed. post_sync is cut between the key file and the map
file. The four conduits differ in nothing else than the contents of records, but
for the calendar, which splits an event of several days into one of each day.
`wounds` remembers what has gone wrong that a property excepts: a session that
broke off, settings saved from an older copy, a death between the two files.
Items are numbered in the order in which users enter them; the names of sources
are neither "none" nor "empty", which is how `last_uri` says that there is none
(`ItemsAssumption`, `SourcesAssumption`).

### EdsRecords

The conversions are operators from record to record: `ToAppointment` and
`FromAppointment`, `ToTodo` and `FromTodo`, and so on; `CommonToPda`,
`ContactToPda` for categories. A field keeps what the conversion tells apart
(a priority, a class, the kinds of recurrence, labels and places of the five
telephone numbers) and not its text. `EdsRecords` lets users change one thing
at a time on either side, and the record be sent or fetched in between.

Each kind has its types, `Events` and `Appointments`, `Tasks` and `Todos`, and so
on: what a record of the PDA may hold is what its format has (a day of a
repeat from 0 to 34 only where it repeats by day, a priority from 1 to 5, five
numbers with one of the labels), and the conversions must not leave it. What users
may change at once is a constant (`DeskValues`, `PdaValues`), assumed to be
possible values of the fields, given together where only together they make
sense (`Together`); `MCEdsRecords` has the sets for TLC. `Texts` is any set that
has the five texts the code tells apart: empty, none, an ordinary one, a line of
more than 50 characters and what is left of it. A table has at most 16 slots,
PILOT_MAX_CATEGORIES.

What a round trip is allowed to lose is written down in `PdaKeeps` and
`DesktopKeeps`, with a reason each: the order of exceptions, the weekday a week
starts with, the alarm of an event that had one, the priority 2 of a task, the
percentage of a task that is not completed if it is 100, the private flag of an
address, the label of a number that is empty. `CategoriesDistinct` exempts names
of more than 15 characters, and a category that is called "Unfiled": it is found
in slot 0, which counts as not found, and added.

### BackupFiles and SyncSession

A file holds a version of a database, whole or broken off, and bears the date
of the list it was made from; a directory is the backup, its generations and
`del`. `Rotate` is create_backup_of_backup, `BackUp` the conduit's backup
operation past its exclusions, `MoveToDel` what destroy_configuration does with
a file that was not met.

`SyncSession` is `do_sync` from loading the conduits to unloading them. `Connect`
loads the settings into `session`; `Restore` and `Iterate(what)` serve the
requests, or the default when there is none; `Visit(d)` is one turn of the loop
of `iterate_dbs`, the conduit first and then the backup, each with a result;
`PassOver(d)` is the turn of a database that the PDA has `marked`
(dlpDBMiscFlagExcludeFromSync, `manager.c:356-389`), of which neither learns;
`EndIteration` ends the loop and completes the request; `Finish` writes the stamp
and unloads, in the order of the code; `Crash` and `LoseLink` come anywhere. An
error of dlp_ReadDBList is taken for the end of the list (`manager.c:315-321`):
`Iterate` may read any part of it, at the cost of a fault, and such a session
does not count as smooth. The properties speak of the databases a session goes
through, `Synced(d)`: those the PDA has and has not marked. Of a record only two
things are kept: whether the PDA has changes that this desktop lacks, and whether
they are still flagged (`lacks`): that is what a fast synchronization depends on,
and `RecordSync` has the rest. `past` is the history of the session: how it found
the stamp and whether all went well.

### DesktopQueue and Desktop

`DesktopQueue` is the key file of the queue again, with the loading by count of
`queue_io.c`, but a HotSync serves it in one step; a request carries the window
that waits for it (history). `Desktop` has the processes: the settings window
with the PDA dialog and the assistant, the tray, gpilotd-client run for one of a
set of commands, the installer. Each has its own copy of the settings, the
handles it waits for and an `inbox` of signals that its main loop has not
dispatched; a signal is put into the inbox of every process. A call may time out
and still be stored. `file` is the daemon's key file and `inforce` what it works
with. A dialog in which the user waits may be answered with Cancel, which takes
the requests back (`DialogCancelSync`, `CancelWaiting`), or dismissed with Escape
or by closing it, which leaves them queued (`DialogDismissSync`,
`DismissWaiting`): nobody waits for these any more. `pidfile` tells whether the
pid file names the daemon, which a restart by the client library and a second
daemon depend on.

### How they compose

The modules meet at the HotSync: `Daemon!Synchronized` stands for
`RequestQueue!SyncDevice` up to `Finish`, which `SyncSession` shows from the side
of the databases; a `Visit` of it with a conduit is a session of `RecordSync` or
of `EdsConduit`; `Desktop` has all of it as one step. By EXTENDS: `SyncSession` over
`BackupFiles`, `EdsConduit` over `PilotMap`, `EdsRecords` over the conversions,
`Desktop` over `DesktopQueue`. `RequestQueue` implements `PendingRequests` by a
refinement mapping.

## 3. Runs

| Run | Checks | Bounds | Result |
|---|---|---|---|
| requests | types, counters, live batches, handles, one signal, contiguity; implements `PendingRequests`; uniform sections are served | 3 PDAs (one sent everything and cancelled from; two sent files only, one of them with handles that wrap, cancelled from), 1 cradle, 3 requests, 1 crash | holds, 164,399 states |
| request_lost | `NoRequestLost` | 2 PDAs, 3 requests, no crash | violated |
| record_sync | table, flags, idempotence, one counterpart | 2 ids, 2 places, 2 values, 2 edits, 1 other PC, 1 broken link | holds, 1.3 million states |
| record_sync_ends | every session ends | 1 edit, 1 broken link | holds, 46,999 states |
| broken_link | what the comment at `standard-abs.c:1622` promises | 1 edit, 1 broken link | violated |
| daemon | live watches, deafness, type restored, pause, HotSync answered | a serial and a USB device, 3 slots, 2 dialogs deep | holds, 432,600 states |
| pause_continue | `ContinueListens` | a network device | violated |
| eds | inverse tables, no duplicates, everything paired, map of the last source, archived is remembered | 3 PDA ids, 3 uids, 2 items (one of several days), 2 sources, 1 edit, 1 odd event | holds, 244,338 states |
| eds_records | what survives a round trip on either side, rest, distinct categories | 4 kinds, 3 edits, 4 slots | holds, 1,072,854 states |
| session | honest stamp, backups not behind, files match the PDA, first synchronization once, whole backup survives | 2 databases, one with a conduit, 4 configurations, 2 backup settings, 1 generation, 3 versions, 2 events, 1 fault | holds, 3,477,439 states |
| backup_moved | `RemovedOnlyIfDeleted` | 1 event, no fault | violated |
| desktop | nobody waits in vain, settings take effect | 2 PDA ids, 4 requests a section, 3 windows waiting, 6 signals, 3 events | holds, 819,948 states |

Why the bounds are enough. *Queue*: with three requests in a section a purge can
be of the first, the middle or the last one; one crash shows everything a crash
can leave behind, since nothing of a crash but the file survives; with 16 handles
and 5 to a section, those of PDA 5 lead to PDA 2. *Records*:
each record is treated for itself but for the ids to ignore and the assignment
of ids; two records give every pair, and two edits every combination of flags on
the two sides of one record (an edit each), including "archived and modified".
*Daemon*: two nested dialogs give a handler that waits below another; a third
level adds no new kind of frame. One device of each type: two devices interact
only through the walk over the list, for which a serial one before a USB one is
enough. A slot more than dialogs guarantees that a reread finds a free one.
*EDS*: a map entry concerns one id and one uid; a third of each leaves room for a
collision and for the days of a split event; two sources (interchangeable, hence
symmetry) are what last_uri tells apart. With two odd events the properties hold
as well (2,582,544 states, 4 minutes). *EDS records*: one record of each kind; three
edits give a change on each side and one more after a round trip; four slots are
a full table with three categories. *Session*: two databases, one of which only
the backup conduit has, two events and a fault give a session that fails after
another computer's, or after a change of the settings; with one generation a
whole backup survives one failure and not two. For any other numbers there are
the proofs. *Desktop*: three waiting windows and six signals fill every inbox with
another window's answers before its own.

Fairness. *Queue*: the daemon carries a synchronization through (`WF` on the
steps of a synchronization), and the user goes on pressing the button of each PDA
(`SF` on SyncDevice: other requests may interleave for ever). The crashes are
bounded. *Records*: the daemon does nothing else while a session runs (`WF`).
*Daemon*: the main loop dispatches a source that is ready again and again, no
source being starved by GLib (equal priorities), and the user closes dialogs; a
dialog inside a dialog may keep the outer one waiting, therefore the outermost
one is closed again and again (`SF`). The other modules state no fairness:
`NobodyWaitsInVain` says that an answer is on its way, not that a user presses
the button.

Deadlock is checked, but for *eds*, *eds_records* and *desktop*, whose bounded
users may come to have nothing left to do.

Every property has a mutant in `PROJECT.json`: a plausible mistake in the code
for which the property fails.

## 4. Disagreements

Each has a run of its own, whose counterexample is the evidence.

1. **Requests get lost** (`NoRequestLost`). The counter is decremented whichever
   request is purged; a request of a higher number is out of reach. Holds where
   requests of a section are uniform (`UniformContiguous`).
2. **A broken link is closed as a success** (`FastSyncHasFlags`).
3. **Continue does not continue** (`ContinueListens`).
4. **Backups of databases the PDA has are moved away** (`RemovedOnlyIfDeleted`)
   by a session that was asked for something else than the default.

### Seen, without a run

These follow from the code the modules model; where a property would meet one,
its comment names the exception.

*Daemon and queue.* Handles wrap from PDA id 65537 on, which nothing checks: a
cancellation then removes a request of another section, or finds none. A removed device stays in
the list. Completion does not tell a failed installation from a successful one;
run_conduit ignores the requested operation; an unknown operation in
request_conduit is stored with an uninitialized one. A second gpilotd removes
the pid file before it knows whether it owns the bus name, and a restart then
does nothing. attempt_restore offers the last PDA if none matches;
gpilot_start_unknown_restore writes an uninitialized lastSyncPC. The converted
user name is overwritten by the unconverted one in dbus_notify_userinfo.

*Records.* A slow synchronization does not compare; it reads by index while
records are deleted from the same database. A record added and deleted on the
PDA reaches the PC. Row 16 of the table is not reached by FastSync. After a merge
in one direction the flags of the PDA are reset, so that its edits never reach
the PC. A conflict stores the PDA record before the local one is sent: a
match_record that hands out no copy would send it back.

*Session and backup.* A session that only serves a request, is cancelled, or
fails still writes the stamp; types that merge one way, after another computer's
session, leave changes forgotten that are not flagged. A file that was broken
off keeps its date, and with updated_only is not made again until the database
changes; a database that cannot be opened leaves an empty backup after the good
one was pushed on. A database marked ExcludeFromSync is neither synchronized nor
backed up, but the stamp is written: changes of it that are not flagged are
forgotten once the mark is taken off. Its old backup is taken for that of a
removed database, and moved to `del` with remove_deleted. If dlp_ReadDBList
fails midway, the daemon takes what it has read for the whole PDA: the rest is not
synchronized, and with remove_deleted its backups are moved away. A first synchronization set in the settings while one is
performed is removed with it; two conduit requests in one session perform it
twice. The error of iterate_dbs is overwritten by each database, but no caller
looks at it.

*EDS conduits.* A deletion on the desktop never reaches the PDA (every existing
object counts as modified, a missing one as nothing); if the record is then
changed on the PDA, replace_record fails, and so does every later session.
Events of several days that recur, or are not split, are never sent. A slow
synchronization or a copy drops archived entries (write_touched_only). The
settings window saves the last_uri it once read. A map file that cannot be read
leaves no map at all. Alarms changed on the PDA do not reach an event with an
alarm, and are overwritten; the order of exceptions is reversed by each fetch;
the start of the week is not kept; a count becomes a date; a note deleted on the
PDA comes back; priorities, "confidential" and a contact's private flag get
coarse or lost; contact numbers leave stale text in unused places and multiply
behind a gap; names of more than 15 characters are added to the table at each
send (calendar, todo, memo), and all new categories get the id 128.

*File conduit.* A zero-length record or resource goes on with the loop without
counting (`file_conduit.c:361`): the same one is read for ever. A failed
installation leaves a partial database on the PDA; a database that cannot be
created counts as installed, and its file is removed.

*Desktop.* In the assistant's default page handle2 starts as 0 while "no handle"
is -1, so Next stays disabled until a user has used "get"
(`gnome-pilot-assistant.c:927-946`); the model has it, and `NobodyWaitsInVain`
excepts it (`SentInVain`). Escape, or closing the window, ends the dialog of the
PDA's settings, of the tray and of the installer without taking requests back:
they are served at the next HotSync, with nobody waiting. The property is about
windows that are open. Cancelling the installer
leaves its CONDUIT request, so that the next HotSync runs only that. Handles are
given again, and a client that asks while signals of an earlier request are
under way takes them for its own; the tray closes its restore dialog at any
completion, the tool drops its oldest handle at a foreign one; whoever asks for
USERINFO, its answer is written into the profile that is open. A call that times
out is stored all the same. Each window writes the whole key file from its own
copy, what another has saved meanwhile is lost; saving drops sync_date and the
IP address of a network device, loading the character set of a PDA.
ConduitState.changed is never reset, so that each later save arms the first
synchronization again (help/C/gnome-pilot.xml:361: "performed only the next time
you synchronize"); settings of conduits do not move with a PDA whose id is
edited.

## 5. Proofs

All theorems hold for every value of the constants that the modules' assumptions
allow; TLC evaluates these assumptions in the runs.

`RequestQueueProofs`, for every set of pilots and cradles, any kinds of requests
and cancellations and all bounds:

- `TypeCorrect`, `CounterCovered`, `BatchLive`: three of the invariants of run
  *requests*, from the inductive invariant `IInv` (`Invariance`). The counter
  covers the groups because a purge always finds its group; that needs the
  loaded lists to be live (`BatchIsLive`), which needs to know what is in them
  (`ListShape`: the requests of a list are of the kind that is served in this
  phase, and while a file conduit installs, the waiting list and the running one
  have different kinds, hence different numbers).
- `HandlesDecodeCorrectly`, for any base and word: a handle leads back to its
  request if and only if it fits (`FitsWord`; `HandleLeadsBack`, by uniqueness of
  quotient and remainder). If the sum wraps, or the number reaches the base, it
  leads somewhere else.
- `UniformSectionsContiguous`, whether or not handles wrap: in a section whose
  requests are uniform, and to which no cancelled handle leads, a list holds the
  whole section, so that the head of the
  list is the last request of the section. This is the justification of the
  order in which the code loads requests.
- `AnsweredOnce`: a request is signalled once, and once more for each crash. The
  invariant behind it (`SInv`) says that every group has a request of its own
  (`IdsDistinct`, `FreshIds`) and that nothing in the file has been signalled
  since the last crash but the head of the list, between signal and purge
  (`SignalsFollow`).
- `QueueImplementsPending`: the refinement of `PendingRequests`, again whether or
  not handles wrap. What a load would find of the uniform sections is what they hold
  (`PendingIsPresent`); then each action of the queue is shown to be a request,
  an answer, a removal, or a stutter of the abstract specification.

`DaemonProofs`, for every set of devices of whatever types, any number of objects
per device and dialogs of any depth, all the safety properties of run *daemon*:

- `NoWatchOutlives`, `DeafnessHasReason`, `TypeIsRestored`, `TypeCorrect`, from
  the inductive invariant `IInv` (`Invariance`). It says of both watches of a
  device together what `WatchesLive` says of one (`WatchesOwned`), and that an
  error dialog belongs to an err source (`ErrorFrames`): without that, closing
  one might end the uevent whose device is still of type serial. Rereading is
  safe because the new objects are none that a waiting handler holds; which
  device `usb_device_added` chooses rests on every set of numbers having a least
  one (`LeastNumber`, by well-founded induction).
- `PausedQuiet`: the action property `PausedIsQuiet`, handler by handler.

`RecordSyncProofs`, for any ids, places, contents and bounds, wherever the link
breaks:

- `TypeCorrect`, `CounterpartUnique` (`OneCounterpart` of run *record_sync*),
  from `IInv` (`Invariance`). No record of the PDA gets a second counterpart
  because an id is given once and a new record has none (`KeptIds`); that there
  always is an id to give, `IdsSuffice`, is what the types rest on.

`TwoWaySyncProofs`, as long as the link holds:

- `TableHolds`, `FlagsHold`, `RepetitionIdle`: `TableRespected`,
  `FlagsSufficient` and `RepeatedSyncIsIdle`, from `SInv` (`SessionInvariance`).
  In a two-way session each id is as it was found (`Kept`), has been treated as
  the table says (`Done`), or was passed over because it is not flagged on
  either side (`Passed`); the loops over the PC leave nothing of their kind
  behind (`LoopsBehind`). Hence a session ends with nothing flagged (`Calm`), and
  a second one passes over all ids. The counterpart of an id is one record
  because of `OneCounterpart`. `TableHolds` is about each operator of the table:
  `VerdictCases` lists what the nested switch can answer, once for all proofs.
  That a one-way session, another PC, and an edit keep `NowAccounted` is what
  `exempt` is for.

`EdsConduitProofs`, for any ids, uids, sources and items:

- `MapsStayInverse`: `TablesInverse` of run *eds*. The inductive invariant says
  of the two sides only that PDA ids are ids (`GoodRecords`), of the file that no
  PDA id is in it twice (`GoodFile`), and of a session that its map has the types
  and the inverse tables (`GoodMap`, `GoodSession`). One lemma for each operation
  of e-pilot-map.c shows that it keeps `GoodMap`: insert does because it removes
  what either key was paired with first; `WriteMapGood` and `ReadMapGood` that
  the file of a good map is good, and gives a good map again, although an
  archived entry loses its id on the way.
- `TypeCorrect`, from `TInv`, which adds that nobody holds an id or a uid later
  than the last one given (`Handed`). Every callback of a session takes one of
  three forms (`Handler`): nothing comes to be that was not there (`Lesser`), an
  object is made of a record (`Added`), or a record with a new id of an object
  (`SentNew`). The next module argues by these forms, or by the finer ones of
  which they are composed (`RemoteForm`, `LocalForm`).

`EdsPairingProofs`, the same:

- `MapIsOfLastSource`: `MapOfLastSource`, from `Located`, which follows uids from
  the file into the map, the list of changes and back, with the settings that
  were read before and are written after them.
- `ArchivedStays`: the action property `ArchivedIsRemembered`, from `Remembered`:
  a map that is going to be written whole still marks what the file marks.
- `AllPaired`: `EverythingPaired`, from two invariants. What map or file pairs
  holds the same item (`PairsAgree`), and an object of the source has a record,
  is still in the queue, or is one of those that are not sent (`Covered`).
- `NobodyTwice`: `NoDuplicates`. That no item is in two objects or two records is
  not inductive: a duplicate appears when an object and a record that hold the
  same item are not paired, so that one is sent, or fetched, next to the other.
  `Unwounded` therefore says that they are paired (`Single`) - by the map during
  a session, by the file otherwise (`Ordered`: in the end the file is what the
  map writes). What could undo a pair: an entry the map does not write
  (`Marked`: it has touched all that was treated, and marks as archived only what
  the PDA has archived); an item entered again (`Entered`); and the calendar,
  which replaces an event of several days by one of each day. The days are new
  on both sides because, where a day is about, the whole event is on its way out
  of both (`SplitOnce`, `Going`, `Doomed`), and an event is not split twice.

`SyncSessionProofs`, for any databases, configurations, settings, number of
generations, versions, events and faults, every invariant of run *session*:

- `TypeCorrect`, from `TypeInv`, which adds that a session starts as one.
- `BackupsSurvive`, from `Survival`: a whole backup is within as many generations
  as there were failures since it was made (`WholeWithin`); a failure pushes it
  back by one (`RotatedWithin`), because `Rotate` moves every file that exists.
- `FirstSyncCounted`, from `FirstDone`: `FirstSyncOnce` said of the whole session
  and not of its end only.
- `StampIsHonest`, `BackupsKeepUp`, `BackupsMatchPda`, from `SessionInv`: a
  session in which nothing goes wrong has no requests, an unbroken link, and goes
  through each database once (`Quiet`, `Served`); what it has gone through
  (`Done`) lacks nothing that is not flagged (`Reread`) and is covered by a
  backup (`BackedUp`); a whole file holds at least what its date says
  (`NotOlder`), which is why skipping by date is right, and the list is not ahead
  of the PDA (`ListBehind`); what is left over is what the PDA has not,
  or has marked (`LeftOver`). All of it is about the databases that are
  `Synced`; of a marked one nothing is promised.

`EdsRecordsProofs`, for any texts, categories, settings and changes by the users,
every invariant of run *eds_records*, for contacts the types and the categories:

- `RecordTypes`, `TableKeepsApart`, from `RecordInv` (`RecordsCorrect`): the
  types, the shape of the table (`TableOK`: slot 0 is "Unfiled", the others have
  names of the desktop's or are free), that what was converted last is what the
  conversion gives (`Converted`), and `CategoriesDistinct`. For every conversion
  a lemma says what each field of its result is (`ToAppointmentGives`,
  `FromAppointmentGives`), and another that the result has its type. An id for a
  category of contacts is always left, as there are more ids than slots
  (`PigeonHole`); the lowest one exists because every set of numbers has a least
  one (`MinIsIn`).
- `RecordsSurvive`, `ObjectsSurvive`, for events, tasks and memos, from
  `Converted`: the conversion there composed with the one back. For an event
  this is about its rule: which of them the PDA can say at all, that the days it
  counts from 0 to 34 are read as they are written (`RuleSays`), that a rule that
  is mostly equal is left alone, and that the first alarm that can be sent stays
  the first (`FirstStays`).
- `RoundsSettle`, the same: the exceptions are reversed by a round and back by
  the next, nothing else changes after the first.

TLC checked `RecordInv` on the instance of run *eds_records* before it was proved.

Only model-checked, and why:

- `UniformServed`, `SessionsEnd`, `HotSyncAnswered`: liveness; fairness and
  ENABLED are out of the prover's reach.
- Of `EdsRecords` the round trips of contacts: which fields of a contact its
  numbers are taken from is a fold over the five numbers (`Syncable`). Their types
  are proved. (`Settles` leaves them out: a contact whose first number of a label
  is empty does not come to rest.)
- All of `Desktop`: which requests a call stores and which signals a HotSync
  sends are folds over sequences; what they return for every queue would be an
  induction over data.

## 6. Not modelled

- Contents of records beyond what the conversions tell apart, time zones,
  character sets; contents of files; logging, icons, progress, widgets.
- Loading of plug-ins; network and Bluetooth set-up of pilot-link; the IrDA
  restart in device_in and the Bluetooth dialog at initialization;
  `visor_devices_timeout` (never called).
- pilot-link's sync.c: `EdsConduit` allows what its flags permit.
- The transfer of a file to the PDA (`file_conduit.c`).
- The restore offered to a PDA nobody knows; migration and locking of old key
  files; the session wrapper; gpilotdcm-client.
- In `Desktop`: a second profile, cradle or PDA, the page of the conduits, the
  contents of SysInfoRequested, the way back from the assistant's PDA page to its
  cradle page, killing a window; every CONDUIT request names the file conduit.

`PROJECT.json` names for every component what is left out.

## 7. Plan

Done: queue, records, main loop; map and sessions of the EDS conduits, conversion
of their records; sessions, stamp and backups; the desktop programs with pid
file and shared key file. Every safety property of `RequestQueue`, `Daemon`,
`RecordSync`, `EdsConduit` and `SyncSession` that a run checks as holding is
proved, and of `EdsRecords` all but the round trips of contacts. Left, in this
order:

1. Proofs: what of `Desktop` does not rest on a fold (the files in force of
   `SettingsTakeEffect`); the round trips of contacts, with `Syncable` restated
   by its indices.
2. The transfer of a file (`file_conduit.c`) with a broken link, and the restore
   of an unknown PDA.
3. The conduits' page of the capplet (ConduitState, first synchronization) over
   the key files of `SyncSession`.
