---------------------------- MODULE RequestQueue ----------------------------
(***************************************************************************)
(* The persistent request queue of gpilotd (gpilotd/queue_io.c), the D-Bus *)
(* operations that fill it (gpilotd/gpilot-daemon.c) and the part of a     *)
(* HotSync that drains it (do_cradle_events, and the initial operations of *)
(* gpilotd/manager.c).                                                     *)
(*                                                                         *)
(* The key file "queue" has one section per pilot and one section          *)
(* "system", each holding the counter number-of-requests, and one group    *)
(* "<section>-<n>" per request.  A request is found again only by counting *)
(* down from the counter.                                                  *)
(***************************************************************************)
EXTENDS Integers, FiniteSets

CONSTANTS
  Pilots,        \* pilot ids (guint32) of the configured PDAs
  Cradles,       \* names of the configured devices
  KindsOf,       \* [Pilots -> SUBSET PilotKinds]: what clients request of a pilot
  CancelFrom,    \* sections of which clients cancel requests (remove_request)
  HandleBase,    \* the 65535 of set_section_num and of remove_request
  WordSize,      \* 2^32: a handle is a guint32
  MaxRequests,   \* bound on number-of-requests
  MaxIssued,     \* bound on the requests issued
  MaxCrashes,    \* bound on the crashes of gpilotd
  NoGroup,       \* no such group in the key file
  NoCradle       \* req.cradle = NULL

System == 0
Sections == Pilots \cup {System}
Numbers == 1 .. MaxRequests
Ids == 1 .. MaxIssued

PilotKinds == {"INSTALL", "RESTORE", "CONDUIT"}
SystemKinds == {"GET_SYSINFO", "GET_USERINFO", "SET_USERINFO"}

ASSUME PilotsAssumption == Pilots \subseteq Nat \ {0}
ASSUME BoundsAssumption ==
  /\ MaxRequests \in Nat
  /\ MaxIssued \in Nat
  /\ MaxCrashes \in Nat
ASSUME HandleAssumption ==
  /\ HandleBase \in Nat \ {0}
  /\ WordSize \in Nat \ {0}
ASSUME KindsAssumption == KindsOf \in [Pilots -> SUBSET PilotKinds]
ASSUME CancelAssumption == CancelFrom \subseteq Sections

(* A GPilotRequest.  flag stands for the continue_sync of a SET_USERINFO    *)
(* and, in a CONDUIT request, for naming a file conduit; id is no field of  *)
(* the code: it tells one request from every other.                         *)
Request == [kind: PilotKinds \cup SystemKinds, flag: BOOLEAN,
            cradle: Cradles \cup {NoCradle}, handle: Nat, id: Ids]

ASSUME NoGroupAssumption == NoGroup \notin Request

VARIABLES
  numreq,    \* number-of-requests of each section
  group,     \* group[s][n]: the group "<s>-<n>" of the key file
  phase,     \* where the running synchronization is
  user,      \* pu->userID of the running synchronization
  todo,      \* the loaded request_list, by number; taken from the highest
  outer,     \* the request_list suspended while a file conduit installs
  stage,     \* how far the request at the head of todo is
  normal,    \* do_normal_sync_stuff, and ~ret of do_cradle_events
  issued,    \* history: requests issued so far
  origin,    \* history: the section each request was stored in
  signals,   \* history: RequestCompleted signals emitted for each request
  cancelled, \* history: requests a client removed
  crashes    \* history: crashes so far

file == <<numreq, group>>
sync == <<phase, user, todo, outer, stage, normal>>
past == <<issued, origin, signals, cancelled, crashes>>
vars == <<numreq, group, phase, user, todo, outer, stage, normal,
          issued, origin, signals, cancelled, crashes>>

Empty == [n \in Numbers |-> NoGroup]
Held(list) == {n \in Numbers : list[n] # NoGroup}

Phases == {"idle", "cradle", "restore", "conduit", "install"}
Stages == {"ready", "resumed", "signalled"}

TypeOK ==
  /\ numreq \in [Sections -> Nat]
  /\ group \in [Sections -> [Numbers -> Request \cup {NoGroup}]]
  /\ phase \in Phases
  /\ user \in Sections
  /\ todo \in [Numbers -> Request \cup {NoGroup}]
  /\ outer \in [Numbers -> Request \cup {NoGroup}]
  /\ stage \in Stages
  /\ normal \in BOOLEAN
  /\ issued \in 0 .. MaxIssued
  /\ origin \in [Ids -> Sections]
  /\ signals \in [Ids -> Nat]
  /\ cancelled \in SUBSET Ids
  /\ crashes \in 0 .. MaxCrashes

Init ==
  /\ numreq = [s \in Sections |-> 0]
  /\ group = [s \in Sections |-> Empty]
  /\ phase = "idle"
  /\ user = System
  /\ todo = Empty
  /\ outer = Empty
  /\ stage = "ready"
  /\ normal = TRUE
  /\ issued = 0
  /\ origin = [i \in Ids |-> System]
  /\ signals = [i \in Ids |-> 0]
  /\ cancelled = {}
  /\ crashes = 0

-----------------------------------------------------------------------------
(* queue_io.c *)

(* set_section_num: the handle of request n of section s, in 32 bits.       *)
HandleShifted(s, n) == (s * (HandleBase + 1) + n) % WordSize
HandleOf(s, n) == (s * HandleBase + n) % WordSize

(* remove_request takes the handle apart again.                             *)
SectionOfHandle(h) == h \div HandleBase
NumberOfHandle(h) == h % HandleBase

(* gpc_queue_load_requests: from number-of-requests down to 1, those of the *)
(* wanted type.                                                             *)
LoadSkipsLast(s, kind) ==
  [n \in Numbers |->
     IF n < numreq[s] /\ group[s][n] # NoGroup /\ group[s][n].kind = kind
     THEN group[s][n] ELSE NoGroup]
LoadRequests(s, kind) ==
  [n \in Numbers |->
     IF n <= numreq[s] /\ group[s][n] # NoGroup /\ group[s][n].kind = kind
     THEN group[s][n] ELSE NoGroup]

(* gpc_queue_load_requests_for_cradle: every system request of the cradle.  *)
LoadForCradle(c) ==
  [n \in Numbers |->
     IF n <= numreq[System] /\ group[System][n] # NoGroup
          /\ group[System][n].cradle = c
     THEN group[System][n] ELSE NoGroup]

(* gpc_queue_store_request                                                  *)
StoreForgetsCounter(s, kind, flag, cradle) ==
  LET num == numreq[s] + 1
      req == [kind |-> kind, flag |-> flag, cradle |-> cradle,
              handle |-> HandleOf(s, num), id |-> issued + 1]
  IN  /\ num \in Numbers
      /\ issued < MaxIssued
      /\ numreq' = numreq
      /\ group' = [group EXCEPT ![s][num] = req]
      /\ issued' = issued + 1
      /\ origin' = [origin EXCEPT ![issued + 1] = s]
StoreRequest(s, kind, flag, cradle) ==
  LET num == numreq[s] + 1
      req == [kind |-> kind, flag |-> flag, cradle |-> cradle,
              handle |-> HandleOf(s, num), id |-> issued + 1]
  IN  /\ num \in Numbers
      /\ issued < MaxIssued
      /\ numreq' = [numreq EXCEPT ![s] = num]
      /\ group' = [group EXCEPT ![s][num] = req]
      /\ issued' = issued + 1
      /\ origin' = [origin EXCEPT ![issued + 1] = s]

(* gpc_queue_purge_request                                                  *)
PurgeTwice(s, n) ==
  /\ group' = [group EXCEPT ![s][n] = NoGroup]
  /\ numreq' = [numreq EXCEPT ![s] = @ - 2]
PurgeRequest(s, n) ==
  /\ group' = [group EXCEPT ![s][n] = NoGroup]
  /\ numreq' = [numreq EXCEPT ![s] = @ - 1]

-----------------------------------------------------------------------------
(* The D-Bus operations.  They run from the main loop, so never while a     *)
(* synchronization is going on: no dialog is open between the loading of a  *)
(* list and its last request.                                               *)

Issue(s, kind, flag, cradle) ==
  /\ phase = "idle"
  /\ StoreRequest(s, kind, flag, cradle)
  /\ UNCHANGED <<sync, signals, cancelled, crashes>>

RequestInstall(p) ==
  "INSTALL" \in KindsOf[p] /\ Issue(p, "INSTALL", FALSE, NoCradle)
RequestRestore(p) ==
  "RESTORE" \in KindsOf[p] /\ Issue(p, "RESTORE", FALSE, NoCradle)
RequestConduit(p, isFile) ==
  "CONDUIT" \in KindsOf[p] /\ Issue(p, "CONDUIT", isFile, NoCradle)
GetSystemInfo(c) == Issue(System, "GET_SYSINFO", FALSE, c)
GetUserInfo(c) == Issue(System, "GET_USERINFO", FALSE, c)
SetUserInfo(c, continueSync) == Issue(System, "SET_USERINFO", continueSync, c)

(* gpilot_daemon_remove_request and gpc_queue_purge_request_point: purges   *)
(* the group the handle names, whatever the counter says.                   *)
RemoveRequestAnytime(h) ==
  LET s == SectionOfHandle(h)
      n == NumberOfHandle(h)
  IN  /\ s \in Sections
      /\ n \in Numbers
      /\ group[s][n] # NoGroup
      /\ PurgeRequest(s, n)
      /\ cancelled' = cancelled \cup {group[s][n].id}
      /\ UNCHANGED <<sync, issued, origin, signals, crashes>>
RemoveRequest(h) ==
  LET s == SectionOfHandle(h)
      n == NumberOfHandle(h)
  IN  /\ phase = "idle"
      /\ s \in Sections
      /\ n \in Numbers
      /\ group[s][n] # NoGroup
      /\ PurgeRequest(s, n)
      /\ cancelled' = cancelled \cup {group[s][n].id}
      /\ UNCHANGED <<sync, issued, origin, signals, crashes>>

-----------------------------------------------------------------------------
(* A synchronization *)

ListSection == IF phase = "cradle" THEN System ELSE user
LowestFirst == CHOOSE n \in Held(todo) : \A m \in Held(todo) : m >= n
HeadNumber == CHOOSE n \in Held(todo) : \A m \in Held(todo) : m <= n

(* gpilot_initial_synchronize_operations begins with the RESTORE requests.  *)
EnterPilot(p) ==
  /\ phase' = "restore"
  /\ user' = p
  /\ todo' = LoadRequests(p, "RESTORE")
  /\ normal' = (Held(LoadRequests(p, "RESTORE")) = {})

Finish ==
  /\ phase' = "idle"
  /\ user' = System
  /\ todo' = Empty
  /\ normal' = TRUE

(* sync_device, once the user info is read: pilot p is in cradle c.  An     *)
(* unknown PDA, with user id System, has no requests.                       *)
SyncDevice(c, p) ==
  LET events == LoadForCradle(c)
  IN  /\ phase = "idle"
      /\ \/ /\ Held(events) = {}
            /\ p \in Pilots
            /\ EnterPilot(p)
         \/ /\ Held(events) # {}
            /\ phase' = "cradle"
            /\ user' = p
            /\ todo' = events
            /\ normal' = FALSE
      /\ stage' = "ready"
      /\ UNCHANGED <<file, outer, past>>

(* run_conduit_sync_foreach: a CONDUIT request for a file conduit runs the  *)
(* INSTALL requests before it completes.                                    *)
RunFileConduit ==
  /\ phase = "conduit"
  /\ Held(todo) # {}
  /\ stage = "ready"
  /\ todo[HeadNumber].kind = "CONDUIT"
  /\ todo[HeadNumber].flag
  /\ outer' = todo
  /\ todo' = LoadRequests(user, "INSTALL")
  /\ UNCHANGED <<file, phase, user, stage, normal, past>>

(* ... and when they are all installed, it goes on.                         *)
ResumeConduit ==
  /\ Held(todo) = {}
  /\ Held(outer) # {}
  /\ todo' = outer
  /\ outer' = Empty
  /\ stage' = "resumed"
  /\ UNCHANGED <<file, phase, user, normal, past>>

(* The request at the head is executed, and dbus_notify_completion emits    *)
(* RequestCompleted.  A SET_USERINFO changes the user id, and may ask for   *)
(* the synchronization to go on.                                            *)
CompleteInSilence ==
  /\ Held(todo) # {}
  /\ stage # "signalled"
  /\ stage' = "signalled"
  /\ UNCHANGED <<file, phase, todo, outer, user, normal, past>>
Complete ==
  /\ Held(todo) # {}
  /\ LET req == todo[HeadNumber]
     IN  /\ \/ stage = "resumed"
            \/ stage = "ready" /\ ~(req.kind = "CONDUIT" /\ req.flag)
         /\ signals' = [signals EXCEPT ![req.id] = @ + 1]
         /\ \/ /\ req.kind = "SET_USERINFO"
               /\ user' \in Sections
               /\ normal' = (normal \/ req.flag)
            \/ /\ req.kind # "SET_USERINFO"
               /\ UNCHANGED <<user, normal>>
  /\ stage' = "signalled"
  /\ UNCHANGED <<file, phase, todo, outer, issued, origin, cancelled, crashes>>

(* ... and purges it.                                                       *)
PurgeForgets ==
  /\ stage = "signalled"
  /\ todo' = [todo EXCEPT ![HeadNumber] = NoGroup]
  /\ stage' = "ready"
  /\ UNCHANGED <<file, phase, user, outer, normal, past>>
PurgeCompleted ==
  /\ stage = "signalled"
  /\ PurgeRequest(ListSection, HeadNumber)
  /\ todo' = [todo EXCEPT ![HeadNumber] = NoGroup]
  /\ stage' = "ready"
  /\ UNCHANGED <<phase, user, outer, normal, past>>

(* The list is done: what follows it.  normal becomes FALSE when there was  *)
(* a restore or a conduit request.                                          *)
ListDone == Held(todo) = {} /\ Held(outer) = {}

EndCradle ==
  /\ phase = "cradle"
  /\ ListDone
  /\ IF normal /\ user \in Pilots THEN EnterPilot(user) ELSE Finish
  /\ UNCHANGED <<file, outer, stage, past>>

EndRestore ==
  /\ phase = "restore"
  /\ ListDone
  /\ phase' = "conduit"
  /\ todo' = LoadRequests(user, "CONDUIT")
  /\ normal' = (normal /\ Held(LoadRequests(user, "CONDUIT")) = {})
  /\ UNCHANGED <<file, user, outer, stage, past>>

EndConduit ==
  /\ phase = "conduit"
  /\ ListDone
  /\ \/ /\ normal
        /\ phase' = "install"
        /\ todo' = LoadRequests(user, "INSTALL")
        /\ UNCHANGED <<user, normal>>
     \/ /\ ~normal
        /\ Finish
  /\ UNCHANGED <<file, outer, stage, past>>

EndInstall ==
  /\ phase = "install"
  /\ ListDone
  /\ Finish
  /\ UNCHANGED <<file, outer, stage, past>>

(* gpilotd dies in the middle of a synchronization; the key file survives.  *)
Crash ==
  /\ phase # "idle"
  /\ crashes < MaxCrashes
  /\ crashes' = crashes + 1
  /\ Finish
  /\ outer' = Empty
  /\ stage' = "ready"
  /\ UNCHANGED <<file, issued, origin, signals, cancelled>>

-----------------------------------------------------------------------------

Ask ==
  \/ \E p \in Pilots : RequestInstall(p)
  \/ \E p \in Pilots : RequestRestore(p)
  \/ \E p \in Pilots, isFile \in BOOLEAN : RequestConduit(p, isFile)
  \/ \E c \in Cradles : GetSystemInfo(c)
  \/ \E c \in Cradles : GetUserInfo(c)
  \/ \E c \in Cradles, continueSync \in BOOLEAN : SetUserInfo(c, continueSync)

Serve ==
  \/ RunFileConduit
  \/ ResumeConduit
  \/ Complete
  \/ PurgeCompleted
  \/ EndCradle
  \/ EndRestore
  \/ EndConduit
  \/ EndInstall

Next ==
  \/ Ask
  \/ \E s \in CancelFrom, n \in Numbers : RemoveRequest(HandleOf(s, n))
  \/ \E c \in Cradles, p \in Sections : SyncDevice(c, p)
  \/ Serve
  \/ Crash

Spec == Init /\ [][Next]_vars

(* The daemon carries a synchronization through (one crash at most excepted *)
(* by MaxCrashes), and each user goes on pressing the HotSync button.       *)
FairSpec ==
  /\ Spec
  /\ WF_vars(Serve)
  /\ \A c \in Cradles, p \in Pilots : SF_vars(SyncDevice(c, p))

-----------------------------------------------------------------------------
(* Properties *)

Present(s) == {n \in Numbers : group[s][n] # NoGroup}
Loadable(s) == {n \in Present(s) : n <= numreq[s]}

(* Sections whose requests are all of one kind (of one cradle, for the      *)
(* system section) and to which no cancelled handle leads: the load order   *)
(* of the code is meant for these.                                          *)
OneElement(S) == \A x, y \in S : x = y
CancelReaches(s) == \E c \in CancelFrom, n \in Numbers : SectionOfHandle(HandleOf(c, n)) = s
Uniform(s) ==
  /\ ~CancelReaches(s)
  /\ IF s = System THEN OneElement(Cradles) ELSE OneElement(KindsOf[s])

(* number-of-requests never falls below the number of groups in the file,   *)
(* so it is never negative: no request is purged twice, and a store never   *)
(* yields a number that gpc_queue_load_requests cannot reach (queue_io.c:   *)
(* 280-286 and 391-395).                                                    *)
CounterCoversGroups == \A s \in Sections : Cardinality(Present(s)) <= numreq[s]

(* Every loaded request still is in the file, as it was loaded, until it is *)
(* its turn: gpc_queue_purge_request removes by name, and would otherwise   *)
(* remove another request.                                                  *)
BatchIsLive ==
  \A n \in Numbers :
    /\ todo[n] # NoGroup => group[ListSection][n] = todo[n]
    /\ outer[n] # NoGroup => group[user][n] = outer[n]

(* The handle a client was given leads remove_request back to the request   *)
(* (set_section_num and gpilot_daemon_remove_request agree) if and only if  *)
(* it fits: there are fewer than 65535 requests in the section, and the id  *)
(* of the PDA, which nothing checks, is small enough for 32 bits.  From id  *)
(* 65537 on the handle wraps around and leads to a request of another       *)
(* section, or to none.                                                     *)
LeadsTo(h, s, n) == SectionOfHandle(h) = s /\ NumberOfHandle(h) = n
FitsWord(s, n) == n < HandleBase /\ s * HandleBase + n < WordSize
HandlesDecode ==
  \A s \in Sections : \A n \in Present(s) : LeadsTo(group[s][n].handle, s, n) <=> FitsWord(s, n)

(* A request is executed and its completion signalled once; a crash between *)
(* the signal and the purge may cost one repetition, never more.            *)
SignalledOnce == \A i \in Ids : signals[i] <= 1 + crashes

(* In a uniform section the requests are numbered 1 to number-of-requests,  *)
(* crash or not: the queue is emptied from its end (the remedy the comment  *)
(* of queue_io.c:366-375 names), so none is ever passed over.               *)
UniformContiguous ==
  \A s \in Sections : Uniform(s) => Present(s) = 1 .. numreq[s]

(* A request leaves the queue of a uniform section only when it is answered *)
(* or withdrawn: the queue implements PendingRequests.                      *)
UniformIds == {i \in 1 .. issued : Uniform(origin[i])}
Abstract == INSTANCE PendingRequests WITH
  Requests <- Ids,
  pending <- {i \in UniformIds :
                \E n \in Loadable(origin[i]) : group[origin[i]][n].id = i},
  answered <- {i \in UniformIds : signals[i] > 0},
  withdrawn <- cancelled \cap UniformIds
ImplementsPending == Abstract!Spec

(* Every request of a uniform section is answered, if the user goes on      *)
(* synchronizing.                                                           *)
UniformServed ==
  \A i \in Ids : (i \in UniformIds /\ origin[i] \in Pilots) ~> (signals[i] > 0)

(* No request is lost: each one is answered, withdrawn, or will be found by *)
(* the next load.                                                           *)
NoRequestLost ==
  \A i \in 1 .. issued :
    \/ signals[i] > 0
    \/ i \in cancelled
    \/ \E n \in Loadable(origin[i]) : group[origin[i]][n].id = i
=============================================================================
