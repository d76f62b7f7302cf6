---------------------------- MODULE DesktopQueue ----------------------------
(***************************************************************************)
(* What the windows and tools of the desktop see of the queue of requests: *)
(* the calls of gnome-pilot-client.c that store and remove requests, and a *)
(* HotSync that serves them, as one step: a call that arrives meanwhile is *)
(* answered after it.  RequestQueue has the steps inside; here a request   *)
(* also carries the window that waits for it.                              *)
(***************************************************************************)
EXTENDS Integers, Sequences, FiniteSets, SequencesExt

CONSTANTS
  Ids,         \* the ids a PDA may have
  Windows,     \* what asks for requests
  HandleBase,  \* the 65535 of set_section_num
  MaxRequests  \* bound on number-of-requests

ASSUME IdsAssumption == Ids \subseteq Nat \ {0}
ASSUME QueueAssumption == HandleBase \in Nat /\ MaxRequests \in 1 .. HandleBase - 1

System == 0
Sections == Ids \cup {System}
Numbers == 1 .. MaxRequests
NoGroup == [kind |-> "none", id |-> 0, flag |-> FALSE, owner |-> "gone"]

PilotKinds == {"INSTALL", "RESTORE", "CONDUIT"}
SystemKinds == {"GET_SYSINFO", "GET_USERINFO", "SET_USERINFO"}

(* owner is a history: the window that waits for the request, or "left" or  *)
(* "gone" once it does not, "gone" when something had gone wrong for it or  *)
(* the user closed it without its Cancel button.                            *)
Owners == Windows \cup {"left", "gone"}
Request == [kind: PilotKinds \cup SystemKinds, id: Ids \cup {0}, flag: BOOLEAN, owner: Owners]
Queues == [Sections -> [num: Int, group: [Numbers -> Request \cup {NoGroup}]]]

(* The calls of the client library, from window w.                          *)
Req(kind, id, flag, w) == [kind |-> kind, id |-> id, flag |-> flag, owner |-> w]
InstallFile(w) == Req("INSTALL", 0, FALSE, w)
Restore(w) == Req("RESTORE", 0, FALSE, w)
Conduit(w) == Req("CONDUIT", 0, FALSE, w)
GetUserInfo(w) == Req("GET_USERINFO", 0, FALSE, w)
SetUserInfo(id, continueSync, w) == Req("SET_USERINFO", id, continueSync, w)
GetSystemInfo(w) == Req("GET_SYSINFO", 0, FALSE, w)

EmptyQueue == [s \in Sections |-> [num |-> 0, group |-> [n \in Numbers |-> NoGroup]]]

(* The handles of the ids here fit into a guint32; RequestQueue has those   *)
(* that wrap around.                                                        *)
HandleOf(s, n) == s * HandleBase + n
SectionOf(h) == h \div HandleBase
NumberOf(h) == h % HandleBase

Held(q, s) == {n \in Numbers : q[s].group[n] # NoGroup}

-----------------------------------------------------------------------------
(* gpilot_daemon_request_*, _get_*, _set_user_info: the request is stored   *)
(* in the section of the PDA that has the name in the daemon's settings, or *)
(* in the system section.                                                   *)
SectionFor(kind, known) == IF kind \in PilotKinds THEN known ELSE System

StoredHandle(q, kind, known) ==
  LET s == SectionFor(kind, known) IN HandleOf(s, q[s].num + 1)
Stored(q, req, known) ==
  LET s == SectionFor(req.kind, known)
      n == q[s].num + 1
  IN  [q EXCEPT ![s] = [num |-> n, group |-> [q[s].group EXCEPT ![n] = req]]]

(* gpilot_daemon_remove_request                                             *)
RemovedUnseen(q, h) ==
  LET s == SectionOf(h)
      n == NumberOf(h)
  IN  IF s \in Sections
      THEN [q EXCEPT ![s] = [num |-> @.num - 1, group |-> [@.group EXCEPT ![n] = NoGroup]]]
      ELSE q
Removed(q, h) ==
  LET s == SectionOf(h)
      n == NumberOf(h)
  IN  IF s \in Sections /\ n \in Held(q, s)
      THEN [q EXCEPT ![s] = [num |-> @.num - 1, group |-> [@.group EXCEPT ![n] = NoGroup]]]
      ELSE q

(* Requests sent one after the other; the call number late times out while  *)
(* a HotSync keeps the daemon from its main loop, and is stored afterwards  *)
(* all the same.  handles has what the calls returned.                      *)
Call(acc, req, known, late) ==
  [queue |-> Stored(acc.queue, IF late THEN [req EXCEPT !.owner = "gone"] ELSE req, known),
   handles |-> IF late THEN acc.handles
               ELSE Append(acc.handles, StoredHandle(acc.queue, req.kind, known))]

Calls(q, reqs, known, late) ==
  FoldLeftDomain(LAMBDA acc, i : Call(acc, reqs[i], known, i = late),
                 [queue |-> q, handles |-> <<>>], reqs)

-----------------------------------------------------------------------------
(* A HotSync of the PDA with the id pda; known is the id in the settings.   *)
(* do_cradle_events serves the system requests, the highest number first,   *)
(* and the synchronization ends there, but for a continue_sync.  Otherwise  *)
(* gpilot_initial_synchronize_operations serves the RESTORE requests; the   *)
(* CONDUIT ones, which here all name the File conduit, install the files    *)
(* first; and only without any of these are files installed by themselves.  *)

Loadable(q, s, kinds) == {n \in Held(q, s) : n <= q[s].num /\ q[s].group[n].kind \in kinds}
Descending(S) == SetToSortSeq(S, LAMBDA m, n : m > n)

Completed(s, n, req) ==
  [kind |-> "completed", handle |-> HandleOf(s, n), id |-> 0, owner |-> req.owner]
UserInfo(id, req) == [kind |-> "user_info", handle |-> 0, id |-> id, owner |-> req.owner]

(* dbus_notify_completion, and dbus_notify_userinfo before it.  What        *)
(* dbus_notify_sysinfo tells is not part of the model.                      *)
Serve(acc, s, n) ==
  LET req == acc.queue[s].group[n]
  IN  [acc EXCEPT
         !.queue = Removed(@, HandleOf(s, n)),
         !.pda = IF req.kind = "SET_USERINFO" THEN req.id ELSE @,
         !.goesOn = @ \/ req.flag,
         !.signals = @ \o (IF req.kind = "GET_USERINFO"
                           THEN <<UserInfo(acc.pda, req), Completed(s, n, req)>>
                           ELSE <<Completed(s, n, req)>>)]

ServeAll(acc, s, numbers) == FoldLeft(LAMBDA a, n : Serve(a, s, n), acc, numbers)

PilotOrder(q, p) ==
  LET of(kind) == Loadable(q, p, {kind})
      install == Descending(of("INSTALL"))
      conduit == Descending(of("CONDUIT"))
      restore == Descending(of("RESTORE"))
  IN  restore \o (IF conduit # <<>> THEN install \o conduit
                  ELSE IF restore = <<>> THEN install ELSE <<>>)

HotSyncResult(q, pda, known) ==
  LET system == Descending(Loadable(q, System, SystemKinds))
      start == [queue |-> q, pda |-> pda, goesOn |-> system = <<>>, signals |-> <<>>]
      events == ServeAll(start, System, system)
  IN  IF events.goesOn /\ events.pda = known
      THEN ServeAll(events, known, PilotOrder(events.queue, known))
      ELSE events

=============================================================================
