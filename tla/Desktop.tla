------------------------------- MODULE Desktop -------------------------------
(***************************************************************************)
(* The programs around gpilotd, with the daemon's settings between them:   *)
(* the settings window and its PDA dialog (capplet/), the assistant, the   *)
(* tray applet (applet/gpilot-tray.c), gpilotd-client and                  *)
(* gpilot_install_file.  Each is a process of its own with a copy of the   *)
(* settings; they send requests to the daemon and then wait for signals,   *)
(* which the daemon sends to everybody.                                    *)
(***************************************************************************)
EXTENDS DesktopQueue

CONSTANTS
  Commands,    \* what gpilotd-client is run for: sequences of calls
  MaxWaiting,  \* bound on the windows that wait at the same time
  MaxSignals,  \* bound on the signals a window has not looked at
  MaxEvents    \* bound on the times a window asks or the settings window
               \* saves or adds a profile, on the calls that time out, and
               \* second daemons

ASSUME WindowsAssumption == Windows = {"dialog", "assistant", "tool", "installer", "tray"}

Settings == [cradle: BOOLEAN, id: Ids \cup {0}]  \* id = 0: no PDA profile
NoSettings == [cradle |-> FALSE, id |-> 0]
DefaultId == CHOOSE i \in Ids : \A j \in Ids : i <= j  \* getuid ()

(* read_pilot_config, read_device_config: what is shown, put into settings; *)
(* choose_pilot_dialog: there must be a cradle to ask.                      *)
ReadPilotConfig(s, id) == [s EXCEPT !.id = id]
ReadDeviceConfig(s) == [s EXCEPT !.cradle = TRUE]
ChoosesCradle(s) == s.cradle

Pages == {"closed", "cradle", "pilot one", "sync", "pilot two"}

VARIABLES
  queue,     \* the key file "queue"
  pda,       \* the id of the PDA
  file,      \* the key file "gpilotd"
  inforce,   \* the daemon's context
  reread,    \* a reread_config that timed out is still to be answered
  pidfile,   \* ~/.gpilotd.pid names the daemon
  inbox,     \* signals a window's main loop has not dispatched
  wait,      \* handles a window waits for: handle1 and handle2, or a list
  capplet,   \* the settings window: what is shown of it
  copy,      \* priv->state of the settings window
  profile,   \* priv->pilot of the PDA dialog, once there is one
  entry,     \* the id in the dialog's and in the assistant's text field
  page,      \* the page the assistant shows
  next,      \* the sync page is complete
  sending,   \* pilot_info_no: the id is sent to the PDA
  disturbed, \* history: windows for which something has gone wrong
  stepped,   \* history: file was saved by another while the assistant ran
  events     \* what MaxEvents bounds

daemonVars == <<inforce, reread, pidfile>>
cappletVars == <<capplet, copy, profile>>
assistantVars == <<page, next, sending>>
history == <<disturbed, stepped>>
vars == <<queue, pda, file, daemonVars, inbox, wait, cappletVars, entry,
          assistantVars, history, events>>

NoHandles == [w \in Windows |-> IF w \in {"dialog", "assistant"} THEN <<0, 0>> ELSE <<>>]

Init ==
  /\ queue = EmptyQueue
  /\ pda \in Ids
  /\ file \in {NoSettings, [cradle |-> TRUE, id |-> DefaultId]}
  /\ inforce = file
  /\ reread = FALSE
  /\ pidfile = TRUE
  /\ inbox = [w \in Windows |-> <<>>]
  /\ wait = NoHandles
  /\ capplet = "closed"
  /\ copy = NoSettings
  /\ profile = "none"
  /\ entry = [w \in {"dialog", "assistant"} |-> DefaultId]
  /\ page = "closed"
  /\ next = FALSE
  /\ sending = FALSE
  /\ disturbed = {}
  /\ stepped = FALSE
  /\ events = 0

-----------------------------------------------------------------------------
(* Windows and their requests *)

Open(h) == h > 0
OpenHandles(w) == {wait[w][i] : i \in DOMAIN wait[w]} \ {0, -1}

(* The PDA dialog goes on listening when it is hidden.                      *)
Listens(w) ==
  CASE w = "dialog" -> profile # "none"
    [] w = "assistant" -> page # "closed"
    [] OTHER -> wait[w] # <<>>

Asking(w) ==
  CASE w = "dialog" -> capplet = "asking"
    [] w = "assistant" -> page = "sync" /\ ~next
    [] OTHER -> wait[w] # <<>>

RoomToAsk ==
  /\ Cardinality({w \in Windows : Asking(w)}) < MaxWaiting
  /\ events < MaxEvents

(* Window w no longer waits: what it leaves in the queue is disowned.       *)
DisownedBy(w, q, excused) ==
  LET heir == IF excused THEN "gone" ELSE "left"
      disown(r) == IF r.owner = w THEN [r EXCEPT !.owner = heir] ELSE r
  IN  [s \in Sections |-> [q[s] EXCEPT !.group = [n \in Numbers |-> disown(q[s].group[n])]]]

(* History.  A window is disturbed by another's cancel in a section in      *)
(* which it waits, ...                                                      *)
OwnersIn(q, s) == {q[s].group[n].owner : n \in Held(q, s)} \cap Windows
DisturbedByCancel(w, handles) ==
  disturbed \cup UNION {OwnersIn(queue, SectionOf(h)) \ {w} : h \in handles}

(* ... and when it asks before it has looked at earlier signals.            *)
DisturbedByAsking(w) == IF inbox[w] # <<>> THEN disturbed \cup {w} ELSE disturbed

(* gnome_pilot_client_remove_request for each of the handles.               *)
RemoveRequests(w, handles) ==
  /\ queue' = DisownedBy(w, FoldLeft(Removed, queue, handles), w \in disturbed)
  /\ disturbed' = DisturbedByCancel(w, Range(handles)) \ {w}

(* A response other than GTK_RESPONSE_CANCEL: nothing is removed.           *)
Dismissed(w) ==
  /\ queue' = DisownedBy(w, queue, TRUE)
  /\ disturbed' = disturbed \ {w}

(* A call is answered after a reread_config that was sent before it.        *)
DaemonAnswers == ~reread
Cost(late) == IF late THEN 1 ELSE 0
Spend(n) ==
  /\ events + n <= MaxEvents
  /\ events' = events + n

(* save_config_and_restart: the file is written as a whole, and the daemon  *)
(* told to read it; the call may be late, too.                              *)
SaveConfigAndRestart(s, late) ==
  /\ file' = s
  /\ inforce' = IF late THEN inforce ELSE s
  /\ reread' = late
  /\ UNCHANGED pidfile

-----------------------------------------------------------------------------
(* The daemon *)

(* Requests left behind in a section in which others were served disturb    *)
(* the windows that wait for them, and an id given to the PDA by somebody   *)
(* else the assistant.                                                      *)
HotSync ==
  LET r == HotSyncResult(queue, pda, inforce.id)
      passedOver(s) ==
        IF Held(r.queue, s) # Held(queue, s) THEN OwnersIn(r.queue, s) ELSE {}
      givenAway == \E n \in Held(queue, System) \ Held(r.queue, System) :
                     /\ queue[System].group[n].kind = "SET_USERINFO"
                     /\ queue[System].group[n].owner # "assistant"
  IN  /\ inforce.cradle
      /\ r.signals # <<>>
      /\ \A w \in Windows : Len(inbox[w]) + Len(r.signals) <= MaxSignals
      /\ queue' = r.queue
      /\ pda' = r.pda
      /\ inbox' = [w \in Windows |-> IF Listens(w) THEN inbox[w] \o r.signals ELSE <<>>]
      /\ disturbed' = disturbed \cup UNION {passedOver(s) : s \in Sections}
                     \cup (IF givenAway /\ page # "closed" THEN {"assistant"} ELSE {})
      /\ UNCHANGED <<file, daemonVars, wait, cappletVars, entry, assistantVars, stepped, events>>

(* gpilot_daemon_reread_config, when the late call is taken up.             *)
RereadConfig ==
  /\ reread
  /\ inforce' = file
  /\ reread' = FALSE
  /\ UNCHANGED <<queue, pda, file, pidfile, inbox, wait, cappletVars, entry,
                 assistantVars, history, events>>

(* gnome_pilot_client_restart_daemon kills the process the pid file names;  *)
(* the next call starts another.                                            *)
RestartDaemon ==
  /\ pidfile
  /\ inforce' = file
  /\ reread' = FALSE
  /\ UNCHANGED <<queue, pda, file, pidfile, inbox, wait, cappletVars, entry,
                 assistantVars, history, events>>

(* A second gpilotd writes the pid file, loses the name, and removes it.    *)
SecondDaemon ==
  /\ pidfile
  /\ pidfile' = FALSE
  /\ Spend(1)
  /\ UNCHANGED <<queue, pda, file, inforce, reread, inbox, wait, cappletVars, entry,
                 assistantVars, history>>

-----------------------------------------------------------------------------
(* The settings window *)

(* gpilotd-control-applet: the assistant first, if nothing is configured.   *)
OpenSettings ==
  /\ capplet = "closed"
  /\ file # NoSettings
  /\ capplet' = "open"
  /\ copy' = file
  /\ UNCHANGED <<queue, pda, file, daemonVars, inbox, wait, profile, entry, assistantVars, history, events>>

SettingsGone ==
  /\ capplet' = "closed"
  /\ copy' = NoSettings
  /\ profile' = "none"
  /\ wait' = [wait EXCEPT !["dialog"] = <<0, 0>>]
  /\ entry' = [entry EXCEPT !["dialog"] = DefaultId]
CloseSettings ==
  /\ capplet = "open"
  /\ SettingsGone
  /\ inbox' = [inbox EXCEPT !["dialog"] = <<>>]
  /\ UNCHANGED <<queue, pda, file, daemonVars, assistantVars, history, events>>

SaveFromCapplet(s) ==
  /\ copy' = s
  /\ \E late \in BOOLEAN : SaveConfigAndRestart(s, late) /\ Spend(1 + Cost(late))
  /\ stepped' = (stepped \/ page # "closed")

AddDevice ==
  /\ capplet = "open"
  /\ ~copy.cradle
  /\ SaveFromCapplet(ReadDeviceConfig(copy))
  /\ UNCHANGED <<queue, pda, inbox, wait, capplet, profile, entry, assistantVars, disturbed>>

(* Another port, which is not part of the model: the window's copy of the   *)
(* rest is written with it.                                                 *)
EditDevice ==
  /\ capplet = "open"
  /\ copy.cradle
  /\ SaveFromCapplet(copy)
  /\ UNCHANGED <<queue, pda, inbox, wait, capplet, profile, entry, assistantVars, disturbed>>

DeleteDevice ==
  /\ capplet = "open"
  /\ copy.cradle
  /\ SaveFromCapplet([copy EXCEPT !.cradle = FALSE])
  /\ UNCHANGED <<queue, pda, inbox, wait, capplet, profile, entry, assistantVars, disturbed>>

(* The dialog keeps pointing to a profile that is no longer listed.         *)
DeletePilot ==
  /\ capplet = "open"
  /\ copy.id # 0
  /\ SaveFromCapplet([copy EXCEPT !.id = 0])
  /\ profile' = IF profile = "listed" THEN "deleted" ELSE profile
  /\ UNCHANGED <<queue, pda, inbox, wait, capplet, entry, assistantVars, disturbed>>

(* A new profile is listed when its dialog is confirmed; else it is freed,  *)
(* and the dialog keeps pointing to it.                                     *)
AddPilot ==
  /\ capplet = "open"
  /\ copy.id = 0
  /\ capplet' = "dialog"
  /\ profile' = "new"
  /\ entry' = [entry EXCEPT !["dialog"] = DefaultId]
  /\ Spend(1)
  /\ UNCHANGED <<queue, pda, file, daemonVars, inbox, wait, copy, assistantVars, history>>

EditPilot ==
  /\ capplet = "open"
  /\ copy.id # 0
  /\ capplet' = "dialog"
  /\ profile' = "listed"
  /\ entry' = [entry EXCEPT !["dialog"] = copy.id]
  /\ UNCHANGED <<queue, pda, file, daemonVars, inbox, wait, copy, assistantVars, history, events>>

(* A hidden dialog is filled again before it is shown.                      *)
HideField == entry' = [entry EXCEPT !["dialog"] = DefaultId]

(* gppd_run_response_cb: read_pilot_config, and the window saves.           *)
DialogOk ==
  /\ capplet = "dialog"
  /\ capplet' = "open"
  /\ \E id \in Ids :  \* the user may type another
       SaveFromCapplet(ReadPilotConfig(copy, id))
  /\ profile' = "listed"
  /\ HideField
  /\ UNCHANGED <<queue, pda, inbox, wait, assistantVars, disturbed>>

DialogCancel ==
  /\ capplet = "dialog"
  /\ capplet' = "open"
  /\ profile' = IF profile = "new" THEN "freed" ELSE profile
  /\ HideField
  /\ UNCHANGED <<queue, pda, file, daemonVars, inbox, wait, copy, assistantVars, history, events>>

(* gppd_pilot_get and gppd_pilot_send.  When the second call fails, the     *)
(* first request stays, and handle1 with it.                                *)
DialogAsk(reqs) ==
  /\ capplet = "dialog"
  /\ ChoosesCradle(copy)
  /\ RoomToAsk
  /\ DaemonAnswers
  /\ queue[System].num + 2 \in Numbers
  /\ \/ LET r == Calls(queue, reqs, inforce.id, 0)
        IN  /\ queue' = r.queue
            /\ wait' = [wait EXCEPT !["dialog"] = r.handles]
            /\ capplet' = "asking"
            /\ disturbed' = DisturbedByAsking("dialog")
            /\ Spend(1)
     \/ \E late \in 1 .. 2 :
          LET sent == [i \in 1 .. late |-> [reqs[i] EXCEPT !.owner = "gone"]]
              r == Calls(queue, sent, inforce.id, late)
          IN  /\ Spend(2)
              /\ queue' = r.queue
              /\ wait' = [wait EXCEPT !["dialog"] =
                            IF late = 2 THEN <<r.handles[1], @[2]>> ELSE @]
              /\ UNCHANGED <<capplet, disturbed>>
  /\ UNCHANGED <<pda, file, daemonVars, inbox, copy, profile, assistantVars, stepped>>

DialogGet ==
  /\ DialogAsk(<<GetUserInfo("dialog"), GetSystemInfo("dialog")>>)
  /\ UNCHANGED entry
DialogSend ==
  \E id \in Ids :
    /\ DialogAsk(<<SetUserInfo(id, FALSE, "dialog"), GetSystemInfo("dialog")>>)
    /\ entry' = [entry EXCEPT !["dialog"] = id]

(* gppd_sync_dialog_response_cb: gppd_cancel_sync, or nothing but the end  *)
(* of the dialog.                                                           *)
DialogCancelOne ==
  /\ capplet = "asking"
  /\ DaemonAnswers
  /\ RemoveRequests("dialog", SelectSeq(<<wait["dialog"][1]>>, Open))
  /\ capplet' = "dialog"
  /\ wait' = [wait EXCEPT !["dialog"] = <<-1, -1>>]
  /\ UNCHANGED <<pda, file, daemonVars, inbox, copy, profile, entry, assistantVars, stepped, events>>
DialogCancelSync ==
  /\ capplet = "asking"
  /\ DaemonAnswers
  /\ RemoveRequests("dialog", SelectSeq(wait["dialog"], Open))
  /\ capplet' = "dialog"
  /\ wait' = [wait EXCEPT !["dialog"] = <<-1, -1>>]
  /\ UNCHANGED <<pda, file, daemonVars, inbox, copy, profile, entry, assistantVars, stepped, events>>
DialogDismissSync ==
  /\ capplet = "asking"
  /\ capplet' = "dialog"
  /\ Dismissed("dialog")
  /\ UNCHANGED <<pda, file, daemonVars, inbox, wait, copy, profile, entry, assistantVars, stepped, events>>

-----------------------------------------------------------------------------
(* The assistant, started by the settings window or by the tray applet,     *)
(* which finds no PDA in the daemon's settings; it gives up if there is     *)
(* something in the file.  Its copies, state and orig_state, are known from *)
(* the page: orig_state is empty, and state has the cradle from the sync    *)
(* page on.                                                                 *)

StartAssistant(from) ==
  /\ page = "closed"
  /\ file = NoSettings
  /\ page' = "cradle"
  /\ \/ /\ from = "settings"
        /\ capplet = "closed"
        /\ capplet' = "waiting"
     \/ /\ from = "tray"
        /\ inforce.id = 0
        /\ UNCHANGED capplet
  /\ wait' = [wait EXCEPT !["assistant"] = <<0, 0>>]
  /\ stepped' = FALSE
  /\ UNCHANGED <<queue, pda, file, daemonVars, inbox, copy, profile, entry, next,
                 sending, disturbed, events>>

(* gpd_cradle_page_next                                                     *)
CradlePageNext ==
  /\ page = "cradle"
  /\ page' = "pilot one"
  /\ UNCHANGED <<queue, pda, file, daemonVars, inbox, wait, cappletVars, entry, next,
                 sending, history, events>>

(* gpd_sync_page_prepare.  A call that fails ends it before the page is     *)
(* disabled; gpd_sync_page_prepare makes both calls of a get in any case.   *)
AssistantAsk(reqs) ==
  /\ RoomToAsk
  /\ queue[System].num + 2 \in Numbers
  /\ SaveConfigAndRestart(ReadDeviceConfig(NoSettings), FALSE)
  /\ \E late \in 0 .. Len(reqs) :
       LET r == Calls(queue, reqs, inforce.id, late)
       IN  /\ Spend(1 + Cost(late # 0))
           /\ queue' = r.queue
           /\ wait' = [wait EXCEPT !["assistant"] =
                         CASE r.handles = <<>> -> @
                           [] Len(r.handles) = 2 -> r.handles
                           [] late = 1 -> <<@[1], r.handles[1]>>
                           [] OTHER -> <<r.handles[1], @[2]>>]
           /\ next' = (next /\ late # 0)
           /\ disturbed' = IF late # 0 THEN disturbed \cup {"assistant"}
                           ELSE DisturbedByAsking("assistant")
  /\ UNCHANGED <<pda, inbox, cappletVars, stepped>>

SyncPagePrepare ==
  /\ page' = "sync"
  /\ \/ /\ sending'
        /\ AssistantAsk(<<SetUserInfo(entry'["assistant"], FALSE, "assistant")>>)
     \/ /\ ~sending'
        /\ AssistantAsk(<<GetUserInfo("assistant"),
                          GetSystemInfo("assistant")>>)

ToSyncPage ==
  /\ page = "pilot one"
  /\ \/ \E id \in Ids : sending' = TRUE /\ entry' = [entry EXCEPT !["assistant"] = id]
     \/ sending' = FALSE /\ UNCHANGED entry
  /\ SyncPagePrepare

BackToSyncPage ==
  /\ page = "pilot two"
  /\ UNCHANGED <<sending, entry>>
  /\ SyncPagePrepare

(* gpd_cancel_sync, on the way back to the page before.                     *)
BackToPilotOne ==
  /\ page = "sync"
  /\ page' = "pilot one"
  /\ DaemonAnswers
  /\ wait' = [wait EXCEPT !["assistant"] = [i \in 1 .. 2 |-> IF Open(@[i]) THEN -1 ELSE @[i]]]
  /\ IF OpenHandles("assistant") # {}
     THEN /\ RemoveRequests("assistant", SelectSeq(wait["assistant"], Open))
          /\ \E late \in BOOLEAN : SaveConfigAndRestart(NoSettings, late) /\ Spend(Cost(late))
     ELSE UNCHANGED <<queue, file, daemonVars, disturbed, events>>
  /\ UNCHANGED <<pda, inbox, cappletVars, entry, next, sending, stepped>>

SyncPageNext ==
  /\ page = "sync"
  /\ next
  /\ page' = "pilot two"
  /\ UNCHANGED <<queue, pda, file, daemonVars, inbox, wait, cappletVars, entry, next,
                 sending, history, events>>

CloseAssistant(finished) ==
  /\ page' = "closed"
  /\ next' = FALSE
  /\ sending' = FALSE
  /\ wait' = [wait EXCEPT !["assistant"] = <<0, 0>>]
  /\ inbox' = [inbox EXCEPT !["assistant"] = <<>>]
  /\ entry' = [entry EXCEPT !["assistant"] = DefaultId]
  /\ \/ /\ capplet = "waiting"
        /\ capplet' = IF finished THEN "open" ELSE "closed"
        /\ copy' = IF finished THEN file' ELSE NoSettings
     \/ /\ capplet # "waiting"
        /\ UNCHANGED <<capplet, copy>>
  /\ UNCHANGED <<pda, profile>>

(* gpd_finish_page_finished                                                 *)
AssistantFinishes ==
  /\ page = "pilot two"
  /\ \E late \in BOOLEAN :
       /\ SaveConfigAndRestart(ReadPilotConfig(ReadDeviceConfig(NoSettings), entry["assistant"]), late)
       /\ Spend(Cost(late))
  /\ queue' = DisownedBy("assistant", queue, "assistant" \in disturbed)
  /\ disturbed' = disturbed \ {"assistant"}
  /\ CloseAssistant(TRUE)
  /\ UNCHANGED stepped

(* cancel_dialog: only a started assistant has something to take back.      *)
AssistantCancels ==
  /\ page # "closed"
  /\ IF page = "cradle"
     THEN UNCHANGED <<queue, file, daemonVars, disturbed, events>>
     ELSE /\ DaemonAnswers
          /\ RemoveRequests("assistant", SelectSeq(wait["assistant"], Open))
          /\ \E late \in BOOLEAN : SaveConfigAndRestart(NoSettings, late) /\ Spend(Cost(late))
  /\ CloseAssistant(FALSE)
  /\ UNCHANGED stepped

-----------------------------------------------------------------------------
(* gpilotd-client: sends its calls, and waits if the last one was answered  *)
(* with a handle.  Calls about a PDA are refused if its name is not in the  *)
(* daemon's settings.                                                       *)
RunTool(calls) ==
  LET refused(i) == calls[i].kind \in PilotKinds /\ inforce.id = 0
      accepted == SelectSeq(calls, LAMBDA c : ~(c.kind \in PilotKinds /\ inforce.id = 0))
  IN  /\ wait["tool"] = <<>>
      /\ RoomToAsk
      /\ DaemonAnswers
      /\ accepted # <<>>
      /\ \A c \in Range(accepted) :
           queue[SectionFor(c.kind, inforce.id)].num + Len(accepted) \in Numbers
      /\ \E late \in 0 .. Len(accepted) :
           LET waits == ~refused(Len(calls)) /\ late # Len(accepted)
               owned == [i \in DOMAIN accepted |->
                           [accepted[i] EXCEPT !.owner = IF waits THEN "tool" ELSE "gone"]]
               r == Calls(queue, owned, inforce.id, late)
           IN  /\ Spend(1 + Cost(late # 0))
               /\ queue' = r.queue
               /\ wait' = [wait EXCEPT !["tool"] = IF waits THEN Reverse(r.handles) ELSE <<>>]
      /\ UNCHANGED <<pda, file, daemonVars, inbox, cappletVars, entry, assistantVars,
                     disturbed, stepped>>

(* gpilot_install_file: the handle of the CONDUIT request is not kept.      *)
RunInstaller ==
  LET r == Calls(queue, <<InstallFile("installer"), Conduit("installer")>>, inforce.id, 0)
  IN  /\ wait["installer"] = <<>>
      /\ inforce.id # 0
      /\ RoomToAsk
      /\ DaemonAnswers
      /\ queue[inforce.id].num + 2 \in Numbers
      /\ queue' = r.queue
      /\ wait' = [wait EXCEPT !["installer"] = <<r.handles[1]>>]
      /\ Spend(1)
      /\ UNCHANGED <<pda, file, daemonVars, inbox, cappletVars, entry, assistantVars, history>>

(* restore_with_pilot and on_restore_dialog_response of the tray applet.    *)
TrayRestore ==
  LET r == Calls(queue, <<Restore("tray")>>, inforce.id, 0)
  IN  /\ wait["tray"] = <<>>
      /\ inforce.id # 0
      /\ RoomToAsk
      /\ DaemonAnswers
      /\ queue[inforce.id].num + 1 \in Numbers
      /\ queue' = r.queue
      /\ wait' = [wait EXCEPT !["tray"] = r.handles]
      /\ Spend(1)
      /\ UNCHANGED <<pda, file, daemonVars, inbox, cappletVars, entry, assistantVars, history>>

(* The Cancel button of the installer and of the tray applet, and another   *)
(* way to close their windows, such as Escape.                              *)
CancelWaiting(w) ==
  /\ wait[w] # <<>>
  /\ DaemonAnswers
  /\ RemoveRequests(w, wait[w])
  /\ wait' = [wait EXCEPT ![w] = <<>>]
  /\ inbox' = [inbox EXCEPT ![w] = <<>>]
  /\ UNCHANGED <<pda, file, daemonVars, cappletVars, entry, assistantVars, stepped, events>>
DismissWaiting(w) ==
  /\ wait[w] # <<>>
  /\ Dismissed(w)
  /\ wait' = [wait EXCEPT ![w] = <<>>]
  /\ inbox' = [inbox EXCEPT ![w] = <<>>]
  /\ UNCHANGED <<pda, file, daemonVars, cappletVars, entry, assistantVars, stepped, events>>

-----------------------------------------------------------------------------
(* Signals: on_dbus_signal of the client library hands each of them to the  *)
(* handlers of its process, in order.                                       *)

Stops(w, excused) ==
  /\ queue' = DisownedBy(w, queue, excused \/ w \in disturbed)
  /\ disturbed' = disturbed \ {w}

Matched(w, signal) ==
  [i \in DOMAIN wait[w] |-> IF wait[w][i] = signal.handle THEN -1 ELSE wait[w][i]]

(* gppd_userinfo_requested and gppd_request_completed.  To write to a freed *)
(* profile may do nothing else, or end the window.                          *)
DialogHears(signal) ==
  \/ /\ signal.kind = "user_info"
     /\ entry' = IF capplet \in {"dialog", "asking"}
                  THEN [entry EXCEPT !["dialog"] = signal.id] ELSE entry
     /\ copy' = IF profile = "listed" THEN [copy EXCEPT !.id = signal.id] ELSE copy
     /\ UNCHANGED <<queue, wait, capplet, profile, assistantVars, disturbed>>
  \/ /\ signal.kind = "user_info"
     /\ profile = "freed"
     /\ SettingsGone
     /\ UNCHANGED <<queue, assistantVars, disturbed>>
  \/ /\ signal.kind = "completed"
     /\ wait' = [wait EXCEPT !["dialog"] = Matched("dialog", signal)]
     /\ IF /\ capplet = "asking"
           /\ wait'["dialog"] # wait["dialog"]
           /\ wait'["dialog"] = <<-1, -1>>
        THEN capplet' = "dialog" /\ Stops("dialog", FALSE)
        ELSE UNCHANGED <<queue, capplet, disturbed>>
     /\ UNCHANGED <<copy, profile, entry, assistantVars>>

(* gpd_userinfo_requested, whoever had asked for it, and                    *)
(* gpd_request_completed.                                                   *)
UserInfoReachesNoField(signal) ==
  /\ signal.kind = "user_info"
  /\ next' = TRUE
  /\ wait' = [wait EXCEPT !["assistant"] = <<-1, -1>>]
  /\ disturbed' = IF signal.owner = "assistant" THEN disturbed ELSE disturbed \cup {"assistant"}
  /\ UNCHANGED <<queue, entry>>
AssistantUserInfo(signal) ==
  /\ signal.kind = "user_info"
  /\ entry' = [entry EXCEPT !["assistant"] = signal.id]
  /\ next' = TRUE
  /\ wait' = [wait EXCEPT !["assistant"] = <<-1, -1>>]
  /\ disturbed' = IF signal.owner = "assistant" THEN disturbed ELSE disturbed \cup {"assistant"}
  /\ UNCHANGED queue
AssistantCompleted(signal) ==
  /\ signal.kind = "completed"
  /\ wait' = [wait EXCEPT !["assistant"] = Matched("assistant", signal)]
  /\ next' = \/ next
             \/ wait'["assistant"] # wait["assistant"] /\ wait'["assistant"] = <<-1, -1>>
  /\ UNCHANGED <<queue, entry, disturbed>>
AssistantHears(signal) ==
  /\ AssistantUserInfo(signal) \/ AssistantCompleted(signal)
  /\ UNCHANGED <<cappletVars, page, sending>>

(* pilot_request_completed of gpilotd-client: whatever is completed, one    *)
(* handle leaves its list, the oldest if none matches; with the last one    *)
(* the tool ends.                                                           *)
ToolHears(signal) ==
  /\ IF signal.kind = "user_info" THEN UNCHANGED <<queue, wait, disturbed>>
     ELSE LET list == wait["tool"]
              foreign == signal.owner # "tool"
              rest == IF signal.handle \in Range(list)
                      THEN SelectSeq(list, LAMBDA h : h # signal.handle)
                      ELSE Front(list)
          IN  /\ wait' = [wait EXCEPT !["tool"] = rest]
              /\ IF rest = <<>> THEN Stops("tool", foreign)
                 ELSE /\ disturbed' = IF foreign THEN disturbed \cup {"tool"} ELSE disturbed
                      /\ UNCHANGED queue
  /\ UNCHANGED <<cappletVars, entry, assistantVars>>

(* gpilotd_request_completed of gpilot_install_file                         *)
InstallerHears(signal) ==
  /\ LET rest == SelectSeq(wait["installer"], LAMBDA h : h # signal.handle)
     IN  IF signal.kind = "completed" /\ rest = <<>>
         THEN /\ wait' = [wait EXCEPT !["installer"] = rest]
              /\ Stops("installer", FALSE)
         ELSE UNCHANGED <<queue, wait, disturbed>>
  /\ UNCHANGED <<cappletVars, entry, assistantVars>>

(* Any completion closes the dialog of the tray applet:                     *)
(* gpilotd_request_completed responds to it with GTK_RESPONSE_CLOSE, and    *)
(* complete_restore, were it still connected, would destroy it.             *)
TrayHears(signal) ==
  /\ IF signal.kind = "completed"
     THEN /\ wait' = [wait EXCEPT !["tray"] = <<>>]
          /\ Stops("tray", signal.owner # "tray")
     ELSE UNCHANGED <<queue, wait, disturbed>>
  /\ UNCHANGED <<cappletVars, entry, assistantVars>>

Dispatch(w) ==
  /\ inbox[w] # <<>>
  /\ CASE w = "dialog" -> DialogHears(Head(inbox[w]))
       [] w = "assistant" -> AssistantHears(Head(inbox[w]))
       [] w = "tool" -> ToolHears(Head(inbox[w]))
       [] w = "installer" -> InstallerHears(Head(inbox[w]))
       [] w = "tray" -> TrayHears(Head(inbox[w]))
  /\ UNCHANGED <<pda, file, daemonVars, stepped, events>>
  /\ inbox' = [inbox EXCEPT ![w] = IF Listens(w)' THEN Tail(@) ELSE <<>>]

-----------------------------------------------------------------------------

Daemon == HotSync \/ RereadConfig \/ RestartDaemon \/ SecondDaemon

SettingsWindow ==
  \/ OpenSettings
  \/ CloseSettings
  \/ AddDevice
  \/ EditDevice
  \/ DeleteDevice
  \/ DeletePilot
  \/ AddPilot
  \/ EditPilot
  \/ DialogOk
  \/ DialogCancel
  \/ DialogGet
  \/ DialogSend
  \/ DialogCancelSync
  \/ DialogDismissSync

Assistant ==
  \/ \E from \in {"settings", "tray"} : StartAssistant(from)
  \/ CradlePageNext
  \/ ToSyncPage
  \/ BackToSyncPage
  \/ BackToPilotOne
  \/ SyncPageNext
  \/ AssistantFinishes
  \/ AssistantCancels

Tools ==
  \/ \E calls \in Commands : RunTool(calls)
  \/ RunInstaller
  \/ TrayRestore
  \/ \E w \in {"installer", "tray"} : CancelWaiting(w) \/ DismissWaiting(w)

Next ==
  \/ Daemon
  \/ SettingsWindow
  \/ Assistant
  \/ Tools
  \/ \E w \in Windows : Dispatch(w)

Spec == Init /\ [][Next]_vars

-----------------------------------------------------------------------------
(* Properties *)

(* Types, and: number-of-requests is not negative.                          *)
TypeOK ==
  /\ queue \in Queues
  /\ \A s \in Sections : queue[s].num \in 0 .. MaxRequests
  /\ pda \in Ids
  /\ {file, inforce, copy} \subseteq Settings
  /\ {reread, pidfile, next, sending, stepped} \subseteq BOOLEAN
  /\ \A w \in Windows :
       /\ inbox[w] \in Seq([kind: {"user_info", "completed"}, handle: Nat, id: Nat, owner: Owners])
       /\ Len(inbox[w]) <= MaxSignals
       /\ wait[w] \in Seq(Int)
  /\ capplet \in {"closed", "waiting", "open", "dialog", "asking"}
  /\ profile \in {"none", "new", "listed", "deleted", "freed"}
  /\ entry \in [{"dialog", "assistant"} -> Ids]
  /\ page \in Pages
  /\ disturbed \subseteq Windows
  /\ events \in 0 .. MaxEvents

(* A window that shows "press HotSync" waits for requests of its own that   *)
(* the daemon can find, or their completion is on its way; and when it no   *)
(* longer waits, nothing it has asked for is left in the queue to surprise  *)
(* the next HotSync, but the CONDUIT request of the installer.  Excepted    *)
(* are the windows for which something had gone wrong (a call that timed    *)
(* out, another's cancel or requests of another kind in the same section,   *)
(* or another's signal taken for an answer); a window that was dismissed    *)
(* without its Cancel button, whose requests stay in the queue; and the     *)
(* assistant that sends the id to the PDA the first time: its only request  *)
(* is completed, but handle2 is 0, and it shows the page in vain.           *)
AnswerComes(w, h) ==
  \/ \E s \in Sections : \E n \in Loadable(queue, s, PilotKinds \cup SystemKinds) :
       HandleOf(s, n) = h /\ queue[s].group[n].owner = w
  \/ \E i \in DOMAIN inbox[w] : inbox[w][i].handle = h /\ inbox[w][i].owner = w
SentInVain == sending /\ wait["assistant"] = <<-1, 0>>
WaitsForAnAnswer ==
  \A w \in Windows \ disturbed :
    Asking(w) => /\ OpenHandles(w) # {} \/ (w = "assistant" /\ SentInVain)
                 /\ \A h \in OpenHandles(w) : AnswerComes(w, h)
LeavesNothing ==
  \A s \in Sections : \A n \in Held(queue, s) :
    queue[s].group[n].owner = "left" => queue[s].group[n].kind = "CONDUIT"
NobodyWaitsInVain == WaitsForAnAnswer /\ LeavesNothing

(* What a window saves is what the daemon works with, once it answers       *)
(* again; an assistant that is not finished leaves nothing configured,      *)
(* unless another window has saved meanwhile; and the profile a finished    *)
(* one saves is that of the PDA.                                            *)
AssistantLeaves ==
  page # "closed" /\ page' = "closed" =>
    \/ page = "pilot two" /\ file'.id # 0 /\ ("assistant" \in disturbed \/ file'.id = pda)
    \/ file' = NoSettings
    \/ stepped
SettingsTakeEffect ==
  [][(file' # file => inforce' = file' \/ reread') /\ AssistantLeaves]_vars

=============================================================================
