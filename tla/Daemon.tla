------------------------------- MODULE Daemon -------------------------------
(***************************************************************************)
(* The main loop of gpilotd: the devices it listens on, pausing, rereading *)
(* the configuration, and the handlers that open a dialog in the middle of *)
(* their work (gpilotd/gpilot-daemon.c, gnome-pilot-structures.c).         *)
(*                                                                         *)
(* A dialog runs a main loop of its own, in which every other handler may  *)
(* be dispatched: the handlers that wait for an answer form a stack, and   *)
(* all of them still hold the pointers they had read.  GLib dispatches no  *)
(* source again while its handler waits.  What a synchronization does with *)
(* the PDA is left to the other modules; here it is one step, cut in two   *)
(* by a dialog.                                                            *)
(*                                                                         *)
(* To touch an object that has been freed is undefined: gpilotd crashes, or*)
(* finds the old contents.                                                 *)
(***************************************************************************)
EXTENDS Integers, Sequences, FiniteSets

CONSTANTS
  Devices,    \* numbers of the [Device<n>] groups of the configuration
  TypeOf,     \* [Devices -> {"serial", "network", "usb"}]
  Slots,      \* a GPilotDevice is told from others of its name by a slot
  MaxDepth    \* bound on the dialogs open at a time

ASSUME DevicesAssumption == Devices \subseteq Nat
ASSUME SlotsAssumption == Slots # {}
ASSUME TypeAssumption == TypeOf \in [Devices -> {"serial", "network", "usb"}]
ASSUME DepthAssumption == MaxDepth \in Nat

Objects == Devices \X Slots
Sources == Objects \X {"in", "err", "uevent"}

(* A handler that waits: for the dialog of a synchronization (whose device, *)
(* once it is answered, is done: "goes on", or could not be bound: "fails"),*)
(* or of a device error.  pilot: whether it holds a GPilotPilot, too.       *)
Frame == [source: Sources, what: {"goes on", "fails", "error"},
          pilot: {"none", "live", "freed"}]

VARIABLES
  alive,     \* gpilotd runs
  paused,    \* context->paused
  listed,    \* context->devices
  freed,     \* objects that have been freed
  asSerial,  \* USB devices whose type is PILOT_DEVICE_SERIAL for the moment
  watches,   \* GLib sources attached for the devices
  stack,     \* handlers waiting in a dialog, the innermost first
  pressed,   \* devices whose HotSync button was pressed, not yet read
  muted      \* history: devices that have lost their watches to a pause, or to
             \* a failure to bind

vars == <<alive, paused, listed, freed, asSerial, watches, stack, pressed, muted>>

TypeOK ==
  /\ alive \in BOOLEAN
  /\ paused \in BOOLEAN
  /\ listed \in SUBSET Objects
  /\ freed \in SUBSET Objects
  /\ asSerial \in SUBSET {o \in Objects : TypeOf[o[1]] = "usb"}
  /\ watches \in SUBSET Sources
  /\ stack \in Seq(Frame)
  /\ Len(stack) <= MaxDepth
  /\ pressed \in SUBSET Devices
  /\ muted \in SUBSET Objects

Init ==
  /\ alive = FALSE
  /\ paused = FALSE
  /\ listed = {}
  /\ freed = {}
  /\ asSerial = {}
  /\ watches = {}
  /\ stack = <<>>
  /\ pressed = {}
  /\ muted = {}

Waiting == {stack[i] : i \in DOMAIN stack}
Dispatchable(src) == alive /\ \A f \in Waiting : f.source # src

(* Freed or not, the outcome of reading it.                                 *)
Touch(stale) == alive' \in IF stale THEN BOOLEAN ELSE {TRUE}

-----------------------------------------------------------------------------
(* The context *)

Watched(o) == {<<o, "in">>, <<o, "err">>}
SourcesOf(objs) == UNION {Watched(o) : o \in objs}

(* get_devices and monitor_channel: a GPilotDevice for every device of the  *)
(* configuration that can be opened, at an address of its own; a USB device *)
(* has no channel to watch.                                                 *)
Held == {f.source[1] : f \in Waiting}
InUse == listed \cup Held
FreshSlot(d) == CHOOSE s \in Slots : <<d, s>> \notin InUse
Load(opened) ==
  LET new == {<<d, FreshSlot(d)>> : d \in opened}
  IN  /\ \A d \in opened : \E s \in Slots : <<d, s>> \notin InUse
      /\ listed' = new
      /\ freed' = (freed \cup listed) \cap Held
      /\ asSerial' = asSerial \cap Held
      /\ muted' = {}
      /\ watches' = (watches \ SourcesOf(listed))
                      \cup SourcesOf({o \in new : TypeOf[o[1]] # "usb"})

(* gpilot_daemon_init *)
FirstSlot == CHOOSE s \in Slots : TRUE
Start ==
  /\ ~alive
  /\ alive' = TRUE
  /\ paused' = FALSE
  /\ stack' = <<>>
  /\ \E opened \in SUBSET Devices :
       /\ listed' = opened \X {FirstSlot}
       /\ watches' = SourcesOf({o \in listed' : TypeOf[o[1]] # "usb"})
  /\ freed' = {}
  /\ asSerial' = {}
  /\ muted' = {}
  /\ UNCHANGED pressed

(* gpilot_daemon_reread_config: every device and every pilot of the context *)
(* is freed, and loaded again.                                              *)
RereadConfig ==
  /\ alive
  /\ \E opened \in SUBSET Devices : Load(opened)
  /\ Touch(listed \cap freed # {})
  /\ stack' = [i \in DOMAIN stack |->
                 IF stack[i].pilot = "live" THEN [stack[i] EXCEPT !.pilot = "freed"]
                 ELSE stack[i]]
  /\ UNCHANGED <<paused, pressed>>

(* gpilot_daemon_pause: the watches are removed for good; to continue, the  *)
(* daemon sends itself a SIGHUP, whose handler does nothing.                *)
Pause(onOff) ==
  /\ alive
  /\ paused # onOff
  /\ paused' = onOff
  /\ IF onOff
     THEN /\ watches' = watches \ SourcesOf(listed)
          /\ muted' = muted \cup listed
          /\ Touch(listed \cap freed # {})
     ELSE UNCHANGED <<alive, watches, muted>>
  /\ UNCHANGED <<listed, freed, asSerial, stack, pressed>>

-----------------------------------------------------------------------------
(* A synchronization *)

Push(f) == Len(stack) < MaxDepth /\ stack' = <<f>> \o stack

(* sync_device, for a device that has the given type at the time: it cannot *)
(* be bound (check_usb_config may tell the user why), and the handler will  *)
(* return FALSE; or it times out, or the PDA is synchronized.  There may be *)
(* a dialog: for an unknown PDA, for one without a valid directory or       *)
(* password, for a conduit that cannot be loaded.                           *)
BindFails(src, type) ==
  /\ type # "network"
  /\ \/ /\ watches' = watches \ {src}
        /\ muted' = muted \cup {src[1]}
        /\ UNCHANGED stack
     \/ /\ type = "usb"
        /\ Push([source |-> src, what |-> "fails", pilot |-> "none"])
        /\ UNCHANGED <<watches, muted>>

Synchronized(src) ==
  /\ UNCHANGED <<watches, muted>>
  /\ \/ UNCHANGED stack
     \/ \E pilot \in {"none", "live"} :
          Push([source |-> src, what |-> "goes on", pilot |-> pilot])

(* device_in and network_device_in.  To find the device of the channel, the *)
(* objects that are listed before it are read as well.  What the PDA has    *)
(* sent stays there to be read if the device cannot be bound.               *)
SyncChannel(src, type) ==
  \/ BindFails(src, type) /\ UNCHANGED pressed
  \/ Synchronized(src) /\ pressed' = pressed \ {src[1][1]}

Before(o) == {p \in listed : p[1] < o[1]}

DeviceInDeafens(o) ==
  LET src == <<o, "in">>
  IN  /\ src \in watches
      /\ Dispatchable(src)
      /\ o[1] \in pressed
      /\ Touch(Before(o) \cap freed # {})
      /\ watches' = watches \ {src}
      /\ pressed' = IF paused THEN pressed ELSE pressed \ {o[1]}
      /\ UNCHANGED <<muted, stack, paused, listed, freed, asSerial>>
DeviceInPaused(o) ==
  LET src == <<o, "in">>
  IN  /\ src \in watches
      /\ Dispatchable(src)
      /\ o[1] \in pressed
      /\ Touch(Before(o) \cap freed # {})
      /\ SyncChannel(src, TypeOf[o[1]])
      /\ UNCHANGED <<paused, listed, freed, asSerial>>
DeviceIn(o) ==
  LET src == <<o, "in">>
  IN  /\ src \in watches
      /\ Dispatchable(src)
      /\ o[1] \in pressed
      /\ Touch(Before(o) \cap freed # {})
      /\ IF paused
         THEN /\ watches' = watches \ {src}
              /\ muted' = muted \cup {o}
              /\ UNCHANGED <<stack, pressed>>
         ELSE SyncChannel(src, TypeOf[o[1]])
      /\ UNCHANGED <<paused, listed, freed, asSerial>>

(* gpilotd_gudev_handler and usb_device_added: whichever PDA was plugged in,*)
(* the first USB device of the list is synchronized, as a serial device     *)
(* unless the PDA talks net.  The event is lost while gpilotd is paused.    *)
Uevents == {f \in Waiting : f.source[2] = "uevent"}
UsbCandidatesOfAnyType == listed \ asSerial
UsbCandidates == {o \in listed \ asSerial : TypeOf[o[1]] = "usb"}
FirstUsb == CHOOSE o \in UsbCandidates : \A p \in UsbCandidates : o[1] <= p[1]
SyncUsb(visorNet) ==
  LET src == <<FirstUsb, "uevent">>
      type == IF visorNet THEN "usb" ELSE "serial"
  IN  /\ Touch((Before(FirstUsb) \cup {FirstUsb}) \cap freed # {})
      /\ BindFails(src, type) \/ Synchronized(src)
      /\ asSerial' = IF ~visorNet /\ stack' # stack THEN asSerial \cup {FirstUsb}
                     ELSE asSerial
UsbDeviceAdded(d, visorNet) ==
  /\ alive
  /\ Uevents = {}
  /\ TypeOf[d] = "usb"
  /\ d \in pressed
  /\ pressed' = pressed \ {d}
  /\ \/ ~paused /\ UsbCandidates # {} /\ SyncUsb(visorNet)
     \/ /\ paused \/ UsbCandidates = {}
        /\ UNCHANGED <<alive, watches, muted, stack, asSerial>>
  /\ UNCHANGED <<paused, listed, freed>>

(* device_err and network_device_err: the user is told first.               *)
DeviceErr(o) ==
  LET src == <<o, "err">>
  IN  /\ src \in watches
      /\ Dispatchable(src)
      /\ Touch(Before(o) \cap freed # {})
      /\ Push([source |-> src, what |-> "error", pilot |-> "none"])
      /\ UNCHANGED <<paused, listed, freed, asSerial, watches, pressed, muted>>

-----------------------------------------------------------------------------
(* The user answers the dialog in front, and its handler goes on.           *)

Top == stack[1]
Pop == stack' = Tail(stack)

(* remove_device: the object is freed; g_list_remove is given the node of   *)
(* the list instead of the device, and removes nothing.  For a device that  *)
(* is not in the list any more only its name is printed.                    *)
FreeKeepsWatches(o) ==
  /\ freed' = freed \cup {o}
  /\ watches' = watches \ {<<o, "err">>}
FreeDevice(o) ==
  /\ freed' = freed \cup {o}
  /\ watches' = watches \ Watched(o)

AnswerError ==
  /\ alive
  /\ stack # <<>>
  /\ Top.what = "error"
  /\ LET o == Top.source[1]
     IN  /\ Touch(o \in freed \/ (Before(o) \cap freed # {}))
         /\ IF o \in listed THEN FreeDevice(o) ELSE UNCHANGED <<freed, watches>>
  /\ Pop
  /\ UNCHANGED <<paused, listed, asSerial, pressed, muted>>

(* The rest of sync_device reads the device again, and the pilot if it holds*)
(* one; usb_device_added restores the type.                                 *)
AnswerSyncForgetsType ==
  /\ alive
  /\ stack # <<>>
  /\ Top.what # "error"
  /\ Touch(Top.source[1] \in freed \/ Top.pilot = "freed")
  /\ Pop
  /\ UNCHANGED <<asSerial, paused, listed, freed, pressed, watches, muted>>
AnswerSync ==
  /\ alive
  /\ stack # <<>>
  /\ Top.what # "error"
  /\ LET o == Top.source[1]
         fails == Top.what = "fails"
         uevent == Top.source[2] = "uevent"
     IN  /\ Touch(\/ ~fails /\ o \in freed
                  \/ Top.pilot = "freed")
         /\ watches' = IF fails THEN watches \ {Top.source} ELSE watches
         /\ muted' = IF fails THEN muted \cup {o} ELSE muted
         /\ asSerial' = IF uevent THEN asSerial \ {o} ELSE asSerial
  /\ Pop
  /\ UNCHANGED <<paused, listed, freed, pressed>>

Answer == AnswerError \/ AnswerSync

-----------------------------------------------------------------------------

(* The user presses the HotSync button.                                     *)
Press(d) ==
  /\ d \notin pressed
  /\ pressed' = pressed \cup {d}
  /\ UNCHANGED <<alive, paused, listed, freed, asSerial, watches, stack, muted>>

Next ==
  \/ Start
  \/ RereadConfig
  \/ \E onOff \in BOOLEAN : Pause(onOff)
  \/ \E o \in Objects : DeviceIn(o)
  \/ \E o \in Objects : DeviceErr(o)
  \/ \E d \in Devices, visorNet \in BOOLEAN : UsbDeviceAdded(d, visorNet)
  \/ Answer
  \/ \E d \in Devices : Press(d)

Spec == Init /\ [][Next]_vars

(* The main loop dispatches a source that is ready again and again, and the *)
(* user leaves no dialog open for ever.                                     *)
FairSpec ==
  /\ Spec
  /\ WF_vars(Answer)
  /\ SF_vars(Len(stack) = 1 /\ Answer)
  /\ \A d \in Devices : SF_vars(\E s \in Slots : DeviceIn(<<d, s>>))

-----------------------------------------------------------------------------
(* Properties *)

(* No source outlives its device: what gpilotd waits for always belongs to  *)
(* a device of the context that has not been freed, in whatever dialog the  *)
(* device failed or the configuration was reread.                           *)
WatchesLive == \A src \in watches : src[1] \in listed \ freed

(* A device of the context is deaf only for a reason: it cannot be bound, or*)
(* was paused.  No handler drops its watch otherwise, and a device reread   *)
(* while gpilotd is paused is watched.                                      *)
DeafForAReason ==
  alive => \A o \in listed \ (freed \cup muted) :
             TypeOf[o[1]] # "usb" => Watched(o) \subseteq watches

(* A USB device is of type serial only while its uevent is being handled,   *)
(* whatever became of the synchronization.                                  *)
TypeRestored == asSerial \subseteq {f.source[1] : f \in Uevents}

(* Nothing is synchronized while gpilotd is paused, even on devices that    *)
(* have been reread since, and no HotSync is swallowed (but for USB events, *)
(* which are not kept); a dialog opened then is about a device error.       *)
PausedIsQuiet ==
  [][paused => /\ \A d \in pressed \ pressed' : TypeOf[d] = "usb"
               /\ Len(stack') > Len(stack) => stack'[1].what = "error"]_vars

(* A HotSync button that has been pressed is answered, unless the device is *)
(* deaf for a reason, or gone, or gpilotd has crashed.                      *)
Reachable(d) == \E o \in listed \ (freed \cup muted) : o[1] = d
HotSyncAnswered ==
  \A d \in Devices : TypeOf[d] # "usb" =>
    (d \in pressed ~> (d \notin pressed \/ ~alive \/ ~Reachable(d)))

(* Disagreements with the documentation and the comments.                   *)

(* To continue (gpilot-daemon.xml:8, "a request to pause or continue the    *)
(* daemon") is to listen again: a device is deaf only while paused.         *)
ContinueListens ==
  alive /\ ~paused => \A o \in listed \ freed :
    TypeOf[o[1]] = "network" => Watched(o) \subseteq watches
=============================================================================
