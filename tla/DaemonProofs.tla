---------------------------- MODULE DaemonProofs ----------------------------
(***************************************************************************)
(* Proofs about Daemon, for every set of devices, whatever their types, and*)
(* for dialogs of any depth.                                               *)
(***************************************************************************)
EXTENDS Daemon, WellFoundedInduction, TLAPS

(* A dialog about a device error is opened by the err source only. *)
ErrorFrames == \A f \in Waiting : f.what = "error" => f.source[2] = "err"

(* What WatchesLive says, with both sources of each device. *)
WatchesOwned == watches \subseteq SourcesOf(listed \ freed)

(* The inductive invariant.  That the type of a USB device is restored rests*)
(* on error frames being no uevent frames: to answer one closes no uevent.  *)
IInv ==
  /\ TypeOK
  /\ WatchesOwned
  /\ DeafForAReason
  /\ TypeRestored
  /\ ErrorFrames

-----------------------------------------------------------------------------

(* Every nonempty set of natural numbers has a least one. *)
LEMMA LeastNumber ==
  ASSUME NEW T \in SUBSET Nat, T # {}
  PROVE  \E x \in T : \A y \in T : x <= y
<1> DEFINE less == {ss \in Nat \X Nat : ss[1] < ss[2]}
<1>1. IsWellFoundedOn(less, Nat)
  BY NatLessThanWellFounded, Zenon DEF OpToRel
<1>2. \A m, n \in Nat : m < n => <<m, n>> \in less
  OBVIOUS
<1> HIDE DEF less
<1>3. PICK x \in T : \A y \in T : ~ (<<y, x>> \in less)
  BY <1>1, WFMin
<1>4. \A y \in T : ~ (y < x)
  BY <1>2, <1>3
<1>5. \A y \in T : x <= y
  BY <1>4
<1> QED BY <1>5

(* usb_device_added finds a USB device when there is one. *)
LEMMA FirstUsbIsCandidate ==
  ASSUME TypeOK, UsbCandidates # {}
  PROVE  /\ FirstUsb \in UsbCandidates
         /\ FirstUsb \in Objects
         /\ TypeOf[FirstUsb[1]] = "usb"
<1> DEFINE T == {o[1] : o \in UsbCandidates}
<1>1. UsbCandidates \subseteq Objects
  BY DEF TypeOK, UsbCandidates
<1>2. T \subseteq Nat /\ T # {}
  BY <1>1, DevicesAssumption DEF Objects
<1>3. PICK x \in T : \A y \in T : x <= y
  BY <1>2, LeastNumber
<1>4. PICK o \in UsbCandidates : x = o[1]
  OBVIOUS
<1>5. \A p \in UsbCandidates : o[1] <= p[1]
  BY <1>3, <1>4
<1>6. FirstUsb \in UsbCandidates
  BY <1>5 DEF FirstUsb
<1> QED BY <1>1, <1>6 DEF UsbCandidates

(* The sources of different devices are different. *)
LEMMA SourcesApart ==
  ASSUME NEW objs, NEW o, NEW src \in SourcesOf(objs), src \notin Watched(o)
  PROVE  src \in SourcesOf(objs \ {o})
BY DEF SourcesOf, Watched

LEMMA SourceOfObject ==
  ASSUME NEW objs, NEW src
  PROVE  src \in SourcesOf(objs) <=> src[1] \in objs /\ src \in Watched(src[1])
BY DEF SourcesOf, Watched

(* What opening a dialog does to the set of waiting handlers. *)
LEMMA PushWaiting ==
  ASSUME TypeOK, NEW f \in Frame, Push(f)
  PROVE  /\ stack' \in Seq(Frame)
         /\ Len(stack') = Len(stack) + 1
         /\ Len(stack') <= MaxDepth
         /\ stack'[1] = f
         /\ Waiting' = Waiting \cup {f}
<1>1. stack \in Seq(Frame) /\ MaxDepth \in Nat /\ Len(stack) \in Nat
  BY DepthAssumption DEF TypeOK
<1>2. stack' = <<f>> \o stack /\ Len(stack) < MaxDepth
  BY DEF Push
<1>3. stack' \in Seq(Frame) /\ Len(stack') = Len(stack) + 1
  BY <1>1, <1>2
<1>4. stack'[1] = f
  BY <1>1, <1>2
<1>5. \A i \in 1 .. Len(stack) : stack'[i + 1] = stack[i]
  BY <1>1, <1>2
<1>6. \A i \in 2 .. Len(stack') : i - 1 \in 1 .. Len(stack) /\ stack'[i] = stack[i - 1]
  BY <1>1, <1>2, <1>3
<1>7. Waiting' \subseteq Waiting \cup {f}
  <2>1. SUFFICES ASSUME NEW i \in 1 .. Len(stack')
                 PROVE  stack'[i] \in Waiting \cup {f}
    BY <1>3 DEF Waiting
  <2>2. CASE i = 1
    BY <2>2, <1>4
  <2>3. CASE i # 1
    <3>1. i \in 2 .. Len(stack')
      BY <2>3, <1>3, <1>1
    <3> QED BY <3>1, <1>6, <1>1 DEF Waiting
  <2> QED BY <2>2, <2>3
<1>8. Waiting \cup {f} \subseteq Waiting'
  <2>1. f \in Waiting'
    <3>1. 1 \in 1 .. Len(stack')
      BY <1>1, <1>3
    <3> QED BY <3>1, <1>3, <1>4 DEF Waiting
  <2>2. SUFFICES ASSUME NEW i \in 1 .. Len(stack)
                 PROVE  stack[i] \in Waiting'
    BY <1>1, <2>1 DEF Waiting
  <2>3. i + 1 \in 1 .. Len(stack')
    BY <1>1, <1>3
  <2> QED BY <2>3, <1>3, <1>5 DEF Waiting
<1> QED BY <1>1, <1>2, <1>3, <1>4, <1>7, <1>8

(* What closing the dialog in front does to it. *)
LEMMA PopWaiting ==
  ASSUME TypeOK, stack # <<>>, Pop
  PROVE  /\ stack' \in Seq(Frame)
         /\ Len(stack') = Len(stack) - 1
         /\ Len(stack') <= MaxDepth
         /\ Top \in Frame
         /\ Top \in Waiting
         /\ Waiting' \subseteq Waiting
         /\ Waiting \subseteq Waiting' \cup {Top}
<1>1. stack \in Seq(Frame) /\ MaxDepth \in Nat /\ Len(stack) \in Nat /\ Len(stack) <= MaxDepth
  BY DepthAssumption DEF TypeOK
<1>2. stack' = Tail(stack) /\ Len(stack) > 0
  BY <1>1 DEF Pop
<1>3. stack' \in Seq(Frame) /\ Len(stack') = Len(stack) - 1
  BY <1>1, <1>2
<1>4. \A i \in 1 .. Len(stack') : i + 1 \in 1 .. Len(stack) /\ stack'[i] = stack[i + 1]
  BY <1>1, <1>2, <1>3
<1>5. Top \in Frame /\ Top \in Waiting
  BY <1>1, <1>2 DEF Top, Waiting
<1>6. Waiting' \subseteq Waiting
  BY <1>1, <1>3, <1>4 DEF Waiting
<1>7. Waiting \subseteq Waiting' \cup {Top}
  <2>1. SUFFICES ASSUME NEW i \in 1 .. Len(stack), i # 1
                 PROVE  stack[i] \in Waiting'
    BY <1>1, <1>2 DEF Waiting, Top
  <2>2. i - 1 \in 1 .. Len(stack') /\ stack'[i - 1] = stack[i]
    BY <1>1, <1>2, <1>3, <1>4, <2>1
  <2> QED BY <2>2, <1>3 DEF Waiting
<1> QED BY <1>1, <1>3, <1>5, <1>6, <1>7

LEMMA TouchAlive ==
  ASSUME NEW stale, Touch(stale)
  PROVE  alive' \in BOOLEAN
BY DEF Touch

LEMMA FreshIsNew ==
  ASSUME NEW d \in Devices, \E s \in Slots : <<d, s>> \notin InUse
  PROVE  FreshSlot(d) \in Slots /\ <<d, FreshSlot(d)>> \notin InUse
BY DEF FreshSlot

(* With the stack as it is, the parts of the invariant about it stay. *)
LEMMA StackSame ==
  ASSUME IInv, UNCHANGED stack, asSerial' \subseteq asSerial
  PROVE  TypeRestored' /\ ErrorFrames'
<1>1. Waiting' = Waiting
  BY DEF Waiting
<1> QED BY <1>1 DEF IInv, TypeRestored, ErrorFrames, Uevents

-----------------------------------------------------------------------------

LEMMA EmptyStack == <<>> \in Seq(Frame) /\ Len(<<>>) <= MaxDepth
<1>1. <<>> \in Seq(Frame)
  OBVIOUS
<1>2. Len(<<>>) = 0
  OBVIOUS
<1> QED BY <1>1, <1>2, DepthAssumption

LEMMA InitHolds == Init => IInv
<1> SUFFICES ASSUME Init PROVE IInv
  OBVIOUS
<1>1. TypeOK
  <2>1. stack \in Seq(Frame) /\ Len(stack) <= MaxDepth
    BY EmptyStack DEF Init
  <2> QED BY <2>1 DEF Init, TypeOK
<1>2. Waiting = {}
  BY DEF Init, Waiting
<1>3. WatchesOwned /\ DeafForAReason
  BY DEF Init, WatchesOwned, DeafForAReason
<1>4. TypeRestored /\ ErrorFrames
  BY <1>2 DEF Init, TypeRestored, ErrorFrames, Uevents
<1> QED BY <1>1, <1>3, <1>4 DEF IInv

LEMMA StartKeeps ==
  ASSUME IInv, Start
  PROVE  IInv'
<1>1. PICK opened \in SUBSET Devices :
        /\ listed' = opened \X {FirstSlot}
        /\ watches' = SourcesOf({o \in listed' : TypeOf[o[1]] # "usb"})
  BY DEF Start
<1>2. FirstSlot \in Slots
  BY SlotsAssumption DEF FirstSlot
<1>3. listed' \subseteq Objects
  BY <1>1, <1>2 DEF Objects
<1>4. watches' \subseteq Sources
  BY <1>1, <1>3 DEF SourcesOf, Watched, Sources
<1>5. TypeOK'
  <2>1. stack' \in Seq(Frame) /\ Len(stack') <= MaxDepth
    BY EmptyStack DEF Start
  <2>2. pressed' \in SUBSET Devices
    BY DEF IInv, TypeOK, Start
  <2> QED BY <1>3, <1>4, <2>1, <2>2 DEF TypeOK, Start
<1>6. Waiting' = {}
  BY DEF Start, Waiting
<1>7. WatchesOwned' /\ DeafForAReason'
  BY <1>1 DEF Start, WatchesOwned, DeafForAReason, SourcesOf
<1>8. TypeRestored' /\ ErrorFrames'
  BY <1>6 DEF Start, TypeRestored, ErrorFrames, Uevents
<1> QED BY <1>5, <1>7, <1>8 DEF IInv

(* Rereading replaces the watches together with the devices: the new ones   *)
(* are none that a waiting handler holds, so none of them has been freed.   *)
LEMMA RereadConfigKeeps ==
  ASSUME IInv, RereadConfig
  PROVE  IInv'
<1>1. PICK opened \in SUBSET Devices : Load(opened)
  BY DEF RereadConfig
<1> DEFINE new == {<<d, FreshSlot(d)>> : d \in opened}
           mute(f) == IF f.pilot = "live" THEN [f EXCEPT !.pilot = "freed"] ELSE f
<1>2. /\ listed' = new
      /\ freed' = (freed \cup listed) \cap Held
      /\ asSerial' = asSerial \cap Held
      /\ muted' = {}
      /\ watches' = (watches \ SourcesOf(listed))
                      \cup SourcesOf({o \in new : TypeOf[o[1]] # "usb"})
      /\ \A d \in opened : \E s \in Slots : <<d, s>> \notin InUse
  BY <1>1 DEF Load
<1>3. new \subseteq Objects /\ new \cap InUse = {}
  BY <1>2, FreshIsNew DEF Objects
<1>4. watches' = SourcesOf({o \in new : TypeOf[o[1]] # "usb"})
  BY <1>2, SourceOfObject DEF IInv, WatchesOwned
<1>5. alive' \in BOOLEAN
  BY TouchAlive DEF RereadConfig
<1>6. stack \in Seq(Frame) /\ Len(stack) \in Nat /\ Len(stack) <= MaxDepth
  BY DEF IInv, TypeOK
<1>7. stack' = [i \in 1 .. Len(stack) |-> mute(stack[i])]
  BY <1>6 DEF RereadConfig
<1>8. \A f \in Frame : mute(f) \in Frame /\ mute(f).source = f.source /\ mute(f).what = f.what
  BY DEF Frame
<1> HIDE DEF mute, new
<1>9. stack' \in Seq(Frame) /\ Len(stack') = Len(stack)
  <2>1. \A i \in 1 .. Len(stack) : mute(stack[i]) \in Frame
    BY <1>6, <1>8
  <2> QED BY <1>6, <1>7, <2>1
<1>10. TypeOK'
  <2>1. watches' \subseteq Sources
    BY <1>3, <1>4 DEF SourcesOf, Watched, Sources
  <2>2. listed' \subseteq Objects /\ freed' \subseteq Objects
    BY <1>2, <1>3 DEF IInv, TypeOK
  <2>3. asSerial' \in SUBSET {o \in Objects : TypeOf[o[1]] = "usb"}
    BY <1>2 DEF IInv, TypeOK
  <2>4. paused' \in BOOLEAN /\ pressed' \in SUBSET Devices
    BY DEF IInv, TypeOK, RereadConfig
  <2> QED BY <1>2, <1>5, <1>6, <1>9, <2>1, <2>2, <2>3, <2>4 DEF TypeOK
<1>11. WatchesOwned'
  <2>1. new \cap freed' = {}
    BY <1>2, <1>3 DEF InUse
  <2> QED BY <1>2, <1>4, <2>1, SourceOfObject DEF WatchesOwned
<1>12. DeafForAReason'
  BY <1>2, <1>4 DEF DeafForAReason, SourcesOf
<1>13. \A i \in 1 .. Len(stack) : stack'[i].source = stack[i].source /\ stack'[i].what = stack[i].what
  BY <1>6, <1>7, <1>8
<1>14. ErrorFrames'
  BY <1>6, <1>9, <1>13 DEF IInv, ErrorFrames, Waiting
<1>15. TypeRestored'
  <2>1. SUFFICES ASSUME NEW o \in asSerial
                 PROVE  o \in {f.source[1] : f \in Uevents'}
    BY <1>2 DEF TypeRestored
  <2>2. PICK f \in Waiting : f.source[2] = "uevent" /\ o = f.source[1]
    BY DEF IInv, TypeRestored, Uevents
  <2>3. PICK i \in 1 .. Len(stack) : f = stack[i]
    BY <1>6 DEF Waiting
  <2>4. stack'[i] \in Waiting'
    BY <1>9, <1>6 DEF Waiting
  <2>5. stack'[i] \in Uevents'
    BY <1>13, <2>2, <2>3, <2>4 DEF Uevents
  <2> QED BY <1>13, <2>2, <2>3, <2>5
<1> QED BY <1>10, <1>11, <1>12, <1>14, <1>15 DEF IInv

(* To pause makes every device of the list deaf, and says so. *)
LEMMA PauseKeeps ==
  ASSUME IInv, NEW onOff \in BOOLEAN, Pause(onOff)
  PROVE  IInv'
<1>1. UNCHANGED <<listed, freed, asSerial, stack, pressed>> /\ paused' = onOff
  BY DEF Pause
<1>2. TypeRestored' /\ ErrorFrames'
  BY <1>1, StackSame
<1>3. CASE onOff
  <2>1. /\ watches' = watches \ SourcesOf(listed)
        /\ muted' = muted \cup listed
        /\ alive' \in BOOLEAN
    BY <1>3, TouchAlive DEF Pause
  <2>2. TypeOK'
    BY <1>1, <2>1 DEF IInv, TypeOK
  <2>3. WatchesOwned' /\ DeafForAReason'
    BY <1>1, <2>1 DEF IInv, WatchesOwned, DeafForAReason
  <2> QED BY <1>2, <2>2, <2>3 DEF IInv
<1>4. CASE ~onOff
  <2>1. UNCHANGED <<alive, watches, muted>>
    BY <1>4 DEF Pause
  <2>2. TypeOK'
    BY <1>1, <2>1 DEF IInv, TypeOK
  <2>3. WatchesOwned' /\ DeafForAReason'
    BY <1>1, <2>1 DEF IInv, WatchesOwned, DeafForAReason
  <2> QED BY <1>2, <2>2, <2>3 DEF IInv
<1> QED BY <1>3, <1>4

LEMMA PressKeeps ==
  ASSUME IInv, NEW d \in Devices, Press(d)
  PROVE  IInv'
<1>1. UNCHANGED <<alive, paused, listed, freed, asSerial, watches, stack, muted>>
  BY DEF Press
<1>2. TypeRestored' /\ ErrorFrames'
  BY <1>1, StackSame
<1>3. TypeOK'
  BY <1>1 DEF IInv, TypeOK, Press
<1>4. WatchesOwned' /\ DeafForAReason'
  BY <1>1 DEF IInv, WatchesOwned, DeafForAReason
<1> QED BY <1>2, <1>3, <1>4 DEF IInv

(* A dialog that is opened for anything but an uevent adds a frame, and the *)
(* frames of an error dialog are those of the err source.                   *)
LEMMA PushKeeps ==
  ASSUME IInv, NEW f \in Frame, Push(f), f.what = "error" => f.source[2] = "err"
  PROVE  /\ stack' \in Seq(Frame)
         /\ Len(stack') <= MaxDepth
         /\ ErrorFrames'
         /\ Uevents \subseteq Uevents'
         /\ f \in Waiting'
<1>1. /\ stack' \in Seq(Frame)
      /\ Len(stack') <= MaxDepth
      /\ Waiting' = Waiting \cup {f}
  BY PushWaiting DEF IInv
<1>2. ErrorFrames'
  BY <1>1 DEF IInv, ErrorFrames
<1>3. Uevents \subseteq Uevents'
  BY <1>1 DEF Uevents
<1> QED BY <1>1, <1>2, <1>3

(* What a synchronization does, from any source and for any type: it drops  *)
(* no watch but its own, and then its device counts as muted.               *)
LEMMA SynchronizationKeeps ==
  ASSUME IInv, alive, NEW src \in Sources, NEW type,
         BindFails(src, type) \/ Synchronized(src),
         UNCHANGED <<listed, freed>>
  PROVE  /\ watches' \subseteq Sources
         /\ muted' \subseteq Objects
         /\ stack' \in Seq(Frame)
         /\ Len(stack') <= MaxDepth
         /\ WatchesOwned'
         /\ DeafForAReason'
         /\ ErrorFrames'
         /\ Uevents \subseteq Uevents'
         /\ stack' # stack => \E f \in Waiting' : f.source = src
<1>1. /\ watches' = watches \ {src} \/ watches' = watches
      /\ muted' = muted \cup {src[1]} \/ muted' = muted
      /\ watches' = watches \/ muted' = muted \cup {src[1]}
  BY DEF BindFails, Synchronized
<1>2. src[1] \in Objects
  BY DEF Sources
<1>3. watches' \subseteq Sources /\ muted' \subseteq Objects
  BY <1>1, <1>2 DEF IInv, TypeOK
<1>4. WatchesOwned'
  BY <1>1 DEF IInv, WatchesOwned
<1>5. DeafForAReason'
  <2>1. SUFFICES ASSUME NEW o \in listed \ (freed \cup muted'), TypeOf[o[1]] # "usb"
                 PROVE  Watched(o) \subseteq watches'
    BY DEF DeafForAReason
  <2>2. Watched(o) \subseteq watches
    BY <1>1, <2>1 DEF IInv, DeafForAReason
  <2>3. watches' = watches \/ o # src[1]
    BY <1>1, <2>1
  <2> QED BY <1>1, <2>2, <2>3 DEF Watched
<1>6. CASE UNCHANGED stack
  <2>1. Waiting' = Waiting
    BY <1>6 DEF Waiting
  <2>2. ErrorFrames' /\ Uevents \subseteq Uevents'
    BY <2>1 DEF IInv, ErrorFrames, Uevents
  <2>3. stack' \in Seq(Frame) /\ Len(stack') <= MaxDepth
    BY <1>6 DEF IInv, TypeOK
  <2> QED BY <1>3, <1>4, <1>5, <1>6, <2>2, <2>3
<1>7. CASE \E what \in {"goes on", "fails"}, pilot \in {"none", "live"} :
             Push([source |-> src, what |-> what, pilot |-> pilot])
  <2>1. PICK what \in {"goes on", "fails"}, pilot \in {"none", "live"} :
          Push([source |-> src, what |-> what, pilot |-> pilot])
    BY <1>7
  <2> DEFINE f == [source |-> src, what |-> what, pilot |-> pilot]
  <2>2. f \in Frame /\ f.what # "error" /\ f.source = src
    BY DEF Frame
  <2>3. Push(f)
    BY <2>1
  <2> HIDE DEF f
  <2>4. /\ stack' \in Seq(Frame)
        /\ Len(stack') <= MaxDepth
        /\ ErrorFrames'
        /\ Uevents \subseteq Uevents'
        /\ f \in Waiting'
    BY <2>2, <2>3, PushKeeps
  <2> QED BY <1>3, <1>4, <1>5, <2>2, <2>4
<1> QED BY <1>6, <1>7 DEF BindFails, Synchronized

LEMMA DeviceInKeeps ==
  ASSUME IInv, NEW o \in Objects, DeviceIn(o)
  PROVE  IInv'
<1> DEFINE src == <<o, "in">>
<1>1. /\ UNCHANGED <<paused, listed, freed, asSerial>>
      /\ alive
      /\ alive' \in BOOLEAN
  BY TouchAlive DEF DeviceIn, Dispatchable
<1>2. src \in Sources
  BY DEF Sources
<1>3. CASE paused
  <2>1. /\ watches' = watches \ {src}
        /\ muted' = muted \cup {o}
        /\ UNCHANGED <<stack, pressed>>
    BY <1>3 DEF DeviceIn
  <2>2. TypeOK'
    BY <1>1, <2>1 DEF IInv, TypeOK
  <2>3. WatchesOwned'
    BY <1>1, <2>1 DEF IInv, WatchesOwned
  <2>4. DeafForAReason'
    <3>1. SUFFICES ASSUME NEW p \in listed \ (freed \cup muted'), TypeOf[p[1]] # "usb"
                   PROVE  Watched(p) \subseteq watches'
      BY <1>1 DEF DeafForAReason
    <3>2. Watched(p) \subseteq watches /\ p # o
      BY <1>1, <2>1, <3>1 DEF IInv, DeafForAReason
    <3> QED BY <2>1, <3>2 DEF Watched
  <2>5. TypeRestored' /\ ErrorFrames'
    BY <1>1, <2>1, StackSame
  <2> QED BY <2>2, <2>3, <2>4, <2>5 DEF IInv
<1>4. CASE ~paused
  <2>1. /\ BindFails(src, TypeOf[o[1]]) \/ Synchronized(src)
        /\ pressed' = pressed \/ pressed' = pressed \ {o[1]}
    BY <1>4 DEF DeviceIn, SyncChannel
  <2> HIDE DEF src
  <2>2. /\ watches' \subseteq Sources
        /\ muted' \subseteq Objects
        /\ stack' \in Seq(Frame)
        /\ Len(stack') <= MaxDepth
        /\ WatchesOwned'
        /\ DeafForAReason'
        /\ ErrorFrames'
        /\ Uevents \subseteq Uevents'
    BY <1>1, <1>2, <2>1, SynchronizationKeeps
  <2>3. TypeOK'
    BY <1>1, <2>1, <2>2 DEF IInv, TypeOK
  <2>4. TypeRestored'
    BY <1>1, <2>2 DEF IInv, TypeRestored
  <2> QED BY <2>2, <2>3, <2>4 DEF IInv
<1> QED BY <1>3, <1>4

(* The type is made serial only together with a dialog of the uevent.       *)
LEMMA UsbDeviceAddedKeeps ==
  ASSUME IInv, NEW d \in Devices, NEW visorNet \in BOOLEAN, UsbDeviceAdded(d, visorNet)
  PROVE  IInv'
<1>1. /\ UNCHANGED <<paused, listed, freed>>
      /\ alive
      /\ pressed' = pressed \ {d}
  BY DEF UsbDeviceAdded
<1>2. CASE UNCHANGED <<alive, watches, muted, stack, asSerial>>
  <2>1. TypeOK'
    BY <1>1, <1>2 DEF IInv, TypeOK
  <2>2. WatchesOwned' /\ DeafForAReason'
    BY <1>1, <1>2 DEF IInv, WatchesOwned, DeafForAReason
  <2>3. TypeRestored' /\ ErrorFrames'
    BY <1>2, StackSame
  <2> QED BY <2>1, <2>2, <2>3 DEF IInv
<1>3. CASE UsbCandidates # {} /\ SyncUsb(visorNet)
  <2>1. PICK o : o = FirstUsb
    OBVIOUS
  <2>2. o \in Objects /\ TypeOf[o[1]] = "usb"
    BY <1>3, <2>1, FirstUsbIsCandidate DEF IInv
  <2>3. PICK src : src = <<o, "uevent">>
    OBVIOUS
  <2>4. src \in Sources /\ src[1] = o /\ src[2] = "uevent"
    BY <2>2, <2>3 DEF Sources
  <2>5. alive' \in BOOLEAN
    BY <1>3, TouchAlive DEF SyncUsb
  <2>6. \E type \in {"usb", "serial"} : BindFails(src, type) \/ Synchronized(src)
    BY <1>3, <2>1, <2>3 DEF SyncUsb
  <2>7. /\ watches' \subseteq Sources
        /\ muted' \subseteq Objects
        /\ stack' \in Seq(Frame)
        /\ Len(stack') <= MaxDepth
        /\ WatchesOwned'
        /\ DeafForAReason'
        /\ ErrorFrames'
        /\ Uevents \subseteq Uevents'
        /\ stack' # stack => \E f \in Waiting' : f.source = src
    BY <1>1, <2>4, <2>6, SynchronizationKeeps
  <2>8. asSerial' = asSerial \/ (stack' # stack /\ asSerial' = asSerial \cup {o})
    BY <1>3, <2>1 DEF SyncUsb
  <2>9. TypeOK'
    <3>1. asSerial' \in SUBSET {p \in Objects : TypeOf[p[1]] = "usb"}
      BY <2>2, <2>8 DEF IInv, TypeOK
    <3> QED BY <1>1, <2>5, <2>7, <3>1 DEF IInv, TypeOK
  <2>10. TypeRestored'
    <3>1. asSerial \subseteq {f.source[1] : f \in Uevents'}
      BY <2>7 DEF IInv, TypeRestored
    <3>2. stack' # stack => o \in {f.source[1] : f \in Uevents'}
      BY <2>4, <2>7 DEF Uevents
    <3> QED BY <2>8, <3>1, <3>2 DEF TypeRestored
  <2> QED BY <2>7, <2>9, <2>10 DEF IInv
<1> QED BY <1>2, <1>3 DEF UsbDeviceAdded

LEMMA DeviceErrKeeps ==
  ASSUME IInv, NEW o \in Objects, DeviceErr(o)
  PROVE  IInv'
<1> DEFINE f == [source |-> <<o, "err">>, what |-> "error", pilot |-> "none"]
<1>1. f \in Frame /\ f.source[2] = "err"
  BY DEF Frame, Sources
<1>2. /\ UNCHANGED <<paused, listed, freed, asSerial, watches, pressed, muted>>
      /\ Push(f)
      /\ alive
      /\ alive' \in BOOLEAN
  BY TouchAlive DEF DeviceErr, Dispatchable
<1> HIDE DEF f
<1>3. /\ stack' \in Seq(Frame)
      /\ Len(stack') <= MaxDepth
      /\ ErrorFrames'
      /\ Uevents \subseteq Uevents'
  BY <1>1, <1>2, PushKeeps
<1>4. TypeOK'
  BY <1>2, <1>3 DEF IInv, TypeOK
<1>5. WatchesOwned' /\ DeafForAReason'
  BY <1>2 DEF IInv, WatchesOwned, DeafForAReason
<1>6. TypeRestored'
  BY <1>2, <1>3 DEF IInv, TypeRestored
<1> QED BY <1>3, <1>4, <1>5, <1>6 DEF IInv

(* The device is freed together with both of its watches; the frame closed  *)
(* is that of no uevent.                                                    *)
LEMMA AnswerErrorKeeps ==
  ASSUME IInv, AnswerError
  PROVE  IInv'
<1>1. PICK o : o = Top.source[1]
  OBVIOUS
<1>2. /\ UNCHANGED <<paused, listed, asSerial, pressed, muted>>
      /\ alive
      /\ alive' \in BOOLEAN
      /\ Top.what = "error"
      /\ (o \in listed /\ FreeDevice(o)) \/ UNCHANGED <<freed, watches>>
  BY <1>1, TouchAlive DEF AnswerError
<1>3. /\ stack' \in Seq(Frame)
      /\ Len(stack') <= MaxDepth
      /\ Top \in Waiting
      /\ Waiting' \subseteq Waiting
      /\ Waiting \subseteq Waiting' \cup {Top}
  BY PopWaiting DEF IInv, AnswerError
<1>4. ErrorFrames'
  BY <1>3 DEF IInv, ErrorFrames
<1>5. Uevents \subseteq Uevents'
  BY <1>2, <1>3 DEF IInv, ErrorFrames, Uevents
<1>6. TypeRestored'
  BY <1>2, <1>5 DEF IInv, TypeRestored
<1>7. TypeOK'
  BY <1>2, <1>3 DEF IInv, TypeOK, FreeDevice
<1>8. WatchesOwned'
  <2>1. CASE o \in listed /\ FreeDevice(o)
    <3>1. SUFFICES ASSUME NEW src \in watches \ Watched(o)
                   PROVE  src \in SourcesOf((listed \ freed) \ {o})
      BY <1>2, <2>1 DEF WatchesOwned, FreeDevice, SourcesOf
    <3> QED BY SourcesApart DEF IInv, WatchesOwned
  <2>2. CASE UNCHANGED <<freed, watches>>
    BY <1>2, <2>2 DEF IInv, WatchesOwned
  <2> QED BY <1>2, <2>1, <2>2
<1>9. DeafForAReason'
  BY <1>2 DEF IInv, DeafForAReason, FreeDevice, Watched
<1> QED BY <1>4, <1>6, <1>7, <1>8, <1>9 DEF IInv

LEMMA AnswerSyncKeeps ==
  ASSUME IInv, AnswerSync
  PROVE  IInv'
<1>1. PICK o : o = Top.source[1]
  OBVIOUS
<1>2. /\ UNCHANGED <<paused, listed, freed, pressed>>
      /\ alive
      /\ alive' \in BOOLEAN
      /\ \/ (watches' = watches \ {Top.source} /\ muted' = muted \cup {o})
         \/ UNCHANGED <<watches, muted>>
      /\ asSerial' = IF Top.source[2] = "uevent" THEN asSerial \ {o} ELSE asSerial
  BY <1>1, TouchAlive DEF AnswerSync
<1>3. /\ stack' \in Seq(Frame)
      /\ Len(stack') <= MaxDepth
      /\ Top \in Frame
      /\ Top \in Waiting
      /\ Waiting' \subseteq Waiting
      /\ Waiting \subseteq Waiting' \cup {Top}
  BY PopWaiting DEF IInv, AnswerSync
<1>4. o \in Objects
  BY <1>1, <1>3 DEF Frame, Sources
<1>5. ErrorFrames'
  BY <1>3 DEF IInv, ErrorFrames
<1>6. TypeRestored'
  <2>1. SUFFICES ASSUME NEW p \in asSerial'
                 PROVE  p \in {f.source[1] : f \in Uevents'}
    BY DEF TypeRestored
  <2>2. PICK f \in Uevents : p = f.source[1]
    BY <1>2, <2>1 DEF IInv, TypeRestored
  <2>3. f # Top
    BY <1>1, <1>2, <2>1, <2>2 DEF Uevents
  <2>4. f \in Uevents'
    BY <1>3, <2>2, <2>3 DEF Uevents
  <2> QED BY <2>2, <2>4
<1>7. TypeOK'
  <2>1. asSerial' \subseteq asSerial /\ watches' \subseteq watches
    BY <1>2
  <2>2. muted' \subseteq muted \cup {o}
    BY <1>2
  <2> QED BY <1>2, <1>3, <1>4, <2>1, <2>2 DEF IInv, TypeOK
<1>8. WatchesOwned'
  BY <1>2 DEF IInv, WatchesOwned
<1>9. DeafForAReason'
  <2>1. SUFFICES ASSUME NEW p \in listed \ (freed \cup muted'), TypeOf[p[1]] # "usb"
                 PROVE  Watched(p) \subseteq watches'
    BY <1>2 DEF DeafForAReason
  <2>2. Watched(p) \subseteq watches
    BY <1>2, <2>1 DEF IInv, DeafForAReason
  <2>3. watches' = watches \/ (watches' = watches \ {Top.source} /\ p # Top.source[1])
    BY <1>1, <1>2, <2>1
  <2> QED BY <2>2, <2>3 DEF Watched
<1> QED BY <1>5, <1>6, <1>7, <1>8, <1>9 DEF IInv

LEMMA NextKeeps == IInv /\ [Next]_vars => IInv'
<1> SUFFICES ASSUME IInv, [Next]_vars PROVE IInv'
  OBVIOUS
<1>1. CASE Start
  BY <1>1, StartKeeps
<1>2. CASE RereadConfig
  BY <1>2, RereadConfigKeeps
<1>3. CASE \E onOff \in BOOLEAN : Pause(onOff)
  BY <1>3, PauseKeeps
<1>4. CASE \E o \in Objects : DeviceIn(o)
  BY <1>4, DeviceInKeeps
<1>5. CASE \E o \in Objects : DeviceErr(o)
  BY <1>5, DeviceErrKeeps
<1>6. CASE \E d \in Devices, visorNet \in BOOLEAN : UsbDeviceAdded(d, visorNet)
  BY <1>6, UsbDeviceAddedKeeps
<1>7. CASE Answer
  BY <1>7, AnswerErrorKeeps, AnswerSyncKeeps DEF Answer
<1>8. CASE \E d \in Devices : Press(d)
  BY <1>8, PressKeeps
<1>9. CASE UNCHANGED vars
  <2>1. TypeRestored' /\ ErrorFrames'
    BY <1>9, StackSame DEF vars
  <2>2. TypeOK'
    BY <1>9 DEF IInv, TypeOK, vars
  <2>3. WatchesOwned' /\ DeafForAReason'
    BY <1>9 DEF IInv, WatchesOwned, DeafForAReason, vars
  <2> QED BY <2>1, <2>2, <2>3 DEF IInv
<1> QED BY <1>1, <1>2, <1>3, <1>4, <1>5, <1>6, <1>7, <1>8, <1>9 DEF Next

-----------------------------------------------------------------------------

(* The inductive invariant holds in every state gpilotd can reach.          *)
THEOREM Invariance == Spec => []IInv
<1> QED BY InitHolds, NextKeeps, PTL DEF Spec

(* Type correctness: the variables keep their types, and there are never    *)
(* more dialogs than the bound.                                             *)
THEOREM TypeCorrect == Spec => []TypeOK
<1>1. IInv => TypeOK
  BY DEF IInv
<1> QED BY <1>1, Invariance, PTL

(* No source outlives its device, in whatever dialog device_err frees it, or*)
(* gpilot_daemon_reread_config all of them (WatchesLive).                   *)
THEOREM NoWatchOutlives == Spec => []WatchesLive
<1>1. IInv => WatchesLive
  BY SourceOfObject DEF IInv, WatchesOwned, WatchesLive
<1> QED BY <1>1, Invariance, PTL

(* A device gpilotd has in its list and has not freed is deaf only because  *)
(* it was paused or could not be bound (DeafForAReason).                    *)
THEOREM DeafnessHasReason == Spec => []DeafForAReason
<1>1. IInv => DeafForAReason
  BY DEF IInv
<1> QED BY <1>1, Invariance, PTL

(* usb_device_added leaves no USB device with the type of a serial one      *)
(* (TypeRestored).                                                          *)
THEOREM TypeIsRestored == Spec => []TypeRestored
<1>1. IInv => TypeRestored
  BY DEF IInv
<1> QED BY <1>1, Invariance, PTL

-----------------------------------------------------------------------------

(* What each handler does while gpilotd is paused.                          *)
LEMMA PausedStep ==
  ASSUME IInv, [Next]_vars, paused
  PROVE  /\ \A d \in pressed \ pressed' : TypeOf[d] = "usb"
         /\ Len(stack') > Len(stack) => stack'[1].what = "error"
<1>1. Len(stack) \in Nat /\ stack \in Seq(Frame)
  BY DEF IInv, TypeOK
<1>2. CASE Start
  <2>1. UNCHANGED pressed /\ stack' = <<>>
    BY <1>2 DEF Start
  <2>2. Len(stack') = 0
    BY <2>1
  <2> QED BY <1>1, <2>1, <2>2
<1>3. CASE RereadConfig
  <2>1. UNCHANGED pressed
    BY <1>3 DEF RereadConfig
  <2>2. DOMAIN stack' = DOMAIN stack
    BY <1>3 DEF RereadConfig
  <2>3. Len(stack') = Len(stack)
    <3>1. PICK mute : stack' = [i \in 1 .. Len(stack) |-> mute[i]]
      <4> DEFINE m == [i \in DOMAIN stack |->
                         IF stack[i].pilot = "live" THEN [stack[i] EXCEPT !.pilot = "freed"]
                         ELSE stack[i]]
      <4>1. stack' = [i \in 1 .. Len(stack) |-> m[i]]
        BY <1>1, <1>3 DEF RereadConfig
      <4> QED BY <4>1
    <3> QED BY <1>1, <3>1
  <2> QED BY <1>1, <2>1, <2>3
<1>4. CASE \E onOff \in BOOLEAN : Pause(onOff)
  BY <1>1, <1>4 DEF Pause
<1>5. CASE \E o \in Objects : DeviceIn(o)
  BY <1>1, <1>5 DEF DeviceIn
<1>6. CASE \E o \in Objects : DeviceErr(o)
  <2>1. PICK o \in Objects : DeviceErr(o)
    BY <1>6
  <2>2. UNCHANGED pressed
    BY <2>1 DEF DeviceErr
  <2>3. stack' = <<[source |-> <<o, "err">>, what |-> "error", pilot |-> "none"]>> \o stack
    BY <2>1 DEF DeviceErr, Push
  <2>4. [source |-> <<o, "err">>, what |-> "error", pilot |-> "none"] \in Frame
    BY DEF Frame, Sources
  <2>5. stack'[1].what = "error"
    BY <1>1, <2>3, <2>4
  <2> QED BY <2>2, <2>5
<1>7. CASE \E d \in Devices, visorNet \in BOOLEAN : UsbDeviceAdded(d, visorNet)
  BY <1>1, <1>7 DEF UsbDeviceAdded
<1>8. CASE Answer
  <2>1. stack # <<>> /\ Pop /\ UNCHANGED pressed
    BY <1>8 DEF Answer, AnswerError, AnswerSync
  <2>2. Len(stack') = Len(stack) - 1
    BY <2>1, PopWaiting DEF IInv
  <2> QED BY <1>1, <2>1, <2>2
<1>9. CASE \E d \in Devices : Press(d)
  BY <1>1, <1>9 DEF Press
<1>10. CASE UNCHANGED vars
  BY <1>1, <1>10 DEF vars
<1> QED BY <1>2, <1>3, <1>4, <1>5, <1>6, <1>7, <1>8, <1>9, <1>10 DEF Next

(* A paused gpilotd synchronizes nothing: no handler consumes a HotSync     *)
(* (but for USB events) or opens a dialog other than that of device_err     *)
(* (PausedIsQuiet).                                                         *)
THEOREM PausedQuiet == Spec => PausedIsQuiet
<1>1. IInv /\ [Next]_vars =>
        [paused => /\ \A d \in pressed \ pressed' : TypeOf[d] = "usb"
                   /\ Len(stack') > Len(stack) => stack'[1].what = "error"]_vars
  BY PausedStep
<1> QED BY <1>1, Invariance, PTL DEF Spec, PausedIsQuiet
=============================================================================
