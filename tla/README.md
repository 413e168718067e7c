# A verification project for Bluetooth-Joycon

The repository holds an Android application that makes a phone look like a
Nintendo Switch Pro Controller: a console connects to it over Bluetooth HID,
configures it with output reports, and is sent input reports. This project
models the application in TLA+, checks the models with TLC and proves the
theorems that matter most with TLAPS.

All paths below are relative to `src/Android/app/src/main/`.

## 1. The system

| component | source | state | operations |
|---|---|---|---|
| output report handlers | `jni/joycon_report.c` | none of their own; they change `jc_status_t` and the report buffer | one per report id and sub-command |
| native device | `jni/com_mumumusuc_joycon_Joycon.c`, `jni/joycon.c` | static `jcdev`: status, last status, report timer, flash descriptor; the input and output report buffers shared with Java | `nativeInit`, `nativeFree`, `nativeReplayOutputReport`, `nativeMakeupInputReport` |
| Joycon class | `LibJoycon-release.aar` (byte code only) | the shared buffer, rings of IMU samples, the player/vibration/IMU state it last passed on | setters for buttons, sticks and IMU, `onNativeStatusChanged` |
| proxy | `JoyconProxy.kt` | the looper's messages, `JcTimer`, `standardInputReportId` | `init`, `release`, `resume`, `pause`, `connect`, `disconnect`, event subscribers, two message handlers |
| HID client | `BtHidClient.kt` | `remoteDevice`, `hidDevice`, the adapter's scan mode | profile and HID callbacks, `register`, `connect`, `pause`, `sendInputReport` ... |
| activity and fragments | `MainActivity.kt`, `fragment/*.kt` | the shown fragment, life cycle | life cycle callbacks, connection events, touches |
| encoders | `joycon_report.c`, `jni/include/crc8.h`, `fragment/Gamepad.kt` | none | packing of buttons, sticks, axes; CRC |

How they interact. The console's output report arrives in `onInterruptData` on
a thread of a cached pool, is posted on the event bus, and the proxy's
subscriber turns it into a `MSG_OUTPUT` for the main looper. The looper copies it
to the shared buffer and calls `nativeReplayOutputReport`: the handler changes
the status, `check_jc_status` compares the status with its last copy and, when
they differ, calls back into Java (`onStartPush`, `onFetchNfcIr`,
`onPlayerChange`, ...), and the reply is completed and sent. The two push
callbacks restart a `java.util.Timer`, whose thread posts a `MSG_INPUT` every
16 ms; the looper answers it with a fresh input report. `onPause` and a
DISCONNECTED event stop the timer.

What is hard about it:

* the notification handshake: `start_push` is a request, the other fields are
  states, and one compare-and-copy serves both;
* one report buffer for acknowledgements and pushes, cleared in part;
* timer threads that read an unlocked field and post after they are cancelled;
* callbacks on an unordered thread pool, connection events that arrive late or
  while nobody listens, messages that outlive pause and release;
* a static native device under activities that may overlap.

`PROJECT.json` lists each hazard at its line with the properties that cover it,
or why none does.

## 2. The modules

    Crc8        JoyconInput       JoyconReport         HidLink   PushSession
                                       |                  |        |    ^
                                  JoyconDevice            +---+----+    : implements
                                       |                      |         :
                                  JoyconProxy ................|.........:
                                       |                   Droidpro
                                       |                      ^
                                 DroidproSystem ..............:  implements

* `JoyconReport` - constant operators, no state. An output report is a record of
  its id, sub-command, first argument and player lights; an operator per handler
  gives the new status (`SetInputMode`, `SetPlayerLights`, ...), `ReplayStatus`
  is the dispatcher, `ReplyId`, `ReplyBody` and `Overrun` say what the reply
  carries and what the handler writes behind byte 47, where nothing is cleared. A
  payload is the tag of the handler that wrote it.
* `JoyconDevice` - the native half. `status`, `last`, `timer`, `input`, `spi`
  are the fields of `jcdev` and the input buffer by region: id, bytes 13..47, byte
  48, and of a large report byte 49, bytes 50..56, bytes 57..360 and the check
  byte. The regions are those that the two `memset`s, flash reads of any length
  and the two MCU headers (one of 8 bytes, one of a single byte over the other)
  write or leave alone. `told` is what Java
  last heard; `call` is a history variable, the last JNI call. One action per
  JNI entry point: a native call runs to its end on the main looper.
* `JoyconProxy` - extends the device with the looper's queue, the place `pc` in
  the message being handled (the native call's two callbacks are steps of their
  own, because timer threads run between them), `JcTimer` (`handle` is what it
  refers to, `live` what can really fire), the timer threads (`run`: idle,
  started, or the id it has read) and the activity's phase. `mode` and `unsent`
  are history variables: the last input mode acknowledged since pushing stopped,
  and the parts of the inputs (buttons and sticks; sensors) whose present state no
  report has shown. A button may go back to what was shown before; `Carried` says
  what a report shows: sensors only with the IMU enabled and in no
  acknowledgement. Its definitions
  of the activity are the order of the life cycle calls and of the DISCONNECTED
  event, nothing else.
* `PushSession` - what the console is promised of the reports it did not ask
  for one by one: armed or not, the large reports still owed, none before NFC/IR
  is on. `JoyconProxy` implements it (`Session`, an `INSTANCE ... WITH`): the
  mapping counts a native call that is about to arm the timer as having done so,
  and owes a report for each timer task under way and each large message queued.
* `HidLink` - `BtHidClient` with the Bluetooth stack as its environment. `pool`
  is what each thread of the cached pool runs: a connection callback writes
  `remoteDevice` in one step and posts its event in a second one, and any two
  of them interleave. The service may die and be bound again, the stack drops
  the registration of an application in the background, a link closes some time
  after it was asked to. `mixed` is a history variable: connection callbacks
  overlapped, or one was never made, and none has come alone since.
* `Droidpro` - extends `HidLink` and `PushSession` with `MainActivity` and its
  two fragments. `events` is the event bus's queue for the main thread,
  `outputs` the looper's output reports (two queues with no order between them),
  `screen` the fragment that is added and `pending` the one a transaction still
  has to add. `astray` records the ways the activity can lose track: an event
  missed while it is off the bus, a switch skipped because `isAdded` looks past
  a transaction still to run, the push armed with no console to push to. What
  the activity does itself is in operators of its own (`Posted`, `ShowGamepad`,
  `ShowSplash`, `Commit`, `LeaveBus`), apart from what it calls.
* `DroidproSystem` - the whole program: extends `JoyconProxy`, and takes the HID
  client and the activity from `Droidpro` as the instance `App`. Where `Droidpro`
  answers an output report in one step, the main thread is inside the message
  for several here (`pc`); the stack, the pool and the timer threads move between
  them, and the activity, the profile service and the transactions wait for the
  end. `App` maps the push session to the proxy as `Session` does, and counts as
  `Outputs` the output reports among the looper's messages.
* `JoyconInput` - the player's side of a report: touches (with ACTION_CANCEL),
  sticks, sensor samples, the setters of the Joycon class, `jc_input_t`, and the
  bytes `update_buttons`, `update_sticks` and `update_axes` make of it. The
  `Shown...` operators are the console's side: they decode a report.
* `Crc8` - the table, its generator and the loop of `crc8`, against polynomial
  division on sets of exponents. A polynomial over the two-element field is the
  set of its exponents, a byte the set of its bits, so that exclusive or is the
  symmetric difference of two sets; `quotient` is a history variable, the
  division as far as it has come.
* `JoyconDeviceProofs`, `JoyconProxyProofs`, `PushSessionProofs`,
  `HidLinkProofs`, `DroidproProofs`, `DroidproSystemProofs`, `JoyconInputProofs`,
  `Crc8Proofs` - the theorems.
* `MCJoyconDevice`, `MCJoyconProxy`, `MCDroidpro`, `MCDroidproSystem`,
  `MCJoyconInput`, `MCCrc8` - the instances TLC checks.

The definitions described as faulty variants are plausible bugs: each stands in
for one definition to show that a property would notice it. The specifications
do not use them.

Modelled as external, from how the code uses them: `java.util.Timer` (a thread
per timer, a cancel does not stop a run that has begun), the cached thread pool
(no order), the Bluetooth stack and its profile service, the event bus's main
thread queue (in order, dropped for a subscriber that left), fragment
transactions (run later), and the byte code of the Joycon class
(`onNativeStatusChanged`: start before NFC/IR; the setters; the rings).

## 3. What the runs check

| run | bounds | what it shows |
|---|---|---|
| `device` | 27 output reports, one per class the handlers tell apart; timer of 4, vibration counter of 2 values | every sequence of native calls: no start request is left pending (`NoPendingStart`), Java's view is never out of date (`JavaInformed`), exactly the requesting commands start the push (`StartToldOnce`), no payload leaks into a later standard report, into the first 49 bytes of a large one (`FreshReport`) or over an acknowledgement (`AckNotOverwritten`), the check byte fits what a large report carries behind them (`LargeReportChecked`), MCU headers alternate across the wrap (`McuAlternates`) |
| `proxy` | 4 output reports, 2 timer names, 3 messages queued or about to be | every interleaving of looper, timers, posting threads and life cycle: no timer escapes `stopTimer` (`NoLeakedTimer`), the pushed id follows the native NFC switch (`PushIdTracksNfc`), acknowledged standard mode is armed (`StandardModeArmed`), and all of it is a push session (`ImplementsPushSession`) |
| `proxy_live` | NFC/IR mode and the enabling of the IMU, otherwise as `proxy` | every output report is replied to (`OutputAnswered`), an armed timer pushes until it is stopped or replaced (`PushKeepsComing`), the console is shown the present state of buttons and sticks, and of the sensors once it has enabled them (`InputReachesConsole`), after the last stop the large pushes die out (`StopIsEffective`) |
| `droidpro` | 2 consoles, 2 pool threads, 2 events, 1 output report and 1 owed report queued | the application in front is registered in whatever order service, activity and stack move (`RegisteredInFront`), without overlapping callbacks the client's console is the link's (`RemoteAgrees`), a pause ends the link and hides the adapter (`PauseReleasesConsole`); once settled the screen shows the link (`ScreenFollowsLink`) and the timer does not push without one (`TimerFollowsLink`); a late DISCONNECTED event ends no link whose game pad was shown (`ShownLinkSurvives`) |
| `droidpro_live` | 1 console, 2 pool threads, 1 event, 1 output report, nothing owed | a link brings up the game pad (`ScreenCatchesUp`), a lost link stops the timer (`PushDiesWithLink`) |
| `system` | 1 console, 1 pool thread, 1 event; 1 timer name, 2 messages; standard mode and the unknown report of the splash screen's logo | the whole program implements the application (`ImplementsDroidpro`), and once settled without a link no timer is scheduled, referred to or not (`TimersRestWithoutLink`) |
| `joycon_input` | 2 buttons on either side of a byte's end; the middle, the far end and a position of three different nibbles; 3 samples, one beyond 16 bits | the bytes of a report decode to the buttons held or cancelled (`ButtonsReported`), to the sticks modulo 4096 (`SticksReported`) and to the last three samples in ring order (`SamplesReported`) |
| `crc8` | all messages of up to 2 bytes | the table is its generator's (`TableMatchesPolynomial`) and the check byte is the remainder (`CrcIsRemainder`) |
| `device_reply` | as `device` | violation: see finding 1 |
| `proxy_standard`, `proxy_nfc` | as `proxy` | violations: see findings 2 and 3 |
| `proxy_simple` | as `proxy`, simple HID mode only | violation: see finding 4 |

Each passing run has one type invariant (`DeviceTypeOK`, `ProxyTypeOK`,
`DroidTypeOK`, `InputTypeOK`) besides these; the runs
`proxy_live`, `droidpro_live`, `system` and `crc8` have none.

Why the bounds are enough. The timer's parity and its wrap both occur with 4
values; the vibration counter is in no property. Two timer names let a cancelled
timer's task run beside its successor; a name is reused when its task is idle,
which the model cannot tell from a new object. Three messages let an output
report queue behind a push and before another one; `Room` keeps one place for
the timer because the platform's queue has no bound and never holds a timer up.
In `droidpro` two pool threads run a disconnection and the next connection at
once and overtake one another; two consoles let an old callback name the wrong
one; two events hold a disconnection and the next connection before the activity
has seen either, and a thread that is still to post holds the end of that. In
`system` one callback at a time is under way: what the proxy's stages add to
`droidpro` is that it may come between any two of them; with two messages a
push may wait behind an output report or behind another push, but an output
report comes only to an empty queue: that one waits behind a push is checked in
`proxy` and `proxy_live`. In `proxy_live` mode 0x31 arms the timer, and again when
the IMU is enabled; sensors change before and after that. The table has 256 entries and all of them are indexed after one byte; the second
byte shows that the register is carried over. The theorems do not depend on
these bounds.

Deadlock is not checked in the runs whose application may be destroyed with
nothing left to do, and in `crc8`, where a message ends.

What the properties leave open is as telling as what they say. `FreshReport`
ends at byte 48: of a large report, bytes 50 to 56 of the longer MCU header go
out again with every second push, and flash data behind byte 48 with all of
them until they are written over. `InputReachesConsole` speaks of the present
state: a press lifted between two pushes is in no report. A reply or push is
`sent` when it is handed to `sendInputReport`, which drops it without a remote
device. `PushKeepsComing` excepts a timer that is replaced: start requests closer
than one period would keep every timer from firing. `JavaInformed` and
`StartToldOnce` rest on `Garbage` (section 5).
`ScreenFollowsLink` excepts a missed event (the activity leaves the bus before
`jcProxy.pause` disconnects, so the DISCONNECTED event of its own pause is
lost and the game pad stays) and a skipped switch, until the next connection
event. `TimerFollowsLink` excepts the missed event too, and a push armed by
an output report that was handled after the pause or the disconnect. `RemoteAgrees` excepts callbacks
that overlapped, since the pool may run the older one last. `PauseReleasesConsole`
excepts a CONNECTED callback still under way: `pause` then returns early and
leaves the adapter discoverable. `ShownLinkSurvives` lets a late DISCONNECTED
event end a link the activity was not told of yet. `SticksReported` says that a
stick at its far end, 4096, is shown as 0, the opposite end; `ButtonsReported`
that a button whose touch was cancelled stays down; `SamplesReported` that a
sample beyond 16 bits (one g of acceleration is) is shown wrapped. The
repository promises nothing else for these, so they are stated as they are.

Fairness. `proxy_live`: the looper serves its queue (`WF(Looper)`), a timer
task that has begun ends (`WF(Run(t))`) and a scheduled timer fires again
(`WF(TimerFire(t))`). `droidpro_live`: a pool thread runs its callback to the
end, and the main looper, which takes its messages in order, gets to connection
events, output reports and transactions alike. All are threads of the platform
that nothing in the program blocks: there are no locks, and every handler ends.
Nothing is assumed of the console, the stack, the user or the life cycle.

### Findings

1. `Output01AnsweredWith21`. The comment on `report_output_01` says "response
   with input_21" (`jni/joycon_report.c:371`). A rejected sub-command leaves id
   0 in the buffer and the JNI caller sends it. The shortest trace is one
   unsupported sub-command.
2. `StandardModePushes30`. Mode 0x30 is "Standard full mode. Pushes current
   state @60Hz" (`:189`). Mode 0x31 sets `enable_nfc`, which nothing clears: a
   later request for mode 0x30 starts the timer, and `onFetchNfcIr` right after
   it makes it push report 0x31.
3. `NfcModeArmed`. Mode 0x31 is "NFC/IR mode. Pushes large packets @60Hz"
   (`:193`). After a disconnect has stopped the timer, the same request is
   acknowledged but changes nothing, so nothing is notified and nothing pushed.
4. `SimpleHidPushes`. Mode 0x3F is "Simple HID mode. Pushes updates with every
   button press" (`:202`). `onButtonEvent` only writes the shared buffer
   (`JoyconProxy.kt:117`) and the mode arms no timer, so a button pressed in it
   is in no report of its own.

## 4. What is proved

Every invariant, every action property and every refinement the passing runs
check are theorems of their specifications: for every set of commands, every
positive range of the vibration counter, every even range of the report timer (256 in the code), any set of timer names and any queue
bound; for any consoles, pool threads and event bounds; for any of the 24
buttons, any stick position and any integer samples; for messages of any bytes
and any length. The assumptions are the
named `ASSUME`s: the ranges, `Commands \subseteq AllCommands`, finitely many
timers, a target among the consoles, and that `Garbage`, `NoNote`, `NoTimer` and
`None` differ from the values they are told apart from.

* Handshake (`JoyconDeviceProofs`). `JavaInformed` is not inductive: whether a
  change is noticed depends on `last` being a copy of the status, and whether a
  start request is noticed on no request being pending. `Handshake` conjoins
  them; `ReplayHandshake` is the step, split on whether the call notifies.
* Report contents. `Contents` strengthens `FreshReport`, `AckNotOverwritten` and
  `LargeReportChecked` with `McuPhase`, the header as a function of the timer, and
  `CheckFollowsNfc`: while NFC/IR is off, which it never is again (`NfcLatch`), no
  check byte has been written. `MadeUp` says what `jc_makeup_input_report` does to
  each region; `ParityFlips` is the arithmetic of the wrap.
* `ProxyImplementsDevice`: `Spec => DeviceSpec`, so the device's theorems hold
  in the proxy. It is what lets `PushStep` use the handshake on both sides of
  a step.
* `NoLeakedTimer` is inductive given the types. `PushIdTracksNfc` and
  `StandardModeArmed` need `Stage` (what Java was told between two callbacks is
  what the status says), `NfcLatch` (no handler clears the flag: this is also
  why finding 2 exists) and `BeforeCreate`.
* `ProxyImplementsPushSession` (`PushSessionProofs`). Each step of the proxy is
  a step of the session or a stutter, by one lemma per kind of step. It needs
  the counting of what is owed (`LargeTail`, `LargeAppend`, `InFlightMoves`:
  cardinalities of sets of queue places and of threads) and the invariant
  `LargeNeedsNfc`: a large id chosen by `JcTimer`, in the queue or in a thread's
  hands means that NFC/IR is on.
* `HidLinkProofs`. `RegisteredInFront` is inductive as it stands. `RemoteAgrees`
  and `PauseReleasesConsole` follow from `LinkInv`: the types, `LinkNeedsService`,
  and `Told` - while nothing is mixed, either no connection callback is under
  way and the client agrees with the link, or exactly one is and it tells the
  truth.
* `DroidproProofs`. `DroidproImplementsParts` shows that the application
  refines both its parts, so `LinkInv` holds in it. `AppInv` adds `QuietBehind`
  (no events queued behind an activity that is not in front), `EventsTell` (the
  newest queued event tells the state of the link), `ScreenTells` and
  `TimerTells` (with none queued, the screen and the timer do); the step is
  split into what the stack, the pool, the messages and the life cycle do.
* `DroidproSystemProofs`. `SystemImplementsProxy` and `SystemImplementsDroidpro`
  show that the program is both the proxy and the application: whatever was
  proved of either holds in it. The second has one lemma for each kind of step
  (`AloneApp`, `ActivityApp`, `PostOutputApp`, `AnswerApp`, `ProxyApp`), cites
  the step lemmas of `PushSessionProofs` for the session's part and counts the
  output reports with the same lemmas on places of a queue (`PlacesTail`,
  `PlacesAppend`) as the large ones. The theorems of `DroidproProofs` are taken
  over by instantiating them (`Proved`); `SameSpec` says that the two instances
  are one specification. `TimersRestWithoutLinkHolds` then joins
  `TimerFollowsLink`, a statement about the abstract push, with `NoLeakedTimer`,
  a statement about timers, which no single part could say.
* `JoyconInputProofs`. The round trips `StickRoundTrip`, `ShortRoundTrip`,
  `ButtonRoundTrip` and `SampleRoundTrip` are the arithmetic of the packing;
  `Held`, `Stored` and `Rings` are the inductive invariants that tie the
  buffer to what the player did.
* `Crc8Proofs`. `Xor` is associative, commutative and its own inverse, and
  multiplication by x distributes over it, so a turn of the generator's loop
  divides by one more power (`CheckByteIsRemainder`). The inductive invariant is
  the division identity: message = quotient times polynomial + register, with
  the register below the polynomial's degree, which also makes it the only
  remainder there is. `TableIsRight` evaluates the generator for 256 entries,
  row by row.

Only model-checked: the liveness properties, since temporal proofs under fairness
and ENABLED are outside what the prover does.

## 5. What is not modelled

* Two activities in one process over the static `jcdev`, where the old one's
  `nativeFree` closes the new one's flash file: every model has one activity.
* `nativeInit`'s failures (a package without the asset), whose result the
  callers ignore.
* `nativeUpdateButtons`, `-Sticks`, `-IMU`, `-NFC`, `-IR`: no caller in the
  application.
* The CONNECTING and DISCONNECTING callbacks (a PIN, a progress bar), an adapter
  that is off, the restoring of fragments after the process died.
* The player light and the vibration callback: kept by the byte code of the
  Joycon class and shown once.
* Logging (`jni_utils.h`, `Utils.kt`), the Xposed hook, the HID descriptor
  (constant data), `crc8_create_table` (no caller).
* In what is modelled: the fields of the status that never change after
  `jc_init`. `nativeInit` fills
  `last_status` with the bytes of the device from the status pointer on; the
  model uses one value, `Garbage`, that differs from every status in a compared
  field (the comment at `NativeInit` says why the build makes it so). A sample
  of the sensors is an integer: the floating point division before it is not
  modelled.

## 6. Plan

Done, in this order: `JoyconReport`, `JoyconDevice`, `JoyconProxy` and their
theorems; `PushSession` and the refinement; `HidLink`; `Droidpro`, composed of
the two; `JoyconInput`; `Crc8`; `DroidproSystem`, which joins `Droidpro` and
`JoyconProxy`; and the theorems of each. What is left:

1. The liveness of the whole program, now checked for its parts one by one.
2. Two overlapping activities over one static device.
3. The player light from the native status to the fragment.
