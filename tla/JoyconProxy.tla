---------------------------- MODULE JoyconProxy -----------------------------
(***************************************************************************)
(* JoyconProxy.kt on top of the native device: the main looper with its    *)
(* MSG_INPUT and MSG_OUTPUT messages, the JcTimer that pushes input        *)
(* reports, and the calls of MainActivity's life cycle.                    *)
(*                                                                         *)
(* Three kinds of threads run: the main looper (pc says where it is in a   *)
(* message), the java.util.Timer threads (run says where each task is),    *)
(* and the threads that post events.  Only the main looper calls into the  *)
(* device; a timer thread reads standardInputReportId without a lock.      *)
(***************************************************************************)
EXTENDS JoyconDevice, Sequences, FiniteSets

CONSTANTS
  Timers,     \* names for java.util.Timer objects, reused once they are idle
  NoTimer,    \* JcTimer.timer = null
  QueueCap    \* bound on the messages in the looper and on their way to it

ASSUME TimersAssumption == NoTimer \notin Timers /\ IsFiniteSet(Timers)
ASSUME QueueCapAssumption == QueueCap \in Nat

VARIABLES
  queue,    \* the main looper's message queue
  pc,       \* the main looper: "loop", "onStartPush", "onFetchNfcIr", "send"
  handle,   \* JcTimer.timer and .task, set and cleared together
  live,     \* timers that are scheduled and not cancelled
  run,      \* task of a timer: "idle", "started", or the id it has read
  stdId,    \* JcTimer.standardInputReportId
  phase,    \* MainActivity: "new", "paused", "resumed", "destroyed"
  mode,     \* history: last input mode acknowledged since pushing stopped
  unsent    \* history: the parts of the inputs whose state no report has shown

proxyVars == <<queue, pc, handle, live, run, stdId, phase, mode, unsent>>
vars == <<deviceVars, proxyVars>>

-----------------------------------------------------------------------------

InputMsg(id) == [what |-> "INPUT", id |-> id, cmd |-> NoCmd]
OutputMsg(c) == [what |-> "OUTPUT", id |-> "none", cmd |-> c]

Messages ==
  {InputMsg(id) : id \in PushIds} \cup {OutputMsg(c) : c \in Commands}

\* The parts of jc_input_t that a report may carry: buttons and sticks, axes.
Parts == {"pad", "axes"}

Init ==
  /\ DeviceInit
  /\ queue = <<>>
  /\ pc = "loop"
  /\ handle = NoTimer
  /\ live = {}
  /\ run = [t \in Timers |-> "idle"]
  /\ stdId = "30"
  /\ phase = "new"
  /\ mode = "none"
  /\ unsent = Parts

InFlight == {t \in Timers : run[t] # "idle"}

\* A posting thread finds room; the last place is kept for the timer, which
\* no queue of the platform ever holds up.
Room(reserve) == Len(queue) + Cardinality(InFlight) + reserve < QueueCap

Registered == phase \in {"paused", "resumed"}

-----------------------------------------------------------------------------
(* Faulty variants of definitions below: each breaks a property of the last  *)
(* section when it takes the place of the definition it is named after.      *)

\* stopTimer forgets the timer without cancelling it.
StopTimerNoCancel ==
  /\ handle' = NoTimer
  /\ UNCHANGED live

\* startTimer does not stop the timer there is.
CancelledNone == live

\* The task is scheduled once instead of periodically.
TimerFireOnce(t) ==
  /\ t \in live
  /\ run[t] = "idle"
  /\ Room(0)
  /\ run' = [run EXCEPT ![t] = "started"]
  /\ live' = live \ {t}
  /\ UNCHANGED <<deviceVars, queue, pc, handle, stdId, phase, mode, unsent>>

\* The message is sent before the id is read.
RunPostUnread(t) ==
  /\ run[t] # "idle"
  /\ queue' = Append(queue, InputMsg(run[t]))
  /\ run' = [run EXCEPT ![t] = "idle"]
  /\ UNCHANGED <<deviceVars, pc, handle, live, stdId, phase, mode, unsent>>

\* The axes are copied to no report.
CarriedPadOnly(id, st) == IF id \in {"00", "81"} THEN {} ELSE {"pad"}

-----------------------------------------------------------------------------
(* JcTimer.                                                                *)

\* stopTimer: cancel the task and the timer, drop both references.
StopTimer ==
  /\ live' = live \ {handle}
  /\ handle' = NoTimer

\* startTimer: stop the timer there is, schedule a new one.
Cancelled == live \ {handle}

StartTimer ==
  \E t \in Timers :
    /\ run[t] = "idle"
    /\ t \notin Cancelled
    /\ live' = Cancelled \cup {t}
    /\ handle' = t

\* The timer thread finds its task due and not cancelled, and calls run().
\* From here on a cancel comes too late for this execution.
TimerFire(t) ==
  /\ t \in live
  /\ run[t] = "idle"
  /\ Room(0)
  /\ run' = [run EXCEPT ![t] = "started"]
  /\ UNCHANGED <<deviceVars, queue, pc, handle, live, stdId, phase,
                 mode, unsent>>

\* run() reads standardInputReportId ...
RunRead(t) ==
  /\ run[t] = "started"
  /\ run' = [run EXCEPT ![t] = stdId]
  /\ UNCHANGED <<deviceVars, queue, pc, handle, live, stdId, phase,
                 mode, unsent>>

\* ... and sends the message.
RunPost(t) ==
  /\ run[t] \in PushIds
  /\ queue' = Append(queue, InputMsg(run[t]))
  /\ run' = [run EXCEPT ![t] = "idle"]
  /\ UNCHANGED <<deviceVars, pc, handle, live, stdId, phase, mode, unsent>>

-----------------------------------------------------------------------------
(* Events, posted on any thread and enqueued by the subscriber.            *)

\* onInterruptData of the HID host, or the logo of the connection screen.
OnOutputEvent(c) ==
  /\ Registered
  /\ Room(1)
  /\ queue' = Append(queue, OutputMsg(c))
  /\ UNCHANGED <<deviceVars, pc, handle, live, run, stdId, phase,
                 mode, unsent>>

\* The logo of the game pad: a tap, delivered by the looper itself.
OnInputEvent ==
  /\ pc = "loop"
  /\ phase = "resumed"
  /\ Room(1)
  /\ queue' = Append(queue, InputMsg("30"))
  /\ UNCHANGED <<deviceVars, pc, handle, live, run, stdId, phase,
                 mode, unsent>>

\* onButtonEvent, onStickEvent or onSensorChanged, delivered by the looper: the
\* inputs in the shared buffer change and no report is asked for.  Buttons and
\* sticks may go back to what the last report showed; sensors never do.
ChangeInput ==
  /\ pc = "loop"
  /\ phase = "resumed"
  /\ unsent' \in {unsent \cup {"pad"}, unsent \ {"pad"}, unsent \cup {"axes"}}
  /\ UNCHANGED <<deviceVars, queue, pc, handle, live, run, stdId, phase, mode>>

-----------------------------------------------------------------------------
(* Messages of the main looper.                                            *)

\* Every report but the answer to a 0x80 command carries buttons and sticks, and
\* the axes if the console has enabled them and it is no acknowledgement.  What
\* a report of id 0 carries is not counted: it is no report of the protocol.
Carried(id, st) ==
  {p \in Parts : id \notin {"00", "81"} /\ (p = "axes" => Imu(id, st))}

\* MSG_INPUT: setInputBuffer, nativeMakeupInputReport; the report is sent next.
HandleInput ==
  /\ pc = "loop"
  /\ queue # <<>>
  /\ Head(queue).what = "INPUT"
  /\ NativeMakeupInputReport(Head(queue).id)
  /\ queue' = Tail(queue)
  /\ pc' = "send"
  /\ unsent' = unsent \ Carried(input'.id, status')
  /\ UNCHANGED <<handle, live, run, stdId, phase, mode>>

\* Joycon.onNativeStatusChanged calls onStartPush if it was told to start,
\* then onFetchNfcIr if NFC/IR is on.
NfcStage == IF told'.enable_nfc THEN "onFetchNfcIr" ELSE "send"

FirstStage ==
  CASE ~call'.notified -> "send"
    [] call'.notified /\ told'.start_push -> "onStartPush"
    [] call'.notified /\ ~told'.start_push -> NfcStage

\* Faulty variant of HandleOutput: the messages behind this one are removed.
HandleOutputAndClear ==
  /\ pc = "loop"
  /\ queue # <<>>
  /\ Head(queue).what = "OUTPUT"
  /\ NativeReplayOutputReport(Head(queue).cmd)
  /\ queue' = <<>>
  /\ pc' = FirstStage
  /\ UNCHANGED <<handle, live, run, stdId, phase, mode, unsent>>

\* MSG_OUTPUT: setOutputBuffer, nativeReplayOutputReport.  The native call runs
\* the callbacks of the stages below before it fills in the report; they read
\* nothing it writes later, so the device moves first.
HandleOutput ==
  /\ pc = "loop"
  /\ queue # <<>>
  /\ Head(queue).what = "OUTPUT"
  /\ NativeReplayOutputReport(Head(queue).cmd)
  /\ queue' = Tail(queue)
  /\ pc' = FirstStage
  /\ mode' = IF call'.cmd.sub = "03" /\ input'.id = "21"
               THEN call'.cmd.arg ELSE mode
  /\ unsent' = unsent \ Carried(input'.id, status')
  /\ UNCHANGED <<handle, live, run, stdId, phase>>

OnStartPush ==
  /\ pc = "onStartPush"
  /\ stdId' = "30"
  /\ StartTimer
  /\ pc' = IF told.enable_nfc THEN "onFetchNfcIr" ELSE "send"
  /\ UNCHANGED <<deviceVars, queue, run, phase, mode, unsent>>

OnFetchNfcIr ==
  /\ pc = "onFetchNfcIr"
  /\ stdId' = "31"
  /\ StartTimer
  /\ pc' = "send"
  /\ UNCHANGED <<deviceVars, queue, run, phase, mode, unsent>>

\* getInputBuffer, hidClient.sendInputReport: end of the message.
SendInputReport ==
  /\ pc = "send"
  /\ pc' = "loop"
  /\ UNCHANGED <<deviceVars, queue, handle, live, run, stdId, phase,
                 mode, unsent>>

-----------------------------------------------------------------------------
(* Calls of MainActivity, between two messages.                            *)

\* onCreate: init.
Create ==
  /\ pc = "loop"
  /\ phase = "new"
  /\ NativeInit
  /\ phase' = "paused"
  /\ UNCHANGED <<queue, pc, handle, live, run, stdId, mode, unsent>>

\* onResume: the HID client and the sensors, nothing of the proxy's own state.
Resume ==
  /\ pc = "loop"
  /\ phase = "paused"
  /\ phase' = "resumed"
  /\ UNCHANGED <<deviceVars, queue, pc, handle, live, run, stdId,
                 mode, unsent>>

\* onPause.
Pause ==
  /\ pc = "loop"
  /\ phase = "resumed"
  /\ phase' = "paused"
  /\ StopTimer
  /\ mode' = "none"
  /\ UNCHANGED <<deviceVars, queue, pc, run, stdId, unsent>>

\* A DISCONNECTED event; the activity hears of it only while it is resumed.
Disconnect ==
  /\ pc = "loop"
  /\ phase = "resumed"
  /\ StopTimer
  /\ mode' = "none"
  /\ UNCHANGED <<deviceVars, queue, pc, run, stdId, phase, unsent>>

\* onDestroy: unregister, nativeFree.  Queued messages stay queued, and a
\* timer one of them armed after onPause keeps running.
Release ==
  /\ pc = "loop"
  /\ phase = "paused"
  /\ NativeFree
  /\ phase' = "destroyed"
  /\ UNCHANGED <<queue, pc, handle, live, run, stdId, mode, unsent>>

-----------------------------------------------------------------------------

\* What the main looper does by itself.
Looper ==
  HandleInput \/ HandleOutput \/ OnStartPush \/ OnFetchNfcIr \/ SendInputReport

Run(t) == RunRead(t) \/ RunPost(t)

Activity == Create \/ Resume \/ Pause \/ Disconnect \/ Release

Next ==
  \/ Looper
  \/ Activity
  \/ OnInputEvent
  \/ ChangeInput
  \/ \E c \in Commands : OnOutputEvent(c)
  \/ \E t \in Timers : TimerFire(t) \/ Run(t)

Spec == Init /\ [][Next]_vars

\* The looper serves its queue, a started run ends, and a scheduled timer
\* fires again: threads of the platform that nothing in the program blocks.
Fairness ==
  /\ WF_vars(Looper)
  /\ \A t \in Timers : WF_vars(Run(t)) /\ WF_vars(TimerFire(t))

FairSpec == Spec /\ Fairness

-----------------------------------------------------------------------------
(* Properties.                                                             *)

\* The looper is between two callbacks of one native call.
Notifying == pc \in {"onStartPush", "onFetchNfcIr"}

\* Every variable keeps its type.
ProxyTypeOK ==
  /\ DeviceTypeOK
  /\ queue \in Seq(Messages)
  /\ pc \in {"loop", "onStartPush", "onFetchNfcIr", "send"}
  /\ handle \in Timers \cup {NoTimer}
  /\ live \subseteq Timers
  /\ run \in [Timers -> {"idle", "started"} \cup PushIds]
  /\ stdId \in PushIds
  /\ phase \in {"new", "paused", "resumed", "destroyed"}
  /\ mode \in InputModes \cup {"none"}
  /\ unsent \subseteq Parts

\* The only timer that can fire is the one JcTimer still refers to: however
\* starts, restarts and stops interleave with running tasks, none is left
\* behind where no later stopTimer could reach it.
NoLeakedTimer == live = {handle} \ {NoTimer}

\* The id the timer pushes follows the NFC/IR switch of the native status,
\* which no Java code reads: every way of turning it on is notified, and the
\* order of the two callbacks leaves the large report in charge.
PushIdTracksNfc == ~Notifying => (stdId = "31" <=> status.enable_nfc)

\* Once standard mode is acknowledged the timer is armed and stays armed until
\* the application itself stops it, also when the mode is requested again after
\* a disconnect with no other change of status.
StandardModeArmed == ~Notifying /\ mode = "30" => handle # NoTimer

\* joycon_report.c says of mode 0x30 "Standard full mode. Pushes current state
\* @60Hz": while it is the last mode acknowledged, what is pushed is report 30.
StandardModePushes30 == ~Notifying /\ mode = "30" => stdId = "30"

\* joycon_report.c says of mode 0x31 "NFC/IR mode. Pushes large packets @60Hz":
\* while it is the last mode acknowledged and the application is in front, the
\* timer is armed.
NfcModeArmed ==
  ~Notifying /\ phase = "resumed" /\ mode = "31" => handle # NoTimer

InQueue(m) == \E i \in DOMAIN queue : queue[i] = m

\* Every output report that reaches the looper is replied to in the end, also
\* when pauses, disconnects and the release of the proxy come in between.
OutputAnswered ==
  \A c \in Commands :
    InQueue(OutputMsg(c)) ~>
      (pc = "send" /\ call.op = "replay" /\ call.cmd = c)

\* While the timer is armed its pushes are sent, until it is stopped or replaced.
\* (Without the last alternative it is false: start requests that keep coming
\* within one period keep replacing the timer before it fires.)
PushKeepsComing ==
  handle # NoTimer ~>
    \/ pc = "send" /\ call.op = "makeup"
    \/ handle = NoTimer \/ Notifying

\* What the console has not been shown of the parts it has asked for: sensors
\* only once it has enabled them.
Due == {p \in unsent : p = "axes" => status.enable_imu}

\* However often buttons, sticks and sensors change again, the console is shown
\* the state of all it has asked for in the end, as long as the timer is neither
\* stopped nor replaced.  What goes back before a report is made is not seen: a
\* press lifted between two pushes.
InputReachesConsole ==
  (handle # NoTimer /\ Due # {})
    ~> (Due = {} \/ handle = NoTimer \/ Notifying)

\* joycon_report.c says of mode 0x3F "Simple HID mode. Pushes updates with
\* every button press": a button pressed while that mode is the last one
\* acknowledged is in a report in the end, unless it is lifted before.
SimpleHidPushes ==
  (mode = "3F" /\ "pad" \in unsent) ~> (mode # "3F" \/ "pad" \notin unsent)

\* When the timer stays stopped, the large reports (only the timer asks for
\* them) die out: neither a late task nor the queue keeps feeding them.
NoLargePush == ~InQueue(InputMsg("31")) /\ InFlight = {}

StopIsEffective == <>[](handle = NoTimer) => <>[]NoLargePush

-----------------------------------------------------------------------------
(* The proxy implements the push session the console is promised.           *)

\* A native call that is about to arm the timer counts as having done so.
Armed == handle # NoTimer \/ Notifying

LargeQueued == {i \in DOMAIN queue : queue[i].id = "31"}

\* A task under way may still turn out to push a large report.
Owed == Cardinality(InFlight) + Cardinality(LargeQueued)

Sent == IF call.op = "makeup" THEN input.id ELSE "none"

Session == INSTANCE PushSession
             WITH OwedCap <- QueueCap, nfc <- status.enable_nfc,
                  armed <- Armed, owed <- Owed, sent <- Sent

\* Every step of looper, timer threads and activity is a step of the push
\* session or changes nothing the console can tell: no large report before
\* NFC/IR is on, none that is not owed to a firing while the push was armed.
ImplementsPushSession == Session!SessionSpec
=============================================================================
