--------------------------- MODULE DroidproSystem ---------------------------
(***************************************************************************)
(* The whole program: the looper, timer and native device of JoyconProxy   *)
(* under the HID client, the event bus and MainActivity of Droidpro.       *)
(*                                                                         *)
(* Droidpro has a push session in the place of the proxy, in which an      *)
(* output report is answered in one step.  Here the main thread is in the  *)
(* middle of a message for several steps (pc), in which the stack, the     *)
(* pool and the timer threads go on, and every call of the activity or of  *)
(* the profile service waits for its end.                                  *)
(***************************************************************************)
EXTENDS JoyconProxy

CONSTANTS
  Hosts,      \* consoles
  Target,     \* the one that connect looks for by name
  None,       \* a null device
  Threads,    \* threads of the pool
  EventCap    \* bound on the connection events queued

ASSUME SystemHostsAssumption == Target \in Hosts /\ None \notin Hosts
ASSUME EventCapAssumption == EventCap \in Nat

VARIABLES
  service, registered, link, pool, hidDevice, remoteDevice, scan, mixed,
  events, screen, pending, astray

hostVars == <<service, registered, link, pool, hidDevice, remoteDevice, scan, mixed>>
busVars == <<events, screen, pending, astray>>
activityVars == <<hostVars, busVars>>

\* The output reports among the messages of the looper.
OutputQueued == {i \in DOMAIN queue : queue[i].what = "OUTPUT"}

Outputs == Cardinality(OutputQueued)

App == INSTANCE Droidpro
         WITH OutputCap <- QueueCap, OwedCap <- QueueCap,
              nfc <- status.enable_nfc, armed <- Armed, owed <- Owed,
              sent <- Sent, outputs <- Outputs

SystemInit ==
  /\ Init
  /\ App!HidInit
  /\ events = <<>>
  /\ screen = "splash"
  /\ pending = "none"
  /\ astray = {}

-----------------------------------------------------------------------------
(* The stack and the pool, at any time.                                    *)

StackStep == App!Stack /\ UNCHANGED <<vars, busVars>>

WriteRemote(t) == App!PoolWrite(t) /\ UNCHANGED <<vars, busVars>>

PostConnection(t) ==
  /\ pool[t].what \in App!Connections
  /\ App!PoolPost(t)
  /\ App!Posted(pool[t].what)
  /\ UNCHANGED vars

\* onInterruptData: a report for the proxy, if it is still on the bus.
PostOutput(t) ==
  /\ pool[t].what = "DATA"
  /\ App!PoolPost(t)
  /\ IF Registered THEN \E c \in Commands : OnOutputEvent(c) ELSE UNCHANGED vars
  /\ UNCHANGED busVars

-----------------------------------------------------------------------------
(* The main thread: messages.                                              *)

AtLoop == pc = "loop"

ServiceCallback ==
  /\ AtLoop
  /\ App!OnServiceConnected \/ App!OnServiceDisconnected
  /\ UNCHANGED <<vars, busVars>>

HandleConnected ==
  /\ AtLoop
  /\ App!ShowGamepad
  /\ UNCHANGED <<vars, hostVars>>

\* Faulty variant of HandleDisconnected: the client is disconnected, the timer
\* is not stopped.
HandleDisconnectedPushing ==
  /\ AtLoop
  /\ App!ShowSplash
  /\ App!Disconnect
  /\ UNCHANGED vars

\* jcProxy.disconnect, then switchToSplash.
HandleDisconnected ==
  /\ App!ShowSplash
  /\ App!Disconnect
  /\ Disconnect

AnswerOutput == HandleOutput /\ App!NoteLate /\ UNCHANGED hostVars

\* The rest of the proxy's own steps.
ProxyStep ==
  /\ HandleInput \/ OnStartPush \/ OnFetchNfcIr \/ SendInputReport \/ ChangeInput
  /\ UNCHANGED activityVars

TimerThread ==
  /\ \E t \in Timers : TimerFire(t) \/ Run(t)
  /\ UNCHANGED activityVars

CommitFragment ==
  /\ AtLoop
  /\ App!Commit
  /\ UNCHANGED <<vars, hostVars>>

-----------------------------------------------------------------------------
(* The main thread: life cycle and user.                                   *)

OnCreate == Create /\ App!Register /\ UNCHANGED busVars

OnResume == Resume /\ App!Resume /\ UNCHANGED busVars

\* Faulty variant of OnPause: the timer goes on in the background.
OnPausePushing ==
  /\ AtLoop
  /\ App!Pause
  /\ App!LeaveBus
  /\ UNCHANGED <<deviceVars, queue, pc, handle, live, run, stdId, mode, unsent>>

\* Off the bus, then jcProxy.pause: the client, then the timer.
OnPause == App!LeaveBus /\ App!Pause /\ Pause

\* jcProxy.release: off the bus, nativeFree, then the client.
OnDestroy == Release /\ App!Unregister /\ UNCHANGED busVars

RequestConnect ==
  /\ AtLoop
  /\ screen = "splash"
  /\ App!Connect
  /\ UNCHANGED <<vars, busVars>>

\* The logo of the splash screen: an output report the device does not know.
\* The button event that comes with it is a ChangeInput.
TapSplashLogo ==
  /\ AtLoop
  /\ screen = "splash" /\ phase = "resumed"
  /\ \E c \in Commands : c.rid = "other" /\ OnOutputEvent(c)
  /\ UNCHANGED activityVars

\* The logo of the game pad asks for a report.
TapGamepadLogo ==
  /\ screen = "gamepad"
  /\ OnInputEvent
  /\ UNCHANGED activityVars

-----------------------------------------------------------------------------

SystemNext ==
  \/ StackStep
  \/ \E t \in Threads : WriteRemote(t) \/ PostConnection(t) \/ PostOutput(t)
  \/ ServiceCallback \/ HandleConnected \/ HandleDisconnected
  \/ AnswerOutput \/ ProxyStep \/ TimerThread \/ CommitFragment
  \/ OnCreate \/ OnResume \/ OnPause \/ OnDestroy
  \/ RequestConnect \/ TapSplashLogo \/ TapGamepadLogo

systemVars == <<vars, activityVars>>

SystemSpec == SystemInit /\ [][SystemNext]_systemVars

-----------------------------------------------------------------------------
(* Properties.                                                             *)

\* The program is the application that Droidpro describes: that an answer and
\* the start of the timer it asks for are spread over several steps, between
\* which the stack and the threads move, makes no difference to the activity.
ImplementsDroidpro == App!DroidSpec

\* Whenever things settle without a link no timer is scheduled, the one that
\* JcTimer refers to or any other, unless the disconnection event was lost or
\* the push was armed late.
TimersRestWithoutLink ==
  App!Settled /\ link = App!Down /\ astray \cap {"missed", "late"} = {}
    => live = {}
=============================================================================
