------------------------------ MODULE Droidpro ------------------------------
(***************************************************************************)
(* The application: the HID client of HidLink, the push session in the     *)
(* place of the proxy's looper, timer and device, and MainActivity with    *)
(* its two fragments, joined by the event bus.                             *)
(*                                                                         *)
(* A connection event is queued for the main thread by the bus, an output  *)
(* report by the looper: two queues with no order between them.  The       *)
(* activity is on the bus from onResume to onPause only, and an event that *)
(* is posted or still queued while it is not is lost.  A fragment is       *)
(* switched by a transaction that runs later.                              *)
(***************************************************************************)
EXTENDS HidLink, PushSession, Sequences

CONSTANTS
  EventCap,    \* bound on the connection events queued
  OutputCap    \* bound on the output reports queued

ASSUME CapsAssumption == EventCap \in Nat /\ OutputCap \in Nat

VARIABLES
  events,     \* the bus's queue for the main thread
  outputs,    \* number of output reports in the looper's queue
  screen,     \* the fragment that is added: "splash", "gamepad"
  pending,    \* the fragment that transactions still to run will add, or "none"
  astray      \* history: ways the activity has lost track of the link

appVars == <<events, outputs, screen, pending, astray>>
droidVars == <<hidVars, sessionVars, appVars>>

\* "missed": a connection event was lost, and none has been handled since.
\* "skipped": the last switch was left out for a fragment that a transaction
\*   still to run then took off the screen.
\* "late": the push was armed without a console or behind the activity's back.
Hazards == {"missed", "skipped", "late"}

DroidInit ==
  /\ HidInit
  /\ SessionInit
  /\ events = <<>>
  /\ outputs = 0
  /\ screen = "splash"
  /\ pending = "none"
  /\ astray = {}

-----------------------------------------------------------------------------
(* The bus: what pool threads post.                                        *)

OnBus == phase = "resumed"

\* Faulty variant: the bus hands out the newest event first.
QueuedFirst(what) == <<what>> \o events

Queued(what) == Append(events, what)

Posted(what) ==
  /\ IF OnBus
       THEN /\ Len(events) < EventCap
            /\ events' = Queued(what)
            /\ UNCHANGED astray
       ELSE /\ astray' = astray \cup {"missed"}
            /\ UNCHANGED events
  /\ UNCHANGED <<screen, pending>>

PostConnection(t) ==
  /\ pool[t].what \in Connections
  /\ PoolPost(t)
  /\ Posted(pool[t].what)
  /\ UNCHANGED <<sessionVars, outputs>>

\* The proxy stays on the bus until it is released.
PostOutput(t) ==
  /\ pool[t].what = "DATA"
  /\ PoolPost(t)
  /\ IF phase \in {"paused", "resumed"}
       THEN outputs < OutputCap /\ outputs' = outputs + 1
       ELSE UNCHANGED outputs
  /\ UNCHANGED <<sessionVars, events, screen, pending, astray>>

-----------------------------------------------------------------------------
(* The main thread: messages.                                              *)

\* Faulty variants of SwitchTo: the fragment is switched in one direction only.
SwitchToGamepad(f) ==
  /\ pending' = IF f = "splash" \/ screen = f THEN pending ELSE f
  /\ UNCHANGED screen

SwitchToSplash(f) ==
  /\ pending' = IF f = "gamepad" \/ screen = f THEN pending ELSE f
  /\ UNCHANGED screen

\* switchToGamepad, switchToSplash: nothing if the fragment is added already,
\* which does not look at transactions that have not run.
SwitchTo(f) ==
  /\ pending' = IF screen = f THEN pending ELSE f
  /\ UNCHANGED screen

Skipped(f) ==
  IF screen = f /\ pending # "none" THEN {"skipped"} ELSE {}

Handled(what) ==
  /\ OnBus
  /\ events # <<>> /\ Head(events) = what
  /\ events' = Tail(events)

ShowGamepad ==
  /\ Handled("CONNECTED")
  /\ SwitchTo("gamepad")
  /\ astray' = (astray \ {"missed", "skipped"}) \cup Skipped("gamepad")

HandleConnected == ShowGamepad /\ UNCHANGED <<hidVars, sessionVars, outputs>>

\* Faulty variant of StopPush: the timer keeps running.
StopPushNot == UNCHANGED sessionVars

\* timer.stopTimer()
StopPush == Stop

\* Whatever console the client has by now is disconnected.
ShowSplash ==
  /\ Handled("DISCONNECTED")
  /\ SwitchTo("splash")
  /\ astray' = (astray \ {"missed", "skipped", "late"}) \cup Skipped("splash")

HandleDisconnected == ShowSplash /\ Disconnect /\ StopPush /\ UNCHANGED outputs

\* MSG_OUTPUT.
NoteLate ==
  /\ astray' = IF armed' /\ (SendTarget = None \/ phase # "resumed")
                 THEN astray \cup {"late"} ELSE astray
  /\ UNCHANGED <<events, screen, pending>>

HandleOutput ==
  /\ outputs > 0
  /\ outputs' = outputs - 1
  /\ Answer
  /\ NoteLate
  /\ UNCHANGED hidVars

\* The timer fires, and MSG_INPUT.
TimerStep == Fire /\ UNCHANGED <<hidVars, appVars>>

HandleInput ==
  /\ PushLarge \/ Lapse \/ PushStandard
  /\ UNCHANGED <<hidVars, appVars>>

\* Faulty variant of Commit: it runs without a transaction.
CommitUnguarded ==
  /\ screen' = pending
  /\ pending' = "none"
  /\ UNCHANGED <<events, astray>>

\* The transactions run, all of them.
Commit ==
  /\ pending # "none"
  /\ screen' = pending
  /\ pending' = "none"
  /\ UNCHANGED <<events, astray>>

ExecCommits == Commit /\ UNCHANGED <<hidVars, sessionVars, outputs>>

-----------------------------------------------------------------------------
(* The main thread: life cycle and user.                                   *)

\* onCreate: init; the splash screen is added before the first onResume.
OnCreate == Register /\ Rest /\ UNCHANGED appVars

OnResume == Resume /\ UNCHANGED <<sessionVars, appVars>>

\* onPause: off the bus first, then pause; events still queued are lost.
LeaveBus ==
  /\ events' = <<>>
  /\ astray' = (IF events = <<>> THEN astray ELSE astray \cup {"missed"}) \ {"late"}
  /\ UNCHANGED <<screen, pending>>

OnPause == Pause /\ LeaveBus /\ StopPush /\ UNCHANGED outputs

OnDestroy == Unregister /\ Rest /\ UNCHANGED appVars

\* A tap on the splash screen posts REQUEST, which is handled at once.
RequestConnect ==
  /\ screen = "splash"
  /\ Connect
  /\ UNCHANGED <<sessionVars, appVars>>

\* The logo of the splash screen posts an output report of its own.
TapLogo ==
  /\ screen = "splash" /\ phase = "resumed"
  /\ outputs < OutputCap
  /\ outputs' = outputs + 1
  /\ UNCHANGED <<hidVars, sessionVars, events, screen, pending, astray>>

-----------------------------------------------------------------------------

Looper ==
  HandleConnected \/ HandleDisconnected \/ HandleOutput \/ HandleInput
  \/ ExecCommits

PoolStep(t) ==
  \/ PoolWrite(t) /\ UNCHANGED <<sessionVars, appVars>>
  \/ PostConnection(t)
  \/ PostOutput(t)

DroidNext ==
  \/ Stack /\ UNCHANGED <<sessionVars, appVars>>
  \/ (OnServiceConnected \/ OnServiceDisconnected)
       /\ UNCHANGED <<sessionVars, appVars>>
  \/ \E t \in Threads : PoolStep(t)
  \/ Looper
  \/ TimerStep
  \/ OnCreate \/ OnResume \/ OnPause \/ OnDestroy \/ RequestConnect \/ TapLogo

DroidSpec == DroidInit /\ [][DroidNext]_droidVars

\* Threads of the platform: a callback runs to its end, and the main looper
\* takes its messages in order, so that each kind gets its turn.
DroidFairness ==
  /\ \A t \in Threads : WF_droidVars(PoolStep(t))
  /\ WF_droidVars(HandleConnected \/ HandleDisconnected)
  /\ WF_droidVars(HandleOutput)
  /\ WF_droidVars(ExecCommits)

DroidFairSpec == DroidSpec /\ DroidFairness

-----------------------------------------------------------------------------
(* Properties.                                                             *)

\* Every variable keeps its type.
DroidTypeOK ==
  /\ HidTypeOK
  /\ events \in Seq(Connections)
  /\ outputs \in 0..OutputCap
  /\ nfc \in BOOLEAN /\ armed \in BOOLEAN
  /\ owed \in Nat /\ sent \in {"none", "30", "31"}
  /\ screen \in {"splash", "gamepad"}
  /\ pending \in {"none", "splash", "gamepad"}
  /\ astray \subseteq Hazards

\* Nothing about the link is on its way to the activity, which is in front.
Settled ==
  /\ phase = "resumed"
  /\ Clear
  /\ events = <<>>
  /\ pending = "none"

\* Whenever things settle the game pad is on the screen exactly while there is
\* a link, unless a connection event was lost or a switch was left out, and even
\* then from the next connection event on.
ScreenFollowsLink ==
  Settled /\ astray \cap {"missed", "skipped"} = {}
    => (screen = "gamepad" <=> link # Down)

\* Whenever things settle the timer does not push into the void, unless it was
\* armed late or the disconnection event was lost.
TimerFollowsLink ==
  Settled /\ armed /\ astray \cap {"missed", "late"} = {} => link # Down

\* Connection callbacks whose event the activity has not handled yet.
Unhandled(what) ==
  \/ \E t \in Announcing : pool[t].what = what
  \/ \E i \in DOMAIN events : events[i] = what

\* A disconnection event that is handled late ends the link of a console that
\* has connected in the meantime only as long as the activity has not been told
\* of it: a link whose game pad was shown is never ended by an older event.
ShownLinkSurvives ==
  [][HandleDisconnected /\ link'.state # link.state /\ ~mixed
       => Unhandled("CONNECTED")]_droidVars

\* A link that lasts while the activity stays in front brings up the game pad,
\* unless something has gone astray.
ScreenCatchesUp ==
  (link.state = "up" /\ phase = "resumed")
    ~> (screen = "gamepad" \/ link.state # "up" \/ phase # "resumed"
          \/ mixed \/ astray \cap {"missed", "skipped"} # {})

\* After the link has gone the timer is stopped, unless a console connects
\* again or something has gone astray.
PushDiesWithLink ==
  (link = Down /\ phase = "resumed")
    ~> (~armed \/ link # Down \/ phase # "resumed" \/ mixed \/ astray # {})
=============================================================================
