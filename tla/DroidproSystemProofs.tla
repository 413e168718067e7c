------------------------ MODULE DroidproSystemProofs ------------------------
(***************************************************************************)
(* Proof that the whole program is both the proxy and the application that *)
(* JoyconProxy and Droidpro describe, so that what is proved of either     *)
(* holds in it, for every set of commands, timers, consoles and threads    *)
(* and every bound on the queues.                                          *)
(***************************************************************************)
EXTENDS DroidproSystem, PushSessionProofs

\* What is proved about the application, with the proxy's push session in it.
Proved == INSTANCE DroidproProofs
            WITH OutputCap <- QueueCap, OwedCap <- QueueCap,
                 nfc <- status.enable_nfc, armed <- Armed, owed <- Owed,
                 sent <- Sent, outputs <- Outputs

-----------------------------------------------------------------------------
(* The proxy in the program.                                               *)

\* The rest of the program calls the proxy only as its own specification
\* allows, so what is proved of the proxy holds in the program.
THEOREM SystemImplementsProxy == SystemSpec => Spec
<1>1. SystemInit => Init
  BY DEF SystemInit
<1>2. ASSUME SystemNext PROVE [Next]_vars
  <2>1. CASE OnCreate \/ OnResume \/ OnPause \/ OnDestroy \/ HandleDisconnected
    BY <2>1 DEF OnCreate, OnResume, OnPause, OnDestroy, HandleDisconnected,
       Next, Activity
  <2>2. CASE AnswerOutput \/ ProxyStep \/ TimerThread
    BY <2>2 DEF AnswerOutput, ProxyStep, TimerThread, Next, Looper
  <2>3. CASE TapSplashLogo \/ TapGamepadLogo \/ \E t \in Threads : PostOutput(t)
    BY <2>3 DEF TapSplashLogo, TapGamepadLogo, PostOutput, Next
  <2>4. QED
    BY <1>2, <2>1, <2>2, <2>3
    DEF SystemNext, StackStep, WriteRemote, PostConnection, ServiceCallback,
        HandleConnected, CommitFragment, RequestConnect
<1>3. [SystemNext]_systemVars => [Next]_vars
  BY <1>2 DEF systemVars
<1>4. QED
  BY <1>1, <1>3, PTL DEF SystemSpec, Spec

-----------------------------------------------------------------------------
(* Counting the output reports in the queue.                               *)

OutputMessages == {m \in Messages : m.what = "OUTPUT"}

LEMMA OutputPlaces ==
  ASSUME NEW q \in Seq(Messages)
  PROVE  {i \in DOMAIN q : q[i].what = "OUTPUT"} = Places(q, OutputMessages)
<1>1. \A i \in DOMAIN q : q[i] \in Messages
  BY LenProperties
<1>2. QED
  BY <1>1 DEF Places, OutputMessages

LEMMA OutputsPlaces ==
  ASSUME queue \in Seq(Messages), queue' \in Seq(Messages)
  PROVE  /\ Outputs = Cardinality(Places(queue, OutputMessages))
         /\ Outputs' = Cardinality(Places(queue', OutputMessages))
         /\ Outputs \in Nat
<1>1. OutputQueued = Places(queue, OutputMessages)
  BY OutputPlaces DEF OutputQueued
<1>2. OutputQueued' = Places(queue', OutputMessages)
  BY OutputPlaces DEF OutputQueued
<1>3. QED
  BY <1>1, <1>2, PlacesFinite DEF Outputs

LEMMA OutputsTail ==
  ASSUME queue \in Seq(Messages), queue # <<>>, queue' = Tail(queue)
  PROVE  /\ Outputs \in Nat
         /\ Head(queue).what = "OUTPUT" => Outputs > 0 /\ Outputs' = Outputs - 1
         /\ Head(queue).what = "INPUT" => Outputs' = Outputs
<1>1. Tail(queue) \in Seq(Messages) /\ Head(queue) \in Messages
  BY HeadTailProperties, LenProperties, EmptySeq
<1>2. Head(queue) \in OutputMessages <=> Head(queue).what = "OUTPUT"
  BY <1>1 DEF OutputMessages
<1>3. /\ Outputs = Cardinality(Places(queue, OutputMessages))
      /\ Outputs' = Cardinality(Places(Tail(queue), OutputMessages))
      /\ Outputs \in Nat
  BY <1>1, OutputsPlaces
<1>4. Outputs' = IF Head(queue) \in OutputMessages THEN Outputs - 1 ELSE Outputs
  BY <1>3, PlacesTail
<1>5. Outputs' \in Nat
  BY <1>1, <1>3, PlacesFinite
<1>6. QED
  BY <1>2, <1>3, <1>4, <1>5

LEMMA OutputsAppend ==
  ASSUME queue \in Seq(Messages), NEW m \in Messages, queue' = Append(queue, m)
  PROVE  /\ Outputs \in Nat /\ Outputs <= Len(queue)
         /\ m.what = "OUTPUT" => Outputs' = Outputs + 1
         /\ m.what = "INPUT" => Outputs' = Outputs
<1>1. Append(queue, m) \in Seq(Messages)
  BY AppendProperties
<1>2. m \in OutputMessages <=> m.what = "OUTPUT"
  BY DEF OutputMessages
<1>3. /\ Outputs = Cardinality(Places(queue, OutputMessages))
      /\ Outputs' = Cardinality(Places(Append(queue, m), OutputMessages))
      /\ Outputs \in Nat
  BY <1>1, OutputsPlaces
<1>4. Outputs' = IF m \in OutputMessages THEN Outputs + 1 ELSE Outputs
  BY <1>3, PlacesAppend
<1>5. Outputs <= Len(queue)
  BY <1>3, PlacesFinite
<1>6. QED
  BY <1>2, <1>3, <1>4, <1>5

-----------------------------------------------------------------------------
(* Every step is a step of the application or a stutter.                   *)

\* Nothing the application can tell of the proxy changes.
ProxyStutter == SessionStutter /\ Outputs' = Outputs

LEMMA ProxyKept ==
  ASSUME UNCHANGED vars
  PROVE  ProxyStutter
BY CountsKept DEF vars, deviceVars, proxyVars, ProxyStutter, SessionStutter, Armed,
                  Notifying, Sent, Outputs, OutputQueued

\* The stack, the pool, the profile service and the transactions leave the
\* proxy alone.
LEMMA AloneApp ==
  ASSUME \/ StackStep
         \/ \E t \in Threads : WriteRemote(t) \/ PostConnection(t)
         \/ ServiceCallback \/ HandleConnected \/ CommitFragment \/ RequestConnect
  PROVE  App!DroidNext
<1>1. UNCHANGED vars
  BY DEF StackStep, WriteRemote, PostConnection, ServiceCallback, HandleConnected,
         CommitFragment, RequestConnect
<1>2. UNCHANGED App!sessionVars /\ Outputs' = Outputs
  BY <1>1, ProxyKept DEF ProxyStutter, SessionStutter, App!sessionVars
<1>3. CASE StackStep
  BY <1>2, <1>3 DEF StackStep, busVars, App!DroidNext, App!appVars
<1>4. CASE \E t \in Threads : WriteRemote(t) \/ PostConnection(t)
  BY <1>2, <1>4 DEF WriteRemote, PostConnection, busVars, App!DroidNext, App!PoolStep,
                    App!PostConnection, App!appVars
<1>5. CASE ServiceCallback
  BY <1>2, <1>5 DEF ServiceCallback, busVars, App!DroidNext, App!appVars
<1>6. CASE HandleConnected
  BY <1>1, <1>2, <1>6
  DEF HandleConnected, hostVars, vars, proxyVars, App!DroidNext, App!Looper,
      App!HandleConnected, App!hidVars, App!stackVars, App!clientVars
<1>7. CASE CommitFragment
  BY <1>1, <1>2, <1>7
  DEF CommitFragment, hostVars, vars, proxyVars, App!DroidNext, App!Looper,
      App!ExecCommits, App!hidVars, App!stackVars, App!clientVars
<1>8. CASE RequestConnect
  BY <1>2, <1>8 DEF RequestConnect, busVars, App!DroidNext, App!RequestConnect, App!appVars
<1>9. QED
  BY <1>3, <1>4, <1>5, <1>6, <1>7, <1>8

\* The calls of the activity.
LEMMA ActivityApp ==
  ASSUME ProxyTypeOK, LargeNeedsNfc,
         OnCreate \/ OnResume \/ OnPause \/ OnDestroy \/ HandleDisconnected
  PROVE  App!DroidNext
<1>1. Outputs' = Outputs
  BY DEF OnCreate, OnResume, OnPause, OnDestroy, HandleDisconnected, Create, Resume,
         Pause, Release, Disconnect, Outputs, OutputQueued
<1>2. CASE OnCreate
  <2>1. App!Rest
    BY <1>2, RestSession DEF OnCreate, Session!Rest, App!Rest
  <2>2. QED
    BY <1>1, <1>2, <2>1 DEF OnCreate, busVars, App!DroidNext, App!OnCreate, App!appVars
<1>3. CASE OnDestroy
  <2>1. App!Rest
    BY <1>3, RestSession DEF OnDestroy, Session!Rest, App!Rest
  <2>2. QED
    BY <1>1, <1>3, <2>1 DEF OnDestroy, busVars, App!DroidNext, App!OnDestroy, App!appVars
<1>4. CASE OnResume
  <2>1. UNCHANGED App!sessionVars
    BY <1>4, ResumeSession DEF OnResume, SessionStutter, App!sessionVars
  <2>2. QED
    BY <1>1, <1>4, <2>1 DEF OnResume, busVars, App!DroidNext, App!OnResume, App!appVars
<1>5. CASE OnPause
  <2>1. App!StopPush
    BY <1>5, StopSession DEF OnPause, Session!Stop, App!Stop, App!StopPush
  <2>2. QED
    BY <1>1, <1>5, <2>1 DEF OnPause, App!DroidNext, App!OnPause
<1>6. CASE HandleDisconnected
  <2>1. App!StopPush
    BY <1>6, StopSession DEF HandleDisconnected, Session!Stop, App!Stop, App!StopPush
  <2>2. QED
    BY <1>1, <1>6, <2>1
    DEF HandleDisconnected, App!DroidNext, App!Looper, App!HandleDisconnected
<1>7. QED
  BY <1>2, <1>3, <1>4, <1>5, <1>6

\* Output reports that come in, from the console or from the splash screen.
LEMMA PostedOutput ==
  ASSUME ProxyTypeOK, NEW c \in Commands, OnOutputEvent(c)
  PROVE  /\ SessionStutter
         /\ Outputs < QueueCap /\ Outputs' = Outputs + 1
<1>1. OutputMsg(c) \in Messages /\ OutputMsg(c).what = "OUTPUT"
  BY DEF Messages, OutputMsg
<1>2. queue \in Seq(Messages) /\ queue' = Append(queue, OutputMsg(c))
  BY DEF OnOutputEvent, ProxyTypeOK
<1>3. Outputs \in Nat /\ Outputs <= Len(queue) /\ Outputs' = Outputs + 1
  BY <1>1, <1>2, OutputsAppend
<1>4. Len(queue) < QueueCap
  BY <1>2, LenProperties, InFlightFinite, QueueCapAssumption DEF OnOutputEvent, Room
<1>5. QED
  BY <1>2, <1>3, <1>4, PostSession, LenProperties, QueueCapAssumption

LEMMA PostOutputApp ==
  ASSUME ProxyTypeOK, TapSplashLogo \/ \E t \in Threads : PostOutput(t)
  PROVE  App!DroidNext
<1>1. CASE TapSplashLogo
  <2>1. PICK c \in Commands : OnOutputEvent(c)
    BY <1>1 DEF TapSplashLogo
  <2>2. UNCHANGED App!sessionVars /\ phase' = phase
    BY <2>1, PostedOutput DEF OnOutputEvent, SessionStutter, App!sessionVars
  <2>3. App!TapLogo
    BY <1>1, <2>1, <2>2, PostedOutput
    DEF TapSplashLogo, activityVars, hostVars, busVars, App!TapLogo, App!hidVars,
        App!stackVars, App!clientVars
  <2>4. QED
    BY <2>3 DEF App!DroidNext
<1>2. ASSUME NEW t \in Threads, PostOutput(t)
      PROVE  App!PostOutput(t)
  <2>1. CASE Registered
    <3>1. PICK c \in Commands : OnOutputEvent(c)
      BY <1>2, <2>1 DEF PostOutput
    <3>2. UNCHANGED App!sessionVars
      BY <3>1, PostedOutput DEF SessionStutter, App!sessionVars
    <3>3. QED
      BY <1>2, <2>1, <3>1, <3>2, PostedOutput DEF PostOutput, Registered, busVars,
         App!PostOutput
  <2>2. CASE ~Registered
    <3>1. UNCHANGED App!sessionVars /\ Outputs' = Outputs
      BY <1>2, <2>2, ProxyKept
      DEF PostOutput, ProxyStutter, SessionStutter, App!sessionVars
    <3>2. QED
      BY <1>2, <2>2, <3>1 DEF PostOutput, Registered, busVars, App!PostOutput
  <2>3. QED
    BY <2>1, <2>2
<1>3. QED
  BY <1>1, <1>2 DEF App!DroidNext, App!PoolStep

\* An output report is answered.
LEMMA AnswerApp ==
  ASSUME ProxyTypeOK, Handshake, LargeNeedsNfc, AnswerOutput
  PROVE  App!DroidNext
<1>1. HandleOutput /\ queue # <<>> /\ queue' = Tail(queue)
  BY DEF AnswerOutput, HandleOutput
<1>2. Outputs > 0 /\ Outputs' = Outputs - 1
  BY <1>1, OutputsTail DEF HandleOutput, ProxyTypeOK
<1>3. App!Answer
  BY <1>1, HandleOutputSession DEF Session!Answer, App!Answer
<1>4. UNCHANGED App!hidVars
  BY DEF AnswerOutput, HandleOutput, hostVars, App!hidVars, App!stackVars, App!clientVars
<1>5. App!HandleOutput
  BY <1>2, <1>3, <1>4 DEF AnswerOutput, App!HandleOutput
<1>6. QED
  BY <1>5 DEF App!DroidNext, App!Looper

\* The rest of the proxy's steps.
LEMMA ProxyApp ==
  ASSUME ProxyTypeOK, Handshake, PushInv, NoLeakedTimer, LargeNeedsNfc,
         ProxyStep \/ TimerThread \/ TapGamepadLogo
  PROVE  [App!DroidNext]_(App!droidVars)
<1>1. UNCHANGED <<App!hidVars, busVars>>
  <2>1. UNCHANGED activityVars /\ phase' = phase
    BY DEF ProxyStep, TimerThread, TapGamepadLogo, HandleInput, OnStartPush,
           OnFetchNfcIr, SendInputReport, ChangeInput, TimerFire, Run, RunRead,
           RunPost, OnInputEvent
  <2>2. QED
    BY <2>1 DEF activityVars, hostVars, App!hidVars, App!stackVars, App!clientVars
<1>2. Outputs' = Outputs
  <2>1. CASE UNCHANGED queue
    BY <2>1 DEF Outputs, OutputQueued
  <2>2. CASE HandleInput
    BY <2>2, OutputsTail DEF HandleInput, ProxyTypeOK
  <2>3. CASE OnInputEvent \/ \E t \in Timers : RunPost(t)
    <3>1. PICK id \in PushIds : queue' = Append(queue, InputMsg(id))
      BY <2>3 DEF OnInputEvent, RunPost, PushIds
    <3>2. InputMsg(id) \in Messages /\ InputMsg(id).what = "INPUT"
      BY DEF Messages, InputMsg
    <3>3. QED
      BY <3>1, <3>2, OutputsAppend DEF ProxyTypeOK
  <2>4. QED
    BY <2>1, <2>2, <2>3
    DEF ProxyStep, TimerThread, TapGamepadLogo, OnStartPush, OnFetchNfcIr,
        SendInputReport, ChangeInput, TimerFire, Run, RunRead
<1>3. UNCHANGED App!appVars
  BY <1>1, <1>2 DEF busVars, App!appVars
<1>4. ASSUME SessionStutter PROVE UNCHANGED App!droidVars
  BY <1>1, <1>3, <1>4 DEF SessionStutter, App!sessionVars, App!droidVars
<1>5. CASE HandleInput
  <2>1. App!PushLarge \/ App!PushStandard
    BY <1>5, HandleInputSession
    DEF Session!PushLarge, Session!PushStandard, App!PushLarge, App!PushStandard
  <2>2. QED
    BY <1>1, <1>3, <2>1 DEF App!DroidNext, App!Looper, App!HandleInput
<1>6. CASE OnStartPush \/ OnFetchNfcIr \/ SendInputReport
  BY <1>4, <1>6, CallbackSession
<1>7. CASE ChangeInput \/ OnInputEvent
  BY <1>4, <1>7, PostSession
<1>8. CASE \E t \in Timers : TimerFire(t)
  <2>1. App!Fire
    BY <1>8, FireSession DEF Session!Fire, App!Fire
  <2>2. QED
    BY <1>1, <1>3, <2>1 DEF App!DroidNext, App!TimerStep
<1>9. CASE \E t \in Timers : Run(t)
  <2>1. App!Lapse \/ SessionStutter
    BY <1>9, RunSession DEF Session!Lapse, App!Lapse
  <2>2. QED
    BY <1>1, <1>3, <1>4, <2>1 DEF App!DroidNext, App!Looper, App!HandleInput
<1>10. QED
  BY <1>5, <1>6, <1>7, <1>8, <1>9 DEF ProxyStep, TimerThread, TapGamepadLogo

LEMMA AppStart == SystemInit => App!DroidInit
<1> SUFFICES ASSUME SystemInit PROVE App!DroidInit
  OBVIOUS
<1>1. App!SessionInit
  BY SessionStart DEF SystemInit, Session!SessionInit, App!SessionInit
<1>2. OutputQueued = {}
  BY DEF SystemInit, Init, OutputQueued
<1>3. Outputs = 0
  BY <1>2, FS_EmptySet DEF Outputs
<1>4. QED
  BY <1>1, <1>3 DEF SystemInit, App!DroidInit

\* The program implements the application: for every set of commands, timers,
\* consoles and threads the stages of a message, the calls that wait for its end
\* and the threads that do not are together what Droidpro does in one step.
THEOREM SystemImplementsDroidpro == SystemSpec => ImplementsDroidpro
<1>1. ProxyTypeOK /\ Handshake /\ PushInv /\ NoLeakedTimer /\ LargeNeedsNfc
      /\ [SystemNext]_systemVars
        => [App!DroidNext]_(App!droidVars)
  <2> SUFFICES ASSUME ProxyTypeOK, Handshake, PushInv, NoLeakedTimer, LargeNeedsNfc,
                      [SystemNext]_systemVars
               PROVE  [App!DroidNext]_(App!droidVars)
    OBVIOUS
  <2>1. CASE UNCHANGED systemVars
    <3>1. UNCHANGED <<vars, hostVars, busVars>>
      BY <2>1 DEF systemVars, activityVars
    <3>2. UNCHANGED <<App!sessionVars, App!appVars>>
      BY <3>1, ProxyKept
      DEF ProxyStutter, SessionStutter, busVars, App!sessionVars, App!appVars
    <3>3. UNCHANGED App!hidVars
      BY <3>1 DEF hostVars, vars, proxyVars, App!hidVars, App!stackVars, App!clientVars
    <3>4. QED
      BY <3>2, <3>3 DEF App!droidVars
  <2>2. QED
    BY <2>1, AloneApp, ActivityApp, PostOutputApp, AnswerApp, ProxyApp DEF SystemNext
<1>2. QED
  BY <1>1, AppStart, SystemImplementsProxy, ProxyTypeCorrect, HandshakeInProxy,
     PushInvHolds, NoLeakedTimerHolds, LargeNeedsNfcHolds, PTL
  DEF SystemSpec, ImplementsDroidpro, App!DroidSpec

-----------------------------------------------------------------------------
(* What is proved of the application.                                      *)

\* The two instances of the application are one specification.
LEMMA SameSpec == App!DroidSpec <=> Proved!DroidSpec
<1>1. App!DroidInit <=> Proved!DroidInit
  BY DEF App!DroidInit, Proved!DroidInit, App!HidInit, Proved!HidInit,
         App!SessionInit, Proved!SessionInit, App!NoTask, Proved!NoTask,
         App!Down, Proved!Down
<1>2. UNCHANGED App!droidVars <=> UNCHANGED Proved!droidVars
  BY DEF App!droidVars, Proved!droidVars, App!hidVars, Proved!hidVars,
         App!stackVars, Proved!stackVars, App!clientVars, Proved!clientVars,
         App!sessionVars, Proved!sessionVars, App!appVars, Proved!appVars
<1>3. App!Stack <=> Proved!Stack
  BY DEF App!Stack, Proved!Stack, App!StackConnect, Proved!StackConnect,
         App!StackDrop, Proved!StackDrop, App!StackData, Proved!StackData,
         App!StackUnregister, Proved!StackUnregister, App!StackCrash,
         Proved!StackCrash, App!Announce, Proved!Announce, App!Announcing,
         Proved!Announcing, App!Connections, Proved!Connections, App!Run,
         Proved!Run, App!NoTask, Proved!NoTask, App!Down, Proved!Down,
         App!stackVars, Proved!stackVars, App!clientVars, Proved!clientVars
<1>4. ASSUME NEW t \in Threads
      PROVE  App!PoolStep(t) <=> Proved!PoolStep(t)
  BY DEF App!PoolStep, Proved!PoolStep, App!PoolWrite, Proved!PoolWrite,
         App!PoolPost, Proved!PoolPost, App!PostConnection,
         Proved!PostConnection, App!PostOutput, Proved!PostOutput, App!Posted,
         Proved!Posted, App!Queued, Proved!Queued, App!OnBus, Proved!OnBus,
         App!Connections, Proved!Connections, App!RemoteAfter,
         Proved!RemoteAfter, App!Returned, Proved!Returned, App!NoTask,
         Proved!NoTask, App!stackVars, Proved!stackVars, App!clientVars,
         Proved!clientVars, App!sessionVars, Proved!sessionVars, App!appVars,
         Proved!appVars
<1>5. App!Looper <=> Proved!Looper
  BY DEF App!Looper, Proved!Looper, App!HandleConnected,
         Proved!HandleConnected, App!HandleDisconnected,
         Proved!HandleDisconnected, App!HandleOutput, Proved!HandleOutput,
         App!HandleInput, Proved!HandleInput, App!ExecCommits,
         Proved!ExecCommits, App!ShowGamepad, Proved!ShowGamepad,
         App!ShowSplash, Proved!ShowSplash, App!Handled, Proved!Handled,
         App!SwitchTo, Proved!SwitchTo, App!Skipped, Proved!Skipped,
         App!OnBus, Proved!OnBus, App!Disconnect, Proved!Disconnect,
         App!Closing, Proved!Closing, App!StopPush, Proved!StopPush, App!Stop,
         Proved!Stop, App!NoteLate, Proved!NoteLate, App!SendTarget,
         Proved!SendTarget, App!Answer, Proved!Answer, App!PushLarge,
         Proved!PushLarge, App!Lapse, Proved!Lapse, App!PushStandard,
         Proved!PushStandard, App!Commit, Proved!Commit, App!hidVars,
         Proved!hidVars, App!stackVars, Proved!stackVars, App!clientVars,
         Proved!clientVars, App!sessionVars, Proved!sessionVars, App!appVars,
         Proved!appVars
<1>6. App!TimerStep <=> Proved!TimerStep
  BY DEF App!TimerStep, Proved!TimerStep, App!Fire, Proved!Fire, App!hidVars,
         Proved!hidVars, App!stackVars, Proved!stackVars, App!clientVars,
         Proved!clientVars, App!sessionVars, Proved!sessionVars, App!appVars,
         Proved!appVars
<1>7. /\ App!OnServiceConnected <=> Proved!OnServiceConnected
      /\ App!OnServiceDisconnected <=> Proved!OnServiceDisconnected
      /\ UNCHANGED <<App!sessionVars, App!appVars>>
           <=> UNCHANGED <<Proved!sessionVars, Proved!appVars>>
  BY DEF App!OnServiceConnected, Proved!OnServiceConnected,
         App!OnServiceDisconnected, Proved!OnServiceDisconnected,
         App!Registering, Proved!Registering, App!stackVars, Proved!stackVars,
         App!sessionVars, Proved!sessionVars, App!appVars, Proved!appVars
<1>8. /\ App!OnCreate <=> Proved!OnCreate
      /\ App!OnResume <=> Proved!OnResume
      /\ App!OnPause <=> Proved!OnPause
      /\ App!OnDestroy <=> Proved!OnDestroy
      /\ App!RequestConnect <=> Proved!RequestConnect
      /\ App!TapLogo <=> Proved!TapLogo
  BY DEF App!OnCreate, Proved!OnCreate, App!OnResume, Proved!OnResume,
         App!OnPause, Proved!OnPause, App!OnDestroy, Proved!OnDestroy,
         App!RequestConnect, Proved!RequestConnect, App!TapLogo,
         Proved!TapLogo, App!Register, Proved!Register, App!Rest, Proved!Rest,
         App!Resume, Proved!Resume, App!Pause, Proved!Pause, App!LeaveBus,
         Proved!LeaveBus, App!StopPush, Proved!StopPush, App!Stop,
         Proved!Stop, App!Unregister, Proved!Unregister, App!Connect,
         Proved!Connect, App!Closing, Proved!Closing, App!hidVars,
         Proved!hidVars, App!stackVars, Proved!stackVars, App!clientVars,
         Proved!clientVars, App!sessionVars, Proved!sessionVars, App!appVars,
         Proved!appVars
<1>9. App!DroidNext <=> Proved!DroidNext
  BY <1>3, <1>4, <1>5, <1>6, <1>7, <1>8 DEF App!DroidNext, Proved!DroidNext
<1>10. [App!DroidNext]_(App!droidVars) <=> [Proved!DroidNext]_(Proved!droidVars)
  BY <1>2, <1>9
<1>11. QED
  BY <1>1, <1>10, PTL DEF App!DroidSpec, Proved!DroidSpec

LEMMA ProvedOfSystem == SystemSpec => Proved!DroidSpec /\ Proved!HidSpec
<1>1. Proved!DroidSpec => Proved!HidSpec /\ Proved!SessionSpec
  BY Proved!DroidproImplementsParts, SystemHostsAssumption, EventCapAssumption,
     QueueCapAssumption
<1>2. QED
  BY <1>1, SystemImplementsDroidpro, SameSpec, PTL DEF ImplementsDroidpro

\* In the program the game pad is shown exactly while there is a link, whenever
\* things settle and nothing was lost.
THEOREM SystemScreenFollowsLink == SystemSpec => []App!ScreenFollowsLink
<1>1. Proved!DroidSpec => []Proved!ScreenFollowsLink
  BY Proved!ScreenFollowsLinkHolds, SystemHostsAssumption, EventCapAssumption,
     QueueCapAssumption
<1>2. Proved!ScreenFollowsLink => App!ScreenFollowsLink
  BY DEF App!ScreenFollowsLink, Proved!ScreenFollowsLink, App!Settled, Proved!Settled,
         App!Clear, Proved!Clear, App!Announcing, Proved!Announcing,
         App!Connections, Proved!Connections, App!Down, Proved!Down
<1>3. QED
  BY <1>1, <1>2, ProvedOfSystem, PTL

\* In the program reports go to the console the link is to, and to no other,
\* when the callbacks are done and did not overlap.
THEOREM SystemRemoteAgrees == SystemSpec => []App!RemoteAgrees
<1>1. Proved!HidSpec => []Proved!RemoteAgrees
  BY Proved!RemoteAgreesHolds, SystemHostsAssumption, EventCapAssumption,
     QueueCapAssumption
<1>2. Proved!RemoteAgrees => App!RemoteAgrees
  BY DEF App!RemoteAgrees, Proved!RemoteAgrees, App!Clear, Proved!Clear,
         App!Announcing, Proved!Announcing, App!Connections, Proved!Connections,
         App!SendTarget, Proved!SendTarget
<1>3. QED
  BY <1>1, <1>2, ProvedOfSystem, PTL

\* Whenever things settle without a link no timer is scheduled, not even one
\* that JcTimer has lost sight of: what Droidpro says of the link and what
\* JoyconProxy says of its timers hold of the same program.
THEOREM TimersRestWithoutLinkHolds == SystemSpec => []TimersRestWithoutLink
<1>1. Proved!DroidSpec => []Proved!TimerFollowsLink
  BY Proved!TimerFollowsLinkHolds, SystemHostsAssumption, EventCapAssumption,
     QueueCapAssumption
<1>2. Proved!TimerFollowsLink /\ NoLeakedTimer => TimersRestWithoutLink
  <2> SUFFICES ASSUME Proved!TimerFollowsLink, NoLeakedTimer, App!Settled,
                      link = App!Down, astray \cap {"missed", "late"} = {}
               PROVE  live = {}
    BY DEF TimersRestWithoutLink
  <2>1. Proved!Settled /\ link = Proved!Down
    BY DEF App!Settled, Proved!Settled, App!Clear, Proved!Clear, App!Announcing,
           Proved!Announcing, App!Connections, Proved!Connections, App!Down,
           Proved!Down
  <2>2. ~Armed
    BY <2>1 DEF Proved!TimerFollowsLink
  <2>3. QED
    BY <2>2 DEF Armed, NoLeakedTimer
<1>3. QED
  BY <1>1, <1>2, ProvedOfSystem, SystemImplementsProxy, NoLeakedTimerHolds, PTL
=============================================================================
