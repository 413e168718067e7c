------------------------- MODULE JoyconProxyProofs --------------------------
(***************************************************************************)
(* Proofs about the proxy: for every set of commands and of timer names,   *)
(* every bound on the queue and every interleaving of looper, timer and    *)
(* posting threads.                                                        *)
(***************************************************************************)
EXTENDS JoyconProxy, JoyconDeviceProofs, SequenceTheorems

-----------------------------------------------------------------------------
(* Messages.                                                               *)

\* The looper finds a well-formed message at the head of its queue, and a
\* well-formed queue behind it.
LEMMA HeadMessage ==
  ASSUME queue \in Seq(Messages), queue # <<>>
  PROVE  /\ Head(queue) \in Messages
         /\ Tail(queue) \in Seq(Messages)
         /\ Head(queue).what = "INPUT" => Head(queue).id \in PushIds
         /\ Head(queue).what = "OUTPUT" => Head(queue).cmd \in Commands
<1>1. Head(queue) \in Messages /\ Tail(queue) \in Seq(Messages)
  BY HeadTailProperties
<1>2. QED
  BY <1>1 DEF Messages, InputMsg, OutputMsg

\* Posting a well-formed message keeps the queue well-formed.
LEMMA AppendMessage ==
  ASSUME queue \in Seq(Messages), NEW m \in Messages
  PROVE  Append(queue, m) \in Seq(Messages)
BY AppendProperties

\* startTimer makes one of the timers the current one, and no other is live.
LEMMA StartTimerType ==
  ASSUME live \subseteq Timers, StartTimer
  PROVE  /\ live' \subseteq Timers
         /\ handle' \in Timers
         /\ handle' # NoTimer
         /\ live' = (live \ {handle}) \cup {handle'}
BY TimersAssumption DEF StartTimer, Cancelled

-----------------------------------------------------------------------------
(* The proxy drives the device as its specification allows.                *)

LEMMA DeviceStep ==
  ASSUME ProxyTypeOK, [Next]_vars
  PROVE  [DeviceNext]_deviceVars
<1>1. CASE HandleInput
  <2>1. Head(queue).id \in PushIds
    BY <1>1, HeadMessage DEF HandleInput, ProxyTypeOK
  <2>2. QED
    BY <1>1, <2>1 DEF HandleInput, DeviceNext
<1>2. CASE HandleOutput
  <2>1. Head(queue).cmd \in Commands
    BY <1>2, HeadMessage DEF HandleOutput, ProxyTypeOK
  <2>2. QED
    BY <1>2, <2>1 DEF HandleOutput, DeviceNext
<1>3. CASE Create \/ Release
  BY <1>3 DEF Create, Release, DeviceNext
<1>4. CASE OnStartPush \/ OnFetchNfcIr \/ SendInputReport \/ Resume \/ Pause
           \/ Disconnect \/ OnInputEvent \/ ChangeInput
  BY <1>4 DEF OnStartPush, OnFetchNfcIr, SendInputReport, Resume, Pause,
              Disconnect, OnInputEvent, ChangeInput
<1>5. CASE \E c \in Commands : OnOutputEvent(c)
  BY <1>5 DEF OnOutputEvent
<1>6. CASE \E t \in Timers : TimerFire(t) \/ Run(t)
  BY <1>6 DEF TimerFire, Run, RunRead, RunPost
<1>7. CASE UNCHANGED vars
  BY <1>7 DEF vars
<1>8. QED
  BY <1>1, <1>2, <1>3, <1>4, <1>5, <1>6, <1>7 DEF Next, Looper, Activity

LEMMA DeviceStepType ==
  ASSUME DeviceTypeOK, [DeviceNext]_deviceVars
  PROVE  DeviceTypeOK'
<1>1. CASE NativeInit \/ NativeFree
  BY <1>1, InitKeepsType, FreeKeepsType
<1>2. CASE \E c \in Commands : NativeReplayOutputReport(c)
  BY <1>2, ReplayKeepsType
<1>3. CASE \E id \in PushIds : NativeMakeupInputReport(id)
  BY <1>3, MakeupKeepsType
<1>4. CASE UNCHANGED deviceVars
  BY <1>4 DEF deviceVars, DeviceTypeOK
<1>5. QED
  BY <1>1, <1>2, <1>3, <1>4 DEF DeviceNext

-----------------------------------------------------------------------------
(* Type correctness.                                                       *)

\* The mode that HandleOutput remembers is one that was acknowledged.
LEMMA HandledMode ==
  ASSUME ProxyTypeOK, HandleOutput
  PROVE  /\ mode' \in InputModes \cup {"none"}
         /\ mode' = mode \/ (mode' = call'.cmd.arg /\ call'.cmd.sub = "03"
                               /\ call'.cmd.rid = "01")
         /\ call'.op = "replay"
         /\ call'.cmd = Head(queue).cmd
<1> DEFINE c == Head(queue).cmd
<1>1. c \in Commands /\ NativeReplayOutputReport(c)
  BY HeadMessage DEF HandleOutput, ProxyTypeOK
<1>2. call'.cmd = c /\ call'.op = "replay"
  BY <1>1 DEF NativeReplayOutputReport
<1>3. PICK spiOk \in BOOLEAN : input'.id = ReplyId(c, spiOk)
  <2>1. PICK spiOk \in BOOLEAN :
          MakeupReport(HandledInput(input, c, spiOk), Checked(ReplayStatus(status, c)))
    BY <1>1 DEF NativeReplayOutputReport
  <2>2. HandledInput(input, c, spiOk) \in InputType
    BY ReplyType DEF ProxyTypeOK, DeviceTypeOK
  <2>3. HandledInput(input, c, spiOk).id = ReplyId(c, spiOk)
    BY DEF HandledInput
  <2>4. QED
    BY <2>1, <2>2, <2>3, MadeUp
<1>4. input'.id = "21" => c.rid = "01" /\ Acknowledged(c, spiOk)
  BY <1>3 DEF ReplyId
<1>5. input'.id = "21" /\ c.sub = "03" => c.arg \in InputModes
  BY <1>4 DEF Acknowledged
<1>6. mode' = IF c.sub = "03" /\ input'.id = "21" THEN c.arg ELSE mode
  BY <1>2 DEF HandleOutput
<1>7. QED
  BY <1>2, <1>4, <1>5, <1>6 DEF ProxyTypeOK

LEMMA LooperType ==
  ASSUME ProxyTypeOK, Looper
  PROVE  ProxyTypeOK'
<1>1. DeviceTypeOK'
  BY DeviceStep, DeviceStepType DEF Next, ProxyTypeOK
<1>2. CASE HandleInput
  BY <1>1, <1>2, HeadMessage DEF HandleInput, ProxyTypeOK
<1>3. CASE HandleOutput
  <2>1. pc' \in {"loop", "onStartPush", "onFetchNfcIr", "send"}
    <3>1. call'.notified \in BOOLEAN /\ (call'.notified => told' \in Views)
      <4>1. NativeReplayOutputReport(Head(queue).cmd)
        BY <1>3 DEF HandleOutput
      <4>2. Head(queue).cmd \in Commands /\ status \in StatusType
        BY <1>3, HeadMessage DEF HandleOutput, ProxyTypeOK, DeviceTypeOK
      <4>3. View(ReplayStatus(status, Head(queue).cmd)) \in Views
        BY <4>2, ReplayStatusType, ViewType
      <4>4. QED
        BY <4>1, <4>3 DEF NativeReplayOutputReport, CheckStatus, MustNotify
    <3>2. QED
      BY <1>3, <3>1 DEF HandleOutput, FirstStage, NfcStage, Views
  <2>2. QED
    BY <1>1, <1>3, <2>1, HeadMessage, HandledMode DEF HandleOutput, ProxyTypeOK
<1>4. CASE OnStartPush
  BY <1>1, <1>4, StartTimerType DEF OnStartPush, ProxyTypeOK, PushIds
<1>5. CASE OnFetchNfcIr
  BY <1>1, <1>5, StartTimerType DEF OnFetchNfcIr, ProxyTypeOK, PushIds
<1>6. CASE SendInputReport
  BY <1>1, <1>6 DEF SendInputReport, ProxyTypeOK
<1>7. QED
  BY <1>2, <1>3, <1>4, <1>5, <1>6 DEF Looper

LEMMA ActivityType ==
  ASSUME ProxyTypeOK, Activity
  PROVE  ProxyTypeOK'
<1>1. DeviceTypeOK'
  BY DeviceStep, DeviceStepType DEF Next, ProxyTypeOK
<1>2. CASE Create \/ Resume \/ Release
  BY <1>1, <1>2 DEF Create, Resume, Release, ProxyTypeOK
<1>3. CASE Pause \/ Disconnect
  BY <1>1, <1>3 DEF Pause, Disconnect, StopTimer, ProxyTypeOK
<1>4. QED
  BY <1>2, <1>3 DEF Activity

\* The threads other than the main looper.
OtherThread ==
  \/ OnInputEvent
  \/ ChangeInput
  \/ \E c \in Commands : OnOutputEvent(c)
  \/ \E t \in Timers : TimerFire(t) \/ Run(t)

LEMMA OtherThreadType ==
  ASSUME ProxyTypeOK, OtherThread
  PROVE  ProxyTypeOK'
<1>1. DeviceTypeOK'
  BY DeviceStep, DeviceStepType DEF Next, OtherThread, ProxyTypeOK
<1>2. CASE OnInputEvent
  <2>1. InputMsg("30") \in Messages
    BY DEF Messages, PushIds
  <2>2. QED
    BY <1>1, <1>2, <2>1, AppendMessage DEF OnInputEvent, ProxyTypeOK
<1>3. CASE \E c \in Commands : OnOutputEvent(c)
  <2>1. PICK c \in Commands : OnOutputEvent(c)
    BY <1>3
  <2>2. OutputMsg(c) \in Messages
    BY DEF Messages
  <2>3. QED
    BY <1>1, <2>1, <2>2, AppendMessage DEF OnOutputEvent, ProxyTypeOK
<1>4. CASE \E t \in Timers : TimerFire(t)
  BY <1>1, <1>4 DEF TimerFire, ProxyTypeOK
<1>5. CASE \E t \in Timers : RunRead(t)
  BY <1>1, <1>5 DEF RunRead, ProxyTypeOK
<1>6. CASE \E t \in Timers : RunPost(t)
  <2>1. PICK t \in Timers : RunPost(t)
    BY <1>6
  <2>2. InputMsg(run[t]) \in Messages
    BY <2>1 DEF RunPost, Messages
  <2>3. QED
    BY <1>1, <2>1, <2>2, AppendMessage DEF RunPost, ProxyTypeOK
<1>7. CASE ChangeInput
  BY <1>1, <1>7 DEF ChangeInput, ProxyTypeOK, Parts
<1>8. QED
  BY <1>2, <1>3, <1>4, <1>5, <1>6, <1>7 DEF OtherThread, Run

LEMMA ProxyTypeInductive ==
  /\ Init => ProxyTypeOK
  /\ ProxyTypeOK /\ [Next]_vars => ProxyTypeOK'
<1>1. Init => ProxyTypeOK
  BY DeviceInitType, EmptySeq DEF Init, ProxyTypeOK, PushIds
<1>2. ProxyTypeOK /\ UNCHANGED vars => ProxyTypeOK'
  BY DEF vars, deviceVars, proxyVars, ProxyTypeOK, DeviceTypeOK
<1>3. QED
  BY <1>1, <1>2, LooperType, ActivityType, OtherThreadType DEF Next, OtherThread

\* Every variable of looper, timer and device keeps its type.
THEOREM ProxyTypeCorrect == Spec => []ProxyTypeOK
<1>1. QED
  BY ProxyTypeInductive, PTL DEF Spec

\* The proxy implements the device: whatever messages, timer tasks and life
\* cycle calls do, the native half only ever sees a legal sequence of calls, so
\* what is proved of the device holds in the proxy.
THEOREM ProxyImplementsDevice == Spec => DeviceSpec
<1>1. Init => DeviceInit
  BY DEF Init
<1>2. ProxyTypeOK /\ [Next]_vars => [DeviceNext]_deviceVars
  BY DeviceStep
<1>3. QED
  BY <1>1, <1>2, ProxyTypeCorrect, PTL DEF Spec, DeviceSpec

-----------------------------------------------------------------------------
(* The device invariants in the proxy.                                     *)

LEMMA HandshakeInProxy == Spec => []Handshake
<1>1. QED
  BY ProxyImplementsDevice, HandshakeHolds, PTL

-----------------------------------------------------------------------------
(* The timer.                                                              *)

\* NoLeakedTimer is inductive by itself, given the types.
LEMMA NoLeakStep ==
  ASSUME ProxyTypeOK, NoLeakedTimer, [Next]_vars
  PROVE  NoLeakedTimer'
<1>1. CASE OnStartPush \/ OnFetchNfcIr
  <2>1. StartTimer
    BY <1>1 DEF OnStartPush, OnFetchNfcIr
  <2>2. QED
    BY <2>1, StartTimerType DEF NoLeakedTimer, ProxyTypeOK
<1>2. CASE Pause \/ Disconnect
  BY <1>2 DEF Pause, Disconnect, StopTimer, NoLeakedTimer
<1>3. CASE UNCHANGED <<handle, live>>
  BY <1>3 DEF NoLeakedTimer
<1>4. HandleInput \/ HandleOutput \/ SendInputReport \/ Create \/ Resume
      \/ Release \/ OtherThread \/ UNCHANGED vars
        => UNCHANGED <<handle, live>>
  BY DEF HandleInput, HandleOutput, SendInputReport, Create, Resume, Release,
         OtherThread, OnInputEvent, ChangeInput, OnOutputEvent, TimerFire,
         Run, RunRead, RunPost, vars, proxyVars
<1>5. QED
  BY <1>1, <1>2, <1>3, <1>4 DEF Next, Looper, Activity, OtherThread

\* No timer survives out of reach of stopTimer, for any number of restarts and
\* any interleaving with the timer threads.
THEOREM NoLeakedTimerHolds == Spec => []NoLeakedTimer
<1>1. Init => NoLeakedTimer
  BY DEF Init, NoLeakedTimer
<1>2. ProxyTypeOK /\ NoLeakedTimer /\ [Next]_vars => NoLeakedTimer'
  BY NoLeakStep
<1>3. QED
  BY <1>1, <1>2, ProxyTypeCorrect, PTL DEF Spec

-----------------------------------------------------------------------------
(* The push follows the status.                                            *)

\* Between two callbacks Java has been told something, and the NFC callback is
\* only reached with NFC/IR on.
Stage ==
  /\ Notifying => last # Garbage
  /\ pc = "onFetchNfcIr" => status.enable_nfc

\* Nothing happens before onCreate.
BeforeCreate ==
  phase = "new" => spi = "none" /\ pc = "loop" /\ stdId = "30" /\ mode = "none"

PushInv ==
  /\ PushIdTracksNfc
  /\ StandardModeArmed
  /\ Stage
  /\ BeforeCreate

\* What MSG_OUTPUT leaves for the callbacks.
LEMMA HandledOutput ==
  ASSUME ProxyTypeOK, Handshake, Handshake', PushInv, HandleOutput
  PROVE  PushInv'
<1> DEFINE c == Head(queue).cmd
           st == ReplayStatus(status, c)
<1>1. c \in Commands /\ NativeReplayOutputReport(c)
  BY HeadMessage DEF HandleOutput, ProxyTypeOK
<1>2. st \in StatusType /\ status \in StatusType
  BY ReplayStatusType DEF ProxyTypeOK, DeviceTypeOK
<1>3. /\ status' = Checked(st)
      /\ last' = View(Checked(st))
      /\ told' = IF MustNotify(st) THEN View(st) ELSE told
      /\ call'.notified = MustNotify(st)
      /\ call'.op = "replay" /\ call'.cmd = c
      /\ spi # "none" /\ spi' = spi
  BY <1>1 DEF NativeReplayOutputReport, CheckStatus
<1>4. status'.enable_nfc = st.enable_nfc
  BY <1>2, <1>3 DEF Checked, StatusType
<1>5. last' # Garbage
  BY <1>2, <1>3, CheckedType, ViewType
<1>6. ~Notifying /\ pc' = FirstStage /\ UNCHANGED <<handle, stdId, phase>>
  BY DEF HandleOutput, Notifying
<1>7. BeforeCreate'
  BY <1>3, <1>6 DEF BeforeCreate, PushInv
<1>8. CASE ~MustNotify(st)
  <2>1. pc' = "send"
    BY <1>3, <1>6, <1>8 DEF FirstStage
  <2>2. View(st) = View(status)
    BY <1>2, <1>8, ViewType DEF MustNotify, Handshake, LastIsStatus
  <2>3. status'.enable_nfc = status.enable_nfc
    BY <1>4, <2>2 DEF View
  <2>4. PushIdTracksNfc'
    BY <1>6, <2>1, <2>3 DEF PushInv, PushIdTracksNfc
  <2>5. QED
    <3>1. StandardModeArmed'
      <4>1. ~StartsPush(c)
        BY <1>3, <1>8 DEF Handshake, StartToldOnce
      <4>2. mode' = "30" => mode = "30"
        BY <4>1, HandledMode DEF StartsPush
      <4>3. QED
        BY <1>6, <4>2 DEF PushInv, StandardModeArmed
    <3>2. Stage'
      BY <1>5, <2>1 DEF Stage
    <3>3. QED
      BY <1>7, <2>4, <3>1, <3>2 DEF PushInv
<1>9. CASE MustNotify(st)
  <2>1. told'.start_push = st.start_push /\ told'.enable_nfc = st.enable_nfc
    BY <1>3, <1>9 DEF View
  <2>2. CASE st.start_push
    <3>1. pc' = "onStartPush"
      BY <1>3, <1>6, <1>9, <2>1, <2>2 DEF FirstStage
    <3>2. QED
      BY <1>5, <1>7, <3>1 DEF PushInv, PushIdTracksNfc, StandardModeArmed, Stage, Notifying
  <2>3. CASE ~st.start_push
    <3>1. pc' = IF st.enable_nfc THEN "onFetchNfcIr" ELSE "send"
      BY <1>3, <1>6, <1>9, <2>1, <2>3 DEF FirstStage, NfcStage
    <3>2. ~StartsPush(c)
      BY <1>2, <2>3, ReplayStart DEF Handshake, NoPendingStart
    <3>3. mode' = "30" => mode = "30"
      BY <1>3, <3>2, HandledMode DEF StartsPush
    <3>4. StandardModeArmed'
      BY <1>6, <3>3 DEF PushInv, StandardModeArmed
    <3>5. PushIdTracksNfc'
      <4>1. CASE st.enable_nfc
        BY <3>1, <4>1 DEF PushIdTracksNfc, Notifying
      <4>2. CASE ~st.enable_nfc
        BY <1>2, <1>4, <1>6, <4>2, NfcLatch DEF PushInv, PushIdTracksNfc
      <4>3. QED
        BY <4>1, <4>2
    <3>6. Stage'
      BY <1>4, <1>5, <3>1 DEF Stage
    <3>7. QED
      BY <1>7, <3>4, <3>5, <3>6 DEF PushInv
  <2>4. QED
    BY <2>2, <2>3
<1>10. QED
  BY <1>8, <1>9

\* While a native call notifies, Java's view of NFC/IR is the status's.
LEMMA StageTold ==
  ASSUME Handshake, Stage, Notifying
  PROVE  told.enable_nfc = status.enable_nfc
<1>1. View([status EXCEPT !.start_push = told.start_push]) = told
  BY DEF Handshake, JavaInformed, Stage
<1>2. status \in StatusType
  BY DEF Handshake, DeviceTypeOK
<1>3. View([status EXCEPT !.start_push = told.start_push]).enable_nfc = status.enable_nfc
  BY <1>2 DEF View, StatusType
<1>4. QED
  BY <1>1, <1>3

LEMMA PushStep ==
  ASSUME ProxyTypeOK, Handshake, Handshake', PushInv, [Next]_vars
  PROVE  PushInv'
<1> USE DEF PushInv
<1>1. CASE HandleOutput
  BY <1>1, HandledOutput
<1>2. CASE HandleInput
  BY <1>2 DEF HandleInput, NativeMakeupInputReport, PushIdTracksNfc,
              StandardModeArmed, Stage, BeforeCreate, Notifying
<1>3. CASE OnStartPush
  <2>1. handle' # NoTimer
    BY <1>3, StartTimerType DEF OnStartPush, ProxyTypeOK
  <2>2. told.enable_nfc = status.enable_nfc /\ last # Garbage
    BY <1>3, StageTold DEF OnStartPush, Notifying, Stage
  <2>3. UNCHANGED deviceVars /\ stdId' = "30" /\ phase' = phase
        /\ pc' = IF told.enable_nfc THEN "onFetchNfcIr" ELSE "send"
    BY <1>3 DEF OnStartPush
  <2>4. phase # "new"
    BY <1>3 DEF OnStartPush, BeforeCreate
  <2>5. QED
    BY <2>1, <2>2, <2>3, <2>4
    DEF deviceVars, PushIdTracksNfc, StandardModeArmed, Stage, BeforeCreate, Notifying
<1>4. CASE OnFetchNfcIr
  <2>1. handle' # NoTimer
    BY <1>4, StartTimerType DEF OnFetchNfcIr, ProxyTypeOK
  <2>2. status.enable_nfc /\ phase # "new"
    BY <1>4 DEF OnFetchNfcIr, Stage, BeforeCreate
  <2>3. UNCHANGED deviceVars /\ stdId' = "31" /\ phase' = phase /\ pc' = "send"
    BY <1>4 DEF OnFetchNfcIr
  <2>4. QED
    BY <2>1, <2>2, <2>3
    DEF deviceVars, PushIdTracksNfc, StandardModeArmed, Stage, BeforeCreate, Notifying
<1>5. CASE SendInputReport
  BY <1>5 DEF SendInputReport, deviceVars, PushIdTracksNfc, StandardModeArmed,
              Stage, BeforeCreate, Notifying
<1>6. CASE Create
  BY <1>6 DEF Create, NativeInit, InitStatus, PushIdTracksNfc, StandardModeArmed,
              Stage, BeforeCreate, Notifying
<1>7. CASE Pause \/ Disconnect
  BY <1>7 DEF Pause, Disconnect, StopTimer, deviceVars, PushIdTracksNfc,
              StandardModeArmed, Stage, BeforeCreate, Notifying
<1>8. CASE Release \/ Resume
  BY <1>8 DEF Release, Resume, NativeFree, deviceVars, PushIdTracksNfc,
              StandardModeArmed, Stage, BeforeCreate, Notifying
<1>9. CASE OtherThread \/ UNCHANGED vars
  <2>1. UNCHANGED <<deviceVars, pc, handle, stdId, phase, mode>>
    BY <1>9 DEF OtherThread, OnInputEvent, ChangeInput, OnOutputEvent, TimerFire,
         Run, RunRead, RunPost, vars, proxyVars
  <2>2. QED
    BY <2>1 DEF deviceVars, PushIdTracksNfc, StandardModeArmed, Stage,
                BeforeCreate, Notifying
<1>10. QED
  BY <1>1, <1>2, <1>3, <1>4, <1>5, <1>6, <1>7, <1>8, <1>9
  DEF Next, Looper, Activity, OtherThread

THEOREM PushInvHolds == Spec => []PushInv
<1>1. Init => PushInv
  BY DEF Init, DeviceInit, InitStatus, PushInv, PushIdTracksNfc,
         StandardModeArmed, Stage, BeforeCreate, Notifying
<1>2. ProxyTypeOK /\ Handshake /\ Handshake' /\ PushInv /\ [Next]_vars => PushInv'
  BY PushStep
<1>3. QED
  BY <1>1, <1>2, ProxyTypeCorrect, HandshakeInProxy, PTL DEF Spec

\* Between two native calls the id the timer pushes is the large report exactly
\* when the native status has NFC/IR on.
THEOREM PushIdTracksNfcHolds == Spec => []PushIdTracksNfc
<1>1. PushInv => PushIdTracksNfc
  BY DEF PushInv
<1>2. QED
  BY <1>1, PushInvHolds, PTL

\* Standard mode, once acknowledged, has its timer armed until the application
\* stops it.
THEOREM StandardModeArmedHolds == Spec => []StandardModeArmed
<1>1. PushInv => StandardModeArmed
  BY DEF PushInv
<1>2. QED
  BY <1>1, PushInvHolds, PTL
=============================================================================
