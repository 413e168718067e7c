------------------------- MODULE JoyconDeviceProofs -------------------------
(***************************************************************************)
(* Proofs about the native device, for every set of commands and every     *)
(* size of the two counters.                                               *)
(***************************************************************************)
EXTENDS JoyconDevice, TLAPS

-----------------------------------------------------------------------------
(* The handlers.                                                           *)

\* A handler of joycon_report.c leaves a well-formed status.
LEMMA ReplayStatusType ==
  ASSUME NEW st \in StatusType, NEW c
  PROVE  ReplayStatus(st, c) \in StatusType
<1>1. PlayerOf(c.leds) \in Player
  BY DEF PlayerOf, Player
<1>2. (st.vibrate + 1) % VibSize \in 0..VibSize - 1 /\ 12 % VibSize \in 0..VibSize - 1
  BY VibSizeAssumption DEF StatusType
<1>3. /\ UsbCommand(st, c.sub) \in StatusType
      /\ NfcIr(st, c.sub) \in StatusType
      /\ SetInputMode(st, c.arg) \in StatusType
      /\ EnableImu(st, c.arg) \in StatusType
  BY DEF StatusType, UsbCommand, NfcIr, SetInputMode, EnableImu
<1>4. SetPlayerLights(st, c.leds) \in StatusType
  BY <1>1 DEF StatusType, SetPlayerLights
<1>5. EnableVibration(st, c.arg) \in StatusType /\ Rumble(st) \in StatusType
  BY <1>2 DEF StatusType, EnableVibration, Rumble
<1>6. Subcommand(st, c) \in StatusType
  BY <1>3, <1>4, <1>5 DEF Subcommand
<1>7. QED
  BY <1>3, <1>5, <1>6 DEF ReplayStatus

\* jc_init leaves a well-formed status, with nothing enabled or requested.
LEMMA InitStatusType == InitStatus \in StatusType
<1>1. 9 % VibSize \in 0..VibSize - 1
  BY VibSizeAssumption
<1>2. QED
  BY <1>1 DEF InitStatus, StatusType, Player

\* A flash read writes from byte 49 on, and nothing else does.
LEMMA OverrunSub ==
  ASSUME NEW c, NEW spiOk \in BOOLEAN
  PROVE  /\ "tail" \in Overrun(c, spiOk) => c.sub \in {"10", "21"}
         /\ Overrun(c, spiOk) \cap {"mcu", "rest", "data"} # {} => c.sub = "10"
BY DEF Overrun, FlashReach

\* The reply carries a known id, and known writers of its regions.
LEMMA ReplyType ==
  ASSUME NEW in \in InputType, NEW c, NEW spiOk \in BOOLEAN
  PROVE  HandledInput(in, c, spiOk) \in InputType
<1>1. ReplyId(c, spiOk) \in ReplyIds /\ ReplyBody(c) \in Tags
  BY DEF ReplyId, ReplyIds, ReplyBody, Tags, Subcommands
<1>2. {"10", "21"} \subseteq Tags
  BY DEF Tags, Subcommands
<1>3. QED
  BY <1>1, <1>2, OverrunSub DEF HandledInput, InputType

\* No handler turns NFC/IR off.
LEMMA NfcLatch ==
  ASSUME NEW st \in StatusType, NEW c
  PROVE  st.enable_nfc => ReplayStatus(st, c).enable_nfc
<1>1. st.enable_nfc => Subcommand(st, c).enable_nfc
  BY DEF Subcommand, SetInputMode, SetPlayerLights, EnableImu, EnableVibration,
         StatusType
<1>2. QED
  BY <1>1 DEF ReplayStatus, UsbCommand, Rumble, NfcIr, StatusType

\* A handler raises the start request exactly for the commands that ask for
\* the periodic push.
LEMMA ReplayStart ==
  ASSUME NEW st \in StatusType, ~st.start_push, NEW c
  PROVE  ReplayStatus(st, c).start_push <=> StartsPush(c)
<1>1. CASE c.rid = "01"
  <2>1. Subcommand(st, c).start_push <=> c.sub = "03" /\ c.arg = "30"
    BY DEF Subcommand, SetInputMode, SetPlayerLights, EnableImu,
           EnableVibration, StatusType
  <2>2. QED
    BY <1>1, <2>1 DEF ReplayStatus, StartsPush
<1>2. CASE c.rid = "80"
  BY <1>2 DEF ReplayStatus, StartsPush, UsbCommand, StatusType
<1>3. CASE c.rid \notin {"01", "80"}
  BY <1>3 DEF ReplayStatus, StartsPush, Rumble, NfcIr, StatusType
<1>4. QED
  BY <1>1, <1>2, <1>3

\* The status as Java sees it is well-formed and never the garbage of
\* nativeInit.
LEMMA ViewType ==
  ASSUME NEW st \in StatusType
  PROVE  View(st) \in Views /\ View(st) # Garbage /\ View(st) # NoNote
<1>1. View(st) \in Views
  BY DEF View, Views, StatusType
<1>2. QED
  BY <1>1, GarbageAssumption

\* check_jc_status keeps the status well-formed.
LEMMA CheckedType ==
  ASSUME NEW st \in StatusType
  PROVE  Checked(st) \in StatusType
BY DEF Checked, StatusType

-----------------------------------------------------------------------------
(* The report buffer.                                                      *)

\* The report timer stays in its range.
LEMMA NextTimerType ==
  ASSUME timer \in 0..TimerSize - 1
  PROVE  NextTimer \in 0..TimerSize - 1
BY TimerSizeAssumption DEF NextTimer

\* jc_makeup_input_report keeps buffer and timer well-formed.
LEMMA MakeupType ==
  ASSUME DeviceTypeOK, NEW in \in InputType, NEW st, MakeupReport(in, st)
  PROVE  input' \in InputType /\ timer' \in 0..TimerSize - 1
<1>1. timer \in 0..TimerSize - 1
  BY DEF DeviceTypeOK
<1>2. CASE in.id = "81"
  BY <1>1, <1>2 DEF MakeupReport
<1>3. CASE in.id # "81"
  <2>1. timer' = NextTimer /\ input' = TimedReport(in, st, NextTimer)
    BY <1>3 DEF MakeupReport
  <2>2. TimedReport(in, st, NextTimer) \in InputType
    BY DEF TimedReport, InputType, McuHeader, McuRest, Tags
  <2>3. QED
    BY <1>1, <2>1, <2>2, NextTimerType
<1>4. QED
  BY <1>2, <1>3

\* What jc_makeup_input_report makes of a buffer, region by region.
LEMMA MadeUp ==
  ASSUME NEW in \in InputType, NEW st, MakeupReport(in, st)
  PROVE  /\ input'.id = in.id
         /\ in.id # "81" => timer' = NextTimer
         /\ input'.body = IF in.id # "81" /\ Imu(in.id, st) THEN "axes" ELSE in.body
         /\ input'.tail = IF in.id # "81" /\ Imu(in.id, st) THEN "axes" ELSE in.tail
         /\ NfcIrData(in.id, st) =>
              input'.mcu = McuHeader(timer') /\ input'.check = "fits"
         /\ ~NfcIrData(in.id, st) => input'.check = in.check
<1>1. CASE in.id = "81"
  BY <1>1 DEF MakeupReport, NfcIrData
<1>2. CASE in.id # "81"
  <2>1. timer' = NextTimer /\ input' = TimedReport(in, st, timer')
    BY <1>2 DEF MakeupReport, TimedReport, McuHeader, McuRest
  <2>2. QED
    BY <1>2, <2>1 DEF TimedReport, InputType
<1>3. QED
  BY <1>1, <1>2

-----------------------------------------------------------------------------
(* Type correctness.                                                       *)

LEMMA DeviceInitType == DeviceInit => DeviceTypeOK
<1>1. 0 \in 0..TimerSize - 1
  BY TimerSizeAssumption
<1>2. ZeroInput \in InputType
  BY DEF ZeroInput, InputType, ReplyIds, Tags
<1>3. NoCall \in CallType
  BY DEF NoCall, CallType
<1>4. QED
  BY <1>1, <1>2, <1>3, InitStatusType DEF DeviceInit, DeviceTypeOK

LEMMA ReplayKeepsType ==
  ASSUME DeviceTypeOK, NEW c \in Commands, NativeReplayOutputReport(c)
  PROVE  DeviceTypeOK'
<1> DEFINE st == ReplayStatus(status, c)
<1>1. st \in StatusType
  BY ReplayStatusType DEF DeviceTypeOK
<1>2. Checked(st) \in StatusType
  BY <1>1, CheckedType
<1>3. status' \in StatusType /\ last' \in Views /\ told' \in Views \cup {NoNote}
  BY <1>1, <1>2, ViewType DEF NativeReplayOutputReport, CheckStatus, DeviceTypeOK
<1>4. input' \in InputType /\ timer' \in 0..TimerSize - 1
  <2>1. PICK spiOk \in BOOLEAN :
          MakeupReport(HandledInput(input, c, spiOk), Checked(st))
    BY DEF NativeReplayOutputReport
  <2>2. HandledInput(input, c, spiOk) \in InputType
    BY ReplyType DEF DeviceTypeOK
  <2>3. QED
    BY <2>1, <2>2, MakeupType
<1>5. call' \in CallType
  BY DEF NativeReplayOutputReport, CallType, MustNotify
<1>6. spi' \in {"none", "open", "closed"}
  BY DEF NativeReplayOutputReport, DeviceTypeOK
<1>7. QED
  BY <1>3, <1>4, <1>5, <1>6 DEF DeviceTypeOK

LEMMA MakeupKeepsType ==
  ASSUME DeviceTypeOK, NEW id \in PushIds, NativeMakeupInputReport(id)
  PROVE  DeviceTypeOK'
<1>1. ClearedInput(input, id) \in InputType
  BY DEF DeviceTypeOK, ClearedInput, InputType, PushIds, ReplyIds, Tags
<1>2. input' \in InputType /\ timer' \in 0..TimerSize - 1
  BY <1>1, MakeupType DEF NativeMakeupInputReport
<1>3. call' \in CallType
  BY DEF NativeMakeupInputReport, CallType, NoCall
<1>4. QED
  BY <1>2, <1>3 DEF NativeMakeupInputReport, DeviceTypeOK

LEMMA InitKeepsType ==
  ASSUME DeviceTypeOK, NativeInit
  PROVE  DeviceTypeOK'
<1>1. ZeroInput \in InputType
  BY DEF ZeroInput, InputType, ReplyIds, Tags
<1>2. call' \in CallType
  BY DEF NativeInit, NoCall, CallType
<1>3. QED
  BY <1>1, <1>2, InitStatusType DEF NativeInit, DeviceTypeOK

LEMMA FreeKeepsType ==
  ASSUME DeviceTypeOK, NativeFree
  PROVE  DeviceTypeOK'
<1>1. call' \in CallType
  BY DEF NativeFree, NoCall, CallType
<1>2. QED
  BY <1>1 DEF NativeFree, DeviceTypeOK

\* Whatever the console sends, every variable of the device keeps its type:
\* the counters stay bytes, and what Java is told is well-formed.
THEOREM DeviceTypeCorrect == DeviceSpec => []DeviceTypeOK
<1>1. DeviceInit => DeviceTypeOK
  BY DeviceInitType
<1>2. DeviceTypeOK /\ [DeviceNext]_deviceVars => DeviceTypeOK'
  <2> SUFFICES ASSUME DeviceTypeOK, [DeviceNext]_deviceVars
               PROVE  DeviceTypeOK'
    OBVIOUS
  <2>1. CASE NativeInit
    BY <2>1, InitKeepsType
  <2>2. CASE NativeFree
    BY <2>2, FreeKeepsType
  <2>3. CASE \E c \in Commands : NativeReplayOutputReport(c)
    BY <2>3, ReplayKeepsType
  <2>4. CASE \E id \in PushIds : NativeMakeupInputReport(id)
    BY <2>4, MakeupKeepsType
  <2>5. CASE UNCHANGED deviceVars
    BY <2>5 DEF deviceVars, DeviceTypeOK
  <2>6. QED
    BY <2>1, <2>2, <2>3, <2>4, <2>5 DEF DeviceNext
<1>3. QED
  BY <1>1, <1>2, PTL DEF DeviceSpec

-----------------------------------------------------------------------------
(* The notification handshake.                                             *)

\* What check_jc_status maintains between two calls.  JavaInformed alone is
\* not inductive: whether a change is seen depends on last_status being a copy
\* of the status, and whether a start request is seen on it not being pending.
LastIsStatus == last \in {Garbage, View(status)}

Handshake ==
  /\ DeviceTypeOK
  /\ NoPendingStart
  /\ LastIsStatus
  /\ JavaInformed
  /\ StartToldOnce

LEMMA ReplayHandshake ==
  ASSUME Handshake, NEW c \in Commands, NativeReplayOutputReport(c)
  PROVE  Handshake'
<1> DEFINE st == ReplayStatus(status, c)
<1> USE DEF Handshake
<1>1. st \in StatusType /\ status \in StatusType
  BY ReplayStatusType DEF DeviceTypeOK
<1>2. /\ View(st) \notin {Garbage, NoNote}
      /\ View(st) \in Views
  BY <1>1, ViewType
<1>3. /\ status' = Checked(st)
      /\ last' = View(Checked(st))
      /\ told' = IF MustNotify(st) THEN View(st) ELSE told
      /\ call' = [op |-> "replay", cmd |-> c, notified |-> MustNotify(st)]
  BY DEF NativeReplayOutputReport, CheckStatus
<1>4. st.start_push <=> StartsPush(c)
  BY ReplayStart DEF DeviceTypeOK, NoPendingStart
<1>5. CASE MustNotify(st)
  <2>1. status' = [st EXCEPT !.start_push = FALSE]
    BY <1>3, <1>5 DEF Checked
  <2>2. NoPendingStart'
    BY <1>1, <2>1 DEF NoPendingStart, StatusType
  <2>3. LastIsStatus'
    BY <1>3 DEF LastIsStatus
  <2>4. JavaInformed'
    <3>1. last' # Garbage
      BY <1>1, <1>3, CheckedType, ViewType
    <3>2. told' = View(st) /\ told' # NoNote
      BY <1>2, <1>3, <1>5
    <3>3. View([status' EXCEPT !.start_push = told'.start_push]) = told'
      BY <1>1, <2>1, <3>2 DEF View, StatusType
    <3>4. QED
      BY <3>1, <3>2, <3>3 DEF JavaInformed
  <2>5. StartToldOnce'
    <3>1. told'.start_push = st.start_push
      BY <1>3, <1>5 DEF View
    <3>2. QED
      BY <1>3, <1>4, <1>5, <3>1 DEF StartToldOnce
  <2>6. QED
    BY <2>2, <2>3, <2>4, <2>5, ReplayKeepsType
<1>6. CASE ~MustNotify(st)
  <2>1. last = View(st) /\ last = View(status) /\ last # Garbage
    BY <1>2, <1>6 DEF MustNotify, LastIsStatus
  <2>2. status' = st /\ last' = last /\ told' = told
    BY <1>3, <1>6, <2>1 DEF Checked
  <2>3. ~st.start_push
    BY <2>1 DEF View, NoPendingStart
  <2>4. NoPendingStart'
    BY <2>2, <2>3 DEF NoPendingStart
  <2>5. LastIsStatus'
    BY <2>1, <2>2 DEF LastIsStatus
  <2>6. JavaInformed'
    <3>1. View([st EXCEPT !.start_push = told.start_push])
            = View([status EXCEPT !.start_push = told.start_push])
      BY <1>1, <2>1 DEF View, StatusType
    <3>2. QED
      BY <2>1, <2>2, <3>1 DEF JavaInformed
  <2>7. StartToldOnce'
    BY <1>3, <1>4, <1>6, <2>3 DEF StartToldOnce
  <2>8. QED
    BY <2>4, <2>5, <2>6, <2>7, ReplayKeepsType
<1>7. QED
  BY <1>5, <1>6

\* The calls that do not run check_jc_status.
LEMMA OtherHandshake ==
  ASSUME Handshake,
         \/ NativeInit
         \/ NativeFree
         \/ \E id \in PushIds : NativeMakeupInputReport(id)
         \/ UNCHANGED deviceVars
  PROVE  Handshake'
<1> USE DEF Handshake
<1>1. CASE NativeInit
  BY <1>1, InitKeepsType
  DEF NativeInit, InitStatus, NoPendingStart, LastIsStatus, JavaInformed,
      StartToldOnce, NoCall
<1>2. CASE NativeFree
  BY <1>2, FreeKeepsType
  DEF NativeFree, NoPendingStart, LastIsStatus, JavaInformed, StartToldOnce, NoCall
<1>3. CASE \E id \in PushIds : NativeMakeupInputReport(id)
  BY <1>3, MakeupKeepsType
  DEF NativeMakeupInputReport, NoPendingStart, LastIsStatus, JavaInformed,
      StartToldOnce, NoCall
<1>4. CASE UNCHANGED deviceVars
  BY <1>4
  DEF deviceVars, DeviceTypeOK, NoPendingStart, LastIsStatus, JavaInformed,
      StartToldOnce
<1>5. QED
  BY <1>1, <1>2, <1>3, <1>4

LEMMA HandshakeInductive ==
  /\ DeviceInit => Handshake
  /\ Handshake /\ [DeviceNext]_deviceVars => Handshake'
<1>1. DeviceInit => Handshake
  BY DeviceInitType
  DEF Handshake, DeviceInit, InitStatus, NoPendingStart, LastIsStatus,
      JavaInformed, StartToldOnce, NoCall
<1>2. Handshake /\ [DeviceNext]_deviceVars => Handshake'
  BY ReplayHandshake, OtherHandshake DEF DeviceNext
<1>3. QED
  BY <1>1, <1>2

THEOREM HandshakeHolds == DeviceSpec => []Handshake
<1>1. QED
  BY HandshakeInductive, PTL DEF DeviceSpec

\* No start request survives the call that raised it.
THEOREM NoPendingStartHolds == DeviceSpec => []NoPendingStart
<1>1. Handshake => NoPendingStart
  BY DEF Handshake
<1>2. QED
  BY <1>1, HandshakeHolds, PTL

\* No change of player, vibration, IMU or NFC is lost on the way to Java,
\* whatever the sequence of commands.
THEOREM JavaInformedHolds == DeviceSpec => []JavaInformed
<1>1. Handshake => JavaInformed
  BY DEF Handshake
<1>2. QED
  BY <1>1, HandshakeHolds, PTL

\* Java is told to start the push by exactly the commands that ask for it.
THEOREM StartToldOnceHolds == DeviceSpec => []StartToldOnce
<1>1. Handshake => StartToldOnce
  BY DEF Handshake
<1>2. QED
  BY <1>1, HandshakeHolds, PTL

-----------------------------------------------------------------------------
(* The contents of the report buffer.                                      *)

\* The MCU header of an NFC/IR report follows the parity of the timer.
McuPhase == NfcReport => input.mcu = McuHeader(timer)

\* The check byte is not written before NFC/IR is on, which is never turned off
\* again: a missing one cannot come back.
CheckFollowsNfc == ~status.enable_nfc => input.check = "zero"

Contents ==
  /\ DeviceTypeOK
  /\ FreshReport
  /\ AckNotOverwritten
  /\ McuPhase
  /\ CheckFollowsNfc
  /\ LargeReportChecked

\* The reply to a command is acknowledged with its own sub-command only.
LEMMA AckIsOwn ==
  ASSUME NEW c, NEW spiOk \in BOOLEAN
  PROVE  /\ ReplyId(c, spiOk) = "21" => ReplyBody(c) = c.sub
         /\ ReplyBody(c) # "axes"
         /\ ReplyId(c, spiOk) = "81" => ReplyBody(c) = "zero"
BY DEF ReplyId, ReplyBody, Acknowledged, Subcommands, Unsupported

LEMMA ReplayContents ==
  ASSUME Contents, NEW c \in Commands, NativeReplayOutputReport(c)
  PROVE  Contents'
<1> DEFINE st == ReplayStatus(status, c)
<1>1. DeviceTypeOK /\ DeviceTypeOK'
  BY ReplayKeepsType DEF Contents
<1>2. PICK spiOk \in BOOLEAN :
        MakeupReport(HandledInput(input, c, spiOk), Checked(st))
  BY DEF NativeReplayOutputReport
<1> DEFINE in == HandledInput(input, c, spiOk)
<1>3. /\ status' = Checked(st)
      /\ call'.op = "replay"
      /\ call'.cmd = c
  BY DEF NativeReplayOutputReport, CheckStatus
<1>4. in \in InputType /\ input \in InputType /\ status \in StatusType
  BY <1>1, ReplyType DEF DeviceTypeOK
<1>5. /\ input'.id = ReplyId(c, spiOk)
      /\ input'.body = IF input'.id # "81" /\ Imu(input'.id, status')
                         THEN "axes" ELSE ReplyBody(c)
      /\ NfcIrData(input'.id, status') =>
           input'.mcu = McuHeader(timer') /\ input'.check = "fits"
      /\ ~NfcIrData(input'.id, status') => input'.check = in.check
  <2>1. in.id = ReplyId(c, spiOk) /\ in.body = ReplyBody(c)
    BY DEF HandledInput
  <2> HIDE DEF in
  <2>2. QED
    BY <1>2, <1>3, <1>4, <2>1, MadeUp DEF in
<1>6. FreshReport'
  BY <1>3, <1>5 DEF FreshReport
<1>7. AckNotOverwritten'
  BY <1>3, <1>5, AckIsOwn DEF AckNotOverwritten, Imu
<1>8. McuPhase'
  BY <1>5 DEF McuPhase, NfcReport, NfcIrData, McuHeader
<1>9. CheckFollowsNfc'
  <2> SUFFICES ASSUME ~status'.enable_nfc
               PROVE  input'.check = "zero"
    BY DEF CheckFollowsNfc
  <2>1. ~st.enable_nfc
    BY <1>3, <1>4, ReplayStatusType DEF Checked, StatusType
  <2>2. ~status.enable_nfc
    BY <1>4, <2>1, NfcLatch
  <2>3. input.check = "zero"
    BY <2>2 DEF Contents, CheckFollowsNfc
  <2>4. in.check = "zero"
    BY <2>3 DEF HandledInput
  <2>5. QED
    BY <1>5, <2>4 DEF NfcIrData
<1>10. LargeReportChecked'
  BY <1>5, <1>9 DEF LargeReportChecked, CheckFollowsNfc, NfcIrData
<1>11. QED
  BY <1>1, <1>6, <1>7, <1>8, <1>9, <1>10 DEF Contents

LEMMA MakeupContents ==
  ASSUME Contents, NEW id \in PushIds, NativeMakeupInputReport(id)
  PROVE  Contents'
<1> DEFINE in == ClearedInput(input, id)
<1>1. DeviceTypeOK /\ DeviceTypeOK'
  BY MakeupKeepsType DEF Contents
<1>2. /\ MakeupReport(in, status)
      /\ status' = status
      /\ call'.op = "makeup"
      /\ id \notin {"21", "81"}
  BY DEF NativeMakeupInputReport, NoCall, PushIds
<1>3. /\ in \in InputType
      /\ in.id = id /\ in.body = "zero" /\ in.tail = "zero"
      /\ in.check = input.check
  BY <1>1 DEF DeviceTypeOK, ClearedInput, InputType, PushIds, ReplyIds, Tags
<1>4. /\ input'.id = id
      /\ input'.body = IF status'.enable_imu THEN "axes" ELSE "zero"
      /\ input'.tail = input'.body
      /\ NfcIrData(id, status') =>
           input'.mcu = McuHeader(timer') /\ input'.check = "fits"
      /\ ~NfcIrData(id, status') => input'.check = input.check
  <2> HIDE DEF in
  <2>1. QED
    BY <1>2, <1>3, MadeUp DEF Imu
<1>5. FreshReport' /\ AckNotOverwritten'
  BY <1>2, <1>4 DEF FreshReport, AckNotOverwritten
<1>6. McuPhase'
  BY <1>4 DEF McuPhase, NfcReport, NfcIrData, McuHeader
<1>7. CheckFollowsNfc' /\ LargeReportChecked'
  BY <1>2, <1>4 DEF Contents, CheckFollowsNfc, LargeReportChecked, NfcIrData
<1>8. QED
  BY <1>1, <1>5, <1>6, <1>7 DEF Contents

LEMMA OtherContents ==
  ASSUME Contents, NativeInit \/ NativeFree \/ UNCHANGED deviceVars
  PROVE  Contents'
<1> USE DEF Contents
<1>1. CASE NativeInit
  BY <1>1, InitKeepsType
  DEF NativeInit, NoCall, ZeroInput, FreshReport, AckNotOverwritten, McuPhase,
      NfcReport, CheckFollowsNfc, LargeReportChecked
<1>2. CASE NativeFree
  BY <1>2, FreeKeepsType
  DEF NativeFree, NoCall, FreshReport, AckNotOverwritten, McuPhase,
      NfcReport, CheckFollowsNfc, LargeReportChecked
<1>3. CASE UNCHANGED deviceVars
  BY <1>3
  DEF deviceVars, DeviceTypeOK, FreshReport, AckNotOverwritten, McuPhase,
      NfcReport, CheckFollowsNfc, LargeReportChecked, McuHeader
<1>4. QED
  BY <1>1, <1>2, <1>3

LEMMA ContentsInductive ==
  /\ DeviceInit => Contents
  /\ Contents /\ [DeviceNext]_deviceVars => Contents'
<1>1. DeviceInit => Contents
  BY DeviceInitType
  DEF Contents, DeviceInit, NoCall, ZeroInput, FreshReport, AckNotOverwritten, McuPhase,
      NfcReport, CheckFollowsNfc, LargeReportChecked
<1>2. Contents /\ [DeviceNext]_deviceVars => Contents'
  BY ReplayContents, MakeupContents, OtherContents DEF DeviceNext
<1>3. QED
  BY <1>1, <1>2

THEOREM ContentsHold == DeviceSpec => []Contents
<1>1. QED
  BY ContentsInductive, PTL DEF DeviceSpec

\* Nothing is left over from an earlier report in a standard report or in the
\* first 49 bytes of a large one, nor in the payload of a reply.
THEOREM FreshReportHolds == DeviceSpec => []FreshReport
<1>1. Contents => FreshReport
  BY DEF Contents
<1>2. QED
  BY <1>1, ContentsHold, PTL

\* An acknowledgement reaches the wire as its handler wrote it.
THEOREM AckNotOverwrittenHolds == DeviceSpec => []AckNotOverwritten
<1>1. Contents => AckNotOverwritten
  BY DEF Contents
<1>2. QED
  BY <1>1, ContentsHold, PTL

\* Once NFC/IR has been on, every large report carries a check byte that fits
\* it, whatever flash reads have left behind byte 48.
THEOREM LargeReportCheckedHolds == DeviceSpec => []LargeReportChecked
<1>1. Contents => LargeReportChecked
  BY DEF Contents
<1>2. QED
  BY <1>1, ContentsHold, PTL

-----------------------------------------------------------------------------
(* The MCU headers.                                                        *)

\* One tick of the report timer changes its parity, also when it wraps.
LEMMA ParityFlips ==
  ASSUME timer \in 0..TimerSize - 1
  PROVE  NextTimer % 2 # timer % 2
<1>1. TimerSize \in Nat /\ TimerSize > 0 /\ TimerSize % 2 = 0
  BY TimerSizeAssumption
<1>2. CASE timer + 1 < TimerSize
  <2>1. NextTimer = timer + 1
    BY <1>1, <1>2 DEF NextTimer
  <2>2. QED
    BY <2>1
<1>3. CASE timer + 1 = TimerSize
  <2>1. NextTimer = 0
    BY <1>1, <1>3 DEF NextTimer
  <2>2. timer % 2 = 1
    BY <1>1, <1>3
  <2>3. QED
    BY <2>1, <2>2
<1>4. QED
  BY <1>1, <1>2, <1>3

LEMMA TimedStepAlternates ==
  ASSUME Contents, Contents', NfcReport, NfcReport', timer' = NextTimer
  PROVE  input'.mcu # input.mcu
<1>1. timer \in 0..TimerSize - 1
  BY DEF Contents, DeviceTypeOK
<1>2. timer' % 2 # timer % 2
  BY <1>1, ParityFlips
<1>3. input.mcu = McuHeader(timer) /\ input'.mcu = McuHeader(timer')
  BY DEF Contents, McuPhase, McuHeader
<1>4. timer % 2 \in {0, 1} /\ timer' % 2 \in {0, 1}
  BY <1>1, TimerSizeAssumption, NextTimerType
<1>5. QED
  BY <1>2, <1>3, <1>4 DEF McuHeader

\* Two NFC/IR reports in a row carry the two MCU headers in turn, for every
\* even range of the timer.
THEOREM McuAlternatesHolds == DeviceSpec => McuAlternates
<1>1. Contents /\ Contents' /\ [DeviceNext]_deviceVars =>
        [NfcReport /\ NfcReport' => input'.mcu # input.mcu]_deviceVars
  <2> SUFFICES ASSUME Contents, Contents', DeviceNext, NfcReport, NfcReport'
               PROVE  input'.mcu # input.mcu
    OBVIOUS
  <2>1. CASE NativeInit \/ NativeFree
    BY <2>1 DEF NativeInit, NativeFree, NoCall, NfcReport
  <2>2. CASE \E c \in Commands : NativeReplayOutputReport(c)
    <3>1. PICK c \in Commands : NativeReplayOutputReport(c)
      BY <2>2
    <3>2. PICK spiOk \in BOOLEAN :
            MakeupReport(HandledInput(input, c, spiOk),
                         Checked(ReplayStatus(status, c)))
      BY <3>1 DEF NativeReplayOutputReport
    <3>3. timer' = NextTimer
      <4>1. HandledInput(input, c, spiOk) \in InputType
        BY ReplyType DEF Contents, DeviceTypeOK
      <4>2. QED
        BY <3>2, <4>1, MadeUp DEF NfcReport
    <3>4. QED
      BY <3>3, TimedStepAlternates
  <2>3. CASE \E id \in PushIds : NativeMakeupInputReport(id)
    <3>1. timer' = NextTimer
      BY <2>3
      DEF NativeMakeupInputReport, ClearedInput, MakeupReport, PushIds, Contents,
          DeviceTypeOK, InputType
    <3>2. QED
      BY <3>1, TimedStepAlternates
  <2>4. QED
    BY <2>1, <2>2, <2>3 DEF DeviceNext
<1>2. QED
  BY <1>1, ContentsHold, PTL DEF DeviceSpec, McuAlternates
=============================================================================
