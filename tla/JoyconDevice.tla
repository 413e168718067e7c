---------------------------- MODULE JoyconDevice ----------------------------
(***************************************************************************)
(* The native half of the emulated controller: the process-wide jcdev of   *)
(* jni/com_mumumusuc_joycon_Joycon.c, the status record shared with Java,  *)
(* the one input-report buffer and the report timer.  Every JNI call runs  *)
(* to completion on the main looper, so a call is one action.              *)
(*                                                                         *)
(* The input buffer is kept by region: its id byte, the payload bytes      *)
(* 13..47, the last byte 48 of a standard report, and of a large one the   *)
(* first byte 49 of the MCU header, the rest of it (bytes 50..56), the     *)
(* data (bytes 57..360) and the check byte 361.  A region holds the tag of *)
(* the last that wrote to it.                                              *)
(***************************************************************************)
EXTENDS JoyconReport

CONSTANTS
  TimerSize,   \* range of the report timer (uint8_t: 256 in the code)
  Commands,    \* the output reports the console or the UI may send
  Garbage,     \* last_status before the first check: see NativeInit
  NoNote       \* Java has not been notified yet

ASSUME TimerSizeAssumption == TimerSize \in Nat \ {0} /\ TimerSize % 2 = 0
ASSUME CommandsAssumption == Commands \subseteq AllCommands

VARIABLES
  status,   \* *jcdev.jc.status
  last,     \* the compared fields of jcdev.last_status
  timer,    \* jcdev.jc.timer
  input,    \* jcdev.input_buffer, by region
  spi,      \* jcdev.jc.spi_fd: "none", "open", "closed"
  told,     \* what the last onNativeStatusChanged told Java
  call      \* history: the last JNI call, its command, and if it notified

deviceVars == <<status, last, timer, input, spi, told, call>>

-----------------------------------------------------------------------------

\* The five fields that check_jc_status compares and passes to Java.
View(st) ==
  [player |-> st.player, enable_vib |-> st.enable_vib,
   enable_imu |-> st.enable_imu, start_push |-> st.start_push,
   enable_nfc |-> st.enable_nfc]

Views ==
  [player : Player, enable_vib : BOOLEAN, enable_imu : BOOLEAN,
   start_push : BOOLEAN, enable_nfc : BOOLEAN]

ASSUME GarbageAssumption == Garbage \notin Views /\ NoNote \notin Views

NoCmd == Cmd("none", "none", "none", {})

\* The MCU header is FF (byte 49) or 01 00 00 00 06 00 1a 01; "10" is what a
\* flash read left.  The check byte has not been written, fits bytes 49..360,
\* or was made before one of them was written again.
InputType ==
  [id : ReplyIds, body : Tags, tail : Tags, mcu : {"zero", "FF", "01", "10"},
   rest : {"zero", "01", "10"}, data : {"zero", "10"},
   check : {"zero", "fits", "stale"}]

ZeroInput ==
  [id |-> "00", body |-> "zero", tail |-> "zero", mcu |-> "zero",
   rest |-> "zero", data |-> "zero", check |-> "zero"]

CallType ==
  [op : {"none", "init", "free", "replay", "makeup"},
   cmd : Commands \cup {NoCmd}, notified : BOOLEAN]

NoCall == [op |-> "none", cmd |-> NoCmd, notified |-> FALSE]

DeviceInit ==
  /\ status = InitStatus
  /\ last = Garbage
  /\ timer = 0
  /\ input = ZeroInput
  /\ spi = "none"
  /\ told = NoNote
  /\ call = NoCall

-----------------------------------------------------------------------------
(* Faulty variants of definitions below: each breaks a property of the last  *)
(* section when it takes the place of the definition it is named after.      *)

\* Axes over an acknowledgement.
ImuInEveryReport(id, st) == st.enable_imu

\* No wrap, wrap one too early.
TimerNoWrap == timer + 1
TimerWrapsEarly == (timer + 1) % (TimerSize - 1)

\* One field is missing from the comparison.
DiffersIn(st, fields) ==
  last = Garbage \/ \E f \in fields : last[f] # View(st)[f]

MustNotifyButImu(st) ==
  DiffersIn(st, {"player", "enable_vib", "start_push", "enable_nfc"})
MustNotifyButStart(st) ==
  DiffersIn(st, {"player", "enable_vib", "enable_imu", "enable_nfc"})
MustNotifyButNfc(st) ==
  DiffersIn(st, {"player", "enable_vib", "enable_imu", "start_push"})

\* The start request is not consumed.
CheckedNoReset(st) == st

-----------------------------------------------------------------------------

\* memset and handler: in is the buffer before.
HandledInput(in, c, spiOk) ==
  LET over == Overrun(c, spiOk)
      Left(region, old) == IF region \in over THEN c.sub ELSE old
  IN  [id |-> ReplyId(c, spiOk),
       body |-> ReplyBody(c),
       tail |-> Left("tail", in.tail),
       mcu |-> Left("mcu", in.mcu),
       rest |-> Left("rest", in.rest),
       data |-> Left("data", in.data),
       check |-> IF "mcu" \in over /\ in.check = "fits" THEN "stale" ELSE in.check]

\* Who writes what of a report: in already carries its id and the payload of
\* the handler; t is the timer once this report has consumed its value.
Imu(id, st) == id # "21" /\ st.enable_imu

NfcIrData(id, st) == id = "31" /\ st.enable_nfc

McuHeader(t) == IF t % 2 = 1 THEN "FF" ELSE "01"

\* 0xFF is written to byte 49 alone: what follows it is what was there.
McuRest(old, t) == IF t % 2 = 1 THEN old ELSE "01"

TimedReport(in, st, t) ==
  LET imu == Imu(in.id, st)
      nfcir == NfcIrData(in.id, st)
  IN  [in EXCEPT !.body = IF imu THEN "axes" ELSE @,
                 !.tail = IF imu THEN "axes" ELSE @,
                 !.mcu = IF nfcir THEN McuHeader(t) ELSE @,
                 !.rest = IF nfcir THEN McuRest(@, t) ELSE @,
                 !.check = IF nfcir THEN "fits" ELSE @]

NextTimer == (timer + 1) % TimerSize

\* jc_makeup_input_report.
MakeupReport(in, st) ==
  IF in.id = "81"
    THEN input' = in /\ UNCHANGED timer
    ELSE timer' = NextTimer /\ input' = TimedReport(in, st, NextTimer)

\* check_jc_status: tell Java if a compared field differs, consume the start
\* request if it did, and remember the status.  st is the status the handler
\* left.
MustNotify(st) == last # View(st)

Checked(st) ==
  IF MustNotify(st) THEN [st EXCEPT !.start_push = FALSE] ELSE st

CheckStatus(st) ==
  /\ told' = IF MustNotify(st) THEN View(st) ELSE told
  /\ status' = Checked(st)
  /\ last' = View(Checked(st))

-----------------------------------------------------------------------------

\* The final memmove copies jcdev.jc from the status POINTER on into last_status.
\* The low byte of spi_fd lands on enable_imu (64 bit) or player (32 bit), and
\* the descriptor of a running app is neither below 5 nor 0 or 1 modulo 256, so
\* the first check always sees a difference.  The timer is static and jc_init
\* does not touch it.
NativeInit ==
  /\ spi \in {"none", "closed"}
  /\ status' = InitStatus
  /\ last' = Garbage
  /\ input' = ZeroInput
  /\ spi' = "open"
  /\ told' = NoNote
  /\ call' = [NoCall EXCEPT !.op = "init"]
  /\ UNCHANGED timer

\* jc_free closes the descriptor and leaves everything else in place.
NativeFree ==
  /\ spi = "open"
  /\ spi' = "closed"
  /\ call' = [NoCall EXCEPT !.op = "free"]
  /\ UNCHANGED <<status, last, timer, input, told>>

\* memset of bytes 0..47, handler, check_jc_status, jc_makeup_input_report.
\* The flash read may fail at any time; after jc_free it surely may.
NativeReplayOutputReport(c) ==
  LET st == ReplayStatus(status, c) IN
  /\ spi # "none"
  /\ \E spiOk \in BOOLEAN :
       MakeupReport(HandledInput(input, c, spiOk), Checked(st))
  /\ CheckStatus(st)
  /\ call' = [op |-> "replay", cmd |-> c, notified |-> MustNotify(st)]
  /\ UNCHANGED spi

\* Faulty variant of NativeMakeupInputReport: the buffer is not cleared first.
MakeupNoClear(id) ==
  /\ spi # "none"
  /\ MakeupReport([input EXCEPT !.id = id], status)
  /\ call' = [NoCall EXCEPT !.op = "makeup"]
  /\ UNCHANGED <<status, last, spi, told>>

\* setInputBuffer and the memset of bytes 1..48.
ClearedInput(in, id) == [in EXCEPT !.id = id, !.body = "zero", !.tail = "zero"]

\* jc_makeup_input_report.
NativeMakeupInputReport(id) ==
  /\ spi # "none"
  /\ MakeupReport(ClearedInput(input, id), status)
  /\ call' = [NoCall EXCEPT !.op = "makeup"]
  /\ UNCHANGED <<status, last, spi, told>>

\* Ids the application asks reports for.
PushIds == {"30", "31"}

DeviceNext ==
  \/ NativeInit
  \/ NativeFree
  \/ \E c \in Commands : NativeReplayOutputReport(c)
  \/ \E id \in PushIds : NativeMakeupInputReport(id)

DeviceSpec == DeviceInit /\ [][DeviceNext]_deviceVars

-----------------------------------------------------------------------------
(* Properties.                                                             *)

\* Every variable keeps its type.
DeviceTypeOK ==
  /\ status \in StatusType
  /\ last \in Views \cup {Garbage}
  /\ timer \in 0..TimerSize - 1
  /\ input \in InputType
  /\ spi \in {"none", "open", "closed"}
  /\ told \in Views \cup {NoNote}
  /\ call \in CallType

\* Between two calls no start request is left standing in the status: the call
\* that raised it has passed it on (check_jc_status clears it only when it
\* notifies).
NoPendingStart == ~status.start_push

\* What Java was last told about player, vibration, IMU and NFC is what the
\* status says, whatever sequence of commands led here, once it has been told
\* anything: no change is lost by the compare-and-copy of check_jc_status.
JavaInformed ==
  IF last = Garbage
    THEN told = NoNote
    ELSE /\ told # NoNote
         /\ View([status EXCEPT !.start_push = told.start_push]) = told

\* A command that asks for the periodic push makes its own call tell Java to
\* start it, even if nothing else changed and even if it repeats the previous
\* command; no other command does.
StartToldOnce ==
  call.op = "replay" =>
    ((call.notified /\ told.start_push) <=> StartsPush(call.cmd))

\* The first 49 bytes of a pushed report, all of a standard one, carry no byte
\* of an earlier report or acknowledgement, and a reply carries at most the
\* acknowledgement of its own command in the payload that memset clears.
\* Nothing of the kind is said of a large report from byte 49 on, which no
\* memset reaches: there an earlier header and flash data do go out again.
FreshReport ==
  /\ call.op = "makeup" =>
       /\ input.body \in {"zero", "axes"}
       /\ input.tail = input.body
  /\ call.op = "replay" => input.body \in {"axes", ReplyBody(call.cmd)}

\* The reply of an accepted sub-command is the acknowledgement, never sensor
\* data that was written over it.
AckNotOverwritten ==
  input.id = "21" => call.op = "free" \/ input.body = call.cmd.sub

\* The check byte of a large report fits what the report carries behind byte
\* 48, left over or not, also when flash reads overwrote it since the last one.
\* Only before NFC/IR is first turned on may it be missing: it is 0 then, which
\* fits zeros but not what a long flash read has left.
LargeReportChecked ==
  call.op \in {"replay", "makeup"} /\ input.id = "31" =>
    \/ input.check = "fits"
    \/ input.check = "zero" /\ ~status.enable_nfc

\* Two NFC/IR reports in a row carry the two MCU headers in turn, across the
\* wrap of the report timer as well.
NfcReport ==
  /\ call.op \in {"replay", "makeup"}
  /\ input.id = "31"
  /\ status.enable_nfc

McuAlternates ==
  [][NfcReport /\ NfcReport' => input'.mcu # input.mcu]_deviceVars

\* joycon_report.c says of report_output_01 "response with input_21": every
\* output report 0x01 is answered with input report 0x21.
Output01AnsweredWith21 ==
  call.op = "replay" /\ call.cmd.rid = "01" => input.id = "21"
=============================================================================
