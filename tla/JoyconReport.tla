---------------------------- MODULE JoyconReport ----------------------------
(***************************************************************************)
(* The output reports the console sends to the emulated Pro Controller,    *)
(* and what the handlers of jni/joycon_report.c do with one of them: the   *)
(* part of jc_status_t they change, whether they acknowledge it, and the   *)
(* id and payload of the reply they leave in the input buffer.             *)
(*                                                                         *)
(* Report ids, sub-commands and arguments are the hexadecimal digits of    *)
(* the byte as a string; "other" stands for every byte the code has no     *)
(* case for.  Payload bytes are abstracted to the tag of the handler that  *)
(* wrote them.  The battery, connection, device type and voltage fields    *)
(* are never assigned after jc_init and are left out.                      *)
(***************************************************************************)
EXTENDS Integers

CONSTANT VibSize    \* range of the vibration counter (uint8_t: 256 in the code)

ASSUME VibSizeAssumption == VibSize \in Nat \ {0}

-----------------------------------------------------------------------------
(* Output reports.                                                         *)

Cmd(rid, sub, arg, leds) ==
  [rid |-> rid, sub |-> sub, arg |-> arg, leds |-> leds]

\* Sub-commands of output report 0x01 the dispatcher has a case for.
Subcommands ==
  {"01", "02", "03", "04", "05", "06", "07", "08", "10", "11", "12", "21",
   "22", "30", "38", "40", "41", "43", "48", "50"}

\* Handlers that return -1 without writing anything.
Unsupported == {"05", "06", "07", "11", "12", "38", "41"}

\* Input modes that sub-command 0x03 acknowledges.
InputModes == {"30", "31", "33", "35", "3F"}

\* Length of a flash read, which the code takes as it comes: up to 0x1C bytes,
\* 0x1D (to byte 48), 0x1E, up to 0x25 (to byte 56), and more.
FlashSizes == {"part", "full", "over", "header", "long"}

\* First argument byte of a sub-command, as far as its handler looks at it.
SubArgs(s) ==
  CASE s = "01" -> {"01", "02", "03", "04", "other"}
    [] s = "03" -> InputModes \cup {"00", "01", "02", "03", "17", "other"}
    [] s = "10" -> FlashSizes
    [] s = "21" -> {"21", "other"}
    [] s \in {"40", "48"} -> {"0", "1"}
    [] OTHER -> {"any"}

AllCommands ==
  UNION {{Cmd("01", s, a, {}) : a \in SubArgs(s)} :
           s \in (Subcommands \cup {"other"}) \ {"30"}}
  \cup {Cmd("01", "30", "any", leds) : leds \in SUBSET (1..4)}
  \cup {Cmd("80", s, "any", {}) :
           s \in {"01", "02", "03", "04", "05", "06", "other"}}
  \cup {Cmd("11", s, "any", {}) : s \in {"01", "other"}}
  \cup {Cmd(r, "any", "any", {}) : r \in {"10", "other"}}

-----------------------------------------------------------------------------
(* Effect on the status.  Each operator is the new status after a handler. *)

Player == 0..4

StatusType ==
  [player : Player, enable_imu : BOOLEAN, enable_vib : BOOLEAN,
   enable_nfc : BOOLEAN, start_push : BOOLEAN, vibrate : 0..VibSize - 1]

\* What jc_init leaves in a freshly allocated (zeroed) buffer.
InitStatus ==
  [player |-> 0, enable_imu |-> FALSE, enable_vib |-> FALSE,
   enable_nfc |-> FALSE, start_push |-> FALSE, vibrate |-> 9 % VibSize]

\* 0x80 0x04 is the only USB command with an effect.
UsbCommand(st, sub) ==
  IF sub = "04" THEN [st EXCEPT !.start_push = TRUE] ELSE st

\* Faulty variant of SetInputMode: leaving the mode turns NFC/IR off.
SetInputModeOff(st, mode) ==
  CASE mode = "30" -> [st EXCEPT !.start_push = TRUE]
    [] mode = "31" -> [st EXCEPT !.enable_nfc = TRUE]
    [] mode = "3F" -> [st EXCEPT !.enable_nfc = FALSE]
    [] OTHER -> st

\* Only modes 0x30 and 0x31 leave a trace; no mode clears anything.
SetInputMode(st, mode) ==
  CASE mode = "30" -> [st EXCEPT !.start_push = TRUE]
    [] mode = "31" -> [st EXCEPT !.enable_nfc = TRUE]
    [] OTHER -> st

\* The highest of the four player bits that is set wins.
PlayerOf(leds) ==
  CASE 4 \in leds -> 4
    [] 4 \notin leds /\ 3 \in leds -> 3
    [] leds \cap {3, 4} = {} /\ 2 \in leds -> 2
    [] leds \cap {2, 3, 4} = {} /\ 1 \in leds -> 1
    [] OTHER -> 0

SetPlayerLights(st, leds) == [st EXCEPT !.player = PlayerOf(leds)]

EnableImu(st, arg) == [st EXCEPT !.enable_imu = (arg # "0")]

EnableVibration(st, arg) ==
  [st EXCEPT !.enable_vib = (arg # "0"), !.vibrate = 12 % VibSize]

\* The counter is a byte: incrementing wraps it.
Rumble(st) == [st EXCEPT !.vibrate = (@ + 1) % VibSize]

NfcIr(st, sub) ==
  IF sub = "01" THEN [st EXCEPT !.enable_nfc = TRUE] ELSE st

Subcommand(st, c) ==
  CASE c.sub = "03" -> SetInputMode(st, c.arg)
    [] c.sub = "30" -> SetPlayerLights(st, c.leds)
    [] c.sub = "40" -> EnableImu(st, c.arg)
    [] c.sub = "48" -> EnableVibration(st, c.arg)
    [] OTHER -> st

\* jc_replay_output_report, as far as the status goes.
ReplayStatus(st, c) ==
  CASE c.rid = "01" -> Subcommand(st, c)
    [] c.rid = "80" -> UsbCommand(st, c.sub)
    [] c.rid = "10" -> Rumble(st)
    [] c.rid = "11" -> NfcIr(st, c.sub)
    [] OTHER -> st

-----------------------------------------------------------------------------
(* The reply.                                                              *)

\* The return value of the sub-command handler is positive.  spiOk is the
\* outcome of the flash read of sub-command 0x10.
Acknowledged(c, spiOk) ==
  /\ c.sub \in Subcommands \ Unsupported
  /\ c.sub = "01" => c.arg # "other"
  /\ c.sub = "03" => c.arg \in InputModes
  /\ c.sub = "10" => spiOk

\* Report ids as the reply carries them; "00" is what memset left there.
ReplyIds == {"00", "21", "30", "31", "81"}

ReplyId(c, spiOk) ==
  CASE c.rid = "01" /\ Acknowledged(c, spiOk) -> "21"
    [] c.rid = "80" /\ c.sub # "other" -> "81"
    [] c.rid = "10" -> "30"
    [] c.rid = "11" -> "31"
    [] OTHER -> "00"

Tags == {"zero", "axes"} \cup Subcommands

\* Who wrote bytes 13..47 of the reply.  The handlers of 0x01 write their
\* acknowledgement before they find out that they reject the argument.
ReplyBody(c) ==
  IF c.rid = "01" /\ c.sub \in Subcommands \ Unsupported
    THEN c.sub ELSE "zero"

\* The regions behind byte 47, where nothing is cleared, that the data of a
\* flash read reach: byte 48, byte 49, bytes 50..56, bytes 57..360.
FlashReach(size) ==
  CASE size = "full" -> {"tail"}
    [] size = "over" -> {"tail", "mcu"}
    [] size = "header" -> {"tail", "mcu", "rest"}
    [] size = "long" -> {"tail", "mcu", "rest", "data"}
    [] OTHER -> {}

\* The regions behind byte 47 that the handler of a command writes.
Overrun(c, spiOk) ==
  CASE c.rid = "01" /\ c.sub = "10" /\ spiOk -> FlashReach(c.arg)
    [] c.rid = "01" /\ c.sub = "21" -> {"tail"}
    [] OTHER -> {}

\* The requests that must (re)start the periodic push.
StartsPush(c) ==
  \/ c.rid = "80" /\ c.sub = "04"
  \/ c.rid = "01" /\ c.sub = "03" /\ c.arg = "30"
=============================================================================
