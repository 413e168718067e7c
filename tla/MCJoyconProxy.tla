--------------------------- MODULE MCJoyconProxy ----------------------------
(* The proxy with a few commands: both ways to start the push, a way to turn *)
(* NFC/IR on, and a status change that asks for neither.                     *)
EXTENDS JoyconProxy

Standard == Cmd("01", "03", "30", {})
Usb04    == Cmd("80", "04", "any", {})
Nfc      == Cmd("01", "03", "31", {})
Light1   == Cmd("01", "30", "any", {1})

SafetyCommands == {Standard, Usb04, Nfc, Light1}

ImuOn    == Cmd("01", "40", "1", {})

\* Enough to arm, to re-arm, to change the pushed id and to have the sensors
\* reported; liveness checking is dear.
LiveCommands == {Nfc, ImuOn}

\* Simple HID mode, and nothing that arms the timer.
Simple == Cmd("01", "03", "3F", {})

SimpleCommands == {Simple}
=============================================================================
