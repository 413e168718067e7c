----------------------------- MODULE PushSession -----------------------------
(***************************************************************************)
(* What the console is promised about the input reports it did not ask for *)
(* one by one: an abstract specification.  JoyconProxy implements it;      *)
(* Droidpro uses it in the place of the proxy's looper, timer and device.  *)
(*                                                                         *)
(* The push is armed or not.  While it is armed a timer asks for large     *)
(* reports, each of which is owed until it is sent or turns out to be a    *)
(* standard one.  Stopping forgives nothing that is owed and asks for      *)
(* nothing more; large reports need NFC/IR to have been turned on.         *)
(***************************************************************************)
EXTENDS Naturals

CONSTANT OwedCap    \* bound on the reports owed

VARIABLES
  nfc,     \* NFC/IR is on
  armed,   \* the periodic push is armed
  owed,    \* number of large reports that may still be sent
  sent     \* the last report sent: a push "30" or "31", or "none" of them

sessionVars == <<nfc, armed, owed, sent>>

SessionInit ==
  /\ nfc = FALSE
  /\ armed = FALSE
  /\ owed = 0
  /\ sent = "none"

\* An output report is answered.  One that turns NFC/IR on, or asks for the
\* push, arms it; with NFC/IR on, any change of the status does so again.
Answer ==
  /\ sent' = "none"
  /\ \/ UNCHANGED <<nfc, armed>>
     \/ nfc' \in {nfc, TRUE} /\ armed' = TRUE
  /\ UNCHANGED owed

\* The timer fires.
Fire ==
  /\ armed
  /\ owed < OwedCap
  /\ owed' = owed + 1
  /\ UNCHANGED <<nfc, armed, sent>>

\* A report that is owed is sent as a large one ...
PushLarge ==
  /\ nfc
  /\ owed > 0
  /\ owed' = owed - 1
  /\ sent' = "31"
  /\ UNCHANGED <<nfc, armed>>

\* ... or the timer asked for a standard one.
Lapse ==
  /\ owed > 0
  /\ owed' = owed - 1
  /\ UNCHANGED <<nfc, armed, sent>>

\* A standard report, asked for by the timer or by a tap on the screen.
PushStandard ==
  /\ sent' = "30"
  /\ UNCHANGED <<nfc, armed, owed>>

\* A pause or a lost connection.
Stop ==
  /\ armed' = FALSE
  /\ UNCHANGED <<nfc, owed, sent>>

\* The application is created or destroyed.
Rest ==
  /\ sent' = "none"
  /\ UNCHANGED <<nfc, armed, owed>>

SessionNext ==
  Answer \/ Fire \/ PushLarge \/ Lapse \/ PushStandard \/ Stop \/ Rest

SessionSpec == SessionInit /\ [][SessionNext]_sessionVars
=============================================================================
