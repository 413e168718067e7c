---------------------------- MODULE JoyconInput -----------------------------
(***************************************************************************)
(* What the player does and what an input report shows of it: the buttons  *)
(* and sticks of the game pad, the motion sensors, the part of jc_input_t  *)
(* they are kept in, and the packing of jni/joycon_report.c.               *)
(*                                                                         *)
(* The setters are those of the Joycon class, which comes as a library.  A *)
(* number of buttons is the set of its bits; the bytes of sticks and axes  *)
(* are numbers, and | of bits that do not meet is a sum.                   *)
(***************************************************************************)
EXTENDS Integers

CONSTANTS
  Buttons,      \* buttons of the screen, as bits
  Positions,    \* positions of a stick
  Samples       \* samples of a sensor, before they are stored

\* NS_BTN_MASK_Y is bit 0, NS_BTN_MASK_ZL bit 23.
ButtonBits == 0..23

\* Half of 4096 either way of the middle: both ends are reached.
StickRange == 0..4096

Axis == 0..2

\* int16_t.
Shorts == {v \in Int : -32768 <= v /\ v <= 32767}

ASSUME InputAssumption ==
  /\ Buttons \subseteq ButtonBits
  /\ Positions \subseteq [x : StickRange, y : StickRange]
  /\ Samples \subseteq [Axis -> Int]

VARIABLES
  buttons,      \* jc_input_t.buttons
  sticks,       \* jc_input_t.sticks: left x, y, right x, y
  axes,         \* jc_input_t.axes: three slots of acceleration and rotation
  acclPos,      \* slot the next acceleration goes to
  gyroPos,      \* slot the next rotation goes to
  imu,          \* the console has enabled the motion sensors
  touched,      \* buttons with a finger on them
  cancelled,    \* buttons whose last touch was cancelled
  leftAt,       \* where the left stick is
  rightAt,      \* where the right stick is
  accl,         \* last three accelerations, the latest first
  gyro          \* last three rotations, the latest first

playVars == <<touched, cancelled>>
stickVars == <<sticks, leftAt, rightAt>>
imuVars == <<axes, acclPos, gyroPos, accl, gyro>>
inputVars == <<buttons, stickVars, imuVars, imu, playVars>>

-----------------------------------------------------------------------------
(* Faulty variants of definitions below: each breaks a property of the last  *)
(* section when it takes the place of the definition it is named after.      *)

StickBytesLowNibble(x, y) ==
  <<x % 256, (x % 16) + ((y * 16) % 256), (y \div 16) % 256>>

AxisOfAcclOnly(p) == (p \div 12) * 6 + ((p % 6) \div 2)

NextNoWrap(pos) == IF pos = 2 THEN 1 ELSE pos + 1

ButtonByteUnshifted(b, k) == b \cap (8 * k)..(8 * k + 7)

WrapNot(v) == v

-----------------------------------------------------------------------------
(* Packing.                                                                *)

\* update_buttons: byte k of the three.
ButtonByte(b, k) == {n - 8 * k : n \in b \cap (8 * k)..(8 * k + 7)}

\* update_sticks: the two coordinates of a stick in three bytes.
StickBytes(x, y) ==
  <<x % 256,
    ((x \div 256) % 16) + ((y * 16) % 256),
    (y \div 16) % 256>>

\* update_axes: the axis whose byte goes to place p.
AxisOf(p) ==
  LET i == p \div 12
      j == p % 12
  IN  IF j < 6 THEN i * 6 + (j \div 2) ELSE i * 6 + ((j - 6) \div 2) + 3

\* The low byte of a short at even places, the high byte at odd ones.
ByteAt(v, p) == IF p % 2 = 0 THEN v % 256 ELSE (v \div 256) % 256

AxesBytes(a) == [p \in 0..35 |-> ByteAt(a[AxisOf(p)], p)]

\* jc_makeup_input_report, as far as the player can tell.
Report ==
  [buttons |-> [k \in 0..2 |-> ButtonByte(buttons, k)],
   left    |-> StickBytes(sticks[0], sticks[1]),
   right   |-> StickBytes(sticks[2], sticks[3]),
   axes    |-> IF imu THEN AxesBytes(axes) ELSE [p \in 0..35 |-> 0]]

-----------------------------------------------------------------------------
(* The console's side: what the bytes of a report say.                     *)

ShownButtons(bytes) ==
  UNION {{n + 8 * k : n \in bytes[k]} : k \in 0..2}

ShownStick(b) ==
  [x |-> b[1] + 256 * (b[2] % 16), y |-> (b[2] \div 16) + 16 * b[3]]

Signed(n) == IF n < 32768 THEN n ELSE n - 65536

\* Acceleration (s = 0) or rotation (s = 1) of a slot.
ShownSample(bytes, slot, s) ==
  [d \in Axis |->
     LET p == 12 * slot + 6 * s + 2 * d
     IN  Signed(bytes[p] + 256 * bytes[p + 1])]

-----------------------------------------------------------------------------
(* The setters of the Joycon class.                                        *)

\* setLStick and setRStick: two of the four shorts, from the first on.
SetStick(first, at) ==
  [sticks EXCEPT ![first] = at.x, ![first + 1] = at.y]

\* The short that is left of an int.
Wrap(v) == ((v + 32768) % 65536) - 32768

Short(v) == [d \in Axis |-> Wrap(v[d])]

\* setAccelerate (s = 0) and setGyroscope (s = 1): the three shorts of a slot.
SetAxes(slot, s, v) ==
  [n \in 0..17 |->
     IF n \in (6 * slot + 3 * s)..(6 * slot + 3 * s + 2)
       THEN Short(v)[n - 6 * slot - 3 * s] ELSE axes[n]]

Next3(pos) == (pos + 1) % 3

Latest(last, v) == [k \in 0..2 |-> IF k = 0 THEN v ELSE last[k - 1]]

-----------------------------------------------------------------------------
(* Actions.                                                                *)

NoSample == [d \in Axis |-> 0]

Middle == 2048

\* The shared buffer is all zero; init of the Joycon class centres the sticks.
InputInit ==
  /\ buttons = {}
  /\ sticks = [n \in 0..3 |-> Middle]
  /\ axes = [n \in 0..17 |-> 0]
  /\ acclPos = 0
  /\ gyroPos = 0
  /\ imu = FALSE
  /\ touched = {} /\ cancelled = {}
  /\ leftAt = [x |-> Middle, y |-> Middle]
  /\ rightAt = [x |-> Middle, y |-> Middle]
  /\ accl = [k \in 0..2 |-> NoSample]
  /\ gyro = [k \in 0..2 |-> NoSample]

\* ACTION_DOWN: the button is set.
Touch(b) ==
  /\ b \notin touched
  /\ touched' = touched \cup {b}
  /\ cancelled' = cancelled \ {b}
  /\ buttons' = buttons \cup {b}
  /\ UNCHANGED <<stickVars, imuVars, imu>>

\* ACTION_UP: the button is cleared.
Lift(b) ==
  /\ b \in touched
  /\ touched' = touched \ {b}
  /\ buttons' = buttons \ {b}
  /\ UNCHANGED <<cancelled, stickVars, imuVars, imu>>

\* ACTION_CANCEL, as when the game pad is taken off the screen: nothing is done.
Cancel(b) ==
  /\ b \in touched
  /\ touched' = touched \ {b}
  /\ cancelled' = cancelled \cup {b}
  /\ UNCHANGED <<buttons, stickVars, imuVars, imu>>

\* onStickEvent.
MoveLeft(at) ==
  /\ leftAt' = at
  /\ sticks' = SetStick(0, at)
  /\ UNCHANGED <<buttons, rightAt, imuVars, imu, playVars>>

MoveRight(at) ==
  /\ rightAt' = at
  /\ sticks' = SetStick(2, at)
  /\ UNCHANGED <<buttons, leftAt, imuVars, imu, playVars>>

\* onSensorChanged, onImuEvent.
Accelerate(v) ==
  /\ accl' = Latest(accl, v)
  /\ axes' = SetAxes(acclPos, 0, v)
  /\ acclPos' = Next3(acclPos)
  /\ UNCHANGED <<gyroPos, gyro, buttons, stickVars, imu, playVars>>

Rotate(v) ==
  /\ gyro' = Latest(gyro, v)
  /\ axes' = SetAxes(gyroPos, 1, v)
  /\ gyroPos' = Next3(gyroPos)
  /\ UNCHANGED <<acclPos, accl, buttons, stickVars, imu, playVars>>

\* Sub-command 0x40.
EnableImu(on) ==
  /\ imu' = on
  /\ UNCHANGED <<buttons, stickVars, imuVars, playVars>>

InputNext ==
  \/ \E b \in Buttons : Touch(b) \/ Lift(b) \/ Cancel(b)
  \/ \E at \in Positions : MoveLeft(at) \/ MoveRight(at)
  \/ \E v \in Samples : Accelerate(v) \/ Rotate(v)
  \/ \E on \in BOOLEAN : EnableImu(on)

InputSpec == InputInit /\ [][InputNext]_inputVars

-----------------------------------------------------------------------------
(* Properties.                                                             *)

\* Every variable keeps its type.
InputTypeOK ==
  /\ buttons \subseteq Buttons
  /\ touched \subseteq Buttons /\ cancelled \subseteq Buttons
  /\ sticks \in [0..3 -> StickRange]
  /\ leftAt \in [x : StickRange, y : StickRange]
  /\ rightAt \in [x : StickRange, y : StickRange]
  /\ axes \in [0..17 -> Shorts]
  /\ acclPos \in 0..2 /\ gyroPos \in 0..2
  /\ imu \in BOOLEAN
  /\ accl \in [0..2 -> [Axis -> Int]] /\ gyro \in [0..2 -> [Axis -> Int]]

\* A report shows the buttons that are held, each as itself, and besides them
\* only those whose last touch was cancelled: they stay down until they are
\* touched again.
ButtonsReported ==
  ShownButtons(Report.buttons) = touched \cup cancelled

\* A report shows each stick where it is, whatever the other coordinates are,
\* but for the far end, which 12 bits cannot hold and which is shown as the
\* near one.
SticksReported ==
  /\ ShownStick(Report.left) = [x |-> leftAt.x % 4096, y |-> leftAt.y % 4096]
  /\ ShownStick(Report.right) = [x |-> rightAt.x % 4096, y |-> rightAt.y % 4096]

\* The three slots of a report are the last three samples in ring order, which
\* need not start with the latest, the same for both sensors, or one of them
\* ahead of the other; a slot never mixes two samples of a sensor.
InRing(last, s) ==
  \E r \in 0..2 : \A k \in 0..2 :
    ShownSample(Report.axes, (r + 3 - k) % 3, s) = Short(last[k])

SamplesReported == imu => InRing(accl, 0) /\ InRing(gyro, 1)
=============================================================================
