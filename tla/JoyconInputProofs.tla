-------------------------- MODULE JoyconInputProofs -------------------------
(***************************************************************************)
(* Proofs about the input of the player and its packing, for every set of  *)
(* buttons, every position of the sticks and every sample of the sensors.  *)
(***************************************************************************)
EXTENDS JoyconInput, TLAPS

-----------------------------------------------------------------------------
(* Packing.                                                                *)

\* Two coordinates come out of their three bytes modulo 4096,
\* neither disturbed by the other.
LEMMA StickRoundTrip ==
  ASSUME NEW x \in Nat, NEW y \in Nat
  PROVE  ShownStick(StickBytes(x, y)) = [x |-> x % 4096, y |-> y % 4096]
<1> DEFINE b == ((x \div 256) % 16) + ((y * 16) % 256)
<1>1. b % 16 = (x \div 256) % 16
  OBVIOUS
<1>2. (x % 256) + 256 * ((x \div 256) % 16) = x % 4096
  OBVIOUS
<1>3. b \div 16 = y % 16
  OBVIOUS
<1>4. (y % 16) + 16 * ((y \div 16) % 256) = y % 4096
  OBVIOUS
<1>5. /\ StickBytes(x, y)[1] = x % 256
      /\ StickBytes(x, y)[2] = b
      /\ StickBytes(x, y)[3] = (y \div 16) % 256
  BY DEF StickBytes
<1> HIDE DEF b
<1>6. ShownStick(StickBytes(x, y)).x = x % 4096
  BY <1>1, <1>2, <1>5 DEF ShownStick
<1>7. ShownStick(StickBytes(x, y)).y = y % 4096
  BY <1>3, <1>4, <1>5 DEF ShownStick
<1>8. QED
  BY <1>6, <1>7 DEF ShownStick

\* The high byte of a short is signed, the low byte is not.
LEMMA BytesOfShort ==
  ASSUME NEW v \in Shorts
  PROVE  /\ v = 256 * (v \div 256) + (v % 256)
         /\ v \div 256 \in -128..127
         /\ v % 256 \in 0..255
<1>1. v % 256 \in 0..255
  BY DEF Shorts
<1>2. v = 256 * (v \div 256) + (v % 256)
  BY DEF Shorts
<1>3. v \div 256 \in -128..127
  BY DEF Shorts
<1>4. QED
  BY <1>1, <1>2, <1>3

LEMMA ShortOfBytes ==
  ASSUME NEW q \in -128..127, NEW r \in 0..255
  PROVE  Signed(r + 256 * (q % 256)) = 256 * q + r
<1>1. CASE q >= 0
  <2>1. q % 256 = q
    BY <1>1
  <2>2. r + 256 * (q % 256) = 256 * q + r /\ 256 * q + r < 32768
    BY <2>1
  <2>3. QED
    BY <2>2 DEF Signed
<1>2. CASE q < 0
  <2>1. q % 256 = q + 256
    BY <1>2
  <2>2. /\ r + 256 * (q % 256) = (256 * q + r) + 65536
        /\ (256 * q + r) + 65536 >= 32768
        /\ ((256 * q + r) + 65536) - 65536 = 256 * q + r
    BY <2>1
  <2>3. QED
    BY <2>2 DEF Signed
<1>3. QED
  BY <1>1, <1>2

\* A short comes out of its two bytes, the sign included.
LEMMA ShortRoundTrip ==
  ASSUME NEW v \in Shorts
  PROVE  Signed((v % 256) + 256 * ((v \div 256) % 256)) = v
<1>1. Signed((v % 256) + 256 * ((v \div 256) % 256))
        = 256 * (v \div 256) + (v % 256)
  <2>1. v \div 256 \in -128..127 /\ v % 256 \in 0..255
    BY BytesOfShort
  <2>2. \A q \in -128..127, r \in 0..255 :
          Signed(r + 256 * (q % 256)) = 256 * q + r
    BY ShortOfBytes
  <2>3. QED
    BY <2>1, <2>2, Zenon
<1>2. QED
  BY <1>1, BytesOfShort

\* Every button comes out of the three bytes as itself.
LEMMA ButtonRoundTrip ==
  ASSUME NEW b \in SUBSET ButtonBits
  PROVE  ShownButtons([k \in 0..2 |-> ButtonByte(b, k)]) = b
<1>1. ASSUME NEW n \in b
      PROVE  n \in ShownButtons([k \in 0..2 |-> ButtonByte(b, k)])
  <2>1. PICK k \in 0..2 : n \in (8 * k)..(8 * k + 7)
    <3>1. n \in 0..23
      BY <1>1 DEF ButtonBits
    <3>2. n \in 0..7 \/ n \in 8..15 \/ n \in 16..23
      BY <3>1
    <3>3. QED
      BY <3>2
  <2>2. n - 8 * k \in ButtonByte(b, k) /\ (n - 8 * k) + 8 * k = n
    BY <2>1 DEF ButtonByte
  <2>3. QED
    BY <2>2 DEF ShownButtons
<1>2. ASSUME NEW m \in ShownButtons([k \in 0..2 |-> ButtonByte(b, k)])
      PROVE  m \in b
  <2>1. PICK k \in 0..2, n \in b : n \in ButtonBits /\ m = (n - 8 * k) + 8 * k
    BY <1>2 DEF ShownButtons, ButtonByte
  <2>2. m = n
    BY <2>1 DEF ButtonBits
  <2>3. QED
    BY <2>2
<1>3. QED
  BY <1>1, <1>2

LEMMA WrapIsShort ==
  ASSUME NEW v \in Int
  PROVE  Wrap(v) \in Shorts
BY DEF Wrap, Shorts

\* Each axis is shown in the slot, at the sensor and in the direction it has.
LEMMA SampleRoundTrip ==
  ASSUME NEW a \in [0..17 -> Shorts], NEW i \in 0..2, NEW s \in 0..1
  PROVE  ShownSample(AxesBytes(a), i, s) = [d \in Axis |-> a[6 * i + 3 * s + d]]
<1>1. ASSUME NEW d \in Axis
      PROVE  LET p == 12 * i + 6 * s + 2 * d
             IN  Signed(AxesBytes(a)[p] + 256 * AxesBytes(a)[p + 1])
                   = a[6 * i + 3 * s + d]
  <2> DEFINE p == 12 * i + 6 * s + 2 * d
             n == 6 * i + 3 * s + d
  <2>1. p \in 0..35 /\ p + 1 \in 0..35 /\ p % 2 = 0 /\ (p + 1) % 2 = 1 /\ n \in 0..17
    BY DEF Axis
  <2>2. /\ p \div 12 = i /\ p % 12 = 6 * s + 2 * d
        /\ (p + 1) \div 12 = i /\ (p + 1) % 12 = 6 * s + 2 * d + 1
    BY DEF Axis
  <2>3. AxisOf(p) = n /\ AxisOf(p + 1) = n
    <3>1. CASE s = 0
      BY <3>1, <2>2 DEF Axis, AxisOf
    <3>2. CASE s = 1
      BY <3>2, <2>2 DEF Axis, AxisOf
    <3>3. QED
      BY <3>1, <3>2
  <2>4. /\ AxesBytes(a)[p] = a[n] % 256
        /\ AxesBytes(a)[p + 1] = (a[n] \div 256) % 256
    BY <2>1, <2>3 DEF AxesBytes, ByteAt
  <2>5. a[n] \in Shorts
    BY <2>1
  <2>6. QED
    BY <2>4, <2>5, ShortRoundTrip
<1>2. QED
  BY <1>1 DEF ShownSample

-----------------------------------------------------------------------------
(* Type correctness.                                                       *)

LEMMA SetAxesAt ==
  ASSUME NEW a \in [0..17 -> Shorts], axes = a,
         NEW slot \in 0..2, NEW s \in 0..1, NEW v \in [Axis -> Int]
  PROVE  /\ SetAxes(slot, s, v) \in [0..17 -> Shorts]
         /\ \A i \in 0..2, t \in 0..1, d \in Axis :
              SetAxes(slot, s, v)[6 * i + 3 * t + d]
                = IF i = slot /\ t = s THEN Wrap(v[d]) ELSE a[6 * i + 3 * t + d]
<1>1. \A d \in Axis : Short(v)[d] = Wrap(v[d]) /\ Short(v)[d] \in Shorts
  BY WrapIsShort DEF Short
<1>2. ASSUME NEW n \in 0..17
      PROVE  SetAxes(slot, s, v)[n] \in Shorts
  <2>1. n \in (6 * slot + 3 * s)..(6 * slot + 3 * s + 2)
          => n - 6 * slot - 3 * s \in Axis
    BY DEF Axis
  <2>2. QED
    BY <1>1, <2>1 DEF SetAxes
<1>3. ASSUME NEW i \in 0..2, NEW t \in 0..1, NEW d \in Axis
      PROVE  SetAxes(slot, s, v)[6 * i + 3 * t + d]
               = IF i = slot /\ t = s THEN Wrap(v[d]) ELSE a[6 * i + 3 * t + d]
  <2> DEFINE n == 6 * i + 3 * t + d
  <2>1. n \in 0..17
    BY DEF Axis
  <2>2. CASE i = slot /\ t = s
    <3>1. n \in (6 * slot + 3 * s)..(6 * slot + 3 * s + 2) /\ n - 6 * slot - 3 * s = d
      BY <2>2 DEF Axis
    <3>2. QED
      BY <1>1, <2>1, <2>2, <3>1 DEF SetAxes
  <2>3. CASE ~(i = slot /\ t = s)
    <3>1. n \notin (6 * slot + 3 * s)..(6 * slot + 3 * s + 2)
      BY <2>3 DEF Axis
    <3>2. QED
      BY <2>1, <2>3, <3>1 DEF SetAxes
  <2>4. QED
    BY <2>2, <2>3
<1>4. QED
  BY <1>2, <1>3 DEF SetAxes

LEMMA LatestType ==
  ASSUME NEW last \in [0..2 -> [Axis -> Int]], NEW v \in [Axis -> Int]
  PROVE  Latest(last, v) \in [0..2 -> [Axis -> Int]]
BY DEF Latest

LEMMA SetStickType ==
  ASSUME sticks \in [0..3 -> StickRange], NEW at \in [x : StickRange, y : StickRange],
         NEW f \in {0, 2}
  PROVE  SetStick(f, at) \in [0..3 -> StickRange]
BY DEF SetStick

LEMMA InputTypeStep ==
  ASSUME InputTypeOK, [InputNext]_inputVars
  PROVE  InputTypeOK'
<1> USE DEF InputTypeOK
<1>1. CASE \E b \in Buttons : Touch(b) \/ Lift(b) \/ Cancel(b)
  BY <1>1 DEF Touch, Lift, Cancel, stickVars, imuVars
<1>2. CASE \E at \in Positions : MoveLeft(at) \/ MoveRight(at)
  BY <1>2, InputAssumption, SetStickType DEF MoveLeft, MoveRight, imuVars, playVars
<1>3. CASE \E v \in Samples : Accelerate(v)
  <2>1. PICK v \in Samples : Accelerate(v)
    BY <1>3
  <2>2. v \in [Axis -> Int] /\ axes \in [0..17 -> Shorts]
    BY InputAssumption
  <2>3. axes' \in [0..17 -> Shorts] /\ accl' \in [0..2 -> [Axis -> Int]]
    BY <2>1, <2>2, SetAxesAt, LatestType DEF Accelerate
  <2>4. acclPos' \in 0..2
    BY <2>1 DEF Accelerate, Next3
  <2>5. QED
    BY <2>1, <2>3, <2>4 DEF Accelerate, stickVars, playVars
<1>4. CASE \E v \in Samples : Rotate(v)
  <2>1. PICK v \in Samples : Rotate(v)
    BY <1>4
  <2>2. v \in [Axis -> Int] /\ axes \in [0..17 -> Shorts]
    BY InputAssumption
  <2>3. axes' \in [0..17 -> Shorts] /\ gyro' \in [0..2 -> [Axis -> Int]]
    BY <2>1, <2>2, SetAxesAt, LatestType DEF Rotate
  <2>4. gyroPos' \in 0..2
    BY <2>1 DEF Rotate, Next3
  <2>5. QED
    BY <2>1, <2>3, <2>4 DEF Rotate, stickVars, playVars
<1>5. CASE \E on \in BOOLEAN : EnableImu(on)
  BY <1>5 DEF EnableImu, stickVars, imuVars, playVars
<1>6. CASE UNCHANGED inputVars
  BY <1>6 DEF inputVars, stickVars, imuVars, playVars
<1>7. QED
  BY <1>1, <1>2, <1>3, <1>4, <1>5, <1>6 DEF InputNext

\* Every variable keeps its type: in particular what is stored of a sample fits
\* a short, whatever the sensor reports.
THEOREM InputTypeCorrect == InputSpec => []InputTypeOK
<1>1. ASSUME InputInit PROVE InputTypeOK
  <2>1. Middle \in StickRange /\ 0 \in Shorts /\ NoSample \in [Axis -> Int]
    BY DEF Middle, StickRange, Shorts, NoSample
  <2>2. /\ sticks \in [0..3 -> StickRange]
        /\ leftAt \in [x : StickRange, y : StickRange]
        /\ rightAt \in [x : StickRange, y : StickRange]
    BY <1>1, <2>1 DEF InputInit
  <2>3. /\ axes \in [0..17 -> Shorts]
        /\ accl \in [0..2 -> [Axis -> Int]] /\ gyro \in [0..2 -> [Axis -> Int]]
    BY <1>1, <2>1 DEF InputInit
  <2>4. imu \in BOOLEAN
    BY <1>1 DEF InputInit
  <2>5. /\ buttons \subseteq Buttons /\ touched \subseteq Buttons
        /\ cancelled \subseteq Buttons
        /\ acclPos \in 0..2 /\ gyroPos \in 0..2
    BY <1>1 DEF InputInit
  <2>6. QED
    BY <2>2, <2>3, <2>4, <2>5 DEF InputTypeOK
<1>2. QED
  BY <1>1, InputTypeStep, PTL DEF InputSpec

-----------------------------------------------------------------------------
(* Buttons.                                                                *)

\* No button is both held and left down by a cancelled touch.
Held ==
  /\ buttons = touched \cup cancelled
  /\ touched \cap cancelled = {}

\* A report shows the buttons that are held and those a cancelled touch left
\* down, for every set of buttons.
THEOREM ButtonsReportedHolds == InputSpec => []ButtonsReported
<1>1. InputInit => Held
  BY DEF InputInit, Held
<1>2. Held /\ [InputNext]_inputVars => Held'
  <2> SUFFICES ASSUME Held, [InputNext]_inputVars PROVE Held'
    OBVIOUS
  <2>1. CASE \E b \in Buttons : Touch(b) \/ Lift(b) \/ Cancel(b)
    BY <2>1 DEF Held, Touch, Lift, Cancel
  <2>2. CASE UNCHANGED <<buttons, touched, cancelled>>
    BY <2>2 DEF Held
  <2>3. QED
    BY <2>1, <2>2 DEF InputNext, MoveLeft, MoveRight, Accelerate, Rotate,
       EnableImu, inputVars, playVars
<1>3. Held /\ InputTypeOK => ButtonsReported
  <2> SUFFICES ASSUME Held, InputTypeOK PROVE ButtonsReported
    OBVIOUS
  <2>1. buttons \in SUBSET ButtonBits
    BY InputAssumption DEF InputTypeOK
  <2>2. ShownButtons(Report.buttons) = buttons
    BY <2>1, ButtonRoundTrip DEF Report
  <2>3. QED
    BY <2>2 DEF Held, ButtonsReported
<1>4. QED
  BY <1>1, <1>2, <1>3, InputTypeCorrect, PTL DEF InputSpec

-----------------------------------------------------------------------------
(* Sticks.                                                                 *)

Stored ==
  /\ sticks[0] = leftAt.x /\ sticks[1] = leftAt.y
  /\ sticks[2] = rightAt.x /\ sticks[3] = rightAt.y

\* A report shows each coordinate of each stick modulo 4096.
THEOREM SticksReportedHolds == InputSpec => []SticksReported
<1>1. InputInit => Stored
  BY DEF InputInit, Stored
<1>2. InputTypeOK /\ Stored /\ [InputNext]_inputVars => Stored'
  <2> SUFFICES ASSUME InputTypeOK, Stored, [InputNext]_inputVars PROVE Stored'
    OBVIOUS
  <2>1. CASE \E at \in Positions : MoveLeft(at) \/ MoveRight(at)
    BY <2>1 DEF Stored, MoveLeft, MoveRight, SetStick, InputTypeOK
  <2>2. CASE UNCHANGED stickVars
    BY <2>2 DEF Stored, stickVars
  <2>3. QED
    BY <2>1, <2>2 DEF InputNext, Touch, Lift, Cancel, Accelerate, Rotate,
       EnableImu, inputVars
<1>3. Stored /\ InputTypeOK => SticksReported
  <2> SUFFICES ASSUME Stored, InputTypeOK PROVE SticksReported
    OBVIOUS
  <2>1. \A n \in 0..3 : sticks[n] \in StickRange
    BY DEF InputTypeOK
  <2>2. \A n \in 0..3 : sticks[n] \in Nat
    <3>1. \A m \in StickRange : m \in Nat
      BY DEF StickRange
    <3>2. QED
      BY <2>1, <3>1
  <2>3. /\ Report.left = StickBytes(sticks[0], sticks[1])
        /\ Report.right = StickBytes(sticks[2], sticks[3])
    BY DEF Report
  <2>4. /\ ShownStick(Report.left) = [x |-> sticks[0] % 4096, y |-> sticks[1] % 4096]
        /\ ShownStick(Report.right) = [x |-> sticks[2] % 4096, y |-> sticks[3] % 4096]
    BY <2>2, <2>3, StickRoundTrip
  <2>5. QED
    BY <2>4 DEF Stored, SticksReported
<1>4. QED
  BY <1>1, <1>2, <1>3, InputTypeCorrect, PTL DEF InputSpec

-----------------------------------------------------------------------------
(* Samples.                                                                *)

\* The slot of the sample that is k samples old, when the next goes to pos.
Slot(pos, k) == (pos + 2 - k) % 3

Ring(last, pos, s) ==
  \A k \in 0..2, d \in Axis : axes[6 * Slot(pos, k) + 3 * s + d] = Wrap(last[k][d])

Rings == Ring(accl, acclPos, 0) /\ Ring(gyro, gyroPos, 1)

LEMMA SlotMoves ==
  ASSUME NEW pos \in 0..2, NEW k \in 0..2
  PROVE  /\ Slot(pos, k) \in 0..2
         /\ Slot(Next3(pos), 0) = pos
         /\ k > 0 => /\ k - 1 \in 0..2
                     /\ Slot(Next3(pos), k) = Slot(pos, k - 1)
                     /\ Slot(pos, k - 1) # pos
BY DEF Slot, Next3

\* A sample of one sensor moves its ring on and leaves the other's alone.
LEMMA RingStep ==
  ASSUME InputTypeOK, NEW v \in [Axis -> Int], NEW pos \in 0..2,
         NEW last \in [0..2 -> [Axis -> Int]], NEW s \in 0..1, Ring(last, pos, s),
         NEW opos, NEW olast, NEW t \in 0..1, opos \in 0..2, t # s,
         Ring(olast, opos, t),
         axes' = SetAxes(pos, s, v)
  PROVE  /\ \A k \in 0..2, d \in Axis :
              axes'[6 * Slot(Next3(pos), k) + 3 * s + d]
                = Wrap(Latest(last, v)[k][d])
         /\ \A k \in 0..2, d \in Axis :
              axes'[6 * Slot(opos, k) + 3 * t + d] = Wrap(olast[k][d])
<1>1. axes \in [0..17 -> Shorts]
  BY DEF InputTypeOK
<1>2. \A i \in 0..2, u \in 0..1, d \in Axis :
        axes'[6 * i + 3 * u + d]
          = IF i = pos /\ u = s THEN Wrap(v[d]) ELSE axes[6 * i + 3 * u + d]
  BY <1>1, SetAxesAt
<1>3. ASSUME NEW k \in 0..2, NEW d \in Axis
      PROVE  axes'[6 * Slot(Next3(pos), k) + 3 * s + d] = Wrap(Latest(last, v)[k][d])
  <2>1. CASE k = 0
    <3>1. Slot(Next3(pos), k) = pos
      BY <2>1, SlotMoves
    <3>2. axes'[6 * pos + 3 * s + d] = Wrap(v[d])
      BY <1>2
    <3>3. Latest(last, v)[k] = v
      BY <2>1 DEF Latest
    <3>4. QED
      BY <3>1, <3>2, <3>3
  <2>2. CASE k > 0
    <3>1. /\ k - 1 \in 0..2
          /\ Slot(Next3(pos), k) = Slot(pos, k - 1)
          /\ Slot(pos, k - 1) # pos
      BY <2>2, SlotMoves
    <3>2. Slot(pos, k - 1) \in 0..2
      BY <3>1, SlotMoves
    <3>3. axes'[6 * Slot(pos, k - 1) + 3 * s + d]
            = axes[6 * Slot(pos, k - 1) + 3 * s + d]
      BY <1>2, <3>1, <3>2
    <3>4. axes[6 * Slot(pos, k - 1) + 3 * s + d] = Wrap(last[k - 1][d])
      BY <3>1 DEF Ring
    <3>5. Latest(last, v)[k] = last[k - 1]
      BY <2>2 DEF Latest
    <3>6. QED
      BY <3>1, <3>3, <3>4, <3>5
  <2>3. QED
    BY <2>1, <2>2
<1>4. ASSUME NEW k \in 0..2, NEW d \in Axis
      PROVE  axes'[6 * Slot(opos, k) + 3 * t + d] = Wrap(olast[k][d])
  <2>1. Slot(opos, k) \in 0..2
    BY SlotMoves
  <2>2. axes'[6 * Slot(opos, k) + 3 * t + d] = axes[6 * Slot(opos, k) + 3 * t + d]
    BY <1>2, <2>1
  <2>3. QED
    BY <2>2 DEF Ring
<1>5. QED
  BY <1>3, <1>4

\* A report holds the last three samples of each sensor, each whole and in its
\* own slot, in ring order, for every sequence of samples.
THEOREM SamplesReportedHolds == InputSpec => []SamplesReported
<1>1. InputInit => Rings
  <2> SUFFICES ASSUME InputInit PROVE Rings
    OBVIOUS
  <2>1. Wrap(0) = 0
    BY DEF Wrap
  <2>2. ASSUME NEW k \in 0..2, NEW d \in Axis, NEW s \in 0..1
        PROVE  axes[6 * Slot(0, k) + 3 * s + d] = 0
    <3>1. Slot(0, k) \in 0..2
      BY SlotMoves
    <3>2. 6 * Slot(0, k) + 3 * s + d \in 0..17
      BY <3>1 DEF Axis
    <3>3. QED
      BY <3>2 DEF InputInit
  <2>3. \A k \in 0..2, d \in Axis : accl[k][d] = 0 /\ gyro[k][d] = 0
    BY DEF InputInit, NoSample
  <2>4. acclPos = 0 /\ gyroPos = 0 /\ 0 \in 0..1 /\ 1 \in 0..1
    BY DEF InputInit
  <2>5. QED
    BY <2>1, <2>2, <2>3, <2>4 DEF Rings, Ring
<1>2. InputTypeOK /\ Rings /\ [InputNext]_inputVars => Rings'
  <2> SUFFICES ASSUME InputTypeOK, Rings, [InputNext]_inputVars PROVE Rings'
    OBVIOUS
  <2>1. CASE \E v \in Samples : Accelerate(v)
    <3>1. PICK v \in Samples : Accelerate(v)
      BY <2>1
    <3>2. v \in [Axis -> Int]
      BY InputAssumption
    <3>3. /\ Ring(accl, acclPos, 0) /\ Ring(gyro, gyroPos, 1)
          /\ axes' = SetAxes(acclPos, 0, v)
          /\ acclPos \in 0..2 /\ gyroPos \in 0..2
          /\ accl \in [0..2 -> [Axis -> Int]] /\ 0 \in 0..1 /\ 1 \in 0..1 /\ 0 # 1
      BY <3>1 DEF Rings, Accelerate, InputTypeOK
    <3>4. /\ \A k \in 0..2, d \in Axis :
               axes'[6 * Slot(Next3(acclPos), k) + 3 * 0 + d] = Wrap(Latest(accl, v)[k][d])
          /\ \A k \in 0..2, d \in Axis :
               axes'[6 * Slot(gyroPos, k) + 3 * 1 + d] = Wrap(gyro[k][d])
      BY <3>2, <3>3, RingStep
    <3>5. /\ acclPos' = Next3(acclPos) /\ accl' = Latest(accl, v)
          /\ gyroPos' = gyroPos /\ gyro' = gyro
      BY <3>1 DEF Accelerate
    <3>6. QED
      BY <3>4, <3>5 DEF Rings, Ring, Slot
  <2>2. CASE \E v \in Samples : Rotate(v)
    <3>1. PICK v \in Samples : Rotate(v)
      BY <2>2
    <3>2. v \in [Axis -> Int]
      BY InputAssumption
    <3>3. /\ Ring(gyro, gyroPos, 1) /\ Ring(accl, acclPos, 0)
          /\ axes' = SetAxes(gyroPos, 1, v)
          /\ acclPos \in 0..2 /\ gyroPos \in 0..2
          /\ gyro \in [0..2 -> [Axis -> Int]] /\ 0 \in 0..1 /\ 1 \in 0..1 /\ 0 # 1
      BY <3>1 DEF Rings, Rotate, InputTypeOK
    <3>4. /\ \A k \in 0..2, d \in Axis :
               axes'[6 * Slot(Next3(gyroPos), k) + 3 * 1 + d] = Wrap(Latest(gyro, v)[k][d])
          /\ \A k \in 0..2, d \in Axis :
               axes'[6 * Slot(acclPos, k) + 3 * 0 + d] = Wrap(accl[k][d])
      BY <3>2, <3>3, RingStep
    <3>5. /\ gyroPos' = Next3(gyroPos) /\ gyro' = Latest(gyro, v)
          /\ acclPos' = acclPos /\ accl' = accl
      BY <3>1 DEF Rotate
    <3>6. QED
      BY <3>4, <3>5 DEF Rings, Ring, Slot
  <2>3. CASE UNCHANGED imuVars
    BY <2>3 DEF Rings, Ring, Slot, imuVars
  <2>4. QED
    BY <2>1, <2>2, <2>3 DEF InputNext, Touch, Lift, Cancel, MoveLeft, MoveRight,
       EnableImu, inputVars
<1>3. Rings /\ InputTypeOK => SamplesReported
  <2> SUFFICES ASSUME Rings, InputTypeOK, imu PROVE InRing(accl, 0) /\ InRing(gyro, 1)
    BY DEF SamplesReported
  <2>1. axes \in [0..17 -> Shorts] /\ Report.axes = AxesBytes(axes)
    BY DEF InputTypeOK, Report
  <2>2. ASSUME NEW pos \in 0..2, NEW last \in [0..2 -> [Axis -> Int]],
               NEW s \in 0..1, Ring(last, pos, s)
        PROVE  InRing(last, s)
    <3> DEFINE r == (pos + 2) % 3
    <3>1. r \in 0..2 /\ \A k \in 0..2 : (r + 3 - k) % 3 = Slot(pos, k)
      BY DEF Slot
    <3> HIDE DEF r
    <3>2. ASSUME NEW k \in 0..2
          PROVE  ShownSample(Report.axes, Slot(pos, k), s) = Short(last[k])
      <4>1. Slot(pos, k) \in 0..2
        BY SlotMoves
      <4>2. ShownSample(Report.axes, Slot(pos, k), s)
              = [d \in Axis |-> axes[6 * Slot(pos, k) + 3 * s + d]]
        BY <2>1, <4>1, SampleRoundTrip
      <4>3. QED
        BY <2>2, <4>2 DEF Ring, Short
    <3>3. QED
      BY <3>1, <3>2 DEF InRing
  <2>3. QED
    BY <2>2 DEF Rings, InputTypeOK
<1>4. QED
  BY <1>1, <1>2, <1>3, InputTypeCorrect, PTL DEF InputSpec
=============================================================================
