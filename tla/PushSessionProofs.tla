------------------------- MODULE PushSessionProofs --------------------------
(***************************************************************************)
(* Proof that looper, timer threads and device together implement the push *)
(* session, for every set of commands and timers and every queue bound.    *)
(***************************************************************************)
EXTENDS JoyconProxyProofs, FiniteSetTheorems

-----------------------------------------------------------------------------
(* Counting messages of one sort in the queue.                             *)

Places(q, S) == {i \in DOMAIN q : q[i] \in S}

LEMMA PlacesFinite ==
  ASSUME NEW q \in Seq(Messages), NEW S
  PROVE  /\ IsFiniteSet(Places(q, S))
         /\ Cardinality(Places(q, S)) \in Nat
         /\ Cardinality(Places(q, S)) <= Len(q)
<1>1. Places(q, S) \in SUBSET (1..Len(q)) /\ Len(q) \in Nat
  BY LenProperties DEF Places
<1>2. IsFiniteSet(1..Len(q)) /\ Cardinality(1..Len(q)) = Len(q)
  <2>1. Len(q) \in Int /\ 1 \in Int
    BY <1>1
  <2>2. /\ IsFiniteSet(1..Len(q))
        /\ Cardinality(1..Len(q)) = IF 1 > Len(q) THEN 0 ELSE Len(q) - 1 + 1
    BY <2>1, FS_Interval, Zenon
  <2>3. QED
    BY <1>1, <2>2
<1>3. IsFiniteSet(Places(q, S)) /\ Cardinality(Places(q, S)) <= Cardinality(1..Len(q))
  BY <1>1, <1>2, FS_Subset
<1>4. QED
  BY <1>2, <1>3, FS_CardinalityType

\* Taking a message off the queue takes it out of the count.
LEMMA PlacesTail ==
  ASSUME NEW q \in Seq(Messages), q # <<>>, NEW S
  PROVE  Cardinality(Places(Tail(q), S))
           = IF Head(q) \in S THEN Cardinality(Places(q, S)) - 1
                              ELSE Cardinality(Places(q, S))
<1> DEFINE P == Places(q, S) \ {1}
           T == Places(Tail(q), S)
           f == [i \in P |-> i - 1]
<1>1. /\ Tail(q) \in Seq(Messages)
      /\ Len(q) \in Nat \ {0}
      /\ Len(Tail(q)) = Len(q) - 1
      /\ \A i \in 1..Len(Tail(q)) : Tail(q)[i] = q[i + 1]
  BY HeadTailProperties, LenProperties, EmptySeq
<1>2. DOMAIN q = 1..Len(q) /\ DOMAIN Tail(q) = 1..Len(q) - 1
  BY <1>1, LenProperties
<1>3. Head(q) = q[1]
  BY <1>1
<1>4. P = {i \in 2..Len(q) : q[i] \in S}
  BY <1>1, <1>2 DEF Places
<1>5. T = {i \in 1..Len(q) - 1 : q[i + 1] \in S}
  BY <1>1, <1>2 DEF Places
<1>6. f \in Bijection(P, T)
  <2>1. f \in [P -> T]
    BY <1>1, <1>4, <1>5
  <2>2. \A a, b \in P : f[a] = f[b] => a = b
    BY <1>4
  <2>3. \A t \in T : t + 1 \in P /\ f[t + 1] = t
    <3>1. TAKE t \in T
    <3>2. t \in Nat /\ t + 1 \in 2..Len(q) /\ q[t + 1] \in S
      BY <1>1, <1>5
    <3>3. t + 1 \in P
      BY <1>4, <3>2
    <3>4. QED
      BY <3>2, <3>3
  <2>4. QED
    BY <2>1, <2>2, <2>3 DEF Bijection, Injection, Surjection, IsInjective
<1>7. IsFiniteSet(P)
  BY PlacesFinite, FS_RemoveElement
<1>8. Cardinality(T) = Cardinality(P)
  BY <1>6, <1>7, FS_Bijection DEF ExistsBijection
<1>9. Cardinality(P) = IF 1 \in Places(q, S) THEN Cardinality(Places(q, S)) - 1
                                             ELSE Cardinality(Places(q, S))
  BY PlacesFinite, FS_RemoveElement
<1>10. 1 \in Places(q, S) <=> Head(q) \in S
  BY <1>1, <1>2, <1>3 DEF Places
<1>11. QED
  BY <1>8, <1>9, <1>10

\* A message that is posted is counted if it is of the sort.
LEMMA PlacesAppend ==
  ASSUME NEW q \in Seq(Messages), NEW m \in Messages, NEW S
  PROVE  Cardinality(Places(Append(q, m), S))
           = IF m \in S THEN Cardinality(Places(q, S)) + 1
                        ELSE Cardinality(Places(q, S))
<1> DEFINE n == Len(q) + 1
<1>1. /\ Len(q) \in Nat
      /\ DOMAIN q = 1..Len(q)
      /\ DOMAIN Append(q, m) = 1..n
      /\ \A i \in 1..Len(q) : Append(q, m)[i] = q[i]
      /\ Append(q, m)[n] = m
  BY AppendProperties, LenProperties
<1>2. n \notin Places(q, S)
  BY <1>1 DEF Places
<1>3. Places(Append(q, m), S) = IF m \in S THEN Places(q, S) \cup {n} ELSE Places(q, S)
  BY <1>1 DEF Places
<1>4. QED
  BY <1>2, <1>3, PlacesFinite, FS_AddElement

(* The large reports in the queue.                                         *)

Large(q) == {i \in DOMAIN q : q[i].id = "31"}

LargeMessages == {m \in Messages : m.id = "31"}

LEMMA LargePlaces ==
  ASSUME NEW q \in Seq(Messages)
  PROVE  Large(q) = Places(q, LargeMessages)
<1>1. \A i \in DOMAIN q : q[i] \in Messages
  BY LenProperties
<1>2. QED
  BY <1>1 DEF Large, Places, LargeMessages

LEMMA LargeFinite ==
  ASSUME NEW q \in Seq(Messages)
  PROVE  /\ IsFiniteSet(Large(q))
         /\ Cardinality(Large(q)) \in Nat
         /\ Cardinality(Large(q)) <= Len(q)
BY LargePlaces, PlacesFinite

LEMMA LargeTail ==
  ASSUME NEW q \in Seq(Messages), q # <<>>
  PROVE  Cardinality(Large(Tail(q)))
           = IF Head(q).id = "31" THEN Cardinality(Large(q)) - 1
                                  ELSE Cardinality(Large(q))
<1>1. Tail(q) \in Seq(Messages) /\ Head(q) \in Messages
  BY HeadTailProperties, LenProperties, EmptySeq
<1>2. Head(q) \in LargeMessages <=> Head(q).id = "31"
  BY <1>1 DEF LargeMessages
<1>3. Large(Tail(q)) = Places(Tail(q), LargeMessages)
  BY <1>1, LargePlaces
<1>4. QED
  BY <1>2, <1>3, LargePlaces, PlacesTail

LEMMA LargeAppend ==
  ASSUME NEW q \in Seq(Messages), NEW m \in Messages
  PROVE  Cardinality(Large(Append(q, m)))
           = IF m.id = "31" THEN Cardinality(Large(q)) + 1
                            ELSE Cardinality(Large(q))
<1>1. Append(q, m) \in Seq(Messages)
  BY AppendProperties
<1>2. m \in LargeMessages <=> m.id = "31"
  BY DEF LargeMessages
<1>3. Large(Append(q, m)) = Places(Append(q, m), LargeMessages)
  BY <1>1, LargePlaces
<1>4. QED
  BY <1>2, <1>3, LargePlaces, PlacesAppend

-----------------------------------------------------------------------------
(* Counting the tasks under way.                                           *)

LEMMA InFlightFinite ==
  /\ IsFiniteSet(InFlight)
  /\ Cardinality(InFlight) \in Nat
<1>1. InFlight \in SUBSET Timers
  BY DEF InFlight
<1>2. QED
  BY <1>1, TimersAssumption, FS_Subset, FS_CardinalityType

LEMMA OwedSplit ==
  /\ Owed = Cardinality(InFlight) + Cardinality(Large(queue))
  /\ Owed' = Cardinality(InFlight') + Cardinality(Large(queue'))
BY DEF Owed, LargeQueued, Large

LEMMA OwedType ==
  ASSUME ProxyTypeOK
  PROVE  Owed \in Nat
BY OwedSplit, InFlightFinite, LargeFinite DEF ProxyTypeOK

\* A task that starts is counted, one that is under way stays counted, one that
\* ends is not counted any more.
LEMMA InFlightMoves ==
  ASSUME ProxyTypeOK, NEW t \in Timers, NEW v \in {"idle", "started"} \cup PushIds,
         run' = [run EXCEPT ![t] = v]
  PROVE  /\ Cardinality(InFlight') =
              Cardinality(InFlight) + (IF v # "idle" THEN 1 ELSE 0)
                                    - (IF run[t] # "idle" THEN 1 ELSE 0)
         /\ Cardinality(InFlight') \in Nat
<1>1. run' = [x \in Timers |-> IF x = t THEN v ELSE run[x]]
  BY DEF ProxyTypeOK
<1>2. InFlight' = IF v # "idle" THEN InFlight \cup {t} ELSE InFlight \ {t}
  BY <1>1 DEF InFlight
<1>3. t \in InFlight <=> run[t] # "idle"
  BY DEF InFlight
<1>4. Cardinality(InFlight \cup {t}) =
        IF t \in InFlight THEN Cardinality(InFlight) ELSE Cardinality(InFlight) + 1
  BY InFlightFinite, FS_AddElement
<1>5. Cardinality(InFlight \ {t}) =
        IF t \in InFlight THEN Cardinality(InFlight) - 1 ELSE Cardinality(InFlight)
  BY InFlightFinite, FS_RemoveElement
<1>6. InFlight' \in SUBSET Timers
  BY DEF InFlight
<1>7. Cardinality(InFlight') \in Nat
  BY <1>6, TimersAssumption, FS_Subset, FS_CardinalityType
<1>8. QED
  BY <1>2, <1>3, <1>4, <1>5, <1>7, InFlightFinite

-----------------------------------------------------------------------------
(* No large report before NFC/IR is on.                                    *)

\* The large report is chosen, read, queued only with NFC/IR on.
LargeNeedsNfc ==
  /\ phase = "new" => ~status.enable_nfc
  /\ stdId = "31" => status.enable_nfc
  /\ \A t \in Timers : run[t] = "31" => status.enable_nfc
  /\ \A i \in DOMAIN queue : queue[i].id = "31" => status.enable_nfc

\* No step turns NFC/IR off: no handler does, and the device is initialised
\* only once.
LEMMA NfcStays ==
  ASSUME ProxyTypeOK, LargeNeedsNfc, [Next]_vars, status.enable_nfc
  PROVE  status'.enable_nfc
<1>1. CASE HandleOutput
  <2>1. PICK c \in Commands : NativeReplayOutputReport(c)
    BY <1>1, HeadMessage DEF HandleOutput, ProxyTypeOK
  <2>2. ReplayStatus(status, c).enable_nfc /\ ReplayStatus(status, c) \in StatusType
    BY NfcLatch, ReplayStatusType DEF ProxyTypeOK, DeviceTypeOK
  <2>3. QED
    BY <2>1, <2>2 DEF NativeReplayOutputReport, CheckStatus, Checked, StatusType
<1>2. CASE Create
  BY <1>2 DEF Create, LargeNeedsNfc
<1>3. UNCHANGED status \/ HandleOutput \/ Create
  BY DEF Next, Looper, Activity, HandleInput, NativeMakeupInputReport,
         OnStartPush, OnFetchNfcIr, SendInputReport, Resume, Pause, Disconnect,
         Release, NativeFree, OnInputEvent, ChangeInput, OnOutputEvent,
         TimerFire, Run, RunRead, RunPost, deviceVars, vars
<1>4. QED
  BY <1>1, <1>2, <1>3

\* Queues of which every message was there before or carries no large report.
LEMMA TailMessages ==
  ASSUME NEW q \in Seq(Messages), q # <<>>
  PROVE  \A i \in DOMAIN Tail(q) : \E j \in DOMAIN q : Tail(q)[i] = q[j]
<1>1. /\ Len(q) \in Nat \ {0}
      /\ DOMAIN q = 1..Len(q)
      /\ DOMAIN Tail(q) = 1..Len(q) - 1
      /\ \A i \in 1..Len(q) - 1 : Tail(q)[i] = q[i + 1]
  BY HeadTailProperties, LenProperties, EmptySeq
<1>2. \A i \in 1..Len(q) - 1 : i + 1 \in 1..Len(q)
  BY <1>1
<1>3. QED
  BY <1>1, <1>2

LEMMA AppendMessages ==
  ASSUME NEW q \in Seq(Messages), NEW m \in Messages
  PROVE  \A i \in DOMAIN Append(q, m) :
           \/ Append(q, m)[i] = m
           \/ \E j \in DOMAIN q : Append(q, m)[i] = q[j]
BY AppendProperties, LenProperties

LEMMA LargeNeedsNfcStep ==
  ASSUME ProxyTypeOK, PushInv, LargeNeedsNfc, [Next]_vars
  PROVE  LargeNeedsNfc'
<1>1. phase' = "new" => phase = "new"
  BY DEF Next, Looper, Activity, HandleInput, HandleOutput, OnStartPush,
         OnFetchNfcIr, SendInputReport, Create, Resume, Pause, Disconnect,
         Release, OnInputEvent, ChangeInput, OnOutputEvent, TimerFire, Run,
         RunRead, RunPost, vars, proxyVars
<1>2. status.enable_nfc => status'.enable_nfc
  BY NfcStays
<1>3. phase' = "new" => ~status'.enable_nfc
  <2>1. phase' = "new" => status' = status
    <3>1. HandleOutput => phase # "new"
      <4>1. HandleOutput => spi # "none"
        BY DEF HandleOutput, NativeReplayOutputReport
      <4>2. QED
        BY <4>1 DEF PushInv, BeforeCreate
    <3>2. QED
      BY <1>1, <3>1
      DEF Next, Looper, Activity, HandleInput, NativeMakeupInputReport,
          OnStartPush, OnFetchNfcIr, SendInputReport, Create, Resume, Pause,
          Disconnect, Release, NativeFree, OnInputEvent, ChangeInput,
          OnOutputEvent, TimerFire, Run, RunRead, RunPost, deviceVars, vars,
          HandleOutput
  <2>2. QED
    BY <1>1, <2>1 DEF LargeNeedsNfc
<1>4. stdId' = "31" => status'.enable_nfc
  <2>1. OnFetchNfcIr => status.enable_nfc
    BY DEF OnFetchNfcIr, PushInv, Stage
  <2>2. stdId' = stdId \/ stdId' = "30" \/ OnFetchNfcIr
    BY DEF Next, Looper, Activity, HandleInput, HandleOutput, OnStartPush,
           SendInputReport, Create, Resume, Pause, Disconnect, Release,
           OnInputEvent, ChangeInput, OnOutputEvent, TimerFire, Run, RunRead,
           RunPost, vars, proxyVars
  <2>3. QED
    BY <1>2, <2>1, <2>2 DEF LargeNeedsNfc
<1>5. ASSUME NEW t \in Timers, run'[t] = "31" PROVE status'.enable_nfc
  <2>1. run'[t] = run[t] \/ run'[t] = stdId \/ run'[t] \in {"idle", "started"}
    BY DEF Next, Looper, Activity, HandleInput, HandleOutput, OnStartPush,
           OnFetchNfcIr, SendInputReport, Create, Resume, Pause, Disconnect,
           Release, OnInputEvent, ChangeInput, OnOutputEvent, TimerFire, Run,
           RunRead, RunPost, vars, proxyVars, ProxyTypeOK
  <2>2. QED
    BY <1>2, <1>5, <2>1 DEF LargeNeedsNfc
<1>6. ASSUME NEW i \in DOMAIN queue', queue'[i].id = "31" PROVE status'.enable_nfc
  <2>1. CASE UNCHANGED queue
    BY <1>2, <1>6, <2>1 DEF LargeNeedsNfc
  <2>2. CASE queue # <<>> /\ queue' = Tail(queue)
    BY <1>2, <1>6, <2>2, TailMessages DEF LargeNeedsNfc, ProxyTypeOK
  <2>3. CASE OnInputEvent \/ \E c \in Commands : OnOutputEvent(c)
    <3>1. PICK m \in Messages : m.id # "31" /\ queue' = Append(queue, m)
      BY <2>3 DEF OnInputEvent, OnOutputEvent, Messages, InputMsg, OutputMsg, PushIds
    <3>2. QED
      BY <1>2, <1>6, <3>1, AppendMessages DEF LargeNeedsNfc, ProxyTypeOK
  <2>4. CASE \E t \in Timers : RunPost(t)
    <3>1. PICK t \in Timers : RunPost(t)
      BY <2>4
    <3>2. InputMsg(run[t]) \in Messages /\ InputMsg(run[t]).id = run[t]
      BY <3>1 DEF RunPost, Messages, InputMsg
    <3>3. queue' = Append(queue, InputMsg(run[t]))
      BY <3>1 DEF RunPost
    <3>4. QED
      BY <1>2, <1>6, <3>2, <3>3, AppendMessages DEF LargeNeedsNfc, ProxyTypeOK
  <2>5. QED
    BY <2>1, <2>2, <2>3, <2>4
    DEF Next, Looper, Activity, HandleInput, HandleOutput, OnStartPush,
        OnFetchNfcIr, SendInputReport, Create, Resume, Pause, Disconnect,
        Release, ChangeInput, TimerFire, Run, RunRead, vars, proxyVars
<1>7. QED
  BY <1>3, <1>4, <1>5, <1>6 DEF LargeNeedsNfc

LEMMA LargeNeedsNfcHolds == Spec => []LargeNeedsNfc
<1>1. Init => LargeNeedsNfc
  BY DEF Init, DeviceInit, InitStatus, LargeNeedsNfc
<1>2. ProxyTypeOK /\ PushInv /\ LargeNeedsNfc /\ [Next]_vars => LargeNeedsNfc'
  BY LargeNeedsNfcStep
<1>3. QED
  BY <1>1, <1>2, ProxyTypeCorrect, PushInvHolds, PTL DEF Spec

-----------------------------------------------------------------------------
(* Every step is a step of the session or a stutter.                       *)

SessionStutter == UNCHANGED <<status.enable_nfc, Armed, Owed, Sent>>

\* What the counts of the session rest on does not move.
LEMMA CountsKept ==
  ASSUME UNCHANGED <<queue, run>>
  PROVE  Owed' = Owed
BY DEF Owed, InFlight, LargeQueued

LEMMA HandleInputSession ==
  ASSUME ProxyTypeOK, LargeNeedsNfc, HandleInput
  PROVE  Session!PushLarge \/ Session!PushStandard
<1> DEFINE id == Head(queue).id
<1>1. /\ id \in PushIds /\ queue \in Seq(Messages) /\ queue # <<>>
      /\ id = queue[1].id /\ 1 \in DOMAIN queue
  BY HeadMessage, EmptySeq, LenProperties DEF HandleInput, ProxyTypeOK
<1>2. Sent' = id
  <2>1. input'.id = id
    BY <1>1
    DEF HandleInput, NativeMakeupInputReport, ClearedInput, MakeupReport,
        TimedReport, PushIds, ProxyTypeOK, DeviceTypeOK, InputType
  <2>2. call'.op = "makeup"
    BY DEF HandleInput, NativeMakeupInputReport, NoCall
  <2>3. QED
    BY <2>1, <2>2 DEF Sent
<1>3. UNCHANGED <<status.enable_nfc, Armed>>
  BY DEF HandleInput, NativeMakeupInputReport, Armed, Notifying
<1>4. InFlight' = InFlight
  BY DEF HandleInput, InFlight
<1>5. Owed' = IF id = "31" THEN Owed - 1 ELSE Owed
  <2>1. queue' = Tail(queue)
    BY DEF HandleInput
  <2>2. Cardinality(Large(queue)) \in Nat /\ Cardinality(InFlight) \in Nat
    BY <1>1, LargeFinite, InFlightFinite
  <2>3. Cardinality(Large(queue')) =
          IF id = "31" THEN Cardinality(Large(queue)) - 1 ELSE Cardinality(Large(queue))
    BY <1>1, <2>1, LargeTail
  <2>4. QED
    BY <1>4, <2>2, <2>3, OwedSplit
<1>6. CASE id = "31"
  <2>1. status.enable_nfc
    BY <1>1, <1>6 DEF LargeNeedsNfc
  <2>2. Owed > 0
    <3>1. 1 \in Large(queue)
      BY <1>1, <1>6 DEF Large
    <3>2. Cardinality(Large(queue)) # 0
      BY <1>1, <3>1, LargeFinite, FS_EmptySet
    <3>3. QED
      BY <1>1, <3>2, LargeFinite, InFlightFinite, OwedSplit
  <2>3. QED
    BY <1>2, <1>3, <1>5, <1>6, <2>1, <2>2 DEF Session!PushLarge
<1>7. CASE id = "30"
  BY <1>2, <1>3, <1>5, <1>7 DEF Session!PushStandard
<1>8. QED
  BY <1>1, <1>6, <1>7 DEF PushIds

LEMMA HandleOutputSession ==
  ASSUME ProxyTypeOK, Handshake, LargeNeedsNfc, HandleOutput
  PROVE  Session!Answer
<1> DEFINE c == Head(queue).cmd
           st == ReplayStatus(status, c)
<1>1. /\ queue \in Seq(Messages) /\ queue # <<>> /\ queue' = Tail(queue)
      /\ c \in Commands /\ NativeReplayOutputReport(c)
      /\ Head(queue).id # "31"
  BY HeadMessage DEF HandleOutput, ProxyTypeOK, Messages, InputMsg, OutputMsg
<1>2. Sent' = "none"
  BY <1>1 DEF NativeReplayOutputReport, Sent
<1>3. Owed' = Owed
  <2>1. Cardinality(Large(queue')) = Cardinality(Large(queue))
    BY <1>1, LargeTail
  <2>2. InFlight' = InFlight
    BY DEF HandleOutput, InFlight
  <2>3. QED
    BY <2>1, <2>2, OwedSplit
<1>4. st \in StatusType /\ status \in StatusType
  BY ReplayStatusType DEF ProxyTypeOK, DeviceTypeOK
<1>5. status'.enable_nfc = st.enable_nfc
  BY <1>1, <1>4 DEF NativeReplayOutputReport, CheckStatus, Checked, StatusType
<1>6. /\ pc' = FirstStage /\ ~Notifying /\ handle' = handle
      /\ call'.notified = MustNotify(st)
      /\ told' = IF MustNotify(st) THEN View(st) ELSE told
  BY <1>1 DEF HandleOutput, Notifying, NativeReplayOutputReport, CheckStatus
<1>7. CASE ~MustNotify(st)
  <2>1. View(st) = View(status)
    BY <1>4, <1>7, ViewType DEF MustNotify, Handshake, LastIsStatus
  <2>2. status'.enable_nfc = status.enable_nfc
    BY <1>5, <2>1 DEF View
  <2>3. Armed' = Armed
    BY <1>6, <1>7 DEF FirstStage, Armed, Notifying
  <2>4. QED
    BY <1>2, <1>3, <2>2, <2>3 DEF Session!Answer
<1>8. CASE MustNotify(st)
  <2>1. told'.start_push = st.start_push /\ told'.enable_nfc = st.enable_nfc
    BY <1>6, <1>8 DEF View
  <2>2. CASE st.start_push \/ st.enable_nfc
    <3>1. pc' \in {"onStartPush", "onFetchNfcIr"}
      BY <1>4, <1>6, <1>8, <2>1, <2>2 DEF FirstStage, NfcStage, StatusType
    <3>2. Armed' = TRUE
      BY <3>1 DEF Armed, Notifying
    <3>3. status'.enable_nfc \in {status.enable_nfc, TRUE}
      <4>1. status'.enable_nfc \in BOOLEAN /\ status.enable_nfc \in BOOLEAN
        BY <1>4, <1>5 DEF StatusType
      <4>2. status.enable_nfc => status'.enable_nfc
        BY <1>4, <1>5, NfcLatch
      <4>3. QED
        BY <4>1, <4>2
    <3>4. QED
      BY <1>2, <1>3, <3>2, <3>3 DEF Session!Answer
  <2>3. CASE ~st.start_push /\ ~st.enable_nfc
    <3>1. pc' = "send"
      BY <1>6, <1>8, <2>1, <2>3 DEF FirstStage, NfcStage
    <3>2. Armed' = Armed
      BY <1>6, <3>1 DEF Armed, Notifying
    <3>3. status'.enable_nfc = status.enable_nfc
      BY <1>4, <1>5, <2>3, NfcLatch DEF StatusType
    <3>4. QED
      BY <1>2, <1>3, <3>2, <3>3 DEF Session!Answer
  <2>4. QED
    BY <2>2, <2>3
<1>9. QED
  BY <1>7, <1>8

\* The callbacks that arm the timer, and the end of the message.
LEMMA CallbackSession ==
  ASSUME ProxyTypeOK, Handshake, PushInv,
         OnStartPush \/ OnFetchNfcIr \/ SendInputReport
  PROVE  SessionStutter
<1>1. UNCHANGED <<status.enable_nfc, Owed, Sent>>
  BY CountsKept DEF OnStartPush, OnFetchNfcIr, SendInputReport, deviceVars, Sent
<1>2. CASE OnStartPush \/ OnFetchNfcIr
  <2>1. handle' # NoTimer
    BY <1>2, StartTimerType DEF OnStartPush, OnFetchNfcIr, ProxyTypeOK
  <2>2. Armed = TRUE /\ Armed' = TRUE
    BY <1>2, <2>1 DEF OnStartPush, OnFetchNfcIr, Armed, Notifying
  <2>3. QED
    BY <1>1, <2>2 DEF SessionStutter
<1>3. CASE SendInputReport
  <2>1. Armed' = Armed
    BY <1>3 DEF SendInputReport, Armed, Notifying
  <2>2. QED
    BY <1>1, <2>1 DEF SessionStutter
<1>4. QED
  BY <1>2, <1>3

LEMMA RestSession ==
  ASSUME ProxyTypeOK, LargeNeedsNfc, Create \/ Release
  PROVE  Session!Rest
<1>1. Owed' = Owed
  BY CountsKept DEF Create, Release
<1>2. Sent' = "none"
  BY DEF Create, Release, NativeInit, NativeFree, NoCall, Sent
<1>3. Armed' = Armed
  BY DEF Create, Release, Armed, Notifying
<1>4. status'.enable_nfc = status.enable_nfc
  <2>1. CASE Create
    <3>1. status'.enable_nfc = FALSE
      BY <2>1 DEF Create, NativeInit, InitStatus
    <3>2. status.enable_nfc \in BOOLEAN
      BY DEF ProxyTypeOK, DeviceTypeOK, StatusType
    <3>3. ~status.enable_nfc
      BY <2>1 DEF Create, LargeNeedsNfc
    <3>4. QED
      BY <3>1, <3>2, <3>3
  <2>2. CASE Release
    BY <2>2 DEF Release, NativeFree
  <2>3. QED
    BY <2>1, <2>2
<1>5. QED
  BY <1>1, <1>2, <1>3, <1>4 DEF Session!Rest

LEMMA StopSession ==
  ASSUME Pause \/ Disconnect
  PROVE  Session!Stop
<1>1. Owed' = Owed
  BY CountsKept DEF Pause, Disconnect
<1>2. Armed' = FALSE
  BY DEF Pause, Disconnect, StopTimer, Armed, Notifying
<1>3. UNCHANGED <<status.enable_nfc, Sent>>
  BY DEF Pause, Disconnect, deviceVars, Sent
<1>4. QED
  BY <1>1, <1>2, <1>3 DEF Session!Stop

LEMMA ResumeSession ==
  ASSUME Resume
  PROVE  SessionStutter
BY CountsKept DEF Resume, deviceVars, Sent, Armed, Notifying, SessionStutter

LEMMA FireSession ==
  ASSUME ProxyTypeOK, NoLeakedTimer, NEW t \in Timers, TimerFire(t)
  PROVE  Session!Fire
<1>1. Armed
  BY DEF TimerFire, NoLeakedTimer, Armed
<1>2. Owed < QueueCap
  BY LargeFinite, LenProperties, InFlightFinite, QueueCapAssumption, OwedSplit
  DEF TimerFire, Room, ProxyTypeOK
<1>3. Owed' = Owed + 1
  <2>1. Cardinality(InFlight') = Cardinality(InFlight) + 1
    <3>1. Cardinality(InFlight') =
            Cardinality(InFlight) + (IF "started" # "idle" THEN 1 ELSE 0)
                                  - (IF run[t] # "idle" THEN 1 ELSE 0)
      BY InFlightMoves DEF TimerFire
    <3>2. QED
      BY <3>1, InFlightFinite DEF TimerFire
  <2>2. queue' = queue
    BY DEF TimerFire
  <2>3. QED
    BY <2>1, <2>2, OwedSplit, InFlightFinite, LargeFinite DEF ProxyTypeOK
<1>4. UNCHANGED <<status.enable_nfc, Armed, Sent>>
  BY DEF TimerFire, deviceVars, Armed, Notifying, Sent
<1>5. QED
  BY <1>1, <1>2, <1>3, <1>4 DEF Session!Fire

LEMMA RunSession ==
  ASSUME ProxyTypeOK, NEW t \in Timers, Run(t)
  PROVE  Session!Lapse \/ SessionStutter
<1>1. UNCHANGED <<status.enable_nfc, Armed, Sent>>
  BY DEF Run, RunRead, RunPost, deviceVars, Armed, Notifying, Sent
<1>2. CASE RunRead(t)
  <2>1. stdId # "idle" /\ stdId \in {"idle", "started"} \cup PushIds
    BY DEF ProxyTypeOK, PushIds
  <2>2. Cardinality(InFlight') =
          Cardinality(InFlight) + (IF stdId # "idle" THEN 1 ELSE 0)
                                - (IF run[t] # "idle" THEN 1 ELSE 0)
    BY <1>2, <2>1, InFlightMoves DEF RunRead
  <2>3. Owed' = Owed
    BY <1>2, <2>1, <2>2, InFlightFinite, OwedSplit DEF RunRead
  <2>4. QED
    BY <1>1, <2>3 DEF SessionStutter
<1>3. CASE RunPost(t)
  <2>1. /\ run[t] # "idle"
        /\ run[t] \in PushIds
        /\ queue \in Seq(Messages)
        /\ InputMsg(run[t]) \in Messages
        /\ InputMsg(run[t]).id = run[t]
        /\ queue' = Append(queue, InputMsg(run[t]))
    BY <1>3 DEF RunPost, PushIds, Messages, InputMsg, ProxyTypeOK
  <2>2. /\ Cardinality(InFlight') = Cardinality(InFlight) - 1
        /\ Cardinality(InFlight') \in Nat
    <3>1. /\ Cardinality(InFlight') =
               Cardinality(InFlight) + (IF "idle" # "idle" THEN 1 ELSE 0)
                                     - (IF run[t] # "idle" THEN 1 ELSE 0)
          /\ Cardinality(InFlight') \in Nat
      BY <1>3, InFlightMoves DEF RunPost
    <3>2. QED
      BY <2>1, <3>1, InFlightFinite
  <2>3. Cardinality(Large(queue)) \in Nat /\ Cardinality(InFlight) \in Nat
    BY <2>1, LargeFinite, InFlightFinite
  <2>4. Cardinality(Large(queue')) =
          IF run[t] = "31" THEN Cardinality(Large(queue)) + 1
                           ELSE Cardinality(Large(queue))
    BY <2>1, LargeAppend
  <2>5. CASE run[t] = "31"
    <3>1. Owed' = Owed
      BY <2>2, <2>3, <2>4, <2>5, OwedSplit
    <3>2. QED
      BY <1>1, <3>1 DEF SessionStutter
  <2>6. CASE run[t] # "31"
    <3>1. Owed' = Owed - 1 /\ Owed > 0
      BY <2>2, <2>3, <2>4, <2>6, OwedSplit
    <3>2. QED
      BY <1>1, <3>1 DEF Session!Lapse
  <2>7. QED
    BY <2>5, <2>6
<1>4. QED
  BY <1>2, <1>3 DEF Run

\* A posting thread, a change of the inputs.
LEMMA PostSession ==
  ASSUME ProxyTypeOK,
         OnInputEvent \/ ChangeInput \/ \E c \in Commands : OnOutputEvent(c)
  PROVE  SessionStutter
<1>1. UNCHANGED <<status.enable_nfc, Armed, Sent, InFlight>>
  BY DEF OnInputEvent, ChangeInput, OnOutputEvent, deviceVars, Armed, Notifying,
         Sent, InFlight
<1>2. Cardinality(Large(queue')) = Cardinality(Large(queue))
  <2>1. CASE ChangeInput
    BY <2>1 DEF ChangeInput
  <2>2. CASE OnInputEvent \/ \E c \in Commands : OnOutputEvent(c)
    <3>1. PICK m \in Messages : m.id # "31" /\ queue' = Append(queue, m)
      BY <2>2 DEF OnInputEvent, OnOutputEvent, Messages, InputMsg, OutputMsg, PushIds
    <3>2. QED
      BY <3>1, LargeAppend DEF ProxyTypeOK
  <2>3. QED
    BY <2>1, <2>2
<1>3. Owed' = Owed
  BY <1>1, <1>2, OwedSplit
<1>4. QED
  BY <1>1, <1>3 DEF SessionStutter

LEMMA SessionStep ==
  ASSUME ProxyTypeOK, Handshake, PushInv, NoLeakedTimer, LargeNeedsNfc,
         [Next]_vars
  PROVE  Session!SessionNext \/ SessionStutter
<1>1. CASE HandleInput
  BY <1>1, HandleInputSession DEF Session!SessionNext
<1>2. CASE HandleOutput
  BY <1>2, HandleOutputSession DEF Session!SessionNext
<1>3. CASE OnStartPush \/ OnFetchNfcIr \/ SendInputReport
  BY <1>3, CallbackSession
<1>4. CASE Activity
  BY <1>4, RestSession, StopSession, ResumeSession DEF Activity, Session!SessionNext
<1>5. CASE OnInputEvent \/ ChangeInput \/ \E c \in Commands : OnOutputEvent(c)
  BY <1>5, PostSession
<1>6. CASE \E t \in Timers : TimerFire(t) \/ Run(t)
  BY <1>6, FireSession, RunSession DEF Session!SessionNext
<1>7. CASE UNCHANGED vars
  BY <1>7, CountsKept DEF vars, deviceVars, proxyVars, SessionStutter, Armed,
                          Notifying, Sent
<1>8. QED
  BY <1>1, <1>2, <1>3, <1>4, <1>5, <1>6, <1>7 DEF Next, Looper

LEMMA SessionStart == Init => Session!SessionInit
<1> SUFFICES ASSUME Init PROVE Session!SessionInit
  OBVIOUS
<1>1. status.enable_nfc = FALSE /\ Armed = FALSE /\ Sent = "none"
  BY DEF Init, DeviceInit, InitStatus, NoCall, Armed, Notifying, Sent
<1>2. InFlight = {} /\ Large(queue) = {}
  BY DEF Init, InFlight, Large
<1>3. Owed = 0
  BY <1>2, OwedSplit, FS_EmptySet
<1>4. QED
  BY <1>1, <1>3 DEF Session!SessionInit

\* The proxy implements the push session for every set of commands and timers
\* and every bound on the queue: no large report goes out before NFC/IR is on,
\* and none that is not owed to a firing of the timer while the push was armed.
THEOREM ProxyImplementsPushSession == Spec => ImplementsPushSession
<1>1. ProxyTypeOK /\ Handshake /\ PushInv /\ NoLeakedTimer /\ LargeNeedsNfc
      /\ [Next]_vars
        => [Session!SessionNext]_(Session!sessionVars)
  BY SessionStep DEF SessionStutter, Session!sessionVars
<1>2. QED
  BY <1>1, SessionStart, ProxyTypeCorrect, HandshakeInProxy, PushInvHolds,
     NoLeakedTimerHolds, LargeNeedsNfcHolds, PTL
  DEF Spec, ImplementsPushSession, Session!SessionSpec
=============================================================================
