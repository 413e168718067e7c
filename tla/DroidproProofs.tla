---------------------------- MODULE DroidproProofs --------------------------
(***************************************************************************)
(* Proofs about the application, for every set of consoles, any number of  *)
(* callbacks under way and every bound on the queues.                      *)
(***************************************************************************)
EXTENDS Droidpro, HidLinkProofs, SequenceTheorems

-----------------------------------------------------------------------------
(* The parts run as their own specifications allow.                        *)

LEMMA HidStep ==
  ASSUME [DroidNext]_droidVars
  PROVE  [HidNext]_hidVars
<1>1. CASE Looper \/ TimerStep
  BY <1>1 DEF Looper, TimerStep, HandleConnected, HandleDisconnected,
     HandleOutput, HandleInput, ExecCommits, HidNext, Main
<1>2. CASE \E t \in Threads : PoolStep(t)
  BY <1>2 DEF PoolStep, PostConnection, PostOutput, HidNext, Pool
<1>3. CASE OnCreate \/ OnResume \/ OnPause \/ OnDestroy \/ RequestConnect \/ TapLogo
  BY <1>3 DEF OnCreate, OnResume, OnPause, OnDestroy, RequestConnect, TapLogo,
     HidNext, Main
<1>4. QED
  BY <1>1, <1>2, <1>3 DEF DroidNext, droidVars, HidNext, Main

LEMMA SessionStep ==
  ASSUME [DroidNext]_droidVars
  PROVE  [SessionNext]_sessionVars
<1>1. CASE Looper \/ TimerStep
  BY <1>1 DEF Looper, TimerStep, HandleConnected, HandleDisconnected, StopPush,
     HandleOutput, HandleInput, ExecCommits, SessionNext
<1>2. CASE \E t \in Threads : PoolStep(t)
  BY <1>2 DEF PoolStep, PostConnection, PostOutput
<1>3. CASE OnCreate \/ OnResume \/ OnPause \/ OnDestroy \/ RequestConnect \/ TapLogo
  BY <1>3 DEF OnCreate, OnResume, OnPause, OnDestroy, RequestConnect, TapLogo,
     StopPush, SessionNext
<1>4. QED
  BY <1>1, <1>2, <1>3 DEF DroidNext, droidVars

\* The application implements both of the specifications it is made of: the
\* activity calls the HID client and stops the push only as they allow, so what
\* is proved of either holds in the application.
THEOREM DroidproImplementsParts == DroidSpec => HidSpec /\ SessionSpec
<1>1. DroidInit => HidInit /\ SessionInit
  BY DEF DroidInit
<1>2. [DroidNext]_droidVars => [HidNext]_hidVars /\ [SessionNext]_sessionVars
  BY HidStep, SessionStep
<1>3. QED
  BY <1>1, <1>2, PTL DEF DroidSpec, HidSpec, SessionSpec

LEMMA LinkInvInApp == DroidSpec => []LinkInv
<1>1. QED
  BY DroidproImplementsParts, LinkInvHolds, PTL

-----------------------------------------------------------------------------
(* Type correctness.                                                       *)

SessionTypes ==
  /\ nfc \in BOOLEAN /\ armed \in BOOLEAN
  /\ owed \in Nat /\ sent \in {"none", "30", "31"}

LEMMA SessionTypesStep ==
  ASSUME SessionTypes, [SessionNext]_sessionVars
  PROVE  SessionTypes'
<1>1. CASE Answer
  <2>1. CASE UNCHANGED <<nfc, armed>>
    BY <1>1, <2>1 DEF SessionTypes, Answer
  <2>2. CASE nfc' \in {nfc, TRUE} /\ armed' = TRUE
    <3>1. nfc' \in BOOLEAN /\ armed' \in BOOLEAN
      BY <2>2 DEF SessionTypes
    <3>2. owed' \in Nat /\ sent' \in {"none", "30", "31"}
      BY <1>1 DEF SessionTypes, Answer
    <3>3. QED
      BY <3>1, <3>2 DEF SessionTypes
  <2>3. QED
    BY <1>1, <2>1, <2>2 DEF Answer
<1>2. CASE Fire \/ PushLarge \/ Lapse
  BY <1>2 DEF SessionTypes, Fire, PushLarge, Lapse
<1>3. CASE PushStandard \/ Stop \/ Rest \/ UNCHANGED sessionVars
  BY <1>3 DEF SessionTypes, PushStandard, Stop, Rest, sessionVars
<1>4. QED
  BY <1>1, <1>2, <1>3 DEF SessionNext

LEMMA EventTypes ==
  ASSUME events \in Seq(Connections)
  PROVE  /\ <<>> \in Seq(Connections)
         /\ \A w \in Connections : Queued(w) \in Seq(Connections)
         /\ events # <<>> => Tail(events) \in Seq(Connections)
BY EmptySeq, AppendProperties, HeadTailProperties DEF Queued

LEMMA DroidTypeStep ==
  ASSUME DroidTypeOK, [DroidNext]_droidVars
  PROVE  DroidTypeOK'
<1>1. HidTypeOK'
  BY HidStep, HidTypeInductive DEF DroidTypeOK
<1>2. SessionTypes'
  BY SessionStep, SessionTypesStep DEF DroidTypeOK, SessionTypes
<1>3. /\ events' \in Seq(Connections)
      /\ outputs' \in 0..OutputCap
      /\ screen' \in {"splash", "gamepad"}
      /\ pending' \in {"none", "splash", "gamepad"}
      /\ astray' \subseteq Hazards
  <2>1. CASE HandleConnected \/ HandleDisconnected
    BY <2>1, EventTypes DEF HandleConnected, HandleDisconnected, ShowGamepad,
       ShowSplash, Handled, SwitchTo, Skipped, Hazards, DroidTypeOK
  <2>2. CASE HandleOutput
    BY <2>2, CapsAssumption DEF HandleOutput, NoteLate, Hazards, DroidTypeOK
  <2>3. CASE HandleInput \/ ExecCommits \/ TimerStep
    BY <2>3 DEF HandleInput, ExecCommits, Commit, TimerStep, appVars, DroidTypeOK
  <2>4. CASE \E t \in Threads : PostConnection(t)
    BY <2>4, EventTypes DEF PostConnection, Posted, Hazards, DroidTypeOK
  <2>5. CASE TapLogo \/ \E t \in Threads : PostOutput(t)
    BY <2>5, CapsAssumption DEF PostOutput, TapLogo, DroidTypeOK
  <2>6. CASE OnPause
    BY <2>6, EventTypes DEF OnPause, LeaveBus, Hazards, DroidTypeOK
  <2>7. CASE UNCHANGED appVars
    BY <2>7 DEF appVars, DroidTypeOK
  <2>8. QED
    BY <2>1, <2>2, <2>3, <2>4, <2>5, <2>6, <2>7
    DEF DroidNext, Looper, PoolStep, OnCreate, OnResume, OnDestroy,
        RequestConnect, droidVars
<1>4. QED
  BY <1>1, <1>2, <1>3 DEF DroidTypeOK, SessionTypes

\* Every variable of the application keeps its type.
THEOREM DroidTypeCorrect == DroidSpec => []DroidTypeOK
<1>1. ASSUME DroidInit PROVE DroidTypeOK
  <2>1. HidTypeOK
    BY <1>1, HidTypeInductive DEF DroidInit
  <2>2. events \in Seq(Connections)
    BY <1>1 DEF DroidInit
  <2>3. outputs \in 0..OutputCap
    BY <1>1, CapsAssumption DEF DroidInit
  <2>4. SessionTypes
    BY <1>1 DEF DroidInit, SessionInit, SessionTypes
  <2>5. QED
    BY <1>1, <2>1, <2>2, <2>3, <2>4 DEF DroidInit, SessionTypes, DroidTypeOK
<1>2. QED
  BY <1>1, DroidTypeStep, PTL DEF DroidSpec

-----------------------------------------------------------------------------
(* What the activity knows of the link.                                    *)

\* The connection event that tells of the link as it is.
Telling == IF link = Down THEN "DISCONNECTED" ELSE "CONNECTED"

\* The fragment that is on the screen when the transactions have run.
Bound == IF pending # "none" THEN pending ELSE screen

Newest == events[Len(events)]

\* No event waits for an activity that is not in front.
QuietBehind == phase # "resumed" => events = <<>>

\* Once the callbacks are done, the newest event tells of the link ...
EventsTell == Clear /\ events # <<>> => Newest = Telling

\* ... when it is handled, the screen does ...
ScreenTells ==
  Clear /\ events = <<>> /\ astray \cap {"missed", "skipped"} = {}
    => Bound = IF link = Down THEN "splash" ELSE "gamepad"

\* ... and until it is, it is what will stop the timer.
TimerTells ==
  Clear /\ armed /\ astray \cap {"missed", "late"} = {} /\ link = Down
    => events # <<>>

AppInv ==
  /\ LinkInv /\ DroidTypeOK
  /\ QuietBehind /\ EventsTell /\ ScreenTells /\ TimerTells

LEMMA QueuedEvents ==
  ASSUME events \in Seq(Connections), NEW w \in Connections
  PROVE  /\ Queued(w) # <<>>
         /\ Queued(w)[Len(Queued(w))] = w
BY AppendProperties DEF Queued

LEMMA HandledEvents ==
  ASSUME events \in Seq(Connections), events # <<>>
  PROVE  /\ Len(events) \in DOMAIN events
         /\ Tail(events) = <<>> => Newest = Head(events)
         /\ Tail(events) # <<>> => Tail(events)[Len(Tail(events))] = Newest
<1>1. Len(events) \in Nat /\ Len(events) > 0 /\ DOMAIN events = 1..Len(events)
  BY EmptySeq, LenProperties
<1>2. Tail(events) \in Seq(Connections) /\ Len(Tail(events)) = Len(events) - 1
  BY HeadTailProperties
<1>3. CASE Tail(events) = <<>>
  <2>1. Len(events) = 1
    BY <1>1, <1>2, <1>3
  <2>2. QED
    BY <1>1, <1>3, <2>1 DEF Newest
<1>4. CASE Tail(events) # <<>>
  <2>1. Len(Tail(events)) \in 1..Len(Tail(events))
    BY <1>1, <1>2, <1>4, EmptySeq
  <2>2. Tail(events)[Len(Tail(events))] = events[Len(Tail(events)) + 1]
    BY <2>1, HeadTailProperties
  <2>3. QED
    BY <1>1, <1>2, <1>4, <2>2 DEF Newest
<1>5. QED
  BY <1>1, <1>3, <1>4

\* Steps that leave the client and the stack as they are leave them clear or not.
LEMMA ClearKept ==
  ASSUME UNCHANGED <<pool, mixed, link>>
  PROVE  Clear' = Clear /\ Telling' = Telling
BY DEF Clear, Announcing, Telling, Down

\* A link that is asked to close is a link yet.
LEMMA ClosingKept ==
  ASSUME link \in Links, NEW d, link' = Closing(d), UNCHANGED <<pool, mixed>>
  PROVE  /\ Clear' = Clear /\ Telling' = Telling
         /\ link' = Down <=> link = Down
BY ClosingType DEF Clear, Announcing, Telling, Down

Follows == QuietBehind /\ EventsTell /\ ScreenTells /\ TimerTells

\* What the activity knows survives steps that leave it and the link alone.
LEMMA FollowsKept ==
  ASSUME Follows, Clear' = Clear, Telling' = Telling, link' = Down <=> link = Down,
         UNCHANGED <<events, screen, pending, astray, armed>>,
         phase' # "resumed" => phase # "resumed"
  PROVE  Follows'
BY DEF Follows, QuietBehind, EventsTell, ScreenTells, TimerTells, Newest, Bound

\* While callbacks are under way or have overlapped nothing is asked of it.
LEMMA FollowsUnclear ==
  ASSUME Follows, ~Clear', UNCHANGED <<events, phase>>
  PROVE  Follows'
BY DEF Follows, QuietBehind, EventsTell, ScreenTells, TimerTells

LEMMA StackFollows ==
  ASSUME AppInv, Stack, UNCHANGED <<sessionVars, appVars>>
  PROVE  Follows'
<1> USE DEF AppInv, DroidTypeOK, HidTypeOK, sessionVars, appVars
<1>1. Follows
  BY DEF Follows
<1>2. ASSUME NEW w \in Connections, NEW h \in Hosts, Announce(w, h)
      PROVE  ~Clear'
  <2>1. ~mixed' => Announcing' # {}
    BY <1>2, AnnounceAlone
  <2>2. QED
    BY <2>1 DEF Clear
<1>3. CASE \E h \in Hosts : StackConnect(h)
  BY <1>1, <1>2, <1>3, FollowsUnclear DEF StackConnect, Connections
<1>4. CASE StackDrop
  <2>1. link.host \in Hosts
    BY <1>4, TaskTypes DEF StackDrop
  <2>2. ~Clear'
    BY <1>2, <1>4, <2>1 DEF StackDrop, Connections, Clear
  <2>3. QED
    BY <1>1, <1>4, <2>2, FollowsUnclear DEF StackDrop
<1>5. CASE StackData
  <2>1. Announcing' = Announcing
    BY <1>5 DEF StackData, Run, Announcing, NoTask, Connections
  <2>2. Clear' = Clear /\ Telling' = Telling
    BY <1>5, <2>1 DEF StackData, stackVars, Clear, Telling, Down
  <2>3. QED
    BY <1>1, <1>5, <2>2, FollowsKept DEF StackData, stackVars, Down
<1>6. CASE StackUnregister
  BY <1>1, <1>6, ClearKept, FollowsKept DEF StackUnregister, Down
<1>7. CASE StackCrash /\ link # Down
  BY <1>1, <1>7, FollowsUnclear DEF StackCrash, Clear
<1>8. CASE StackCrash /\ link = Down
  <2>1. UNCHANGED <<pool, mixed, link, phase>>
    BY <1>8 DEF StackCrash
  <2>2. QED
    BY <1>1, <2>1, ClearKept, FollowsKept DEF Down
<1>9. QED
  BY <1>3, <1>4, <1>5, <1>6, <1>7, <1>8 DEF Stack

LEMMA PoolFollows ==
  ASSUME AppInv, NEW t \in Threads, PoolStep(t)
  PROVE  Follows'
<1> USE DEF AppInv, DroidTypeOK, HidTypeOK, sessionVars, appVars
<1>1. Follows
  BY DEF Follows
<1>2. CASE PoolWrite(t) /\ UNCHANGED <<sessionVars, appVars>>
  <2>1. Announcing' = Announcing
    BY <1>2, TaskTypes DEF PoolWrite, Announcing, Tasks, NoTask
  <2>2. Clear' = Clear /\ Telling' = Telling
    BY <1>2, <2>1 DEF PoolWrite, stackVars, Clear, Telling, Down
  <2>3. QED
    BY <1>1, <1>2, <2>2, FollowsKept DEF PoolWrite, stackVars, Down
<1>3. ASSUME PoolPost(t)
      PROVE  /\ Announcing' = Announcing \ {t}
             /\ UNCHANGED <<link, mixed, phase>>
  <2>1. pool' = [x \in Threads |-> IF x = t THEN NoTask ELSE pool[x]]
    BY <1>3 DEF PoolPost, Returned
  <2>2. Announcing' = Announcing \ {t}
    BY <2>1 DEF Announcing, NoTask, Connections
  <2>3. QED
    BY <1>3, <2>2 DEF PoolPost, stackVars
<1>4. CASE PostOutput(t)
  <2>1. Announcing' = Announcing
    BY <1>3, <1>4 DEF PostOutput, Announcing, Connections
  <2>2. Clear' = Clear /\ Telling' = Telling
    BY <1>3, <1>4, <2>1 DEF PostOutput, Clear, Telling, Down
  <2>3. QED
    BY <1>1, <1>3, <1>4, <2>2, FollowsKept DEF PostOutput, Down
<1>5. CASE PostConnection(t) /\ ~OnBus
  BY <1>1, <1>3, <1>5
  DEF PostConnection, Posted, OnBus, Follows, QuietBehind, EventsTell, ScreenTells, TimerTells
<1>6. CASE PostConnection(t) /\ OnBus
  <2>1. events' = Queued(pool[t].what) /\ pool[t].what \in Connections
    BY <1>6 DEF PostConnection, Posted
  <2>2. events' # <<>> /\ Newest' = pool[t].what
    BY <2>1, QueuedEvents DEF Newest
  <2>3. Clear' => pool[t].what = Telling'
    <3>1. ASSUME Clear' PROVE pool[t].what = Telling'
      <4>1. Announcing = {t} /\ ~mixed
        BY <1>3, <1>6, <2>1, <3>1 DEF PostConnection, Announcing, Clear
      <4>2. Truthful(t)
        BY <4>1 DEF LinkInv, Told
      <4>3. link' = link
        BY <1>3, <1>6 DEF PostConnection
      <4>4. QED
        BY <4>2, <4>3 DEF Truthful, Telling, Down
    <3>2. QED
      BY <3>1
  <2>4. phase' = "resumed"
    BY <1>3, <1>6 DEF PostConnection, Posted, OnBus
  <2>5. QED
    BY <2>2, <2>3, <2>4 DEF Follows, QuietBehind, EventsTell, ScreenTells, TimerTells
<1>7. QED
  BY <1>2, <1>4, <1>5, <1>6 DEF PoolStep

LEMMA MessageFollows ==
  ASSUME AppInv, Looper \/ TimerStep
  PROVE  Follows'
<1> USE DEF AppInv, DroidTypeOK, HidTypeOK
<1>1. Follows
  BY DEF Follows
<1>2. ASSUME events # <<>>
      PROVE  /\ Tail(events) = <<>> => Newest = Head(events)
             /\ Tail(events) # <<>> => Tail(events)[Len(Tail(events))] = Newest
  BY <1>2, HandledEvents
<1>3. CASE HandleConnected
  <2>1. UNCHANGED <<pool, mixed, link, phase, armed>> /\ events # <<>>
    BY <1>3 DEF HandleConnected, ShowGamepad, Handled, hidVars, stackVars, sessionVars
  <2>2. Clear' = Clear /\ Telling' = Telling
    BY <2>1, ClearKept
  <2>3. QuietBehind' /\ EventsTell'
    BY <1>2, <1>3, <2>1, <2>2
    DEF HandleConnected, ShowGamepad, Handled, OnBus, QuietBehind, EventsTell, Newest
  <2>4. Clear' /\ events' = <<>> => link # Down
    BY <1>2, <1>3, <2>1, <2>2 DEF HandleConnected, ShowGamepad, Handled, EventsTell,
                                    Telling
  <2>5. astray' \cap {"missed", "skipped"} = {} => Bound' = "gamepad"
    BY <1>3 DEF HandleConnected, ShowGamepad, SwitchTo, Skipped, Bound
  <2>6. ScreenTells'
    BY <2>1, <2>4, <2>5 DEF ScreenTells, Down
  <2>7. TimerTells'
    BY <2>1, <2>4 DEF TimerTells, Down
  <2>8. QED
    BY <2>3, <2>6, <2>7 DEF Follows
<1>4. CASE HandleDisconnected
  <2>1. /\ UNCHANGED <<pool, mixed, phase>> /\ link' = Closing(remoteDevice)
        /\ events # <<>> /\ armed' = FALSE
    BY <1>4 DEF HandleDisconnected, ShowSplash, Handled, Disconnect, StopPush, Stop
  <2>2. Clear' = Clear /\ Telling' = Telling /\ (link' = Down <=> link = Down)
    BY <2>1, ClosingKept
  <2>3. QuietBehind' /\ EventsTell'
    BY <1>2, <1>4, <2>1, <2>2
    DEF HandleDisconnected, ShowSplash, Handled, OnBus, QuietBehind, EventsTell, Newest
  <2>4. Clear' /\ events' = <<>> => link = Down
    BY <1>2, <1>4, <2>1, <2>2 DEF HandleDisconnected, ShowSplash, Handled,
                                    EventsTell, Telling
  <2>5. astray' \cap {"missed", "skipped"} = {} => Bound' = "splash"
    BY <1>4 DEF HandleDisconnected, ShowSplash, SwitchTo, Skipped, Bound
  <2>6. ScreenTells'
    BY <2>2, <2>4, <2>5 DEF ScreenTells, Down
  <2>7. TimerTells'
    BY <2>1 DEF TimerTells
  <2>8. QED
    BY <2>3, <2>6, <2>7 DEF Follows
<1>5. CASE HandleOutput
  <2>1. UNCHANGED <<pool, mixed, link, phase, hidDevice, remoteDevice>>
    BY <1>5 DEF HandleOutput, hidVars, stackVars, clientVars
  <2>2. Clear' = Clear /\ Telling' = Telling
    BY <2>1, ClearKept
  <2>3. QuietBehind' /\ EventsTell'
    BY <1>5, <2>1, <2>2 DEF HandleOutput, NoteLate, QuietBehind, EventsTell, Newest
  <2>4. astray \subseteq astray'
    BY <1>5 DEF HandleOutput, NoteLate
  <2>5. ScreenTells'
    BY <1>5, <2>1, <2>2, <2>4 DEF HandleOutput, NoteLate, ScreenTells, Bound, Down
  <2>6. ASSUME Clear, armed', "late" \notin astray' PROVE link # Down
    <3>1. SendTarget # None
      BY <1>5, <2>6 DEF HandleOutput, NoteLate
    <3>2. SendTarget = link.host
      BY <2>6, LinkInvAgrees DEF RemoteAgrees
    <3>3. QED
      BY <3>1, <3>2 DEF Down
  <2>7. TimerTells'
    BY <2>1, <2>2, <2>6 DEF TimerTells, Down
  <2>8. QED
    BY <2>3, <2>5, <2>7 DEF Follows
<1>6. CASE ExecCommits
  <2>1. /\ UNCHANGED <<pool, mixed, link, phase, events, armed, astray>>
        /\ Bound' = Bound
    BY <1>6 DEF ExecCommits, Commit, hidVars, stackVars, sessionVars, Bound
  <2>2. Clear' = Clear /\ Telling' = Telling
    BY <2>1, ClearKept
  <2>3. QED
    BY <1>1, <2>1, <2>2
    DEF Follows, QuietBehind, EventsTell, ScreenTells, TimerTells, Newest, Down
<1>7. CASE HandleInput \/ TimerStep
  <2>1. UNCHANGED <<pool, mixed, link, phase, events, screen, pending, astray, armed>>
    BY <1>7 DEF HandleInput, TimerStep, Fire, PushLarge, Lapse, PushStandard,
                hidVars, stackVars, appVars
  <2>2. QED
    BY <1>1, <2>1, ClearKept, FollowsKept DEF Down
<1>8. QED
  BY <1>3, <1>4, <1>5, <1>6, <1>7 DEF Looper

LEMMA LifeFollows ==
  ASSUME AppInv,
         \/ OnCreate \/ OnResume \/ OnPause \/ OnDestroy \/ RequestConnect \/ TapLogo
         \/ (OnServiceConnected \/ OnServiceDisconnected)
              /\ UNCHANGED <<sessionVars, appVars>>
  PROVE  Follows'
<1> USE DEF AppInv, DroidTypeOK, HidTypeOK
<1>1. Follows
  BY DEF Follows
<1>2. CASE OnPause
  <2>1. UNCHANGED <<pool, mixed>> /\ link' = Closing(remoteDevice)
    BY <1>2 DEF OnPause, Pause
  <2>2. Clear' = Clear /\ Telling' = Telling /\ (link' = Down <=> link = Down)
    BY <2>1, ClosingKept
  <2>3. events' = <<>> /\ armed' = FALSE /\ Bound' = Bound
    BY <1>2 DEF OnPause, LeaveBus, StopPush, Stop, Bound
  <2>4. astray' \cap {"missed", "skipped"} = {} =>
          events = <<>> /\ astray \cap {"missed", "skipped"} = {}
    BY <1>2 DEF OnPause, LeaveBus
  <2>5. QED
    BY <2>2, <2>3, <2>4
    DEF Follows, QuietBehind, EventsTell, ScreenTells, TimerTells
<1>3. CASE RequestConnect
  <2>1. UNCHANGED <<pool, mixed>> /\ link' = Closing(Target)
    BY <1>3 DEF RequestConnect, Connect
  <2>2. Clear' = Clear /\ Telling' = Telling /\ (link' = Down <=> link = Down)
    BY <2>1, ClosingKept
  <2>3. UNCHANGED <<phase, events, screen, pending, astray, armed>>
    BY <1>3 DEF RequestConnect, Connect, sessionVars, appVars
  <2>4. QED
    BY <1>1, <2>2, <2>3, FollowsKept
<1>4. CASE OnCreate \/ OnResume \/ OnDestroy
  <2>1. /\ UNCHANGED <<pool, mixed, link, events, screen, pending, astray, armed>>
        /\ phase # "resumed"
    BY <1>4 DEF OnCreate, OnResume, OnDestroy, Register, Resume, Unregister, Rest,
                stackVars, sessionVars, appVars
  <2>2. QED
    BY <1>1, <2>1, ClearKept, FollowsKept DEF Down
<1>5. CASE \/ TapLogo
           \/ (OnServiceConnected \/ OnServiceDisconnected)
                /\ UNCHANGED <<sessionVars, appVars>>
  <2>1. UNCHANGED <<pool, mixed, link, phase, events, screen, pending, astray, armed>>
    BY <1>5 DEF TapLogo, OnServiceConnected, OnServiceDisconnected, hidVars, stackVars,
                sessionVars, appVars
  <2>2. QED
    BY <1>1, <2>1, ClearKept, FollowsKept DEF Down
<1>6. QED
  BY <1>2, <1>3, <1>4, <1>5

LEMMA AppInvHolds == DroidSpec => []AppInv
<1>1. DroidInit /\ LinkInv /\ DroidTypeOK => AppInv
  BY DEF DroidInit, SessionInit, HidInit, AppInv, QuietBehind, EventsTell,
         ScreenTells, TimerTells, Bound, Down
<1>2. ASSUME AppInv, [DroidNext]_droidVars PROVE Follows'
  <2>1. CASE DroidNext
    BY <1>2, <2>1, StackFollows, PoolFollows, MessageFollows, LifeFollows DEF DroidNext
  <2>2. CASE UNCHANGED droidVars
    <3>1. UNCHANGED <<pool, mixed, link, phase, events, screen, pending, astray, armed>>
      BY <2>2 DEF droidVars, hidVars, stackVars, sessionVars, appVars
    <3>2. Follows
      BY <1>2 DEF AppInv, Follows
    <3>3. QED
      BY <3>1, <3>2, ClearKept, FollowsKept DEF Down
  <2>3. QED
    BY <1>2, <2>1, <2>2
<1>3. AppInv /\ LinkInv' /\ DroidTypeOK' /\ [DroidNext]_droidVars => AppInv'
  BY <1>2 DEF AppInv, Follows
<1>4. QED
  BY <1>1, <1>3, LinkInvInApp, DroidTypeCorrect, PTL DEF DroidSpec

\* Whenever things settle the game pad is shown exactly while there is a link:
\* for every order in which callbacks, messages, transactions, pauses and
\* crashes come, unless an event was lost or a switch left out.
THEOREM ScreenFollowsLinkHolds == DroidSpec => []ScreenFollowsLink
<1>1. AppInv => ScreenFollowsLink
  BY DEF AppInv, ScreenTells, Bound, ScreenFollowsLink, Settled
<1>2. QED
  BY <1>1, AppInvHolds, PTL

\* Whenever things settle the timer does not push into the void, unless it was
\* armed late or the disconnection event was lost.
THEOREM TimerFollowsLinkHolds == DroidSpec => []TimerFollowsLink
<1>1. AppInv => TimerFollowsLink
  BY DEF AppInv, TimerTells, TimerFollowsLink, Settled
<1>2. QED
  BY <1>1, AppInvHolds, PTL

\* A disconnection event that is handled late never ends a link whose game pad
\* the activity has been told to show.
THEOREM ShownLinkSurvivesHolds == DroidSpec => ShownLinkSurvives
<1>1. ASSUME AppInv, HandleDisconnected, link'.state # link.state, ~mixed
      PROVE  Unhandled("CONNECTED")
  <2> USE DEF AppInv, DroidTypeOK, HidTypeOK
  <2>1. link # Down
    BY <1>1, ClosingType DEF HandleDisconnected, Disconnect
  <2>2. events # <<>>
    BY <1>1 DEF HandleDisconnected, ShowSplash, Handled
  <2>3. CASE Announcing = {}
    <3>1. Newest = "CONNECTED"
      BY <1>1, <2>1, <2>2, <2>3 DEF EventsTell, Clear, Telling
    <3>2. Len(events) \in DOMAIN events
      BY <1>1, <2>2, HandledEvents
    <3>3. QED
      BY <3>1, <3>2 DEF Newest, Unhandled
  <2>4. CASE Announcing # {}
    <3>1. PICK t \in Threads : Announcing = {t} /\ Truthful(t)
      BY <1>1, <2>4 DEF LinkInv, Told
    <3>2. QED
      BY <2>1, <3>1 DEF Truthful, Unhandled
  <2>5. QED
    BY <2>3, <2>4
<1>2. QED
  BY <1>1, AppInvHolds, PTL DEF DroidSpec, ShownLinkSurvives
=============================================================================
