---------------------------- MODULE HidLinkProofs ---------------------------
(***************************************************************************)
(* Proofs about the HID client, for every set of consoles and any number   *)
(* of callbacks under way.                                                 *)
(***************************************************************************)
EXTENDS HidLink, TLAPS

-----------------------------------------------------------------------------
(* Type correctness.                                                       *)

LEMMA TaskTypes ==
  /\ Down \in Links
  /\ NoTask \in Tasks
  /\ \A w \in Connections, h \in Hosts :
       [what |-> w, host |-> h, step |-> "write"] \in Tasks
  /\ \A h \in Hosts : [what |-> "DATA", host |-> h, step |-> "post"] \in Tasks
  /\ \A k \in Tasks : k.step = "write" =>
       /\ [k EXCEPT !.step = "post"] \in Tasks
       /\ k.host \in Hosts
       /\ RemoteAfter(k) \in Hosts \cup {None}
  /\ \A l \in Links : l # Down => l.host \in Hosts
BY DEF Down, Links, NoTask, Tasks, Connections, RemoteAfter

LEMMA ClosingType ==
  ASSUME link \in Links, NEW d
  PROVE  /\ Closing(d) \in Links
         /\ Closing(d).host = link.host
         /\ Closing(d) = Down <=> link = Down
BY DEF Closing, Links, Down

LEMMA AnnounceType ==
  ASSUME pool \in [Threads -> Tasks], NEW w \in Connections, NEW h \in Hosts,
         Announce(w, h)
  PROVE  pool' \in [Threads -> Tasks] /\ mixed' \in BOOLEAN
BY TaskTypes DEF Announce, Run

LEMMA HidTypeInductive ==
  /\ HidInit => HidTypeOK
  /\ HidTypeOK /\ [HidNext]_hidVars => HidTypeOK'
<1>1. HidInit => HidTypeOK
  BY TaskTypes DEF HidInit, HidTypeOK
<1>2. ASSUME HidTypeOK, [HidNext]_hidVars PROVE HidTypeOK'
  <2> USE <1>2 DEF HidTypeOK
  <2>1. CASE \E h \in Hosts : StackConnect(h)
    <3>1. PICK h \in Hosts : StackConnect(h)
      BY <2>1
    <3>2. Announce("CONNECTED", h) /\ "CONNECTED" \in Connections
      BY <3>1 DEF StackConnect, Connections
    <3>3. link' \in Links
      BY <3>1 DEF StackConnect, Links
    <3>4. QED
      BY <3>1, <3>2, <3>3, AnnounceType DEF StackConnect, clientVars
  <2>2. CASE StackDrop
    <3>1. link.host \in Hosts /\ "DISCONNECTED" \in Connections
      BY <2>2, TaskTypes DEF StackDrop, Connections
    <3>2. pool' \in [Threads -> Tasks] /\ mixed' \in BOOLEAN
      BY <2>2, <3>1, AnnounceType DEF StackDrop
    <3>3. QED
      BY <2>2, <3>2, TaskTypes DEF StackDrop, clientVars
  <2>3. CASE StackData
    <3>1. link.host \in Hosts
      BY <2>3, TaskTypes DEF StackData, Down
    <3>2. pool' \in [Threads -> Tasks]
      BY <2>3, <3>1, TaskTypes DEF StackData, Run
    <3>3. QED
      BY <2>3, <3>2 DEF StackData, stackVars, clientVars
  <2>4. CASE StackUnregister \/ StackCrash
    BY <2>4, TaskTypes DEF StackUnregister, StackCrash, clientVars
  <2>5. CASE \E t \in Threads : PoolWrite(t)
    <3>1. PICK t \in Threads : PoolWrite(t)
      BY <2>5
    <3>2. pool' \in [Threads -> Tasks] /\ remoteDevice' \in Hosts \cup {None}
      BY <3>1, TaskTypes DEF PoolWrite
    <3>3. QED
      BY <3>1, <3>2 DEF PoolWrite, stackVars
  <2>6. CASE \E t \in Threads : PoolPost(t)
    BY <2>6, TaskTypes DEF PoolPost, Returned, stackVars, clientVars
  <2>7. CASE OnServiceConnected \/ OnServiceDisconnected
    BY <2>7 DEF OnServiceConnected, OnServiceDisconnected, Registering, stackVars
  <2>8. CASE Register \/ Unregister \/ Resume
    BY <2>8 DEF Register, Unregister, Resume, stackVars, clientVars
  <2>9. CASE Pause \/ Connect \/ Disconnect
    BY <2>9, ClosingType DEF Pause, Connect, Disconnect, clientVars
  <2>10. CASE UNCHANGED hidVars
    BY <2>10 DEF hidVars, stackVars, clientVars
  <2>11. QED
    BY <2>1, <2>2, <2>3, <2>4, <2>5, <2>6, <2>7, <2>8, <2>9, <2>10
    DEF HidNext, Stack, Pool, Main
<1>3. QED
  BY <1>1, <1>2

\* Every variable of the client and of the stack keeps its type.
THEOREM HidTypeCorrect == HidSpec => []HidTypeOK
<1>1. QED
  BY HidTypeInductive, PTL DEF HidSpec

-----------------------------------------------------------------------------
(* Registration.                                                           *)

\* In front, with the service bound, the application is registered, for every
\* order of binding, crash, pause, resume and background unregistration.
THEOREM RegisteredInFrontHolds == HidSpec => []RegisteredInFront
<1>1. HidInit => RegisteredInFront
  BY DEF HidInit, RegisteredInFront
<1>2. RegisteredInFront /\ [HidNext]_hidVars => RegisteredInFront'
  <2> SUFFICES ASSUME RegisteredInFront, [HidNext]_hidVars
               PROVE  RegisteredInFront'
    OBVIOUS
  <2>1. CASE OnServiceConnected
    BY <2>1 DEF OnServiceConnected, Registering, RegisteredInFront
  <2>2. CASE Resume
    BY <2>2 DEF Resume, RegisteredInFront
  <2>3. CASE StackUnregister \/ StackCrash \/ OnServiceDisconnected
    BY <2>3 DEF StackUnregister, StackCrash, OnServiceDisconnected, stackVars,
                clientVars, RegisteredInFront
  <2>4. CASE Pause \/ Unregister \/ Register
    BY <2>4 DEF Pause, Unregister, Register, stackVars, clientVars,
                RegisteredInFront
  <2>5. CASE UNCHANGED <<phase, hidDevice, service, registered>>
    BY <2>5 DEF RegisteredInFront
  <2>6. \/ UNCHANGED <<phase, hidDevice, service, registered>>
        \/ OnServiceConnected \/ Resume \/ StackUnregister \/ StackCrash
        \/ OnServiceDisconnected \/ Pause \/ Unregister \/ Register
    BY DEF HidNext, Stack, Pool, Main, StackConnect, StackDrop, StackData,
           PoolWrite, PoolPost, Connect, Disconnect, hidVars, stackVars,
           clientVars
  <2>7. QED
    BY <2>1, <2>2, <2>3, <2>4, <2>5, <2>6
<1>3. QED
  BY <1>1, <1>2, PTL DEF HidSpec

-----------------------------------------------------------------------------
(* The client's view of the link.                                          *)

\* There is a registration or a link only with the service bound.
LinkNeedsService ==
  registered \/ link # Down => hidDevice /\ service # "absent"

\* The callback on thread t tells what happened to the link last.
Truthful(t) ==
  /\ pool[t].what = IF link = Down THEN "DISCONNECTED" ELSE "CONNECTED"
  /\ link # Down => pool[t].host = link.host
  /\ pool[t].step = "post" => remoteDevice = link.host

\* Either the client knows, or the one callback under way tells it.
Told ==
  ~mixed => \/ Announcing = {} /\ remoteDevice = link.host
            \/ \E t \in Threads : Announcing = {t} /\ Truthful(t)

LinkInv == HidTypeOK /\ LinkNeedsService /\ Told

LEMMA LinkNeedsServiceStep ==
  ASSUME HidTypeOK, LinkNeedsService, [HidNext]_hidVars
  PROVE  LinkNeedsService'
<1> USE DEF LinkNeedsService
<1>1. CASE (\E h \in Hosts : StackConnect(h)) \/ StackDrop \/ StackData
           \/ StackUnregister \/ StackCrash
  BY <1>1 DEF StackConnect, StackDrop, StackData, StackUnregister, StackCrash,
              stackVars, clientVars
<1>2. CASE OnServiceConnected \/ OnServiceDisconnected
  BY <1>2 DEF OnServiceConnected, OnServiceDisconnected, stackVars
<1>3. CASE Register \/ Unregister \/ Resume
  BY <1>3 DEF Register, Unregister, Resume, stackVars, clientVars
<1>4. CASE Pause \/ Connect \/ Disconnect
  BY <1>4, ClosingType DEF Pause, Connect, Disconnect, clientVars, HidTypeOK
<1>5. CASE Pool \/ UNCHANGED hidVars
  BY <1>5 DEF Pool, PoolWrite, PoolPost, hidVars, stackVars, clientVars
<1>6. QED
  BY <1>1, <1>2, <1>3, <1>4, <1>5 DEF HidNext, Stack, Main

\* A callback that is handed over alone is the only one under way.
LEMMA AnnounceAlone ==
  ASSUME HidTypeOK, NEW w \in Connections, NEW h \in Hosts,
         Announce(w, h), ~mixed'
  PROVE  \E t \in Threads :
           /\ Announcing' = {t}
           /\ pool'[t] = [what |-> w, host |-> h, step |-> "write"]
<1>1. Announcing = {}
  BY DEF Announce
<1>2. PICK t \in Threads : Run(t, [what |-> w, host |-> h, step |-> "write"])
  BY DEF Announce
<1>3. pool' = [x \in Threads |->
                 IF x = t THEN [what |-> w, host |-> h, step |-> "write"]
                          ELSE pool[x]]
  BY <1>2 DEF Run, HidTypeOK
<1>4. Announcing' = {t}
  BY <1>1, <1>3 DEF Announcing
<1>5. QED
  BY <1>3, <1>4

\* Steps that touch neither link nor callbacks leave the client informed.
LEMMA ToldKept ==
  ASSUME Told, link' = link, remoteDevice' = remoteDevice, mixed' = mixed,
         Announcing' = Announcing, \A t \in Announcing : pool'[t] = pool[t]
  PROVE  Told'
BY DEF Told, Truthful

LEMMA ToldStep ==
  ASSUME LinkInv, [HidNext]_hidVars
  PROVE  Told'
<1> USE DEF LinkInv
<1>1. CASE \E h \in Hosts : StackConnect(h)
  <2>1. PICK h \in Hosts : StackConnect(h)
    BY <1>1
  <2>2. Announce("CONNECTED", h) /\ "CONNECTED" \in Connections
    BY <2>1 DEF StackConnect, Connections
  <2>3. link' # Down /\ link'.host = h
    BY <2>1 DEF StackConnect, Down
  <2>4. ASSUME ~mixed' PROVE \E t \in Threads : Announcing' = {t} /\ Truthful(t)'
    <3>1. PICK t \in Threads :
            /\ Announcing' = {t}
            /\ pool'[t] = [what |-> "CONNECTED", host |-> h, step |-> "write"]
      BY <2>2, <2>4, AnnounceAlone
    <3>2. Truthful(t)'
      BY <2>3, <3>1 DEF Truthful
    <3>3. QED
      BY <3>1, <3>2
  <2>5. QED
    BY <2>4 DEF Told
<1>2. CASE StackDrop
  <2>1. link.host \in Hosts /\ "DISCONNECTED" \in Connections
    BY <1>2, TaskTypes DEF StackDrop, Connections, HidTypeOK
  <2>2. ~mixed' => Announce("DISCONNECTED", link.host)
    BY <1>2 DEF StackDrop
  <2>3. link' = Down
    BY <1>2 DEF StackDrop
  <2>4. ASSUME ~mixed' PROVE \E t \in Threads : Announcing' = {t} /\ Truthful(t)'
    <3>1. PICK t \in Threads :
            /\ Announcing' = {t}
            /\ pool'[t] = [what |-> "DISCONNECTED", host |-> link.host, step |-> "write"]
      BY <2>1, <2>2, <2>4, AnnounceAlone
    <3>2. Truthful(t)'
      BY <2>3, <3>1 DEF Truthful
    <3>3. QED
      BY <3>1, <3>2
  <2>5. QED
    BY <2>4 DEF Told
<1>3. CASE StackData
  <2>1. PICK t \in Threads :
          Run(t, [what |-> "DATA", host |-> link.host, step |-> "post"])
    BY <1>3 DEF StackData
  <2>2. pool' = [x \in Threads |->
                   IF x = t THEN [what |-> "DATA", host |-> link.host, step |-> "post"]
                            ELSE pool[x]]
    BY <2>1 DEF Run, HidTypeOK
  <2>3. t \notin Announcing
    BY <2>1 DEF Run, NoTask, Announcing, Connections
  <2>4. Announcing' = Announcing /\ \A x \in Announcing : pool'[x] = pool[x]
    BY <2>2, <2>3 DEF Announcing, Connections
  <2>5. QED
    BY <1>3, <2>4, ToldKept DEF StackData, stackVars, clientVars
<1>4. CASE StackCrash
  BY <1>4 DEF StackCrash, clientVars, Told, Truthful, Announcing
<1>5. CASE \E t \in Threads : PoolWrite(t)
  <2>1. PICK t \in Threads : PoolWrite(t)
    BY <1>5
  <2>2. pool[t] \in Tasks /\ pool[t].step = "write"
    BY <2>1 DEF PoolWrite, HidTypeOK
  <2>3. pool[t].what \in Connections
    BY <2>2 DEF Tasks, NoTask
  <2>4. pool' = [x \in Threads |->
                   IF x = t THEN [pool[t] EXCEPT !.step = "post"] ELSE pool[x]]
    BY <2>1 DEF PoolWrite, HidTypeOK
  <2>5. /\ [pool[t] EXCEPT !.step = "post"].what = pool[t].what
        /\ [pool[t] EXCEPT !.step = "post"].host = pool[t].host
    BY <2>2, <2>3 DEF Tasks, NoTask
  <2>6. Announcing' = Announcing
    BY <2>4, <2>5 DEF Announcing
  <2>7. link' = link /\ mixed' = mixed /\ remoteDevice' = RemoteAfter(pool[t])
    BY <2>1 DEF PoolWrite, stackVars
  <2>8. ASSUME ~mixed PROVE Announcing' = {t} /\ Truthful(t)'
    <3>1. Announcing = {t} /\ Truthful(t)
      BY <2>3, <2>8 DEF Told, Announcing
    <3>2. RemoteAfter(pool[t]) = link.host
      BY <3>1 DEF RemoteAfter, Truthful, Down
    <3>3. pool'[t].what = pool[t].what /\ pool'[t].host = pool[t].host
      BY <2>4, <2>5
    <3>4. QED
      BY <2>6, <2>7, <3>1, <3>2, <3>3 DEF Truthful
  <2>9. QED
    BY <2>7, <2>8 DEF Told
<1>6. CASE \E t \in Threads : PoolPost(t)
  <2>1. PICK t \in Threads : PoolPost(t)
    BY <1>6
  <2>2. pool' = [x \in Threads |-> IF x = t THEN NoTask ELSE pool[x]]
    BY <2>1 DEF PoolPost, Returned, HidTypeOK
  <2>3. UNCHANGED <<link, remoteDevice, mixed>>
    BY <2>1 DEF PoolPost, stackVars, clientVars
  <2>4. Announcing' = Announcing \ {t}
    BY <2>2 DEF Announcing, NoTask, Connections
  <2>5. CASE t \notin Announcing
    <3>1. Announcing' = Announcing /\ \A x \in Announcing : pool'[x] = pool[x]
      BY <2>2, <2>4, <2>5 DEF Announcing
    <3>2. QED
      BY <2>3, <3>1, ToldKept
  <2>6. CASE t \in Announcing /\ ~mixed
    <3>1. Announcing = {t} /\ Truthful(t)
      BY <2>6 DEF Told
    <3>2. Announcing' = {} /\ remoteDevice = link.host
      BY <2>1, <2>4, <3>1 DEF PoolPost, Truthful
    <3>3. QED
      BY <2>3, <3>2 DEF Told
  <2>7. CASE mixed
    BY <2>3, <2>7 DEF Told
  <2>8. QED
    BY <2>5, <2>6, <2>7
<1>7. CASE Pause \/ Connect \/ Disconnect
  <2>1. link'.host = link.host /\ (link' = Down <=> link = Down)
    BY <1>7, ClosingType DEF Pause, Connect, Disconnect, HidTypeOK
  <2>2. UNCHANGED <<pool, remoteDevice, mixed>>
    BY <1>7 DEF Pause, Connect, Disconnect, clientVars
  <2>3. QED
    BY <2>1, <2>2 DEF Told, Truthful, Announcing
<1>8. CASE UNCHANGED <<link, remoteDevice, mixed, pool>>
  BY <1>8 DEF Told, Truthful, Announcing
<1>9. StackUnregister \/ OnServiceConnected \/ OnServiceDisconnected \/ Register
      \/ Unregister \/ Resume \/ UNCHANGED hidVars
        => UNCHANGED <<link, remoteDevice, mixed, pool>>
  BY DEF StackUnregister, OnServiceConnected, OnServiceDisconnected, Register,
         Unregister, Resume, hidVars, stackVars, clientVars
<1>10. QED
  BY <1>1, <1>2, <1>3, <1>4, <1>5, <1>6, <1>7, <1>8, <1>9
  DEF HidNext, Stack, Pool, Main

LEMMA LinkInvHolds == HidSpec => []LinkInv
<1>1. HidInit => LinkInv
  <2>1. HidInit => LinkNeedsService
    BY DEF HidInit, LinkNeedsService
  <2>2. HidInit => Told
    BY DEF HidInit, Told, Announcing, NoTask, Connections, Down
  <2>3. QED
    BY <2>1, <2>2, HidTypeInductive DEF LinkInv
<1>2. LinkInv /\ [HidNext]_hidVars => LinkInv'
  BY HidTypeInductive, LinkNeedsServiceStep, ToldStep DEF LinkInv
<1>3. QED
  BY <1>1, <1>2, PTL DEF HidSpec

LEMMA LinkInvAgrees == LinkInv => RemoteAgrees
BY DEF LinkInv, Told, RemoteAgrees, Clear, SendTarget, LinkNeedsService, Down

\* Once the callbacks are done, and unless they overlapped or one was never
\* made, reports go to the console the link is to.
THEOREM RemoteAgreesHolds == HidSpec => []RemoteAgrees
<1>1. QED
  BY LinkInvHolds, LinkInvAgrees, PTL

\* A pause that finds things clear ends the link and hides the adapter.
THEOREM PauseReleasesConsoleHolds == HidSpec => PauseReleasesConsole
<1>1. ASSUME LinkInv, [HidNext]_hidVars, phase = "resumed", phase' = "paused",
             Clear, link.state = "up"
      PROVE  link'.state = "closing" /\ scan' = "none"
  <2>1. Pause
    BY <1>1 DEF HidNext, Stack, Pool, Main, StackConnect, StackDrop, StackData,
       StackUnregister, StackCrash, PoolWrite, PoolPost, OnServiceConnected,
       OnServiceDisconnected, Register, Unregister, Resume, Connect, Disconnect,
       hidVars
  <2>2. link \in Links /\ link # Down /\ link.host \in Hosts
    BY <1>1, TaskTypes DEF LinkInv, HidTypeOK, Down
  <2>3. hidDevice /\ remoteDevice = link.host
    BY <1>1, <2>2, LinkInvAgrees DEF LinkInv, LinkNeedsService, RemoteAgrees, SendTarget
  <2>4. link' = [link EXCEPT !.state = "closing"]
    BY <1>1, <2>1, <2>3 DEF Pause, Closing
  <2>5. link'.state = "closing"
    BY <2>2, <2>4 DEF Links, Down
  <2>6. remoteDevice # None
    BY <2>2, <2>3, HostsAssumption
  <2>7. QED
    BY <2>1, <2>5, <2>6 DEF Pause
<1>2. QED
  BY <1>1, LinkInvHolds, PTL DEF HidSpec, PauseReleasesConsole
=============================================================================
