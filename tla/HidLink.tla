------------------------------ MODULE HidLink -------------------------------
(***************************************************************************)
(* BtHidClient.kt: the HID client between the Bluetooth stack and the      *)
(* proxy.  The stack calls back on a cached thread pool, one thread per    *)
(* callback and no order between them; the profile service and the         *)
(* activity call on the main thread.                                       *)
(*                                                                         *)
(* The stack and its service are the environment: a link to one console at *)
(* a time, which needs the application registered and in front, and a      *)
(* service process that may die without a word about the link.  The        *)
(* CONNECTING and DISCONNECTING callbacks change nothing but a progress    *)
(* bar and are left out, and so is an adapter that is switched off.        *)
(***************************************************************************)

CONSTANTS
  Hosts,      \* consoles
  Target,     \* the one that connect looks for by name
  None,       \* a null device
  Threads     \* threads of the pool: bounds the callbacks under way

ASSUME HostsAssumption == Target \in Hosts /\ None \notin Hosts

VARIABLES
  service,       \* the profile service: "absent", "up", "closed"
  registered,    \* the stack has the application registered
  link,          \* the stack's link: "down", "up" or "closing", and to whom
  pool,          \* callback each thread of the pool is running
  hidDevice,     \* BtHidClient.hidDevice is not null
  remoteDevice,  \* BtHidClient.remoteDevice
  scan,          \* the adapter's scan mode: "none", "discoverable"
  phase,         \* MainActivity: "new", "paused", "resumed", "destroyed"
  mixed          \* history: see below

stackVars == <<service, registered, link>>
clientVars == <<hidDevice, remoteDevice, scan>>
hidVars == <<stackVars, pool, clientVars, phase, mixed>>

\* mixed: connection callbacks overlapped or one was never made, and none has
\* come alone since.
-----------------------------------------------------------------------------

Down == [state |-> "down", host |-> None]

Links ==
  {Down} \cup [state : {"up", "closing"}, host : Hosts]

NoTask == [what |-> "idle", host |-> None, step |-> "none"]

Connections == {"CONNECTED", "DISCONNECTED"}

Tasks ==
  {NoTask} \cup [what : Connections, host : Hosts, step : {"write", "post"}]
           \cup [what : {"DATA"}, host : Hosts, step : {"post"}]

\* Threads that run a connection callback.
Announcing == {t \in Threads : pool[t].what \in Connections}

HidInit ==
  /\ service = "absent"
  /\ registered = FALSE
  /\ link = Down
  /\ pool = [t \in Threads |-> NoTask]
  /\ hidDevice = FALSE
  /\ remoteDevice = None
  /\ scan = "none"
  /\ phase = "new"
  /\ mixed = FALSE

-----------------------------------------------------------------------------
(* Faulty variants of definitions below: each breaks a property of the last  *)
(* section when it takes the place of the definition it is named after.      *)

\* A second callback leaves the device that is already there.
RemoteKeepFirst(task) ==
  IF task.what = "CONNECTED" /\ remoteDevice = None THEN task.host ELSE remoteDevice

\* Every callback stores its device.
RemoteNotCleared(task) == task.host

-----------------------------------------------------------------------------
(* The pool.                                                               *)

\* A callback is handed to a thread of its own.
Run(t, task) ==
  /\ pool[t] = NoTask
  /\ pool' = [pool EXCEPT ![t] = task]

Announce(what, h) ==
  /\ \E t \in Threads : Run(t, [what |-> what, host |-> h, step |-> "write"])
  /\ mixed' = (Announcing # {})

\* onConnectionStateChanged: remoteDevice is set or cleared first ...
RemoteAfter(task) == IF task.what = "CONNECTED" THEN task.host ELSE None

PoolWrite(t) ==
  /\ pool[t].step = "write"
  /\ remoteDevice' = RemoteAfter(pool[t])
  /\ pool' = [pool EXCEPT ![t].step = "post"]
  /\ UNCHANGED <<stackVars, hidDevice, scan, phase, mixed>>

\* ... and the event is posted.  onInterruptData only posts.
Returned(t) == [pool EXCEPT ![t] = NoTask]

PoolPost(t) ==
  /\ pool[t].step = "post"
  /\ pool' = Returned(t)
  /\ UNCHANGED <<stackVars, clientVars, phase, mixed>>

-----------------------------------------------------------------------------
(* The stack.                                                              *)

\* A console connects, by itself or because it was asked to.
StackConnect(h) ==
  /\ registered
  /\ link = Down
  /\ link' = [state |-> "up", host |-> h]
  /\ Announce("CONNECTED", h)
  /\ UNCHANGED <<service, registered, clientVars, phase>>

\* The link goes down, by request of either side or by a loss of the radio.
\* An application that is no longer registered may not be told.
StackDrop ==
  /\ link # Down
  /\ link' = Down
  /\ \/ Announce("DISCONNECTED", link.host)
     \/ ~registered /\ mixed' = TRUE /\ UNCHANGED pool
  /\ UNCHANGED <<service, registered, clientVars, phase>>

\* An output report arrives.
StackData ==
  /\ link.state = "up"
  /\ \E t \in Threads :
       Run(t, [what |-> "DATA", host |-> link.host, step |-> "post"])
  /\ UNCHANGED <<stackVars, clientVars, phase, mixed>>

\* An application in the background loses its registration.
StackUnregister ==
  /\ phase \in {"paused", "destroyed"}
  /\ registered
  /\ registered' = FALSE
  /\ UNCHANGED <<service, link, pool, clientVars, phase, mixed>>

\* The service process dies, and with it link and registration.
StackCrash ==
  /\ service = "up"
  /\ service' = "absent"
  /\ registered' = FALSE
  /\ link' = Down
  /\ mixed' = (mixed \/ link # Down)
  /\ UNCHANGED <<pool, clientVars, phase>>

\* disconnect(d) of the profile: takes its time.
Closing(d) ==
  IF hidDevice /\ link.state = "up" /\ link.host = d
    THEN [link EXCEPT !.state = "closing"] ELSE link

-----------------------------------------------------------------------------
(* The main thread: callbacks of the service.                              *)

\* registerApp succeeds in the foreground; elsewhere it may not.
Registering == IF phase = "resumed" THEN {TRUE} ELSE BOOLEAN

\* A binding that unregister came too early for still completes.
OnServiceConnected ==
  /\ phase # "new"
  /\ service = "absent"
  /\ ~hidDevice
  /\ service' = "up"
  /\ hidDevice' = TRUE
  /\ registered' \in Registering
  /\ UNCHANGED <<link, pool, remoteDevice, scan, phase, mixed>>

\* The service was lost; remoteDevice is left as it is.
OnServiceDisconnected ==
  /\ service = "absent"
  /\ hidDevice
  /\ hidDevice' = FALSE
  /\ UNCHANGED <<stackVars, pool, remoteDevice, scan, phase, mixed>>

-----------------------------------------------------------------------------
(* The main thread: calls of the proxy.                                    *)

\* register: getProfileProxy, answered by onServiceConnected.
Register ==
  /\ phase = "new"
  /\ phase' = "paused"
  /\ UNCHANGED <<stackVars, pool, clientVars, mixed>>

\* unregister: without a proxy there is nothing to close.
Unregister ==
  /\ phase = "paused"
  /\ phase' = "destroyed"
  /\ service' = IF hidDevice THEN "closed" ELSE service
  /\ UNCHANGED <<registered, link, pool, clientVars, mixed>>

\* Faulty variant of Resume: the application is not registered again.
ResumeUnregistered ==
  /\ phase = "paused"
  /\ phase' = "resumed"
  /\ scan' = "discoverable"
  /\ UNCHANGED <<stackVars, pool, hidDevice, remoteDevice, mixed>>

Resume ==
  /\ phase = "paused"
  /\ phase' = "resumed"
  /\ registered' = (registered \/ (hidDevice /\ service = "up"))
  /\ scan' = "discoverable"
  /\ UNCHANGED <<service, link, pool, hidDevice, remoteDevice, mixed>>

\* pause: returns at once if there is no remote device.
Pause ==
  /\ phase = "resumed"
  /\ phase' = "paused"
  /\ link' = Closing(remoteDevice)
  /\ scan' = IF remoteDevice = None THEN scan ELSE "none"
  /\ UNCHANGED <<service, registered, pool, hidDevice, remoteDevice, mixed>>

\* connect: the target is disconnected, then asked to connect.
Connect ==
  /\ phase = "resumed"
  /\ link' = Closing(Target)
  /\ UNCHANGED <<service, registered, pool, clientVars, phase, mixed>>

Disconnect ==
  /\ phase = "resumed"
  /\ link' = Closing(remoteDevice)
  /\ UNCHANGED <<service, registered, pool, clientVars, phase, mixed>>

\* sendInputReport: where a report sent now goes.
SendTarget == IF hidDevice THEN remoteDevice ELSE None

-----------------------------------------------------------------------------

Stack ==
  \/ \E h \in Hosts : StackConnect(h)
  \/ StackDrop \/ StackData \/ StackUnregister \/ StackCrash

Pool == \E t \in Threads : PoolWrite(t) \/ PoolPost(t)

Main ==
  \/ OnServiceConnected \/ OnServiceDisconnected
  \/ Register \/ Unregister \/ Resume \/ Pause \/ Connect \/ Disconnect

HidNext == Stack \/ Pool \/ Main

HidSpec == HidInit /\ [][HidNext]_hidVars

-----------------------------------------------------------------------------
(* Properties.                                                             *)

\* Every variable keeps its type.
HidTypeOK ==
  /\ service \in {"absent", "up", "closed"}
  /\ registered \in BOOLEAN
  /\ link \in Links
  /\ pool \in [Threads -> Tasks]
  /\ hidDevice \in BOOLEAN
  /\ remoteDevice \in Hosts \cup {None}
  /\ scan \in {"none", "discoverable"}
  /\ phase \in {"new", "paused", "resumed", "destroyed"}
  /\ mixed \in BOOLEAN

\* In front with the service bound, the application is registered: in whatever
\* order the service is bound, lost and found again, the activity pauses and
\* resumes, and the stack drops the registration in the background.
RegisteredInFront ==
  phase = "resumed" /\ hidDevice /\ service = "up" => registered

\* No connection callback is under way, and the last one came alone.
Clear == Announcing = {} /\ ~mixed

\* When the callbacks are done and did not overlap, the client has the console
\* the link is to, and no other: reports go to it, or nowhere without a link.
RemoteAgrees == Clear => SendTarget = link.host

\* A pause ends the link and hides the adapter, unless the callback that would
\* have told the client about the link is still under way or was overtaken:
\* then pause finds no remote device and leaves both as they are.
PauseReleasesConsole ==
  [][phase = "resumed" /\ phase' = "paused" /\ Clear /\ link.state = "up"
       => link'.state = "closing" /\ scan' = "none"]_hidVars
=============================================================================
