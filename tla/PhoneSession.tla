------------------------------ MODULE PhoneSession ------------------------------
(***************************************************************************)
(* The iPhone's session (Streaming/StreamController.swift): what connect() *)
(* starts, disconnect() ends and the screen shows.  PhoneStream.tla has    *)
(* what the stream is configured with.                                     *)
(*                                                                         *)
(* connect() is a coroutine off the main thread, suspended at each await.  *)
(* The main queue runs, in order: state callbacks of the control channel,  *)
(* commands, and the tasks that publish to the user interface; the user    *)
(* taps in between.  The channel is the one of ControlChannel.tla, without *)
(* its bytes: an NWConnection has callbacks to make after it is cancelled, *)
(* and they act on the connection of that time.                            *)
(***************************************************************************)
EXTENDS Naturals, Sequences

CONSTANTS
  MaxConnects, \* bound: connect() calls
  MaxCommands, \* bound: commands received
  Overlap      \* bound: whether connect() may be called while one is under way

ASSUME BoundsAssumption == MaxConnects \in Nat /\ MaxCommands \in Nat /\ Overlap \in BOOLEAN

Dialer == 1 .. MaxConnects
Command == {"activation", "mic", "snapshot"}

\* What disconnect() has to put an end to; "snapshot" is pendingSnapshot, and
\* "bonjour" the service as connect() starts it (the connection screen also
\* does, of its own accord).
Resource == {"listener", "metrics", "bonjour", "mic", "encoder", "abr", "snapshot"}

VARIABLES
  \* StreamController
  main,            \* the main queue: jobs posted and not yet run
  shown,           \* connectionState, as published
  useUsbLoopback,
  dialer,          \* each connect(): where it is suspended, which button it
                   \* was called by, and the address its descriptor names
  on,              \* the resources in use
  capture,         \* "off", "on" or "stopping" (a stop is on the session queue)
  \* ControlChannel
  control,         \* its state and the link below it
  callbacks,       \* state callbacks of NWConnections not yet made
  lostReceives,    \* receives of cancelled connections, to end in an error
  \* bound and history
  commands,        \* commands received
  astir,           \* since disconnect(), connect() went on or a command was handled
  crossed,         \* a channel state was handled in the moment connect() published
  overlapped,      \* connect() dialled before the channel was done with a connection
  again,           \* connect() was called with no disconnect() since the last
  misnamed         \* a descriptor named an address of the other route

uiVars   == <<main, shown, useUsbLoopback, dialer>>
heldVars == <<on, capture>>
netVars  == <<control, callbacks, lostReceives>>
pastVars == <<commands, astir, crossed, overlapped, again, misnamed>>
vars == <<uiVars, heldVars, netVars, pastVars>>

\* init() ends with disconnect().
Init ==
  /\ main = <<>> /\ shown = "disconnected" /\ useUsbLoopback = FALSE
  /\ dialer = [d \in Dialer |-> [step |-> "none", usb |-> FALSE, loopback |-> FALSE]]
  /\ on = {} /\ capture = "off"
  /\ control = [state |-> "idle", link |-> "none"] /\ callbacks = <<>> /\ lostReceives = 0
  /\ commands = 0 /\ astir = FALSE /\ crossed = FALSE /\ overlapped = FALSE /\ again = FALSE /\ misnamed = FALSE

-----------------------------------------------------------------------------
(* ControlChannel *)

\* state's didSet: a change is posted to the main queue.
StateChange(s) == IF control.state = s THEN <<>> ELSE <<[do |-> "control", state |-> s]>>

\* disconnect(): the connection there is has callbacks to make.
CancelPosts == IF control.link = "none" THEN <<>> ELSE <<"cancelled">>
CancelReceives == IF control.link = "open" THEN 1 ELSE 0

\* An NWConnection becomes ready or fails: its callback is to come.
LinkReports(s) ==
  /\ control.link = "preparing" /\ s \in {"ready", "failed"}
  /\ callbacks' = Append(callbacks, s)
  /\ control' = [control EXCEPT !.link = IF s = "ready" THEN "open" ELSE "broken"]
  /\ UNCHANGED <<uiVars, heldVars, lostReceives, pastVars>>

\* The next state callback; .failed is followed by disconnect().
Callback ==
  /\ callbacks # <<>>
  /\ LET s == CASE Head(callbacks) = "ready" -> "connected"
                [] Head(callbacks) = "failed" -> "failed"
                [] Head(callbacks) = "cancelled" -> "idle"
         disconnects == s = "failed"
     IN  /\ control' = [state |-> s, link |-> IF disconnects THEN "none" ELSE control.link]
         /\ callbacks' = Tail(callbacks) \o IF disconnects THEN CancelPosts ELSE <<>>
         /\ lostReceives' = lostReceives + IF disconnects THEN CancelReceives ELSE 0
         /\ main' = main \o StateChange(s)
  /\ UNCHANGED <<shown, useUsbLoopback, dialer, heldVars, pastVars>>

\* A receive ends: in an error on a cancelled or broken connection, or because
\* Windows has closed; in each case disconnect() follows.
ReceiveEnds ==
  /\ \E s \in {"failed", "idle"} :
       /\ \/ lostReceives > 0 /\ s = "failed" /\ lostReceives' = lostReceives - 1 + CancelReceives
          \/ control = [state |-> "connected", link |-> "open"] /\ UNCHANGED lostReceives
       /\ control' = [state |-> s, link |-> "none"]
       /\ callbacks' = callbacks \o CancelPosts
       /\ main' = main \o StateChange(s)
  /\ UNCHANGED <<shown, useUsbLoopback, dialer, heldVars, pastVars>>

\* A command is decoded and posted.
CommandArrives(c) ==
  /\ control = [state |-> "connected", link |-> "open"]
  /\ commands < MaxCommands /\ commands' = commands + 1
  /\ main' = Append(main, [do |-> "command", command |-> c])
  /\ UNCHANGED <<shown, useUsbLoopback, dialer, heldVars, netVars, astir, crossed, overlapped, again, misnamed>>

-----------------------------------------------------------------------------
(* The user *)

\* Mutant: connectUsb() does not set useUsbLoopback.
Unset(usb) == useUsbLoopback

\* connectUsb() sets useUsbLoopback, connect() leaves it.
Loopback(usb) == useUsbLoopback \/ usb

\* "Connect" cannot be pressed while it says "Connecting", "Use USB cable" can.
Tap(d, usb) ==
  /\ dialer[d].step = "none" /\ \A e \in 1 .. d - 1 : dialer[e].step # "none"
  /\ shown # "connected" /\ (shown = "connecting" => usb)
  /\ Overlap \/ \A e \in Dialer : dialer[e].step \in {"none", "done", "denied"}
  /\ useUsbLoopback' = Loopback(usb)
  /\ dialer' = [dialer EXCEPT ![d] = [step |-> "start", usb |-> usb, loopback |-> FALSE]]
  /\ main' = Append(main, [do |-> "start", dialer |-> d])
  /\ astir' = TRUE
  /\ again' = (again \/ astir)
  /\ UNCHANGED <<shown, heldVars, netVars, commands, crossed, overlapped, misnamed>>

\* Mutant: disconnect() without audioCapture, abrController and pendingSnapshot.
Forgotten == on \intersect {"mic", "abr", "snapshot"}

\* What disconnect() leaves in use.
Kept == {}

Ended == [do |-> "show", state |-> "disconnected"]

\* "End session": disconnect(); tapped again before the screen has changed, it
\* would do nothing more.
Disconnect ==
  /\ shown = "connected" /\ \A i \in DOMAIN main : main[i] # Ended
  /\ control' = [control EXCEPT !.link = "none"]
  /\ callbacks' = callbacks \o CancelPosts /\ lostReceives' = lostReceives + CancelReceives
  /\ on' = Kept
  /\ capture' = IF capture = "on" THEN "stopping" ELSE capture
  /\ useUsbLoopback' = FALSE
  /\ main' = Append(main, Ended)
  /\ astir' = FALSE
  /\ UNCHANGED <<shown, dialer, commands, crossed, overlapped, again, misnamed>>

-----------------------------------------------------------------------------
(* connect(), between its awaits *)

Resume(d, from, to) ==
  /\ dialer[d].step = from /\ dialer' = [dialer EXCEPT ![d].step = to]
  /\ astir' = TRUE
  /\ UNCHANGED <<commands, crossed, again>>

\* Camera permission is asked for once: given or denied, it stays.
Authorise(d) ==
  /\ \/ /\ \A e \in Dialer : dialer[e].step # "denied"
        /\ Resume(d, "authorise", "bring up") /\ UNCHANGED main
     \/ /\ \A e \in Dialer : dialer[e].step \in {"none", "start", "authorise", "denied"}
        /\ Resume(d, "authorise", "denied")
        /\ main' = Append(main, [do |-> "show", state |-> "failed"])
  /\ UNCHANGED <<shown, useUsbLoopback, heldVars, netVars, overlapped, misnamed>>

\* The session queue runs a stop that is on it before anything else.
Drained == IF capture = "stopping" THEN "off" ELSE capture

\* capture.start() reports a missing camera and videoServer.start() a port in
\* use, and connect() goes on; the URL is made before the name is awaited.
BringUp(d) ==
  /\ dialer[d].step = "bring up"
  /\ capture' \in {"on", Drained}
  /\ on' \in {on, on \union {"listener"}}
  /\ dialer' = [dialer EXCEPT ![d].step = "naming", ![d].loopback = useUsbLoopback]
  /\ main' = Append(main, [do |-> "name", dialer |-> d])
  /\ astir' = TRUE
  /\ UNCHANGED <<shown, useUsbLoopback, netVars, commands, crossed, overlapped, again, misnamed>>

\* controlChannel.connect(), which disconnects first; Bonjour and metrics.
Dial(d) ==
  /\ Resume(d, "dial", "dialled")
  /\ control' = [state |-> "connecting", link |-> "preparing"]
  /\ callbacks' = callbacks \o CancelPosts /\ lostReceives' = lostReceives + CancelReceives
  /\ main' = main \o StateChange("connecting")
  /\ on' = on \union {"metrics", "bonjour"}
  /\ overlapped' = (overlapped \/ callbacks # <<>> \/ lostReceives > 0 \/ control.link # "none")
  /\ misnamed' = (misnamed \/ dialer[d].loopback # dialer[d].usb)
  /\ UNCHANGED <<shown, useUsbLoopback, capture>>

\* The last await.
PostTail(d) ==
  /\ Resume(d, "dialled", "tail")
  /\ main' = Append(main, [do |-> "tail", dialer |-> d])
  /\ UNCHANGED <<shown, useUsbLoopback, heldVars, netVars, overlapped, misnamed>>

-----------------------------------------------------------------------------
(* The main queue *)

Publish(s) == <<[do |-> "show", state |-> s]>>

\* Mutant: .idle is taken for the doing of disconnect(), which publishes it.
PublishedSelf(s) == IF s \in {"idle", "connected"} THEN <<>> ELSE Publish(s)

\* handle(controlState:): .connected has been "already set in connect()".
Published(s) ==
  CASE s = "idle" -> Publish("disconnected")
    [] s = "connected" -> <<>>
    [] OTHER -> Publish(s)

\* connect()'s tail is queued already and runs before what s publishes, or it
\* is not and overwrites it.
Crosses(s) ==
  \/ s = "connecting" /\ \E d \in Dialer : dialer[d].step = "tail"
  \/ s \in {"idle", "failed"} /\ \E d \in Dialer : dialer[d].step = "dialled"

\* handle(command:), as far as it takes something into use: an encoder and a
\* bitrate controller unless the encoder refuses, the microphone if there is one.
HandleCommand(c) ==
  /\ astir' = TRUE
  /\ \/ c = "activation"
        /\ on' \in {on \ {"encoder"}, on \union {"encoder", "abr"}}
        /\ capture' = Drained
     \/ c = "mic" /\ on' \in {on, on \union {"mic"}} /\ UNCHANGED capture
     \/ c = "snapshot" /\ on' = on \union {"snapshot"} /\ UNCHANGED capture

\* didOutput, on the capture queue, sends the picture that was asked for.
Snap ==
  /\ capture # "off" /\ "snapshot" \in on
  /\ on' = on \ {"snapshot"}
  /\ UNCHANGED <<uiVars, capture, netVars, pastVars>>

CaptureStops ==
  /\ capture = "stopping" /\ capture' = "off"
  /\ UNCHANGED <<uiVars, on, netVars, pastVars>>

ControlJob(job) ==
  /\ job.do = "control"
  /\ main' = Tail(main) \o Published(job.state)
  /\ crossed' = (crossed \/ Crosses(job.state))
  /\ UNCHANGED <<shown, dialer, heldVars, astir>>

CommandJob(job) ==
  /\ job.do = "command" /\ main' = Tail(main)
  /\ HandleCommand(job.command)
  /\ UNCHANGED <<shown, dialer, crossed>>

ShowJob(job) ==
  /\ job.do = "show" /\ main' = Tail(main)
  /\ shown' = job.state
  /\ UNCHANGED <<dialer, heldVars, astir, crossed>>

\* What connect() waits for the main thread to do, and goes on after.
AwaitedJob(job) ==
  /\ job.do \in {"start", "name", "tail"} /\ main' = Tail(main)
  /\ shown' = CASE job.do = "start" -> "connecting"
                [] job.do = "tail" -> "connected"
                [] job.do = "name" -> shown
  /\ dialer' = [dialer EXCEPT ![job.dialer].step =
                  CASE job.do = "start" -> "authorise"
                    [] job.do = "name" -> "dial"
                    [] job.do = "tail" -> "done"]
  /\ UNCHANGED <<heldVars, astir, crossed>>

RunJob ==
  /\ main # <<>>
  /\ LET job == Head(main)
     IN  ControlJob(job) \/ CommandJob(job) \/ ShowJob(job) \/ AwaitedJob(job)
  /\ UNCHANGED <<useUsbLoopback, netVars, commands, overlapped, again, misnamed>>

-----------------------------------------------------------------------------
Connecting(d) == Authorise(d) \/ BringUp(d) \/ Dial(d) \/ PostTail(d)

Next ==
  \/ \E d \in Dialer : Connecting(d) \/ \E usb \in BOOLEAN : Tap(d, usb)
  \/ Disconnect \/ RunJob \/ Snap \/ CaptureStops
  \/ \E s \in {"ready", "failed"} : LinkReports(s)
  \/ Callback \/ ReceiveEnds \/ \E c \in Command : CommandArrives(c)

Spec == Init /\ [][Next]_vars

-----------------------------------------------------------------------------
(* Properties *)

Job == [do : {"control", "show"}, state : {"idle", "connecting", "connected", "failed", "disconnected"}]
         \union [do : {"command"}, command : Command]
         \union [do : {"start", "name", "tail"}, dialer : Dialer]

TypeOK ==
  /\ main \in Seq(Job)
  /\ shown \in {"disconnected", "connecting", "connected", "failed"}
  /\ dialer \in [Dialer -> [step : {"none", "start", "authorise", "denied", "bring up",
                                    "naming", "dial", "dialled", "tail", "done"},
                            usb : BOOLEAN, loopback : BOOLEAN]]
  /\ on \subseteq Resource /\ capture \in {"off", "on", "stopping"}
  /\ control \in [state : {"idle", "connecting", "connected", "failed"},
                  link : {"none", "preparing", "open", "broken"}]
  /\ callbacks \in Seq({"ready", "failed", "cancelled"}) /\ lostReceives \in Nat
  /\ commands \in 0 .. MaxCommands
  /\ {useUsbLoopback, astir, crossed, overlapped, again, misnamed} \subseteq BOOLEAN

(***************************************************************************)
(* After disconnect() nothing is left in use, whatever callback, frame or  *)
(* task was on its way ("no leaked state", docs/PERFORMANCE.md:108), until *)
(* connect() is called or goes on, or a command that was queued is handled.*)
(* The types are kept throughout.                                          *)
(***************************************************************************)
ShutDown ==
  /\ TypeOK
  /\ ~astir => on = {} /\ capture # "on" /\ ~useUsbLoopback /\ control.link = "none"

AtRest ==
  /\ main = <<>> /\ callbacks = <<>> /\ lostReceives = 0
  /\ \A d \in Dialer : dialer[d].step \in {"none", "done", "denied"}

(***************************************************************************)
(* Once all callbacks and tasks have run, the screen shows a connection    *)
(* exactly if the control channel has one or is still dialling, through    *)
(* failures and reconnects, unless a state of the channel was handled in   *)
(* the moment in which connect() published, or connect() dialled while     *)
(* callbacks of the last connection were still to come.                    *)
(***************************************************************************)
ShownIsTrue ==
  AtRest /\ ~crossed /\ ~overlapped =>
    (shown = "connected" <=> control.state \in {"connecting", "connected"})

(***************************************************************************)
(* The descriptor names the address of the route Windows was dialled by,   *)
(* in every session, over USB or Wi-Fi, that follows a disconnect().       *)
(***************************************************************************)
OwnRouteNamed == misnamed => again
=============================================================================
