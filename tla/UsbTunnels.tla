------------------------------ MODULE UsbTunnels ------------------------------
(***************************************************************************)
(* An iPhone's video over its cable: the USB poll of the GUI thread        *)
(* (windows/src/application.cpp), UsbmuxBridge with the relay thread of    *)
(* port 8554 (windows/src/net/usbmuxbridge.cpp), and the raw TCP receiver  *)
(* that dials either the relay (loopback) or the phone (LAN).  Built with  *)
(* VCAMDROID_HAS_USBMUXD.  One iPhone streams at most; HostServer has the  *)
(* choice among phones, ReceiverSlot the receiver's own threads.           *)
(***************************************************************************)
EXTENDS Naturals

CONSTANTS MaxPlugs,  \* bound: times a cable is plugged in
          MaxPicks   \* bound: starts of a stream and changes of the link mode

ASSUME BoundsAssumption == MaxPlugs \in Nat /\ MaxPicks \in Nat

VARIABLES
    cable,    \* the usbmux handle of the phone on the cable, 0 if there is none
    usb,      \* usbDeviceConnected
    handle,   \* cachedDeviceHandle
    reverse,  \* 6969 is in activeReversePorts
    relay,    \* the relay of port 8554 and its thread
    mode,     \* IOS_LINK_MODE: "auto", "usb" or "wifi"
    stream,   \* the address the receiver was started with: "loop", "lan", "none"
    client,   \* the receiver's thread
    gui,      \* what the GUI thread is in the middle of
    crashed,  \* std::terminate
    plugs, picks,
    fresh,    \* history: the cable has not changed since the poll looked
    missed,   \* history: it changed twice between two polls
    failed    \* history: the last Forward did not open its port

usbVars == <<cable, usb, handle, reverse, relay, mode, stream, client, gui, crashed,
             plugs, picks, fresh, missed, failed>>

Handles == 0 .. MaxPlugs
NoRelay == [phase |-> "none", running |-> FALSE, to |-> 0, peer |-> FALSE, queue |-> "none"]
\* phase: the thread selects ("listen"), serves a client ("open"), is inside
\* send ("sending") or has returned ("over"); to: the device it is connected
\* to; peer: its client is still there; queue: a connection not yet accepted.
Relays == [phase : {"none", "listen", "open", "sending", "over"}, running : BOOLEAN,
           to : Handles, peer : BOOLEAN, queue : {"none", "live", "dead"}]

UsbTypeOK ==
    /\ cable \in Handles /\ handle \in Handles
    /\ usb \in BOOLEAN /\ reverse \in BOOLEAN /\ crashed \in BOOLEAN
    /\ relay \in Relays
    /\ mode \in {"auto", "usb", "wifi"}
    /\ stream \in {"none", "loop", "lan"}
    /\ client \in {"off", "dialing", "waiting", "up", "ended"}
    /\ gui \in {"idle", "setup", "join", "closing", "closed"}
    /\ plugs \in Handles /\ picks \in 0 .. MaxPicks
    /\ fresh \in BOOLEAN /\ missed \in BOOLEAN /\ failed \in BOOLEAN

UsbInit ==
    /\ cable = 0 /\ handle = 0 /\ plugs = 0 /\ picks = 0
    /\ usb = FALSE /\ reverse = FALSE /\ crashed = FALSE
    /\ relay = NoRelay
    /\ mode \in {"auto", "usb", "wifi"}
    /\ stream = "none" /\ client = "off" /\ gui = "idle"
    /\ fresh = TRUE /\ missed = FALSE /\ failed = FALSE

Listening == relay.phase # "none" /\ relay.running

-----------------------------------------------------------------------------
(* The cable. *)
CableMoves ==
    /\ fresh' = FALSE
    /\ missed' = (missed \/ ~fresh)
    /\ UNCHANGED <<usb, handle, reverse, relay, mode, stream, client, gui, crashed,
                   picks, failed>>
Plug ==
    /\ cable = 0 /\ plugs < MaxPlugs
    /\ plugs' = plugs + 1 /\ cable' = plugs + 1
    /\ CableMoves
Unplug ==
    /\ cable # 0
    /\ cable' = 0 /\ UNCHANGED plugs
    /\ CableMoves

-----------------------------------------------------------------------------
(***************************************************************************)
(* Starting and stopping the receiver.  A connection its thread leaves     *)
(* behind is closed: the relay finds its peer, or the waiting one, dead.   *)
(***************************************************************************)
LeftBehind ==
    [relay EXCEPT !.peer = IF client = "up" /\ stream = "loop" THEN FALSE ELSE @,
                  !.queue = IF @ = "live" THEN "dead" ELSE @]

\* EffectiveIosVideoUrl asks the driver, not usbDeviceConnected.
EffectiveUrl(m) == IF m = "usb" \/ (m = "auto" /\ cable # 0) THEN "loop" ELSE "lan"

\* Connect2Stream.  A receiver whose thread has ended by itself is not joined
\* by Stop, and destroying it ends the process.
StartStream(m) ==
    /\ crashed' = (client = "ended")
    /\ stream' = EffectiveUrl(m) /\ client' = "dialing"

StopAll ==
    /\ crashed' = (client = "ended")
    /\ stream' = "none" /\ client' = "off"

\* TryReconnectIosAfterUsbAutoTransportChange
Reconnect(r) ==
    IF mode = "auto" /\ stream # "none"
    THEN StartStream(mode) /\ relay' = r
    ELSE relay' = r /\ UNCHANGED <<stream, client, crashed>>

Gui(pc) == gui = pc /\ ~crashed

\* OnSourceChanged
Select ==
    /\ Gui("idle") /\ picks < MaxPicks /\ picks' = picks + 1
    /\ StartStream(mode) /\ relay' = LeftBehind
    /\ UNCHANGED <<cable, usb, handle, reverse, mode, gui, plugs, fresh, missed, failed>>

\* OnIosLinkModeChanged
ChangeMode(m) ==
    /\ Gui("idle") /\ picks < MaxPicks /\ picks' = picks + 1
    /\ mode' = m
    /\ IF stream = "none" THEN UNCHANGED <<relay, stream, client, crashed>>
                          ELSE StartStream(m) /\ relay' = LeftBehind
    /\ UNCHANGED <<cable, usb, handle, reverse, gui, plugs, fresh, missed, failed>>

\* The phone's control connection ends: the IO thread's RemoveDescriptor.
PhoneLeaves ==
    /\ stream # "none" /\ ~crashed
    /\ StopAll /\ relay' = LeftBehind
    /\ UNCHANGED <<cable, usb, handle, reverse, mode, gui, plugs, picks, fresh, missed, failed>>

\* PollUsbDevices, every two seconds and once from OnInit.
Poll ==
    /\ Gui("idle")
    /\ fresh' = TRUE
    /\ IF cable # 0 /\ ~usb THEN gui' = "setup" /\ UNCHANGED relay
       ELSE IF cable = 0 /\ usb
            THEN gui' = "join" /\ relay' = [relay EXCEPT !.running = FALSE]
            ELSE UNCHANGED <<gui, relay>>
    /\ missed' = (missed /\ (cable # 0) = usb)
    /\ UNCHANGED <<cable, usb, handle, reverse, mode, stream, client, crashed,
                   plugs, picks, failed>>

\* The rest of SetupUsbTunnels: the phone may be gone by now.  Reverse and
\* Forward return early for a port they hold; otherwise EnsureDevice looks
\* again.  Nobody looks at what they return.
Setup ==
    /\ Gui("setup") /\ gui' = "idle"
    /\ usb' = TRUE
    /\ \E paired, bound \in BOOLEAN :
         /\ reverse' = (reverse \/ (cable # 0 /\ paired))
         /\ LET opens == relay.phase = "none" /\ cable # 0 /\ bound
                asked == ~reverse \/ relay.phase = "none"
            IN /\ handle' = IF asked /\ cable # 0 THEN cable ELSE handle
               /\ failed' = (relay.phase = "none" /\ ~opens)
               /\ Reconnect(IF opens THEN [NoRelay EXCEPT !.phase = "listen", !.running = TRUE]
                            ELSE relay)
    /\ UNCHANGED <<cable, mode, plugs, picks, fresh, missed>>

\* Mutant: the stream is not started again after an unplug.
KilledOnly ==
    /\ Gui("join") /\ relay.phase \in {"none", "over"}
    /\ gui' = "idle" /\ usb' = FALSE /\ relay' = NoRelay
    /\ UNCHANGED <<cable, handle, reverse, mode, stream, client, crashed, plugs, picks,
                   fresh, missed, failed>>

\* Kill(8554) returns once the relay's thread has; what waits in its queue is
\* reset.  Kill(6969) finds no relay and leaves activeReversePorts alone.
Killed ==
    /\ Gui("join") /\ relay.phase \in {"none", "over"}
    /\ gui' = "idle" /\ usb' = FALSE
    /\ Reconnect(NoRelay)
    /\ UNCHANGED <<cable, handle, reverse, mode, plugs, picks, fresh, missed, failed>>

\* OnWindowCloseEvent: StopAll, then KillAll.
Close ==
    /\ Gui("idle") /\ gui' = "closing"
    /\ StopAll
    /\ relay' = [LeftBehind EXCEPT !.running = FALSE]
    /\ reverse' = FALSE
    /\ UNCHANGED <<cable, usb, handle, mode, plugs, picks, fresh, missed, failed>>
Closed ==
    /\ Gui("closing") /\ relay.phase \in {"none", "over"}
    /\ gui' = "closed" /\ relay' = NoRelay
    /\ UNCHANGED <<cable, usb, handle, reverse, mode, stream, client, crashed,
                   plugs, picks, fresh, missed, failed>>

-----------------------------------------------------------------------------
(***************************************************************************)
(* The receiver's thread (RawTCPReceiver::WorkerFunc).                     *)
(***************************************************************************)
ClientStep(c, r) ==
    /\ ~crashed
    /\ client' = c /\ relay' = r
    /\ UNCHANGED <<cable, usb, handle, reverse, mode, stream, gui, crashed,
                   plugs, picks, fresh, missed, failed>>

Dial ==
    /\ client = "dialing"
    /\ \/ stream = "lan" /\ \E c \in {"up", "ended"} : ClientStep(c, relay)
       \/ /\ stream = "loop"
          /\ IF Listening
             THEN relay.queue = "none" /\ ClientStep("waiting", [relay EXCEPT !.queue = "live"])
             ELSE ClientStep("ended", relay)

\* The relay closed the connection, or reset the one in its queue.
SeesEnd ==
    /\ stream = "loop"
    /\ \/ client = "up" /\ relay.phase \notin {"open", "sending"}
       \/ client = "up" /\ ~relay.peer
       \/ client = "waiting" /\ relay.queue # "live"
    /\ ClientStep("ended", relay)

-----------------------------------------------------------------------------
(***************************************************************************)
(* The relay's thread.                                                     *)
(***************************************************************************)
RelayStep(r) ==
    /\ ~crashed
    /\ relay' = r
    /\ UNCHANGED <<cable, usb, handle, reverse, mode, stream, gui, crashed,
                   plugs, picks, fresh, missed, failed>>
Ended == [relay EXCEPT !.phase = "listen", !.peer = FALSE, !.to = 0]

\* accept and usbmuxd_connect, to the device whose handle is cached; if that
\* fails the client's socket is closed.
Accept ==
    /\ relay.phase = "listen" /\ relay.running /\ relay.queue # "none"
    /\ \E answers \in BOOLEAN :
         IF answers /\ handle = cable /\ cable # 0
         THEN /\ RelayStep([relay EXCEPT !.phase = "open", !.to = handle, !.queue = "none",
                                         !.peer = relay.queue = "live"])
              /\ client' = IF relay.queue = "live" THEN "up" ELSE client
         ELSE RelayStep([relay EXCEPT !.queue = "none"]) /\ UNCHANGED client

\* Data from the phone: send does not return until the receiver has read, or
\* is gone.
FromDevice ==
    /\ relay.phase = "open" /\ relay.running /\ relay.to = cable
    /\ RelayStep([relay EXCEPT !.phase = "sending"]) /\ UNCHANGED client

\* Mutant: a failed send is not the end of the session.
SendRetries ==
    /\ relay.phase = "sending" /\ relay.peer /\ client = "up"
    /\ RelayStep([relay EXCEPT !.phase = "open"]) /\ UNCHANGED client

SendReturns ==
    /\ relay.phase = "sending"
    /\ relay.peer => client = "up"
    /\ RelayStep(IF relay.peer THEN [relay EXCEPT !.phase = "open"] ELSE Ended)
    /\ UNCHANGED client

\* Mutant: a client that hangs up goes unnoticed.
SessionOutlives ==
    /\ relay.phase = "open"
    /\ relay.to # cable \/ ~relay.running
    /\ RelayStep(Ended) /\ UNCHANGED client

\* The session ends: the device is gone, the client hung up, or running is off.
SessionEnds ==
    /\ relay.phase = "open"
    /\ relay.to # cable \/ ~relay.peer \/ ~relay.running
    /\ RelayStep(Ended) /\ UNCHANGED client

WorkerReturns ==
    /\ relay.phase = "listen" /\ ~relay.running
    /\ RelayStep([relay EXCEPT !.phase = "over", !.queue = "none"]) /\ UNCHANGED client

RelayWorker == Accept \/ SendReturns \/ SessionEnds \/ WorkerReturns

UsbNext ==
    \/ Plug \/ Unplug
    \/ Select \/ PhoneLeaves \/ Poll \/ Setup \/ Killed \/ Close \/ Closed
    \/ \E m \in {"auto", "usb", "wifi"} : ChangeMode(m)
    \/ Dial \/ SeesEnd
    \/ RelayWorker \/ FromDevice

\* The relay's and the receiver's threads run; the GUI thread goes on with
\* what it began, and its timer fires.
UsbFairness ==
    /\ WF_usbVars(RelayWorker) /\ WF_usbVars(Dial) /\ WF_usbVars(SeesEnd)
    /\ WF_usbVars(Setup) /\ WF_usbVars(Killed) /\ WF_usbVars(Closed) /\ WF_usbVars(Poll)
UsbSpec == UsbInit /\ [][UsbNext]_usbVars /\ UsbFairness

\* Where the relay's thread can go on, and the GUI thread with what it waits
\* in; UsbGuardsEnable says that a step can be taken there.  The proof of
\* KillReturns takes it as a hypothesis.
RelayCanGo ==
    /\ ~crashed
    /\ \/ relay.phase = "sending" /\ (relay.peer => client = "up")
       \/ relay.phase \in {"open", "listen"} /\ ~relay.running
CanReturn(at) == gui = at /\ ~crashed /\ relay.phase \in {"none", "over"}
UsbGuardsEnable ==
    /\ RelayCanGo => ENABLED <<RelayWorker>>_usbVars
    /\ CanReturn("join") => ENABLED <<Killed>>_usbVars
    /\ CanReturn("closing") => ENABLED <<Closed>>_usbVars

-----------------------------------------------------------------------------
\* Once the poll has seen the cable as it is, tunnel and stream agree with it:
\* the port is open exactly while a phone is plugged, tunnels to that phone and
\* not to an earlier one, and the receiver was started with the address the link
\* mode calls for (application.cpp:75-88, 114-136, 155-174).  Not promised: a
\* cable that left and came back, or came and left, between two polls (missed),
\* and a port Forward could not open (failed).
AfterPoll ==
    /\ UsbTypeOK
    /\ gui = "idle" /\ ~crashed /\ fresh /\ ~missed =>
         /\ usb = (cable # 0)
         /\ usb /\ ~failed => Listening /\ handle = cable
         /\ ~usb => relay = NoRelay
         /\ stream # "none" => stream = EffectiveUrl(mode)

\* Kill joins the relay's thread on the GUI thread while it holds relayMutex
\* (usbmuxbridge.cpp:198-216): it always gets it back, whatever the thread is
\* blocked in, because the receiver that must read is not the GUI thread.
KillReturns == gui \in {"join", "closing"} ~> gui \in {"idle", "closed"} \/ crashed

\* The relay serves one client at a time: one that dials while an older session
\* is open is answered or hung up on, never kept waiting (usbmuxbridge.cpp:223-296).
ClientAnswered == client \in {"dialing", "waiting"} ~> client \in {"up", "ended", "off"} \/ crashed

=============================================================================
