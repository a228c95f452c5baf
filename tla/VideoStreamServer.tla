--------------------------- MODULE VideoStreamServer ---------------------------
(***************************************************************************)
(* The iPhone's video port (Networking/VideoStreamServer.swift): a TCP     *)
(* listener that serves one Windows client at a time with a header and     *)
(* then NAL units.  Three threads use the server without a lock: main      *)
(* starts and stops it, its work queue runs the callbacks of listener and  *)
(* connections, and the encoder's thread sends: each step is one access to *)
(* what they share.  NWListener, NWConnection and the clients are the      *)
(* environment.  The server's own `state', which is shown and read by      *)
(* nothing in the server, is left out, and with it the callbacks that only *)
(* assign it.                                                              *)
(***************************************************************************)
EXTENDS Naturals, FiniteSets, FiniteSetsExt

CONSTANTS
  Conn,          \* client connections; each is dialled at most once
  NoConn,        \* no connection
  MaxStarts,     \* bound: how often the server is started
  MaxInFlight,   \* bound: sends outstanding on one connection
  HighWaterMark  \* outstanding units above which delta frames are dropped

ASSUME NoConnAssumption == NoConn \notin Conn
ASSUME ConnAssumption == IsFiniteSet(Conn)
ASSUME BoundsAssumption ==
  {MaxStarts, MaxInFlight, HighWaterMark} \subseteq Nat

VARIABLES
  listener,         \* the current listener's number, or 0
  listeners,        \* each listener: "none", "setup", "ready", or "dead" (failed
                    \* or cancelled)
  conn,             \* each connection: "none", "dialled", "setup", "ready", "failing"
                    \* (lost, or answered with a RST), "cancelling", "rejected"
                    \* or "gone"
  via,              \* the listener a dialled connection waits at, or 0
  clientOpen,       \* the client has not closed its end
  activeConnection,
  headerSent,
  main,             \* what is left of stop() on the main thread: "idle", or
                    \* from "forget", "listener" or "clear" on
  queue,            \* what the work queue is in the middle of: "idle", "fresh"
                    \* in handleIncoming or "clear" in tearDown
  pendingSendBytes, \* in units of one send
  inFlight,         \* sends of each connection that have not completed
  got,              \* what a client has received: "nothing", "ok" (the header
                    \* and then units) or "spoilt" (no header, or two)
  sender,           \* the encoder thread in send(): step, conn, withHeader
  overtaken         \* history: a send() and a change of connection overlapped

serverVars == <<activeConnection, headerSent, listener, listeners, main, queue>>
sendVars   == <<pendingSendBytes, inFlight, got, sender>>
linkVars   == <<conn, via, clientOpen>>
vars == <<serverVars, sendVars, linkVars, overtaken>>

Idle == [step |-> "idle", conn |-> NoConn, withHeader |-> FALSE]

Init ==
  /\ listener = 0 /\ listeners = [g \in 1 .. MaxStarts |-> "none"]
  /\ conn = [c \in Conn |-> "none"] /\ via = [c \in Conn |-> 0]
  /\ clientOpen = [c \in Conn |-> FALSE]
  /\ activeConnection = NoConn /\ headerSent = FALSE
  /\ main = "idle" /\ queue = "idle"
  /\ pendingSendBytes = 0
  /\ inFlight = [c \in Conn |-> 0]
  /\ got = [c \in Conn |-> "nothing"]
  /\ sender = Idle /\ overtaken = FALSE

\* The connection is another already, and headerSent is still the old one's.
Changing == main \in {"listener", "clear"} \/ queue \in {"fresh", "clear"}

\* Another thread replaces the connection, in the middle of a send() or not.
MayOvertake == overtaken' = (overtaken \/ sender # Idle)

-----------------------------------------------------------------------------
(* StreamController.connect, on no particular thread, and disconnect on the *)
(* main thread                                                              *)

Start ==
  /\ listener = 0
  /\ \E g \in 1 .. MaxStarts :
       /\ listeners[g] = "none" /\ \A h \in 1 .. g - 1 : listeners[h] # "none"
       /\ listener' = g
       /\ listeners' = [listeners EXCEPT ![g] = "setup"]
  /\ UNCHANGED <<activeConnection, headerSent, main, queue, sendVars, linkVars,
                 overtaken>>

\* activeConnection?.cancel().  A stop() that finds nothing to stop is left out.
StopBegin ==
  /\ main = "idle" /\ main' = "forget"
  /\ listener # 0
  /\ conn' = IF activeConnection = NoConn THEN conn
             ELSE [conn EXCEPT ![activeConnection] = "cancelling"]
  /\ UNCHANGED <<activeConnection, headerSent, listener, listeners, queue, sendVars,
                 via, clientOpen, overtaken>>

\* activeConnection = nil, whichever it is by now
StopForget ==
  /\ main = "forget" /\ main' = "listener"
  /\ MayOvertake
  /\ activeConnection' = NoConn
  /\ UNCHANGED <<headerSent, listener, listeners, queue, sendVars, linkVars>>

\* listener?.cancel(); listener = nil.  In between, start() finds one as before.
StopListener ==
  /\ main = "listener" /\ main' = "clear"
  /\ listener' = 0
  /\ listeners' = [listeners EXCEPT ![listener] = "dead"]
  /\ UNCHANGED <<activeConnection, headerSent, queue, sendVars, linkVars, overtaken>>

\* headerSent = false
StopClear ==
  /\ main = "clear" /\ main' = "idle"
  /\ headerSent' = FALSE
  /\ UNCHANGED <<activeConnection, listener, listeners, queue, sendVars, linkVars, overtaken>>

-----------------------------------------------------------------------------
(* The work queue: one callback at a time *)

ListenerReady(g) ==
  /\ queue = "idle"
  /\ listeners[g] = "setup"
  /\ listeners' = [listeners EXCEPT ![g] = "ready"]
  /\ UNCHANGED <<activeConnection, headerSent, listener, main, queue, sendVars, linkVars,
                 overtaken>>

\* .failed is shown, and the server keeps the listener.
ListenerFails(g) ==
  /\ queue = "idle"
  /\ listeners[g] \in {"setup", "ready"}
  /\ listeners' = [listeners EXCEPT ![g] = "dead"]
  /\ UNCHANGED <<activeConnection, headerSent, listener, main, queue, sendVars, linkVars,
                 overtaken>>

\* newConnectionHandler: a client that comes while another is served is
\* cancelled.
RejectIncoming(c) ==
  /\ queue = "idle" /\ conn[c] = "dialled" /\ listeners[via[c]] = "ready"
  /\ activeConnection # NoConn
  /\ conn' = [conn EXCEPT ![c] = "rejected"] /\ via' = [via EXCEPT ![c] = 0]
  /\ UNCHANGED <<serverVars, sendVars, clientOpen, overtaken>>

\* The first client is served ...
HandleIncoming(c) ==
  /\ queue = "idle" /\ conn[c] = "dialled" /\ listeners[via[c]] = "ready"
  /\ activeConnection = NoConn
  /\ MayOvertake
  /\ conn' = [conn EXCEPT ![c] = "setup"] /\ via' = [via EXCEPT ![c] = 0]
  /\ activeConnection' = c /\ queue' = "fresh"
  /\ UNCHANGED <<headerSent, listener, listeners, main, sendVars, clientOpen>>

\* ... and owed a header, before its connection is started.
HeaderIsOwed ==
  /\ queue = "fresh" /\ queue' = "idle"
  /\ headerSent' = FALSE
  /\ UNCHANGED <<activeConnection, listener, listeners, main, sendVars, linkVars,
                 overtaken>>

ConnectionReady(c) ==
  /\ queue = "idle"
  /\ conn[c] = "setup"
  /\ conn' = [conn EXCEPT ![c] = "ready"]
  /\ UNCHANGED <<activeConnection, headerSent, listener, listeners, main, queue, sendVars,
                 via, clientOpen, overtaken>>

\* .cancelled or .failed is reported of c.
Ends(c) == queue = "idle" /\ conn[c] \in {"cancelling", "failing"}

\* Mutant: tearDown() forgets activeConnection.
TearDownHalf(c) ==
  /\ Ends(c)
  /\ MayOvertake
  /\ conn' = [conn EXCEPT ![c] = "gone"]
  /\ queue' = "clear"
  /\ UNCHANGED <<activeConnection, headerSent, listener, listeners, main, sendVars,
                 via, clientOpen>>

\* Mutant: tearDown() also zeroes the counter, and the completions go on.
TearDownZeroes(c) ==
  /\ Ends(c)
  /\ MayOvertake
  /\ conn' = [conn EXCEPT ![c] = "gone"]
  /\ activeConnection' = NoConn /\ queue' = "clear"
  /\ pendingSendBytes' = 0
  /\ UNCHANGED <<headerSent, listener, listeners, main, inFlight, got, sender, via, clientOpen>>

\* tearDown(), whichever connection it is that reports: the active one is
\* forgotten ...
TearDown(c) ==
  /\ Ends(c)
  /\ MayOvertake
  /\ conn' = [conn EXCEPT ![c] = "gone"]
  /\ activeConnection' = NoConn /\ queue' = "clear"
  /\ UNCHANGED <<headerSent, listener, listeners, main, sendVars, via, clientOpen>>

\* ... and then headerSent cleared.
TearDownClears ==
  /\ queue = "clear" /\ queue' = "idle"
  /\ headerSent' = FALSE
  /\ UNCHANGED <<activeConnection, listener, listeners, main, sendVars, linkVars, overtaken>>

\* A send completes, with or without an error.
SendCompletes(c) ==
  /\ inFlight[c] > 0
  /\ inFlight' = [inFlight EXCEPT ![c] = @ - 1]
  /\ pendingSendBytes' = pendingSendBytes - 1
  /\ UNCHANGED <<serverVars, got, sender, linkVars, overtaken>>

-----------------------------------------------------------------------------
(* The encoder's thread: send(nal), in the steps others can get between *)

\* The active connection is read, and a delta frame may be dropped.
SendBegin ==
  /\ sender = Idle
  /\ activeConnection # NoConn /\ inFlight[activeConnection] < MaxInFlight
  /\ \E isKeyframe \in BOOLEAN :
       /\ pendingSendBytes <= HighWaterMark \/ isKeyframe
       /\ sender' = [step |-> "header", conn |-> activeConnection, withHeader |-> FALSE]
  /\ overtaken' = (overtaken \/ Changing)
  /\ UNCHANGED <<serverVars, pendingSendBytes, inFlight, got, linkVars>>

\* Mutant: if headerSent, the wrong way round.
SendHeaderInverted ==
  /\ sender.step = "header"
  /\ sender' = [sender EXCEPT !.step = IF headerSent THEN "mark" ELSE "put",
                              !.withHeader = headerSent]
  /\ UNCHANGED <<serverVars, pendingSendBytes, inFlight, got, linkVars, overtaken>>

\* if !headerSent { append it; ...
SendHeader ==
  /\ sender.step = "header"
  /\ sender' = [sender EXCEPT !.step = IF headerSent THEN "put" ELSE "mark",
                              !.withHeader = ~headerSent]
  /\ UNCHANGED <<serverVars, pendingSendBytes, inFlight, got, linkVars, overtaken>>

\* Mutant: the header is sent, and nobody remembers.
SendForgets ==
  /\ sender.step = "mark"
  /\ sender' = [sender EXCEPT !.step = "put"]
  /\ UNCHANGED <<serverVars, pendingSendBytes, inFlight, got, linkVars, overtaken>>

\* ... headerSent = true }
SendMark ==
  /\ sender.step = "mark"
  /\ sender' = [sender EXCEPT !.step = "put"]
  /\ headerSent' = TRUE
  /\ UNCHANGED <<activeConnection, listener, listeners, main, queue, pendingSendBytes,
                 inFlight, got, linkVars, overtaken>>

Received(old, withHeader) ==
  IF withHeader = (old = "nothing") /\ old # "spoilt" THEN "ok" ELSE "spoilt"

\* conn.send: delivered to an open client; a closed one answers with a RST.
SendPut ==
  /\ sender.step = "put"
  /\ LET c == sender.conn
         lives == conn[c] \in {"setup", "ready"}
     IN  /\ inFlight' = [inFlight EXCEPT ![c] = @ + 1]
         /\ got' = IF lives /\ clientOpen[c]
                     THEN [got EXCEPT ![c] = Received(@, sender.withHeader)] ELSE got
         /\ conn' = IF lives /\ ~clientOpen[c]
                      THEN [conn EXCEPT ![c] = "failing"] ELSE conn
  /\ pendingSendBytes' = pendingSendBytes + 1
  /\ sender' = Idle
  /\ UNCHANGED <<serverVars, via, clientOpen, overtaken>>

-----------------------------------------------------------------------------
(* The Windows clients *)

Dial(c) ==
  /\ conn[c] = "none"
  /\ listener # 0 /\ listeners[listener] = "ready"
  /\ via' = [via EXCEPT ![c] = listener]
  /\ conn' = [conn EXCEPT ![c] = "dialled"]
  /\ clientOpen' = [clientOpen EXCEPT ![c] = TRUE]
  /\ UNCHANGED <<serverVars, sendVars, overtaken>>

\* The client stops its receiver; once the server has let go of it, that makes
\* no difference.
Close(c) ==
  /\ clientOpen[c] /\ conn[c] \in {"dialled", "setup", "ready"}
  /\ clientOpen' = [clientOpen EXCEPT ![c] = FALSE]
  /\ UNCHANGED <<serverVars, sendVars, conn, via, overtaken>>

\* The link breaks, and the phone notices without sending.
LinkLost(c) ==
  /\ conn[c] \in {"setup", "ready"}
  /\ clientOpen' = [clientOpen EXCEPT ![c] = FALSE]
  /\ conn' = [conn EXCEPT ![c] = "failing"]
  /\ UNCHANGED <<serverVars, sendVars, via, overtaken>>

-----------------------------------------------------------------------------
MainStep == Start \/ StopBegin \/ StopForget \/ StopListener \/ StopClear

QueueStep ==
  \/ \E g \in 1 .. MaxStarts : ListenerReady(g)
  \/ \E c \in Conn :
       RejectIncoming(c) \/ HandleIncoming(c) \/ ConnectionReady(c) \/ TearDown(c)
  \/ HeaderIsOwed \/ TearDownClears

SendStep == SendBegin \/ SendHeader \/ SendMark \/ SendPut

Next ==
  \/ MainStep \/ QueueStep \/ SendStep
  \/ \E g \in 1 .. MaxStarts : ListenerFails(g)
  \/ \E c \in Conn : SendCompletes(c) \/ Dial(c) \/ Close(c) \/ LinkLost(c)

Spec == Init /\ [][Next]_vars

\* After stop() the encoder is torn down: it finishes the send() it is in.
Encodes == SendStep /\ (listener # 0 \/ sender # Idle)

(***************************************************************************)
(* The work queue runs what is on it, sends complete, and the activated    *)
(* encoder keeps producing units while the server is started.  Nothing     *)
(* makes clients, links or the user act.                                   *)
(***************************************************************************)
Fairness ==
  /\ WF_vars(QueueStep)
  /\ WF_vars(\E c \in Conn : SendCompletes(c))
  /\ WF_vars(Encodes)

FairSpec == Spec /\ Fairness

\* Where the encoder's thread can go on; SendGuardEnables says that a step can
\* be taken there.  The proof of AcceptedIsStreamed takes it as a hypothesis.
SendCanGo ==
  \/ /\ listener # 0
     /\ sender = Idle /\ activeConnection # NoConn
     /\ inFlight[activeConnection] < MaxInFlight
  \/ sender.step \in {"header", "mark", "put"}
SendGuardEnables == SendCanGo => ENABLED <<Encodes>>_vars

-----------------------------------------------------------------------------
(* Properties *)

TypeOK ==
  /\ listener \in 0 .. MaxStarts
  /\ listeners \in [1 .. MaxStarts -> {"none", "setup", "ready", "dead"}]
  /\ conn \in [Conn -> {"none", "dialled", "setup", "ready", "failing", "cancelling",
                        "rejected", "gone"}]
  /\ via \in [Conn -> 0 .. MaxStarts]
  /\ clientOpen \in [Conn -> BOOLEAN]
  /\ activeConnection \in Conn \union {NoConn}
  /\ headerSent \in BOOLEAN
  /\ main \in {"idle", "forget", "listener", "clear"}
  /\ queue \in {"idle", "fresh", "clear"}
  /\ pendingSendBytes \in Nat
  /\ inFlight \in [Conn -> Nat]
  /\ got \in [Conn -> {"nothing", "ok", "spoilt"}]
  /\ sender \in [step : {"idle", "header", "mark", "put"}, conn : Conn \union {NoConn},
                 withHeader : BOOLEAN]
  /\ overtaken \in BOOLEAN

\* The server has been stopped and started again: callbacks of what was
\* cancelled then still arrive, and clear the state of what has come since.
Restarted == \E g \in 2 .. MaxStarts : listeners[g] # "none"

(***************************************************************************)
(* Every client receives the header exactly once, before any unit          *)
(* (docs/PROTOCOL.md, Header), through restarts, lost links and late       *)
(* callbacks, as long as no send() overlaps a change of the connection:    *)
(* neither is the connection replaced inside a send(), nor does a send()   *)
(* begin where it has been replaced and headerSent is not cleared yet.     *)
(***************************************************************************)
HeaderExactlyOnce ==
  ~overtaken => \A c \in Conn : got[c] \in {"nothing", "ok"}

(***************************************************************************)
(* The backpressure counter is exactly what is outstanding, on whatever    *)
(* connection, through stops, restarts, failures and overtaken sends; it   *)
(* and all else keep their types.                                          *)
(***************************************************************************)
PendingExact ==
  /\ TypeOK
  /\ pendingSendBytes = MapThenSumSet(LAMBDA c : inFlight[c], Conn)

(***************************************************************************)
(* A client that has closed is let go, since the next unit sent to it is   *)
(* answered with a reset, unless the server is stopped.                    *)
(***************************************************************************)
ClosedIsReleased ==
  \A c \in Conn :
    (activeConnection = c /\ ~clientOpen[c]) ~> (activeConnection # c \/ listener = 0)

\* stop() is under way, or the server is stopped.
Stopping == main # "idle" \/ listener = 0

(***************************************************************************)
(* An accepted client that stays gets its stream, headed as it should be,  *)
(* unless the server stops or a race has come in between.                  *)
(***************************************************************************)
AcceptedIsStreamed ==
  \A c \in Conn :
    (activeConnection = c /\ conn[c] = "ready") ~>
      (got[c] = "ok" \/ ~clientOpen[c] \/ Stopping \/ overtaken \/ Restarted)
=============================================================================
