------------------------------ MODULE HostServer ------------------------------
(***************************************************************************)
(* The control side of the Windows client: Server (net/server.cpp) accepts *)
(* phones on its IO thread and keeps one Connection per phone; the         *)
(* RTSP::Manager (rtsp/manager.cpp) keeps one descriptor per phone and the *)
(* index of the streaming one; Application (application.cpp) carries the   *)
(* IO thread's notifications to the Manager and to the drop-down list, and *)
(* runs the user's commands on the GUI thread.  No lock protects any of    *)
(* it.  The two lists are only tied together by the order in which the two *)
(* threads update them, and every command to a phone goes through an index *)
(* into one list that was computed from the other.                         *)
(*                                                                         *)
(* Each step is what one thread does between two points where the other    *)
(* one can be seen to run.  Indices start at 1 and 0 stands for the code's *)
(* -1.                                                                     *)
(***************************************************************************)
EXTENDS Naturals, Sequences, FiniteSets

CONSTANTS
  Socket,    \* control connections; each one is dialled at most once
  Device,    \* phones, as descriptor equality (url and name) tells them apart
  NoSocket,  \* no control connection
  NoDevice,  \* no phone
  Moved,     \* what std::move leaves of a DeviceDescriptor: empty url and name
  Redial,    \* may a phone dial again while the host still lists it?
  Resets,    \* may a link die so that remote_endpoint() fails on its socket?
  Rude       \* may a phone stay silent or hang up before its descriptor?

ASSUME SentinelAssumption ==
  /\ NoSocket \notin Socket
  /\ NoDevice \notin Device /\ Moved \notin Device /\ NoDevice # Moved
ASSUME EnvironmentAssumption == {Redial, Resets, Rude} \subseteq BOOLEAN

VARIABLES
  owner,       \* the phone that dialled each socket
  peer,        \* the phone's end: "none", "open", "fin" or "rst"
  said,        \* has the phone sent its descriptor?
  backlog,     \* sockets dialled and not yet accepted
  booted,      \* OnInit has created the window and the manager
  accepting,   \* an async_accept is outstanding
  acceptorOpen,\* acceptor.is_open(); FALSE from Server::Close on
  io,          \* where the IO thread is
  ioSock,      \* the socket of the IO handler that is running
  ioIndex,     \* RemoveDescriptor's removedIndex
  reading,     \* sockets with an async_read_some outstanding
  connections, \* Server::connections
  descriptors, \* Manager::descriptors
  streaming,   \* Manager::streamingDevice
  choice,      \* the connected phones' rows of the drop-down list
  gui,         \* the GUI thread: "idle", "joining" the IO thread, "closed"
  crashed,     \* the process has died
  via,         \* history: the control connection the stream was started on
  lastSend,    \* history: whom the last command was for, and who got it
  redialled,   \* history: a phone has dialled while the host still had it
  raced        \* history: the GUI has used an index in the middle of the
               \* handling of a disconnection, and no phone was chosen since

phoneVars == <<owner, peer, said, backlog, redialled>>
ioVars    == <<accepting, io, ioSock, ioIndex, reading, connections>>
mgrVars   == <<descriptors, streaming, via>>
guiVars   == <<choice, gui, lastSend, raced>>
vars == <<phoneVars, ioVars, mgrVars, guiVars, booted, acceptorOpen, crashed>>

-----------------------------------------------------------------------------
(* Sequences *)

Positions(q, x) == {p \in DOMAIN q : q[p] = x}

\* std::find: the first position that holds x (only asked where there is one).
FirstIndex(q, x) ==
  CHOOSE p \in Positions(q, x) : \A r \in Positions(q, x) : p <= r

DropAt(q, n) == [p \in 1 .. Len(q) - 1 |-> IF p < n THEN q[p] ELSE q[p + 1]]

\* The n-th smallest member of a set of positions.
Nth(P, n) == CHOOSE p \in P : Cardinality({r \in P : r <= p}) = n

Others(q, x) == DOMAIN q \ Positions(q, x)

\* v.erase(std::remove(v.begin(), v.end(), x), v.end())
EraseAll(q, x) ==
  [p \in 1 .. Cardinality(Others(q, x)) |-> q[Nth(Others(q, x), p)]]

(***************************************************************************)
(* v.erase(std::remove(v.begin(), v.end(), x)): std::remove moves the      *)
(* elements that differ from x to the front, leaving a moved-from object   *)
(* where each of those behind the first x was, and the one-iterator erase  *)
(* then drops the single position the moved elements end at.               *)
(***************************************************************************)
EraseOne(q, x) ==
  [p \in 1 .. Len(q) - 1 |->
     IF p <= Cardinality(Others(q, x)) THEN q[Nth(Others(q, x), p)]
     ELSE IF p + 1 \in Others(q, x) THEN Moved ELSE x]

-----------------------------------------------------------------------------
Init ==
  /\ owner = [s \in Socket |-> NoDevice]
  /\ peer = [s \in Socket |-> "none"]
  /\ said = [s \in Socket |-> FALSE]
  /\ backlog = {}
  /\ booted = FALSE
  /\ accepting = TRUE /\ acceptorOpen = TRUE
  /\ io = "run" /\ ioSock = NoSocket /\ ioIndex = 0
  /\ reading = {} /\ connections = <<>>
  /\ descriptors = <<>> /\ streaming = 0 /\ via = NoSocket
  /\ choice = <<>> /\ gui = "idle"
  /\ crashed = FALSE
  /\ lastSend = [for |-> NoDevice, to |-> NoDevice]
  /\ redialled = FALSE /\ raced = FALSE

-----------------------------------------------------------------------------
(* The phones *)

Listed(s) == \E p \in DOMAIN connections : connections[p] = s

\* The host still has this phone: listed, in a handler, or waiting for one.
HostHas(d) ==
  \E s \in Socket :
    owner[s] = d /\ (s \in backlog \/ ioSock = s \/ Listed(s))

\* A phone opens a control connection.
Dial(s, d) ==
  /\ ~crashed /\ acceptorOpen
  /\ peer[s] = "none"
  /\ Redial \/ ~HostHas(d)
  /\ owner' = [owner EXCEPT ![s] = d]
  /\ peer' = [peer EXCEPT ![s] = "open"]
  /\ backlog' = backlog \union {s}
  /\ redialled' = (redialled \/ HostHas(d))
  /\ UNCHANGED <<said, ioVars, mgrVars, guiVars, booted, acceptorOpen, crashed>>

\* The phone sends its descriptor, in one segment.
Announce(s) ==
  /\ ~crashed
  /\ peer[s] = "open" /\ ~said[s]
  /\ said' = [said EXCEPT ![s] = TRUE]
  /\ UNCHANGED <<owner, peer, backlog, redialled, ioVars, mgrVars, guiVars, booted,
                 acceptorOpen, crashed>>

\* The phone leaves: with a FIN, or so that the socket is no longer connected.
Leave(s, how) ==
  /\ ~crashed
  /\ peer[s] = "open" /\ (Rude \/ said[s])
  /\ how = "rst" => Resets
  /\ peer' = [peer EXCEPT ![s] = how]
  /\ UNCHANGED <<owner, said, backlog, redialled, ioVars, mgrVars, guiVars, booted,
                 acceptorOpen, crashed>>

-----------------------------------------------------------------------------
(* The IO thread.  "run" is context.run() with no handler in progress. *)

\* A call into a window from the IO thread returns only when the GUI thread
\* fetches its messages: between two handlers, and not while it joins.
Pumping == gui = "idle"

\* TCPDoAccept's handler starts: a connection of the backlog is accepted.
AcceptBegin(s) ==
  /\ ~crashed
  /\ io = "run" /\ accepting
  /\ s \in backlog /\ backlog' = backlog \ {s}
  /\ io' = "readDescriptor" /\ ioSock' = s
  /\ accepting' = FALSE
  /\ UNCHANGED <<owner, peer, said, redialled, ioIndex, reading, connections, mgrVars,
                 guiVars, booted, acceptorOpen, crashed>>

\* Mutant: the new Connection never starts to read.
ReadDescriptorUnread ==
  /\ ~crashed
  /\ io = "readDescriptor" /\ said[ioSock]
  /\ connections' = Append(connections, ioSock)
  /\ io' = "notifyConnected"
  /\ UNCHANGED <<phoneVars, accepting, ioSock, ioIndex, reading, mgrVars, guiVars,
                 booted, acceptorOpen, crashed>>

\* The blocking read_some returns the descriptor; the Connection is stored.
ReadDescriptor ==
  /\ ~crashed
  /\ io = "readDescriptor" /\ said[ioSock]
  /\ connections' = Append(connections, ioSock)
  /\ reading' = reading \union {ioSock}
  /\ io' = "notifyConnected"
  /\ UNCHANGED <<phoneVars, accepting, ioSock, ioIndex, mgrVars, guiVars,
                 booted, acceptorOpen, crashed>>

\* read_some or remote_endpoint throws: the exception leaves the handler
\* before TCPDoAccept is called again, and Start's loop re-enters run().
ReadDescriptorThrows ==
  /\ ~crashed
  /\ io = "readDescriptor"
  /\ peer[ioSock] = "rst" \/ (peer[ioSock] = "fin" /\ ~said[ioSock])
  /\ io' = "run" /\ ioSock' = NoSocket
  /\ UNCHANGED <<phoneVars, accepting, ioIndex, reading, connections, mgrVars,
                 guiVars, booted, acceptorOpen, crashed>>

\* Mutant: AddDescriptor puts the newest phone first.
NotifyConnectedFirst ==
  /\ ~crashed
  /\ io = "notifyConnected" /\ booted
  /\ descriptors' = <<owner[ioSock]>> \o descriptors
  /\ io' = "listConnected"
  /\ UNCHANGED <<phoneVars, accepting, ioSock, ioIndex, reading, connections,
                 streaming, via, guiVars, booted, acceptorOpen, crashed>>

\* OnDeviceConnected up to AddDescriptor; mainWindow and rtspManager are null
\* until OnInit has created them.
NotifyConnected ==
  /\ ~crashed
  /\ io = "notifyConnected"
  /\ IF booted
       THEN /\ descriptors' = Append(descriptors, owner[ioSock])
            /\ io' = "listConnected"
            /\ UNCHANGED crashed
       ELSE /\ crashed' = TRUE
            /\ UNCHANGED <<descriptors, io>>
  /\ UNCHANGED <<phoneVars, accepting, ioSock, ioIndex, reading, connections,
                 streaming, via, guiVars, booted, acceptorOpen>>

\* Mutant: the accept handler does not arm the next accept.
ListDevicesAcceptsOnce ==
  /\ ~crashed
  /\ io \in {"listConnected", "listDisconnected"} /\ Pumping
  /\ choice' = descriptors
  /\ io' = "run" /\ ioSock' = NoSocket
  /\ UNCHANGED <<phoneVars, accepting, ioIndex, reading, connections, mgrVars, gui,
                 lastSend, raced, booted, acceptorOpen, crashed>>

\* UpdateAvailableDevices from the IO thread, then the end of the handler:
\* the accept handler arms the next accept, the read handler nothing.
ListDevices ==
  /\ ~crashed
  /\ io \in {"listConnected", "listDisconnected"} /\ Pumping
  /\ choice' = descriptors
  /\ accepting' = IF io = "listConnected" THEN acceptorOpen ELSE accepting
  /\ io' = "run" /\ ioSock' = NoSocket
  /\ UNCHANGED <<phoneVars, ioIndex, reading, connections, mgrVars, gui, lastSend,
                 raced, booted, acceptorOpen, crashed>>

\* The read of s fails.  When remote_endpoint() throws, Close is skipped and
\* nothing is left that will ever look at this connection again.
ReadFails(s) ==
  /\ ~crashed
  /\ io = "run" /\ acceptorOpen
  /\ s \in reading /\ peer[s] \in {"fin", "rst"}
  /\ reading' = reading \ {s}
  /\ \/ /\ io' = "notifyDisconnected" /\ ioSock' = s
        /\ connections' = EraseAll(connections, s)
     \/ /\ peer[s] = "rst"
        /\ UNCHANGED <<io, ioSock, connections>>
  /\ UNCHANGED <<phoneVars, accepting, ioIndex, mgrVars, guiVars, booted,
                 acceptorOpen, crashed>>

\* OnDeviceDisconnected looks at the streaming descriptor and clears the
\* canvas when it is this one, which takes the GUI thread.
NotifyDisconnected ==
  /\ ~crashed
  /\ io = "notifyDisconnected"
  /\ IF streaming > Len(descriptors)
       THEN crashed' = TRUE /\ UNCHANGED io
       ELSE /\ (streaming # 0 /\ descriptors[streaming] = owner[ioSock]) => Pumping
            /\ io' = "removeDescriptor"
            /\ UNCHANGED crashed
  /\ UNCHANGED <<phoneVars, accepting, ioSock, ioIndex, reading, connections,
                 mgrVars, guiVars, booted, acceptorOpen>>

\* RemoveDescriptor finds and erases; erasing at end() is undefined.
RemoveDescriptor ==
  /\ ~crashed
  /\ io = "removeDescriptor"
  /\ IF Positions(descriptors, owner[ioSock]) = {}
       THEN crashed' = TRUE /\ UNCHANGED <<io, ioIndex, descriptors>>
       ELSE /\ ioIndex' = FirstIndex(descriptors, owner[ioSock])
            /\ descriptors' = EraseOne(descriptors, owner[ioSock])
            /\ io' = "renumber"
            /\ UNCHANGED crashed
  /\ UNCHANGED <<phoneVars, accepting, ioSock, reading, connections, streaming,
                 via, guiVars, booted, acceptorOpen>>

\* Mutant: the index stays where it is when an earlier phone leaves.
RenumberStays ==
  /\ ~crashed
  /\ io = "renumber"
  /\ streaming' = IF streaming = ioIndex THEN 0 ELSE streaming
  /\ via' = IF streaming = ioIndex THEN NoSocket ELSE via
  /\ io' = "listDisconnected" /\ ioIndex' = 0
  /\ UNCHANGED <<phoneVars, accepting, ioSock, reading, connections, descriptors,
                 guiVars, booted, acceptorOpen, crashed>>

\* Mutant: the stream of the phone that leaves is not stopped.
RenumberKeeps ==
  /\ ~crashed
  /\ io = "renumber"
  /\ streaming' = IF streaming > ioIndex THEN streaming - 1 ELSE streaming
  /\ via' = IF streaming = ioIndex THEN NoSocket ELSE via
  /\ io' = "listDisconnected" /\ ioIndex' = 0
  /\ UNCHANGED <<phoneVars, accepting, ioSock, reading, connections, descriptors,
                 guiVars, booted, acceptorOpen, crashed>>

\* Mutant: the index moves although it is not behind the one removed.
RenumberAlways ==
  /\ ~crashed
  /\ io = "renumber"
  /\ streaming' = IF streaming = ioIndex THEN 0 ELSE streaming - 1
  /\ via' = IF streaming = ioIndex THEN NoSocket ELSE via
  /\ io' = "listDisconnected" /\ ioIndex' = 0
  /\ UNCHANGED <<phoneVars, accepting, ioSock, reading, connections, descriptors,
                 guiVars, booted, acceptorOpen, crashed>>

\* ... and then stops the stream or moves the index along.
Renumber ==
  /\ ~crashed
  /\ io = "renumber"
  /\ streaming' = CASE streaming = ioIndex -> 0
                    [] streaming > ioIndex -> streaming - 1
                    [] OTHER -> streaming
  /\ via' = IF streaming = ioIndex THEN NoSocket ELSE via
  /\ io' = "listDisconnected" /\ ioIndex' = 0
  /\ UNCHANGED <<phoneVars, accepting, ioSock, reading, connections, descriptors,
                 guiVars, booted, acceptorOpen, crashed>>

\* context.run() returns: stopped by Close, or out of work.
RunReturns ==
  /\ ~crashed
  /\ io = "run"
  /\ ~acceptorOpen \/ (~accepting /\ reading = {})
  /\ io' = "ended"
  /\ UNCHANGED <<phoneVars, accepting, ioSock, ioIndex, reading, connections,
                 mgrVars, guiVars, booted, acceptorOpen, crashed>>

-----------------------------------------------------------------------------
(* The GUI thread *)

\* The read handler is between the end of a connection and the last of the
\* lists that follow it.
Leaving == io \in {"notifyDisconnected", "removeDescriptor", "renumber",
                   "listDisconnected"}

\* A window event can be dispatched, wherever the IO thread is.
GuiFree == ~crashed /\ gui = "idle"

\* Server::Send(i): the phone behind the i-th connection, if there is one.
Addressee(i) == IF i \in DOMAIN connections THEN owner[connections[i]] ELSE NoDevice

\* send() on a socket whose link is gone throws out of a GUI event handler.
SendMayThrow(i) == i \in DOMAIN connections /\ peer[connections[i]] = "rst"

\* Server::Start has run; OnInit goes on to create window and manager.
Boot ==
  /\ ~crashed /\ ~booted
  /\ booted' = TRUE
  /\ UNCHANGED <<phoneVars, ioVars, mgrVars, guiVars, acceptorOpen, crashed>>

\* Connect2Stream(i) for a phone the user (or the open stream) means by d:
\* the old receiver stops, ACTIVATION is sent, a new receiver starts.
Connect2Stream(i, d) ==
  /\ streaming' = i
  /\ via' = IF i \in DOMAIN connections THEN connections[i] ELSE NoSocket
  /\ lastSend' = [for |-> d, to |-> Addressee(i)]
  /\ raced' = Leaving
  /\ crashed' \in {FALSE, SendMayThrow(i)}

\* OnSourceChanged: a row of the list is an index into the descriptors of now.
OnSourceChanged(i) ==
  /\ GuiFree /\ booted
  /\ i \in DOMAIN choice /\ i <= Len(descriptors)
  /\ Connect2Stream(i, choice[i])
  /\ UNCHANGED <<phoneVars, ioVars, descriptors, choice, gui, booted, acceptorOpen>>

HasValidStreamingDevice == streaming \in DOMAIN descriptors

\* OnIosLinkModeChanged and the USB poll reconnect the streaming phone.
ReconnectStream ==
  /\ GuiFree /\ HasValidStreamingDevice
  /\ Connect2Stream(streaming, descriptors[streaming])
  /\ UNCHANGED <<phoneVars, ioVars, descriptors, choice, gui, booted, acceptorOpen>>

\* UpdateAvailableDevices on behalf of the mDNS thread, posted by CallAfter.
RefreshList ==
  /\ GuiFree /\ booted
  /\ choice' = descriptors
  /\ UNCHANGED <<phoneVars, ioVars, mgrVars, gui, lastSend, raced, booted, acceptorOpen,
                 crashed>>

\* History: the phone whose stream was started last and has not been stopped.
ActivePhone == IF via = NoSocket THEN NoDevice ELSE owner[via]

\* Any of the Manager's setters, through SendToActiveDevice.
SendCommand ==
  /\ GuiFree /\ HasValidStreamingDevice
  /\ lastSend' = [for |-> ActivePhone, to |-> Addressee(streaming)]
  /\ raced' = (raced \/ Leaving)
  /\ crashed' \in {FALSE, SendMayThrow(streaming)}
  /\ UNCHANGED <<phoneVars, ioVars, mgrVars, choice, gui, booted, acceptorOpen>>

\* Mutant: Server::Close joins without closing anything.
CloseWindowJoinsOnly ==
  /\ GuiFree /\ booted
  /\ streaming' = 0 /\ via' = NoSocket
  /\ gui' = "joining"
  /\ UNCHANGED <<phoneVars, ioVars, descriptors, choice, lastSend, raced,
                 booted, acceptorOpen, crashed>>

\* OnWindowCloseEvent: StopAll, then Server::Close up to thread.join().
CloseWindow ==
  /\ GuiFree /\ booted
  /\ streaming' = 0 /\ via' = NoSocket
  /\ acceptorOpen' = FALSE /\ accepting' = FALSE /\ reading' = {}
  /\ gui' = "joining"
  /\ UNCHANGED <<phoneVars, io, ioSock, ioIndex, connections, descriptors, choice,
                 lastSend, raced, booted, crashed>>

JoinReturns ==
  /\ ~crashed
  /\ gui = "joining" /\ io = "ended"
  /\ gui' = "closed"
  /\ UNCHANGED <<phoneVars, ioVars, mgrVars, choice, lastSend, raced, booted,
                 acceptorOpen, crashed>>

-----------------------------------------------------------------------------
PhoneStep ==
  \E s \in Socket :
    \/ \E d \in Device : Dial(s, d)
    \/ Announce(s)
    \/ \E how \in {"fin", "rst"} : Leave(s, how)

IoStep ==
  \/ \E s \in Socket : AcceptBegin(s) \/ ReadFails(s)
  \/ ReadDescriptor \/ ReadDescriptorThrows
  \/ NotifyConnected \/ ListDevices
  \/ NotifyDisconnected \/ RemoveDescriptor \/ Renumber
  \/ RunReturns

GuiStep ==
  \/ Boot
  \/ \E i \in DOMAIN choice : OnSourceChanged(i)
  \/ ReconnectStream \/ RefreshList \/ SendCommand
  \/ CloseWindow \/ JoinReturns

Next == PhoneStep \/ IoStep \/ GuiStep

Spec == Init /\ [][Next]_vars

(***************************************************************************)
(* The IO thread never rests while it can take a step (a socket is         *)
(* accepted and fails at most once, so no handler can starve another),     *)
(* startup and join go on, and a polite phone sends its descriptor as soon *)
(* as it is connected.  Nothing makes a user act or a phone dial or leave. *)
(***************************************************************************)
Fairness ==
  /\ WF_vars(IoStep) /\ WF_vars(JoinReturns) /\ WF_vars(Boot)
  /\ ~Rude => \A s \in Socket : WF_vars(Announce(s))

FairSpec == Spec /\ Fairness

\* Where the IO thread can leave run() and the join can return;
\* CloseGuardsEnable says that a step can be taken there.  The proof of
\* QuietCloseCompletes takes it as a hypothesis.
RunCanReturn == io = "run" /\ ~acceptorOpen /\ ~crashed
JoinCanReturn == gui = "joining" /\ io = "ended" /\ ~crashed
CloseGuardsEnable ==
  /\ RunCanReturn => ENABLED <<IoStep>>_vars
  /\ JoinCanReturn => ENABLED <<JoinReturns>>_vars

-----------------------------------------------------------------------------
(* Properties *)

IoPhase == {"run", "readDescriptor", "notifyConnected", "listConnected",
            "notifyDisconnected", "removeDescriptor", "renumber",
            "listDisconnected", "ended"}

TypeOK ==
  /\ owner \in [Socket -> Device \union {NoDevice}]
  /\ peer \in [Socket -> {"none", "open", "fin", "rst"}]
  /\ said \in [Socket -> BOOLEAN]
  /\ backlog \subseteq Socket /\ reading \subseteq Socket
  /\ {booted, accepting, acceptorOpen, crashed, redialled, raced} \subseteq BOOLEAN
  /\ io \in IoPhase
  /\ ioSock \in Socket \union {NoSocket} /\ ioIndex \in Nat
  /\ connections \in Seq(Socket)
  /\ descriptors \in Seq(Device \union {Moved})
  /\ choice \in Seq(Device \union {Moved})
  /\ streaming \in Nat
  /\ gui \in {"idle", "joining", "closed"}
  /\ via \in Socket \union {NoSocket}
  /\ lastSend \in [for : Device \union {NoDevice, Moved}, to : Device \union {NoDevice}]

\* The phones of Server::connections, position by position.
Phones == [p \in DOMAIN connections |-> owner[connections[p]]]

(***************************************************************************)
(* Manager::descriptors has, position by position, the phones of           *)
(* Server::connections; inside a handler it lags by the phone the handler  *)
(* is about.  Every command is routed by an index that assumes this        *)
(* (SendToActiveDevice, manager.cpp:79-85).  It is given up once a phone    *)
(* has dialled while the host still had it: the erase then takes several   *)
(* descriptors for one connection (see README).                            *)
(***************************************************************************)
Removing == io \in {"notifyDisconnected", "removeDescriptor"}

InStep ==
  /\ io = "notifyConnected" => Phones = Append(descriptors, owner[ioSock])
  /\ Removing => \E n \in DOMAIN descriptors :
                   /\ descriptors[n] = owner[ioSock]
                   /\ Phones = DropAt(descriptors, n)
  /\ io # "notifyConnected" /\ ~Removing => Phones = descriptors

ListsAgree == redialled \/ InStep

(***************************************************************************)
(* A command reaches the phone it was meant for: the phone whose row the   *)
(* user picked gets the ACTIVATION (PROTOCOL.md, Activation), and every    *)
(* later command goes to the phone whose stream is open, through any       *)
(* number of other phones coming and going, and also from a GUI handler in *)
(* the middle of an accept handler.  One in the middle of the handling of  *)
(* a disconnection may miss, and what it has opened stays wrong until the  *)
(* next phone is chosen (raced); a phone that dials while the host has it  *)
(* ends it for good (redialled).                                           *)
(***************************************************************************)
CommandsReachTarget == redialled \/ raced \/ lastSend.to = lastSend.for

(***************************************************************************)
(* When the control connection the stream was started on goes away, the    *)
(* stream is stopped: RemoveDescriptor "clears streamingDevice when active *)
(* device disconnects" (application.cpp:467).  Excepted as above.          *)
(***************************************************************************)
ActiveDisconnectClears ==
  [][io = "renumber" /\ io' # "renumber" /\ ioSock = via
       => streaming' = 0 \/ raced \/ redialled]_vars

(***************************************************************************)
(* Every phone that announced itself is listed, or has left, unless the    *)
(* application is closed or dies.                                          *)
(***************************************************************************)
AnnouncedIsListed ==
  \A s \in Socket :
    said[s] ~> (Listed(s) \/ peer[s] # "open" \/ gui # "idle" \/ crashed)

(***************************************************************************)
(* The read loop "is used only to detect when a device disconnects"        *)
(* (connection.h:42-46): a listed phone that has gone is taken off the     *)
(* list.                                                                   *)
(***************************************************************************)
DisconnectDetected ==
  \A s \in Socket :
    (Listed(s) /\ peer[s] \in {"fin", "rst"}) ~>
      (~Listed(s) \/ gui # "idle" \/ crashed)

(***************************************************************************)
(* Closing the window ends the process when no IO handler is in progress   *)
(* as the join begins.  (In the middle of one it hangs: the handler calls  *)
(* into windows whose thread is waiting for it, see README.)               *)
(***************************************************************************)
QuietCloseCompletes ==
  (gui = "joining" /\ io \in {"run", "ended"}) ~> gui = "closed"
-----------------------------------------------------------------------------
(* The inductive invariant of the proofs *)

\* A socket the host knows about.
Held(s) == s \in backlog \/ s = ioSock \/ Listed(s)

OnePerPhone ==
  /\ \A s \in Socket : Held(s) => owner[s] \in Device /\ peer[s] # "none"
  /\ \A s, t \in Socket : Held(s) /\ Held(t) /\ owner[s] = owner[t] => s = t

\* A socket is in one place, and where that is depends on the handler.
Places ==
  /\ \A p, q \in DOMAIN connections : connections[p] = connections[q] => p = q
  /\ \A s \in backlog : ~Listed(s) /\ s # ioSock
  /\ \A s \in reading : Listed(s)
  /\ ioSock = NoSocket <=> io \in {"run", "ended"}
  /\ io \in {"readDescriptor", "renumber", "listDisconnected"} \/ Removing =>
       ~Listed(ioSock)

(***************************************************************************)
(* With one connection per phone the two lists agree, whatever the GUI     *)
(* thread does in between: the order in which the IO thread updates them   *)
(* is enough (server.cpp:161-167 and 180-186).                             *)
(***************************************************************************)
ListsInv == TypeOK /\ OnePerPhone /\ Places /\ InStep

\* Without the phone of the handler, connections[streaming] is one too far
\* from the position n that phone had.
Shifted(n) ==
  /\ n \in 1 .. Len(connections) + 1
  /\ streaming # 0 =>
       /\ streaming <= Len(connections) + 1
       /\ streaming = n => via = ioSock
       /\ streaming < n => connections[streaming] = via
       /\ streaming > n => connections[streaming - 1] = via

StreamIndex ==
  /\ streaming = 0 <=> via = NoSocket
  /\ Removing => \E n \in DOMAIN descriptors :
                   descriptors[n] = owner[ioSock] /\ Shifted(n)
  /\ io = "renumber" => Shifted(ioIndex)
  /\ ~Removing /\ io # "renumber" /\ streaming # 0 =>
       streaming \in DOMAIN connections /\ connections[streaming] = via

\* The stream is the phone's it was opened for, and so are its commands.
StreamInv == StreamIndex /\ lastSend.to = lastSend.for

\* The rows are those of the descriptors, or of the first of them.
Rows ==
  io \notin {"renumber", "listDisconnected"} =>
    \A p \in DOMAIN choice : p \in DOMAIN descriptors /\ choice[p] = descriptors[p]

(***************************************************************************)
(* With one connection per phone the two lists agree; and unless the GUI   *)
(* has used an index inside the handling of a disconnection, the streaming *)
(* index denotes the connection the stream was started on, up to the shift *)
(* that such a handler has still to make.  (RemoveDescriptor's index       *)
(* arithmetic, manager.cpp:44-56.)                                         *)
(***************************************************************************)
RoutingInv ==
  ListsInv /\ Rows /\ (raced \/ StreamInv)

(***************************************************************************)
(* Server::Close has closed everything by the time it joins, and a process *)
(* that died in a handler died with the handler still on the stack.        *)
(***************************************************************************)
CloseInv ==
  /\ gui = "joining" => ~acceptorOpen /\ ~accepting
  /\ gui # "idle" /\ io \in {"run", "ended"} => ~crashed

-----------------------------------------------------------------------------
(***************************************************************************)
(* The refinement.  A phone is listed from AddDescriptor to the end of     *)
(* RemoveDescriptor, where its stream ends with it; the active phone is    *)
(* the one behind the connection the stream was started on.                *)
(***************************************************************************)
ListedPhones ==
  {descriptors[p] : p \in DOMAIN descriptors}
    \union (IF io = "renumber" THEN {owner[ioSock]} ELSE {})

Directory ==
  INSTANCE DeviceDirectory
    WITH listed <- ListedPhones, active <- ActivePhone, last <- lastSend

(***************************************************************************)
(* All the lists and indices behave as the directory does, except in the   *)
(* steps that end raced, which choosing a phone repairs, and for good once *)
(* a phone has dialled while the host still had it.                        *)
(***************************************************************************)
ImplementsDirectory ==
  /\ Directory!Init
  /\ [][redialled' \/ raced' \/ Directory!Next]_(Directory!vars)
=============================================================================
