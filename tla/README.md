# A verification project for VCamdroid

VCamdroid turns a phone into a webcam of a Windows PC. The Windows client (`windows/src`) accepts control
connections from phones, tells one of them to stream, receives its video (RTSP from Android, a raw TCP
protocol from iPhones), shows it and feeds a virtual camera. The phones run an Android app (`android`) or an
iOS app (`ios`). This directory holds TLA+ modules that model the concurrent core of these programs, TLC
configurations that check them on small instances, and TLAPS proofs about the control side of the PC, its receivers, USB
tunnels and phone discovery, the settings of the cameras and the stream of the iPhone.

Paths below are relative to the repository's root; `iOS/` abbreviates
`ios/VCamdroidiOS/Sources/VCamdroidiOS/` and `Android/` abbreviates
`android/app/src/main/java/com/darusc/vcamdroid/`.

Running:

    tlc -workers 2 -config HostServer_Live.cfg MCHostServer      (both HostServer runs)
    tlc -workers 2 -config ReceiverSlot.cfg ReceiverSlot         (other runs: the module its cfg begins with)
    tlc -workers 2 -config PhoneStream.cfg MCPhoneStream
    tlapm HostServerProofs.tla       (and every other module whose name ends in Proofs)

## 1. Inventory

### Windows client

| Component | State | Operations | What is hard |
|---|---|---|---|
| `Server` (`net/server.cpp`), `Connection` (`net/connection.cpp`) | acceptor, IO thread, `connections` | accept and read a descriptor, read loop that only notices the end, `Send(id)`, `Close` | one IO thread that blocks in `read_some` and in window calls; exceptions in handlers; no lock on `connections`, which the GUI thread indexes |
| `RTSP::Manager` (`rtsp/manager.cpp`) | `descriptors`, `streamingDevice`, `receiver` | add and remove descriptors, `Connect2Stream`, `StopAll`, some twenty setters that send a command to the streaming phone | the index is used in two lists that change separately; the receiver is replaced by one thread and reset by two |
| `Application` (`application.cpp`) | window, per-phone options, discovered phones, USB flag | callbacks of server and mDNS, source selection, reconnects on link changes, start-up, close | callbacks on three threads; start-up order; close joins a thread that may wait for it |
| `RTSP::Receiver`, `RawTCPReceiver` | `isRunning`, `stopRequested`, a thread | `Start`, `Stop`, decode loop, retry | self-ending thread, blocking calls, flags set by two threads |
| `Canvas` (`canvas.cpp`) | `isRendering`, `shouldDraw` | post a frame, render it, clear | frames posted before a clear |
| `UsbmuxBridge`, `adb.h` | relays, reverse ports | `Forward`, `Reverse`, `Kill`, relay thread | join under a lock, stale port set |
| `MdnsBrowser` (`discovery/mdnsdiscovery.cpp`) | known devices, missed cycles | query cycle, found and removed callbacks | record order, early worker exit, rows refreshed later than the list they stand for |
| Buttons, dock panel, configuration dialog (`gui/`), `stateRegistry` | widget values, one `StreamOptions` per phone | write the entry, send one command | widgets that are never loaded, a modal dialog that outlives its phone, nothing read back |
| `Settings` | global values, device states, preserved lines | load, save | save is not atomic; optional sections |
| `Serializer`, `DeviceDescriptor`, `StreamOptions` | none | encode and decode packets | field order, widths and byte order on both ends |
| Other panels, scalers, DirectShow source | widgets, buffers | | out of scope: layout and pixels |

### iPhone

| Component | State | Operations | What is hard |
|---|---|---|---|
| `ControlChannel` with `ControlPacketDecoder` | connection, inbound buffer, state | connect, disconnect, receive loop, decode, deliver | callbacks of an old connection, commands without a length prefix on a stream |
| `VideoStreamServer` | listener, active connection, `headerSent`, `pendingSendBytes` | start, stop, accept or reject, send with backpressure | three threads and no lock; nothing reads the connection |
| `StreamController` | configuration, flags, controllers | connect, disconnect, dispatch of commands, activation, snapshot | `await`s, partial failure of an activation |
| encoder, capture, adaptive bitrate | sessions and values | start, stop, configure | restart while frames are in flight, values that drift apart |
| camera controls (`CameraControls/`) | what is in force on each camera | one setter per command, reset | another camera has its own values; a reconfiguration undoes what is not stored |
| `BonjourPublisher` | listener | start, stop, state updates | a listener that failed still counts as publishing |

### Android

| Component | State | Operations | What is hard |
|---|---|---|---|
| `TCPConnection`, `ConnectionManager` | socket, buffer, read thread | read, hand on, report the end | one `read` is taken for one packet; the end of the stream over Wi-Fi |
| `StreamActivity`, `Streamer`, `StreamOptions` | options, preview, encoder, filters | one handler per packet; start, restart and filter jobs posted to the main thread | options replaced by one thread and read by the other; check-then-act across the two; the bitrate adapter on a third thread |

### How they interact

A phone dials port 6969 of the PC and sends its descriptor. `Server` stores a `Connection` and calls
`Application`, which appends the descriptor to `Manager` and rebuilds the drop-down list. The user picks a
row; `Manager::Connect2Stream(row)` stops the receiver in use, sends ACTIVATION through
`Server::Send(row)` and starts a receiver that dials the phone's video port. Every button then sends one more
command to `connections[streamingDevice]`. When the control connection ends, `Server` erases the connection
and `Manager` the descriptor, and the stream is stopped if it was that phone's.

## 2. Modules

| Module | Models | Lines of code it stands for |
|---|---|---|
| `HostServer` | `Server`, `Connection`, descriptors and stream index of `Manager`, the callbacks and handlers of `Application` | `net/server.cpp`, `net/connection.cpp`, `rtsp/manager.cpp` 27-123, `application.cpp` 155-302, 446-541, 661-778 |
| `DeviceDirectory` | the abstract promise of `HostServer`: a set of phones, an active one, commands that arrive where they are meant to | specification only |
| `MCHostServer` | symmetry for TLC | |
| `HostServerProofs` | theorems about `HostServer` | |
| `ReceiverSlot` | `Manager::receiver`, both receiver classes, the canvas | `rtsp/receiver.cpp`, `streaming/rawtcpreceiver.cpp`, `canvas.cpp`, `rtsp/manager.cpp` 59-123 |
| `ReceiverSlotProofs` | theorems about it and, at its end, about `UsbTunnels` | |
| `VideoStreamServer` | the iPhone's video port with its clients | `iOS/Networking/VideoStreamServer.swift` |
| `VideoStreamServerProofs` | theorems about it | |
| `ControlChannel` | the iPhone's control connection and decoder | `iOS/Networking/ControlChannel.swift`, `ControlPacketDecoder.swift`, how `ActivationDecoder.swift` consumes |
| `ControlChannelProofs` | theorems about it | |
| `PhoneSession` | how an iPhone session starts, is shown and ends | `iOS/Streaming/StreamController.swift` 49-134, 187-246, 443-532, with `ControlChannel.swift` and `CaptureSessionManager.swift` |
| `PhoneSessionProofs` | theorems about it | |
| `PhoneStream` | codec, header and bitrates of the stream | `StreamController.swift` 253-418, `AdaptiveBitrateController.swift`, `VTH264Encoder.swift` |
| `MCPhoneStream` | two configurations and six commands for TLC | |
| `PhoneStreamProofs` | theorems about `PhoneStream` and `AndroidPhone` | |
| `CameraControls` | the settings of a phone on the PC and in force on the iPhone | `application.cpp` 138-153, 306-444, 673-983, `gui/cameradockpanel.cpp`, `gui/ioscontrolspanel.cpp`, `gui/streamconfigdlg.cpp`, setters of `rtsp/manager.cpp`, `net/serializer.cpp`, `StreamController.swift` 253-418, `iOS/CameraControls/` |
| `CameraControlsProofs` | theorems about it | |
| `UsbTunnels` | an iPhone's video over its cable | `net/usbmuxbridge.cpp`, `application.cpp` 69-174, `rawtcpreceiver.cpp` as its client |
| `Discovery` | iPhones on the LAN in the drop-down list | `iOS/Discovery/BonjourPublisher.swift`, `discovery/mdnsdiscovery.cpp`, `application.cpp` 270-296, 446-476, 485-541, 661-696 |
| `DiscoveryProofs` | theorems about it | |
| `AndroidPhone` | the Android phone of a session | `Android/StreamActivity.kt`, `rtsp/Streamer.kt`, `rtsp/StreamOptions.kt`, `networking/` |

How they fit together: `HostServer` has the lists of phones and who streams; `ReceiverSlot` is what its
`Connect2Stream` and `StopAll` do inside. `ControlChannel` is the other end of the control connection and
`PhoneSession` the program around it; `PhoneStream` and `CameraControls` are what its commands do, `CameraControls`
together with the PC that sends them. `VideoStreamServer` is the far end of `ReceiverSlot`'s raw receiver, with
`UsbTunnels` between the two on a cable. `Discovery` and `HostServer` fill the same drop-down list, from the air and
from the control connections. `AndroidPhone` is the counterpart of `ControlChannel`, `PhoneSession` and
`PhoneStream` for the other platform. Each module keeps of its neighbours what its properties need and says so in
its heading.

`PROJECT.json` maps every definition to its lines. Definitions whose comment begins with `Mutant:` are
plausible bugs, one per property; they are not part of any specification and only serve to show that the
property would notice.

### HostServer

State: `connections`, `descriptors`, `streaming` (`streamingDevice + 1`), `choice` (the rows of the drop-down
list) are the code's; `io` is the place of the IO thread between two points at which the GUI thread can run;
`owner`, `peer`, `said`, `backlog`, `reading` are sockets and the far ends. The IO thread's accept handler is
`AcceptBegin, ReadDescriptor, NotifyConnected, ListDevices`; its read handler is `ReadFails,
NotifyDisconnected, RemoveDescriptor, Renumber, ListDevices`. GUI handlers are one action each, since nothing
suspends them. `EraseAll` and `EraseOne` compute what the two erase-remove idioms do, the second one
(`manager.cpp:47`, without an end iterator) with its moved-from leftovers.

Three constants say what the environment may do:

* `Redial`: may a phone dial again while its old connection is still listed? Nothing in the code prevents it, and
  the theorems allow it. It is TRUE in `HostServer_Live`; in `HostServer_Routing` FALSE is a bound, since that run's
  properties claim nothing after such a dialling.
* `Resets`: may a link die so that `remote_endpoint()` throws?
* `Rude`: may a phone be silent, or hang up before its descriptor?

GUI handlers run wherever the IO thread is, also in the middle of its handlers, whose window calls pump messages.

History variables, which no guard reads: `via`, the socket the stream was started on; `lastSend`, whom the last command
was for (the row the user picked, or the phone whose stream is open) and who got it; and the two exceptions of the
properties. `raced`: a GUI handler has used an index inside the handling of a disconnection, and no phone has been
chosen outside one since. `redialled`: a phone has dialled while the host still had it, for good.

### ReceiverSlot

Two callers (`gui`, `io`) execute `StopAll` and `Connect2Stream` step by step: read the pointer, test
`isRunning`, clear it, join, reset (which runs the destructor, and in it `Stop` once more), create, start. Each
receiver has a decode thread whose blocking calls are states. `fate` becomes `"terminate"` when a joinable
`std::thread` is destroyed and `"dangling"` when a destroyed receiver is used. `overlap` remembers that the two
callers have been inside at once, which no lock prevents. `RawStalls` lets an iPhone keep its video connection
open in silence.

### VideoStreamServer

`listener` and `listeners`, `activeConnection`, `headerSent`, `pendingSendBytes` are the code's; each cancelled
connection still has a callback to make. Nothing locks them, so every thread's step is one access: `main` is what is
left of a `stop()` (cancel, forget, listener, `headerSent`), `queue` what the work queue is in the middle of
(`handleIncoming` or `tearDown`, which write `activeConnection` and `headerSent` one after the other), and a `send()` is
read, header, mark, put. A listener may fail, which the server shows and otherwise ignores. The clients are `Dial` and
`Close`; a unit sent to a closed client is answered with a reset. A link may also break by itself (`LinkLost`), and the
connection then fails without a send. Left out: the server's `state`, which only the screen reads, and a `stop()` that
finds no listener. `overtaken` remembers that a `send()` and a change of the connection (`handleIncoming`, `stop()`,
`tearDown`) overlapped; `Restarted`, true from the second `start()` on, is only an exception to liveness.

### ControlChannel

The main thread connects and disconnects, the work queue makes the callbacks, one at a time and in order
(`posted`), and drains the buffer in steps. A command of one byte is one unit on the wire, every other one a
head and a tail, and a read returns any number of units. `DecodeOne` takes a packet apart as the code does: an
ACTIVATION takes the whole buffer, a packet cut short throws and the buffer is dropped, a tail in front is read
as garbage. `settled`, `whole`, `swallowed`, `cancelledBy` are history: whether `connect()` was only called with
no callback outstanding, whether every read ended between commands, what came in one read behind an ACTIVATION,
and who cancelled each connection.

### PhoneSession

`connect()` is a coroutine: `dialer[d].step` is the `await` it is suspended at. `main` is the main queue, with
the jobs it really has: state changes of the channel (`control`), commands, the tasks that publish
`connectionState` (`show`), and the three blocks `connect()` waits for (`start`, `name`, `tail`). What
`disconnect()` has to end is the set `on`, plus `capture`, whose stop is only queued. The channel is
`ControlChannel` without bytes; the two describe the same code, one for its buffer, one for its states.
`Overlap` says whether the user may call `connect()` while one is under way. History: `astir` (something went on
after `disconnect()`), `crossed` and `overlapped` (the two races excepted below), `again` (`connect()` without a
`disconnect()` before it), `misnamed`.

### PhoneStream

A command is handled on the main queue; `applyActivation` is two steps, because headers are made of the new
configuration before the encoder is. `encoding` is the codec of the frames inside the compression session, which
come out later or are flushed by its teardown. `frames` is the frame rate, low, middling or full, which the
environment sets (`FrameRate`; low without a client). `Adjust` is a metrics snapshot of it that changes the bitrate, and
comes late enough to be allowed to. `shifted`, `untold` and `refused` are history: the codec changed under a client, or
the client joined while a changed codec was stored and the encoder, or a frame in it, still had the old one; the encoder
does not know what the controller believes; the encoder refused the configuration. They are the exceptions of
`HeaderTellsCodec`, `EncoderAsBelieved` and `AbrWithinPolicy`; section 4 says what happens then.

### CameraControls

A setting lives in `registry` (the PC's `stateRegistry`) and in `phone`: its stored configuration (`conf`), what is
live (torch, stabilization mode, encoder rate) and what each of the two cameras has. Every setting has two values.
The user works three kinds of controls: buttons of the main window, the dock (`dock.panel` holds what its widgets
show, which nothing ever loads), and the modal dialog of one phone. `Select` and `Restart` send `StartOf`: an
ACTIVATION and, for an iPhone, the controls that it does not carry. `HandleActivation` takes any number of the
commands behind it for its body. `Apply` is a configuration that is accepted, or refused by camera or encoder.
`unsure` is history: the settings whose last command did not keep its hold, because it was swallowed, undone by a
reconfiguration, or meant for another camera. Nothing else is excepted from `ConfigAsChosen` and `PictureAsChosen`.

### UsbTunnels

`cable` is the usbmux handle of the phone that is plugged in, `usb` and `handle` what the PC believes, `relay` the
relay of port 8554 with its thread, `client` the raw receiver's thread, `gui` what the GUI thread is in the middle of:
`PollUsbDevices` may be followed by a plug or unplug before `SetupUsbTunnels` looks again, and `Kill` waits for the
relay's thread. A receiver whose thread has ended by itself is destroyed by the next start or stop, which ends the
process (`crashed`, the fault of `rawtcpreceiver.cpp:74`). History: `fresh`, `missed` and `failed` say whether the
poll knows the cable and whether `Forward` opened its port.

### Discovery

`WorkerLoop` is `OpenSocket, Query`, any number of packets (`Answer`, `Names`, `Resolves`), `WindowEnds`, one
`Reconcile` per instance in the map's order, `Wait`. `discovered` is the application's map, changed on the browser's
thread; `refresh` is the `CallAfter` that is still queued, `shown` the rows of the choice. `Resolve` is what a click
on a row means at the moment of the click. A phone that connects or leaves is three steps of the IO thread: the
descriptors (`Connect`, `Disconnect`), then the `Clear` and the `Append`s of its refresh (`IoClears`, `IoFills`), with
the GUI thread anywhere between; `io` is where it is and `place` the position it has changed. Only what the user or
Windows ends stops the publisher: a `Disconnect` may leave it on. `quiet` counts the cycles since a phone answered in
full, independently of `missed`, the browser's own count. `doubled` is history: the two threads' refreshes ran into
each other.

### AndroidPhone

Two threads: `Read` takes the first packet of what one read returned and runs its case of `onBytesReceived` whole;
`RunJob` runs the oldest job posted to the main looper. `opts` keeps every `StreamOptions` object, because a queued
start holds the one of its activation. `Deserialize` reads the ACTIVATION as the code does, one byte per boolean. `gl`
is the bag of filters in the render chain, each with the options object it was made for. The camera and encoder
library is `dev`. `want` is the effect of the packets one by one, `odd` the races and failures `AsCommanded` excepts.

## 3. Runs

| Run | Instance | Distinct states | Shows |
|---|---|---|---|
| `HostServer_Routing` | 4 sockets, 3 phones, resets | 620,451 (with symmetry) | `CommandsReachTarget`, `ActiveDisconnectClears`, and the refinement `ImplementsDirectory` |
| `HostServer_Live` | 3 sockets, 2 phones, dialling again | 368,245 | `TypeOK`, `ListsAgree`; liveness `AnnouncedIsListed`, `DisconnectDetected`, `QuietCloseCompletes` |
| `ReceiverSlot` | 2 receivers, both classes | 256,263 | `TornDownCleanly`, `OneDecoder`, `NoOrphan`; liveness `CallsReturn`, `TriesAgain` |
| `VideoStreamServer` | 2 clients, 2 starts | 925,824 | `HeaderExactlyOnce`, `PendingExact`; liveness `ClosedIsReleased`, `AcceptedIsStreamed` |
| `ControlChannel` | 2 connects, 2 commands | 900,208 | `InOrder`, `OwnFault`, `RestingStateIsTrue`; liveness `SentIsHandled` |
| `PhoneSession` | 2 connects in turn, 1 command | 8,328,849 | `ShutDown`, `ShownIsTrue`, `OwnRouteNamed` |
| `PhoneStream` | 2 configurations, 6 commands, unbounded | 59,004 | `TypeOK`, `HeaderTellsCodec`, `EncoderAsBelieved`, `AbrWithinPolicy`; liveness `Recovers` |
| `CameraControls` | 1 iPhone, 1 Android phone, 2 changes, 2 starts, 1 refusal | 2,123,963 | `OwnPhoneOnly`, `ConfigAsChosen`, `PictureAsChosen` |
| `UsbTunnels` | 2 changes of the cable, 3 starts or mode changes | 14,399 | `AfterPoll`; liveness `KillReturns`, `ClientAnswered` |
| `Discovery` | 2 phones, 2 silent cycles, 1 move, 2 changes | 824,848 | `RowsAreTrue`, `KnownIsTrue`; liveness `ListFollowsAir` |
| `AndroidPhone` | 3 packets, 2 per read, 3 queued jobs | 512,793 | `AsCommanded`; liveness `CloseNoticed` |
| `AndroidPhone_Activation` | 2 packets | stops early | finding: `ActivationHonoured` violated |

Each property is stated and explained in its module. Deadlock is not checked, because every one of these
systems may stop: phones are dialled, receivers created and commands sent a bounded number of times, and a
closed application stays closed.

### Bounds

* Sockets are used once. Four of them for three phones let a phone leave, others move up, and one come back,
  while a stream is open: an index can be wrong in either direction and be corrected twice. Three sockets and
  two phones do the same for liveness, which excludes symmetry.
* Two receivers are enough for an old one to be torn down while a new one starts, the only situation in which
  two of them meet; a third would repeat the second's life.
* Two clients and two starts: one client served, one rejected or served after it, and callbacks of an old
  listener or connection that arrive under a new one. `MaxInFlight = 1` and `HighWaterMark = 0` let the
  backpressure branch be taken at once.
* One iPhone and one Android phone, two changes by the user, two starts and one refusal: a setting is changed before
  or after a restart, on either camera, by a button, the dock or the dialog, and a second change meets what the first
  left behind. Settings do not influence each other except through the commands modelled, and two values tell a
  change from none.
* Two plugs and three starts or mode changes: the cable leaves and comes back around a poll while a stream runs, and
  the relay meets the client of an older session.
* Two phones, two silent cycles, one move and two changes: one phone leaves while the other stays, at an address that
  is another's or its own new one. The code drops a phone after three silent cycles; two are the fewest in which a
  phone is missed and not dropped, and `KnownIsAlwaysTrue` is proved for every number.
* Three packets to an Android phone: an activation, a command that overtakes its start, and one behind both; every
  pair of commands in every order. Three jobs wait at most, four activations are handled (a closed Wi-Fi connection
  repeats its last packet for ever).
* Two connects and two commands: an old connection's callbacks meet a new one, and a second command follows an
  ACTIVATION or is cut by a read.
* Two connects in turn, and one command that is handled before, during or after the end of a session. With
  `Overlap = TRUE` and no command the same invariants hold in 24 million states, which takes too long for every
  day.
* `PhoneStream` has no bound but the finite set of commands: a static and an adaptive configuration of different
  codecs, both codecs, a bitrate and a range. The bitrates are small, so that truncation matters.

### Fairness

* IO thread (`IoStep`), work queues (`QueueStep`, `WorkStep`), decode threads (`Returns`) and the main queue
  (`HandleCommand`): an operating system thread or dispatch queue that has something to run runs it. FFmpeg's
  blocking calls return because `FFmpegInterrupt::Callback` gives up after its timeout; the raw receiver's have
  no timeout, so their return is only assumed with `RawStalls = FALSE`.
* `Announce`: both apps send the descriptor as soon as they are connected (assumed unless `Rude`).
* `Encodes`: an activated encoder keeps producing units while the server is started, and finishes the `send()` it is in.
* `RelayWorker`, `Dial`, `SeesEnd`, `Poll`, `Setup`, `Killed`, `Closed` of `UsbTunnels`: relay thread, receiver thread, and the
  GUI thread with its two-second timer. Nothing is assumed of the cable.
* `Worker` of `Discovery`, the browser's thread; and strong fairness of `Answer`: a phone that is on the air and asked
  in every cycle does not lose every answer for ever.
* `Receive` and `RunJob` of `AndroidPhone`: read thread and main looper.
* `Adjust` and `Configure` of `PhoneStream`: the metrics timer fires every second and the main queue goes on. A
  snapshot is of the frame rate there is, and nothing is assumed of that: at the maximum with a full rate, or at a
  middling rate, none is due. The hypothesis of `Recovers` is about the environment alone, frames at the full rate
  and no command from some time on, and its behaviours include sessions that stay adaptive at the maximum for ever.
* Nothing is assumed of users, of phones that dial or leave, or of the network breaking.

## 4. Faults seen while modelling

One run ends in a counterexample to a statement of the repository, which `PROJECT.json` quotes:

* **The phone misreads ACTIVATION** (`AndroidPhone_Activation`, `Android/rtsp/StreamOptions.kt:46`). The PC writes a
  boolean as four bytes, as `docs/PROTOCOL.md` says; `deserialize` reads one. From the second boolean on every field is
  read too early: adaptive bitrate is always off, and the stream starts at 0 or 256 bit/s.

The rest was met on the way. Where a property holds only without one of these, its comment names the exception.
TLC gives a counterexample as soon as the exception, or the switch named below, is lifted.

PC, control side (`HostServer`, `ReceiverSlot`)

* A phone that died stays listed: the error handler logs `remote_endpoint()`, which throws on a dead socket, and
  `Close()` behind it is skipped (`net/connection.cpp:32`; `Resets = TRUE`, `DisconnectDetected`).
* A phone that dials again while listed has two equal descriptors; the disconnect of one erases both from the front
  (`manager.cpp:47`), the lists disagree and commands go astray (`application.cpp:468`; `redialled`).
* Between `Server`'s erase and `Manager`'s renumbering (`server.cpp:184`, `manager.cpp:53`) the GUI thread may send a
  command, which reaches the next phone, or open a stream, whose index the renumbering then shifts away from it: until
  another choice commands go astray, and the stream may outlive its phone (`raced`).
* `Rude = TRUE`: `read_some` throws on a phone that hangs up, before the acceptor is armed again
  (`server.cpp:154`, 174): no phone can connect any more. A silent phone blocks the IO thread.
* Closing the window while an IO handler is inside a window call: GUI thread and IO thread wait for each other
  (`server.cpp:127`). This is why `QuietCloseCompletes` is about a close with no handler in progress.
* A raw receiver that ended by itself ends the process: `Stop()` believes `isRunning` and does not join
  (`rawtcpreceiver.cpp:74`). `RawStalls = TRUE`: `Stop()` waits for a read that never returns (line 202).
* `OpenConnection` clears a stop request made just before (`receiver.cpp:48`); the caller then waits for FFmpeg's
  timeout. `CallsReturn` holds because of that timeout.
* By reading: the server accepts phones before the window and the manager exist (`application.cpp:215`, 231, 238); a
  frame posted before `Canvas::Clear` is drawn after it (`canvas.cpp:84`).

iPhone, network and session (`VideoStreamServer`, `ControlChannel`, `PhoneSession`, `PhoneStream`)

* A client that closes keeps its place until something is sent to it, since nothing reads the connection
  (`VideoStreamServer.swift:170`). `Connect2Stream` closes its receiver and dials again at once, so the new
  connection can be rejected on account of the old one; a raw receiver does not retry.
* The connection is replaced while `send()` is between its reads of `activeConnection` and `headerSent`: the new client
  may get no header, or the header twice. Twice also when a `send()` falls between the two writes of `handleIncoming`
  (`VideoStreamServer.swift:150-151`), or into a `tearDown` or `stop()` whose clearing of `headerSent` comes late: the
  header it has sent is forgotten (all `overtaken`).
* A `stop()` that has seen no connection to cancel, overtaken by `handleIncoming`, forgets the client just accepted
  (`VideoStreamServer.swift:88-89`): its connection stays open and nothing is sent on it.
* A callback of a connection cancelled by `stop()` that comes after the next `start()` takes the new client's place
  away (`Restarted`).
* An old control connection's callback cancels the new one (`ControlChannel.swift:78`).
* The comment at `ControlPacketDecoder.swift:163` says that decoding "Stops when there's not enough remaining
  bytes"; it throws instead, and the buffer is dropped.
* A Wi-Fi session announces the loopback address after a cable attempt that failed, or a session that Windows closed:
  nothing clears `useUsbLoopback` (`StreamController.swift:132`).
* `connect()` and the channel's states publish `connectionState` independently. A state handled while the last
  job of `connect()` is queued (`crossed`) can leave "Connecting…" on the screen of a connected phone, with its
  button disabled, because `.connected` is not published (`StreamController.swift:476`). Dialling before the last
  connection's callbacks have run (`overlapped`) can leave "Not connected" on it. A failure is shown only until the
  `.cancelled` that follows it is published as "disconnected".
* A command that was queued when `disconnect()` ran is still handled: microphone, encoder or a pending snapshot
  come back (`astir`), against `docs/PERFORMANCE.md:108`.
* A new adaptive controller believes in the maximum while the encoder runs at the configuration's bitrate, until
  the first nudge (`AdaptiveBitrateController.swift:28`). Without a client the frame rate is 0, which counts as low:
  the bitrate falls to the minimum before anybody watches (line 61).
* `SetH265Codec` while a client is connected: its header still names the old codec. So it is the other way round for a
  client that joins while `applyActivation` has stored a new codec (`StreamController.swift:329`) and not yet configured
  the encoder: its header names the new codec, and a unit of the old one may follow (both `shifted`).
* An encoder that refuses a configuration (`StreamController.swift:332`) is left without a session, and the rest of
  `applyActivation` is skipped: the controller keeps the policy of the configuration before (`refused`).

Camera settings (`CameraControls`)

* Commands right behind an ACTIVATION are taken for its body. `ReapplyIosControlsAfterStreamConnect` sends up to seven.
* Switching from adaptive to static sends only `SetBitrate` (`application.cpp:973-980`). The phone changes the encoder
  (`StreamController.swift:267`) but not the controller, which goes on adapting: until its next nudge it
  believes in another bitrate than the encoder's (`untold` in `PhoneStream`).
* Torch, bitrate and stabilization mode are not stored in the configuration, so a change of resolution, frame rate,
  codec, stabilization or camera undoes them (`StreamController.swift:386`).
* Going back from manual to automatic exposure or white balance sends nothing; only "Reset to Auto" of the dialog does.
  That also zeroes the exposure compensation, which the registry keeps.
* A camera swap leaves lens, exposure, white balance and focus as the other camera had them.
* The dock's widgets start from defaults, not from the phone's entry: `LoadState` is empty and never called
  (`cameradockpanel.cpp:45`). Touching one overwrites its whole group.
* The disconnect of any phone hides the dock and disables the torch button of the one that streams
  (`application.cpp:470-473`). The portrait switch of the dialog and the reset of the dock are bound to nothing.

USB (`UsbTunnels`)

* A cable that is pulled and plugged between two polls leaves a relay that dials a device handle that is gone, and a
  stream on the wrong address (`missed`). A `Forward` that failed is not tried again before an unplug (`failed`).
* Unplugging, or selecting again, after the receiver's thread has ended ends the process (see `rawtcpreceiver.cpp:74`).
* `Kill` never removes a port from `activeReversePorts` (`usbmuxbridge.cpp:132`), so that after a replug `Reverse`
  pairs nothing.

Discovery

* A worker that cannot open its socket clears `running`: `Stop` returns early and the thread is never joined, so its
  destructor ends the process (`mdnsdiscovery.cpp:159`; `unopened`).
* An A record is given to every pending instance without a host: with two phones one can get the other's address
  (`mdnsdiscovery.cpp:88`). It is shown in the row's hint, nothing dials it, and the properties do not speak of it.
* A listener that failed still counts as publishing, so `connect()` never starts another (`BonjourPublisher.swift:44-47`).
* Until a queued refresh has run, the row of a phone that is not connected may name another one.
* Between the change of the descriptors and the refresh of the rows (`application.cpp:449-450`, 468-476) a click on a row
  at or behind the phone added or removed opens another phone's stream.
* A refresh of the GUI thread between the IO thread's `Clear` and its `Append`s lists every phone twice until the next
  refresh (`application.cpp:661-696`; `doubled`).

Android (`AndroidPhone`)

* Each `read` is taken for one packet: commands that TCP joins are lost but for the first (`StreamActivity.kt:66`).
* Over Wi-Fi the end of the stream (-1) is handed on as a packet: the last one is executed again and again, and the
  disconnect is never noticed (`TCPConnection.kt:65`).
* CODEC, BITRATE, STABILIZATION, FOCUS and CAMERA handled while a start is queued are undone by it, a BITRATE by a
  queued restart (`early`); a restart also takes the stored bitrate, not the one in force.
* A second activation while streaming does not prepare the encoder again, and leaves the old filters in the chain
  (`again`). A correction sent twice in a hurry is added twice (`hurried`, `Streamer.kt:158`).
* The adapter tests the adaptive flag and sets the bitrate in two steps, so a BITRATE between them is overwritten
  (`adapting`, `Streamer.kt:47-51`). A format the encoder refuses stops the stream until the next ACTIVATION
  (`refused`).

## 5. Proofs

`HostServerProofs` proves, for any sets of sockets and phones:

| Theorem | Statement |
|---|---|
| `ListsCorrect` | `[](redialled \/ ListsInv)` |
| `TypeCorrect` | `[](redialled \/ TypeOK)` |
| `ListsAlwaysAgree` | `[]ListsAgree` |
| `RoutingCorrect` | `[](redialled \/ RoutingInv)` |
| `CommandsAlwaysReachTarget` | `[]CommandsReachTarget` |
| `ActiveDisconnectAlwaysClears` | `ActiveDisconnectClears` |
| `DirectoryImplemented` | `ImplementsDirectory` |
| `QuietCloseAlwaysCompletes` | `QuietCloseCompletes`, from `FairSpec` and `[]CloseGuardsEnable` (see the end of this section) |

Nothing is assumed but the named assumptions of `HostServer` (sentinels are no sockets or phones, switches are
Booleans): phones may dial again, be silent and be reset, and GUI handlers run anywhere. What goes wrong then is an
exception of the property, `redialled` or `raced`, where the sections above say what it means.

The argument: `ListsAgree` alone is not inductive. That appending a phone to both lists, or removing it from
both, leaves them alike needs that a phone has only one connection (`OnePerPhone`) and that a socket is in one
place: the backlog, a handler or the list (`Places`). With `TypeOK` these make up `ListsInv`. The erase by
value in `Manager` and the erase by pointer in `Server` then drop the same position (`DropAt`); a few lemmas
say so about `EraseOne` and `EraseAll` for sequences that hold an element once. `RoutingInv` adds two things. `Rows`: the
rows of the drop-down list are the first descriptors, so that a click in the middle of an accept handler means what it
says. And, unless `raced`, `StreamInv` with `StreamIndex`: the index denotes the connection the stream was started on,
shifted by one while a handler has removed a phone and not yet renumbered. A choice of a phone outside the handling of a
disconnection establishes `StreamInv` anew, whatever was before, which is why it ends `raced`. `ActiveDisconnectClears`
and the refinement follow from `RoutingInv` step by step; one lemma per action, and one QED that combines them. `Seq` and
cardinalities come from the library's theorems.

`PhoneStreamProofs` proves `StreamTypeCorrect`, `HeadersTellCodec`, `EncoderAlwaysAsBelieved` and
`AbrAlwaysWithinPolicy` (`[]TypeOK`, `[]HeaderTellsCodec`, `[]EncoderAsBelieved`, `[]AbrWithinPolicy` of
`PhoneStream`) for any set of commands whose bitrates are positive and in order (`CommandsAssumption`). The
invariant `StreamInv` is the four together with two more facts: the controller's bounds are in order and its
bitrate positive even after a refusal (`AbrSane`), and what is inside the encoder, its codec and the header
agree with the configuration for a client that is not `shifted` (`HeaderInv`). Without the second,
`HeaderTellsCodec` is not inductive, since the unit that would break it is still in the encoder. The three properties
make their exceptions: `shifted`, `untold` and `refused`.

`ReceiverSlotProofs` proves `NoOrphanEver`, `OneDecoderEver` and `TornDownCleanlyEver` (`[]NoOrphan`, `[]OneDecoder`,
`[]TornDownCleanly`) for any number of receivers and stalls. `SlotInv` has two parts. `OrphanInv` holds even when
callers overlap: receivers come into use as they are created (`Born`), and whatever decodes can be joined
(`CanBeJoined`), so that who destroys it early ends the process. `InTurn` holds as long as the callers take turns: one
is busy (`OneCaller`), what it holds is what the slot has at that place of its way (`CallInv`), and a thread decodes for
the slot or is being joined (`ThreadInv`).

`ControlChannelProofs` proves `OwnFaultAlways` and `RestingStateAlwaysTrue` (`[]OwnFault`, `[]RestingStateIsTrue`) for any
number of connects and commands. Both speak of moments; `Settled`, in `ChannelInv`, says how the channel gets there:
the life of its connection with the callbacks posted at each stage (`Alive`), all other connections over (`Over`,
`Unmade`) with nothing outstanding (`Own`), and after a disconnect a last callback that says so (`Ended`).
`AlwaysInOrder` (`[]InOrder`) rests on `OrderInv`: read as one sequence, what is handled, queued and decoded rises and
is followed by what is in the buffer and on the wire of the channel's connection (`StreamOrder`), where a command and
the garbage a misread one turns into keep their number; and only that connection has a wire that will be read
(`LinkOrder`), which is where `ChannelInv` comes in. That the decoder keeps the order is one lemma about `DecodeOne`.

`VideoStreamServerProofs` proves `HeaderAlwaysOnce` (`[]HeaderExactlyOnce`) for any clients and bounds. That nobody has
got anything without a header does not say that the next unit is right: `HeaderInv` adds that `headerSent`, or what a
`send()` under way has read of it, is true of what the active client has got (`HeaderSentTrue`), and that a client the
server has not been handed has got nothing (`GotInv`). Where the connection has been changed and `headerSent` not yet
(`Changing`), it is true of nobody: unless `overtaken` nobody sends there, and a client that has come has got nothing.
`PendingAlwaysExact` (`[]PendingExact`) holds for any finite set
of connections (`ConnAssumption`; a phone has finitely many). Its `CountInv` is the property itself; the work is in the sum, a fold of
the community modules: that it is there, is zero for zeros and changes by what one of its terms changes by (`SumsExist`
and the lemmas after it) is an induction over the finite set.

`CameraControlsProofs` proves `OwnPhoneAlways` (`[]OwnPhoneOnly`) for any phones, any subset of iPhones and any bounds.
`OwnPhoneOnly` speaks of the opcodes in the queues; its invariant `ControlsInv` says that a queue is a sequence of
commands built from `StreamOptions`, of which an Android phone's only has opcodes that phone knows (`NetInv`), and that
the dialog's phone is the streaming one or none is, and a shown dock an iPhone's (`OwnInv`). The setters are shown to build
such commands once (`Setters`, `Starts`), sending and taking to keep the queues so (`Sent`, `Taken`); each group of
actions is then one lemma.

`ConfigAlwaysAsChosen` and `PictureAlwaysAsChosen` (`[]ConfigAsChosen`, `[]PictureAsChosen`) speak of an iPhone that has
handled all that was sent; `PictureInv` says what the commands still on their way add up to. For each aspect the PC has
chosen, either a command on its way tells it and none behind touches it (`Informs`), or no command on its way touches
it and it is in force or in doubt (`Quiet`, `Agrees`, `Doubt`): `AllKept`. A `CAMERA` command is relative, so `BackInv`
adds that the toggles on their way lead from the camera in use to the one the PC believes in. `Handled` is what one
command does to one aspect, proved once per command; `Informs` and `Quiet` are proved to survive the ends of a queue.

`ReceiverSlotProofs` proves, in its last section, `TunnelsAgreeAfterPoll` (`[]AfterPoll` of `UsbTunnels`) for any number of plugs and starts. `AfterPoll` says
nothing between a change of the cable and the next poll; `TunnelInv` does: while the cable has changed once since the
poll, it is the opposite of what the poll saw (`CableInv`); a PC that believes in no cable has no relay, one that
opened the port still has it (`RelayInv`); and only in mode "auto" can the address be out of date (`StreamInv`).

`DiscoveryProofs` proves `KnownIsAlwaysTrue` (`[]KnownIsTrue`) for any positive phone numbers and threshold. Its
`KnownInv` relates the browser's count to the true one at every step of a cycle (`Counted`, and `Behind` for the phones
not yet reconciled), and says in which states of the browser the lists are empty (`ListInv`). `RowsAreAlwaysTrue`
(`[]RowsAreTrue`) adds `ShownInv`: unless `doubled`, the rows shown are `Rows` of the phones connected at the last
refresh and of some finite set, the one discovered unless a refresh is queued; the phones connected since agree with
them in front of the `place` the IO thread has changed (`Before`), and all of them when it is at rest. That `Rows` lists
exactly those phones needs that a finite set of numbers has an ascending enumeration (`EnumerationExists`), by induction over its size.

`PhoneSessionProofs` proves `SessionShutsDown`, `RoutesAreNamed` and `ScreenIsTrue` (`[]ShutDown`, `[]OwnRouteNamed`,
`[]ShownIsTrue`) for any number of calls to `connect()`, overlapping or not, and of commands; the runs check two calls
that do not overlap. `ShutInv` is `ShutDown` with the jobs that are really posted. `AwaitInv` ties each job `connect()`
waits for to the call that waits, and there is one job for it: without it a job could resume a call that has moved
on. `RouteInv`: as long as each call follows a `disconnect()`, one is under way at a time, and `useUsbLoopback` is its
button's. For the screen, `LinkInv` lists which callbacks are still to come in each state of the connection, and
`ScreenInv` says what the queue will have shown when it has run: as long as there is a connection, every end in the
queue is followed by a "connecting" (`Overruled`), and the last job that shows something is the end of `connect()`
(`EndsUp`) unless that call is under way or will cross (`Doomed`); without a connection the end is in the queue
(`Sinks`) or on the screen.

`PhoneStreamProofs` proves, in its second half, `PhoneAsCommanded` (`[]AsCommanded` of `AndroidPhone`) for any number
of packets and jobs and any load of the encoder. `AsCommanded` speaks of an empty main queue; `AndroidInv` says what a queue that is not
empty will make of the phone. The filters: the jobs, carried out one after the other on the effect and the filters of
the options, lead to those that were asked for (`LeadsTo`), and the render chain holds each of the options' filters once
(`FilterInv`). The stream: as long as the start is queued it is the first job, and the options hold what it will apply
(`WaitingInv`); after it the stream runs, with the format and rate asked for unless a restart is queued, which will take
both from the options (`StartedInv`). A correction is queued once and not yet in use (`QueueInv`), since it is looked up
on one thread and added on the other. Before the activation nothing else can be read (`Idle`). The invariant claims
nothing once one of the races and failures named in `odd` has happened, as `AsCommanded` does not; `RegularBefore` is the
lemma that they are never taken back.

Four liveness properties are theorems too:

| Theorem | Statement | Hypotheses |
|---|---|---|
| `ReceiverSlotProofs!KillAlwaysReturns` | `KillReturns` | `UsbSpec`, `[]UsbGuardsEnable` |
| `ReceiverSlotProofs!AlwaysTriesAgain` | `TriesAgain` | `FairSpec`, `[]TriesGuardsEnable` |
| `HostServerProofs!QuietCloseAlwaysCompletes` | `QuietCloseCompletes` | `FairSpec`, `[]CloseGuardsEnable` |
| `VideoStreamServerProofs!AcceptedAlwaysStreamed` | `AcceptedIsStreamed` | `FairSpec`, `[]SendGuardEnables`, `MaxInFlight > 0` |

Each hypothesis `[]...Enable(s)` says that a step is `ENABLED` where its guard, which is written out beside it, holds. The
installed prover cannot reason about `ENABLED`, so this is the one ingredient not proved: the theorems are conditional
on it. TLC found each to hold in every state of the corresponding configuration; adding its name to the `INVARIANT` of `UsbTunnels.cfg`,
`ReceiverSlot.cfg`, `HostServer_Live.cfg` or `VideoStreamServer.cfg` repeats that. (They are kept out of the regular runs, since they
speak of the models' guards and not of the code.) All else is proved: that a thread which has not got where it should stands in one of
finitely many stages; that every step of anybody leaves it there or takes it further; that at each stage the guard
holds, so that weak fairness brings the step that leads on. What each needs beyond the safety invariants:

* `KillReturns`: `PeerInv`. While somebody waits for the relay's thread, `running` is off, so it cannot start a new
  session; and what it may be blocked in, a send to a receiver, has a receiver that reads.
* `TriesAgain`: `TriesInv`. The thread of an RTSP receiver goes "lost", "retry", "open", "opening", and nobody else sets
  it back; `StarterInv` says so of the GUI thread, the only one that starts receivers: the one it starts has no thread
  yet. Overlapping callers do not matter.
* `QuietCloseCompletes`: `CloseInv`. When the GUI thread joins, the acceptor is closed and no accept is pending, and
  nothing on the way to the join can have ended the process. `Redial` may be on.
* `AcceptedIsStreamed`: `StreamAlways`. The encoder's thread is not in the middle of a `send()` to a connection never handed over; and
  what is in flight to a client has reached it, so that one which has nothing yet never waits for completions (`Links`).
  This is where a limit of zero would block, and the only place where `MaxInFlight` matters. `InHand`: what the work queue
  is in the middle of is not about a ready client; `Served`: before the first restart whoever is served is the active one.

Only model-checked: the other liveness properties. `ClosedIsReleased`, `SentIsHandled`, `Recovers`,
`DisconnectDetected`, `CloseNoticed`, `ClientAnswered`, `AnnouncedIsListed` and `ListFollowsAir` go through a queue, a backlog or a count whose
length depends on the constants, so their proofs need an induction over a rank; `CallsReturn` waits for one of
several receivers. The temporal prover is propositional and has neither. Every safety invariant the passing runs
check is also a theorem, except that `TypeOK` of `HostServer` is proved only until a phone has `redialled`.

Two things about the prover shaped the models. The library's induction theorems take an operator and cannot be used;
where an invariant needs an induction (the sum, the enumeration), it goes by the least number of a set, which
`WellFoundedInduction` gives without one (`WFMin`, `NatLessThanWellFounded`; `LeastNumber`). And `SelectSeq` and
`SortSeq` have no meaning to it: `Rows` of `Discovery` and `InOrder` are stated by what such a sequence is.

## 6. Not modelled

* **Settings**: one thread reads and writes one text file at start and close. What survives is a matter of the file's
  format, and the repository promises nothing about it. `Save` truncates the only copy before it writes
  (`settings.cpp:134`).
* **Encodings**: packets are messages with the settings they carry; the order, width and byte order of the fields are
  modelled only where the two ends differ (`Deserialize` of `AndroidPhone`).
* **Pixels and media**: portrait processing, scalers, the virtual camera, filters' shaders, NAL extraction, AVFoundation,
  VideoToolbox, FFmpeg and OpenGL: they keep no control state, or their behaviour is a library's.
* **User interfaces**: SwiftUI views, Android screens, layout on Windows, the adjustments dialog, QR codes. The controls
  that write state are actions of `CameraControls`, `HostServer` and `PhoneSession`.
* **adb tunnels**: shell commands without state of the program's own. The **OBS plug-in** is a stub.
* Of modelled parts: rotation, flips, filters, studio mode and the microphone as sent by the PC; clamping of camera
  values to a device's limits and tap to focus; late callbacks of a stopped Bonjour listener; on Android the zoom and the
  flash, the destruction of the surface and messages that overtake the main looper's queue.
* Torn reads of a `std::vector`, a Kotlin object or `Data` that two threads use at once are undefined and not modelled as
  values: where threads share state without a lock, the models let them interleave between whole accesses to it.
  `HostServer` and `Discovery` do so at the points that the IO thread's handlers pass between one list and the next, and
  take a GUI handler for one step.

## 7. What is left

1. The wire formats as pure operators, both ends of each packet checked against each other.
