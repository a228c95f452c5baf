---------------------------- MODULE ControlChannel ----------------------------
(***************************************************************************)
(* The iPhone's end of the control connection (Networking/ControlChannel   *)
(* .swift) and its decoder (ControlPacketDecoder.swift).  The main thread  *)
(* connects, disconnects and handles decoded commands; the work queue runs *)
(* the callbacks of the NWConnections, one at a time.  A cancelled         *)
(* connection still has callbacks to make: its receive ends in an error,   *)
(* and its state becomes cancelled.                                        *)
(*                                                                         *)
(* Commands are numbered as Windows sends them.  On the wire a command is  *)
(* one unit when its opcode is all of it, and otherwise a head (with the   *)
(* opcode) and a tail; a read may return any number of units.              *)
(***************************************************************************)
EXTENDS Naturals, SequencesExt

CONSTANTS
  MaxConnects, \* bound: calls of connect()
  MaxSends     \* bound: commands Windows sends

ASSUME BoundsAssumption == MaxConnects \in Nat /\ MaxSends \in Nat

Conn == 1 .. MaxConnects  \* NWConnections, in the order connect() makes them
NoConn == 0
Op == {"activation", "long", "short"}
Garbage == 0              \* a command decoded from what is not a command

VARIABLES
  \* main thread
  connection,     \* ControlChannel.connection
  mainQueue,      \* commandHandler calls posted to the main queue
  handled,        \* history: commands handled, in order
  \* work queue
  state,          \* "idle", "connecting", "connected" or "failed"
  inboundBuffer,
  decoding,       \* drainInboundBuffer: buffer left and commands decoded
  \* NWConnection
  link,           \* "none", "preparing", "open", "failed" or "cancelled"
  posted,         \* state callbacks not yet made, in order, as <<state, conn>>
  receives,       \* receive() calls outstanding on each connection
  wire,           \* units sent by Windows and not yet received
  hostClosed,     \* Windows has closed its end
  \* history
  sent,           \* the commands Windows sent: their connection and op
  descriptors,    \* how often the descriptor was sent on each connection
  cancelledBy,    \* who cancelled each connection: NoConn for the user, or
                  \* the connection whose callback did it
  whole,          \* no read has ended inside a command
  swallowed,      \* commands that came in one read behind an ACTIVATION
  settled         \* connect() was never called with callbacks still to come

mainVars == <<connection, mainQueue, handled>>
workVars == <<state, inboundBuffer, decoding>>
linkVars == <<link, posted, receives, wire, hostClosed>>
pastVars == <<sent, descriptors, cancelledBy, whole, swallowed, settled>>
vars == <<mainVars, workVars, linkVars, pastVars>>

Waiting == [busy |-> FALSE, buffer |-> <<>>, out |-> <<>>]

Init ==
  /\ connection = NoConn /\ mainQueue = <<>> /\ handled = <<>>
  /\ state = "idle" /\ inboundBuffer = <<>> /\ decoding = Waiting
  /\ link = [c \in Conn |-> "none"] /\ posted = <<>>
  /\ receives = [c \in Conn |-> 0] /\ wire = [c \in Conn |-> <<>>]
  /\ hostClosed = [c \in Conn |-> FALSE]
  /\ sent = <<>> /\ descriptors = [c \in Conn |-> 0]
  /\ cancelledBy = [c \in Conn |-> c]
  /\ whole = TRUE /\ swallowed = {} /\ settled = TRUE

-----------------------------------------------------------------------------
(* disconnect(), from the main thread or from a callback *)

\* Mutant: connection = nil, and nothing else.
NotCancelled == link

\* The connection is cancelled, forgotten, and the buffer emptied.
Cancelled == IF connection = NoConn THEN link ELSE [link EXCEPT ![connection] = "cancelled"]
CancelPosts == IF connection = NoConn THEN <<>> ELSE <<<<"cancelled", connection>>>>
Blame(who) ==
  IF connection = NoConn THEN cancelledBy ELSE [cancelledBy EXCEPT ![connection] = who]

-----------------------------------------------------------------------------
(* The main thread *)

\* There is no connection, and no callback of an earlier one is outstanding.
AtRest ==
  connection = NoConn /\ posted = <<>> /\ (\A c \in Conn : receives[c] = 0) /\ ~decoding.busy

Connect(c) ==
  /\ link[c] = "none" /\ \A d \in 1 .. c - 1 : link[d] # "none"
  /\ connection' = c
  /\ link' = [Cancelled EXCEPT ![c] = "preparing"]
  /\ posted' = posted \o CancelPosts
  /\ inboundBuffer' = <<>> /\ state' = "connecting"
  /\ cancelledBy' = Blame(NoConn)
  /\ settled' = (settled /\ AtRest)
  /\ UNCHANGED <<mainQueue, handled, decoding, receives, wire, hostClosed, sent,
                 descriptors, whole, swallowed>>

Disconnect ==
  /\ connection # NoConn
  /\ connection' = NoConn
  /\ link' = Cancelled /\ posted' = posted \o CancelPosts
  /\ inboundBuffer' = <<>>
  /\ cancelledBy' = Blame(NoConn)
  /\ UNCHANGED <<mainQueue, handled, state, decoding, receives, wire, hostClosed, sent,
                 descriptors, whole, swallowed, settled>>

\* commandHandler(cmd), which StreamController acts on.
HandleCommand ==
  /\ mainQueue # <<>>
  /\ handled' = Append(handled, Head(mainQueue)) /\ mainQueue' = Tail(mainQueue)
  /\ UNCHANGED <<connection, workVars, linkVars, pastVars>>

-----------------------------------------------------------------------------
(* The work queue *)

\* receiveLoop() asks the connection of now, whose callback it is not.
ReceiveLoop ==
  IF connection = NoConn THEN receives ELSE [receives EXCEPT ![connection] = @ + 1]

NextCallback(callback) == posted # <<>> /\ Head(posted) = callback

\* Mutant: the descriptor is sent, and nothing is received.
ReadyDeaf(c) ==
  /\ ~decoding.busy
  /\ NextCallback(<<"ready", c>>) /\ posted' = Tail(posted)
  /\ state' = "connected"
  /\ descriptors' = IF connection = NoConn THEN descriptors
                    ELSE [descriptors EXCEPT ![connection] = @ + 1]
  /\ UNCHANGED <<mainVars, inboundBuffer, decoding, link, receives, wire, hostClosed, sent,
                 cancelledBy, whole, swallowed, settled>>

\* .ready: send the descriptor and start to receive, on the connection of now.
Ready(c) ==
  /\ ~decoding.busy
  /\ NextCallback(<<"ready", c>>) /\ posted' = Tail(posted)
  /\ state' = "connected"
  /\ descriptors' = IF connection = NoConn THEN descriptors
                    ELSE [descriptors EXCEPT ![connection] = @ + 1]
  /\ receives' = ReceiveLoop
  /\ UNCHANGED <<mainVars, inboundBuffer, decoding, link, wire, hostClosed, sent,
                 cancelledBy, whole, swallowed, settled>>

\* .failed: and disconnect() whatever the connection is by now.
Failed(c) ==
  /\ ~decoding.busy
  /\ NextCallback(<<"failed", c>>) /\ posted' = Tail(posted) \o CancelPosts
  /\ state' = "failed"
  /\ connection' = NoConn /\ link' = Cancelled /\ inboundBuffer' = <<>>
  /\ cancelledBy' = Blame(c)
  /\ UNCHANGED <<mainQueue, handled, decoding, receives, wire, hostClosed, sent,
                 descriptors, whole, swallowed, settled>>

\* .cancelled
WasCancelled(c) ==
  /\ ~decoding.busy
  /\ NextCallback(<<"cancelled", c>>) /\ posted' = Tail(posted)
  /\ state' = "idle"
  /\ UNCHANGED <<mainVars, inboundBuffer, decoding, link, receives, wire, hostClosed, pastVars>>

\* A receive ends without data: with an error once the connection is failed or
\* cancelled, with isComplete once Windows has closed.
ReceiveEnds(c) ==
  /\ ~decoding.busy
  /\ receives[c] > 0 /\ receives' = [receives EXCEPT ![c] = @ - 1]
  /\ \/ link[c] \in {"failed", "cancelled"} /\ state' = "failed"
     \/ link[c] = "open" /\ hostClosed[c] /\ wire[c] = <<>> /\ state' = "idle"
  /\ connection' = NoConn /\ link' = Cancelled /\ inboundBuffer' = <<>>
  /\ posted' = posted \o CancelPosts
  /\ cancelledBy' = Blame(c)
  /\ UNCHANGED <<mainQueue, handled, decoding, wire, hostClosed, sent, descriptors,
                 whole, swallowed, settled>>

HeadOf(i) == [no |-> i, part |-> "head"]
TailOf(i) == [no |-> i, part |-> "tail"]
Units(i, op) == IF op = "short" THEN <<HeadOf(i)>> ELSE <<HeadOf(i), TailOf(i)>>

EndsWhole(units) ==
  LET u == Last(units) IN u.part = "tail" \/ sent[u.no].op = "short"

BehindActivation(units) ==
  {units[p].no : p \in {q \in DOMAIN units :
                   \E r \in 1 .. q - 1 : sent[units[r].no].op = "activation"
                                           /\ units[r].no # units[q].no}}

\* A receive ends with n units, which drainInboundBuffer starts on.
ReceiveData(c, n) ==
  /\ ~decoding.busy
  /\ receives[c] > 0 /\ link[c] = "open" /\ n \in 1 .. Len(wire[c])
  /\ receives' = [receives EXCEPT ![c] = @ - 1]
  /\ LET units == SubSeq(wire[c], 1, n)
     IN  /\ inboundBuffer' = inboundBuffer \o units
         /\ decoding' = [busy |-> TRUE, buffer |-> inboundBuffer \o units, out |-> <<>>]
         /\ whole' = (whole /\ EndsWhole(units))
         /\ swallowed' = swallowed \union BehindActivation(units)
  /\ wire' = [wire EXCEPT ![c] = SubSeq(@, n + 1, Len(@))]
  /\ UNCHANGED <<mainVars, state, link, posted, hostClosed, sent, descriptors,
                 cancelledBy, settled>>

\* decodeOne: an ACTIVATION takes all there is, and so does an opcode that is
\* none; what is incomplete throws.  A tail reads as anything.
DecodeOne(buffer) ==
  LET u == Head(buffer)
      op == sent[u.no].op
      rest == Len(buffer)
  IN  IF u.part = "tail" THEN {[cmd |-> Garbage, consumed |-> k] : k \in 0 .. rest}
      ELSE {[cmd |-> u.no,
             consumed |-> IF op = "short" THEN 1
                          ELSE IF rest = 1 THEN 0
                          ELSE IF op = "long" THEN 2 ELSE rest]}

\* One round of decodeAll; consumed = 0 stands for the exception, on which the
\* buffer is dropped and with it the commands decoded before.
DecodeNext ==
  /\ decoding.busy /\ decoding.buffer # <<>>
  /\ \E one \in DecodeOne(decoding.buffer) :
       IF one.consumed > 0
         THEN /\ decoding' =
                   [decoding EXCEPT
                      !.buffer = SubSeq(@, one.consumed + 1, Len(@)),
                      !.out = Append(@, one.cmd)]
              /\ UNCHANGED <<inboundBuffer, receives>>
         ELSE decoding' = Waiting /\ inboundBuffer' = <<>> /\ receives' = ReceiveLoop
  /\ UNCHANGED <<mainVars, state, link, posted, wire, hostClosed, pastVars>>

\* Mutant: without inboundBuffer = unconsumed.
DeliverKeepsBuffer ==
  /\ decoding.busy /\ decoding.buffer = <<>>
  /\ mainQueue' = mainQueue \o decoding.out
  /\ decoding' = Waiting
  /\ receives' = ReceiveLoop
  /\ UNCHANGED <<connection, handled, state, inboundBuffer, link, posted, wire, hostClosed,
                 pastVars>>

\* Mutant: one receive is all there is.
DeliverOnce ==
  /\ decoding.busy /\ decoding.buffer = <<>>
  /\ mainQueue' = mainQueue \o decoding.out
  /\ decoding' = Waiting /\ inboundBuffer' = <<>>
  /\ UNCHANGED <<connection, handled, state, link, posted, receives, wire, hostClosed, pastVars>>

\* decodeAll is done: the commands are posted, and the next receive.
Deliver ==
  /\ decoding.busy /\ decoding.buffer = <<>>
  /\ mainQueue' = mainQueue \o decoding.out
  /\ decoding' = Waiting /\ inboundBuffer' = <<>>
  /\ receives' = ReceiveLoop
  /\ UNCHANGED <<connection, handled, state, link, posted, wire, hostClosed, pastVars>>

-----------------------------------------------------------------------------
(* Network and Windows *)

BecomesReady(c) ==
  /\ link[c] = "preparing"
  /\ link' = [link EXCEPT ![c] = "open"]
  /\ posted' = Append(posted, <<"ready", c>>)
  /\ UNCHANGED <<mainVars, workVars, receives, wire, hostClosed, pastVars>>

Breaks(c) ==
  /\ link[c] \in {"preparing", "open"}
  /\ link' = [link EXCEPT ![c] = "failed"]
  /\ posted' = Append(posted, <<"failed", c>>)
  /\ UNCHANGED <<mainVars, workVars, receives, wire, hostClosed, pastVars>>

\* Windows sends to a phone it lists: one whose descriptor it has read.
HostSends(c, op) ==
  /\ link[c] = "open" /\ ~hostClosed[c] /\ descriptors[c] > 0
  /\ Len(sent) < MaxSends
  /\ sent' = Append(sent, [conn |-> c, op |-> op])
  /\ wire' = [wire EXCEPT ![c] = @ \o Units(Len(sent'), op)]
  /\ UNCHANGED <<mainVars, workVars, link, posted, receives, hostClosed, descriptors,
                 cancelledBy, whole, swallowed, settled>>

HostCloses(c) ==
  /\ link[c] = "open" /\ ~hostClosed[c]
  /\ hostClosed' = [hostClosed EXCEPT ![c] = TRUE]
  /\ UNCHANGED <<mainVars, workVars, link, posted, receives, wire, pastVars>>

-----------------------------------------------------------------------------
MainStep == (\E c \in Conn : Connect(c)) \/ Disconnect \/ HandleCommand

WorkStep ==
  \/ \E c \in Conn :
       \/ Ready(c) \/ Failed(c) \/ WasCancelled(c) \/ ReceiveEnds(c)
       \/ \E n \in 1 .. Len(wire[c]) : ReceiveData(c, n)
  \/ DecodeNext \/ Deliver

NetStep ==
  \E c \in Conn :
    \/ BecomesReady(c) \/ Breaks(c) \/ HostCloses(c)
    \/ \E op \in Op : HostSends(c, op)

Next == MainStep \/ WorkStep \/ NetStep

Spec == Init /\ [][Next]_vars

\* The two queues run what is on them; nothing makes network or people act.
FairSpec == Spec /\ WF_vars(WorkStep) /\ WF_vars(HandleCommand)
-----------------------------------------------------------------------------
(* Properties *)

Unit == [no : 1 .. MaxSends, part : {"head", "tail"}]

TypeOK ==
  /\ connection \in Conn \union {NoConn}
  /\ mainQueue \in Seq(0 .. MaxSends) /\ handled \in Seq(0 .. MaxSends)
  /\ state \in {"idle", "connecting", "connected", "failed"}
  /\ inboundBuffer \in Seq(Unit)
  /\ decoding \in [busy : BOOLEAN, buffer : Seq(Unit), out : Seq(0 .. MaxSends)]
  /\ link \in [Conn -> {"none", "preparing", "open", "failed", "cancelled"}]
  /\ posted \in Seq({"ready", "failed", "cancelled"} \X Conn)
  /\ receives \in [Conn -> Nat] /\ wire \in [Conn -> Seq(Unit)]
  /\ hostClosed \in [Conn -> BOOLEAN]
  /\ sent \in Seq([conn : Conn, op : Op])
  /\ descriptors \in [Conn -> Nat]
  /\ cancelledBy \in [Conn -> Conn \union {NoConn}]
  /\ {whole, settled} \subseteq BOOLEAN /\ swallowed \subseteq 1 .. MaxSends

(***************************************************************************)
(* Commands are handled in the order Windows sent them, none of them       *)
(* twice, through reconnects, cut reads and dropped buffers; and the types *)
(* are kept.                                                               *)
(***************************************************************************)
InOrder ==
  LET all == handled \o mainQueue \o decoding.out
  IN  TypeOK /\ \A p, q \in DOMAIN all :
        p < q /\ Garbage \notin {all[p], all[q]} => all[p] < all[q]

(***************************************************************************)
(* A connection is disconnected by its user or on its own account, never   *)
(* by a callback of an earlier one, if connect() is only called when       *)
(* nothing of the earlier one is outstanding.                              *)
(***************************************************************************)
OwnFault == settled => \A c \in Conn : cancelledBy[c] \in {NoConn, c}

(***************************************************************************)
(* When no callback is outstanding, the published state is "connected" just *)
(* when there is an open connection, and that connection has had its       *)
(* descriptor exactly once and has one receive waiting.                    *)
(***************************************************************************)
RestingStateIsTrue ==
  settled /\ posted = <<>> /\ ~decoding.busy /\ (\A c \in Conn \ {connection} : receives[c] = 0) =>
    /\ state = "connected" <=> connection # NoConn /\ link[connection] = "open"
    /\ state = "connected" => descriptors[connection] = 1 /\ receives[connection] = 1

(***************************************************************************)
(* Every command sent while the connection lasts is handled, unless it was *)
(* swallowed by an ACTIVATION or a read ended inside a command.            *)
(***************************************************************************)
SentIsHandled ==
  \A i \in 1 .. MaxSends :
    (i \in DOMAIN sent) ~>
      \/ i \in Range(handled) \/ i \in swallowed \/ ~whole \/ ~settled
      \/ i \in DOMAIN sent /\ link[sent[i].conn] # "open"
=============================================================================
