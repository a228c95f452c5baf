-------------------------- MODULE ControlChannelProofs --------------------------
(***************************************************************************)
(* Proofs about ControlChannel, for any number of connects and commands.   *)
(***************************************************************************)
EXTENDS ControlChannel, SequenceTheorems, TLAPS

Kind == {"ready", "failed", "cancelled"}

DecodingType == \E b \in BOOLEAN : \E x, y : decoding = [busy |-> b, buffer |-> x, out |-> y]

ChannelTypes ==
  /\ connection \in Conn \union {NoConn}
  /\ state \in {"idle", "connecting", "connected", "failed"}
  /\ link \in [Conn -> {"none", "preparing", "open", "failed", "cancelled"}]
  /\ posted \in Seq(Kind \X Conn)
  /\ receives \in [Conn -> Nat] /\ descriptors \in [Conn -> Nat]
  /\ cancelledBy \in [Conn -> Conn \union {NoConn}]
  /\ settled \in BOOLEAN
  /\ DecodingType

\* A connection that was not made has done nothing; one that is not the channel's
\* is over.
Unmade(c) == link[c] = "none" => receives[c] = 0 /\ descriptors[c] = 0
Over(c)   == c # connection => link[c] \in {"none", "cancelled"}

\* What is outstanding is the channel's own.
Own == connection # NoConn => \A c \in Conn \ {connection} : receives[c] = 0

\* The life of the channel's connection.
Alive ==
  LET c == connection
      new == state = "connecting" /\ receives[c] = 0 /\ descriptors[c] = 0 /\ ~decoding.busy
  IN  c # NoConn =>
        \/ link[c] = "preparing" /\ posted = <<>> /\ new
        \/ link[c] = "open" /\ posted = <<<<"ready", c>>>> /\ new
        \/ /\ link[c] = "open" /\ posted = <<>>
           /\ state = "connected" /\ descriptors[c] = 1
           /\ receives[c] = IF decoding.busy THEN 0 ELSE 1
        \/ /\ link[c] = "failed"
           /\ \/ posted = <<<<"failed", c>>>>
              \/ posted = <<<<"ready", c>>, <<"failed", c>>>>

\* Without one, the last callback to come says so.
Ended ==
  connection = NoConn =>
    IF posted = <<>> THEN state # "connected" ELSE posted[Len(posted)][1] = "cancelled"

Settled ==
  /\ \A c \in Conn : Unmade(c) /\ Over(c)
  /\ Own /\ Alive /\ Ended

ChannelInv ==
  ChannelTypes /\ (settled => Settled) /\ OwnFault

LEMMA NoConnIsNone == NoConn \notin Conn
BY DEF NoConn, Conn

(***************************************************************************)
(* The last element of a sequence, and what appending and Tail do to it.   *)
(***************************************************************************)
LEMMA LastOfTail ==
  ASSUME NEW S, NEW s \in Seq(S), s # <<>>
  PROVE  /\ Tail(s) \in Seq(S) /\ Head(s) = s[1] /\ s[1] \in S
         /\ Tail(s) # <<>> => Tail(s)[Len(Tail(s))] = s[Len(s)]
         /\ Tail(s) = <<>> => s[Len(s)] = s[1]
<1>1. /\ Len(s) \in Nat \ {0}
      /\ Tail(s) \in Seq(S) /\ Len(Tail(s)) = Len(s) - 1
      /\ \A i \in 1 .. Len(s) - 1 : Tail(s)[i] = s[i + 1]
  BY HeadTailProperties, EmptySeq
<1>2. Head(s) = s[1] /\ s[1] \in S
  BY <1>1
<1>3. ASSUME Tail(s) # <<>> PROVE Tail(s)[Len(Tail(s))] = s[Len(s)]
  <2>1. Len(Tail(s)) \in 1 .. Len(s) - 1
    BY <1>1, <1>3, EmptySeq
  <2>2. Tail(s)[Len(s) - 1] = s[(Len(s) - 1) + 1]
    BY <1>1, <2>1
  <2>3. (Len(s) - 1) + 1 = Len(s)
    BY <1>1
  <2> QED BY <1>1, <2>2, <2>3
<1>4. Tail(s) = <<>> => Len(s) = 1
  BY <1>1, EmptySeq
<1> QED BY <1>1, <1>2, <1>3, <1>4

LEMMA LastOfAppend ==
  ASSUME NEW S, NEW s \in Seq(S), NEW e \in S
  PROVE  /\ s \o <<e>> \in Seq(S) /\ s \o <<e>> # <<>> /\ (s \o <<e>>)[Len(s \o <<e>>)] = e
         /\ Append(s, e) \in Seq(S)
<1>1. s \o <<e>> = Append(s, e)
  OBVIOUS
<1>2. Append(s, e) \in Seq(S) /\ Len(Append(s, e)) = Len(s) + 1 /\ Append(s, e)[Len(s) + 1] = e
  OBVIOUS
<1> QED BY <1>1, <1>2

LEMMA AppendToOne == \A a, b : Append(<<a>>, b) = <<a, b>>
<1> SUFFICES ASSUME NEW a, NEW b PROVE Append(<<a>>, b) = <<a, b>>
  OBVIOUS
<1>1. <<a>> \in Seq({a, b}) /\ <<a, b>> \in Seq({a, b}) /\ b \in {a, b}
  OBVIOUS
<1>2. /\ Append(<<a>>, b) \in Seq({a, b}) /\ Len(Append(<<a>>, b)) = 2
      /\ Append(<<a>>, b)[1] = a /\ Append(<<a>>, b)[2] = b
  BY <1>1, AppendProperties
<1>3. Len(<<a, b>>) = 2 /\ <<a, b>>[1] = a /\ <<a, b>>[2] = b
  OBVIOUS
<1>4. \A i \in 1 .. Len(Append(<<a>>, b)) : Append(<<a>>, b)[i] = <<a, b>>[i]
  <2>1. \A i \in 1 .. 2 : i = 1 \/ i = 2
    OBVIOUS
  <2> QED BY <1>2, <1>3, <2>1
<1>5. Len(Append(<<a>>, b)) = Len(<<a, b>>)
  BY <1>2, <1>3
<1> QED BY <1>1, <1>2, <1>4, <1>5, SeqEqual, Zenon

LEMMA ChannelInitially == Init => ChannelInv
<1> SUFFICES ASSUME Init PROVE ChannelInv
  OBVIOUS
<1>1. DecodingType /\ ~decoding.busy
  BY DEF Init, Waiting, DecodingType
<1>2. ChannelTypes
  BY <1>1 DEF Init, ChannelTypes
<1>3. Settled
  BY NoConnIsNone DEF Init, Settled, Unmade, Over, Own, Alive, Ended
<1>4. OwnFault
  BY DEF Init, OwnFault
<1> QED BY <1>2, <1>3, <1>4 DEF ChannelInv

(***************************************************************************)
(* What disconnect() and the callbacks that call it do.                    *)
(***************************************************************************)
Leaves(who, rest) ==
  /\ connection' = NoConn /\ link' = Cancelled
  /\ posted' = rest \o CancelPosts
  /\ cancelledBy' = Blame(who)
  /\ UNCHANGED <<descriptors, decoding, settled>>

LEMMA CancelPostsType ==
  ASSUME ChannelTypes, NEW rest \in Seq(Kind \X Conn)
  PROVE  /\ rest \o CancelPosts \in Seq(Kind \X Conn)
         /\ connection = NoConn => rest \o CancelPosts = rest
         /\ connection # NoConn =>
              LET all == rest \o CancelPosts IN all # <<>> /\ all[Len(all)][1] = "cancelled"
<1>1. CASE connection = NoConn
  BY <1>1 DEF CancelPosts
<1>2. CASE connection # NoConn
  <2>1. <<"cancelled", connection>> \in Kind \X Conn
    BY <1>2 DEF ChannelTypes, Kind
  <2>2. CancelPosts = <<<<"cancelled", connection>>>>
    BY <1>2 DEF CancelPosts
  <2> QED BY <1>2, <2>1, <2>2, LastOfAppend
<1> QED BY <1>1, <1>2

LEMMA LeavingKeepsIt ==
  ASSUME ChannelInv, NEW who \in Conn \union {NoConn}, NEW rest, Leaves(who, rest),
         rest = posted \/ (posted # <<>> /\ rest = Tail(posted)),
         receives' = receives \/ \E c \in Conn : receives[c] > 0 /\ receives' = [receives EXCEPT ![c] = @ - 1],
         state' \in {"idle", "connecting", "connected", "failed"},
         state' # "connected" \/ connection # NoConn,
         settled /\ connection # NoConn => who \in {NoConn, connection}
  PROVE  ChannelInv'
<1>1. /\ rest \in Seq(Kind \X Conn)
      /\ rest # <<>> => posted # <<>> /\ rest[Len(rest)] = posted[Len(posted)]
  <2>1. posted \in Seq(Kind \X Conn)
    BY DEF ChannelInv, ChannelTypes
  <2>2. CASE rest = posted
    BY <2>1, <2>2
  <2>3. CASE posted # <<>> /\ rest = Tail(posted)
    BY <2>1, <2>3, LastOfTail
  <2> QED BY <2>2, <2>3
<1>2. receives' \in [Conn -> Nat] /\ \A c \in Conn : receives[c] = 0 => receives'[c] = 0
  <2>1. receives \in [Conn -> Nat]
    BY DEF ChannelInv, ChannelTypes
  <2>2. ASSUME NEW c \in Conn, receives[c] > 0, receives' = [receives EXCEPT ![c] = @ - 1]
        PROVE  receives' \in [Conn -> Nat] /\ \A d \in Conn : receives[d] = 0 => receives'[d] = 0
    BY <2>1, <2>2
  <2> QED BY <2>1, <2>2
<1>3. posted' \in Seq(Kind \X Conn) /\ DecodingType'
  BY <1>1, CancelPostsType DEF Leaves, ChannelInv, ChannelTypes, DecodingType
<1>4. ChannelTypes'
  BY <1>2, <1>3 DEF Leaves, Cancelled, Blame, ChannelInv, ChannelTypes
<1>5. ASSUME settled PROVE Settled'
  <2>1. \A c \in Conn : Unmade(c)' /\ Over(c)'
    BY <1>2, <1>5 DEF Leaves, Cancelled, ChannelInv, ChannelTypes, Settled, Unmade, Over
  <2>2. Ended'
    <3>1. CASE connection = NoConn
      BY <1>1, <1>5, <3>1, CancelPostsType DEF Leaves, ChannelInv, Settled, Ended
    <3>2. CASE connection # NoConn
      BY <1>1, <3>2, CancelPostsType DEF Leaves, ChannelInv, Ended
    <3> QED BY <3>1, <3>2
  <2> QED BY <2>1, <2>2 DEF Leaves, Settled, Own, Alive
<1>6. OwnFault'
  BY DEF Leaves, Blame, ChannelInv, ChannelTypes, OwnFault
<1> QED BY <1>4, <1>5, <1>6 DEF ChannelInv, Leaves

LEMMA DisconnectKeepsIt ==
  ASSUME ChannelInv, Disconnect \/ \E c \in Conn : Failed(c) \/ ReceiveEnds(c)
  PROVE  ChannelInv'
<1>1. CASE Disconnect
  <2>1. Leaves(NoConn, posted) /\ receives' = receives /\ state' = state /\ connection # NoConn
    BY <1>1 DEF Disconnect, Leaves
  <2> QED BY <2>1, LeavingKeepsIt DEF ChannelInv, ChannelTypes
<1>2. ASSUME NEW c \in Conn, Failed(c) PROVE ChannelInv'
  <2>1. /\ Leaves(c, Tail(posted)) /\ receives' = receives /\ state' = "failed"
        /\ posted # <<>> /\ Head(posted) = <<"failed", c>>
    BY <1>2 DEF Failed, NextCallback, Leaves
  <2>2. settled /\ connection # NoConn => c = connection
    BY <2>1 DEF ChannelInv, Settled, Alive
  <2> QED BY <2>1, <2>2, LeavingKeepsIt
<1>3. ASSUME NEW c \in Conn, ReceiveEnds(c) PROVE ChannelInv'
  <2>1. /\ Leaves(c, posted) /\ state' \in {"idle", "failed"}
        /\ receives[c] > 0 /\ receives' = [receives EXCEPT ![c] = @ - 1]
    BY <1>3 DEF ReceiveEnds, Leaves
  <2>2. settled /\ connection # NoConn => c = connection
    BY <2>1 DEF ChannelInv, Settled, Own
  <2> QED BY <2>1, <2>2, LeavingKeepsIt
<1> QED BY <1>1, <1>2, <1>3

LEMMA ConnectKeepsIt ==
  ASSUME ChannelInv, NEW c \in Conn, Connect(c)
  PROVE  ChannelInv'
<1>1. c # NoConn
  BY NoConnIsNone
<1>2. posted' \in Seq(Kind \X Conn) /\ DecodingType'
  BY CancelPostsType DEF Connect, ChannelInv, ChannelTypes, DecodingType
<1>3. ChannelTypes'
  BY <1>2 DEF Connect, Cancelled, Blame, AtRest, ChannelInv, ChannelTypes
<1>4. ASSUME settled' PROVE Settled'
  <2>1. /\ settled /\ connection = NoConn /\ posted = <<>> /\ ~decoding.busy
        /\ \A d \in Conn : receives[d] = 0
    BY <1>4 DEF Connect, AtRest
  <2>2. link' = [link EXCEPT ![c] = "preparing"] /\ posted' = posted /\ link[c] = "none"
    BY <2>1, CancelPostsType DEF Connect, Cancelled, ChannelInv, ChannelTypes
  <2>3. descriptors[c] = 0
    BY <2>1, <2>2 DEF ChannelInv, Settled, Unmade
  <2>4. \A d \in Conn : Unmade(d)' /\ Over(d)'
    BY <1>1, <2>1, <2>2, NoConnIsNone DEF Connect, ChannelInv, ChannelTypes, Settled, Unmade, Over
  <2>5. Alive' /\ Own' /\ Ended'
    BY <1>1, <2>1, <2>2, <2>3 DEF Connect, ChannelInv, ChannelTypes, Alive, Own, Ended
  <2> QED BY <2>4, <2>5 DEF Settled
<1>5. OwnFault'
  BY DEF Connect, Blame, AtRest, ChannelInv, ChannelTypes, OwnFault
<1> QED BY <1>3, <1>4, <1>5 DEF ChannelInv

LEMMA ReadyKeepsIt ==
  ASSUME ChannelInv, NEW c \in Conn, Ready(c) \/ WasCancelled(c)
  PROVE  ChannelInv'
<1>1. /\ posted # <<>> /\ posted \in Seq(Kind \X Conn) /\ posted' = Tail(posted)
      /\ UNCHANGED <<connection, link, decoding, cancelledBy, settled>> /\ ~decoding.busy
  BY DEF Ready, WasCancelled, NextCallback, ChannelInv, ChannelTypes, pastVars, mainVars
<1>2. /\ posted' \in Seq(Kind \X Conn)
      /\ posted' # <<>> => posted'[Len(posted')] = posted[Len(posted)]
      /\ posted' = <<>> => posted[Len(posted)] = Head(posted)
  BY <1>1, LastOfTail
<1>3. /\ ChannelTypes'
      /\ \A d \in Conn \ {connection} : receives'[d] = receives[d] /\ descriptors'[d] = descriptors[d]
  <2>1. /\ state' \in {"idle", "connected"}
        /\ receives' = receives \/ receives' = ReceiveLoop
        /\ \/ descriptors' = descriptors
           \/ connection # NoConn /\ descriptors' = [descriptors EXCEPT ![connection] = @ + 1]
    BY DEF Ready, WasCancelled, pastVars
  <2>2. /\ connection \in Conn \union {NoConn}
        /\ receives \in [Conn -> Nat] /\ descriptors \in [Conn -> Nat]
    BY DEF ChannelInv, ChannelTypes
  <2>3. /\ receives' \in [Conn -> Nat]
        /\ \A d \in Conn \ {connection} : receives'[d] = receives[d]
    BY <2>1, <2>2 DEF ReceiveLoop
  <2>4. /\ descriptors' \in [Conn -> Nat]
        /\ \A d \in Conn \ {connection} : descriptors'[d] = descriptors[d]
    BY <2>1, <2>2
  <2>5. DecodingType'
    BY <1>1 DEF ChannelInv, ChannelTypes, DecodingType
  <2> QED BY <1>1, <1>2, <2>1, <2>3, <2>4, <2>5 DEF ChannelInv, ChannelTypes
<1>4. ASSUME settled, connection # NoConn PROVE Settled'
  <2>1. Alive
    BY <1>4 DEF ChannelInv, Settled
  <2>2. Ready(c)
    BY <1>1, <1>4, <2>1 DEF Alive, WasCancelled, NextCallback
  <2>3. connection \in Conn /\ link[connection] # "none"
    BY <1>1, <1>4, <2>1 DEF Alive, ChannelInv, ChannelTypes
  <2>4. CASE link[connection] = "open"
    <3>1. /\ posted = <<<<"ready", connection>>>> /\ receives[connection] = 0
          /\ descriptors[connection] = 0
      BY <1>1, <1>4, <2>1, <2>4 DEF Alive
    <3>2. posted' = <<>>
      BY <1>1, <3>1
    <3>3. state' = "connected" /\ receives'[connection] = 1 /\ descriptors'[connection] = 1
      BY <1>4, <2>2, <2>3, <3>1 DEF Ready, ReceiveLoop, ChannelInv, ChannelTypes
    <3> QED BY <1>1, <1>3, <1>4, <2>3, <2>4, <3>2, <3>3
            DEF ChannelInv, Settled, Unmade, Over, Own, Alive, Ended
  <2>5. CASE link[connection] = "failed"
    <3>1. posted = <<<<"ready", connection>>, <<"failed", connection>>>>
      BY <1>4, <2>1, <2>2, <2>5 DEF Alive, Ready, NextCallback
    <3>2. posted' = <<<<"failed", connection>>>>
      BY <1>1, <3>1
    <3> QED BY <1>1, <1>3, <1>4, <2>3, <2>5, <3>2
            DEF ChannelInv, Settled, Unmade, Over, Own, Alive, Ended
  <2> QED BY <1>1, <1>4, <2>1, <2>4, <2>5 DEF Alive
<1>5. ASSUME settled, connection = NoConn PROVE Settled'
  <2>1. posted[Len(posted)][1] = "cancelled"
    BY <1>1, <1>5 DEF ChannelInv, Settled, Ended
  <2>2. posted' = <<>> => state' = "idle"
    BY <1>2, <2>1 DEF Ready, WasCancelled, NextCallback
  <2>3. \A d \in Conn : Unmade(d)' /\ Over(d)'
    BY <1>1, <1>3, <1>5, NoConnIsNone DEF ChannelInv, Settled, Unmade, Over
  <2> QED BY <1>1, <1>2, <1>5, <2>1, <2>2, <2>3 DEF Settled, Own, Alive, Ended
<1>6. OwnFault'
  BY <1>1 DEF ChannelInv, OwnFault
<1> QED BY <1>1, <1>3, <1>4, <1>5, <1>6 DEF ChannelInv

(***************************************************************************)
(* What the decoder's rounds leave of the record it keeps.                 *)
(***************************************************************************)
LEMMA WaitingType == decoding' = Waiting => DecodingType' /\ ~decoding'.busy
<1> SUFFICES ASSUME decoding' = [busy |-> FALSE, buffer |-> <<>>, out |-> <<>>]
             PROVE  DecodingType' /\ ~decoding'.busy
  BY DEF Waiting
<1>1. ~decoding'.busy
  OBVIOUS
<1>2. \E b \in BOOLEAN : \E x, y : decoding' = [busy |-> b, buffer |-> x, out |-> y]
  BY Zenon
<1> QED BY <1>1, <1>2 DEF DecodingType

LEMMA RoundType ==
  ASSUME ChannelInv, DecodeNext
  PROVE  /\ decoding.busy /\ DecodingType'
         /\ \/ receives' = receives /\ decoding'.busy
            \/ receives' = ReceiveLoop /\ ~decoding'.busy
<1>1. PICK one \in DecodeOne(decoding.buffer) :
        IF one.consumed > 0
          THEN /\ decoding' = [decoding EXCEPT
                                 !.buffer = SubSeq(@, one.consumed + 1, Len(@)),
                                 !.out = Append(@, one.cmd)]
               /\ receives' = receives
          ELSE decoding' = Waiting /\ receives' = ReceiveLoop
  BY DEF DecodeNext
<1>2. decoding.busy
  BY DEF DecodeNext
<1>3. CASE one.consumed > 0
  <2>1. PICK b \in BOOLEAN : \E x, y : decoding = [busy |-> b, buffer |-> x, out |-> y]
    BY DEF ChannelInv, ChannelTypes, DecodingType
  <2>2. PICK x, y : decoding = [busy |-> b, buffer |-> x, out |-> y]
    BY <2>1
  <2>3. /\ receives' = receives
        /\ \E x2, y2 : decoding' = [decoding EXCEPT !.buffer = x2, !.out = y2]
    BY <1>1, <1>3
  <2>4. PICK x2, y2 : decoding' = [decoding EXCEPT !.buffer = x2, !.out = y2]
    BY <2>3
  <2>5. decoding' = [busy |-> b, buffer |-> x2, out |-> y2]
    BY <2>4, <2>2
  <2>6. b = decoding.busy
    BY <2>2
  <2> QED BY <1>2, <2>3, <2>5, <2>6 DEF DecodingType
<1>4. CASE ~(one.consumed > 0)
  BY <1>1, <1>2, <1>4, WaitingType
<1> QED BY <1>3, <1>4

LEMMA ReadingKeepsIt ==
  ASSUME ChannelInv,
         DecodeNext \/ Deliver \/ \E c \in Conn : \E n \in 1 .. Len(wire[c]) : ReceiveData(c, n)
  PROVE  ChannelInv'
<1>1. UNCHANGED <<connection, state, link, posted, descriptors, cancelledBy, settled>>
  BY DEF DecodeNext, Deliver, ReceiveData, pastVars, mainVars
<1>2. CASE DecodeNext \/ Deliver
  <2>1. /\ decoding.busy /\ DecodingType'
        /\ \/ receives' = receives /\ decoding'.busy
           \/ receives' = ReceiveLoop /\ ~decoding'.busy
    BY <1>2, RoundType, WaitingType DEF Deliver
  <2>2. receives' \in [Conn -> Nat]
    BY <2>1 DEF ReceiveLoop, ChannelInv, ChannelTypes
  <2>3. /\ \A d \in Conn \ {connection} : receives'[d] = receives[d]
        /\ connection # NoConn /\ ~decoding'.busy => receives'[connection] = receives[connection] + 1
        /\ decoding'.busy => receives' = receives
    BY <2>1 DEF ReceiveLoop, ChannelInv, ChannelTypes
  <2>4. ASSUME settled, connection # NoConn PROVE Settled'
    <3>1. link[connection] # "none"
      BY <2>4 DEF ChannelInv, Settled, Alive
    <3>2. Alive'
      BY <1>1, <2>1, <2>3, <2>4 DEF ChannelInv, Settled, Alive
    <3> QED BY <1>1, <2>3, <2>4, <3>1, <3>2 DEF ChannelInv, Settled, Unmade, Over, Own, Ended
  <2>5. ASSUME settled, connection = NoConn PROVE Settled'
    BY <1>1, <2>3, <2>5, NoConnIsNone DEF ChannelInv, Settled, Unmade, Over, Own, Alive, Ended
  <2> QED BY <1>1, <2>1, <2>2, <2>4, <2>5 DEF ChannelInv, ChannelTypes, OwnFault
<1>3. ASSUME NEW c \in Conn, NEW n \in 1 .. Len(wire[c]), ReceiveData(c, n) PROVE ChannelInv'
  <2>1. /\ ~decoding.busy /\ link[c] = "open" /\ receives[c] > 0
        /\ receives' = [receives EXCEPT ![c] = @ - 1]
        /\ decoding' = [busy |-> TRUE, buffer |-> inboundBuffer \o SubSeq(wire[c], 1, n), out |-> <<>>]
    BY <1>3 DEF ReceiveData
  <2>2. DecodingType' /\ decoding'.busy
    BY <2>1 DEF DecodingType
  <2>3. receives \in [Conn -> Nat]
    BY DEF ChannelInv, ChannelTypes
  <2>4. /\ receives' \in [Conn -> Nat] /\ receives'[c] = receives[c] - 1
        /\ \A d \in Conn \ {c} : receives'[d] = receives[d]
    BY <2>1, <2>3
  <2>5. ASSUME settled PROVE c = connection
    BY <2>1, <2>5 DEF ChannelInv, Settled, Over
  <2>6. ASSUME settled PROVE Settled'
    <3>1. /\ c = connection /\ c # NoConn /\ posted = <<>> /\ state = "connected"
          /\ descriptors[c] = 1 /\ receives[c] = 1
      BY <2>1, <2>5, <2>6, NoConnIsNone DEF ChannelInv, Settled, Alive
    <3> QED BY <1>1, <2>1, <2>4, <2>6, <2>2, <3>1 DEF ChannelInv, Settled, Unmade, Over, Own, Alive, Ended
  <2> QED BY <1>1, <2>4, <2>6, <2>2 DEF ChannelInv, ChannelTypes, OwnFault
<1> QED BY <1>2, <1>3

LEMMA LinkKeepsIt ==
  ASSUME ChannelInv, NEW c \in Conn, BecomesReady(c) \/ Breaks(c)
  PROVE  ChannelInv'
<1>1. PICK k \in {"ready", "failed"} :
        /\ link' = [link EXCEPT ![c] = IF k = "ready" THEN "open" ELSE "failed"]
        /\ posted' = Append(posted, <<k, c>>)
        /\ k = "ready" => link[c] = "preparing"
  BY DEF BecomesReady, Breaks
<1>2. /\ UNCHANGED <<connection, state, receives, descriptors, decoding, cancelledBy, settled>>
      /\ link[c] \in {"preparing", "open"} /\ c # NoConn
  BY NoConnIsNone DEF BecomesReady, Breaks, mainVars, workVars, pastVars
<1>3. posted' \in Seq(Kind \X Conn)
  <2>1. <<k, c>> \in Kind \X Conn
    BY DEF Kind
  <2> QED BY <1>1, <2>1, LastOfAppend DEF ChannelInv, ChannelTypes
<1>4. ChannelTypes'
  BY <1>1, <1>2, <1>3 DEF ChannelInv, ChannelTypes, DecodingType
<1>5. ASSUME settled PROVE Settled'
  <2>1. c = connection
    BY <1>2, <1>5 DEF ChannelInv, Settled, Over
  <2>2. \A d \in Conn : Unmade(d)' /\ Over(d)'
    BY <1>1, <1>2, <1>5, <2>1 DEF ChannelInv, ChannelTypes, Settled, Unmade, Over
  <2>3. link'[c] = IF k = "ready" THEN "open" ELSE "failed"
    BY <1>1 DEF ChannelInv, ChannelTypes
  <2>4. posted = <<>> \/ posted = <<<<"ready", c>>>>
    BY <1>2, <1>5, <2>1 DEF ChannelInv, Settled, Alive
  <2>5. posted = <<>> => posted' = <<<<k, c>>>>
    BY <1>1
  <2>6. posted = <<<<"ready", c>>>> => posted' = <<<<"ready", c>>, <<k, c>>>> /\ k = "failed"
    <3>1. ASSUME posted = <<<<"ready", c>>>> PROVE link[c] = "open"
      BY <1>2, <1>5, <2>1, <3>1 DEF ChannelInv, Settled, Alive
    <3>2. ASSUME posted = <<<<"ready", c>>>> PROVE posted' = <<<<"ready", c>>, <<k, c>>>>
      BY <1>1, <3>2, AppendToOne
    <3> QED BY <1>1, <3>1, <3>2
  <2>7. Alive'
    BY <1>1, <1>2, <1>5, <2>1, <2>3, <2>4, <2>5, <2>6 DEF ChannelInv, Settled, Alive
  <2> QED BY <1>2, <1>5, <2>1, <2>2, <2>7 DEF ChannelInv, Settled, Own, Ended
<1> QED BY <1>2, <1>4, <1>5 DEF ChannelInv, OwnFault

LEMMA ChannelKept ==
  ASSUME ChannelInv, [Next]_vars PROVE ChannelInv'
<1>1. ASSUME UNCHANGED <<connection, state, link, posted, receives, descriptors, decoding,
                         cancelledBy, settled>>
      PROVE  ChannelInv'
  BY <1>1 DEF ChannelInv, ChannelTypes, DecodingType, Settled, Unmade, Over, Own, Alive, Ended, OwnFault
<1>2. CASE UNCHANGED vars
  BY <1>1, <1>2 DEF vars, mainVars, workVars, linkVars, pastVars
<1>3. CASE HandleCommand
  BY <1>1, <1>3 DEF HandleCommand, workVars, linkVars, pastVars
<1>4. ASSUME NEW c \in Conn, HostCloses(c) \/ \E op \in Op : HostSends(c, op) PROVE ChannelInv'
  BY <1>1, <1>4 DEF HostCloses, HostSends, mainVars, workVars, pastVars
<1> QED BY <1>2, <1>3, <1>4, ConnectKeepsIt, DisconnectKeepsIt, ReadyKeepsIt, ReadingKeepsIt,
           LinkKeepsIt DEF Next, MainStep, WorkStep, NetStep

(***************************************************************************)
(* OwnFault: for any number of connects and commands, no connection is     *)
(* disconnected by a callback of an earlier one, if connect() waits for    *)
(* what is outstanding.                                                    *)
(***************************************************************************)
THEOREM OwnFaultAlways == Spec => []OwnFault
<1>1. ChannelInv => OwnFault
  BY DEF ChannelInv
<1> QED BY <1>1, ChannelInitially, ChannelKept, PTL DEF Spec

(***************************************************************************)
(* RestingStateIsTrue: a channel at rest tells its state truly, with one   *)
(* descriptor sent and one receive waiting when it is connected.           *)
(***************************************************************************)
THEOREM RestingStateAlwaysTrue == Spec => []RestingStateIsTrue
<1>1. ChannelInv => RestingStateIsTrue
  BY DEF ChannelInv, Settled, Alive, Ended, RestingStateIsTrue
<1> QED BY <1>1, ChannelInitially, ChannelKept, PTL DEF Spec

(***************************************************************************)
(* Order: the numbers of the commands handled, posted and decoded, of the  *)
(* heads in the decoder's buffer and of those on the wire of the open      *)
(* connection rise, in this order.                                         *)
(***************************************************************************)
Done == handled \o mainQueue \o decoding.out

Rises(s) == \A p, q \in 1 .. Len(s) : p < q /\ s[p] # Garbage /\ s[q] # Garbage => s[p] < s[q]

HeadsRise(u) ==
  \A p, q \in 1 .. Len(u) : p < q /\ u[p].part = "head" /\ u[q].part = "head" => u[p].no < u[q].no

\* A command's number is below those of the heads in a buffer; and so are all
\* of those in a sequence of commands or of units.
Before(n, u) == \A q \in 1 .. Len(u) : u[q].part = "head" => n < u[q].no
AllBefore(s, u) == \A p \in 1 .. Len(s) : s[p] # Garbage => Before(s[p], u)
HeadsBefore(v, u) == \A p \in 1 .. Len(v) : v[p].part = "head" => Before(v[p].no, u)

Sent == 1 .. Len(sent)
SentUnit == [no : Sent, part : {"head", "tail"}]
Decoded == 0 .. Len(sent)

StreamTypes ==
  /\ sent \in Seq([conn : Conn, op : Op]) /\ Len(sent) <= MaxSends
  /\ handled \in Seq(Decoded) /\ mainQueue \in Seq(Decoded)
  /\ decoding \in [busy : BOOLEAN, buffer : Seq(SentUnit), out : Seq(Decoded)]
  /\ inboundBuffer \in Seq(SentUnit) /\ wire \in [Conn -> Seq(SentUnit)]
  /\ hostClosed \in [Conn -> BOOLEAN] /\ whole \in BOOLEAN
  /\ swallowed \subseteq 1 .. MaxSends

\* Only the channel's connection has anything on its wire that will be read,
\* and nothing is left in the buffers when a receive returns.
LinkOrder ==
  /\ \A c \in Conn : link[c] \in {"preparing", "open"} => c = connection
  /\ \A c \in Conn : link[c] \in {"none", "preparing"} => wire[c] = <<>>
  /\ ~decoding.busy => inboundBuffer = <<>> /\ decoding.buffer = <<>> /\ decoding.out = <<>>

WireOrder(c) ==
  HeadsRise(wire[c]) /\ AllBefore(Done, wire[c]) /\ HeadsBefore(decoding.buffer, wire[c])

StreamOrder ==
  /\ Rises(Done) /\ HeadsRise(decoding.buffer) /\ AllBefore(Done, decoding.buffer)
  /\ \A c \in Conn : link[c] = "open" => WireOrder(c)

OrderInv == ChannelInv /\ StreamTypes /\ LinkOrder /\ StreamOrder

LEMMA OrderInitially == Init => OrderInv
<1> SUFFICES ASSUME Init PROVE OrderInv
  OBVIOUS
<1>1. sent = <<>> /\ Len(sent) = 0 /\ decoding = [busy |-> FALSE, buffer |-> <<>>, out |-> <<>>]
  BY DEF Init, Waiting
<1>2. StreamTypes
  <2>1. /\ decoding \in [busy : BOOLEAN, buffer : Seq(SentUnit), out : Seq(Decoded)]
        /\ sent \in Seq([conn : Conn, op : Op])
    BY <1>1, EmptySeq
  <2>2. /\ handled \in Seq(Decoded) /\ mainQueue \in Seq(Decoded)
        /\ inboundBuffer \in Seq(SentUnit) /\ wire \in [Conn -> Seq(SentUnit)]
    BY EmptySeq DEF Init
  <2> QED BY <1>1, <2>1, <2>2, BoundsAssumption DEF Init, StreamTypes
<1>3. Done = <<>> /\ decoding.buffer = <<>>
  <2>1. handled = <<>> /\ mainQueue = <<>> /\ decoding.out = <<>> /\ <<>> \in Seq(Nat)
    BY <1>1, EmptySeq DEF Init
  <2>2. <<>> \o <<>> = <<>>
    BY <2>1, ConcatEmptySeq
  <2> QED BY <1>1, <2>1, <2>2 DEF Done
<1>4. LinkOrder
  BY <1>1 DEF Init, LinkOrder
<1>5. StreamOrder
  BY <1>3 DEF Init, StreamOrder, Rises, HeadsRise, AllBefore
<1> QED BY <1>2, <1>4, <1>5, ChannelInitially DEF OrderInv

(***************************************************************************)
(* What is left of a buffer or a wire, and what is taken from it.          *)
(***************************************************************************)
LEMMA PartsOf ==
  ASSUME NEW S, NEW u \in Seq(S), NEW k \in 0 .. Len(u)
  PROVE  /\ SubSeq(u, 1, k) \in Seq(S) /\ SubSeq(u, k + 1, Len(u)) \in Seq(S)
         /\ Len(SubSeq(u, 1, k)) = k /\ Len(SubSeq(u, k + 1, Len(u))) = Len(u) - k
         /\ \A i \in 1 .. k : i \in 1 .. Len(u) /\ SubSeq(u, 1, k)[i] = u[i]
         /\ \A i \in 1 .. Len(u) - k : i + k \in 1 .. Len(u) /\ SubSeq(u, k + 1, Len(u))[i] = u[i + k]
<1>1. /\ Len(u) \in Nat /\ k \in Int /\ k + 1 \in Int /\ Len(u) \in Int /\ 1 \in Int
      /\ \A i \in 1 .. Len(u) : u[i] \in S
  OBVIOUS
<1>2. /\ SubSeq(u, 1, k) \in Seq(S)
      /\ Len(SubSeq(u, 1, k)) = IF 1 <= k THEN k - 1 + 1 ELSE 0
      /\ \A i \in 1 .. k - 1 + 1 : SubSeq(u, 1, k)[i] = u[1 + i - 1]
  <2>1. \A i \in 1 .. k : u[i] \in S
    BY <1>1
  <2> QED BY <1>1, <2>1, SubSeqProperties
<1>3. /\ SubSeq(u, k + 1, Len(u)) \in Seq(S)
      /\ Len(SubSeq(u, k + 1, Len(u))) = IF k + 1 <= Len(u) THEN Len(u) - (k + 1) + 1 ELSE 0
      /\ \A i \in 1 .. Len(u) - (k + 1) + 1 : SubSeq(u, k + 1, Len(u))[i] = u[(k + 1) + i - 1]
  <2>1. \A i \in k + 1 .. Len(u) : u[i] \in S
    BY <1>1
  <2> QED BY <1>1, <2>1, SubSeqProperties
<1>4. \A i \in 1 .. k : i \in 1 .. k - 1 + 1 /\ i \in 1 .. Len(u) /\ 1 + i - 1 = i
  BY <1>1
<1>5. \A i \in 1 .. Len(u) - k :
        i \in 1 .. Len(u) - (k + 1) + 1 /\ i + k \in 1 .. Len(u) /\ (k + 1) + i - 1 = i + k
  BY <1>1
<1> QED BY <1>1, <1>2, <1>3, <1>4, <1>5

LEMMA PartsKeepOrder ==
  ASSUME NEW S, NEW u \in Seq(S), NEW k \in 0 .. Len(u), HeadsRise(u),
         NEW taken, NEW left, taken = SubSeq(u, 1, k), left = SubSeq(u, k + 1, Len(u))
  PROVE  HeadsRise(taken) /\ HeadsRise(left) /\ HeadsBefore(taken, left)
<1>1. /\ Len(taken) = k /\ Len(left) = Len(u) - k
      /\ \A i \in 1 .. k : i \in 1 .. Len(u) /\ taken[i] = u[i]
      /\ \A i \in 1 .. Len(u) - k : i + k \in 1 .. Len(u) /\ left[i] = u[i + k]
      /\ Len(u) \in Nat
  BY PartsOf
<1>2. HeadsRise(taken)
  BY <1>1 DEF HeadsRise
<1>3. HeadsRise(left)
  <2>1. \A p, q \in 1 .. Len(left) : p < q => p + k < q + k
    BY <1>1
  <2> QED BY <1>1, <2>1 DEF HeadsRise
<1>4. HeadsBefore(taken, left)
  <2>1. ASSUME NEW p \in 1 .. Len(taken), NEW q \in 1 .. Len(left),
                taken[p].part = "head", left[q].part = "head"
         PROVE  taken[p].no < left[q].no
    <3>1. /\ p \in 1 .. Len(u) /\ q + k \in 1 .. Len(u) /\ p < q + k
          /\ taken[p] = u[p] /\ left[q] = u[q + k]
      BY <1>1
    <3> QED BY <2>1, <3>1 DEF HeadsRise
  <2> QED BY <2>1 DEF HeadsBefore, Before
<1> QED BY <1>2, <1>3, <1>4

LEMMA PartsAfter ==
  ASSUME NEW S, NEW u \in Seq(S), NEW k \in 0 .. Len(u)
  PROVE  /\ \A n : Before(n, u) => Before(n, SubSeq(u, 1, k)) /\ Before(n, SubSeq(u, k + 1, Len(u)))
         /\ \A v : HeadsBefore(u, v) => HeadsBefore(SubSeq(u, k + 1, Len(u)), v)
<1>1. PICK taken, left : taken = SubSeq(u, 1, k) /\ left = SubSeq(u, k + 1, Len(u))
  OBVIOUS
<1>2. /\ Len(taken) = k /\ Len(left) = Len(u) - k
      /\ \A i \in 1 .. k : i \in 1 .. Len(u) /\ taken[i] = u[i]
      /\ \A i \in 1 .. Len(u) - k : i + k \in 1 .. Len(u) /\ left[i] = u[i + k]
      /\ Len(u) \in Nat
  BY <1>1, PartsOf
<1>3. \A n : Before(n, u) => Before(n, taken) /\ Before(n, left)
  BY <1>2 DEF Before
<1>4. \A v : HeadsBefore(u, v) => HeadsBefore(left, v)
  BY <1>2 DEF HeadsBefore
<1> QED BY <1>1, <1>3, <1>4

LEMMA NothingBefore ==
  ASSUME NEW u
  PROVE  HeadsRise(<<>>) /\ HeadsBefore(<<>>, u) /\ HeadsBefore(u, <<>>) /\ AllBefore(u, <<>>)
BY DEF HeadsRise, HeadsBefore, AllBefore, Before

(***************************************************************************)
(* Connects, disconnects, callbacks and the network: no command moves.     *)
(***************************************************************************)
LEMMA LinksKeepOrder ==
  ASSUME StreamTypes, LinkOrder, StreamOrder,
         UNCHANGED <<sent, handled, mainQueue, decoding, wire, hostClosed, whole, swallowed>>,
         inboundBuffer' \in {inboundBuffer, <<>>},
         \A c \in Conn :
           /\ link'[c] \in {"preparing", "open"} => c = connection'
           /\ link'[c] \in {"none", "preparing"} => link[c] \in {"none", "preparing"}
           /\ link'[c] = "open" => link[c] \in {"preparing", "open"}
  PROVE  StreamTypes' /\ LinkOrder' /\ StreamOrder'
<1>1. StreamTypes'
  BY EmptySeq DEF StreamTypes, Sent, SentUnit, Decoded
<1>2. LinkOrder'
  BY DEF LinkOrder
<1>3. ASSUME NEW c \in Conn, link'[c] = "open" PROVE WireOrder(c)
  <2>1. CASE link[c] = "open"
    BY <2>1 DEF StreamOrder
  <2>2. CASE link[c] = "preparing"
    BY <2>2, NothingBefore DEF LinkOrder, WireOrder
  <2> QED BY <1>3, <2>1, <2>2
<1>4. StreamOrder'
  BY <1>3 DEF StreamOrder, WireOrder, Done, Rises, HeadsRise, HeadsBefore, AllBefore, Before
<1> QED BY <1>1, <1>2, <1>4

LEMMA LinkStepsKeepOrder ==
  ASSUME OrderInv,
         \/ Disconnect
         \/ \E c \in Conn : \/ Connect(c) \/ Ready(c) \/ Failed(c) \/ WasCancelled(c) \/ ReceiveEnds(c)
                            \/ BecomesReady(c) \/ Breaks(c)
  PROVE  StreamTypes' /\ LinkOrder' /\ StreamOrder'
<1>0. /\ connection \in Conn \union {NoConn}
      /\ link \in [Conn -> {"none", "preparing", "open", "failed", "cancelled"}]
      /\ \A c \in Conn : link[c] \in {"preparing", "open"} => c = connection
      /\ StreamTypes /\ LinkOrder /\ StreamOrder
  BY DEF OrderInv, ChannelInv, ChannelTypes, LinkOrder
<1>1. /\ UNCHANGED <<sent, handled, mainQueue, decoding, wire, hostClosed, whole, swallowed>>
      /\ inboundBuffer' \in {inboundBuffer, <<>>}
  BY DEF Disconnect, Connect, Ready, Failed, WasCancelled, ReceiveEnds, BecomesReady, Breaks,
         mainVars, workVars, pastVars
<1> DEFINE Follows ==
      \A c \in Conn :
           /\ link'[c] \in {"preparing", "open"} => c = connection'
           /\ link'[c] \in {"none", "preparing"} => link[c] \in {"none", "preparing"}
           /\ link'[c] = "open" => link[c] \in {"preparing", "open"}
<1>2. ASSUME connection' = NoConn, link' = Cancelled PROVE Follows
  <2>1. ASSUME NEW c \in Conn
        PROVE  /\ link'[c] \notin {"preparing", "open"}
               /\ link'[c] = "none" => link[c] = "none"
    BY <1>0, <1>2, NoConnIsNone DEF Cancelled
  <2> QED BY <2>1
<1>3. ASSUME NEW c \in Conn, Connect(c) PROVE Follows
  <2>1. /\ connection' = c /\ link[c] = "none" /\ Cancelled \in [Conn -> {"none", "preparing", "open", "failed", "cancelled"}]
        /\ link' = [Cancelled EXCEPT ![c] = "preparing"]
    BY <1>0, <1>3 DEF Connect, Cancelled
  <2>2. \A d \in Conn : /\ Cancelled[d] \notin {"preparing", "open"}
                        /\ Cancelled[d] = "none" => link[d] = "none"
    BY <1>0, NoConnIsNone DEF Cancelled
  <2> QED BY <2>1, <2>2
<1>4. ASSUME connection' = connection, link' = link PROVE Follows
  <2>1. ASSUME NEW c \in Conn
        PROVE  /\ link'[c] \in {"preparing", "open"} => c = connection'
               /\ link'[c] \in {"none", "preparing"} => link[c] \in {"none", "preparing"}
               /\ link'[c] = "open" => link[c] \in {"preparing", "open"}
    BY <1>0, <1>4
  <2> QED BY <2>1
<1>5. ASSUME NEW c \in Conn, BecomesReady(c) \/ Breaks(c) PROVE Follows
  <2>1. /\ connection' = connection /\ link[c] \in {"preparing", "open"}
        /\ \/ link' = [link EXCEPT ![c] = "open"]
           \/ link' = [link EXCEPT ![c] = "failed"]
    BY <1>5 DEF BecomesReady, Breaks, mainVars
  <2> QED BY <1>0, <2>1
<1>6. Follows
  <2>1. \/ connection' = NoConn /\ link' = Cancelled
        \/ \E c \in Conn : Connect(c)
        \/ connection' = connection /\ link' = link
        \/ \E c \in Conn : BecomesReady(c) \/ Breaks(c)
    BY DEF Disconnect, Ready, Failed, WasCancelled, ReceiveEnds, mainVars
  <2> HIDE DEF Follows
  <2> QED BY <2>1, <1>2, <1>3, <1>4, <1>5
<1> HIDE DEF Follows
<1> QED BY <1>0, <1>1, <1>6, LinksKeepOrder DEF Follows

(***************************************************************************)
(* One more command, and what is done with those there are.                *)
(***************************************************************************)
LEMMA StreamFacts ==
  ASSUME StreamTypes
  PROVE  /\ Len(sent) \in Nat
         /\ handled \in Seq(Decoded) /\ mainQueue \in Seq(Decoded)
         /\ decoding.busy \in BOOLEAN
         /\ decoding.buffer \in Seq(SentUnit) /\ decoding.out \in Seq(Decoded)
         /\ handled \o mainQueue \in Seq(Decoded) /\ Done \in Seq(Decoded)
<1>1. /\ handled \in Seq(Decoded) /\ mainQueue \in Seq(Decoded)
      /\ decoding.busy \in BOOLEAN
      /\ decoding.buffer \in Seq(SentUnit) /\ decoding.out \in Seq(Decoded)
  BY DEF StreamTypes
<1>2. handled \o mainQueue \in Seq(Decoded)
  BY <1>1, ConcatProperties
<1>3. Done \in Seq(Decoded)
  BY <1>1, <1>2, ConcatProperties DEF Done
<1>4. Len(sent) \in Nat
  BY LenProperties DEF StreamTypes
<1> QED BY <1>1, <1>2, <1>3, <1>4

LEMMA UnitFacts ==
  ASSUME StreamTypes, NEW u \in Seq(SentUnit), NEW i \in 1 .. Len(u)
  PROVE  /\ u[i] \in SentUnit /\ u[i].no \in Sent /\ u[i].no \in Nat /\ u[i].no <= Len(sent)
         /\ u[i].part \in {"head", "tail"}
<1>1. u[i] \in SentUnit
  BY ElementOfSeq
<1>2. u[i].no \in Sent /\ u[i].part \in {"head", "tail"}
  BY <1>1 DEF SentUnit
<1> QED BY <1>1, <1>2, StreamFacts DEF Sent

LEMMA HandlingKeepsOrder ==
  ASSUME OrderInv, HandleCommand
  PROVE  StreamTypes' /\ LinkOrder' /\ StreamOrder'
<1>1. /\ mainQueue # <<>> /\ handled' = Append(handled, Head(mainQueue)) /\ mainQueue' = Tail(mainQueue)
      /\ UNCHANGED <<connection, link, inboundBuffer, decoding, wire, sent, hostClosed, whole, swallowed>>
  BY DEF HandleCommand, workVars, linkVars, pastVars
<1>2. /\ handled \in Seq(Decoded) /\ mainQueue \in Seq(Decoded) /\ decoding.out \in Seq(Decoded)
  BY StreamFacts DEF OrderInv
<1>3. Head(mainQueue) \in Decoded /\ Tail(mainQueue) \in Seq(Decoded)
  BY <1>1, <1>2, HeadTailProperties
<1>4. handled' \in Seq(Decoded) /\ mainQueue' \in Seq(Decoded)
  BY <1>1, <1>2, <1>3, AppendProperties
<1>5. handled' \o mainQueue' = handled \o mainQueue
  <2>1. mainQueue = <<Head(mainQueue)>> \o Tail(mainQueue) /\ <<Head(mainQueue)>> \in Seq(Decoded)
    BY <1>1, <1>2, <1>3
  <2>2. handled' = handled \o <<Head(mainQueue)>>
    BY <1>1, <1>2, <1>3, AppendIsConcat
  <2>3. (handled \o <<Head(mainQueue)>>) \o Tail(mainQueue)
          = handled \o (<<Head(mainQueue)>> \o Tail(mainQueue))
    BY <1>2, <1>3, <2>1, ConcatAssociative
  <2> QED BY <1>1, <2>1, <2>2, <2>3
<1>6. Done' = Done
  BY <1>1, <1>5 DEF Done
<1>7. StreamTypes'
  BY <1>1, <1>4 DEF OrderInv, StreamTypes, Sent, SentUnit, Decoded
<1>8. LinkOrder' /\ StreamOrder'
  BY <1>1, <1>6 DEF OrderInv, LinkOrder, StreamOrder, WireOrder, Rises, HeadsRise, HeadsBefore,
                    AllBefore, Before
<1> QED BY <1>7, <1>8

LEMMA DeliveryKeepsOrder ==
  ASSUME OrderInv, Deliver
  PROVE  StreamTypes' /\ LinkOrder' /\ StreamOrder'
<1>1. /\ decoding.buffer = <<>> /\ mainQueue' = mainQueue \o decoding.out
      /\ decoding' = [busy |-> FALSE, buffer |-> <<>>, out |-> <<>>] /\ inboundBuffer' = <<>>
      /\ UNCHANGED <<connection, link, handled, wire, sent, hostClosed, whole, swallowed>>
  BY DEF Deliver, Waiting, pastVars
<1>2. /\ handled \in Seq(Decoded) /\ mainQueue \in Seq(Decoded) /\ decoding.out \in Seq(Decoded)
      /\ Done \in Seq(Decoded)
  BY StreamFacts DEF OrderInv
<1>3. mainQueue' \in Seq(Decoded)
  BY <1>1, <1>2, ConcatProperties
<1>4. Done' = Done
  <2>1. (handled \o mainQueue) \o decoding.out = handled \o (mainQueue \o decoding.out)
    <3>1. PICK out \in Seq(Decoded) : out = decoding.out
      BY <1>2
    <3>2. (handled \o mainQueue) \o out = handled \o (mainQueue \o out)
      BY <1>2, ConcatAssociative
    <3> QED BY <3>1, <3>2
  <2>2. Done' = (handled \o (mainQueue \o decoding.out)) \o <<>>
    BY <1>1 DEF Done
  <2>3. Done' = Done \o <<>>
    BY <2>1, <2>2 DEF Done
  <2> QED BY <1>2, <2>3, ConcatEmptySeq
<1>5. decoding' \in [busy : BOOLEAN, buffer : Seq(SentUnit), out : Seq(Decoded)]
  BY <1>1, EmptySeq
<1>6. StreamTypes'
  BY <1>1, <1>3, <1>5, EmptySeq DEF OrderInv, StreamTypes, Sent, SentUnit, Decoded
<1>7. decoding'.buffer = <<>> /\ decoding'.out = <<>>
  BY <1>1
<1>8. LinkOrder' /\ StreamOrder'
  BY <1>1, <1>4, <1>7
  DEF OrderInv, LinkOrder, StreamOrder, WireOrder, Rises, HeadsRise, HeadsBefore, AllBefore, Before
<1> QED BY <1>6, <1>8

LEMMA HostKeepsOrder ==
  ASSUME OrderInv, NEW c \in Conn, HostCloses(c) \/ \E op \in Op : HostSends(c, op)
  PROVE  StreamTypes' /\ LinkOrder' /\ StreamOrder'
<1>0. /\ UNCHANGED <<connection, link, inboundBuffer, decoding, mainQueue, handled, whole, swallowed>>
      /\ Done' = Done
  BY DEF HostCloses, HostSends, mainVars, workVars, pastVars, Done
<1>1. CASE HostCloses(c)
  <2>1. /\ UNCHANGED <<wire, sent>> /\ hostClosed' \in [Conn -> BOOLEAN]
    BY <1>1 DEF HostCloses, pastVars, OrderInv, StreamTypes
  <2>2. StreamTypes'
    BY <1>0, <2>1 DEF OrderInv, StreamTypes, Sent, SentUnit, Decoded
  <2>3. LinkOrder' /\ StreamOrder'
    BY <1>0, <2>1 DEF OrderInv, LinkOrder, StreamOrder, WireOrder, Rises, HeadsRise, HeadsBefore,
                      AllBefore, Before
  <2> QED BY <2>2, <2>3
<1>2. ASSUME NEW op \in Op, HostSends(c, op) PROVE StreamTypes' /\ LinkOrder' /\ StreamOrder'
  <2> DEFINE n == Len(sent) + 1
  <2>1. /\ link[c] = "open" /\ Len(sent) < MaxSends
        /\ sent' = Append(sent, [conn |-> c, op |-> op])
        /\ wire' = [wire EXCEPT ![c] = @ \o Units(Len(sent'), op)]
        /\ UNCHANGED hostClosed
    BY <1>2 DEF HostSends
  <2>2. /\ Len(sent) \in Nat /\ Len(sent') = n /\ sent' \in Seq([conn : Conn, op : Op])
        /\ n \in Nat /\ n <= MaxSends
    <3>1. sent \in Seq([conn : Conn, op : Op]) /\ [conn |-> c, op |-> op] \in [conn : Conn, op : Op]
      BY DEF OrderInv, StreamTypes
    <3>2. Len(sent) \in Nat /\ MaxSends \in Nat
      BY <3>1, LenProperties, BoundsAssumption
    <3> QED BY <2>1, <3>1, <3>2, AppendProperties
  <2>3. /\ Sent \subseteq Sent' /\ Decoded \subseteq Decoded' /\ SentUnit \subseteq SentUnit'
        /\ n \in Sent'
    BY <2>2 DEF Sent, Decoded, SentUnit
  <2>4. PICK new \in Seq(SentUnit') : /\ new = Units(n, op) /\ Len(new) \in {1, 2}
                                      /\ \A i \in 1 .. Len(new) : new[i].no = n
                                      /\ \A i \in 2 .. Len(new) : new[i].part = "tail"
    <3>1. HeadOf(n) \in SentUnit' /\ TailOf(n) \in SentUnit' /\ HeadOf(n).no = n
          /\ TailOf(n).no = n /\ TailOf(n).part = "tail"
      BY <2>3 DEF HeadOf, TailOf, SentUnit
    <3> HIDE DEF n
    <3>2. CASE op = "short"
      <4>1. Units(n, op) = <<HeadOf(n)>> /\ <<HeadOf(n)>> \in Seq(SentUnit')
        BY <3>1, <3>2 DEF Units
      <4>2. /\ Len(<<HeadOf(n)>>) \in {1, 2} /\ \A i \in 1 .. Len(<<HeadOf(n)>>) : <<HeadOf(n)>>[i].no = n
            /\ \A i \in 2 .. Len(<<HeadOf(n)>>) : <<HeadOf(n)>>[i].part = "tail"
        BY <3>1
      <4> QED BY <4>1, <4>2
    <3>3. CASE op # "short"
      <4>1. Units(n, op) = <<HeadOf(n), TailOf(n)>> /\ <<HeadOf(n), TailOf(n)>> \in Seq(SentUnit')
        BY <3>1, <3>3 DEF Units
      <4>2. /\ Len(<<HeadOf(n), TailOf(n)>>) \in {1, 2}
            /\ \A i \in 1 .. 2 : <<HeadOf(n), TailOf(n)>>[i].no = n
            /\ \A i \in 2 .. 2 : <<HeadOf(n), TailOf(n)>>[i].part = "tail"
        <5>1. \A i \in 1 .. 2 : i = 1 \/ i = 2
          OBVIOUS
        <5>2. \A i \in 2 .. 2 : i = 2
          OBVIOUS
        <5> QED BY <3>1, <5>1, <5>2
      <4>3. Len(<<HeadOf(n), TailOf(n)>>) = 2
        OBVIOUS
      <4> QED BY <4>1, <4>2, <4>3
    <3> QED BY <3>2, <3>3
  <2> HIDE DEF n
  <2>5. wire[c] \in Seq(SentUnit) /\ wire[c] \in Seq(SentUnit')
    BY <2>3, SeqMonotonic DEF OrderInv, StreamTypes
  <2>6. wire' = [wire EXCEPT ![c] = wire[c] \o new]
    BY <2>1, <2>2, <2>4
  <2>7. /\ wire[c] \o new \in Seq(SentUnit') /\ Len(wire[c]) \in Nat
        /\ Len(wire[c] \o new) = Len(wire[c]) + Len(new)
        /\ \A i \in 1 .. Len(wire[c]) + Len(new) :
             (wire[c] \o new)[i] = IF i <= Len(wire[c]) THEN wire[c][i] ELSE new[i - Len(wire[c])]
    BY <2>4, <2>5, ConcatProperties, LenProperties
  <2>8. StreamTypes'
    <3>1. /\ handled' \in Seq(Decoded') /\ mainQueue' \in Seq(Decoded')
          /\ inboundBuffer' \in Seq(SentUnit')
          /\ decoding.buffer \in Seq(SentUnit') /\ decoding.out \in Seq(Decoded')
      BY <1>0, <2>3, SeqMonotonic, StreamFacts DEF OrderInv, StreamTypes
    <3>2. wire' \in [Conn -> Seq(SentUnit')]
      <4>1. wire \in [Conn -> Seq(SentUnit')]
        BY <2>3, SeqMonotonic DEF OrderInv, StreamTypes
      <4> QED BY <2>6, <2>7, <4>1
    <3>3. decoding' \in [busy : BOOLEAN, buffer : Seq(SentUnit'), out : Seq(Decoded')]
      BY <1>0, <3>1 DEF OrderInv, StreamTypes
    <3> QED BY <1>0, <2>1, <2>2, <3>1, <3>2, <3>3 DEF OrderInv, StreamTypes
  <2>9. LinkOrder'
    BY <1>0, <2>1, <2>6 DEF OrderInv, LinkOrder, StreamTypes
  <2>10. /\ wire'[c] = wire[c] \o new /\ \A d \in Conn \ {c} : wire'[d] = wire[d]
    BY <2>6 DEF OrderInv, StreamTypes
  <2>11. \A i \in 1 .. Len(wire[c]) : wire[c][i].no <= Len(sent)
    BY <2>5, UnitFacts DEF OrderInv
  <2>12. ASSUME NEW m \in Nat, m <= Len(sent), Before(m, wire[c]) PROVE Before(m, wire'[c])
    <3>1. m < n
      BY <2>2, <2>12 DEF n
    <3>2. ASSUME NEW q \in 1 .. Len(wire'[c]), wire'[c][q].part = "head" PROVE m < wire'[c][q].no
      <4>1. CASE q <= Len(wire[c])
        BY <2>7, <2>10, <2>12, <3>2, <4>1 DEF Before
      <4>2. CASE q > Len(wire[c])
        <5>1. q - Len(wire[c]) \in 1 .. Len(new) /\ wire'[c][q] = new[q - Len(wire[c])]
          BY <2>7, <2>10, <3>2, <4>2
        <5> QED BY <2>4, <3>1, <5>1
      <4> QED BY <2>7, <2>10, <3>2, <4>1, <4>2
    <3> QED BY <3>2 DEF Before
  <2>13. HeadsRise(wire[c]) => HeadsRise(wire'[c])
    <3>1. SUFFICES ASSUME HeadsRise(wire[c]), NEW p \in 1 .. Len(wire'[c]), NEW q \in 1 .. Len(wire'[c]),
                          p < q, wire'[c][p].part = "head", wire'[c][q].part = "head"
                   PROVE  wire'[c][p].no < wire'[c][q].no
      BY DEF HeadsRise
    <3>2. p <= Len(wire[c])
      <4>1. ASSUME p > Len(wire[c]) PROVE FALSE
        <5>1. /\ q - Len(wire[c]) \in 2 .. Len(new) /\ q > Len(wire[c])
              /\ q \in 1 .. Len(wire[c]) + Len(new)
          BY <2>4, <2>7, <2>10, <3>1, <4>1
        <5>2. wire'[c][q] = new[q - Len(wire[c])]
          BY <2>7, <2>10, <5>1
        <5> QED BY <2>4, <3>1, <5>1, <5>2
      <4> QED BY <2>7, <2>10, <3>1, <4>1
    <3>3. CASE q <= Len(wire[c])
      BY <2>7, <2>10, <3>1, <3>2, <3>3 DEF HeadsRise
    <3>4. CASE q > Len(wire[c])
      <4>1. wire'[c][q].no = n /\ wire'[c][p].no <= Len(sent)
        BY <2>4, <2>7, <2>10, <2>11, <3>1, <3>2, <3>4
      <4>2. wire'[c][p].no \in Nat
        BY <2>5, <2>7, <2>10, <3>1, <3>2, UnitFacts DEF OrderInv
      <4> QED BY <2>2, <4>1, <4>2 DEF n
    <3> QED BY <2>7, <2>10, <3>1, <3>3, <3>4
  <2>14. \A p \in 1 .. Len(Done) : Done[p] \in Nat /\ Done[p] <= Len(sent)
    BY <2>2, StreamFacts DEF OrderInv, Decoded
  <2>15. \A p \in 1 .. Len(decoding.buffer) :
           decoding.buffer[p].no \in Nat /\ decoding.buffer[p].no <= Len(sent)
    BY StreamFacts, UnitFacts DEF OrderInv
  <2>16. WireOrder(c) => WireOrder(c)'
    BY <1>0, <2>12, <2>13, <2>14, <2>15 DEF WireOrder, AllBefore, HeadsBefore, HeadsRise, Before
  <2>17. \A d \in Conn \ {c} : WireOrder(d) => WireOrder(d)'
    BY <1>0, <2>10 DEF WireOrder, AllBefore, HeadsBefore, HeadsRise, Before
  <2>18. StreamOrder'
    <3>1. Rises(Done)' /\ HeadsRise(decoding.buffer)' /\ AllBefore(Done, decoding.buffer)'
      BY <1>0 DEF OrderInv, StreamOrder, Rises, HeadsRise, AllBefore, Before
    <3> QED BY <1>0, <2>16, <2>17, <3>1 DEF OrderInv, StreamOrder
  <2> QED BY <2>8, <2>9, <2>18
<1> QED BY <1>1, <1>2

\* A receive: units move from the wire to the buffer, which is empty.
LEMMA ReceiveKeepsOrder ==
  ASSUME OrderInv, NEW c \in Conn, NEW n \in 1 .. Len(wire[c]), ReceiveData(c, n)
  PROVE  StreamTypes' /\ LinkOrder' /\ StreamOrder'
<1> DEFINE units == SubSeq(wire[c], 1, n)
           left  == SubSeq(wire[c], n + 1, Len(wire[c]))
<1>1. /\ ~decoding.busy /\ link[c] = "open"
      /\ inboundBuffer' = inboundBuffer \o units
      /\ decoding' = [busy |-> TRUE, buffer |-> inboundBuffer \o units, out |-> <<>>]
      /\ whole' = (whole /\ EndsWhole(units))
      /\ swallowed' = swallowed \union BehindActivation(units)
      /\ wire' = [wire EXCEPT ![c] = left]
      /\ UNCHANGED <<connection, link, handled, mainQueue, sent, hostClosed>>
  BY DEF ReceiveData, mainVars
<1>2. inboundBuffer = <<>> /\ decoding.buffer = <<>> /\ decoding.out = <<>>
  BY <1>1 DEF OrderInv, LinkOrder
<1>3. wire[c] \in Seq(SentUnit) /\ n \in 0 .. Len(wire[c])
  BY LenProperties DEF OrderInv, StreamTypes
<1>4. units \in Seq(SentUnit) /\ left \in Seq(SentUnit)
  BY <1>3, PartsOf
<1>5. WireOrder(c)
  BY <1>1 DEF OrderInv, StreamOrder
<1>6. HeadsRise(units) /\ HeadsRise(left) /\ HeadsBefore(units, left)
  BY <1>3, <1>5, PartsKeepOrder DEF WireOrder
<1>7. \A m : Before(m, wire[c]) => Before(m, units) /\ Before(m, left)
  <2>1. PICK u \in Seq(SentUnit) : u = wire[c]
    BY <1>3
  <2> QED BY <1>3, <2>1, PartsAfter
<1> HIDE DEF units, left
<1>8. decoding' = [busy |-> TRUE, buffer |-> units, out |-> <<>>] /\ inboundBuffer' = units
  BY <1>1, <1>2, <1>4, ConcatEmptySeq
<1>9. decoding'.busy /\ decoding'.buffer = units /\ decoding'.out = <<>>
  BY <1>8
<1>10. Done' = Done
  BY <1>1, <1>2, <1>9 DEF Done
<1>11. wire'[c] = left /\ \A d \in Conn \ {c} : wire'[d] = wire[d]
  BY <1>1 DEF OrderInv, StreamTypes
<1>12. StreamTypes'
  <2>1. BehindActivation(units) \subseteq 1 .. MaxSends
    <3>1. \A i \in DOMAIN units : units[i].no \in 1 .. MaxSends
      <4>1. DOMAIN units = 1 .. Len(units) /\ Len(sent) <= MaxSends /\ MaxSends \in Nat
        BY <1>4, LenProperties, BoundsAssumption DEF OrderInv, StreamTypes
      <4>2. \A i \in DOMAIN units : units[i].no \in Sent
        BY <1>4, <4>1, UnitFacts DEF OrderInv
      <4>3. Len(sent) \in Nat
        BY StreamFacts DEF OrderInv
      <4> QED BY <4>1, <4>2, <4>3 DEF Sent
    <3> QED BY <3>1 DEF BehindActivation
  <2>2. swallowed' \subseteq 1 .. MaxSends
    BY <1>1, <2>1 DEF OrderInv, StreamTypes
  <2>3. whole' \in BOOLEAN
    BY <1>1
  <2>4. decoding' \in [busy : BOOLEAN, buffer : Seq(SentUnit), out : Seq(Decoded)]
    BY <1>4, <1>8, EmptySeq
  <2>5. wire' \in [Conn -> Seq(SentUnit)]
    BY <1>1, <1>4 DEF OrderInv, StreamTypes
  <2> QED BY <1>1, <1>4, <1>8, <2>2, <2>3, <2>4, <2>5
          DEF OrderInv, StreamTypes, Sent, SentUnit, Decoded
<1>13. LinkOrder'
  BY <1>1, <1>9, <1>11 DEF OrderInv, LinkOrder
<1>14. StreamOrder'
  <2>1. Rises(Done) /\ HeadsRise(units) /\ AllBefore(Done, units)
    BY <1>5, <1>6, <1>7 DEF OrderInv, StreamOrder, WireOrder, AllBefore
  <2>2. \A d \in Conn : link[d] = "open" => d = c
    BY <1>1 DEF OrderInv, LinkOrder
  <2>3. HeadsRise(left) /\ AllBefore(Done, left) /\ HeadsBefore(units, left)
    BY <1>5, <1>6, <1>7 DEF WireOrder, AllBefore
  <2>4. WireOrder(c)'
    BY <1>9, <1>10, <1>11, <2>3 DEF WireOrder, AllBefore, HeadsBefore, HeadsRise, Before
  <2>5. Rises(Done)' /\ HeadsRise(decoding.buffer)' /\ AllBefore(Done, decoding.buffer)'
    BY <1>9, <1>10, <2>1 DEF Rises, HeadsRise, AllBefore, Before
  <2> QED BY <1>1, <2>2, <2>4, <2>5 DEF StreamOrder
<1> QED BY <1>12, <1>13, <1>14

(***************************************************************************)
(* A round of the decoder takes something from the front of the buffer,    *)
(* and what it makes of it is the command of the head there, or garbage.   *)
(***************************************************************************)
LEMMA RoundFacts ==
  ASSUME StreamTypes, NEW buffer \in Seq(SentUnit), buffer # <<>>, NEW one \in DecodeOne(buffer)
  PROVE  /\ one.consumed \in 0 .. Len(buffer)
         /\ one.cmd \in Decoded
         /\ one.cmd = Garbage \/ (buffer[1].part = "head" /\ one.cmd = buffer[1].no)
<1>1. PICK u \in SentUnit : u = Head(buffer) /\ u = buffer[1]
  BY EmptySeq, UnitFacts
<1>2. PICK rest \in Nat : rest = Len(buffer) /\ rest # 0
  BY EmptySeq
<1>3. u.no \in Sent /\ u.no # Garbage /\ u.part \in {"head", "tail"}
  BY <1>1 DEF SentUnit, Sent, Garbage
<1>4. Garbage \in Decoded /\ u.no \in Decoded
  BY <1>3, StreamFacts DEF Sent, Decoded, Garbage
<1>5. CASE u.part = "tail"
  <2>1. PICK k \in 0 .. rest : one = [cmd |-> Garbage, consumed |-> k]
    BY <1>1, <1>2, <1>5 DEF DecodeOne
  <2> QED BY <1>2, <1>4, <2>1
<1>6. CASE u.part = "head"
  <2>1. PICK k : /\ one = [cmd |-> u.no, consumed |-> k]
                 /\ k \in {0, 1, rest} \/ (k = 2 /\ rest # 1)
    BY <1>1, <1>2, <1>6 DEF DecodeOne
  <2>2. k \in 0 .. rest
    BY <1>2, <2>1
  <2> QED BY <1>1, <1>2, <1>4, <1>6, <2>1, <2>2
<1> QED BY <1>3, <1>5, <1>6

LEMMA DecodingKeepsOrder ==
  ASSUME OrderInv, DecodeNext
  PROVE  StreamTypes' /\ LinkOrder' /\ StreamOrder'
<1>1. PICK one \in DecodeOne(decoding.buffer) :
        IF one.consumed > 0
          THEN /\ decoding' = [decoding EXCEPT
                                 !.buffer = SubSeq(@, one.consumed + 1, Len(@)),
                                 !.out = Append(@, one.cmd)]
               /\ UNCHANGED <<inboundBuffer, receives>>
          ELSE decoding' = Waiting /\ inboundBuffer' = <<>> /\ receives' = ReceiveLoop
  BY DEF DecodeNext
<1>2. /\ decoding.busy /\ decoding.buffer # <<>>
      /\ UNCHANGED <<connection, link, handled, mainQueue, wire, sent, hostClosed, whole, swallowed>>
  BY DEF DecodeNext, mainVars, pastVars
<1>3. /\ handled \in Seq(Decoded) /\ mainQueue \in Seq(Decoded)
      /\ decoding.buffer \in Seq(SentUnit) /\ decoding.out \in Seq(Decoded)
      /\ handled \o mainQueue \in Seq(Decoded) /\ Done \in Seq(Decoded)
      /\ Len(sent) \in Nat
  BY StreamFacts DEF OrderInv
<1>4. StreamOrder /\ StreamTypes /\ LinkOrder
  BY DEF OrderInv
<1>5. CASE one.consumed > 0
  <2> DEFINE buffer == decoding.buffer
             k == one.consumed
             left == SubSeq(buffer, k + 1, Len(buffer))
  <2>1. /\ k \in 1 .. Len(buffer) /\ one.cmd \in Decoded
        /\ \/ one.cmd = Garbage
           \/ buffer[1].part = "head" /\ one.cmd = buffer[1].no
    BY <1>2, <1>3, <1>4, <1>5, RoundFacts
  <2>2. /\ decoding' = [decoding EXCEPT !.buffer = left, !.out = Append(decoding.out, one.cmd)]
        /\ inboundBuffer' = inboundBuffer
    BY <1>1, <1>5
  <2>3. /\ left \in Seq(SentUnit) /\ Append(decoding.out, one.cmd) \in Seq(Decoded)
        /\ Len(left) = Len(buffer) - k /\ Len(buffer) \in Nat
        /\ \A i \in 1 .. Len(left) : i + k \in 1 .. Len(buffer) /\ left[i] = buffer[i + k]
    <3>1. PICK u \in Seq(SentUnit) : u = buffer
      BY <1>3
    <3>2. k \in 0 .. Len(u) /\ Len(u) \in Nat
      BY <2>1, <3>1, LenProperties
    <3>3. Append(decoding.out, one.cmd) \in Seq(Decoded)
      BY <1>3, <2>1, AppendProperties
    <3> HIDE DEF k, buffer
    <3>4. /\ left \in Seq(SentUnit) /\ Len(left) = Len(u) - k
          /\ \A i \in 1 .. Len(u) - k : i + k \in 1 .. Len(u) /\ left[i] = u[i + k]
      BY <3>1, <3>2, PartsOf
    <3> QED BY <3>1, <3>2, <3>3, <3>4
  <2>4. /\ HeadsRise(left)
        /\ \A m : Before(m, buffer) => Before(m, left)
        /\ \A v : HeadsBefore(buffer, v) => HeadsBefore(left, v)
    <3>1. PICK u \in Seq(SentUnit) : u = buffer
      BY <1>3
    <3>2. PICK n \in 0 .. Len(u) : n = k
      BY <2>1, <3>1
    <3>3. left = SubSeq(u, n + 1, Len(u))
      BY <3>1, <3>2
    <3> HIDE DEF left, k
    <3>4. HeadsRise(left)
      BY <1>4, <3>1, <3>3, PartsKeepOrder DEF StreamOrder
    <3> QED BY <3>1, <3>3, <3>4, PartsAfter
  <2>5. one.cmd # Garbage => Before(one.cmd, left)
    <3>1. \A i \in 1 .. Len(left) : 1 < i + k
      BY <2>1, <2>3
    <3>2. ASSUME one.cmd # Garbage, NEW i \in 1 .. Len(left), left[i].part = "head"
          PROVE  one.cmd < left[i].no
      <4>1. /\ 1 \in 1 .. Len(buffer) /\ i + k \in 1 .. Len(buffer) /\ 1 < i + k
            /\ left[i] = buffer[i + k]
        BY <2>1, <2>3, <3>1
      <4>2. buffer[1].part = "head" /\ buffer[i + k].part = "head"
        BY <2>1, <3>2, <4>1
      <4>3. buffer[1].no < buffer[i + k].no
        BY <1>4, <4>1, <4>2 DEF StreamOrder, HeadsRise
      <4> QED BY <2>1, <3>2, <4>1, <4>3
    <3> QED BY <3>2 DEF Before
  <2>6. one.cmd # Garbage => \A v : HeadsBefore(buffer, v) => Before(one.cmd, v)
    BY <2>1 DEF HeadsBefore
  <2>7. \A p \in 1 .. Len(Done) : Done[p] # Garbage /\ one.cmd # Garbage => Done[p] < one.cmd
    <3>1. 1 \in 1 .. Len(buffer)
      BY <2>1, <2>3
    <3> QED BY <1>4, <2>1, <3>1 DEF StreamOrder, AllBefore, Before
  <2> HIDE DEF left, k
  <2>8. /\ decoding'.buffer = left /\ decoding'.out = Append(decoding.out, one.cmd)
        /\ decoding'.busy = decoding.busy
        /\ decoding' \in [busy : BOOLEAN, buffer : Seq(SentUnit), out : Seq(Decoded)]
    BY <1>4, <2>2, <2>3 DEF StreamTypes
  <2>9. Done' = Append(Done, one.cmd)
    <3>1. PICK out \in Seq(Decoded) : out = decoding.out
      BY <1>3
    <3>2. PICK cmd \in Decoded : cmd = one.cmd
      BY <2>1
    <3>3. PICK front \in Seq(Decoded) : front = handled \o mainQueue
      BY <1>3
    <3>4. <<cmd>> \in Seq(Decoded)
      OBVIOUS
    <3>5. front \o (out \o <<cmd>>) = (front \o out) \o <<cmd>>
      BY <3>4, ConcatAssociative
    <3>6. out \o <<cmd>> = Append(out, cmd)
      BY AppendIsConcat
    <3>7. Append(front \o out, cmd) = (front \o out) \o <<cmd>>
      <4>1. front \o out \in Seq(Decoded)
        BY ConcatProperties
      <4> QED BY <4>1, AppendIsConcat
    <3>8. front \o Append(out, cmd) = Append(front \o out, cmd)
      BY <3>5, <3>6, <3>7
    <3>9. Done = front \o out
      BY <3>1, <3>3 DEF Done
    <3>10. Done' = front \o Append(out, cmd)
      BY <1>2, <2>8, <3>1, <3>2, <3>3 DEF Done
    <3> QED BY <3>2, <3>8, <3>9, <3>10
  <2>10. /\ Len(Done') = Len(Done) + 1 /\ Len(Done) \in Nat
         /\ \A p \in 1 .. Len(Done) : Done'[p] = Done[p]
         /\ Done'[Len(Done) + 1] = one.cmd
    BY <1>3, <2>1, <2>9, AppendProperties
  <2>11. StreamTypes'
    BY <1>2, <1>4, <2>2, <2>8 DEF StreamTypes, Sent, SentUnit, Decoded
  <2>12. LinkOrder'
    BY <1>2, <1>4, <2>8 DEF LinkOrder
  <2>13. Rises(Done')
    BY <1>4, <2>7, <2>10 DEF StreamOrder, Rises
  <2>14. \A v : AllBefore(Done, v) /\ (one.cmd # Garbage => Before(one.cmd, v)) => AllBefore(Done', v)
    <3> SUFFICES ASSUME NEW v, AllBefore(Done, v), one.cmd # Garbage => Before(one.cmd, v),
                        NEW p \in 1 .. Len(Done'), Done'[p] # Garbage
                 PROVE  Before(Done'[p], v)
      BY DEF AllBefore
    <3>1. CASE p <= Len(Done)
      BY <2>10, <3>1 DEF AllBefore
    <3>2. CASE p = Len(Done) + 1
      BY <2>10, <3>2
    <3> QED BY <2>10, <3>1, <3>2
  <2>15. AllBefore(Done', left)
    BY <1>4, <2>4, <2>5, <2>14 DEF StreamOrder, AllBefore
  <2>16. ASSUME NEW c \in Conn, link[c] = "open"
         PROVE  HeadsRise(wire[c]) /\ AllBefore(Done', wire[c]) /\ HeadsBefore(left, wire[c])
    BY <1>4, <2>4, <2>6, <2>14, <2>16 DEF StreamOrder, WireOrder
  <2>17. StreamOrder'
    <3>1. Rises(Done)' /\ HeadsRise(decoding.buffer)' /\ AllBefore(Done, decoding.buffer)'
      BY <2>4, <2>8, <2>13, <2>15 DEF Rises, HeadsRise, AllBefore, Before
    <3>2. ASSUME NEW c \in Conn, link[c] = "open" PROVE WireOrder(c)'
      BY <1>2, <2>8, <2>16, <3>2 DEF WireOrder, HeadsRise, HeadsBefore, AllBefore, Before
    <3> QED BY <1>2, <3>1, <3>2 DEF StreamOrder
  <2> QED BY <2>11, <2>12, <2>17
<1>6. CASE ~(one.consumed > 0)
  <2>1. /\ decoding' = [busy |-> FALSE, buffer |-> <<>>, out |-> <<>>]
        /\ inboundBuffer' = <<>>
    BY <1>1, <1>6 DEF Waiting
  <2>2. /\ decoding'.buffer = <<>> /\ decoding'.out = <<>> /\ ~decoding'.busy
        /\ decoding' \in [busy : BOOLEAN, buffer : Seq(SentUnit), out : Seq(Decoded)]
    BY <2>1, EmptySeq
  <2>3. /\ Len(Done') <= Len(Done) /\ Len(Done) \in Nat /\ Len(Done') \in Nat
        /\ \A p \in 1 .. Len(Done') : Done'[p] = Done[p]
    <3>1. PICK front \in Seq(Decoded) : front = handled \o mainQueue
      BY <1>3
    <3>2. PICK out \in Seq(Decoded) : out = decoding.out
      BY <1>3
    <3>3. Done = front \o out /\ Done' = front \o <<>>
      BY <1>2, <2>2, <3>1, <3>2 DEF Done
    <3>4. Done' = front
      BY <3>3, ConcatEmptySeq
    <3>5. /\ Len(front) \in Nat /\ Len(out) \in Nat /\ Len(Done) = Len(front) + Len(out)
          /\ \A i \in 1 .. Len(front) + Len(out) :
               Done[i] = IF i <= Len(front) THEN front[i] ELSE out[i - Len(front)]
      BY <3>3, ConcatProperties, LenProperties
    <3> QED BY <3>4, <3>5
  <2>4. StreamTypes'
    BY <1>2, <1>4, <2>1, <2>2, EmptySeq DEF StreamTypes, Sent, SentUnit, Decoded
  <2>5. LinkOrder'
    BY <1>2, <1>4, <2>1, <2>2 DEF LinkOrder
  <2>6. Rises(Done')
    BY <1>4, <2>3 DEF StreamOrder, Rises
  <2>7. ASSUME NEW c \in Conn, link[c] = "open" PROVE HeadsRise(wire[c]) /\ AllBefore(Done', wire[c])
    BY <1>4, <2>3, <2>7 DEF StreamOrder, WireOrder, AllBefore
  <2>8. StreamOrder'
    <3>1. Rises(Done)' /\ HeadsRise(decoding.buffer)' /\ AllBefore(Done, decoding.buffer)'
      BY <2>2, <2>6, NothingBefore DEF Rises, HeadsRise, AllBefore, Before
    <3>2. ASSUME NEW c \in Conn, link[c] = "open" PROVE WireOrder(c)'
      BY <1>2, <2>2, <2>7, <3>2, NothingBefore
      DEF WireOrder, HeadsRise, HeadsBefore, AllBefore, Before
    <3> QED BY <1>2, <3>1, <3>2 DEF StreamOrder
  <2> QED BY <2>4, <2>5, <2>8
<1> QED BY <1>5, <1>6

LEMMA OrderKept == OrderInv /\ [Next]_vars => OrderInv'
<1> SUFFICES ASSUME OrderInv, [Next]_vars PROVE StreamTypes' /\ LinkOrder' /\ StreamOrder'
  BY ChannelKept DEF OrderInv
<1>1. CASE UNCHANGED vars
  <2>1. /\ UNCHANGED <<sent, handled, mainQueue, decoding, wire, hostClosed, whole, swallowed>>
        /\ UNCHANGED <<inboundBuffer, link, connection>>
    BY <1>1 DEF vars, mainVars, workVars, linkVars, pastVars
  <2>2. \A c \in Conn :
           /\ link[c] \in {"preparing", "open"} => c = connection
           /\ link[c] \in {"none", "preparing"} => link[c] \in {"none", "preparing"}
           /\ link[c] = "open" => link[c] \in {"preparing", "open"}
    BY DEF OrderInv, LinkOrder
  <2> QED BY <2>1, <2>2, LinksKeepOrder DEF OrderInv
<1>2. CASE HandleCommand
  BY <1>2, HandlingKeepsOrder
<1>3. CASE Deliver
  BY <1>3, DeliveryKeepsOrder
<1>4. CASE DecodeNext
  BY <1>4, DecodingKeepsOrder
<1>5. ASSUME NEW c \in Conn, \E n \in 1 .. Len(wire[c]) : ReceiveData(c, n)
      PROVE  StreamTypes' /\ LinkOrder' /\ StreamOrder'
  BY <1>5, ReceiveKeepsOrder
<1>6. ASSUME NEW c \in Conn, HostCloses(c) \/ \E op \in Op : HostSends(c, op)
      PROVE  StreamTypes' /\ LinkOrder' /\ StreamOrder'
  BY <1>6, HostKeepsOrder
<1>7. CASE \/ Disconnect
           \/ \E c \in Conn : \/ Connect(c) \/ Ready(c) \/ Failed(c) \/ WasCancelled(c) \/ ReceiveEnds(c)
                              \/ BecomesReady(c) \/ Breaks(c)
  BY <1>7, LinkStepsKeepOrder
<1> QED BY <1>1, <1>2, <1>3, <1>4, <1>5, <1>6, <1>7 DEF Next, MainStep, WorkStep, NetStep

\* Commands are handled in the order Windows sent them and none of them twice, for
\* any connects, commands and reads (ControlChannel.swift:47-167,
\* ControlPacketDecoder.swift:12-40).
THEOREM AlwaysInOrder == Spec => []InOrder
<1>1. OrderInv => InOrder
  <2> SUFFICES ASSUME OrderInv PROVE InOrder
    OBVIOUS
  <2>1. TypeOK
    <3>1. /\ Sent \subseteq 1 .. MaxSends /\ Decoded \subseteq 0 .. MaxSends /\ SentUnit \subseteq Unit
      BY BoundsAssumption, StreamFacts DEF OrderInv, StreamTypes, Sent, Decoded, SentUnit, Unit
    <3>2. /\ mainQueue \in Seq(0 .. MaxSends) /\ handled \in Seq(0 .. MaxSends)
          /\ inboundBuffer \in Seq(Unit)
          /\ decoding.buffer \in Seq(Unit) /\ decoding.out \in Seq(0 .. MaxSends)
      BY <3>1, SeqMonotonic, StreamFacts DEF OrderInv, StreamTypes
    <3>3. \A c \in Conn : wire[c] \in Seq(Unit)
      BY <3>1, SeqMonotonic DEF OrderInv, StreamTypes
    <3>4. wire \in [Conn -> Seq(Unit)]
      BY <3>3 DEF OrderInv, StreamTypes
    <3>5. decoding \in [busy : BOOLEAN, buffer : Seq(Unit), out : Seq(0 .. MaxSends)]
      BY <3>2 DEF OrderInv, StreamTypes
    <3> QED BY <3>2, <3>4, <3>5 DEF OrderInv, StreamTypes, ChannelInv, ChannelTypes, Kind, TypeOK
  <2>2. DOMAIN Done = 1 .. Len(Done)
    BY StreamFacts, LenProperties DEF OrderInv
  <2> QED BY <2>1, <2>2 DEF OrderInv, StreamOrder, Rises, Done, InOrder
<1> QED BY <1>1, OrderInitially, OrderKept, PTL DEF Spec
=============================================================================
