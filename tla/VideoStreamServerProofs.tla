------------------------ MODULE VideoStreamServerProofs ------------------------
(***************************************************************************)
(* Proofs about VideoStreamServer, for any clients and any bounds.         *)
(***************************************************************************)
EXTENDS VideoStreamServer, FiniteSetTheorems, WellFoundedInduction, TLAPS

Senders == [step : {"idle", "header", "mark", "put"}, conn : Conn \union {NoConn},
            withHeader : BOOLEAN]

ConnStates == {"none", "dialled", "setup", "ready", "failing", "cancelling", "rejected",
               "gone"}

ServerTypes ==
  /\ conn \in [Conn -> ConnStates]
  /\ clientOpen \in [Conn -> BOOLEAN]
  /\ activeConnection \in Conn \union {NoConn}
  /\ headerSent \in BOOLEAN /\ overtaken \in BOOLEAN
  /\ got \in [Conn -> {"nothing", "ok", "spoilt"}]
  /\ sender \in Senders

\* A connection the server has been handed, and one that can still receive.
Handed(c) == conn[c] \notin {"none", "dialled"}
Receives(c) == conn[c] \in {"setup", "ready"} /\ clientOpen[c]

\* Only a client that was handed over has got anything, and the active one was.
GotInv ==
  /\ \A c \in Conn : got[c] \in {"nothing", "ok"} /\ (~Handed(c) => got[c] = "nothing")
  /\ activeConnection # NoConn => Handed(activeConnection)

\* The next unit to be sent will carry the header.
Unheaded == \/ sender.step = "put" /\ sender.withHeader
            \/ sender.step = "mark"
            \/ sender.step \in {"idle", "header"} /\ ~headerSent

(***************************************************************************)
(* headerSent, or what a send() has read of it, tells what the active      *)
(* client has got, but where the connection is another already: nobody     *)
(* sends there, and the client that has come has got nothing.              *)
(***************************************************************************)
HeaderSentTrue ==
  /\ Changing => sender.step = "idle"
  /\ Changing /\ activeConnection # NoConn => got[activeConnection] = "nothing"
  /\ sender.step # "idle" => sender.conn = activeConnection /\ activeConnection # NoConn
  /\ sender.step = "put" => headerSent
  /\ sender.step = "mark" => sender.withHeader
  /\ activeConnection # NoConn /\ Unheaded => got[activeConnection] = "nothing"
  /\ activeConnection # NoConn /\ ~Unheaded /\ ~Changing =>
       got[activeConnection] = "ok" \/ ~Receives(activeConnection)

HeaderInv == ServerTypes /\ (~overtaken => GotInv /\ HeaderSentTrue)

LEMMA HeaderInvInitially == Init => HeaderInv
<1> SUFFICES ASSUME Init PROVE HeaderInv
  OBVIOUS
<1>1. sender \in Senders /\ sender.step = "idle"
  BY DEF Init, Idle, Senders
<1>2. ServerTypes
  BY <1>1 DEF Init, ServerTypes, ConnStates
<1>3. GotInv /\ HeaderSentTrue
  BY <1>1 DEF Init, GotInv, Handed, HeaderSentTrue, Changing
<1> QED BY <1>2, <1>3 DEF HeaderInv

(***************************************************************************)
(* Steps that leave the active connection, headerSent and send() alone: no *)
(* client starts to receive that the server has been handed before.        *)
(***************************************************************************)
LEMMA QuietKeepsIt ==
  ASSUME HeaderInv, ServerTypes',
         UNCHANGED <<activeConnection, headerSent, overtaken, got, sender>>,
         Changing' <=> Changing,
         \A d \in Conn : /\ Handed(d) => Handed(d)'
                         /\ Handed(d) /\ Receives(d)' => Receives(d)
  PROVE  HeaderInv'
<1>1. SUFFICES ASSUME ~overtaken PROVE GotInv' /\ HeaderSentTrue'
  BY DEF HeaderInv
<1>2. GotInv /\ HeaderSentTrue
  BY <1>1 DEF HeaderInv
<1>3. GotInv'
  BY <1>2 DEF HeaderInv, ServerTypes, GotInv
<1>4. activeConnection # NoConn /\ Receives(activeConnection)' => Receives(activeConnection)
  BY <1>2 DEF HeaderInv, ServerTypes, GotInv
<1>5. (Unheaded' <=> Unheaded) /\ activeConnection' = activeConnection
  BY DEF Unheaded
<1> HIDE DEF Unheaded, Changing
<1>6. HeaderSentTrue'
  BY <1>2, <1>4, <1>5 DEF HeaderSentTrue, Receives
<1> QED BY <1>3, <1>6

LEMMA QuietSteps ==
  ASSUME HeaderInv,
         \/ Start \/ StopBegin \/ StopListener \/ UNCHANGED vars
         \/ \E g \in 1 .. MaxStarts : ListenerReady(g) \/ ListenerFails(g)
         \/ \E c \in Conn : \/ RejectIncoming(c) \/ ConnectionReady(c) \/ SendCompletes(c)
                            \/ Dial(c) \/ Close(c) \/ LinkLost(c)
  PROVE  HeaderInv'
<1> USE DEF HeaderInv, ServerTypes
<1>1. CASE \/ Start \/ StopListener \/ UNCHANGED vars \/ \E c \in Conn : SendCompletes(c)
           \/ \E g \in 1 .. MaxStarts : ListenerReady(g) \/ ListenerFails(g)
  <2>1. /\ UNCHANGED <<conn, clientOpen, activeConnection, headerSent, overtaken, got, sender>>
        /\ Changing' <=> Changing
    BY <1>1
    DEF Start, StopListener, SendCompletes, ListenerReady, ListenerFails, vars, serverVars,
        sendVars, linkVars, Changing
  <2>2. ServerTypes'
    BY <2>1
  <2> QED BY <2>1, <2>2, QuietKeepsIt DEF Handed, Receives
<1>2. CASE StopBegin
  <2>1. /\ UNCHANGED <<clientOpen, activeConnection, headerSent, overtaken, got, sender>>
        /\ Changing' <=> Changing
        /\ \/ conn' = conn
           \/ conn' = [conn EXCEPT ![activeConnection] = "cancelling"]
        /\ activeConnection = NoConn => conn' = conn
    BY <1>2 DEF StopBegin, sendVars, Changing
  <2>2. ServerTypes'
    BY <2>1 DEF ConnStates
  <2>3. \A d \in Conn : /\ Handed(d) => Handed(d)'
                        /\ Handed(d) /\ Receives(d)' => Receives(d)
    BY <2>1 DEF Handed, Receives
  <2> QED BY <2>1, <2>2, <2>3, QuietKeepsIt
<1>3. ASSUME NEW c \in Conn,
             RejectIncoming(c) \/ ConnectionReady(c) \/ Dial(c) \/ Close(c) \/ LinkLost(c)
      PROVE  HeaderInv'
  <2>1. UNCHANGED <<activeConnection, headerSent, overtaken, got, sender>>
        /\ (Changing' <=> Changing)
    BY <1>3 DEF RejectIncoming, ConnectionReady, Dial, Close, LinkLost, serverVars, sendVars,
                Changing
  <2>2. /\ clientOpen' \in [Conn -> BOOLEAN]
        /\ \/ conn' = conn
           \/ \E k \in {"rejected", "ready", "dialled", "failing"} :
                conn' = [conn EXCEPT ![c] = k]
    BY <1>3 DEF RejectIncoming, ConnectionReady, Dial, Close, LinkLost, linkVars
  <2>3. ServerTypes'
    BY <2>1, <2>2 DEF ConnStates
  <2>4. \A d \in Conn : /\ Handed(d) => Handed(d)'
                        /\ Handed(d) /\ Receives(d)' => Receives(d)
    BY <1>3 DEF RejectIncoming, ConnectionReady, Dial, Close, LinkLost, Handed, Receives
  <2> QED BY <2>1, <2>3, <2>4, QuietKeepsIt
<1> QED BY <1>1, <1>2, <1>3

(***************************************************************************)
(* Another thread takes the connection away or brings a new one: unless    *)
(* it overtakes a send(), nobody sends before headerSent is cleared.       *)
(***************************************************************************)
LEMMA ReplacedKeepsIt ==
  ASSUME HeaderInv, StopForget \/ \E c \in Conn : HandleIncoming(c) \/ TearDown(c)
  PROVE  HeaderInv'
<1> USE DEF HeaderInv, ServerTypes
<1>1. /\ UNCHANGED <<clientOpen, headerSent, got, sender>> /\ overtaken' \in BOOLEAN
      /\ (~overtaken' => ~overtaken /\ sender = Idle)
  BY DEF StopForget, HandleIncoming, TearDown, MayOvertake, sendVars, linkVars
<1>2. sender = Idle => sender.step = "idle"
  BY DEF Idle
<1>3. CASE StopForget \/ \E c \in Conn : TearDown(c)
  <2>1. /\ activeConnection' = NoConn /\ conn' \in [Conn -> ConnStates]
        /\ \A d \in Conn : Handed(d) => Handed(d)'
    <3>1. CASE StopForget
      BY <3>1 DEF StopForget, linkVars, Handed
    <3>2. ASSUME NEW c \in Conn, TearDown(c)
          PROVE  /\ activeConnection' = NoConn /\ conn' \in [Conn -> ConnStates]
                 /\ \A d \in Conn : Handed(d) => Handed(d)'
      BY <3>2 DEF TearDown, Handed, ConnStates
    <3> QED BY <1>3, <3>1, <3>2
  <2>2. ServerTypes'
    BY <1>1, <2>1
  <2>3. ~overtaken' => GotInv' /\ HeaderSentTrue'
    BY <1>1, <1>2, <2>1 DEF GotInv, HeaderSentTrue
  <2> QED BY <2>2, <2>3
<1>4. ASSUME NEW c \in Conn, HandleIncoming(c) PROVE HeaderInv'
  <2>1. /\ conn[c] = "dialled" /\ activeConnection' = c
        /\ conn' = [conn EXCEPT ![c] = "setup"] /\ queue' = "fresh"
    BY <1>4 DEF HandleIncoming
  <2>2. ServerTypes'
    BY <1>1, <2>1 DEF ConnStates
  <2>3. ASSUME ~overtaken' PROVE GotInv' /\ HeaderSentTrue'
    <3>1. GotInv /\ HeaderSentTrue /\ sender'.step = "idle"
      BY <1>1, <1>2, <2>3
    <3>2. got'[c] = "nothing" /\ Changing'
      BY <1>1, <2>1, <3>1 DEF GotInv, Handed, Changing
    <3>3. GotInv'
      BY <1>1, <2>1, <3>1, <3>2 DEF GotInv, Handed
    <3>4. HeaderSentTrue'
      BY <2>1, <3>1, <3>2 DEF HeaderSentTrue
    <3> QED BY <3>3, <3>4
  <2> QED BY <2>2, <2>3
<1> QED BY <1>3, <1>4

\* headerSent is cleared at last.
LEMMA ClearedKeepsIt ==
  ASSUME HeaderInv, StopClear \/ HeaderIsOwed \/ TearDownClears
  PROVE  HeaderInv'
<1> USE DEF HeaderInv, ServerTypes
<1>1. /\ Changing /\ headerSent' = FALSE
      /\ UNCHANGED <<conn, clientOpen, activeConnection, overtaken, got, sender>>
  BY DEF StopClear, HeaderIsOwed, TearDownClears, Changing, sendVars, linkVars
<1>2. ServerTypes'
  BY <1>1
<1>3. ~overtaken => GotInv'
  BY <1>1 DEF GotInv, Handed
<1>4. ASSUME ~overtaken PROVE HeaderSentTrue'
  <2>1. /\ sender.step = "idle"
        /\ activeConnection # NoConn => got[activeConnection] = "nothing"
    BY <1>1, <1>4 DEF HeaderSentTrue
  <2>2. Unheaded'
    BY <1>1, <2>1 DEF Unheaded
  <2> QED BY <1>1, <2>1, <2>2 DEF HeaderSentTrue
<1> QED BY <1>1, <1>2, <1>3, <1>4

(***************************************************************************)
(* send().                                                                 *)
(***************************************************************************)
LEMMA SendKeepsIt == ASSUME HeaderInv, SendStep PROVE HeaderInv'
<1> USE DEF HeaderInv, ServerTypes
<1>1. CASE SendBegin
  <2>1. /\ activeConnection # NoConn
        /\ sender' = [step |-> "header", conn |-> activeConnection, withHeader |-> FALSE]
        /\ sender.step = "idle" /\ (Changing' <=> Changing)
        /\ UNCHANGED <<conn, clientOpen, activeConnection, headerSent, got>>
        /\ overtaken' \in BOOLEAN /\ (~overtaken' => ~overtaken /\ ~Changing)
    BY <1>1 DEF SendBegin, serverVars, linkVars, Idle, Changing
  <2>2. sender' \in Senders /\ sender'.step = "header" /\ sender'.conn = activeConnection
    BY <2>1 DEF Senders
  <2>3. ServerTypes'
    BY <2>1, <2>2
  <2>4. Unheaded' <=> Unheaded
    BY <2>1, <2>2 DEF Unheaded
  <2> HIDE DEF Unheaded, Changing
  <2> QED
    BY <2>1, <2>2, <2>3, <2>4 DEF GotInv, Handed, HeaderSentTrue, Receives
<1>2. CASE SendHeader
  <2>1. /\ sender.step = "header" /\ (Changing' <=> Changing)
        /\ UNCHANGED <<conn, clientOpen, activeConnection, headerSent, overtaken, got>>
    BY <1>2 DEF SendHeader, linkVars, serverVars, Changing
  <2>2. /\ sender' \in Senders /\ sender'.conn = sender.conn
        /\ sender'.step = IF headerSent THEN "put" ELSE "mark"
        /\ sender'.withHeader <=> ~headerSent
    <3>1. PICK b \in BOOLEAN, k \in {"put", "mark"} :
            b = ~headerSent /\ k = IF headerSent THEN "put" ELSE "mark"
      OBVIOUS
    <3>2. sender' = [sender EXCEPT !.step = k, !.withHeader = b]
      BY <1>2, <3>1, Zenon DEF SendHeader
    <3> QED BY <3>1, <3>2 DEF Senders
  <2>3. ServerTypes'
    BY <2>1, <2>2
  <2>4. Unheaded' <=> Unheaded
    BY <2>1, <2>2 DEF Unheaded
  <2> HIDE DEF Unheaded, Changing
  <2> QED
    BY <2>1, <2>2, <2>3, <2>4 DEF GotInv, Handed, HeaderSentTrue, Receives
<1>3. CASE SendMark
  <2>1. /\ sender.step = "mark" /\ headerSent' = TRUE /\ (Changing' <=> Changing)
        /\ UNCHANGED <<conn, clientOpen, activeConnection, overtaken, got>>
        /\ sender' = [sender EXCEPT !.step = "put"]
    BY <1>3 DEF SendMark, linkVars, Changing
  <2>2. /\ sender' \in Senders /\ sender'.conn = sender.conn /\ sender'.step = "put"
        /\ sender'.withHeader = sender.withHeader
    BY <2>1 DEF Senders
  <2>3. ServerTypes'
    BY <2>1, <2>2
  <2>4. Unheaded /\ (~overtaken => Unheaded')
    BY <2>1, <2>2 DEF Unheaded, HeaderSentTrue
  <2> HIDE DEF Unheaded, Changing
  <2> QED
    BY <2>1, <2>2, <2>3, <2>4 DEF GotInv, Handed, HeaderSentTrue, Receives
<1>4. CASE SendPut
  <2> DEFINE c == sender.conn
             lives == conn[c] \in {"setup", "ready"}
  <2>1. /\ sender.step = "put" /\ sender' = Idle /\ (Changing' <=> Changing)
        /\ got' = IF lives /\ clientOpen[c]
                  THEN [got EXCEPT ![c] = Received(@, sender.withHeader)] ELSE got
        /\ conn' = IF lives /\ ~clientOpen[c]
                   THEN [conn EXCEPT ![c] = "failing"] ELSE conn
        /\ UNCHANGED <<clientOpen, activeConnection, headerSent, overtaken>>
    BY <1>4 DEF SendPut, serverVars, Changing
  <2>2. sender' \in Senders /\ sender'.step = "idle"
    BY <2>1 DEF Idle, Senders
  <2>3. /\ \A old \in {"nothing", "ok", "spoilt"} :
             Received(old, sender.withHeader) \in {"ok", "spoilt"}
        /\ sender.withHeader => Received("nothing", sender.withHeader) = "ok"
        /\ ~sender.withHeader => Received("ok", sender.withHeader) = "ok"
    BY DEF Received, Senders
  <2>4. conn' \in [Conn -> ConnStates]
    BY <2>1 DEF ConnStates
  <2>5. ServerTypes'
    BY <2>1, <2>2, <2>3, <2>4
  <2>6. ASSUME ~overtaken PROVE GotInv' /\ HeaderSentTrue'
    <3>1. /\ c = activeConnection /\ c \in Conn /\ Handed(c) /\ headerSent /\ ~Changing
          /\ sender.withHeader => got[c] = "nothing"
          /\ ~sender.withHeader => got[c] = "ok" \/ ~Receives(c)
      BY <2>1, <2>6 DEF HeaderSentTrue, Unheaded, GotInv
    <3>2. PICK k \in Conn : k = c
      BY <3>1
    <3>3. got' = IF Receives(k) THEN [got EXCEPT ![k] = "ok"] ELSE got
      <4>1. Receives(k) => Received(got[k], sender.withHeader) = "ok"
        BY <2>3, <3>1, <3>2
      <4> QED BY <2>1, <3>2, <4>1 DEF Receives
    <3>4. /\ \A d \in Conn : Handed(d)' <=> Handed(d)
          /\ Receives(k)' => Receives(k)
      BY <2>1, <3>1, <3>2 DEF Handed, Receives
    <3>5. got'[k] = "ok" \/ ~Receives(k)'
      BY <3>1, <3>2, <3>3, <3>4
    <3>6. GotInv'
      BY <2>1, <2>6, <3>1, <3>2, <3>3, <3>4 DEF GotInv
    <3>7. ~Changing' /\ ~Unheaded'
      BY <2>1, <2>2, <3>1 DEF Unheaded
    <3>8. activeConnection' = k
      BY <2>1, <3>1, <3>2
    <3>9. HeaderSentTrue'
      BY <2>1, <2>2, <3>5, <3>7, <3>8 DEF HeaderSentTrue
    <3> QED BY <3>6, <3>9
  <2> QED BY <2>1, <2>5, <2>6
<1> QED BY <1>1, <1>2, <1>3, <1>4 DEF SendStep

LEMMA HeaderInvKept == HeaderInv /\ [Next]_vars => HeaderInv'
<1> SUFFICES ASSUME HeaderInv, [Next]_vars PROVE HeaderInv'
  OBVIOUS
<1>1. CASE StopForget \/ \E c \in Conn : HandleIncoming(c) \/ TearDown(c)
  BY <1>1, ReplacedKeepsIt
<1>2. CASE StopClear \/ HeaderIsOwed \/ TearDownClears
  BY <1>2, ClearedKeepsIt
<1>3. CASE SendStep
  BY <1>3, SendKeepsIt
<1>4. CASE \/ Start \/ StopBegin \/ StopListener \/ UNCHANGED vars
           \/ \E g \in 1 .. MaxStarts : ListenerReady(g) \/ ListenerFails(g)
           \/ \E c \in Conn : \/ RejectIncoming(c) \/ ConnectionReady(c) \/ SendCompletes(c)
                              \/ Dial(c) \/ Close(c) \/ LinkLost(c)
  BY <1>4, QuietSteps
<1> QED BY <1>1, <1>2, <1>3, <1>4 DEF Next, MainStep, QueueStep

\* Every client receives the header exactly once and first, for any clients,
\* starts and outstanding sends, unless a send() overlaps a change of the
\* connection (VideoStreamServer.swift:87-181).
THEOREM HeaderAlwaysOnce == Spec => []HeaderExactlyOnce
<1>1. Init => HeaderInv
  BY HeaderInvInitially
<1>2. HeaderInv /\ [Next]_vars => HeaderInv'
  BY HeaderInvKept
<1>3. HeaderInv => HeaderExactlyOnce
  BY DEF HeaderInv, GotInv, HeaderExactlyOnce
<1> QED BY <1>1, <1>2, <1>3, PTL DEF Spec

(***************************************************************************)
(* Induction: a set of numbers that is not empty has a least one, and so a *)
(* family of subsets that contains {} and, with every set less one of its  *)
(* elements, the set, contains all.                                        *)
(***************************************************************************)
LEMMA LeastNumber ==
  ASSUME NEW T \in SUBSET Nat, T # {}
  PROVE  \E n \in T : \A m \in T : ~(m < n)
<1>1. IsWellFoundedOn(OpToRel(<, Nat), Nat)
  BY NatLessThanWellFounded
<1>2. \E x \in T : \A y \in T : ~ (<<y, x>> \in OpToRel(<, Nat))
  BY <1>1, WFMin
<1>3. \A x, y \in Nat : y < x => <<y, x>> \in OpToRel(<, Nat)
  BY DEF OpToRel
<1> QED BY <1>2, <1>3

AnyOf(s) == CHOOSE x \in s : TRUE
Rest(s)  == s \ {AnyOf(s)}

LEMMA RestIsSmaller ==
  ASSUME NEW S, IsFiniteSet(S), NEW s \in SUBSET S, s # {}
  PROVE  /\ AnyOf(s) \in s /\ Rest(s) \in SUBSET S
         /\ Cardinality(s) \in Nat /\ Cardinality(Rest(s)) \in Nat
         /\ Cardinality(s) = Cardinality(Rest(s)) + 1
<1>1. AnyOf(s) \in s
  BY DEF AnyOf
<1>2. IsFiniteSet(s)
  BY FS_Subset
<1>3. /\ Cardinality(s) \in Nat /\ IsFiniteSet(Rest(s))
      /\ Cardinality(Rest(s)) = Cardinality(s) - 1
  BY <1>1, <1>2, FS_CardinalityType, FS_RemoveElement DEF Rest
<1>4. Cardinality(Rest(s)) \in Nat
  BY <1>3, FS_CardinalityType
<1> QED BY <1>1, <1>3, <1>4 DEF Rest

LEMMA SubsetInduction ==
  ASSUME NEW S, IsFiniteSet(S), NEW P,
         {} \in P, \A s \in SUBSET S : s # {} /\ Rest(s) \in P => s \in P
  PROVE  \A s \in SUBSET S : s \in P
<1> DEFINE Failing == {n \in Nat : \E s \in SUBSET S : s \notin P /\ Cardinality(s) = n}
<1>1. SUFFICES ASSUME NEW s \in SUBSET S, s \notin P PROVE FALSE
  OBVIOUS
<1>2. Cardinality(s) \in Failing
  BY <1>1, FS_Subset, FS_CardinalityType
<1>3. PICK n \in Failing : \A m \in Failing : ~(m < n)
  <2> HIDE DEF Failing
  <2>1. Failing \in SUBSET Nat
    BY DEF Failing
  <2> QED BY <1>2, <2>1, LeastNumber
<1>4. PICK t \in SUBSET S : t \notin P /\ Cardinality(t) = n
  OBVIOUS
<1>5. t # {} /\ Rest(t) \notin P
  BY <1>4
<1>6. /\ Rest(t) \in SUBSET S /\ Cardinality(Rest(t)) \in Nat
      /\ n = Cardinality(Rest(t)) + 1
  BY <1>4, <1>5, RestIsSmaller
<1>7. Cardinality(Rest(t)) \in Failing
  BY <1>5, <1>6
<1>8. ~(Cardinality(Rest(t)) < n)
  BY <1>3, <1>7
<1> QED BY <1>6, <1>8

(***************************************************************************)
(* The sum of a function over a finite set, as MapThenSumSet takes it: it  *)
(* exists, is zero if the function is, and grows with one of its values.   *)
(***************************************************************************)
Partial(h, g, s) == IF s = {} THEN 0 ELSE g[AnyOf(s)] + h[Rest(s)]
Total(g, S) == MapThenSumSet(LAMBDA c : g[c], S)
Sums(h, g, S) == h = [s \in SUBSET S |-> Partial(h, g, s)]

LEMMA SumsExist ==
  ASSUME NEW S, IsFiniteSet(S), NEW g
  PROVE  \E h : Sums(h, g, S)
<1> DEFINE Up(n) == {s \in SUBSET S : Cardinality(s) <= n}
           Missing == {n \in Nat : \A h : h # [s \in Up(n) |-> Partial(h, g, s)]}
<1>1. Missing = {}
  <2>1. SUFFICES ASSUME Missing # {} PROVE FALSE
    OBVIOUS
  <2>2. PICK n \in Missing : \A m \in Missing : ~(m < n)
    <3>1. Missing \in SUBSET Nat
      OBVIOUS
    <3> HIDE DEF Missing
    <3> QED BY <2>1, <3>1, LeastNumber
  <2>3. n \in Nat
    BY <2>2
  <2>4. PICK h : \A s \in Up(n) : s # {} => Rest(s) \in DOMAIN h /\ h[Rest(s)] = Partial(h, g, Rest(s))
    <3>1. CASE n = 0
      <4>1. ASSUME NEW s \in Up(n), s # {} PROVE FALSE
        BY <2>3, <3>1, <4>1, RestIsSmaller
      <4> QED BY <4>1
    <3>2. CASE n > 0
      <4>1. n - 1 \in Nat /\ n - 1 < n
        BY <2>3, <3>2
      <4>2. n - 1 \notin Missing
        BY <2>2, <4>1
      <4>3. PICK h : h = [s \in Up(n - 1) |-> Partial(h, g, s)]
        BY <4>1, <4>2
      <4>4. \A s \in Up(n) : s # {} => Rest(s) \in Up(n - 1)
        BY <2>3, <4>1, RestIsSmaller
      <4> QED BY <4>3, <4>4
    <3> QED BY <2>3, <3>1, <3>2
  <2> DEFINE k == [s \in Up(n) |-> Partial(h, g, s)]
  <2>5. \A s \in Up(n) : s # {} => Rest(s) \in Up(n)
    BY <2>3, RestIsSmaller
  <2>6. \A s \in Up(n) : s # {} => k[Rest(s)] = h[Rest(s)]
    BY <2>4, <2>5
  <2>7. \A s \in Up(n) : Partial(h, g, s) = Partial(k, g, s)
    <3> HIDE DEF k, Up
    <3> QED BY <2>6 DEF Partial
  <2>8. k = [s \in Up(n) |-> Partial(k, g, s)]
    <3>1. k = [s \in Up(n) |-> Partial(h, g, s)]
      OBVIOUS
    <3> HIDE DEF k, Up
    <3> QED BY <3>1, <2>7
  <2>9. \A f : f # [s \in Up(n) |-> Partial(f, g, s)]
    BY <2>2
  <2> QED BY <2>8, <2>9
<1>2. Cardinality(S) \in Nat /\ Up(Cardinality(S)) = SUBSET S
  BY FS_CardinalityType, FS_Subset
<1>3. \E h : h = [s \in Up(Cardinality(S)) |-> Partial(h, g, s)]
  BY <1>1, <1>2
<1> HIDE DEF Up
<1> QED BY <1>2, <1>3 DEF Sums

LEMMA SumIsLast ==
  ASSUME NEW S, IsFiniteSet(S), NEW g
  PROVE  \E h : Sums(h, g, S) /\ Total(g, S) = h[S]
<1> DEFINE h == CHOOSE iter : iter = [s \in SUBSET S |->
                  IF s = {} THEN 0
                  ELSE LET x == CHOOSE x \in s : TRUE IN g[x] + iter[s \ {x}]]
<1>1. Total(g, S) = h[S]
  BY Zenon DEF Total, MapThenSumSet, MapThenFoldSet
<1>2. h = CHOOSE iter : Sums(iter, g, S)
  BY Zenon DEF Sums, Partial, AnyOf, Rest
<1> HIDE DEF h
<1>3. Sums(h, g, S)
  BY <1>2, SumsExist
<1> QED BY <1>1, <1>3

SumsUp(h, g, S) ==
  /\ \A s \in SUBSET S : h[s] \in Nat
  /\ h[{}] = 0
  /\ \A s \in SUBSET S : s # {} => h[s] = g[AnyOf(s)] + h[Rest(s)]

LEMMA PartialSums ==
  ASSUME NEW S, IsFiniteSet(S), NEW g, \A c \in S : g[c] \in Nat, NEW h, Sums(h, g, S)
  PROVE  SumsUp(h, g, S)
<1>1. /\ h[{}] = 0
      /\ \A s \in SUBSET S : s # {} => h[s] = g[AnyOf(s)] + h[Rest(s)]
  BY DEF Sums, Partial
<1> DEFINE P == {s \in SUBSET S : h[s] \in Nat}
<1>2. ASSUME NEW s \in SUBSET S, s # {}, Rest(s) \in P PROVE s \in P
  <2>1. AnyOf(s) \in S
    BY <1>2, RestIsSmaller
  <2> QED BY <1>1, <1>2, <2>1
<1>3. {} \in P
  BY <1>1
<1>4. \A s \in SUBSET S : s \in P
  <2> HIDE DEF P
  <2> QED BY <1>2, <1>3, SubsetInduction
<1> QED BY <1>1, <1>4 DEF SumsUp

LEMMA TotalByParts ==
  ASSUME NEW S, IsFiniteSet(S), NEW g, \A c \in S : g[c] \in Nat
  PROVE  \E h : SumsUp(h, g, S) /\ Total(g, S) = h[S]
<1>1. PICK h : Sums(h, g, S) /\ Total(g, S) = h[S]
  BY SumIsLast
<1>2. SumsUp(h, g, S)
  BY <1>1, PartialSums
<1> QED BY <1>1, <1>2

LEMMA TotalOfZeros ==
  ASSUME NEW S, IsFiniteSet(S), NEW g, \A c \in S : g[c] = 0
  PROVE  Total(g, S) = 0
<1>0. \A c \in S : g[c] \in Nat
  OBVIOUS
<1>1. PICK h : SumsUp(h, g, S) /\ Total(g, S) = h[S]
  BY <1>0, TotalByParts
<1> DEFINE P == {s \in SUBSET S : h[s] = 0}
<1>2. ASSUME NEW s \in SUBSET S, s # {}, Rest(s) \in P PROVE s \in P
  <2>1. AnyOf(s) \in S
    BY <1>2, RestIsSmaller
  <2> QED BY <1>1, <1>2, <2>1 DEF SumsUp
<1>3. {} \in P
  BY <1>1 DEF SumsUp
<1>4. \A s \in SUBSET S : s \in P
  <2> HIDE DEF P
  <2> QED BY <1>2, <1>3, SubsetInduction
<1> QED BY <1>1, <1>4

LEMMA TotalGrows ==
  ASSUME NEW S, IsFiniteSet(S), NEW f, NEW g, NEW c \in S,
         \A d \in S : f[d] \in Nat /\ g[d] = f[d] + (IF c = d THEN 1 ELSE 0)
  PROVE  Total(f, S) \in Nat /\ Total(g, S) = Total(f, S) + 1
<1>0. \A d \in S : f[d] \in Nat /\ g[d] \in Nat
  OBVIOUS
<1>1. PICK h : SumsUp(h, f, S) /\ Total(f, S) = h[S]
  BY <1>0, TotalByParts
<1>2. PICK k : SumsUp(k, g, S) /\ Total(g, S) = k[S]
  BY <1>0, TotalByParts
<1> DEFINE P == {s \in SUBSET S : k[s] = h[s] + (IF c \in s THEN 1 ELSE 0)}
<1>3. ASSUME NEW s \in SUBSET S, s # {}, Rest(s) \in P PROVE s \in P
  <2>1. /\ AnyOf(s) \in S /\ AnyOf(s) \in s /\ Rest(s) \in SUBSET S
        /\ c \in Rest(s) <=> c \in s /\ c # AnyOf(s)
    BY <1>3, RestIsSmaller DEF Rest
  <2>2. /\ h[s] = f[AnyOf(s)] + h[Rest(s)] /\ h[Rest(s)] \in Nat /\ h[s] \in Nat
        /\ k[s] = g[AnyOf(s)] + k[Rest(s)]
        /\ k[Rest(s)] = h[Rest(s)] + (IF c \in Rest(s) THEN 1 ELSE 0)
    BY <1>1, <1>2, <1>3, <2>1 DEF SumsUp
  <2>3. /\ f[AnyOf(s)] \in Nat
        /\ g[AnyOf(s)] = f[AnyOf(s)] + (IF c = AnyOf(s) THEN 1 ELSE 0)
    BY <2>1
  <2>4. k[s] = h[s] + (IF c \in s THEN 1 ELSE 0)
    BY <2>1, <2>2, <2>3
  <2> QED BY <2>4
<1>4. {} \in P
  BY <1>1, <1>2 DEF SumsUp
<1>5. \A s \in SUBSET S : s \in P
  <2> HIDE DEF P
  <2> QED BY <1>3, <1>4, SubsetInduction
<1>6. k[S] = h[S] + 1 /\ h[S] \in Nat
  BY <1>1, <1>5 DEF SumsUp
<1> QED BY <1>1, <1>2, <1>6

(***************************************************************************)
(* The counter is the sum of what is outstanding: a send adds one to both, *)
(* a completion takes one from both, and nothing else touches either.      *)
(***************************************************************************)
CountInv ==
  /\ TypeOK
  /\ sender.step # "idle" => sender.conn \in Conn
  /\ pendingSendBytes = Total(inFlight, Conn)

LEMMA TotalPrimed == Total(inFlight, Conn)' = Total(inFlight', Conn)
BY Zenon DEF Total, MapThenSumSet, MapThenFoldSet

LEMMA CountInvInitially == Init => CountInv
<1> SUFFICES ASSUME Init PROVE CountInv
  OBVIOUS
<1>1. sender.step = "idle" /\ sender \in Senders
  BY DEF Init, Idle, Senders
<1>2. TypeOK
  <2>1. MaxStarts \in Nat
    BY BoundsAssumption
  <2>2. listener \in 0 .. MaxStarts /\ via \in [Conn -> 0 .. MaxStarts]
    BY <2>1 DEF Init
  <2> QED BY <1>1, <2>2 DEF Init, TypeOK, Senders
<1>3. Total(inFlight, Conn) = 0
  BY ConnAssumption, TotalOfZeros DEF Init
<1> QED BY <1>1, <1>2, <1>3 DEF Init, CountInv

\* Steps that neither send nor complete.
LEMMA NotCounted ==
  ASSUME CountInv, UNCHANGED <<pendingSendBytes, inFlight>>, TypeOK',
         sender'.step # "idle" => sender'.conn \in Conn
  PROVE  CountInv'
<1>1. Total(inFlight, Conn)' = Total(inFlight, Conn)
  BY TotalPrimed, Zenon
<1> QED BY <1>1 DEF CountInv

LEMMA ServerKeepsCount ==
  ASSUME CountInv, MainStep \/ QueueStep \/ \E g \in 1 .. MaxStarts : ListenerFails(g)
  PROVE  CountInv'
<1>1. UNCHANGED <<sendVars, clientOpen>> /\ overtaken' \in BOOLEAN
  BY DEF MainStep, Start, StopBegin, StopForget, StopListener, StopClear, QueueStep,
         ListenerReady, ListenerFails, RejectIncoming, HandleIncoming, HeaderIsOwed,
         ConnectionReady, TearDown, TearDownClears, MayOvertake, linkVars, CountInv, TypeOK
<1>2. /\ listener' \in 0 .. MaxStarts
      /\ listeners' \in [1 .. MaxStarts -> {"none", "setup", "ready", "dead"}]
  BY BoundsAssumption
  DEF MainStep, Start, StopBegin, StopForget, StopListener, StopClear, QueueStep,
      ListenerReady, ListenerFails, RejectIncoming, HandleIncoming, HeaderIsOwed,
      ConnectionReady, TearDown, TearDownClears, serverVars, CountInv, TypeOK
<1>3. activeConnection' \in Conn \union {NoConn} /\ headerSent' \in BOOLEAN
  BY DEF MainStep, Start, StopBegin, StopForget, StopListener, StopClear, QueueStep,
         ListenerReady, ListenerFails, RejectIncoming, HandleIncoming, HeaderIsOwed,
         ConnectionReady, TearDown, TearDownClears, serverVars, CountInv, TypeOK
<1>4. /\ main' \in {"idle", "forget", "listener", "clear"}
      /\ queue' \in {"idle", "fresh", "clear"}
  BY DEF MainStep, Start, StopBegin, StopForget, StopListener, StopClear, QueueStep,
         ListenerReady, ListenerFails, RejectIncoming, HandleIncoming, HeaderIsOwed,
         ConnectionReady, TearDown, TearDownClears, serverVars, CountInv, TypeOK
<1>5. conn' \in [Conn -> ConnStates] /\ via' \in [Conn -> 0 .. MaxStarts]
  <2>1. CASE StopBegin
    BY <2>1 DEF StopBegin, ConnStates, CountInv, TypeOK
  <2>2. ASSUME NEW c \in Conn,
               RejectIncoming(c) \/ HandleIncoming(c) \/ ConnectionReady(c) \/ TearDown(c)
        PROVE  conn' \in [Conn -> ConnStates] /\ via' \in [Conn -> 0 .. MaxStarts]
    <3>1. /\ \E k \in {"rejected", "setup", "ready", "gone"} : conn' = [conn EXCEPT ![c] = k]
          /\ via' = via \/ via' = [via EXCEPT ![c] = 0]
      BY <2>2 DEF RejectIncoming, HandleIncoming, ConnectionReady, TearDown
    <3> QED BY <3>1, BoundsAssumption DEF ConnStates, CountInv, TypeOK
  <2>3. CASE \/ Start \/ StopForget \/ StopListener \/ StopClear
             \/ HeaderIsOwed \/ TearDownClears
             \/ \E g \in 1 .. MaxStarts : ListenerReady(g) \/ ListenerFails(g)
    BY <2>3 DEF Start, StopForget, StopListener, StopClear, HeaderIsOwed, TearDownClears,
                ListenerReady, ListenerFails, linkVars, ConnStates, CountInv, TypeOK
  <2>4. CASE StopBegin /\ UNCHANGED via
    BY <2>1, <2>4 DEF CountInv, TypeOK
  <2> QED BY <2>1, <2>2, <2>3, <2>4 DEF MainStep, QueueStep, StopBegin, CountInv, TypeOK
<1>6. TypeOK'
  BY <1>1, <1>2, <1>3, <1>4, <1>5 DEF sendVars, ConnStates, CountInv, TypeOK
<1> QED BY <1>1, <1>6, NotCounted DEF sendVars, CountInv

LEMMA ClientsKeepCount ==
  ASSUME CountInv, NEW c \in Conn, Dial(c) \/ Close(c) \/ LinkLost(c)
  PROVE  CountInv'
<1>1. UNCHANGED <<serverVars, sendVars, overtaken>>
  BY DEF Dial, Close, LinkLost
<1>2. conn' \in [Conn -> ConnStates] /\ via' \in [Conn -> 0 .. MaxStarts]
  <2>1. CASE Dial(c)
    <3>1. conn' = [conn EXCEPT ![c] = "dialled"] /\ via' = [via EXCEPT ![c] = listener]
      BY <2>1 DEF Dial
    <3>2. conn' \in [Conn -> ConnStates]
      BY <3>1 DEF ConnStates, CountInv, TypeOK
    <3> QED BY <3>1, <3>2 DEF CountInv, TypeOK
  <2>2. CASE Close(c) \/ LinkLost(c)
    BY <2>2 DEF Close, LinkLost, ConnStates, CountInv, TypeOK
  <2> QED BY <2>1, <2>2
<1>3. clientOpen' \in [Conn -> BOOLEAN]
  BY Zenon DEF Dial, Close, LinkLost, CountInv, TypeOK
<1>4. TypeOK'
  BY <1>1, <1>2, <1>3 DEF ConnStates, serverVars, sendVars, CountInv, TypeOK
<1> QED BY <1>1, <1>4, NotCounted DEF sendVars, CountInv

LEMMA SendsCount == ASSUME CountInv, SendStep PROVE CountInv'
<1> USE DEF Senders
<1>1. ASSUME SendBegin PROVE CountInv'
  <2>1. /\ sender'.conn \in Conn /\ sender' \in Senders /\ overtaken' \in BOOLEAN
        /\ UNCHANGED <<serverVars, pendingSendBytes, inFlight, got, linkVars>>
    BY <1>1 DEF SendBegin, Changing, CountInv, TypeOK
  <2>2. TypeOK'
    BY <2>1 DEF serverVars, linkVars, CountInv, TypeOK
  <2> QED BY <2>1, <2>2, NotCounted
<1>2. ASSUME SendHeader PROVE CountInv'
  <2>1. PICK b \in BOOLEAN, k \in {"put", "mark"} :
          b = ~headerSent /\ k = IF headerSent THEN "put" ELSE "mark"
    OBVIOUS
  <2>2. sender.step = "header" /\ sender' = [sender EXCEPT !.step = k, !.withHeader = b]
    BY <1>2, <2>1, Zenon DEF SendHeader
  <2>3. sender' \in Senders /\ sender'.conn \in Conn
    BY <2>2 DEF CountInv, TypeOK
  <2>4. TypeOK' /\ UNCHANGED <<pendingSendBytes, inFlight>>
    BY <1>2, <2>3 DEF SendHeader, serverVars, linkVars, CountInv, TypeOK
  <2> QED BY <2>3, <2>4, NotCounted
<1>2a. ASSUME SendMark PROVE CountInv'
  <2>1. sender.step = "mark" /\ sender' = [sender EXCEPT !.step = "put"]
    BY <1>2a DEF SendMark
  <2>2. sender' \in Senders /\ sender'.conn \in Conn
    BY <2>1 DEF CountInv, TypeOK
  <2>3. TypeOK' /\ UNCHANGED <<pendingSendBytes, inFlight>>
    BY <1>2a, <2>2 DEF SendMark, linkVars, CountInv, TypeOK
  <2> QED BY <2>2, <2>3, NotCounted
<1>3. ASSUME SendPut PROVE CountInv'
  <2>0. PICK c \in Conn : c = sender.conn
    BY <1>3 DEF SendPut, CountInv
  <2>1. /\ sender' \in Senders /\ sender'.step = "idle"
        /\ inFlight' = [inFlight EXCEPT ![c] = @ + 1]
        /\ pendingSendBytes' = pendingSendBytes + 1
        /\ UNCHANGED <<serverVars, via, clientOpen, overtaken>>
    BY <1>3, <2>0 DEF SendPut, Idle, CountInv, TypeOK
  <2>2. got' \in [Conn -> {"nothing", "ok", "spoilt"}]
    <3>1. \A old \in {"nothing", "ok", "spoilt"} :
            Received(old, sender.withHeader) \in {"nothing", "ok", "spoilt"}
      BY DEF Received
    <3>2. got' = IF conn[c] \in {"setup", "ready"} /\ clientOpen[c]
                 THEN [got EXCEPT ![c] = Received(@, sender.withHeader)] ELSE got
      BY <1>3, <2>0 DEF SendPut
    <3> QED BY <3>1, <3>2 DEF CountInv, TypeOK
  <2>3. conn' \in [Conn -> ConnStates]
    BY <1>3, <2>0 DEF SendPut, ConnStates, CountInv, TypeOK
  <2>4. inFlight' \in [Conn -> Nat] /\ pendingSendBytes' \in Nat
    BY <2>1 DEF CountInv, TypeOK
  <2>5. TypeOK'
    BY <2>1, <2>2, <2>3, <2>4 DEF ConnStates, serverVars, CountInv, TypeOK
  <2>6. Total(inFlight', Conn) = Total(inFlight, Conn) + 1
    <3>1. \A d \in Conn : /\ inFlight[d] \in Nat
                          /\ inFlight'[d] = inFlight[d] + (IF c = d THEN 1 ELSE 0)
      BY <2>1 DEF CountInv, TypeOK
    <3> QED BY <3>1, ConnAssumption, TotalGrows
  <2> QED BY <2>1, <2>4, <2>5, <2>6, TotalPrimed DEF CountInv
<1> QED BY <1>1, <1>2, <1>2a, <1>3 DEF SendStep

LEMMA CompletionsCount ==
  ASSUME CountInv, NEW c \in Conn, SendCompletes(c)
  PROVE  CountInv'
<1>1. /\ inFlight[c] > 0
      /\ inFlight' = [inFlight EXCEPT ![c] = @ - 1]
      /\ pendingSendBytes' = pendingSendBytes - 1
      /\ UNCHANGED <<serverVars, got, sender, linkVars, overtaken>>
  BY DEF SendCompletes
<1>2. \A d \in Conn : /\ inFlight'[d] \in Nat
                      /\ inFlight[d] = inFlight'[d] + (IF c = d THEN 1 ELSE 0)
  BY <1>1 DEF CountInv, TypeOK
<1>3. Total(inFlight', Conn) \in Nat /\ Total(inFlight, Conn) = Total(inFlight', Conn) + 1
  BY <1>2, ConnAssumption, TotalGrows
<1>4. pendingSendBytes' = Total(inFlight', Conn) /\ pendingSendBytes' \in Nat
  BY <1>1, <1>3 DEF CountInv
<1>5. TypeOK'
  BY <1>1, <1>2, <1>4 DEF serverVars, linkVars, CountInv, TypeOK
<1> QED BY <1>1, <1>4, <1>5, TotalPrimed DEF CountInv

LEMMA CountInvKept == CountInv /\ [Next]_vars => CountInv'
<1> SUFFICES ASSUME CountInv, [Next]_vars PROVE CountInv'
  OBVIOUS
<1>1. CASE MainStep \/ QueueStep \/ \E g \in 1 .. MaxStarts : ListenerFails(g)
  BY <1>1, ServerKeepsCount
<1>2. CASE SendStep
  BY <1>2, SendsCount
<1>3. ASSUME NEW c \in Conn, SendCompletes(c) PROVE CountInv'
  BY <1>3, CompletionsCount
<1>4. ASSUME NEW c \in Conn, Dial(c) \/ Close(c) \/ LinkLost(c) PROVE CountInv'
  BY <1>4, ClientsKeepCount
<1>5. CASE UNCHANGED vars
  <2>1. TypeOK' /\ UNCHANGED <<pendingSendBytes, inFlight, sender>>
    BY <1>5 DEF vars, serverVars, sendVars, linkVars, CountInv, TypeOK
  <2> QED BY <2>1, NotCounted DEF CountInv
<1> QED BY <1>1, <1>2, <1>3, <1>4, <1>5 DEF Next

\* The backpressure counter is exactly the sum of the sends outstanding on all
\* connections, for any finite number of clients (VideoStreamServer.swift:147-185).
THEOREM PendingAlwaysExact == Spec => []PendingExact
<1>1. Init => CountInv
  BY CountInvInitially
<1>2. CountInv /\ [Next]_vars => CountInv'
  BY CountInvKept
<1>3. CountInv => PendingExact
  BY Zenon DEF CountInv, PendingExact, Total
<1> QED BY <1>1, <1>2, <1>3, PTL DEF Spec

-----------------------------------------------------------------------------
(***************************************************************************)
(* The accepted client.  Before a restart no connection but the active one *)
(* is served or being cancelled, so that no callback takes an open client  *)
(* away; and what is in flight to a client has reached it, so that one     *)
(* that has nothing yet does not have to wait for completions.             *)
(***************************************************************************)
Unstarted == \A g \in 1 .. MaxStarts : listeners[g] = "none"

\* What is served before the first restart, and by which listener.
Served ==
  /\ Unstarted => listener = 0 /\ \A d \in Conn : conn[d] = "none"
  /\ main # "idle" => ~Unstarted
  /\ main \in {"forget", "listener"} => listener # 0
  /\ main = "clear" => listener = 0 \/ Restarted
  /\ listener # 0 /\ ~Restarted /\ main = "idle" =>
       \A d \in Conn : /\ conn[d] # "cancelling"
                       /\ conn[d] \in {"setup", "ready", "failing"} => d = activeConnection

\* What the work queue is in the middle of.
InHand ==
  /\ queue = "clear" => activeConnection = NoConn
  /\ queue = "fresh" /\ activeConnection # NoConn => conn[activeConnection] # "ready"

Links ==
  /\ sender.step = "idle" => sender = Idle
  /\ sender.step # "idle" => Handed(sender.conn)
  /\ activeConnection # NoConn => Handed(activeConnection)
  /\ \A d \in Conn : conn[d] = "failing" => ~clientOpen[d]
  /\ \A d \in Conn : inFlight[d] > 0 => Handed(d) /\ (Receives(d) => got[d] # "nothing")

StreamInv == Links /\ InHand /\ Served

StreamAlways == HeaderInv /\ CountInv /\ StreamInv

LEMMA StreamInvInitially == Init => StreamInv
<1> SUFFICES ASSUME Init PROVE StreamInv
  OBVIOUS
<1>1. sender.step = "idle" /\ sender = Idle
  BY DEF Init, Idle
<1> QED BY <1>1 DEF Init, StreamInv, Links, InHand, Served, Handed

LEMMA InHandKept ==
  ASSUME StreamAlways, [Next]_vars
  PROVE  InHand'
<1> USE DEF StreamAlways, CountInv, TypeOK, StreamInv
<1>1. CASE \E c \in Conn : HandleIncoming(c)
  BY <1>1 DEF HandleIncoming, InHand
<1>2. CASE \/ StopForget \/ HeaderIsOwed \/ TearDownClears
           \/ \E c \in Conn : TearDown(c) \/ ConnectionReady(c)
  BY <1>2 DEF StopForget, HeaderIsOwed, TearDownClears, TearDown, ConnectionReady, InHand
<1>3. CASE StopBegin \/ \E c \in Conn : RejectIncoming(c)
  BY <1>3 DEF StopBegin, RejectIncoming, serverVars, InHand
<1>4. ASSUME NEW c \in Conn, Dial(c) \/ Close(c) \/ LinkLost(c) PROVE InHand'
  <2>1. /\ UNCHANGED <<queue, activeConnection>>
        /\ \A d \in Conn : conn'[d] = "ready" => conn[d] = "ready"
    BY <1>4 DEF Dial, Close, LinkLost, serverVars
  <2> QED BY <2>1 DEF InHand
<1>5. CASE SendStep
  <2>1. /\ UNCHANGED <<queue, activeConnection>>
        /\ \A d \in Conn : conn'[d] = "ready" => conn[d] = "ready"
    BY <1>5 DEF SendStep, SendBegin, SendHeader, SendMark, SendPut, serverVars, linkVars
  <2> QED BY <2>1 DEF InHand
<1>6. CASE \/ Start \/ StopListener \/ StopClear
           \/ (\E c \in Conn : SendCompletes(c)) \/ UNCHANGED vars
           \/ \E g \in 1 .. MaxStarts : ListenerReady(g) \/ ListenerFails(g)
  BY <1>6 DEF Start, StopListener, StopClear, SendCompletes, ListenerReady, ListenerFails,
              vars, serverVars, linkVars, InHand
<1> QED BY <1>1, <1>2, <1>3, <1>4, <1>5, <1>6 DEF Next, MainStep, QueueStep

LEMMA ServedKept ==
  ASSUME StreamAlways, [Next]_vars
  PROVE  Served'
<1> USE DEF StreamAlways, CountInv, TypeOK
<1>0. Served
  BY DEF StreamInv
<1>1. CASE Start
  <2>1. PICK g \in 1 .. MaxStarts :
          /\ listeners[g] = "none" /\ \A h \in 1 .. g - 1 : listeners[h] # "none"
          /\ listeners' = [listeners EXCEPT ![g] = "setup"]
    BY <1>1 DEF Start
  <2>2. ~Unstarted' /\ UNCHANGED <<conn, activeConnection, main>> /\ listener = 0
    BY <1>1, <2>1 DEF Start, Unstarted, linkVars
  <2>3. ASSUME ~Restarted' PROVE Unstarted
    <3>1. g = 1
      BY <2>1, <2>3, BoundsAssumption DEF Restarted
    <3>2. \A h \in 2 .. MaxStarts : listeners[h] = "none"
      BY <2>1, <2>3, <3>1 DEF Restarted
    <3> QED BY <2>1, <3>1, <3>2, BoundsAssumption DEF Unstarted
  <2> QED BY <1>0, <2>2, <2>3 DEF Served
<1>2. CASE StopBegin
  <2>1. main' = "forget" /\ listener # 0 /\ UNCHANGED <<listener, listeners>>
    BY <1>2 DEF StopBegin
  <2>2. ~Unstarted' /\ listener' # 0
    BY <1>0, <2>1 DEF Served, Unstarted
  <2> QED BY <2>1, <2>2 DEF Served
<1>3. CASE StopForget \/ StopClear
  <2>1. /\ main # "idle" /\ UNCHANGED <<listener, listeners, conn>>
        /\ (Unstarted' <=> Unstarted) /\ (Restarted' <=> Restarted)
        /\ \/ main = "forget" /\ main' = "listener"
           \/ main = "clear" /\ main' = "idle"
    BY <1>3 DEF StopForget, StopClear, linkVars, Unstarted, Restarted
  <2> QED BY <1>0, <2>1 DEF Served
<1>4. CASE StopListener
  <2>1. /\ main = "listener" /\ main' = "clear" /\ listener' = 0 /\ conn' = conn
        /\ listener \in 1 .. MaxStarts /\ listeners'[listener] = "dead"
    BY <1>0, <1>4, BoundsAssumption DEF StopListener, linkVars, Served
  <2>2. ~Unstarted'
    BY <2>1 DEF Unstarted
  <2> QED BY <2>1, <2>2 DEF Served
<1>5. ASSUME NEW g \in 1 .. MaxStarts, ListenerReady(g) \/ ListenerFails(g)
      PROVE  Served'
  <2>1. /\ UNCHANGED <<conn, activeConnection, listener, main>>
        /\ listeners[g] # "none"
        /\ \E k \in {"ready", "dead"} : listeners' = [listeners EXCEPT ![g] = k]
    BY <1>5 DEF ListenerReady, ListenerFails, linkVars
  <2>2. ~Unstarted' /\ ~Unstarted /\ (Restarted <=> Restarted')
    BY <2>1, BoundsAssumption DEF Unstarted, Restarted
  <2> QED BY <1>0, <2>1, <2>2 DEF Served
<1>6. ASSUME NEW c \in Conn,
             \/ RejectIncoming(c) \/ HandleIncoming(c) \/ ConnectionReady(c)
             \/ TearDown(c) \/ Dial(c) \/ Close(c) \/ LinkLost(c)
      PROVE  Served'
  <2>1. UNCHANGED <<listener, listeners, main>>
    BY <1>6 DEF RejectIncoming, HandleIncoming, ConnectionReady, TearDown, Dial, Close,
                LinkLost, serverVars
  <2>2. (Unstarted' <=> Unstarted) /\ (Restarted' <=> Restarted)
    BY <2>1 DEF Unstarted, Restarted
  <2>3. CASE Close(c)
    BY <1>0, <2>1, <2>2, <2>3 DEF Close, serverVars, Served
  <2>4. CASE Dial(c)
    <3>1. listener # 0 /\ conn' = [conn EXCEPT ![c] = "dialled"]
          /\ activeConnection' = activeConnection
      BY <2>4 DEF Dial, serverVars
    <3> QED BY <1>0, <2>1, <2>2, <3>1 DEF Served
  <2>5. CASE ConnectionReady(c) \/ LinkLost(c)
    BY <1>0, <2>1, <2>2, <2>5 DEF ConnectionReady, LinkLost, serverVars, Served
  <2>6. CASE HandleIncoming(c)
    BY <1>0, <2>1, <2>2, <2>6, NoConnAssumption DEF HandleIncoming, Served
  <2>7. CASE RejectIncoming(c)
    BY <1>0, <2>1, <2>2, <2>7 DEF RejectIncoming, serverVars, Served
  <2>8. CASE TearDown(c)
    <3>1. /\ conn[c] \in {"cancelling", "failing"}
          /\ conn' = [conn EXCEPT ![c] = "gone"] /\ activeConnection' = NoConn
      BY <2>8 DEF TearDown, Ends
    <3> QED BY <1>0, <2>1, <2>2, <3>1 DEF Served
  <2> QED BY <1>6, <2>3, <2>4, <2>5, <2>6, <2>7, <2>8
<1>7. CASE SendPut
  <2>1. /\ UNCHANGED <<listener, listeners, main, activeConnection>>
        /\ (Unstarted' <=> Unstarted) /\ (Restarted' <=> Restarted)
    BY <1>7 DEF SendPut, serverVars, Unstarted, Restarted
  <2>2. \/ conn' = conn
        \/ /\ conn[sender.conn] \in {"setup", "ready"}
           /\ conn' = [conn EXCEPT ![sender.conn] = "failing"]
    BY <1>7 DEF SendPut
  <2> QED BY <1>0, <2>1, <2>2 DEF Served
<1>8. CASE \/ SendBegin \/ SendHeader \/ SendMark \/ (\E c \in Conn : SendCompletes(c))
           \/ HeaderIsOwed \/ TearDownClears \/ UNCHANGED vars
  <2>1. UNCHANGED <<listener, listeners, conn, activeConnection, main>>
    BY <1>8 DEF SendBegin, SendHeader, SendMark, SendCompletes, HeaderIsOwed,
                TearDownClears, vars, serverVars, linkVars
  <2> QED BY <1>0, <2>1 DEF Served, Unstarted, Restarted
<1> QED
  BY <1>1, <1>2, <1>3, <1>4, <1>5, <1>6, <1>7, <1>8
  DEF Next, MainStep, QueueStep, SendStep

\* Nothing the main thread, the work queue or a client does hands a connection
\* back, makes an old one receive or has an effect on what is in flight to it.
LEMMA LinksByOthers ==
  ASSUME StreamAlways,
         \/ MainStep \/ QueueStep \/ \E g \in 1 .. MaxStarts : ListenerFails(g)
         \/ \E c \in Conn : Dial(c) \/ Close(c) \/ LinkLost(c)
  PROVE  Links'
<1> USE DEF StreamAlways, CountInv, TypeOK, StreamInv
<1>0. Links
  OBVIOUS
<1>1. CASE MainStep
  <2>1. CASE Start \/ StopForget \/ StopListener \/ StopClear
    <3>1. UNCHANGED <<conn, clientOpen, sendVars>> /\ activeConnection' \in {activeConnection, NoConn}
      BY <2>1 DEF Start, StopForget, StopListener, StopClear, linkVars
    <3> QED BY <1>0, <3>1 DEF sendVars, Links, Handed, Receives
  <2>2. CASE StopBegin
    <3>1. /\ UNCHANGED <<clientOpen, sendVars, activeConnection>>
          /\ conn' = conn \/ (activeConnection \in Conn /\
                              conn' = [conn EXCEPT ![activeConnection] = "cancelling"])
      BY <2>2 DEF StopBegin
    <3> QED BY <1>0, <3>1 DEF sendVars, Links, Handed, Receives
  <2> QED BY <1>1, <2>1, <2>2 DEF MainStep
<1>2. ASSUME NEW c \in Conn,
             RejectIncoming(c) \/ HandleIncoming(c) \/ ConnectionReady(c) \/ TearDown(c)
      PROVE  Links'
  <2>1. /\ UNCHANGED <<clientOpen, sendVars>>
        /\ \E k \in {"rejected", "setup", "ready", "gone"} :
             /\ conn' = [conn EXCEPT ![c] = k]
             /\ k = "setup" => conn[c] = "dialled"
             /\ k = "ready" => conn[c] = "setup"
        /\ activeConnection' \in {activeConnection, c, NoConn}
    BY <1>2 DEF RejectIncoming, HandleIncoming, ConnectionReady, TearDown, serverVars
  <2>2. \A d \in Conn : /\ Handed(d) => Handed(d)'
                        /\ Handed(d) /\ Receives(d)' => Receives(d)
                        /\ conn'[d] = "failing" => conn[d] = "failing"
    BY <2>1 DEF Handed, Receives
  <2>3. Handed(c)'
    BY <2>1 DEF Handed
  <2> QED BY <1>0, <2>1, <2>2, <2>3 DEF sendVars, Links
<1>3. CASE \/ HeaderIsOwed \/ TearDownClears
           \/ \E g \in 1 .. MaxStarts : ListenerReady(g) \/ ListenerFails(g)
  <2>1. UNCHANGED <<conn, clientOpen, sendVars, activeConnection>>
    BY <1>3 DEF HeaderIsOwed, TearDownClears, ListenerReady, ListenerFails, linkVars
  <2> QED BY <1>0, <2>1 DEF sendVars, Links, Handed, Receives
<1>4. ASSUME NEW c \in Conn, Dial(c) \/ Close(c) \/ LinkLost(c)
      PROVE  Links'
  <2>1. UNCHANGED <<sendVars, activeConnection>>
    BY <1>4 DEF Dial, Close, LinkLost, serverVars
  <2>2. \A d \in Conn : /\ Handed(d) => Handed(d)'
                        /\ Handed(d) /\ Receives(d)' => Receives(d)
    BY <1>4 DEF Dial, Close, LinkLost, Handed, Receives
  <2>3. \A d \in Conn : conn'[d] = "failing" => ~clientOpen'[d]
    <3>1. CASE Dial(c)
      <4>1. conn' = [conn EXCEPT ![c] = "dialled"] /\ clientOpen' = [clientOpen EXCEPT ![c] = TRUE]
        BY <3>1 DEF Dial
      <4> QED BY <1>0, <4>1, Zenon DEF Links
    <3>2. CASE Close(c) \/ LinkLost(c)
      <4>1. /\ clientOpen' = [clientOpen EXCEPT ![c] = FALSE]
            /\ conn' \in {conn, [conn EXCEPT ![c] = "failing"]}
        BY <3>2 DEF Close, LinkLost
      <4>2. ~clientOpen'[c] /\ \A d \in Conn \ {c} : /\ clientOpen'[d] <=> clientOpen[d]
                                                    /\ conn'[d] = conn[d]
        BY <4>1
      <4> QED BY <1>0, <4>2 DEF Links
    <3> QED BY <1>4, <3>1, <3>2
  <2> QED BY <1>0, <2>1, <2>2, <2>3 DEF sendVars, Links
<1> QED BY <1>1, <1>2, <1>3, <1>4 DEF QueueStep

LEMMA StreamInvKept == StreamAlways /\ [Next]_vars => StreamInv'
<1> SUFFICES ASSUME StreamAlways, [Next]_vars PROVE Links'
  BY InHandKept, ServedKept DEF StreamInv
<1> USE DEF StreamAlways, CountInv, TypeOK, StreamInv
<1>0. Links
  OBVIOUS
<1>1. CASE \/ MainStep \/ QueueStep \/ \E g \in 1 .. MaxStarts : ListenerFails(g)
           \/ \E c \in Conn : Dial(c) \/ Close(c) \/ LinkLost(c)
  BY <1>1, LinksByOthers
<1>2. CASE SendBegin \/ SendHeader \/ SendMark
  <2>1. /\ UNCHANGED <<conn, clientOpen, inFlight, got, activeConnection>>
        /\ sender'.step # "idle" /\ Handed(sender'.conn)
    <3>1. CASE SendBegin
      BY <1>0, <3>1 DEF SendBegin, serverVars, linkVars, Links
    <3>2. CASE SendHeader \/ SendMark
      BY <1>0, <3>2 DEF SendHeader, SendMark, serverVars, linkVars, Links
    <3> QED BY <1>2, <3>1, <3>2
  <2> QED BY <1>0, <2>1 DEF Links, Handed, Receives
<1>3. CASE SendPut
  <2> DEFINE c == sender.conn
             lives == conn[c] \in {"setup", "ready"}
  <2>1. /\ c \in Conn /\ Handed(c)
        /\ inFlight' = [inFlight EXCEPT ![c] = @ + 1]
        /\ got' = IF lives /\ clientOpen[c]
                  THEN [got EXCEPT ![c] = Received(@, sender.withHeader)] ELSE got
        /\ conn' = IF lives /\ ~clientOpen[c]
                   THEN [conn EXCEPT ![c] = "failing"] ELSE conn
        /\ sender' = Idle /\ UNCHANGED <<clientOpen, activeConnection>>
    BY <1>0, <1>3 DEF SendPut, serverVars, Links
  <2>2. Received(got[c], sender.withHeader) # "nothing"
    BY DEF Received
  <2>3. \A d \in Conn : /\ Handed(d)' <=> Handed(d)
                        /\ Receives(d)' => Receives(d)
                        /\ conn'[d] = "failing" => ~clientOpen[d]
    BY <1>0, <2>1 DEF Links, Handed, Receives
  <2>4. \A d \in Conn : inFlight'[d] > 0 =>
          Handed(d) /\ (Receives(d) => got'[d] # "nothing")
    BY <1>0, <2>1, <2>2 DEF Links, Receives
  <2>5. sender'.step = "idle"
    BY <2>1 DEF Idle
  <2> QED BY <1>0, <2>1, <2>3, <2>4, <2>5 DEF Links
<1>4. CASE (\E c \in Conn : SendCompletes(c)) \/ UNCHANGED vars
  <2>1. /\ UNCHANGED <<conn, clientOpen, got, activeConnection, sender>>
        /\ \A d \in Conn : inFlight'[d] > 0 => inFlight[d] > 0
    BY <1>4 DEF SendCompletes, vars, serverVars, sendVars, linkVars
  <2> QED BY <1>0, <2>1 DEF Links, Handed, Receives
<1> QED BY <1>1, <1>2, <1>3, <1>4 DEF Next, SendStep

LEMMA StreamAlwaysHolds == Spec => []StreamAlways
<1>1. Init => StreamAlways
  BY HeaderInvInitially, CountInvInitially, StreamInvInitially DEF StreamAlways
<1>2. StreamAlways /\ [Next]_vars => StreamAlways'
  BY HeaderInvKept, CountInvKept, StreamInvKept DEF StreamAlways
<1> QED BY <1>1, <1>2, PTL DEF Spec

\* c is served, has got nothing yet, and nobody has interfered.
Waits(c) ==
  /\ activeConnection = c /\ conn[c] = "ready" /\ clientOpen[c] /\ got[c] # "ok"
  /\ main = "idle" /\ listener # 0 /\ ~overtaken /\ ~Restarted
HasStream(c) ==
  got[c] = "ok" \/ ~clientOpen[c] \/ Stopping \/ overtaken \/ Restarted

\* The work queue is in the middle of nothing then.
LEMMA WaitsQuietly ==
  ASSUME StreamAlways, NEW c \in Conn, Waits(c)
  PROVE  queue = "idle" /\ ~Changing
BY NoConnAssumption DEF StreamAlways, StreamInv, InHand, CountInv, TypeOK, Waits, Changing

\* Nobody but the encoder's thread does anything to a client that waits.
LEMMA WaitsStep ==
  ASSUME StreamAlways, [Next]_vars, ~SendStep, NEW c \in Conn, Waits(c)
  PROVE  HasStream(c)' \/ (Waits(c)' /\ sender' = sender)
<1> USE DEF StreamAlways, CountInv, TypeOK
<1>1. CASE StopBegin
  BY <1>1 DEF StopBegin, HasStream, Stopping
<1>2. ~Start /\ ~StopForget /\ ~StopListener /\ ~StopClear /\ ~HeaderIsOwed /\ ~TearDownClears
  BY WaitsQuietly
  DEF Start, StopForget, StopListener, StopClear, HeaderIsOwed, TearDownClears, Waits
<1>3. ASSUME NEW g \in 1 .. MaxStarts, ListenerReady(g) \/ ListenerFails(g)
      PROVE  Waits(c)' /\ sender' = sender
  <2>1. /\ UNCHANGED <<conn, clientOpen, got, activeConnection, listener, main, overtaken,
                       sender>>
        /\ listeners[g] # "none"
        /\ \A h \in 1 .. MaxStarts : listeners'[h] # listeners[h] => h = g
    BY <1>3 DEF ListenerReady, ListenerFails, linkVars, sendVars
  <2>2. ~Restarted'
    BY <2>1, BoundsAssumption DEF Waits, Restarted
  <2> QED BY <2>1, <2>2 DEF Waits
<1>4. ASSUME NEW d \in Conn, HandleIncoming(d) PROVE FALSE
  BY <1>4, NoConnAssumption DEF HandleIncoming, Waits
<1>5. ASSUME NEW d \in Conn, TearDown(d) PROVE FALSE
  <2>1. conn[d] \in {"cancelling", "failing"}
    BY <1>5 DEF TearDown, Ends
  <2>2. d = c
    BY <2>1 DEF StreamInv, Served, Waits
  <2> QED BY <2>1, <2>2 DEF Waits
<1>6. ASSUME NEW d \in Conn,
             RejectIncoming(d) \/ ConnectionReady(d) \/ Dial(d) \/ Close(d)
      PROVE  HasStream(c)' \/ (Waits(c)' /\ sender' = sender)
  <2>1. UNCHANGED <<got, sender, activeConnection, listener, listeners, main, overtaken>>
    BY <1>6 DEF RejectIncoming, ConnectionReady, Dial, Close, serverVars, sendVars
  <2>2. conn'[c] = "ready"
    BY <1>6 DEF RejectIncoming, ConnectionReady, Dial, Close, Waits
  <2>3. clientOpen'[c] \in BOOLEAN
    BY <1>6, Zenon DEF RejectIncoming, ConnectionReady, Dial, Close
  <2> QED BY <2>1, <2>2, <2>3 DEF Waits, HasStream, Restarted
<1>7. ASSUME NEW d \in Conn, LinkLost(d)
      PROVE  HasStream(c)' \/ (Waits(c)' /\ sender' = sender)
  <2>1. /\ UNCHANGED <<got, sender, activeConnection, listener, listeners, main, overtaken>>
        /\ clientOpen' = [clientOpen EXCEPT ![d] = FALSE]
        /\ conn' = [conn EXCEPT ![d] = "failing"]
    BY <1>7 DEF LinkLost, serverVars, sendVars
  <2>2. CASE d = c
    BY <2>1, <2>2 DEF HasStream
  <2>3. CASE d # c
    BY <2>1, <2>3 DEF Waits, Restarted
  <2> QED BY <2>2, <2>3
<1>8. CASE (\E d \in Conn : SendCompletes(d)) \/ UNCHANGED vars
  BY <1>8 DEF SendCompletes, vars, serverVars, sendVars, linkVars, Waits, Restarted
<1> QED
  BY <1>1, <1>2, <1>3, <1>4, <1>5, <1>6, <1>7, <1>8 DEF Next, MainStep, QueueStep

\* send(), for a client that waits: what is put reaches it, with the header.
LEMMA WaitsSend ==
  ASSUME StreamAlways, SendStep, NEW c \in Conn, Waits(c)
  PROVE  /\ sender = Idle => Waits(c)' /\ sender'.step = "header"
         /\ sender.step = "header" => Waits(c)' /\ sender'.step \in {"mark", "put"}
         /\ sender.step = "mark" => Waits(c)' /\ sender'.step = "put"
         /\ sender.step = "put" => got'[c] = "ok"
<1> USE DEF StreamAlways, CountInv, TypeOK
<1>1. Idle.step = "idle"
  BY DEF Idle
<1>2. CASE SendBegin
  BY <1>1, <1>2, WaitsQuietly DEF SendBegin, serverVars, linkVars, Waits, Restarted
<1>3. CASE SendHeader
  <2>1. PICK k \in {"put", "mark"} : k = IF headerSent THEN "put" ELSE "mark"
    OBVIOUS
  <2>2. sender'.step = k /\ sender.step = "header"
    BY <1>3, <2>1 DEF SendHeader
  <2>3. Waits(c)'
    BY <1>3 DEF SendHeader, serverVars, linkVars, Waits, Restarted
  <2> QED BY <1>1, <2>2, <2>3
<1>4. CASE SendMark
  BY <1>1, <1>4 DEF SendMark, linkVars, Waits, Restarted
<1>5. CASE SendPut
  <2>1. /\ sender.step = "put" /\ sender.conn = c /\ Receives(c) /\ got[c] \in {"nothing", "ok"}
    BY <1>5 DEF SendPut, HeaderInv, HeaderSentTrue, GotInv, Waits, Receives
  <2>2. got' = [got EXCEPT ![c] = Received(@, sender.withHeader)]
    BY <1>5, <2>1 DEF SendPut, Receives
  <2>3. sender.withHeader /\ got[c] = "nothing"
    BY <2>1, WaitsQuietly DEF HeaderInv, HeaderSentTrue, Unheaded, Waits
  <2>4. got'[c] = "ok"
    BY <2>2, <2>3 DEF Received
  <2> QED BY <1>1, <2>1, <2>4
<1> QED BY <1>2, <1>3, <1>4, <1>5 DEF SendStep

LEMMA WaitsCanSend ==
  ASSUME StreamAlways, MaxInFlight > 0, NEW c \in Conn, Waits(c)
  PROVE  SendCanGo
<1>1. CASE sender.step = "idle"
  <2>1. sender = Idle
    BY <1>1 DEF StreamAlways, StreamInv, Links
  <2>2. got[c] = "nothing" /\ Receives(c)
    BY DEF StreamAlways, HeaderInv, GotInv, Waits, Receives
  <2>3. inFlight[c] = 0
    BY <2>2 DEF StreamAlways, StreamInv, Links, CountInv, TypeOK
  <2> QED BY <2>1, <2>3, NoConnAssumption DEF SendCanGo, Waits
<1>2. CASE sender.step # "idle"
  BY <1>2 DEF SendCanGo, StreamAlways, CountInv, TypeOK
<1> QED BY <1>1, <1>2

(***************************************************************************)
(* An accepted client that stays gets its stream, headed as it should be   *)
(* (VideoStreamServer.swift:87-181), for any clients and bounds: it takes  *)
(* at most one unit that is not outstanding yet.                           *)
(***************************************************************************)
THEOREM AcceptedAlwaysStreamed ==
  ASSUME MaxInFlight > 0
  PROVE  FairSpec /\ []SendGuardEnables => AcceptedIsStreamed
<1>1. ASSUME NEW c \in Conn
      PROVE  FairSpec /\ []SendGuardEnables =>
               (activeConnection = c /\ conn[c] = "ready" ~> HasStream(c))
  <2> DEFINE S1 == Waits(c) /\ sender = Idle
             S2 == Waits(c) /\ sender.step = "header"
             S3 == Waits(c) /\ sender.step = "mark"
             S4 == Waits(c) /\ sender.step = "put"
             T == HasStream(c)
             P == activeConnection = c /\ conn[c] = "ready"
  <2>0. <<Encodes>>_vars => SendStep /\ [Next]_vars
    BY DEF Encodes, Next
  <2>1. /\ StreamAlways /\ S1 /\ [Next]_vars => S1' \/ S2' \/ T'
        /\ StreamAlways /\ S1 /\ <<Encodes>>_vars => S2'
    BY <2>0, WaitsStep, WaitsSend
  <2>2. /\ StreamAlways /\ S2 /\ [Next]_vars => S2' \/ S3' \/ S4' \/ T'
        /\ StreamAlways /\ S2 /\ <<Encodes>>_vars => S3' \/ S4'
    BY <2>0, WaitsStep, WaitsSend
  <2>3. /\ StreamAlways /\ S3 /\ [Next]_vars => S3' \/ S4' \/ T'
        /\ StreamAlways /\ S3 /\ <<Encodes>>_vars => S4'
    BY <2>0, WaitsStep, WaitsSend
  <2>4. /\ StreamAlways /\ S4 /\ [Next]_vars => S4' \/ T'
        /\ StreamAlways /\ S4 /\ <<Encodes>>_vars => T'
    BY <2>0, WaitsStep, WaitsSend DEF HasStream
  <2>5. StreamAlways /\ (S1 \/ S2 \/ S3 \/ S4) => SendCanGo
    BY WaitsCanSend
  <2>6. StreamAlways /\ P => S1 \/ S2 \/ S3 \/ S4 \/ T
    BY DEF StreamAlways, StreamInv, Links, CountInv, TypeOK, Waits, HasStream, Stopping
  <2> HIDE DEF S1, S2, S3, S4, T, P
  <2>7. FairSpec /\ []SendGuardEnables => (P ~> T)
    BY <2>1, <2>2, <2>3, <2>4, <2>5, <2>6, StreamAlwaysHolds, PTL
    DEF FairSpec, Fairness, Spec, SendGuardEnables
  <2> QED BY <2>7 DEF P, T
<1> QED BY <1>1 DEF AcceptedIsStreamed, HasStream
=============================================================================
