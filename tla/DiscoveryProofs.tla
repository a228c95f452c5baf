---------------------------- MODULE DiscoveryProofs ----------------------------
(***************************************************************************)
(* Proofs about Discovery, for any phones and any MissedMax.               *)
(***************************************************************************)
EXTENDS Discovery, FiniteSetTheorems, SequenceTheorems, WellFoundedInduction, TLAPS

Steps == {"opening", "query", "collect", "reconcile", "wait", "ended"}
Addresses == Phones \X (Nat \ {0})
Hosts == {NoHost, Absent} \cup Addresses

LoopTypes ==
    /\ moves \in [Phones -> Nat \ {0}]
    /\ worker \in Steps /\ gui \in {"idle", "stopping", "closed"}
    /\ pending \in [Phones -> Hosts]
    /\ todo \in SUBSET Phones
    /\ known \in [Phones -> Hosts] /\ missed \in [Phones -> Nat]
    /\ quiet \in [Phones -> Nat]

\* The browser's count of a phone's silence is the true one, ...
Counted(n) ==
    IF known[n] = NoHost THEN quiet[n] = MissedMax
    ELSE quiet[n] = missed[n] /\ missed[n] < MissedMax

\* ... except, until a cycle is reconciled, for the cycle that has just ended.
Behind(n) ==
    IF Seen(n) THEN quiet[n] = 0
    ELSE IF known[n] = NoHost THEN quiet[n] = MissedMax
         ELSE quiet[n] = missed[n] + 1 /\ missed[n] < MissedMax

CountInv ==
    /\ worker \in {"opening", "query", "collect", "wait"} => \A n \in Phones : Counted(n)
    /\ worker = "reconcile" => \A n \in Phones : IF n \in todo THEN Behind(n) ELSE Counted(n)

\* The application's map follows the browser's; a browser that is not running
\* any more has been stopped or has never started.
ListInv ==
    /\ discovered = {n \in Phones : known[n] # NoHost}
    /\ worker = "opening" => discovered = {}
    /\ unopened => worker = "ended" /\ discovered = {}
    /\ gui = "idle" /\ ~running => unopened
    /\ gui = "closed" => worker = "ended" /\ discovered = {} /\ (~joinable \/ unopened)

KnownInv == LoopTypes /\ CountInv /\ ListInv

LEMMA KnownInvSuffices == KnownInv => KnownIsTrue
<1> SUFFICES ASSUME KnownInv PROVE KnownIsTrue
  OBVIOUS
<1>1. ASSUME At("wait"), NEW n \in Phones PROVE known[n] # NoHost <=> quiet[n] < MissedMax
  <2>1. Counted(n)
    BY <1>1 DEF KnownInv, CountInv, At
  <2> QED BY <2>1, ConstantsAssumption DEF Counted, KnownInv, LoopTypes
<1> QED
  BY <1>1 DEF KnownInv, ListInv, KnownIsTrue

LEMMA KnownInvInitially == Init => KnownInv
<1> SUFFICES ASSUME Init PROVE KnownInv
  OBVIOUS
<1>1. LoopTypes
  BY ConstantsAssumption DEF Init, LoopTypes, Steps, Hosts
<1>2. CountInv
  BY DEF Init, CountInv, Counted
<1>3. ListInv
  BY DEF Init, ListInv
<1> QED BY <1>1, <1>2, <1>3 DEF KnownInv

(***************************************************************************)
(* What the invariant is about, moves excepted.                            *)
(***************************************************************************)
browser == <<running, worker, joinable, pending, todo, known, missed, discovered,
             gui, quiet, unopened>>

\* A step that touches none of it, and leaves the addresses addresses.
LEMMA BrowserUntouched ==
  ASSUME KnownInv, UNCHANGED browser, moves' \in [Phones -> Nat \ {0}]
  PROVE  KnownInv'
<1>1. LoopTypes'
  BY DEF KnownInv, LoopTypes, browser
<1>2. CountInv'
  BY DEF KnownInv, CountInv, Counted, Behind, Seen, browser
<1>3. ListInv'
  BY DEF KnownInv, ListInv, browser
<1> QED BY <1>1, <1>2, <1>3 DEF KnownInv

\* The phones do not touch it.
LEMMA PhonesKeepIt ==
  ASSUME KnownInv, NEW n \in Phones,
         \/ Start(n) \/ Stop(n) \/ StateUpdate(n) \/ Move(n) \/ Connect(n) \/ Disconnect(n)
  PROVE  KnownInv'
<1>1. UNCHANGED browser
  BY DEF Start, Stop, StateUpdate, Move, Connect, Disconnect,
         Untouched, loopVars, browser
<1>2. moves' \in [Phones -> Nat \ {0}]
  <2>1. CASE Move(n)
    BY <2>1 DEF Move, KnownInv, LoopTypes
  <2>2. CASE ~Move(n)
    BY <2>2 DEF Start, Stop, StateUpdate, Connect, Disconnect,
                phoneVars, KnownInv, LoopTypes
  <2> QED BY <2>1, <2>2
<1> QED BY <1>1, <1>2, BrowserUntouched

\* One packet fills in entries of pending.
LEMMA PacketKeepsIt ==
  ASSUME KnownInv, NEW n \in Phones, Answer(n) \/ Names(n) \/ Resolves(n)
  PROVE  KnownInv'
<1>1. PICK p : /\ Packet(p, n)
               /\ p \in {Resolved(Named(n), Address(n)), Named(n), Resolved(pending, Address(n))}
  BY DEF Answer, Names, Resolves
<1>2. Address(n) \in Hosts /\ NoHost \in Hosts
  BY DEF Address, Hosts, Addresses, KnownInv, LoopTypes
<1>3. pending \in [Phones -> Hosts]
  BY DEF KnownInv, LoopTypes
<1>4. p \in [Phones -> Hosts]
  <2>1. Named(n) \in [Phones -> Hosts]
    BY <1>2, <1>3 DEF Named
  <2>2. ASSUME NEW q \in [Phones -> Hosts]
        PROVE  Resolved(q, Address(n)) \in [Phones -> Hosts]
    BY <1>2 DEF Resolved
  <2> QED BY <1>1, <1>3, <2>1, <2>2
<1>5. /\ pending' = p /\ worker = "collect"
      /\ UNCHANGED <<moves, running, joinable, worker, todo, known, missed, discovered,
                     gui, quiet, unopened>>
  BY <1>1 DEF Packet, At, phoneVars, loopVars, Lists
<1>6. LoopTypes'
  BY <1>4, <1>5 DEF KnownInv, LoopTypes
<1>7. CountInv'
  BY <1>5 DEF KnownInv, CountInv, Counted
<1>8. ListInv'
  BY <1>5 DEF KnownInv, ListInv
<1> QED BY <1>6, <1>7, <1>8 DEF KnownInv

\* The end of a query's window counts a cycle for every phone.
LEMMA WindowKeepsIt == ASSUME KnownInv, WindowEnds PROVE KnownInv'
<1>1. /\ worker = "collect" /\ worker' = "reconcile" /\ todo' = Phones
      /\ quiet' = [n \in Phones |-> IF Seen(n) THEN 0
                                    ELSE IF quiet[n] < MissedMax THEN quiet[n] + 1 ELSE quiet[n]]
      /\ UNCHANGED <<moves, running, joinable, pending, known, missed, discovered,
                     gui, unopened>>
  BY DEF WindowEnds, At, Cycle, phoneVars, loopVars, Lists
<1>2. LoopTypes'
  BY <1>1 DEF KnownInv, LoopTypes, Steps
<1>3. CountInv'
  <2> SUFFICES ASSUME NEW n \in Phones PROVE Behind(n)'
    BY <1>1 DEF CountInv
  <2>1. Counted(n) /\ quiet[n] \in Nat /\ missed[n] \in Nat /\ MissedMax \in Nat
    BY <1>1, ConstantsAssumption DEF KnownInv, CountInv, LoopTypes
  <2>2. /\ quiet'[n] = IF Seen(n) THEN 0
                       ELSE IF quiet[n] < MissedMax THEN quiet[n] + 1 ELSE quiet[n]
        /\ Seen(n)' = Seen(n)
    BY <1>1 DEF Seen
  <2> QED BY <1>1, <2>1, <2>2 DEF Counted, Behind
<1>4. ListInv'
  BY <1>1 DEF KnownInv, ListInv
<1> QED BY <1>2, <1>3, <1>4 DEF KnownInv

\* One instance is found, missed once more, or removed.
LEMMA ReconcileKeepsIt ==
  ASSUME KnownInv, NEW n \in Phones, Reconcile(n)
  PROVE  KnownInv'
<1>1. /\ worker = "reconcile" /\ n \in todo /\ todo' = todo \ {n}
      /\ IF Seen(n) THEN Found(n) ELSE Missed(n)
      /\ pending' = [pending EXCEPT ![n] = Absent]
      /\ worker' \in {"wait", "reconcile"} /\ (worker' = "wait" => todo' = {})
      /\ UNCHANGED <<moves, running, joinable, gui, quiet, unopened>>
  BY DEF Reconcile, At, Turn, Cycle, phoneVars, loopVars
<1>2. /\ known \in [Phones -> Hosts] /\ pending \in [Phones -> Hosts]
      /\ missed \in [Phones -> Nat] /\ NoHost \in Hosts /\ Absent \in Hosts
      /\ Behind(n) /\ MissedMax \in Nat \ {0} /\ quiet[n] \in Nat
  BY <1>1, ConstantsAssumption DEF KnownInv, LoopTypes, CountInv, Hosts
<1>3. /\ known' \in [Phones -> Hosts] /\ missed' \in [Phones -> Nat]
      /\ known'[n] \in {NoHost, known[n], pending[n]}
      /\ \A m \in Phones \ {n} : known'[m] = known[m] /\ missed'[m] = missed[m]
      /\ Counted(n)'
      /\ discovered' = {m \in Phones : known'[m] # NoHost}
  <2>0. discovered = {m \in Phones : known[m] # NoHost}
    BY DEF KnownInv, ListInv
  <2>1. CASE Seen(n)
    <3>1. /\ known' = [known EXCEPT ![n] = pending[n]] /\ missed' = [missed EXCEPT ![n] = 0]
          /\ pending[n] # NoHost /\ quiet' = quiet /\ quiet[n] = 0
          /\ discovered' = IF known[n] = pending[n] THEN discovered ELSE discovered \cup {n}
      BY <1>1, <1>2, <2>1 DEF Found, Seen, Behind
    <3>2. known'[n] = pending[n] /\ missed'[n] = 0
      BY <1>2, <3>1
    <3>3. Counted(n)'
      BY <1>2, <3>1, <3>2 DEF Counted
    <3>4. discovered' = {m \in Phones : known'[m] # NoHost}
      BY <1>2, <2>0, <3>1
    <3> QED BY <1>2, <3>1, <3>3, <3>4
  <2>2. CASE ~Seen(n) /\ known[n] = NoHost
    <3>1. known' = known /\ missed' = missed /\ discovered' = discovered /\ quiet' = quiet
      BY <1>1, <2>2 DEF Missed, Lists
    <3>2. Counted(n)'
      BY <1>2, <2>2, <3>1 DEF Counted, Behind
    <3> QED BY <1>2, <2>0, <3>1, <3>2
  <2>3. CASE ~Seen(n) /\ known[n] # NoHost /\ missed[n] + 1 >= MissedMax
    <3>1. /\ known' = [known EXCEPT ![n] = NoHost] /\ missed' = [missed EXCEPT ![n] = 0]
          /\ discovered' = discovered \ {n} /\ quiet' = quiet
      BY <1>1, <2>3 DEF Missed
    <3>2. quiet[n] = MissedMax
      BY <1>2, <2>3 DEF Behind
    <3>3. known'[n] = NoHost
      BY <1>2, <3>1
    <3>4. Counted(n)'
      BY <3>1, <3>2, <3>3 DEF Counted
    <3>5. discovered' = {m \in Phones : known'[m] # NoHost}
      BY <1>2, <2>0, <3>1
    <3> QED BY <1>2, <3>1, <3>4, <3>5
  <2>4. CASE ~Seen(n) /\ known[n] # NoHost /\ ~(missed[n] + 1 >= MissedMax)
    <3>1. /\ known' = known /\ missed' = [missed EXCEPT ![n] = @ + 1]
          /\ discovered' = discovered /\ quiet' = quiet
      BY <1>1, <2>4 DEF Missed
    <3>2. missed'[n] = missed[n] + 1 /\ missed[n] + 1 < MissedMax
      BY <1>2, <2>4, <3>1
    <3>3. Counted(n)'
      BY <1>2, <2>4, <3>1, <3>2 DEF Counted, Behind
    <3> QED BY <1>2, <2>0, <3>1, <3>3
  <2> QED BY <2>1, <2>2, <2>3, <2>4
<1>4. LoopTypes'
  BY <1>1, <1>2, <1>3 DEF KnownInv, LoopTypes, Steps
<1>5. CountInv'
  <2>1. ASSUME NEW m \in Phones \ {n}
        PROVE  /\ Counted(m) => Counted(m)'
               /\ Behind(m) => Behind(m)'
    BY <1>1, <1>2, <1>3 DEF Counted, Behind, Seen
  <2> QED BY <1>1, <1>3, <2>1 DEF KnownInv, CountInv
<1>6. ListInv'
  BY <1>1, <1>3 DEF KnownInv, ListInv
<1> QED BY <1>4, <1>5, <1>6 DEF KnownInv

\* The other steps of the browser's thread, and Stop.
LEMMA LoopKeepsIt ==
  ASSUME KnownInv, OpenSocket \/ Query \/ Wait \/ Close \/ Joined
  PROVE  KnownInv'
<1>1. CASE OpenSocket
  <2>1. LoopTypes' /\ CountInv'
    BY <1>1 DEF OpenSocket, At, phoneVars, Lists, KnownInv, LoopTypes, CountInv, Counted, Steps
  <2>2. ListInv'
    BY <1>1 DEF OpenSocket, At, Lists, KnownInv, ListInv
  <2> QED BY <2>1, <2>2 DEF KnownInv
<1>2. CASE Query \/ Wait
  <2>1. /\ worker \in {"query", "wait"} /\ worker' \in {"query", "collect", "ended"}
        /\ UNCHANGED <<moves, running, joinable, pending, todo, known, missed, discovered,
                       gui, quiet, unopened>>
    BY <1>2 DEF Query, Wait, At, Cycle, phoneVars, loopVars, Lists
  <2>2. LoopTypes' /\ CountInv'
    BY <2>1 DEF KnownInv, LoopTypes, CountInv, Counted, Steps
  <2>3. ListInv'
    BY <2>1 DEF KnownInv, ListInv
  <2> QED BY <2>2, <2>3 DEF KnownInv
<1>3. CASE Close
  <2>1. /\ gui = "idle" /\ gui' = IF running THEN "stopping" ELSE "closed"
        /\ UNCHANGED <<moves, worker, joinable, pending, todo, known, missed, discovered,
                       quiet, unopened>>
    BY <1>3 DEF Close, phoneVars, Lists
  <2>2. LoopTypes'
    BY <2>1 DEF KnownInv, LoopTypes
  <2>3. CountInv'
    BY <2>1 DEF KnownInv, CountInv, Counted, Behind, Seen
  <2>4. ListInv'
    BY <2>1 DEF KnownInv, ListInv
  <2> QED BY <2>2, <2>3, <2>4 DEF KnownInv
<1>4. CASE Joined
  <2>1. /\ worker = "ended" /\ gui = "stopping" /\ gui' = "closed" /\ ~joinable'
        /\ discovered' = {n \in discovered : known[n] = NoHost}
        /\ known' = [n \in Phones |-> NoHost] /\ missed' = [n \in Phones |-> 0]
        /\ UNCHANGED <<moves, running, unopened, worker, pending, todo, quiet>>
    BY <1>4 DEF Joined, At, phoneVars
  <2>2. discovered' = {}
    BY <2>1 DEF KnownInv, ListInv
  <2>3. LoopTypes' /\ CountInv'
    BY <2>1 DEF KnownInv, LoopTypes, CountInv, Hosts
  <2>4. ListInv'
    BY <2>1, <2>2 DEF KnownInv, ListInv
  <2> QED BY <2>3, <2>4 DEF KnownInv
<1> QED BY <1>1, <1>2, <1>3, <1>4

LEMMA KnownInvKept == KnownInv /\ [Next]_vars => KnownInv'
<1> SUFFICES ASSUME KnownInv, [Next]_vars PROVE KnownInv'
  OBVIOUS
<1>1. CASE Worker
  BY <1>1, LoopKeepsIt, WindowKeepsIt, ReconcileKeepsIt DEF Worker
<1>2. CASE UpdateAvailableDevices \/ IoClears \/ IoFills
  <2>1. UNCHANGED browser /\ moves' \in [Phones -> Nat \ {0}]
    BY <1>2 DEF UpdateAvailableDevices, IoClears, IoFills, Refreshes, Untouched,
                phoneVars, loopVars, browser, KnownInv, LoopTypes
  <2> QED BY <2>1, BrowserUntouched
<1>3. CASE Close \/ Joined
  BY <1>3, LoopKeepsIt
<1>4. ASSUME NEW n \in Phones,
             \/ Start(n) \/ Stop(n) \/ StateUpdate(n) \/ Move(n) \/ Connect(n) \/ Disconnect(n)
             \/ Answer(n) \/ Names(n) \/ Resolves(n)
      PROVE  KnownInv'
  BY <1>4, PhonesKeepIt, PacketKeepsIt
<1>5. CASE UNCHANGED vars
  <2>1. UNCHANGED browser /\ moves' \in [Phones -> Nat \ {0}]
    BY <1>5 DEF vars, browser, KnownInv, LoopTypes
  <2> QED BY <2>1, BrowserUntouched
<1> QED BY <1>1, <1>2, <1>3, <1>4, <1>5 DEF Next

\* The browser forgets a phone exactly when it has been silent for MissedMax
\* cycles, agrees with the application, and leaves nothing behind when it is
\* stopped, but for a thread that never got its socket (mdnsdiscovery.cpp:131-143, 205-275).
THEOREM KnownIsAlwaysTrue == Spec => []KnownIsTrue
<1>1. Init => KnownInv
  BY KnownInvInitially
<1>2. KnownInv /\ [Next]_vars => KnownInv'
  BY KnownInvKept
<1>3. KnownInv => KnownIsTrue
  BY KnownInvSuffices
<1> QED BY <1>1, <1>2, <1>3, PTL DEF Spec

-----------------------------------------------------------------------------
(***************************************************************************)
(* The rows.  A finite set of numbers has an ascending enumeration, so     *)
(* that Rows lists exactly the phones it is given.                         *)
(***************************************************************************)
LEMMA LeastNumber ==
  ASSUME NEW T \in SUBSET Nat, T # {}
  PROVE  \E n \in T : \A m \in T : n <= m
<1>1. IsWellFoundedOn(OpToRel(<, Nat), Nat)
  BY NatLessThanWellFounded
<1>2. \E x \in T : \A y \in T : ~ (<<y, x>> \in OpToRel(<, Nat))
  BY <1>1, WFMin
<1>3. \A x, y \in Nat : y < x => <<y, x>> \in OpToRel(<, Nat)
  BY DEF OpToRel
<1>4. PICK x \in T : \A y \in T : ~(y < x)
  BY <1>2, <1>3
<1> QED BY <1>4

Enumerates(s, S) == s \in [1 .. Cardinality(S) -> S] /\ IsAscending(s)

\* The least element in front of an enumeration of the others.
LEMMA LeastInFront ==
  ASSUME NEW S \in SUBSET Nat, IsFiniteSet(S), NEW m \in S, \A x \in S : m <= x,
         NEW t, Enumerates(t, S \ {m})
  PROVE  \E s : Enumerates(s, S)
<1> DEFINE k == Cardinality(S)
           s == [i \in 1 .. k |-> IF i = 1 THEN m ELSE t[i - 1]]
<1>1. k \in Nat /\ Cardinality(S \ {m}) = k - 1 /\ Cardinality(S \ {m}) \in Nat
  BY FS_CardinalityType, FS_RemoveElement
<1>2. t \in [1 .. k - 1 -> S \ {m}] /\ \A i, j \in 1 .. k - 1 : i < j => t[i] < t[j]
  BY <1>1 DEF Enumerates, IsAscending
<1> HIDE DEF k
<1>3. \A i \in 2 .. k : i - 1 \in 1 .. k - 1 /\ t[i - 1] \in S \ {m}
  BY <1>1, <1>2
<1>4. s \in [1 .. k -> S]
  BY <1>3
<1>5. ASSUME NEW i \in 1 .. k, NEW j \in 1 .. k, i < j
      PROVE  s[i] < s[j]
  <2>1. j \in 2 .. k /\ s[j] = t[j - 1] /\ t[j - 1] \in S \ {m}
    BY <1>1, <1>3, <1>5
  <2>2. CASE i = 1
    <3>1. s[i] = m
      BY <2>2
    <3>2. m \in Nat /\ t[j - 1] \in Nat /\ m <= t[j - 1] /\ m # t[j - 1]
      BY <2>1
    <3>3. m < t[j - 1]
      BY <3>2
    <3> QED BY <2>1, <3>1, <3>3
  <2>3. CASE i # 1
    <3>1. i \in 2 .. k /\ s[i] = t[i - 1] /\ i - 1 < j - 1
      BY <2>3, <1>5, <1>1
    <3> QED BY <1>1, <1>2, <1>3, <2>1, <3>1
  <2> QED BY <2>2, <2>3
<1>6. IsAscending(s)
  BY <1>4, <1>5 DEF IsAscending
<1> QED BY <1>4, <1>6 DEF Enumerates, k

\* By the least size of a set without one.
LEMMA EnumerationExists ==
  ASSUME NEW S \in SUBSET Nat, IsFiniteSet(S)
  PROVE  \E s : Enumerates(s, S)
<1> DEFINE Bare(R) == IsFiniteSet(R) /\ ~ \E s : Enumerates(s, R)
           T == {k \in Nat : \E R \in SUBSET Nat : Bare(R) /\ Cardinality(R) = k}
<1>1. SUFFICES ASSUME Bare(S) PROVE FALSE
  OBVIOUS
<1>2. Cardinality(S) \in T
  BY <1>1, FS_CardinalityType
<1>3. PICK k \in T : \A j \in T : k <= j
  <2> HIDE DEF T
  <2>1. T \in SUBSET Nat
    BY DEF T
  <2> QED BY <1>2, <2>1, LeastNumber
<1>4. PICK R \in SUBSET Nat : Bare(R) /\ Cardinality(R) = k
  BY <1>3
<1>5. R # {}
  <2>1. ASSUME R = {} PROVE Enumerates(<<>>, R)
    BY <2>1, FS_EmptySet DEF Enumerates, IsAscending
  <2> QED BY <1>4, <2>1
<1>6. PICK m \in R : \A x \in R : m <= x
  BY <1>5, LeastNumber
<1>7. /\ IsFiniteSet(R \ {m}) /\ Cardinality(R \ {m}) = k - 1
      /\ R \ {m} \in SUBSET Nat /\ k - 1 \in Nat /\ k \in Nat
  <2> HIDE DEF T
  <2>1. IsFiniteSet(R) /\ Cardinality(R) = k
    BY <1>4
  <2>2. Cardinality(R) \in Nat
    BY <2>1, FS_CardinalityType
  <2>3. IsFiniteSet(R \ {m}) /\ Cardinality(R \ {m}) = Cardinality(R) - 1
    BY <1>6, <2>1, FS_RemoveElement
  <2>4. Cardinality(R \ {m}) \in Nat
    BY <2>3, FS_CardinalityType
  <2> QED BY <2>1, <2>2, <2>3, <2>4
<1>8. k - 1 \notin T
  BY <1>3, <1>7
<1>9. \E t : Enumerates(t, R \ {m})
  BY <1>7, <1>8
<1>10. \E s : Enumerates(s, R)
  BY <1>4, <1>6, <1>9, LeastInFront
<1> QED BY <1>4, <1>10

LEMMA AscendingEnumerates ==
  ASSUME NEW S \in SUBSET Nat, IsFiniteSet(S)
  PROVE  Ascending(S) \in Seq(S) /\ IsAscending(Ascending(S))
<1>1. PICK s : Enumerates(s, S)
  BY EnumerationExists
<1>2. Cardinality(S) \in Nat
  BY FS_CardinalityType
<1>3. s \in SetToSeqs(S)
  <2>1. \A i, j \in 1 .. Cardinality(S) : i # j => s[i] # s[j]
    <3> SUFFICES ASSUME NEW i \in 1 .. Cardinality(S), NEW j \in 1 .. Cardinality(S), i # j
                 PROVE  s[i] # s[j]
      OBVIOUS
    <3>1. i < j \/ j < i
      BY <1>2
    <3>2. s[i] \in Nat /\ s[j] \in Nat /\ (s[i] < s[j] \/ s[j] < s[i])
      BY <1>1, <3>1 DEF Enumerates, IsAscending
    <3> QED BY <3>2
  <2> QED BY <1>1, <2>1 DEF SetToSeqs, Enumerates
<1>4. Ascending(S) \in SetToSeqs(S) /\ IsAscending(Ascending(S))
  BY <1>1, <1>3 DEF Ascending, Enumerates
<1>5. Ascending(S) \in [1 .. Cardinality(S) -> S]
  BY <1>4 DEF SetToSeqs
<1> QED BY <1>2, <1>4, <1>5

\* The rows: the connected phones, and then some of the others.
LEMMA RowsByPlace ==
  ASSUME NEW conn \in Seq(Phones), NEW disc \in SUBSET Phones, IsFiniteSet(disc)
  PROVE  /\ Rows(conn, disc) \in Seq(Phones)
         /\ \A i \in 1 .. Len(conn) : i \in DOMAIN Rows(conn, disc) /\ Rows(conn, disc)[i] = conn[i]
         /\ \A i \in DOMAIN Rows(conn, disc) : i > Len(conn) =>
              Rows(conn, disc)[i] \in disc \ ToSet(conn)
<1> DEFINE rest == disc \ ToSet(conn)
<1>1. Ascending(rest) \in Seq(rest)
  <2>1. rest \in SUBSET Nat /\ IsFiniteSet(rest)
    BY FS_Subset, ConstantsAssumption
  <2> QED BY <2>1, AscendingEnumerates
<1>2. Ascending(rest) \in Seq(Phones)
  BY <1>1, SeqMonotonic
<1>3. /\ Rows(conn, disc) \in Seq(Phones)
      /\ Len(Rows(conn, disc)) = Len(conn) + Len(Ascending(rest))
      /\ \A i \in 1 .. Len(conn) + Len(Ascending(rest)) :
           Rows(conn, disc)[i] = IF i <= Len(conn) THEN conn[i] ELSE Ascending(rest)[i - Len(conn)]
  BY <1>2, ConcatProperties DEF Rows
<1>4. \A j \in 1 .. Len(Ascending(rest)) : Ascending(rest)[j] \in rest
  BY <1>1, ElementOfSeq
<1>5. Len(conn) \in Nat /\ Len(Ascending(rest)) \in Nat
  BY <1>2, LenProperties
<1>6. DOMAIN Rows(conn, disc) = 1 .. Len(conn) + Len(Ascending(rest))
  BY <1>3, LenProperties
<1> HIDE DEF rest
<1>7. ASSUME NEW i \in DOMAIN Rows(conn, disc), i > Len(conn)
      PROVE  Rows(conn, disc)[i] \in rest
  BY <1>3, <1>4, <1>5, <1>6, <1>7
<1>8. ASSUME NEW i \in 1 .. Len(conn)
      PROVE  i \in DOMAIN Rows(conn, disc) /\ Rows(conn, disc)[i] = conn[i]
  BY <1>3, <1>5, <1>6, <1>8
<1> QED BY <1>3, <1>7, <1>8 DEF rest

\* What is shown, unless doubled, are the phones connected at the last refresh
\* with those discovered at some moment since, of now unless a refresh is
\* queued; in the midst of an IO thread's change of the list only the phones in
\* front of the one changed are as they were.
Before(conn) ==
    IF io = "rest" THEN conn = connected
    ELSE \A i \in 1 .. place - 1 : i <= Len(conn) /\ conn[i] = connected[i]

ShownInv ==
    /\ connected \in Seq(Phones) /\ IsFiniteSet(discovered)
    /\ io \in {"rest", "listed", "cleared"} /\ place \in Nat /\ place <= Len(connected) + 1
    /\ \/ doubled
       \/ io = "cleared" /\ shown = <<>>
       \/ \E conn \in Seq(Phones), disc \in SUBSET Phones :
            /\ IsFiniteSet(disc) /\ shown = Rows(conn, disc)
            /\ Before(conn) /\ (~refresh => disc = discovered)

RowInv == KnownInv /\ ShownInv

LEMMA RowInvSuffices == RowInv => RowsAreTrue
<1> SUFFICES ASSUME RowInv, ~doubled PROVE RowsAreTrue
  BY DEF RowsAreTrue
<1>1. /\ connected \in Seq(Phones) /\ IsFiniteSet(discovered)
      /\ discovered \in SUBSET Phones /\ 0 \notin Phones
      /\ place \in Nat /\ Len(connected) \in Nat /\ place <= Len(connected) + 1
  BY ConstantsAssumption, LenProperties DEF RowInv, ShownInv, KnownInv, ListInv
<1>2. CASE io = "cleared" /\ shown = <<>>
  <2>1. DOMAIN shown = {}
    BY <1>2
  <2> QED BY <1>2, <2>1 DEF RowsAreTrue
<1>3. CASE ~(io = "cleared" /\ shown = <<>>)
  <2>1. PICK conn \in Seq(Phones), disc \in SUBSET Phones :
          /\ IsFiniteSet(disc) /\ shown = Rows(conn, disc)
          /\ Before(conn) /\ (~refresh => disc = discovered)
    BY <1>3 DEF RowInv, ShownInv
  <2>2. 0 \notin ToSet(connected)
    BY <1>1, LenProperties, ElementOfSeq DEF ToSet
  <2>3. ASSUME NEW i \in DOMAIN shown, Resolve(i) # shown[i], io # "rest" => i < place
        PROVE  {Resolve(i), shown[i]} \cap ToSet(connected) = {}
    <3>1. i \in 1 .. Len(shown) /\ i \in Nat /\ i >= 1
      BY <1>1, <2>1, RowsByPlace, LenProperties
    <3>2. io = "rest" /\ conn = connected
      <4>1. ASSUME io # "rest" PROVE FALSE
        <5>1. i \in 1 .. place - 1
          BY <1>1, <2>3, <3>1, <4>1
        <5>2. i <= Len(conn) /\ conn[i] = connected[i]
          BY <2>1, <4>1, <5>1 DEF Before
        <5>3. i \in 1 .. Len(conn) /\ i \in 1 .. Len(connected)
          BY <1>1, <3>1, <5>1, <5>2, LenProperties
        <5>4. shown[i] = conn[i]
          BY <2>1, <5>3, RowsByPlace
        <5>5. Resolve(i) = connected[i]
          BY <1>1, <5>3, RowsByPlace DEF Resolve
        <5> QED BY <2>3, <5>2, <5>4, <5>5
      <4> QED BY <2>1, <4>1 DEF Before
    <3>3. ~(i \in 1 .. Len(connected))
      BY <1>1, <2>1, <2>3, <3>2, RowsByPlace DEF Resolve
    <3>4. i > Len(connected)
      BY <1>1, <3>1, <3>3
    <3>5. shown[i] \in disc \ ToSet(connected)
      BY <1>1, <2>1, <2>3, <3>2, <3>4, RowsByPlace
    <3>6. Resolve(i) = 0 \/ Resolve(i) \in discovered \ ToSet(connected)
      BY <1>1, <3>4, RowsByPlace DEF Resolve
    <3> QED BY <2>2, <3>5, <3>6
  <2>4. io = "rest" /\ ~refresh => shown = Rows(connected, discovered)
    BY <2>1 DEF Before
  <2> QED BY <2>3, <2>4 DEF RowsAreTrue
<1> QED BY <1>2, <1>3

LEMMA ShownInvInitially == Init => ShownInv
<1> SUFFICES ASSUME Init PROVE ShownInv
  OBVIOUS
<1>1. connected = <<>> /\ shown = <<>> /\ discovered = {} /\ connected \in Seq(Phones)
  BY EmptySeq DEF Init
<1>2. IsFiniteSet({}) /\ {} \in SUBSET Phones
  BY FS_EmptySet
<1>3. Rows(<<>>, {}) = <<>>
  <2>1. Rows(<<>>, {}) \in Seq(Phones)
    BY <1>1, <1>2, RowsByPlace
  <2>2. \A i \in DOMAIN Rows(<<>>, {}) : i > 0 => Rows(<<>>, {})[i] \in {} \ ToSet(<<>>)
    BY <1>1, <1>2, RowsByPlace, EmptySeq
  <2> DEFINE rows == Rows(<<>>, {})
  <2> HIDE DEF rows
  <2>3. rows \in Seq(Phones) /\ \A i \in DOMAIN rows : ~(i > 0)
    BY <2>1, <2>2 DEF rows
  <2>4. Len(rows) \in Nat /\ DOMAIN rows = 1 .. Len(rows)
    BY <2>3, LenProperties
  <2>5. Len(rows) = 0
    BY <2>3, <2>4
  <2>6. rows = <<>>
    BY <2>3, <2>5, EmptySeq
  <2> QED BY <2>6 DEF rows
<1>4. PICK conn \in Seq(Phones), disc \in SUBSET Phones :
        conn = connected /\ disc = {} /\ disc = discovered
  BY <1>1
<1>6. IsFiniteSet(disc) /\ shown = Rows(conn, disc) /\ Before(conn)
  BY <1>1, <1>2, <1>3, <1>4 DEF Before, Init
<1>5. io = "rest" /\ place = 0 /\ Len(connected) = 0
  BY <1>1, EmptySeq DEF Init
<1>7. connected \in Seq(Phones) /\ IsFiniteSet(discovered) /\ place <= Len(connected) + 1
  BY <1>1, <1>2, <1>5
<1> QED BY <1>4, <1>5, <1>6, <1>7 DEF ShownInv

\* A step that leaves the connected phones and the rows alone may change the
\* phones discovered only when it queues a refresh.
LEMMA RefreshQueued ==
  ASSUME ShownInv, UNCHANGED <<connected, io, place, shown, doubled>>,
         IsFiniteSet(discovered'),
         \/ refresh'
         \/ UNCHANGED discovered /\ (refresh => refresh')
  PROVE  ShownInv'
<1>1. ASSUME NEW conn, Before(conn) PROVE Before(conn)'
  BY <1>1 DEF Before
<1>2. CASE doubled \/ (io = "cleared" /\ shown = <<>>)
  BY <1>2 DEF ShownInv
<1>3. ASSUME NEW conn \in Seq(Phones), NEW disc \in SUBSET Phones,
             IsFiniteSet(disc), shown = Rows(conn, disc),
             Before(conn), ~refresh => disc = discovered
      PROVE  ShownInv'
  BY <1>1, <1>3 DEF ShownInv
<1> QED BY <1>2, <1>3 DEF ShownInv

\* Places in front of one that is at most the next after the last.
LEMMA InFront ==
  ASSUME NEW p \in Nat, NEW l \in Nat, p <= l + 1, NEW i \in 1 .. p - 1
  PROVE  i <= l
OBVIOUS

\* A refresh.
LEMMA Refreshed ==
  ASSUME RowInv, UNCHANGED <<connected, discovered>>,
         \/ UNCHANGED <<io, place>>
         \/ io' = "rest" /\ place' = 0,
         shown' = Rows(connected, discovered)
  PROVE  ShownInv'
<1>1. discovered \in SUBSET Phones /\ IsFiniteSet(discovered) /\ connected \in Seq(Phones)
  BY DEF RowInv, ShownInv, KnownInv, ListInv
<1>2. /\ io' \in {"rest", "listed", "cleared"}
      /\ place' \in Nat /\ Len(connected) \in Nat /\ place' <= Len(connected) + 1
  BY <1>1, LenProperties DEF RowInv, ShownInv
<1>3. PICK conn \in Seq(Phones), disc \in SUBSET Phones : conn = connected /\ disc = discovered
  BY <1>1
<1>4. ASSUME NEW i \in 1 .. place' - 1 PROVE i <= Len(conn)
  <2>1. place' \in Nat /\ Len(conn) \in Nat /\ place' <= Len(conn) + 1
    BY <1>2, <1>3
  <2> QED BY <2>1, InFront
<1>5. connected' = conn /\ discovered' = disc
  BY <1>3
<1>6. Before(conn)'
  BY <1>4, <1>5 DEF Before
<1> QED BY <1>1, <1>2, <1>3, <1>5, <1>6 DEF ShownInv

\* A change of the connected phones keeps those in front.
LEMMA ListChanged ==
  ASSUME ShownInv, io = "rest", io' = "listed",
         UNCHANGED <<shown, doubled, discovered, refresh>>,
         connected' \in Seq(Phones),
         place' \in Nat, place' <= Len(connected') + 1, place' <= Len(connected) + 1,
         \A i \in 1 .. place' - 1 : connected'[i] = connected[i]
  PROVE  ShownInv'
<1>1. CASE doubled
  BY <1>1 DEF ShownInv
<1>2. CASE ~doubled
  <2>1. PICK disc \in SUBSET Phones : /\ IsFiniteSet(disc) /\ shown = Rows(connected, disc)
                                      /\ ~refresh => disc = discovered
    BY <1>2 DEF ShownInv, Before
  <2>2. PICK conn \in Seq(Phones) : conn = connected
    BY DEF ShownInv
  <2>3. Len(conn) \in Nat
    BY LenProperties
  <2>7. ASSUME NEW i \in 1 .. place' - 1 PROVE i <= Len(conn) /\ connected'[i] = conn[i]
    <3>1. place' \in Nat /\ place' <= Len(conn) + 1
      BY <2>2
    <3>2. connected'[i] = conn[i]
      BY <2>2
    <3>3. i <= Len(conn)
      BY <2>3, <3>1, InFront
    <3> QED BY <3>2, <3>3
  <2>4. Before(conn)'
    BY <2>7 DEF Before
  <2>5. IsFiniteSet(disc) /\ shown' = Rows(conn, disc) /\ (~refresh' => disc = discovered')
    BY <2>1, <2>2
  <2>6. IsFiniteSet(discovered')
    BY DEF ShownInv
  <2> QED BY <2>4, <2>5, <2>6 DEF ShownInv
<1> QED BY <1>1, <1>2

LEMMA PhonesKeepRows ==
  ASSUME RowInv, NEW n \in Phones,
         \/ Start(n) \/ Stop(n) \/ StateUpdate(n) \/ Move(n) \/ Connect(n) \/ Disconnect(n)
         \/ Answer(n) \/ Names(n) \/ Resolves(n)
  PROVE  ShownInv'
<1>0. connected \in Seq(Phones) /\ Len(connected) \in Nat /\ ShownInv
  BY LenProperties DEF RowInv, ShownInv
<1>1. CASE \/ Start(n) \/ Stop(n) \/ StateUpdate(n) \/ Move(n)
           \/ Answer(n) \/ Names(n) \/ Resolves(n)
  <2>1. UNCHANGED <<connected, io, place, shown, doubled, discovered, refresh>>
    BY <1>1 DEF Start, Stop, StateUpdate, Move, Answer, Names, Resolves, Packet,
                Untouched, phoneVars, Lists, Listed, rowVars
  <2> QED BY <2>1, RefreshQueued DEF RowInv, ShownInv
<1>2. CASE Connect(n)
  <2>1. /\ connected' = Append(connected, n) /\ io = "rest" /\ io' = "listed"
        /\ place' = Len(connected) + 1
        /\ UNCHANGED <<shown, doubled, discovered, refresh>>
    BY <1>2 DEF Connect, Untouched, rowVars
  <2>2. /\ connected' \in Seq(Phones) /\ Len(connected') = Len(connected) + 1
        /\ \A i \in 1 .. Len(connected) : connected'[i] = connected[i]
    BY <1>0, <2>1, AppendProperties
  <2>3. place' \in Nat /\ place' - 1 = Len(connected)
    BY <1>0, <2>1
  <2> QED BY <1>0, <2>1, <2>2, <2>3, ListChanged
<1>3. CASE Disconnect(n)
  <2>1. PICK i \in DOMAIN connected : connected' = RemoveAt(connected, i) /\ place' = i
    BY <1>3 DEF Disconnect
  <2>2. io = "rest" /\ io' = "listed" /\ UNCHANGED <<shown, doubled, discovered, refresh>>
    BY <1>3 DEF Disconnect, Untouched, rowVars
  <2>3. i \in 1 .. Len(connected) /\ i \in Nat
    BY <1>0, LenProperties
  <2> DEFINE front == SubSeq(connected, 1, i - 1)
             back == SubSeq(connected, i + 1, Len(connected))
  <2>4. \A j \in 1 .. Len(connected) : connected[j] \in Phones
    BY <1>0, ElementOfSeq
  <2>5. /\ front \in Seq(Phones) /\ Len(front) = i - 1
        /\ \A j \in 1 .. i - 1 : front[j] = connected[j]
    BY <2>3, <2>4, SubSeqProperties
  <2>6. back \in Seq(Phones) /\ Len(back) \in Nat
    BY <2>3, <2>4, SubSeqProperties, LenProperties
  <2> HIDE DEF front, back
  <2>7. connected' = front \o back
    BY <2>1 DEF RemoveAt, front, back
  <2>8. /\ connected' \in Seq(Phones) /\ Len(connected') = Len(front) + Len(back)
        /\ \A j \in 1 .. Len(front) : connected'[j] = front[j]
    <3>1. /\ front \o back \in Seq(Phones) /\ Len(front \o back) = Len(front) + Len(back)
          /\ \A j \in 1 .. Len(front) + Len(back) :
               (front \o back)[j] = IF j <= Len(front) THEN front[j] ELSE back[j - Len(front)]
      BY <2>5, <2>6, ConcatProperties
    <3>2. \A j \in 1 .. Len(front) : j \in 1 .. Len(front) + Len(back) /\ j <= Len(front)
      BY <2>3, <2>5, <2>6
    <3> QED BY <2>7, <3>1, <3>2
  <2>9. /\ place' \in Nat /\ place' <= Len(connected') + 1 /\ place' <= Len(connected) + 1
        /\ \A j \in 1 .. place' - 1 : connected'[j] = connected[j]
    BY <1>0, <2>1, <2>3, <2>5, <2>6, <2>8
  <2> QED BY <1>0, <2>2, <2>8, <2>9, ListChanged
<1> QED BY <1>1, <1>2, <1>3

\* The IO thread's refresh.
LEMMA IoKeepsRows ==
  ASSUME RowInv, IoClears \/ IoFills
  PROVE  ShownInv'
<1>1. CASE IoClears
  BY <1>1 DEF IoClears, Refreshes, Untouched, RowInv, ShownInv
<1>2. CASE IoFills /\ shown # <<>>
  <2>1. /\ doubled' /\ io' = "rest" /\ place' = 0
        /\ UNCHANGED <<connected, discovered>>
    BY <1>2 DEF IoFills, Refreshes, Untouched
  <2>2. Len(connected) \in Nat
    BY LenProperties DEF RowInv, ShownInv
  <2> QED BY <2>1, <2>2 DEF RowInv, ShownInv
<1>3. CASE IoFills /\ shown = <<>>
  <2>1. Rows(connected, discovered) \in Seq(Phones)
    BY RowsByPlace DEF RowInv, ShownInv, KnownInv, ListInv
  <2>2. <<>> \o Rows(connected, discovered) = Rows(connected, discovered)
    BY <2>1
  <2>3. /\ shown' = Rows(connected, discovered) /\ io' = "rest" /\ place' = 0
        /\ UNCHANGED <<connected, discovered>>
    BY <1>3, <2>2 DEF IoFills, Refreshes, Untouched
  <2> QED BY <2>3, Refreshed
<1> QED BY <1>1, <1>2, <1>3

LEMMA WorkerKeepsRows ==
  ASSUME RowInv, Worker \/ Close \/ Joined
  PROVE  ShownInv'
<1>0. /\ discovered \in SUBSET Phones /\ IsFiniteSet(discovered)
      /\ discovered = {n \in Phones : known[n] # NoHost}
  BY DEF RowInv, ShownInv, KnownInv, ListInv
<1>1. CASE OpenSocket \/ Query \/ WindowEnds \/ Wait \/ Close
  <2>1. UNCHANGED <<connected, io, place, shown, doubled, discovered, refresh>>
    BY <1>1 DEF OpenSocket, Query, WindowEnds, Wait, Close, Cycle, phoneVars, Lists
  <2> QED BY <1>0, <2>1, RefreshQueued DEF RowInv
<1>2. ASSUME NEW n \in Phones, Reconcile(n) PROVE ShownInv'
  <2>1. /\ UNCHANGED <<connected, io, place, shown, doubled>>
        /\ IF Seen(n) THEN Found(n) ELSE Missed(n)
    BY <1>2 DEF Reconcile, Cycle, phoneVars
  <2>2. /\ discovered' \in {discovered, discovered \cup {n}, discovered \ {n}}
        /\ refresh' \/ UNCHANGED <<discovered, refresh>>
    BY <2>1 DEF Found, Missed, Lists
  <2>3. IsFiniteSet(discovered')
    BY <1>0, <2>2, FS_AddElement, FS_RemoveElement
  <2> QED BY <2>1, <2>2, <2>3, RefreshQueued DEF RowInv
<1>3. CASE Joined
  <2>1. /\ UNCHANGED <<connected, io, place, shown, doubled>>
        /\ discovered' = {n \in discovered : known[n] = NoHost}
        /\ refresh' = (refresh \/ \E n \in Phones : known[n] # NoHost)
    BY <1>3 DEF Joined, phoneVars
  <2>2. IsFiniteSet(discovered')
    BY <1>0, <2>1, FS_Subset
  <2>3. CASE \A n \in Phones : known[n] = NoHost
    <3>1. UNCHANGED discovered /\ (refresh => refresh')
      BY <1>0, <2>1, <2>3
    <3> QED BY <2>1, <2>2, <3>1, RefreshQueued DEF RowInv
  <2>4. CASE \E n \in Phones : known[n] # NoHost
    <3>1. refresh'
      BY <2>1, <2>4
    <3> QED BY <2>1, <2>2, <3>1, RefreshQueued DEF RowInv
  <2> QED BY <2>3, <2>4
<1> QED BY <1>1, <1>2, <1>3 DEF Worker

LEMMA RowInvKept == RowInv /\ [Next]_vars => RowInv'
<1> SUFFICES ASSUME RowInv, [Next]_vars PROVE RowInv'
  OBVIOUS
<1>1. KnownInv'
  BY KnownInvKept DEF RowInv
<1>2. CASE Worker \/ Close \/ Joined
  BY <1>1, <1>2, WorkerKeepsRows DEF RowInv
<1>3. CASE UpdateAvailableDevices
  <2>1. /\ UNCHANGED <<discovered, connected, io, place>>
        /\ shown' = Rows(connected, discovered)
    BY <1>3 DEF UpdateAvailableDevices, phoneVars
  <2> QED BY <1>1, <2>1, Refreshed DEF RowInv
<1>4. ASSUME NEW n \in Phones,
             \/ Start(n) \/ Stop(n) \/ StateUpdate(n) \/ Move(n) \/ Connect(n) \/ Disconnect(n)
             \/ Answer(n) \/ Names(n) \/ Resolves(n)
      PROVE  RowInv'
  BY <1>1, <1>4, PhonesKeepRows DEF RowInv
<1>5. CASE UNCHANGED vars
  <2>1. UNCHANGED <<connected, io, place, shown, doubled, discovered, refresh>>
    BY <1>5 DEF vars
  <2>2. ShownInv'
    BY <2>1, RefreshQueued DEF RowInv, ShownInv
  <2> QED BY <1>1, <2>2 DEF RowInv
<1>6. CASE IoClears \/ IoFills
  BY <1>1, <1>6, IoKeepsRows DEF RowInv
<1> QED BY <1>2, <1>3, <1>4, <1>5, <1>6 DEF Next

\* A row of the source choice never opens another phone's stream, however late
\* the queued refresh, except in the midst of the IO thread's own change of the
\* list, behind the phone it has added or removed, and after two refreshes that
\* ran into each other (application.cpp:270-296, 446-476, 485-541, 661-696).
THEOREM RowsAreAlwaysTrue == Spec => []RowsAreTrue
<1>1. Init => RowInv
  BY KnownInvInitially, ShownInvInitially DEF RowInv
<1>2. RowInv /\ [Next]_vars => RowInv'
  BY RowInvKept
<1>3. RowInv => RowsAreTrue
  BY RowInvSuffices
<1> QED BY <1>1, <1>2, <1>3, PTL DEF Spec

=============================================================================
