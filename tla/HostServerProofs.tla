--------------------------- MODULE HostServerProofs ---------------------------
(***************************************************************************)
(* Proofs about HostServer.  What is about the lists is proved up to the   *)
(* step in which a phone dials while the host still has it (redialled),    *)
(* what is about the streaming index also between a GUI handler that runs  *)
(* inside the handling of a disconnection and the next choice of a phone   *)
(* (raced).  The closing of the window does not need either.               *)
(***************************************************************************)
EXTENDS HostServer, FiniteSetTheorems, SequenceTheorems, TLAPS

-----------------------------------------------------------------------------
(* Removing the only occurrence *)

(***************************************************************************)
(* Leaving one number out of 1 .. n leaves n - 1 of them, and shifts those *)
(* behind it.  This is all that std::remove does when it finds one match.  *)
(***************************************************************************)
LEMMA SkipOne ==
  ASSUME NEW n \in Nat, NEW i \in 1 .. n
  PROVE  /\ Cardinality((1 .. n) \ {i}) = n - 1
         /\ \A p \in 1 .. n - 1 :
              Nth((1 .. n) \ {i}, p) = IF p < i THEN p ELSE p + 1
<1> DEFINE K == (1 .. n) \ {i}
<1>1. IsFiniteSet(1 .. n) /\ Cardinality(1 .. n) = n
  BY FS_Interval
<1>2. Cardinality(K) = n - 1
  BY <1>1, FS_RemoveElement
<1>3. ASSUME NEW r \in K
      PROVE  Cardinality({q \in K : q <= r}) = IF r < i THEN r ELSE r - 1
  <2>1. IsFiniteSet(1 .. r) /\ Cardinality(1 .. r) = r
    BY FS_Interval
  <2>2. CASE r < i
    <3>1. {q \in K : q <= r} = 1 .. r
      BY <2>2
    <3> QED BY <2>1, <2>2, <3>1
  <2>3. CASE ~(r < i)
    <3>1. {q \in K : q <= r} = (1 .. r) \ {i} /\ i \in 1 .. r
      BY <2>3
    <3>2. Cardinality((1 .. r) \ {i}) = r - 1
      BY <2>1, <3>1, FS_RemoveElement
    <3> QED BY <2>3, <3>1, <3>2
  <2> QED BY <2>2, <2>3
<1>4. ASSUME NEW p \in 1 .. n - 1
      PROVE  Nth(K, p) = IF p < i THEN p ELSE p + 1
  <2> DEFINE j == IF p < i THEN p ELSE p + 1
  <2>1. j \in K /\ (IF j < i THEN j ELSE j - 1) = p
    OBVIOUS
  <2>2. Cardinality({q \in K : q <= j}) = p
    BY <1>3, <2>1
  <2>3. \A r \in K : Cardinality({q \in K : q <= r}) = p => r = j
    BY <1>3
  <2> HIDE DEF j, K
  <2>4. Nth(K, p) = j
    BY <2>1, <2>2, <2>3 DEF Nth
  <2> QED BY <2>4 DEF j
<1> QED BY <1>2, <1>4
(***************************************************************************)
(* DropAt on a sequence gives the sequence that is one shorter.            *)
(***************************************************************************)
LEMMA DropAtType ==
  ASSUME NEW S, NEW q \in Seq(S), NEW i \in DOMAIN q
  PROVE  /\ DropAt(q, i) \in Seq(S)
         /\ Len(DropAt(q, i)) = Len(q) - 1
         /\ DOMAIN DropAt(q, i) = 1 .. Len(q) - 1
<1>1. Len(q) \in Nat /\ Len(q) >= 1 /\ DOMAIN q = 1 .. Len(q)
  OBVIOUS
<1> DEFINE m == Len(q) - 1
<1>2. m \in Nat /\ DropAt(q, i) \in [1 .. m -> S]
  BY <1>1 DEF DropAt
<1>3. DropAt(q, i) \in Seq(S)
  BY <1>2, IsASeq
<1>4. DOMAIN DropAt(q, i) = 1 .. m
  BY <1>2
<1>5. Len(DropAt(q, i)) = m
  BY <1>2, <1>3, <1>4, LenProperties
<1> QED BY <1>3, <1>4, <1>5

(***************************************************************************)
(* When x stands at position i of q and nowhere else, both erase idioms    *)
(* of the code drop exactly that position.                                 *)
(***************************************************************************)
LEMMA EraseOnly ==
  ASSUME NEW S, NEW q \in Seq(S), NEW i \in DOMAIN q, NEW x,
         q[i] = x, \A p \in DOMAIN q : q[p] = x => p = i
  PROVE  /\ Positions(q, x) = {i} /\ FirstIndex(q, x) = i
         /\ EraseAll(q, x) = DropAt(q, i)
         /\ EraseOne(q, x) = DropAt(q, i)
<1>1. Len(q) \in Nat /\ Len(q) >= 1 /\ DOMAIN q = 1 .. Len(q)
  OBVIOUS
<1>2. Positions(q, x) = {i}
  BY DEF Positions
<1>3. FirstIndex(q, x) = i
  BY <1>1, <1>2 DEF FirstIndex
<1>4. Others(q, x) = (1 .. Len(q)) \ {i}
  BY <1>1, <1>2 DEF Others
<1> DEFINE K == (1 .. Len(q)) \ {i}
<1>5. /\ Cardinality(K) = Len(q) - 1
      /\ \A p \in 1 .. Len(q) - 1 : Nth(K, p) = IF p < i THEN p ELSE p + 1
  <2>1. Len(q) \in Nat /\ i \in 1 .. Len(q)
    BY <1>1
  <2> QED BY <2>1, SkipOne
<1> HIDE DEF K
<1>6. EraseAll(q, x) = DropAt(q, i)
  BY <1>1, <1>4, <1>5 DEF EraseAll, DropAt, K
<1>7. EraseOne(q, x) = DropAt(q, i)
  <2>1. Others(q, x) = K
    BY <1>4 DEF K
  <2>2. ASSUME NEW p \in 1 .. Len(q) - 1
        PROVE  p <= Cardinality(K) /\ Nth(K, p) = IF p < i THEN p ELSE p + 1
    BY <1>1, <1>5
  <2> QED BY <2>1, <2>2 DEF EraseOne, DropAt
<1> QED BY <1>2, <1>3, <1>6, <1>7

-----------------------------------------------------------------------------
(* The two lists *)

USE SentinelAssumption, EnvironmentAssumption

(***************************************************************************)
(* Types and domains of the lists, and their phones.                       *)
(***************************************************************************)
LEMMA ListFacts ==
  ASSUME TypeOK, OnePerPhone
  PROVE  /\ Len(connections) \in Nat /\ DOMAIN connections = 1 .. Len(connections)
         /\ Len(descriptors) \in Nat /\ DOMAIN descriptors = 1 .. Len(descriptors)
         /\ Len(choice) \in Nat /\ DOMAIN choice = 1 .. Len(choice)
         /\ \A p \in DOMAIN connections : connections[p] \in Socket
         /\ \A p \in DOMAIN descriptors : descriptors[p] \in Device \union {Moved}
         /\ \A p \in DOMAIN choice : choice[p] \in Device \union {Moved}
         /\ Phones \in Seq(Device) /\ Len(Phones) = Len(connections)
         /\ DOMAIN Phones = DOMAIN connections
         /\ \A p \in DOMAIN connections : Phones[p] = owner[connections[p]]
<1>1. /\ Len(connections) \in Nat /\ DOMAIN connections = 1 .. Len(connections)
      /\ Len(descriptors) \in Nat /\ DOMAIN descriptors = 1 .. Len(descriptors)
      /\ Len(choice) \in Nat /\ DOMAIN choice = 1 .. Len(choice)
      /\ \A p \in DOMAIN connections : connections[p] \in Socket
      /\ \A p \in DOMAIN descriptors : descriptors[p] \in Device \union {Moved}
      /\ \A p \in DOMAIN choice : choice[p] \in Device \union {Moved}
  BY DEF TypeOK
<1>2. \A p \in DOMAIN connections : owner[connections[p]] \in Device
  BY <1>1 DEF OnePerPhone, Held, Listed
<1> DEFINE m == Len(connections)
<1>3. Phones \in [1 .. m -> Device] /\ m \in Nat
  BY <1>1, <1>2 DEF Phones
<1>4. Phones \in Seq(Device)
  BY <1>3, SeqDef
<1>5. Len(Phones) = m
  BY <1>3, <1>4, LenProperties
<1> QED BY <1>1, <1>3, <1>4, <1>5 DEF Phones

(***************************************************************************)
(* Until the erase idiom has run, the phone of a disconnection's handler   *)
(* has exactly one descriptor, so that it erases that and nothing else.    *)
(***************************************************************************)
LEMMA OneDescriptor ==
  ASSUME ListsInv, Removing, NEW n \in DOMAIN descriptors,
         descriptors[n] = owner[ioSock], Phones = DropAt(descriptors, n)
  PROVE  \A p \in DOMAIN descriptors : descriptors[p] = owner[ioSock] => p = n
<1>1. ~Listed(ioSock) /\ ioSock \in Socket
  BY DEF ListsInv, Places, Removing, TypeOK
<1>2. \A p \in DOMAIN Phones : Phones[p] # owner[ioSock]
  <2>1. ASSUME NEW p \in DOMAIN connections
        PROVE  owner[connections[p]] # owner[ioSock]
    BY <1>1, ListFacts DEF ListsInv, OnePerPhone, Held, Listed
  <2> QED BY <2>1, ListFacts DEF ListsInv
<1>3. DOMAIN Phones = 1 .. Len(descriptors) - 1
  BY DropAtType DEF ListsInv, TypeOK
<1>4. ASSUME NEW p \in DOMAIN descriptors, p # n
      PROVE  descriptors[p] # owner[ioSock]
  <2>1. n \in 1 .. Len(descriptors) /\ p \in 1 .. Len(descriptors) /\ Len(descriptors) \in Nat
    BY ListFacts DEF ListsInv
  <2>2. CASE p < n
    BY <1>2, <1>3, <2>1, <2>2 DEF DropAt
  <2>3. CASE p > n
    <3>1. p - 1 \in DOMAIN Phones /\ Phones[p - 1] = descriptors[p]
      BY <1>3, <2>1, <2>3 DEF DropAt
    <3> QED BY <1>2, <3>1
  <2> QED BY <2>1, <2>2, <2>3, <1>4
<1> QED BY <1>4

(***************************************************************************)
(* The lists agree initially: they are empty.                              *)
(***************************************************************************)
LEMMA ListsInit == Init => ListsInv
<1> SUFFICES ASSUME Init PROVE ListsInv
  OBVIOUS
<1>1. TypeOK
  <2>1. <<>> \in Seq(Socket) /\ <<>> \in Seq(Device \union {Moved})
    OBVIOUS
  <2>2. lastSend \in [for : Device \union {NoDevice, Moved}, to : Device \union {NoDevice}]
    BY DEF Init
  <2>3. {booted, accepting, acceptorOpen, crashed} \subseteq BOOLEAN
    BY DEF Init
  <2> QED BY <2>1, <2>2, <2>3 DEF Init, TypeOK, IoPhase
<1>2. OnePerPhone /\ Places
  BY DEF Init, OnePerPhone, Places, Held, Listed, Removing
<1>3. Phones = descriptors
  BY DEF Init, Phones
<1> QED BY <1>1, <1>2, <1>3 DEF ListsInv, InStep, Removing, Init

(***************************************************************************)
(* Phones that dial, announce themselves or leave do not disturb the       *)
(* lists: a new connection belongs to a phone the host has not.            *)
(***************************************************************************)
LEMMA PhoneStepLists ==
  ASSUME ListsInv, ~redialled', PhoneStep
  PROVE  ListsInv'
<1> USE DEF ListsInv, ioVars, mgrVars, guiVars
<1>1. ASSUME NEW s \in Socket, NEW d \in Device, Dial(s, d)
      PROVE  ListsInv'
  <2> USE <1>1 DEF Dial
  <2>1. TypeOK'
    BY DEF TypeOK
  <2>2. ~Held(s)
    BY DEF OnePerPhone
  <2>3. \A t \in Socket : Held(t)' <=> (t = s \/ Held(t))
    BY DEF Held, Listed
  <2>4. \A t \in Socket : Held(t) => owner[t] # d
    BY DEF HostHas, Held
  <2>5. \A t \in Socket : t # s => owner'[t] = owner[t] /\ peer'[t] = peer[t]
    BY DEF TypeOK
  <2>6. owner'[s] = d /\ peer'[s] = "open"
    BY DEF TypeOK
  <2>7. OnePerPhone'
    BY <2>3, <2>4, <2>5, <2>6, <2>2 DEF OnePerPhone
  <2>8. Places'
    BY <2>2 DEF Places, Held, Listed, Removing
  <2>9. Phones' = Phones
    BY <2>2, <2>5, ListFacts DEF Phones, Held, Listed
  <2>10. ioSock \in Socket => owner'[ioSock] = owner[ioSock]
    BY <2>2, <2>5 DEF Held
  <2>11. InStep'
    BY <2>9, <2>10 DEF InStep, Removing, Places, TypeOK
  <2> QED BY <2>1, <2>7, <2>8, <2>11
<1>2. ASSUME NEW s \in Socket, Announce(s)
      PROVE  ListsInv'
  <2> USE <1>2 DEF Announce
  <2>1. TypeOK'
    BY DEF TypeOK
  <2>2. OnePerPhone' /\ Places'
    BY DEF OnePerPhone, Places, Held, Listed, Removing
  <2>3. InStep'
    BY DEF InStep, Removing, Phones
  <2> QED BY <2>1, <2>2, <2>3
<1>3. ASSUME NEW s \in Socket, NEW how \in {"fin", "rst"}, Leave(s, how)
      PROVE  ListsInv'
  <2> USE <1>3 DEF Leave
  <2>1. TypeOK'
    BY DEF TypeOK
  <2>2. \A t \in Socket : peer'[t] = "none" => peer[t] = "none"
    BY DEF TypeOK
  <2>3. OnePerPhone' /\ Places'
    BY <2>2 DEF OnePerPhone, Places, Held, Listed, Removing
  <2>4. InStep'
    BY DEF InStep, Removing, Phones
  <2> QED BY <2>1, <2>3, <2>4
<1> QED BY <1>1, <1>2, <1>3 DEF PhoneStep

(***************************************************************************)
(* One step of the IO thread keeps the lists in agreement, up to the phone *)
(* its handler is about.                                                   *)
(***************************************************************************)
LEMMA IoStepLists ==
  ASSUME ListsInv, IoStep
  PROVE  ListsInv'
<1> USE DEF ListsInv, phoneVars, mgrVars, guiVars
<1>1. ASSUME NEW s \in Socket, AcceptBegin(s)
      PROVE  ListsInv'
  <2> USE <1>1 DEF AcceptBegin
  <2>1. TypeOK'
    BY DEF TypeOK, IoPhase
  <2>2. OnePerPhone' /\ Places'
    BY DEF OnePerPhone, Places, Held, Listed, Removing
  <2>3. InStep'
    BY DEF InStep, Removing, Phones
  <2> QED BY <2>1, <2>2, <2>3
<1>2. ASSUME NEW s \in Socket, ReadFails(s)
      PROVE  ListsInv'
  <2>1. CASE io' = "notifyDisconnected" /\ ioSock' = s
             /\ connections' = EraseAll(connections, s)
    <3> USE <1>2, <2>1 DEF ReadFails
    <3>1. PICK i \in DOMAIN connections : connections[i] = s
      BY DEF Places, Listed
    <3>2. \A p \in DOMAIN connections : connections[p] = s => p = i
      BY <3>1 DEF Places
    <3>3. connections' = DropAt(connections, i)
      BY <3>1, <3>2, EraseOnly DEF TypeOK
    <3>4. /\ connections' \in Seq(Socket)
          /\ DOMAIN connections' = 1 .. Len(connections) - 1
      BY <3>3, DropAtType DEF TypeOK
    <3>5. i \in 1 .. Len(connections) /\ Len(connections) \in Nat
      BY <3>1, ListFacts
    <3>6. \A p \in DOMAIN connections' :
            connections'[p] = connections[IF p < i THEN p ELSE p + 1]
      BY <3>3, <3>4, <3>5 DEF DropAt
    <3>7. \A p \in DOMAIN connections' :
            (IF p < i THEN p ELSE p + 1) \in DOMAIN connections \ {i}
      BY <3>4, <3>5, ListFacts
    <3>8. ~Listed(s)'
      BY <3>2, <3>6, <3>7 DEF Listed
    <3>9. \A t \in Socket : t # s => (Listed(t)' <=> Listed(t))
      <4>1. ASSUME NEW t \in Socket, t # s, NEW p \in DOMAIN connections, connections[p] = t
            PROVE  \E r \in DOMAIN connections' : connections'[r] = t
        <5>1. p # i /\ p \in 1 .. Len(connections)
          BY <3>1, <4>1, ListFacts
        <5>2. CASE p < i
          BY <3>4, <3>5, <3>6, <4>1, <5>1, <5>2
        <5>3. CASE p > i
          <6>1. p - 1 \in DOMAIN connections' /\ connections'[p - 1] = t
            BY <3>4, <3>5, <3>6, <4>1, <5>1, <5>3
          <6> QED BY <6>1
        <5> QED BY <3>5, <5>1, <5>2, <5>3
      <4> QED BY <3>6, <3>7, <4>1 DEF Listed
    <3>10. TypeOK'
      BY <3>4 DEF TypeOK, IoPhase
    <3>11. ioSock = NoSocket /\ \A t \in Socket : Held(t)' => Held(t)
      BY <3>1, <3>9 DEF Held, Listed, Places
    <3>12. OnePerPhone'
      BY <3>11 DEF OnePerPhone
    <3>13. \A p, r \in DOMAIN connections' : connections'[p] = connections'[r] => p = r
      BY <3>4, <3>5, <3>6, <3>7 DEF Places
    <3>14. Places'
      <4>1. \A t \in backlog' : ~Listed(t)' /\ t # ioSock'
        BY <3>1, <3>9 DEF Places, TypeOK, Listed
      <4>2. \A t \in reading' : Listed(t)'
        BY <3>9 DEF Places, TypeOK
      <4>3. ioSock' # NoSocket /\ ~Listed(ioSock)'
        BY <3>8
      <4> QED BY <3>13, <4>1, <4>2, <4>3 DEF Places, Removing
    <3>15. Phones' = DropAt(Phones, i)
      BY <3>4, <3>5, <3>6, <3>7, ListFacts DEF DropAt, Phones
    <3>16. InStep'
      BY <3>1, <3>15, ListFacts DEF InStep, Removing
    <3> QED BY <3>10, <3>12, <3>14, <3>16
  <2>2. CASE UNCHANGED <<io, ioSock, connections>>
    <3> USE <1>2, <2>2 DEF ReadFails
    <3>1. TypeOK'
      BY DEF TypeOK
    <3>2. OnePerPhone' /\ Places'
      BY DEF OnePerPhone, Places, Held, Listed, Removing
    <3>3. InStep'
      BY DEF InStep, Removing, Phones
    <3> QED BY <3>1, <3>2, <3>3
  <2> QED BY <1>2, <2>1, <2>2 DEF ReadFails
<1>3. ASSUME ReadDescriptor
      PROVE  ListsInv'
  <2> USE <1>3 DEF ReadDescriptor
  <2> DEFINE m == Len(connections)
  <2>1. ioSock \in Socket /\ ~Listed(ioSock)
    BY DEF Places, TypeOK
  <2>2. /\ connections' \in Seq(Socket)
        /\ m \in Nat /\ DOMAIN connections = 1 .. m
        /\ DOMAIN connections' = 1 .. m + 1
        /\ \A p \in 1 .. m : connections'[p] = connections[p]
        /\ connections'[m + 1] = ioSock
    BY <2>1 DEF TypeOK
  <2>3. TypeOK'
    BY <2>1, <2>2 DEF TypeOK, IoPhase
  <2>4. \A t \in Socket : Listed(t)' <=> Listed(t) \/ t = ioSock
    BY <2>2 DEF Listed
  <2>5. OnePerPhone'
    BY <2>4 DEF OnePerPhone, Held
  <2>6. \A p, q \in DOMAIN connections' : connections'[p] = connections'[q] => p = q
    BY <2>1, <2>2 DEF Places, Listed
  <2>7. Places'
    BY <2>1, <2>4, <2>6 DEF Places, Removing, TypeOK
  <2>8. Phones' = Append(Phones, owner[ioSock])
    BY <2>1, <2>2, ListFacts DEF Phones, TypeOK
  <2>9. InStep'
    BY <2>8 DEF InStep, Removing
  <2> QED BY <2>3, <2>5, <2>7, <2>9
<1>4. ASSUME ReadDescriptorThrows
      PROVE  ListsInv'
  <2> USE <1>4 DEF ReadDescriptorThrows
  <2>1. TypeOK'
    BY DEF TypeOK, IoPhase
  <2>2. OnePerPhone' /\ Places'
    <3>1. \A t \in Socket : (Listed(t)' <=> Listed(t)) /\ (Held(t)' => Held(t))
      BY DEF Held, Listed
    <3> QED BY <3>1 DEF OnePerPhone, Places, Removing, TypeOK
  <2>3. InStep'
    BY DEF InStep, Removing, Phones
  <2> QED BY <2>1, <2>2, <2>3
<1>5. ASSUME NotifyConnected
      PROVE  ListsInv'
  <2> USE <1>5 DEF NotifyConnected
  <2>1. ioSock \in Socket /\ owner[ioSock] \in Device
    BY DEF Places, OnePerPhone, Held, TypeOK
  <2>2. TypeOK'
    <3>1. CASE booted
      <4> DEFINE T == Device \union {Moved}
      <4>1. descriptors' \in Seq(T)
        <5>1. descriptors \in Seq(T) /\ owner[ioSock] \in T
          BY <2>1 DEF TypeOK
        <5>2. descriptors' = Append(descriptors, owner[ioSock])
          BY <3>1
        <5> HIDE DEF T
        <5> QED BY <5>1, <5>2
      <4> QED BY <3>1, <4>1 DEF TypeOK, IoPhase
    <3>2. CASE ~booted
      BY <3>2 DEF TypeOK
    <3> QED BY <3>1, <3>2
  <2>3. OnePerPhone' /\ Places'
    BY DEF OnePerPhone, Places, Held, Listed, Removing
  <2>4. InStep'
    BY DEF InStep, Removing, Phones
  <2> QED BY <2>2, <2>3, <2>4
<1>6. ASSUME ListDevices
      PROVE  ListsInv'
  <2> USE <1>6 DEF ListDevices
  <2>1. TypeOK'
    BY DEF TypeOK, IoPhase
  <2>2. OnePerPhone' /\ Places'
    <3>1. \A t \in Socket : (Listed(t)' <=> Listed(t)) /\ (Held(t)' => Held(t))
      BY DEF Held, Listed
    <3> QED BY <3>1 DEF OnePerPhone, Places, Removing, TypeOK
  <2>3. InStep'
    BY DEF InStep, Removing, Phones
  <2> QED BY <2>1, <2>2, <2>3
<1>7. ASSUME NotifyDisconnected
      PROVE  ListsInv'
  <2> USE <1>7 DEF NotifyDisconnected
  <2>1. TypeOK'
    BY DEF TypeOK, IoPhase
  <2>2. OnePerPhone' /\ Places'
    BY DEF OnePerPhone, Places, Held, Listed, Removing
  <2>3. InStep'
    BY DEF InStep, Removing, Phones
  <2> QED BY <2>1, <2>2, <2>3
<1>8. ASSUME RemoveDescriptor
      PROVE  ListsInv'
  <2> USE <1>8 DEF RemoveDescriptor
  <2>1. PICK n \in DOMAIN descriptors :
          descriptors[n] = owner[ioSock] /\ Phones = DropAt(descriptors, n)
    BY DEF InStep, Removing
  <2>2. \A p \in DOMAIN descriptors : descriptors[p] = owner[ioSock] => p = n
    BY <2>1, OneDescriptor DEF Removing
  <2>3. /\ Positions(descriptors, owner[ioSock]) = {n}
        /\ FirstIndex(descriptors, owner[ioSock]) = n
        /\ EraseOne(descriptors, owner[ioSock]) = DropAt(descriptors, n)
    BY <2>1, <2>2, EraseOnly DEF TypeOK
  <2>4. descriptors' = Phones /\ ioIndex' = n /\ io' = "renumber" /\ UNCHANGED crashed
    BY <2>1, <2>3
  <2>5. TypeOK'
    BY <2>3, <2>4, DropAtType DEF TypeOK, IoPhase
  <2>6. OnePerPhone' /\ Places'
    BY <2>4 DEF OnePerPhone, Places, Held, Listed, Removing
  <2>7. InStep'
    BY <2>4 DEF InStep, Removing, Phones
  <2> QED BY <2>5, <2>6, <2>7
<1>9. ASSUME Renumber
      PROVE  ListsInv'
  <2> USE <1>9 DEF Renumber
  <2>1. TypeOK'
    BY DEF TypeOK, IoPhase
  <2>2. OnePerPhone' /\ Places'
    BY DEF OnePerPhone, Places, Held, Listed, Removing
  <2>3. InStep'
    BY DEF InStep, Removing, Phones
  <2> QED BY <2>1, <2>2, <2>3
<1>10. ASSUME RunReturns
       PROVE  ListsInv'
  <2> USE <1>10 DEF RunReturns
  <2>1. TypeOK'
    BY DEF TypeOK, IoPhase
  <2>2. OnePerPhone' /\ Places'
    BY DEF OnePerPhone, Places, Held, Listed, Removing
  <2>3. InStep'
    BY DEF InStep, Removing, Phones
  <2> QED BY <2>1, <2>2, <2>3
<1> QED
  BY <1>1, <1>2, <1>3, <1>4, <1>5, <1>6, <1>7, <1>8, <1>9, <1>10 DEF IoStep

(***************************************************************************)
(* GUI handlers change neither list, wherever the IO thread is.            *)
(***************************************************************************)
LEMMA GuiStepLists ==
  ASSUME ListsInv, GuiStep
  PROVE  ListsInv'
<1> USE DEF ListsInv, phoneVars, ioVars, mgrVars
<1>1. ASSUME UNCHANGED <<phoneVars, io, ioSock, ioIndex, connections, descriptors, choice>>,
             reading' \subseteq reading, TypeOK'
      PROVE  ListsInv'
  <2>1. OnePerPhone' /\ Places'
    BY <1>1 DEF OnePerPhone, Places, Held, Listed, Removing
  <2>2. InStep'
    BY <1>1 DEF InStep, Removing, Phones
  <2> QED BY <1>1, <2>1, <2>2
<1>2. \A i \in Nat : Addressee(i) \in Device \union {NoDevice}
  BY ListFacts DEF Addressee, TypeOK
<1>3. \A i \in Nat : i \in DOMAIN connections => connections[i] \in Socket
  BY ListFacts
<1>4. CASE Boot
  BY <1>1, <1>4 DEF Boot, TypeOK, guiVars
<1>5. ASSUME NEW i \in DOMAIN choice, OnSourceChanged(i)
      PROVE  ListsInv'
  <2> USE <1>5 DEF OnSourceChanged, Connect2Stream, SendMayThrow
  <2>1. i \in Nat /\ choice[i] \in Device \union {Moved}
    BY ListFacts
  <2>2. raced' \in BOOLEAN
    BY DEF Leaving
  <2>3. TypeOK'
    BY <1>2, <1>3, <2>1, <2>2 DEF TypeOK
  <2> QED BY <1>1, <2>3
<1>6. CASE ReconnectStream
  <2> USE <1>6 DEF ReconnectStream, Connect2Stream, SendMayThrow, HasValidStreamingDevice
  <2>1. streaming \in Nat /\ descriptors[streaming] \in Device \union {Moved}
    BY ListFacts
  <2>2. raced' \in BOOLEAN
    BY DEF Leaving
  <2>3. TypeOK'
    BY <1>2, <1>3, <2>1, <2>2 DEF TypeOK
  <2> QED BY <1>1, <2>3
<1>7. CASE SendCommand
  <2> USE <1>7 DEF SendCommand, SendMayThrow, HasValidStreamingDevice
  <2>1. streaming \in Nat /\ ActivePhone \in Device \union {NoDevice}
    BY DEF TypeOK, ActivePhone
  <2>2. TypeOK'
    BY <1>2, <2>1 DEF TypeOK
  <2> QED BY <1>1, <2>2
<1>8. CASE CloseWindow
  BY <1>1, <1>8 DEF CloseWindow, TypeOK
<1>9. CASE JoinReturns
  BY <1>1, <1>9 DEF JoinReturns, TypeOK
<1>10. CASE RefreshList
  <2> USE <1>10 DEF RefreshList
  <2>1. TypeOK'
    BY DEF TypeOK
  <2>2. OnePerPhone' /\ Places'
    BY DEF OnePerPhone, Places, Held, Listed, Removing
  <2>3. InStep'
    BY DEF InStep, Removing, Phones
  <2> QED BY <2>1, <2>2, <2>3
<1> QED BY <1>4, <1>5, <1>6, <1>7, <1>8, <1>9, <1>10 DEF GuiStep

(***************************************************************************)
(* ListsInv is inductive.                                                  *)
(***************************************************************************)
LEMMA ListsStep ==
  ASSUME ~redialled', ListsInv, [Next]_vars
  PROVE  ListsInv'
<1>1. CASE UNCHANGED vars
  <2> USE <1>1 DEF ListsInv, vars, phoneVars, ioVars, mgrVars, guiVars
  <2>1. TypeOK'
    BY DEF TypeOK
  <2>2. OnePerPhone' /\ Places'
    BY DEF OnePerPhone, Places, Held, Listed, Removing
  <2>3. InStep'
    BY DEF InStep, Removing, Phones
  <2> QED BY <2>1, <2>2, <2>3
<1>2. CASE PhoneStep
  BY <1>2, PhoneStepLists
<1>3. CASE IoStep
  BY <1>3, IoStepLists
<1>4. CASE GuiStep
  BY <1>4, GuiStepLists
<1> QED BY <1>1, <1>2, <1>3, <1>4 DEF Next

(***************************************************************************)
(* A phone that has dialled while the host had it has done so for good.    *)
(***************************************************************************)
LEMMA RedialledStays ==
  ASSUME redialled, [Next]_vars
  PROVE  redialled'
<1> USE DEF vars, phoneVars
<1>1. ASSUME NEW s \in Socket, NEW d \in Device, Dial(s, d)
      PROVE  redialled'
  BY <1>1 DEF Dial
<1>2. PhoneStep => redialled'
  BY <1>1 DEF PhoneStep, Announce, Leave
<1>3. IoStep => redialled' = redialled
  BY DEF IoStep, AcceptBegin, ReadFails, ReadDescriptor, ReadDescriptorThrows,
         NotifyConnected, ListDevices, NotifyDisconnected, RemoveDescriptor,
         Renumber, RunReturns
<1>4. GuiStep => redialled' = redialled
  BY DEF GuiStep, Boot, OnSourceChanged, ReconnectStream, RefreshList,
         SendCommand, CloseWindow, JoinReturns
<1> QED BY <1>2, <1>3, <1>4 DEF Next

(***************************************************************************)
(* Without a second connection of a phone the host has, the lists agree in *)
(* every state, whatever the GUI thread does in the middle of a handler.   *)
(***************************************************************************)
THEOREM ListsCorrect == Spec => [](redialled \/ ListsInv)
<1>1. Init => ListsInv
  BY ListsInit
<1>2. (redialled \/ ListsInv) /\ [Next]_vars => (redialled \/ ListsInv)'
  BY ListsStep, RedialledStays
<1> QED BY <1>1, <1>2, PTL DEF Spec

(***************************************************************************)
(* Every variable keeps its type.  For the descriptors this already takes  *)
(* the agreement of the lists: the erase idiom of RemoveDescriptor leaves  *)
(* a proper list when the phone is in it once; that it does so otherwise,  *)
(* where its outcome is an odd list of phones, is only model-checked.      *)
(***************************************************************************)
THEOREM TypeCorrect == Spec => [](redialled \/ TypeOK)
<1>1. redialled \/ ListsInv => redialled \/ TypeOK
  BY DEF ListsInv
<1> QED BY <1>1, ListsCorrect, PTL

(***************************************************************************)
(* Manager::descriptors follows Server::connections, position by position, *)
(* until a phone dials while the host still has it.                        *)
(***************************************************************************)
THEOREM ListsAlwaysAgree == Spec => []ListsAgree
<1>1. redialled \/ ListsInv => ListsAgree
  BY DEF ListsInv, ListsAgree
<1> QED BY <1>1, ListsCorrect, PTL

-----------------------------------------------------------------------------
(* The streaming index *)

\* What holds of the lists and of the streaming index when nothing is raced.
Steady == ListsInv /\ Rows /\ StreamInv

(***************************************************************************)
(* Outside the handling of a disconnection every row of the drop-down list *)
(* and every descriptor's position denote the same phone in all lists.     *)
(***************************************************************************)
LEMMA QuietFacts ==
  ASSUME ListsInv, Rows, ~Leaving
  PROVE  /\ ~Removing /\ io \notin {"renumber", "listDisconnected"}
         /\ \A p \in DOMAIN descriptors :
              /\ p \in DOMAIN connections /\ connections[p] \in Socket
              /\ descriptors[p] = owner[connections[p]]
              /\ owner[connections[p]] \in Device
              /\ Addressee(p) = descriptors[p]
         /\ \A p \in DOMAIN choice :
              p \in DOMAIN descriptors /\ choice[p] = descriptors[p]
<1>1. ~Removing /\ io \notin {"renumber", "listDisconnected"}
  BY DEF Leaving, Removing
<1>2. \A p \in DOMAIN descriptors :
        p \in DOMAIN Phones /\ Phones[p] = descriptors[p]
  <2>1. CASE io = "notifyConnected"
    <3>1. Phones = Append(descriptors, owner[ioSock])
      BY <2>1 DEF ListsInv, InStep
    <3>2. descriptors \in Seq(Device \union {Moved})
      BY DEF ListsInv, TypeOK
    <3> QED BY <3>1, <3>2
  <2>2. CASE io # "notifyConnected"
    BY <1>1, <2>2 DEF ListsInv, InStep
  <2> QED BY <2>1, <2>2
<1>3. \A p \in DOMAIN descriptors :
        /\ p \in DOMAIN connections /\ connections[p] \in Socket
        /\ descriptors[p] = owner[connections[p]]
  BY <1>2, ListFacts DEF ListsInv
<1>4. \A p \in DOMAIN descriptors : owner[connections[p]] \in Device
  BY <1>3 DEF ListsInv, OnePerPhone, Held, Listed
<1>5. \A p \in DOMAIN descriptors : Addressee(p) = descriptors[p]
  BY <1>3 DEF Addressee
<1> QED BY <1>1, <1>3, <1>4, <1>5 DEF Rows

(***************************************************************************)
(* The rows change when they are listed anew, and lag by one phone at the  *)
(* end before that.                                                        *)
(***************************************************************************)
LEMMA RowsStep ==
  ASSUME ListsInv, Rows, [Next]_vars
  PROVE  Rows'
<1> USE DEF Rows, vars, phoneVars, ioVars, mgrVars, guiVars
<1>1. CASE PhoneStep \/ UNCHANGED vars
  BY <1>1 DEF PhoneStep, Dial, Announce, Leave
<1>2. CASE IoStep
  <2>1. CASE NotifyConnected
    <3>1. descriptors \in Seq(Device \union {Moved})
      BY DEF ListsInv, TypeOK
    <3>2. \A p \in DOMAIN descriptors :
            p \in DOMAIN descriptors' /\ descriptors'[p] = descriptors[p]
      BY <2>1, <3>1 DEF NotifyConnected
    <3> QED BY <2>1, <3>2 DEF NotifyConnected
  <2>2. CASE ListDevices
    BY <2>2 DEF ListDevices
  <2>3. CASE RemoveDescriptor
    BY <2>3 DEF RemoveDescriptor
  <2>4. CASE ReadDescriptor \/ ReadDescriptorThrows \/ NotifyDisconnected \/ RunReturns
    BY <2>4 DEF ReadDescriptor, ReadDescriptorThrows, NotifyDisconnected, RunReturns
  <2>5. CASE Renumber
    BY <2>5 DEF Renumber
  <2>6. ASSUME NEW s \in Socket, AcceptBegin(s) \/ ReadFails(s)
        PROVE  Rows'
    BY <2>6 DEF AcceptBegin, ReadFails
  <2> QED BY <1>2, <2>1, <2>2, <2>3, <2>4, <2>5, <2>6 DEF IoStep
<1>3. CASE GuiStep
  BY <1>3 DEF GuiStep, Boot, OnSourceChanged, ReconnectStream, RefreshList,
              SendCommand, CloseWindow, JoinReturns
<1> QED BY <1>1, <1>2, <1>3 DEF Next

(***************************************************************************)
(* Phones do not touch the streaming index.                                *)
(***************************************************************************)
LEMMA PhoneStepRouting ==
  ASSUME Steady, PhoneStep
  PROVE  StreamInv'
<1> USE DEF Steady, StreamInv, ioVars, mgrVars, guiVars
<1>1. UNCHANGED <<ioVars, mgrVars, guiVars>>
  BY DEF PhoneStep, Dial, Announce, Leave
<1>2. ioSock \in Socket => owner'[ioSock] = owner[ioSock]
  <2>1. ASSUME NEW s \in Socket, NEW d \in Device, Dial(s, d), ioSock \in Socket
        PROVE  owner'[ioSock] = owner[ioSock]
    BY <2>1 DEF Dial, ListsInv, OnePerPhone, Held, TypeOK
  <2> QED BY <2>1 DEF PhoneStep, Announce, Leave
<1>3. Removing => ioSock \in Socket
  BY DEF Removing, ListsInv, Places, TypeOK
<1>4. StreamIndex'
  BY <1>1, <1>2, <1>3 DEF StreamIndex, Shifted, Removing
<1> QED BY <1>1, <1>4

(***************************************************************************)
(* A disconnection shifts the index exactly as far as the lists.           *)
(***************************************************************************)
LEMMA IoStepRouting ==
  ASSUME Steady, IoStep
  PROVE  StreamInv'
<1> USE DEF Steady, StreamInv, phoneVars, mgrVars, guiVars
<1>1. ASSUME NEW s \in Socket, ReadFails(s)
      PROVE  StreamIndex'
  <2> USE <1>1 DEF ReadFails
  <2>1. CASE io' = "notifyDisconnected" /\ ioSock' = s
             /\ connections' = EraseAll(connections, s)
    <3> USE <2>1
    <3>1. PICK i \in DOMAIN connections : connections[i] = s
      BY DEF ListsInv, Places, Listed
    <3>2. \A p \in DOMAIN connections : connections[p] = s => p = i
      BY <3>1 DEF ListsInv, Places
    <3>3. connections' = DropAt(connections, i)
      BY <3>1, <3>2, EraseOnly DEF ListsInv, TypeOK
    <3>4. Len(connections') = Len(connections) - 1
      BY <3>3, DropAtType DEF ListsInv, TypeOK
    <3>5. i \in 1 .. Len(connections) /\ Len(connections) \in Nat /\ streaming \in Nat
      BY <3>1, ListFacts DEF ListsInv, TypeOK
    <3>6. \A p \in 1 .. Len(connections) - 1 :
            connections'[p] = connections[IF p < i THEN p ELSE p + 1]
      BY <3>3 DEF DropAt
    <3>7. streaming # 0 => streaming \in 1 .. Len(connections) /\ connections[streaming] = via
      BY ListFacts DEF StreamIndex, Removing, ListsInv
    <3>8. Shifted(i)'
      BY <3>1, <3>4, <3>5, <3>6, <3>7 DEF Shifted
    <3>9. i \in DOMAIN descriptors /\ descriptors[i] = owner[s]
      BY <3>1, ListFacts DEF ListsInv, InStep, Removing
    <3> QED BY <3>8, <3>9 DEF StreamIndex, Removing
  <2>2. CASE UNCHANGED <<io, ioSock, connections>>
    BY <2>2 DEF StreamIndex, Removing, Shifted
  <2> QED BY <2>1, <2>2
<1>2. ASSUME ReadDescriptor
      PROVE  StreamIndex'
  <2> USE <1>2 DEF ReadDescriptor
  <2>1. ioSock \in Socket
    BY DEF ListsInv, Places, TypeOK
  <2>2. \A p \in DOMAIN connections :
          p \in DOMAIN connections' /\ connections'[p] = connections[p]
    BY <2>1 DEF ListsInv, TypeOK
  <2> QED BY <2>2 DEF StreamIndex, Removing
<1>3. ASSUME RemoveDescriptor
      PROVE  StreamIndex'
  <2> USE <1>3 DEF RemoveDescriptor
  <2>1. PICK n \in DOMAIN descriptors :
          descriptors[n] = owner[ioSock] /\ Phones = DropAt(descriptors, n)
    BY DEF ListsInv, InStep, Removing
  <2>2. \A p \in DOMAIN descriptors : descriptors[p] = owner[ioSock] => p = n
    BY <2>1, OneDescriptor DEF Removing
  <2>3. Positions(descriptors, owner[ioSock]) = {n} /\ FirstIndex(descriptors, owner[ioSock]) = n
    BY <2>1, <2>2, EraseOnly DEF ListsInv, TypeOK
  <2>4. Shifted(n)
    BY <2>2 DEF StreamIndex, Removing
  <2> QED BY <2>3, <2>4 DEF StreamIndex, Removing, Shifted
<1>4. ASSUME Renumber
      PROVE  StreamIndex'
  <2> USE <1>4 DEF Renumber
  <2>1. Shifted(ioIndex) /\ streaming \in Nat
    BY DEF StreamIndex, ListsInv, TypeOK
  <2>2. DOMAIN connections = 1 .. Len(connections) /\ Len(connections) \in Nat
    BY ListFacts DEF ListsInv
  <2>3. streaming' = 0 <=> via' = NoSocket
    BY <2>1, <2>2 DEF StreamIndex, Shifted
  <2>4. streaming' # 0 => streaming' \in DOMAIN connections /\ connections[streaming'] = via'
    BY <2>1, <2>2 DEF Shifted
  <2> QED BY <2>3, <2>4 DEF StreamIndex, Removing
<1>5. ASSUME NEW s \in Socket, AcceptBegin(s)
      PROVE  StreamIndex'
  BY <1>5 DEF AcceptBegin, StreamIndex, Removing
<1>6. ASSUME ReadDescriptorThrows \/ RunReturns
      PROVE  StreamIndex'
  BY <1>6 DEF ReadDescriptorThrows, RunReturns, StreamIndex, Removing
<1>7. ASSUME NotifyConnected
      PROVE  StreamIndex'
  BY <1>7 DEF NotifyConnected, StreamIndex, Removing
<1>8. ASSUME ListDevices
      PROVE  StreamIndex'
  BY <1>8 DEF ListDevices, StreamIndex, Removing
<1>9. ASSUME NotifyDisconnected
      PROVE  StreamIndex'
  BY <1>9 DEF NotifyDisconnected, StreamIndex, Removing, Shifted
<1>10. UNCHANGED lastSend
  BY DEF IoStep, AcceptBegin, ReadFails, ReadDescriptor, ReadDescriptorThrows,
         NotifyConnected, ListDevices, NotifyDisconnected, RemoveDescriptor,
         Renumber, RunReturns
<1>11. StreamIndex'
  BY <1>1, <1>2, <1>3, <1>4, <1>5, <1>6, <1>7, <1>8, <1>9 DEF IoStep
<1> QED BY <1>10, <1>11

(***************************************************************************)
(* A GUI handler outside the handling of a disconnection computes its      *)
(* index from lists that agree, so its command goes where it is meant to   *)
(* go; and choosing a phone mends a stream that was opened inside one.     *)
(***************************************************************************)
LEMMA GuiStepRouting ==
  ASSUME ListsInv, Rows, raced \/ StreamInv, GuiStep, ~raced'
  PROVE  StreamInv'
<1> USE DEF StreamInv, phoneVars, ioVars, mgrVars
<1>1. ASSUME NEW i \in DOMAIN descriptors, ~Leaving, Connect2Stream(i, descriptors[i]),
             UNCHANGED <<io, connections, descriptors>>
      PROVE  StreamInv'
  <2> USE <1>1 DEF Connect2Stream
  <2>1. lastSend'.to = lastSend'.for
    BY QuietFacts
  <2>2. i # 0 /\ i \in DOMAIN connections /\ connections[i] \in Socket
    BY QuietFacts, ListFacts DEF ListsInv
  <2>3. StreamIndex'
    BY <2>2, QuietFacts DEF StreamIndex, Removing
  <2> QED BY <2>1, <2>3
<1>2. ASSUME NEW i \in DOMAIN choice, OnSourceChanged(i)
      PROVE  StreamInv'
  <2>1. ~Leaving
    BY <1>2 DEF OnSourceChanged, Connect2Stream
  <2>2. i \in DOMAIN descriptors /\ choice[i] = descriptors[i]
    BY <2>1, QuietFacts
  <2> QED BY <1>1, <1>2, <2>1, <2>2 DEF OnSourceChanged
<1>3. CASE ReconnectStream
  BY <1>1, <1>3 DEF ReconnectStream, Connect2Stream, HasValidStreamingDevice
<1>4. CASE SendCommand
  <2> USE <1>4 DEF SendCommand, HasValidStreamingDevice
  <2>1. ~Leaving /\ StreamIndex
    OBVIOUS
  <2>2. streaming # 0 /\ ~Removing /\ io # "renumber"
    BY <2>1, QuietFacts, ListFacts DEF ListsInv
  <2>3. lastSend'.to = lastSend'.for
    BY <2>1, <2>2 DEF StreamIndex, ActivePhone, Addressee
  <2>4. StreamIndex'
    BY <2>1 DEF StreamIndex, Removing, Shifted
  <2> QED BY <2>3, <2>4
<1>5. CASE CloseWindow
  BY <1>5 DEF CloseWindow, StreamIndex, Removing, Shifted
<1>6. CASE Boot \/ JoinReturns
  BY <1>6 DEF Boot, JoinReturns, guiVars, StreamIndex, Removing, Shifted
<1>7. CASE RefreshList
  BY <1>7 DEF RefreshList, StreamIndex, Removing, Shifted
<1> QED BY <1>2, <1>3, <1>4, <1>5, <1>6, <1>7 DEF GuiStep

\* Only GUI handlers can make, or mend, what is raced.
LEMMA RacedStays ==
  ASSUME PhoneStep \/ IoStep
  PROVE  raced' = raced
<1> USE DEF guiVars
<1>1. PhoneStep => raced' = raced
  BY DEF PhoneStep, Dial, Announce, Leave
<1>2. IoStep => raced' = raced
  BY DEF IoStep, AcceptBegin, ReadFails, ReadDescriptor, ReadDescriptorThrows,
         NotifyConnected, ListDevices, NotifyDisconnected, RemoveDescriptor,
         Renumber, RunReturns
<1> QED BY <1>1, <1>2

(***************************************************************************)
(* RoutingInv is inductive.                                                *)
(***************************************************************************)
LEMMA RoutingStep ==
  ASSUME ~redialled', RoutingInv, [Next]_vars
  PROVE  RoutingInv'
<1>1. ListsInv' /\ Rows'
  BY ListsStep, RowsStep DEF RoutingInv
<1>2. ASSUME ~raced'
      PROVE  StreamInv'
  <2>1. CASE UNCHANGED vars
    BY <1>2, <2>1 DEF RoutingInv, StreamInv, StreamIndex, Removing, Shifted,
                vars, phoneVars, ioVars, mgrVars, guiVars
  <2>2. CASE PhoneStep \/ IoStep
    BY <1>2, <2>2, RacedStays, PhoneStepRouting, IoStepRouting DEF RoutingInv, Steady
  <2>3. CASE GuiStep
    BY <1>2, <2>3, GuiStepRouting DEF RoutingInv
  <2> QED BY <2>1, <2>2, <2>3 DEF Next
<1> QED BY <1>1, <1>2 DEF RoutingInv

(***************************************************************************)
(* The routing invariant of RoutingInv's comment, for any number of phones *)
(* and connections, until a phone dials while the host still has it.       *)
(***************************************************************************)
THEOREM RoutingCorrect == Spec => [](redialled \/ RoutingInv)
<1>1. Init => RoutingInv
  <2> SUFFICES ASSUME Init PROVE ListsInv /\ Rows /\ StreamInv
    BY DEF RoutingInv
  <2>1. Rows
    BY DEF Init, Rows
  <2>2. StreamInv
    BY DEF Init, StreamInv, StreamIndex, Removing
  <2> QED BY <2>1, <2>2, ListsInit
<1>2. (redialled \/ RoutingInv) /\ [Next]_vars => (redialled \/ RoutingInv)'
  BY RoutingStep, RedialledStays
<1> QED BY <1>1, <1>2, PTL DEF Spec

(***************************************************************************)
(* Every command reaches the phone it was meant for, unless it is raced or *)
(* a phone has dialled while the host still had it.                        *)
(***************************************************************************)
THEOREM CommandsAlwaysReachTarget == Spec => []CommandsReachTarget
<1>1. redialled \/ RoutingInv => CommandsReachTarget
  BY DEF RoutingInv, StreamInv, CommandsReachTarget
<1> QED BY <1>1, RoutingCorrect, PTL

(***************************************************************************)
(* The stream ends with the control connection it was started on, with the *)
(* same exceptions.                                                        *)
(***************************************************************************)
THEOREM ActiveDisconnectAlwaysClears == Spec => ActiveDisconnectClears
<1> DEFINE Clears == io = "renumber" /\ io' # "renumber" /\ ioSock = via
                       => streaming' = 0 \/ raced \/ redialled
<1>1. (redialled \/ RoutingInv) /\ [Next]_vars => [Clears]_vars
  <2> SUFFICES ASSUME redialled \/ RoutingInv, Next, ~redialled, ~raced,
                      io = "renumber", io' # "renumber", ioSock = via
               PROVE  streaming' = 0
    OBVIOUS
  <2>0. Steady
    BY DEF RoutingInv, Steady
  <2>1. Renumber
    <3>1. ~PhoneStep
      BY DEF PhoneStep, Dial, Announce, Leave, ioVars
    <3>2. ~GuiStep
      BY DEF GuiStep, Boot, OnSourceChanged, ReconnectStream, RefreshList,
             SendCommand, CloseWindow, JoinReturns, ioVars
    <3>3. IoStep => Renumber
      BY DEF IoStep, AcceptBegin, ReadFails, ReadDescriptor, ReadDescriptorThrows,
             NotifyConnected, ListDevices, NotifyDisconnected, RemoveDescriptor, RunReturns
    <3> QED BY <3>1, <3>2, <3>3 DEF Next
  <2>2. ioSock \in Socket /\ ~Listed(ioSock) /\ Shifted(ioIndex)
    BY <2>0 DEF Steady, ListsInv, Places, TypeOK, StreamInv, StreamIndex
  <2>3. streaming # 0 /\ streaming \in Nat
    BY <2>0, <2>2 DEF Steady, ListsInv, TypeOK, StreamInv, StreamIndex
  <2>4. streaming = ioIndex
    <3>1. DOMAIN connections = 1 .. Len(connections) /\ Len(connections) \in Nat
      BY <2>0, ListFacts DEF Steady, ListsInv
    <3> QED BY <2>2, <2>3, <3>1 DEF Shifted, Listed
  <2> QED BY <2>1, <2>3, <2>4 DEF Renumber
<1> QED BY <1>1, RoutingCorrect, PTL DEF Spec, ActiveDisconnectClears

-----------------------------------------------------------------------------
(* The refinement *)

(***************************************************************************)
(* The connection of the open stream is one the host still has.            *)
(***************************************************************************)
LEMMA ViaHeld ==
  ASSUME Steady, via # NoSocket
  PROVE  via \in Socket /\ Held(via) /\ owner[via] \in Device
<1> USE DEF Steady, StreamInv, ListsInv
<1>1. via \in Socket /\ streaming # 0 /\ streaming \in Nat
  BY DEF StreamIndex, TypeOK
<1>2. DOMAIN connections = 1 .. Len(connections) /\ Len(connections) \in Nat
  BY ListFacts
<1>3. ASSUME NEW n \in Nat, Shifted(n)
      PROVE  Held(via)
  BY <1>1, <1>2, <1>3 DEF Shifted, Held, Listed
<1>4. Held(via)
  <2>1. CASE Removing
    <3>1. PICK n \in DOMAIN descriptors : Shifted(n)
      BY <2>1 DEF StreamIndex
    <3>2. n \in Nat
      BY ListFacts
    <3> QED BY <1>3, <3>1, <3>2
  <2>2. CASE io = "renumber"
    BY <1>3, <2>2 DEF StreamIndex, TypeOK
  <2>3. CASE ~Removing /\ io # "renumber"
    BY <1>1, <2>3 DEF StreamIndex, Held, Listed
  <2> QED BY <2>1, <2>2, <2>3
<1> QED BY <1>1, <1>4 DEF OnePerPhone

(***************************************************************************)
(* The directory does not see a step that leaves the descriptors, the      *)
(* stream and the renumbering handler alone.                               *)
(***************************************************************************)
LEMMA SilentStep ==
  ASSUME Steady, UNCHANGED <<descriptors, via, lastSend>>,
         io = "renumber" \/ io' = "renumber" => UNCHANGED <<io, ioSock>>,
         \A s \in Socket : Held(s) => owner'[s] = owner[s]
  PROVE  UNCHANGED Directory!vars
<1>1. ActivePhone' = ActivePhone
  BY ViaHeld DEF ActivePhone
<1>2. io = "renumber" => owner'[ioSock] = owner[ioSock]
  BY DEF Steady, StreamInv, ListsInv, Places, TypeOK, Held
<1>3. ListedPhones' = ListedPhones
  BY <1>2 DEF ListedPhones
<1> QED BY <1>1, <1>3 DEF Directory!vars

(***************************************************************************)
(* The directory does not see the phones move.                             *)
(***************************************************************************)
LEMMA PhoneStepDirectory ==
  ASSUME Steady, PhoneStep
  PROVE  UNCHANGED Directory!vars
<1>1. UNCHANGED <<ioVars, mgrVars, guiVars>>
  BY DEF PhoneStep, Dial, Announce, Leave
<1>2. \A s \in Socket : Held(s) => owner'[s] = owner[s]
  <2>1. ASSUME NEW s \in Socket, NEW d \in Device, Dial(s, d)
        PROVE  \A t \in Socket : Held(t) => owner'[t] = owner[t]
    BY <2>1 DEF Dial, Steady, ListsInv, OnePerPhone, TypeOK
  <2> QED BY <2>1 DEF PhoneStep, Announce, Leave
<1> QED BY <1>1, <1>2, SilentStep DEF ioVars, mgrVars, guiVars

(***************************************************************************)
(* NotifyConnected is a Join and Renumber is a Leave; no other IO step is  *)
(* visible.                                                                *)
(***************************************************************************)
LEMMA IoStepDirectory ==
  ASSUME Steady, IoStep
  PROVE  [Directory!Next]_(Directory!vars)
<1> USE DEF Steady, StreamInv, ListsInv, phoneVars, mgrVars, guiVars
<1>1. CASE NotifyConnected /\ booted
  <2> USE <1>1 DEF NotifyConnected
  <2> DEFINE d == owner[ioSock]
  <2>1. ioSock \in Socket /\ d \in Device
    BY DEF Places, OnePerPhone, Held, TypeOK
  <2>2. Phones = Append(descriptors, d)
    BY DEF InStep
  <2>3. \A p \in DOMAIN descriptors : descriptors[p] # d
    <3>1. /\ Len(descriptors) \in Nat /\ DOMAIN descriptors = 1 .. Len(descriptors)
          /\ descriptors \in Seq(Device \union {Moved})
      BY DEF TypeOK
    <3>2. /\ DOMAIN connections = 1 .. Len(descriptors) + 1
          /\ owner[connections[Len(descriptors) + 1]] = d
          /\ \A p \in 1 .. Len(descriptors) : owner[connections[p]] = descriptors[p]
      <4> HIDE DEF d
      <4>1. /\ DOMAIN Phones = 1 .. Len(descriptors) + 1
            /\ Phones[Len(descriptors) + 1] = d
            /\ \A p \in 1 .. Len(descriptors) : Phones[p] = descriptors[p]
        BY <2>2, <3>1
      <4>2. /\ DOMAIN Phones = DOMAIN connections
            /\ \A p \in DOMAIN connections : Phones[p] = owner[connections[p]]
        BY ListFacts
      <4> QED BY <3>1, <4>1, <4>2
    <3>3. \A p, q \in DOMAIN connections :
            owner[connections[p]] = owner[connections[q]] => p = q
      BY ListFacts DEF OnePerPhone, Held, Listed, Places
    <3> QED BY <3>1, <3>2, <3>3
  <2>4. {descriptors'[p] : p \in DOMAIN descriptors'}
          = {descriptors[p] : p \in DOMAIN descriptors} \union {d}
    <3>1. Len(descriptors) \in Nat /\ descriptors \in Seq(Device \union {Moved})
      BY DEF TypeOK
    <3>2. descriptors' = Append(descriptors, d)
      OBVIOUS
    <3> HIDE DEF d
    <3>3. /\ DOMAIN descriptors = 1 .. Len(descriptors)
          /\ DOMAIN descriptors' = 1 .. Len(descriptors) + 1
          /\ \A p \in 1 .. Len(descriptors) : descriptors'[p] = descriptors[p]
          /\ descriptors'[Len(descriptors) + 1] = d
      BY <3>1, <3>2
    <3> QED BY <3>1, <3>3
  <2>5. d \notin ListedPhones /\ ListedPhones' = ListedPhones \union {d}
    BY <2>3, <2>4 DEF ListedPhones
  <2>6. ActivePhone' = ActivePhone
    BY DEF ActivePhone
  <2> QED BY <2>1, <2>5, <2>6 DEF Directory!Next, Directory!Join
<1>2. CASE RemoveDescriptor
  <2> USE <1>2 DEF RemoveDescriptor
  <2>1. PICK n \in DOMAIN descriptors :
          descriptors[n] = owner[ioSock] /\ Phones = DropAt(descriptors, n)
    BY DEF InStep, Removing
  <2>2. \A p \in DOMAIN descriptors : descriptors[p] = owner[ioSock] => p = n
    BY <2>1, OneDescriptor DEF Removing
  <2>3. /\ Positions(descriptors, owner[ioSock]) = {n}
        /\ EraseOne(descriptors, owner[ioSock]) = DropAt(descriptors, n)
    BY <2>1, <2>2, EraseOnly DEF TypeOK
  <2>4. descriptors' = DropAt(descriptors, n) /\ io' = "renumber"
    BY <2>3
  <2>5. {descriptors'[p] : p \in DOMAIN descriptors'} \union {owner[ioSock]}
          = {descriptors[p] : p \in DOMAIN descriptors}
    <3>1. DOMAIN descriptors = 1 .. Len(descriptors) /\ Len(descriptors) \in Nat
      BY ListFacts
    <3>2. DOMAIN descriptors' = 1 .. Len(descriptors) - 1
      BY <2>4, DropAtType DEF TypeOK
    <3>3. \A p \in DOMAIN descriptors' :
            descriptors'[p] = IF p < n THEN descriptors[p] ELSE descriptors[p + 1]
      BY <2>4, <3>2 DEF DropAt
    <3>4. ASSUME NEW p \in DOMAIN descriptors, p # n
          PROVE  \E r \in DOMAIN descriptors' : descriptors'[r] = descriptors[p]
      <4>1. CASE p < n
        BY <3>1, <3>2, <3>3, <4>1
      <4>2. CASE p > n
        <5>1. p - 1 \in DOMAIN descriptors' /\ descriptors'[p - 1] = descriptors[p]
          BY <3>1, <3>2, <3>3, <4>2
        <5> QED BY <5>1
      <4> QED BY <3>1, <3>4, <4>1, <4>2
    <3>5. \A p \in DOMAIN descriptors' : \E r \in DOMAIN descriptors : descriptors'[p] = descriptors[r]
      BY <3>1, <3>2, <3>3
    <3> QED BY <2>1, <3>4, <3>5
  <2>6. ListedPhones' = ListedPhones /\ ActivePhone' = ActivePhone
    BY <2>4, <2>5 DEF ListedPhones, ActivePhone
  <2> QED BY <2>6 DEF Directory!vars
<1>3. CASE Renumber
  <2> USE <1>3 DEF Renumber
  <2> DEFINE d == owner[ioSock]
  <2>1. ioSock \in Socket /\ d \in Device /\ ~Listed(ioSock) /\ Phones = descriptors
    BY DEF Places, OnePerPhone, Held, TypeOK, InStep, Removing
  <2>2. Shifted(ioIndex) /\ streaming \in Nat /\ ioIndex \in Nat
    BY DEF StreamIndex, TypeOK
  <2>3. \A p \in DOMAIN connections : owner[connections[p]] # d
    BY <2>1, ListFacts DEF OnePerPhone, Held, Listed
  <2>4. \A p \in DOMAIN descriptors : descriptors[p] # d
    BY <2>1, <2>3 DEF Phones
  <2>5. d \in ListedPhones /\ ListedPhones' = ListedPhones \ {d}
    BY <2>1, <2>4 DEF ListedPhones
  <2>6. DOMAIN connections = 1 .. Len(connections) /\ Len(connections) \in Nat
    BY ListFacts
  <2>7. CASE streaming = ioIndex
    <3>1. via' = NoSocket /\ via = ioSock
      BY <2>2, <2>7 DEF Shifted
    <3> QED BY <2>1, <2>5, <3>1 DEF ActivePhone, Directory!Next, Directory!Leave
  <2>8. CASE streaming # ioIndex
    <3>1. via # NoSocket => Listed(via)
      BY <2>2, <2>6, <2>8 DEF Shifted, StreamIndex, Listed
    <3>2. ActivePhone # d
      BY <2>1, <2>3, <3>1 DEF ActivePhone, Listed
    <3>3. ActivePhone' = ActivePhone
      BY <2>8 DEF ActivePhone
    <3> QED BY <2>1, <2>5, <3>2, <3>3 DEF Directory!Next, Directory!Leave
  <2> QED BY <2>7, <2>8
<1>4. CASE /\ UNCHANGED <<owner, descriptors, via, lastSend>>
           /\ io # "renumber" /\ io' # "renumber"
  BY <1>4, SilentStep DEF Directory!vars
<1>5. ASSUME NEW s \in Socket, AcceptBegin(s) \/ ReadFails(s)
      PROVE  [Directory!Next]_(Directory!vars)
  BY <1>4, <1>5 DEF AcceptBegin, ReadFails
<1>6. CASE ReadDescriptor \/ ReadDescriptorThrows \/ ListDevices \/ RunReturns
  BY <1>4, <1>6 DEF ReadDescriptor, ReadDescriptorThrows, ListDevices, RunReturns
<1>7. CASE NotifyConnected /\ ~booted
  BY <1>4, <1>7 DEF NotifyConnected
<1>8. CASE NotifyDisconnected
  BY <1>4, <1>8 DEF NotifyDisconnected
<1> QED BY <1>1, <1>2, <1>3, <1>5, <1>6, <1>7, <1>8 DEF IoStep

(***************************************************************************)
(* User actions are Select, Command and StopStream.                        *)
(***************************************************************************)
LEMMA GuiStepDirectory ==
  ASSUME ListsInv, Rows, raced \/ StreamInv, GuiStep, ~raced'
  PROVE  [Directory!Next]_(Directory!vars)
<1> USE DEF phoneVars, ioVars, mgrVars
<1>1. ASSUME NEW i \in DOMAIN descriptors, ~Leaving, Connect2Stream(i, descriptors[i]),
             UNCHANGED <<owner, io, ioSock, descriptors>>
      PROVE  [Directory!Next]_(Directory!vars)
  <2> DEFINE d == descriptors[i]
  <2>1. /\ d \in Device /\ Addressee(i) = d
        /\ i \in DOMAIN connections /\ connections[i] \in Socket /\ owner[connections[i]] = d
    BY <1>1, QuietFacts
  <2>2. d \in ListedPhones /\ ListedPhones' = ListedPhones
    BY <1>1 DEF ListedPhones
  <2>3. ActivePhone' = d
    BY <1>1, <2>1 DEF Connect2Stream, ActivePhone
  <2>4. lastSend' = [for |-> d, to |-> d]
    BY <1>1, <2>1 DEF Connect2Stream
  <2> QED BY <2>1, <2>2, <2>3, <2>4 DEF Directory!Next, Directory!Select
<1>2. ASSUME NEW i \in DOMAIN choice, OnSourceChanged(i)
      PROVE  [Directory!Next]_(Directory!vars)
  <2>1. ~Leaving
    BY <1>2 DEF OnSourceChanged, Connect2Stream
  <2>2. i \in DOMAIN descriptors /\ choice[i] = descriptors[i]
    BY <2>1, QuietFacts
  <2> QED BY <1>1, <1>2, <2>1, <2>2 DEF OnSourceChanged
<1>3. CASE ReconnectStream
  BY <1>1, <1>3 DEF ReconnectStream, Connect2Stream, HasValidStreamingDevice
<1>4. CASE SendCommand
  <2> USE <1>4 DEF SendCommand, HasValidStreamingDevice
  <2>1. ~Leaving /\ Steady
    BY DEF Steady
  <2>2. streaming # 0 /\ ~Removing /\ io # "renumber"
    BY <2>1, QuietFacts, ListFacts DEF ListsInv
  <2>3. via # NoSocket /\ lastSend' = [for |-> owner[via], to |-> owner[via]]
    BY <2>1, <2>2 DEF Steady, StreamInv, StreamIndex, ActivePhone, Addressee
  <2>4. ActivePhone = owner[via] /\ ActivePhone # NoDevice
    BY <2>1, <2>3, ViaHeld DEF ActivePhone
  <2>5. UNCHANGED <<ListedPhones, ActivePhone>>
    BY DEF ListedPhones, ActivePhone
  <2> QED BY <2>3, <2>4, <2>5 DEF Directory!Next, Directory!Command
<1>5. CASE CloseWindow
  <2> USE <1>5 DEF CloseWindow
  <2>1. ActivePhone' = NoDevice /\ UNCHANGED ListedPhones
    BY DEF ActivePhone, ListedPhones
  <2> QED BY <2>1 DEF Directory!Next, Directory!StopStream
<1>6. CASE Boot \/ JoinReturns \/ RefreshList
  <2>1. Steady
    BY <1>6 DEF Boot, JoinReturns, RefreshList, guiVars, Steady
  <2> QED BY <1>6, <2>1, SilentStep DEF Boot, JoinReturns, RefreshList, guiVars
<1> QED BY <1>2, <1>3, <1>4, <1>5, <1>6 DEF GuiStep

(***************************************************************************)
(* The two lists, the index and the handlers' shifts implement the         *)
(* directory: a set of listed phones, one of them active, commands to it;  *)
(* but for what is raced or follows a second dialling.                     *)
(***************************************************************************)
THEOREM DirectoryImplemented == Spec => ImplementsDirectory
<1> DEFINE DirStep == redialled' \/ raced' \/ Directory!Next
<1>1. Init => Directory!Init
  BY DEF Init, Directory!Init, ListedPhones, ActivePhone
<1>2. (redialled \/ RoutingInv) /\ [Next]_vars => [DirStep]_(Directory!vars)
  <2> SUFFICES ASSUME redialled \/ RoutingInv, [Next]_vars, ~redialled', ~raced'
               PROVE  [Directory!Next]_(Directory!vars)
    OBVIOUS
  <2>1. ListsInv /\ Rows /\ (raced \/ StreamInv)
    BY RedialledStays DEF RoutingInv
  <2>2. CASE UNCHANGED vars
    <3>1. Steady
      BY <2>1, <2>2 DEF Steady, vars, guiVars
    <3> QED BY <2>2, <3>1, SilentStep DEF vars, phoneVars, ioVars, mgrVars, guiVars
  <2>3. CASE PhoneStep \/ IoStep
    <3>1. Steady
      BY <2>1, <2>3, RacedStays DEF Steady
    <3> QED BY <2>3, <3>1, PhoneStepDirectory, IoStepDirectory
  <2>4. CASE GuiStep
    BY <2>1, <2>4, GuiStepDirectory
  <2> QED BY <2>2, <2>3, <2>4 DEF Next
<1> QED BY <1>1, <1>2, RoutingCorrect, PTL DEF Spec, ImplementsDirectory

-----------------------------------------------------------------------------
(* Closing the window *)

LEMMA CloseInvInitially == Init => CloseInv
BY DEF Init, CloseInv

LEMMA CloseInvKept == CloseInv /\ [Next]_vars => CloseInv'
<1> SUFFICES ASSUME CloseInv, [Next]_vars PROVE CloseInv'
  OBVIOUS
<1> USE DEF CloseInv, phoneVars, ioVars, mgrVars, guiVars
<1>1. CASE PhoneStep \/ UNCHANGED vars
  BY <1>1 DEF PhoneStep, Dial, Announce, Leave, vars
<1>2. CASE IoStep
  <2>1. UNCHANGED <<gui, acceptorOpen>>
    BY <1>2 DEF IoStep, AcceptBegin, ReadFails, ReadDescriptor, ReadDescriptorThrows,
       NotifyConnected, ListDevices, NotifyDisconnected, RemoveDescriptor, Renumber, RunReturns
  <2>2. ~crashed /\ (accepting' => accepting \/ acceptorOpen)
    BY <1>2 DEF IoStep, AcceptBegin, ReadFails, ReadDescriptor, ReadDescriptorThrows,
       NotifyConnected, ListDevices, NotifyDisconnected, RemoveDescriptor, Renumber, RunReturns
  <2>3. crashed' = crashed \/ io' \in {"notifyConnected", "notifyDisconnected", "removeDescriptor"}
    BY <1>2 DEF IoStep, AcceptBegin, ReadFails, ReadDescriptor, ReadDescriptorThrows,
       NotifyConnected, ListDevices, NotifyDisconnected, RemoveDescriptor, Renumber, RunReturns
  <2> QED BY <2>1, <2>2, <2>3
<1>3. CASE GuiStep
  <2>1. CASE CloseWindow \/ JoinReturns \/ Boot
    BY <2>1 DEF CloseWindow, JoinReturns, Boot, GuiFree
  <2>2. CASE (\E i \in DOMAIN choice : OnSourceChanged(i)) \/ ReconnectStream \/ SendCommand
             \/ RefreshList
    <3>1. gui = "idle" /\ gui' = gui
      BY <2>2 DEF OnSourceChanged, ReconnectStream, SendCommand, RefreshList, GuiFree
    <3> QED BY <3>1
  <2> QED BY <1>3, <2>1, <2>2 DEF GuiStep
<1> QED BY <1>1, <1>2, <1>3 DEF Next

\* While the window's thread joins, all the IO thread does between two
\* handlers is to leave run().
LEMMA JoiningStep ==
  ASSUME CloseInv, [Next]_vars, gui = "joining", io \in {"run", "ended"}
  PROVE  /\ IoStep => RunReturns
         /\ \/ gui' = "closed"
            \/ gui' = "joining" /\ io' = io
            \/ gui' = "joining" /\ io = "run" /\ io' = "ended"
<1> USE DEF CloseInv, phoneVars, ioVars, mgrVars, guiVars
<1>1. IoStep => RunReturns
  BY DEF IoStep, AcceptBegin, ReadFails, ReadDescriptor, ReadDescriptorThrows,
     NotifyConnected, ListDevices, NotifyDisconnected, RemoveDescriptor, Renumber
<1>2. ~GuiFree
  BY DEF GuiFree
<1>3. CASE PhoneStep \/ UNCHANGED vars \/ Boot
  BY <1>1, <1>3 DEF PhoneStep, Dial, Announce, Leave, Boot, vars
<1>4. CASE RunReturns
  BY <1>1, <1>4 DEF RunReturns
<1>5. CASE JoinReturns
  BY <1>1, <1>5 DEF JoinReturns
<1>6. GuiStep => Boot \/ JoinReturns
  BY <1>2 DEF GuiStep, OnSourceChanged, ReconnectStream, SendCommand, RefreshList, CloseWindow
<1> QED BY <1>1, <1>3, <1>4, <1>5, <1>6 DEF Next

(***************************************************************************)
(* Closing the window with no handler in progress ends the process: the IO *)
(* thread leaves run() and is joined (server.cpp, Close), however many     *)
(* phones are connected or dialling, and whatever they do.                 *)
(***************************************************************************)
THEOREM QuietCloseAlwaysCompletes ==
  FairSpec /\ []CloseGuardsEnable => QuietCloseCompletes
<1> DEFINE Q1 == gui = "joining" /\ io = "run"
           Q2 == gui = "joining" /\ io = "ended"
           Q3 == gui = "closed"
<1>1. CloseInv /\ Q1 /\ [Next]_vars => Q1' \/ Q2' \/ Q3'
  BY JoiningStep
<1>2. CloseInv /\ Q1 /\ <<IoStep>>_vars => Q2'
  <2> SUFFICES ASSUME CloseInv, Q1, IoStep PROVE Q2'
    OBVIOUS
  <2>1. RunReturns
    BY JoiningStep DEF Next
  <2> QED BY <2>1 DEF RunReturns, guiVars
<1>3. CloseInv /\ Q2 /\ [Next]_vars => Q2' \/ Q3'
  BY JoiningStep
<1>4. <<JoinReturns>>_vars => Q3'
  BY DEF JoinReturns
<1>5. /\ CloseInv /\ Q1 => RunCanReturn
      /\ CloseInv /\ Q2 => JoinCanReturn
  BY DEF CloseInv, RunCanReturn, JoinCanReturn
<1>6. Spec => []CloseInv
  BY CloseInvInitially, CloseInvKept, PTL DEF Spec
<1>7. QuietCloseCompletes <=> (Q1 \/ Q2 ~> Q3)
  <2>1. gui = "joining" /\ io \in {"run", "ended"} <=> Q1 \/ Q2
    OBVIOUS
  <2> QED BY <2>1, PTL DEF QuietCloseCompletes
<1> HIDE DEF Q1, Q2, Q3
<1> QED
  BY <1>1, <1>2, <1>3, <1>4, <1>5, <1>6, <1>7, PTL
  DEF FairSpec, Fairness, Spec, CloseGuardsEnable
=============================================================================
