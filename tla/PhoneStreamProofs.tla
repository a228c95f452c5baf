--------------------------- MODULE PhoneStreamProofs ---------------------------
(***************************************************************************)
(* Proofs about PhoneStream, for every set of commands, and, in the second *)
(* half, about AndroidPhone.                                               *)
(***************************************************************************)
EXTENDS PhoneStream, AndroidPhone, TLAPS

\* The controller's bitrates are positive and in order.
AbrSane ==
  abr # NoAbr =>
    /\ 0 < abr.lo /\ abr.lo <= abr.hi /\ 0 < abr.current
    /\ abr.adaptive => abr.current \in abr.lo .. abr.hi

\* What is inside the encoder and in the configuration of this moment agrees
\* with the header of a client that has seen no change of the codec.
HeaderInv ==
  /\ ~client.on => client = NoClient
  /\ client.on /\ ~client.shifted =>
       /\ ~client.strange
       /\ {client.header, encoder.codec, encoding} \subseteq {"none", config.codec}

StreamInv ==
  /\ TypeOK /\ config.lo <= config.hi
  /\ AbrSane /\ AbrWithinPolicy /\ EncoderAsBelieved /\ HeaderInv

(***************************************************************************)
(* A controller is not the absence of one, nor a session that of one.      *)
(***************************************************************************)
LEMMA Present ==
  /\ NoAbr \notin Abr
  /\ NoSession \notin Session
<1>1. NoAbr \notin Abr
  <2>1. DOMAIN NoAbr = {"absent"}
    BY DEF NoAbr
  <2>2. \A a \in Abr : "lo" \in DOMAIN a
    BY DEF Abr
  <2> QED BY <2>1, <2>2
<1>2. NoSession \notin Session
  BY DEF NoSession, Session, Codec
<1> QED BY <1>1, <1>2

(***************************************************************************)
(* A nudge keeps a positive bitrate between its bounds.                    *)
(***************************************************************************)
LEMMA Nudged ==
  ASSUME NEW a \in Abr, a.lo <= a.current, a.current <= a.hi
  PROVE  \A b \in {Lowered(a), Raised(a)} :
           /\ b \in Abr /\ b.current \in a.lo .. a.hi
           /\ b.adaptive = a.adaptive /\ b.lo = a.lo /\ b.hi = a.hi
<1>1. \A x, y \in Nat : /\ Max({x, y}) = IF x < y THEN y ELSE x
                        /\ Min({x, y}) = IF x < y THEN x ELSE y
  BY DEF Max, Min
<1>2. a.lo \in Nat /\ a.hi \in Nat /\ a.current \in Nat
  BY DEF Abr
<1>3. \A c \in Nat : /\ (c * 8) \div 10 \in Nat /\ (c * 8) \div 10 <= c
                     /\ (c * 11) \div 10 \in Nat /\ c <= (c * 11) \div 10
  OBVIOUS
<1>4. Max({a.lo, (a.current * 8) \div 10}) \in a.lo .. a.hi
  <2>1. PICK y \in Nat : y = (a.current * 8) \div 10 /\ y <= a.current
    BY <1>2, <1>3
  <2>2. Max({a.lo, y}) = IF a.lo < y THEN y ELSE a.lo
    BY <1>1, <1>2
  <2> QED BY <1>2, <2>1, <2>2
<1>5. Min({a.hi, (a.current * 11) \div 10}) \in a.lo .. a.hi
  <2>1. PICK y \in Nat : y = (a.current * 11) \div 10 /\ a.current <= y
    BY <1>2, <1>3
  <2>2. Min({a.hi, y}) = IF a.hi < y THEN a.hi ELSE y
    BY <1>1, <1>2
  <2> QED BY <1>2, <2>1, <2>2
<1>6. \A x \in a.lo .. a.hi :
        /\ [a EXCEPT !.current = x] \in Abr /\ [a EXCEPT !.current = x].current = x
        /\ [a EXCEPT !.current = x].adaptive = a.adaptive
        /\ [a EXCEPT !.current = x].lo = a.lo /\ [a EXCEPT !.current = x].hi = a.hi
  BY <1>2 DEF Abr
<1>7. /\ Lowered(a) \in Abr /\ Lowered(a).current \in a.lo .. a.hi
      /\ Lowered(a).adaptive = a.adaptive /\ Lowered(a).lo = a.lo /\ Lowered(a).hi = a.hi
  BY <1>4, <1>6 DEF Lowered
<1>8. /\ Raised(a) \in Abr /\ Raised(a).current \in a.lo .. a.hi
      /\ Raised(a).adaptive = a.adaptive /\ Raised(a).lo = a.lo /\ Raised(a).hi = a.hi
  BY <1>5, <1>6 DEF Raised
<1> QED BY <1>7, <1>8

(***************************************************************************)
(* The invariant holds at the start.                                       *)
(***************************************************************************)
LEMMA StreamInit == Init => StreamInv
<1> SUFFICES ASSUME Init PROVE StreamInv
  OBVIOUS
<1>1. TypeOK
  BY CommandsAssumption DEF Init, TypeOK, NoClient, Client
<1>2. config.lo <= config.hi
  BY CommandsAssumption DEF Init
<1>3. AbrSane /\ AbrWithinPolicy /\ EncoderAsBelieved
  BY DEF Init, AbrSane, AbrWithinPolicy, EncoderAsBelieved
<1>4. HeaderInv
  BY DEF Init, HeaderInv, NoClient
<1> QED BY <1>1, <1>2, <1>3, <1>4 DEF StreamInv

-----------------------------------------------------------------------------
(* The steps *)

(***************************************************************************)
(* configureABR() makes a controller of the configuration, and an encoder  *)
(* that there is keeps its codec and knows the bitrate unless it is new.   *)
(***************************************************************************)
LEMMA AbrConfigured ==
  ASSUME NEW cfg \in ConfigSet, cfg.lo <= cfg.hi, NEW enc \in Session \union {NoSession},
         ConfigureAbr(cfg, enc), abr = NoAbr => enc = NoSession \/ enc.kbps = cfg.kbps
  PROVE  /\ abr' \in Abr /\ encoder' \in Session \union {NoSession}
         /\ abr'.adaptive = cfg.adaptive /\ abr'.lo = cfg.lo /\ abr'.hi = cfg.hi
         /\ abr'.current = (IF cfg.adaptive THEN cfg.hi ELSE cfg.kbps)
         /\ 0 < abr'.lo /\ 0 < abr'.current
         /\ untold' \in BOOLEAN /\ refused' = FALSE
         /\ enc = NoSession <=> encoder' = NoSession
         /\ encoder'.codec = enc.codec
         /\ encoder' # NoSession /\ ~untold' => encoder'.kbps = abr'.current
<1>1. Policy(cfg) \in Abr /\ Policy(cfg).current \in Nat \ {0}
  BY DEF Policy, Believed, Abr, ConfigSet
<1>2. /\ abr'.adaptive = cfg.adaptive /\ abr'.lo = cfg.lo /\ abr'.hi = cfg.hi
      /\ abr'.current = (IF cfg.adaptive THEN cfg.hi ELSE cfg.kbps)
      /\ 0 < abr'.lo
  BY DEF ConfigureAbr, Policy, Believed, ConfigSet
<1>3. \A k \in Nat \ {0} :
        /\ Told(enc, k) \in Session \union {NoSession}
        /\ enc = NoSession <=> Told(enc, k) = NoSession
        /\ Told(enc, k).codec = enc.codec
        /\ enc # NoSession => Told(enc, k).kbps = k
  BY Present DEF Told, Session
<1>4. encoder' = IF abr = NoAbr THEN enc ELSE Told(enc, abr'.current)
  BY DEF ConfigureAbr, AfterPolicy
<1>5. untold' = (abr = NoAbr /\ cfg.adaptive) /\ refused' = FALSE /\ abr' = Policy(cfg)
  BY DEF ConfigureAbr
<1>6. abr'.current \in Nat \ {0} /\ abr' \in Abr
  BY <1>1, <1>5
<1>7. CASE abr = NoAbr
  <2>1. encoder' = enc
    BY <1>4, <1>7
  <2>2. untold' = cfg.adaptive
    BY <1>5, <1>7 DEF ConfigSet
  <2> QED BY <1>2, <1>5, <1>6, <1>7, <2>1, <2>2 DEF ConfigSet
<1>8. CASE abr # NoAbr
  <2>1. encoder' = Told(enc, abr'.current)
    BY <1>4, <1>8
  <2>2. ~untold'
    BY <1>5, <1>8
  <2> QED BY <1>2, <1>3, <1>5, <1>6, <2>1, <2>2
<1> QED BY <1>7, <1>8

(***************************************************************************)
(* Nothing but its client changes when a unit is sent: a header is set at  *)
(* the first, and matches if the unit is of the configuration's codec.     *)
(***************************************************************************)
LEMMA UnitSent ==
  ASSUME TypeOK, HeaderInv, NEW unit \in Codec
  PROVE  /\ Sent(unit) \in Client
         /\ Sent(unit).on = client.on /\ Sent(unit).shifted = client.shifted
         /\ ~client.on => Sent(unit) = NoClient
         /\ client.on /\ ~client.shifted /\ unit = config.codec =>
              ~Sent(unit).strange /\ Sent(unit).header = config.codec
<1>1. config.codec \in Codec /\ client \in Client
  BY DEF TypeOK, ConfigSet
<1>2. CASE ~client.on
  BY <1>1, <1>2 DEF Sent, HeaderInv
<1>3. CASE client.on
  <2> DEFINE header == IF client.header = "none" THEN Named(config) ELSE client.header
  <2>1. Sent(unit) = [client EXCEPT !.header = header,
                                    !.strange = client.strange \/ header # unit]
    BY <1>3 DEF Sent
  <2>2. header \in Codec /\ (client.header \in {"none", config.codec} => header = config.codec)
    BY <1>1 DEF Named, Client
  <2> HIDE DEF header
  <2>3. /\ Sent(unit) \in Client /\ Sent(unit).header = header
        /\ Sent(unit).strange = (client.strange \/ header # unit)
        /\ Sent(unit).on = client.on /\ Sent(unit).shifted = client.shifted
    BY <1>1, <2>1, <2>2 DEF Client
  <2> QED BY <1>3, <2>2, <2>3 DEF HeaderInv
<1> QED BY <1>2, <1>3

(***************************************************************************)
(* Steps that leave the controller, the encoder and the configuration      *)
(* alone keep all that is said of them.                                    *)
(***************************************************************************)
LEMMA BitratesKept ==
  ASSUME StreamInv, UNCHANGED <<config, applying, abr, encoder, untold, refused>>
  PROVE  /\ config' \in ConfigSet /\ config'.lo <= config'.hi
         /\ applying' \in BOOLEAN /\ untold' \in BOOLEAN /\ refused' \in BOOLEAN
         /\ abr' \in Abr \union {NoAbr} /\ encoder' \in Session \union {NoSession}
         /\ AbrSane' /\ AbrWithinPolicy' /\ EncoderAsBelieved'
BY DEF StreamInv, TypeOK, AbrSane, AbrWithinPolicy, EncoderAsBelieved

(***************************************************************************)
(* Units and clients come and go.                                          *)
(***************************************************************************)
LEMMA DataStep ==
  ASSUME StreamInv, Encode \/ Emit \/ ClientJoins \/ ClientLeaves \/ Connect
  PROVE  StreamInv'
<1> USE DEF StreamInv
<1>1. UNCHANGED <<config, applying, abr, encoder, frames, untold, refused>>
  BY DEF Encode, Emit, ClientJoins, ClientLeaves, Connect
<1>2. encoder \in Session \union {NoSession} /\ client \in Client /\ config.codec \in Codec
      /\ encoding \in {"none"} \union Codec /\ live \in BOOLEAN
  BY DEF TypeOK, ConfigSet
<1>3. NoClient \in Client /\ ~NoClient.on
  BY DEF NoClient, Client
<1>4. SUFFICES live' \in BOOLEAN /\ encoding' \in {"none"} \union Codec /\ client' \in Client
               /\ HeaderInv'
  BY <1>1, BitratesKept DEF TypeOK
<1>5. CASE Encode
  <2>1. encoder.codec \in Codec
    BY <1>2, <1>5 DEF Encode, Session
  <2> QED BY <1>2, <1>5, <2>1 DEF Encode, HeaderInv
<1>6. CASE Emit
  <2>1. encoding \in Codec /\ client' = Sent(encoding)
    BY <1>2, <1>6 DEF Emit
  <2>2. client.on /\ ~client.shifted => encoding = config.codec
    BY <2>1 DEF HeaderInv, Codec
  <2> QED BY <1>2, <1>6, <2>1, <2>2, UnitSent DEF Emit, HeaderInv
<1>7. CASE ClientJoins
  <2>1. /\ client' \in Client /\ client'.on /\ client'.header = "none" /\ ~client'.strange
        /\ ~client'.shifted => {encoder.codec, encoding} \subseteq {"none", config.codec}
    BY <1>7 DEF ClientJoins, NoClient, Client
  <2> QED BY <1>2, <1>7, <2>1 DEF ClientJoins, HeaderInv
<1>8. CASE ClientLeaves
  BY <1>2, <1>3, <1>8 DEF ClientLeaves, HeaderInv
<1>9. CASE Connect
  BY <1>2, <1>9 DEF Connect, HeaderInv
<1> QED BY <1>5, <1>6, <1>7, <1>8, <1>9

(***************************************************************************)
(* disconnect() leaves nothing to disagree.                                *)
(***************************************************************************)
LEMMA DisconnectStep ==
  ASSUME StreamInv, Disconnect
  PROVE  StreamInv'
<1>1. TypeOK'
  BY DEF StreamInv, TypeOK, Disconnect, NoClient, Client
<1>2. config'.lo <= config'.hi
  BY DEF StreamInv, Disconnect
<1>3. AbrSane' /\ AbrWithinPolicy' /\ EncoderAsBelieved'
  BY DEF Disconnect, AbrSane, AbrWithinPolicy, EncoderAsBelieved
<1>4. HeaderInv'
  BY DEF Disconnect, HeaderInv, NoClient
<1> QED BY <1>1, <1>2, <1>3, <1>4 DEF StreamInv

(***************************************************************************)
(* A nudge moves the controller within its policy, and the encoder, if     *)
(* there is one, with it.                                                  *)
(***************************************************************************)
LEMMA AdjustStep ==
  ASSUME StreamInv, Adjust
  PROVE  StreamInv'
<1> USE DEF StreamInv
<1>1. /\ abr \in Abr /\ abr.adaptive /\ 0 < abr.lo /\ abr.current \in abr.lo .. abr.hi
      /\ abr.lo \in Nat /\ abr.hi \in Nat
  BY DEF Adjust, TypeOK, AbrSane, Abr
<1>2. abr' \in {Lowered(abr), Raised(abr)}
  BY DEF Adjust
<1>3. /\ abr' \in Abr /\ abr'.current \in abr.lo .. abr.hi
      /\ abr'.adaptive = abr.adaptive /\ abr'.lo = abr.lo /\ abr'.hi = abr.hi
  <2>1. abr.lo <= abr.current /\ abr.current <= abr.hi
    BY <1>1
  <2> QED BY <1>1, <1>2, <2>1, Nudged
<1>4. abr'.current \in Nat \ {0}
  BY <1>1, <1>3
<1>5. /\ encoder' \in Session \union {NoSession} /\ encoder'.codec = encoder.codec
      /\ encoder = NoSession <=> encoder' = NoSession
      /\ encoder # NoSession => encoder'.kbps = abr'.current
  <2>1. encoder' = Told(encoder, abr'.current)
    BY DEF Adjust
  <2>2. encoder \in Session \union {NoSession}
    BY DEF TypeOK
  <2> QED BY <1>4, <2>1, <2>2, Present DEF Told, Session
<1>6. UNCHANGED <<live, config, applying, encoding, client, frames, refused>>
      /\ untold' = FALSE /\ ~applying
  BY DEF Adjust
<1>7. abr # NoAbr /\ abr' # NoAbr
  BY <1>1, <1>3, Present
<1>8. TypeOK' /\ config'.lo <= config'.hi
  BY <1>3, <1>5, <1>6 DEF TypeOK
<1>9. AbrSane'
  BY <1>1, <1>3, <1>4, <1>6 DEF AbrSane
<1>10. AbrWithinPolicy'
  BY <1>1, <1>3, <1>6, <1>7 DEF AbrWithinPolicy
<1>11. EncoderAsBelieved'
  BY <1>5, <1>6, <1>7 DEF EncoderAsBelieved
<1>12. HeaderInv'
  BY <1>5, <1>6 DEF HeaderInv
<1> QED BY <1>8, <1>9, <1>10, <1>11, <1>12

(***************************************************************************)
(* The configuration may change while it is being applied; a client that   *)
(* is there sees the change of its codec.                                  *)
(***************************************************************************)
LEMMA StoreStep ==
  ASSUME StreamInv, NEW cfg \in ConfigSet, cfg.lo <= cfg.hi, Store(cfg),
         UNCHANGED <<live, encoding, frames>>
  PROVE  StreamInv'
<1> USE DEF StreamInv
<1>1. /\ config' = cfg /\ applying' = TRUE
      /\ client' = [client EXCEPT !.shifted = client.shifted \/ (client.on /\ cfg.codec # config.codec)]
      /\ UNCHANGED <<live, encoding, abr, encoder, frames, untold, refused>>
  BY DEF Store
<1>2. client \in Client
  BY DEF TypeOK
<1>3. /\ client' \in Client /\ client'.on = client.on
      /\ client'.header = client.header /\ client'.strange = client.strange
      /\ client'.shifted = (client.shifted \/ (client.on /\ cfg.codec # config.codec))
  BY <1>1, <1>2 DEF Client
<1>4. TypeOK' /\ config'.lo <= config'.hi
  BY <1>1, <1>3 DEF TypeOK
<1>5. AbrSane' /\ AbrWithinPolicy' /\ EncoderAsBelieved'
  BY <1>1 DEF AbrSane, AbrWithinPolicy, EncoderAsBelieved
<1>6. HeaderInv'
  <2>1. CASE ~client.on
    <3>1. client = NoClient /\ (client.shifted \/ (client.on /\ cfg.codec # config.codec)) = FALSE
      BY <2>1 DEF HeaderInv, NoClient
    <3>2. client' = [NoClient EXCEPT !.shifted = FALSE]
      BY <1>1, <3>1
    <3>3. client' = NoClient /\ ~NoClient.on
      BY <3>2 DEF NoClient
    <3> QED BY <3>3 DEF HeaderInv
  <2>2. CASE client.on
    BY <1>1, <1>3, <2>2 DEF HeaderInv
  <2> QED BY <2>1, <2>2
<1> QED BY <1>4, <1>5, <1>6

(***************************************************************************)
(* The encoder is made for the configuration, or refuses it and is gone.   *)
(***************************************************************************)
LEMMA ConfigureStep ==
  ASSUME StreamInv, Configure
  PROVE  StreamInv'
<1> USE DEF StreamInv
<1> DEFINE made == [codec |-> config.codec, kbps |-> config.kbps]
<1>1. /\ config \in ConfigSet /\ config.lo <= config.hi /\ config.codec \in Codec
      /\ client \in Client /\ encoding \in {"none"} \union Codec
  BY DEF TypeOK, ConfigSet
<1>2. applying' = FALSE /\ encoding' = "none" /\ UNCHANGED <<live, config, frames>>
  BY DEF Configure
<1>3. /\ client' \in Client /\ client'.on = client.on /\ client'.shifted = client.shifted
      /\ ~client'.on => client' = NoClient
      /\ client'.on /\ ~client'.shifted =>
           ~client'.strange /\ client'.header \in {"none", config.codec}
  <2>1. CASE encoding = "none"
    <3>1. client' = client
      BY <2>1 DEF Configure
    <3> QED BY <1>1, <3>1 DEF HeaderInv
  <2>2. CASE encoding # "none"
    <3>1. encoding \in Codec /\ client' = Sent(encoding)
      BY <1>1, <2>2 DEF Configure
    <3>2. client.on /\ ~client.shifted => encoding = config.codec
      BY <3>1 DEF HeaderInv, Codec
    <3> QED BY <3>1, <3>2, UnitSent
  <2> QED BY <2>1, <2>2
<1>4. CASE ConfigureAbr(config, made)
  <2>1. made \in Session /\ made.kbps = config.kbps /\ made.codec = config.codec /\ made # NoSession
    <3>1. made \in Session
      BY <1>1 DEF Session, ConfigSet
    <3> QED BY <3>1, Present
  <2> HIDE DEF made
  <2>2. /\ abr' \in Abr /\ encoder' \in Session \union {NoSession}
        /\ abr'.adaptive = config.adaptive /\ abr'.lo = config.lo /\ abr'.hi = config.hi
        /\ abr'.current = (IF config.adaptive THEN config.hi ELSE config.kbps)
        /\ 0 < abr'.lo /\ 0 < abr'.current
        /\ untold' \in BOOLEAN /\ refused' = FALSE
        /\ encoder'.codec = config.codec
        /\ encoder' # NoSession /\ ~untold' => encoder'.kbps = abr'.current
    BY <1>1, <1>4, <2>1, AbrConfigured
  <2>3. abr' # NoAbr
    BY <2>2, Present
  <2>4. TypeOK' /\ config'.lo <= config'.hi
    BY <1>1, <1>2, <1>3, <2>2 DEF TypeOK
  <2>5. AbrSane'
    BY <1>1, <1>2, <2>2 DEF AbrSane, ConfigSet
  <2>6. AbrWithinPolicy'
    BY <1>1, <1>2, <2>2 DEF AbrWithinPolicy, ConfigSet
  <2>7. EncoderAsBelieved'
    BY <1>2, <2>2, <2>3 DEF EncoderAsBelieved
  <2>8. HeaderInv'
    BY <1>2, <1>3, <2>2 DEF HeaderInv
  <2> QED BY <2>4, <2>5, <2>6, <2>7, <2>8
<1>5. CASE encoder' = NoSession /\ refused' = TRUE /\ UNCHANGED <<abr, untold>>
  <2>1. TypeOK' /\ config'.lo <= config'.hi
    BY <1>1, <1>2, <1>3, <1>5 DEF TypeOK
  <2>2. AbrSane' /\ AbrWithinPolicy' /\ EncoderAsBelieved'
    BY <1>2, <1>5 DEF AbrSane, AbrWithinPolicy, EncoderAsBelieved
  <2>3. HeaderInv'
    BY <1>2, <1>3, <1>5 DEF HeaderInv, NoSession
  <2> QED BY <2>1, <2>2, <2>3
<1> QED BY <1>4, <1>5 DEF Configure

(***************************************************************************)
(* Commands: two store a configuration, one changes the encoder alone, one *)
(* makes a new policy.                                                     *)
(***************************************************************************)
LEMMA HandleStep ==
  ASSUME StreamInv, NEW c \in Commands, Handle(c)
  PROVE  StreamInv'
<1> USE DEF StreamInv
<1>1. config \in ConfigSet /\ config.lo <= config.hi /\ encoder \in Session \union {NoSession}
      /\ ~applying
  BY DEF TypeOK, Handle
<1>2. UNCHANGED <<live, encoding, frames>>
  BY DEF Handle
<1>3. CASE c.op = "activation" /\ Store(c.config)
  <2>1. c.config \in ConfigSet /\ c.config.lo <= c.config.hi
    BY <1>3, CommandsAssumption
  <2> QED BY <1>2, <1>3, <2>1, StoreStep
<1>4. CASE c.op = "codec" /\ Store([config EXCEPT !.codec = c.codec])
  <2> DEFINE cfg == [config EXCEPT !.codec = c.codec]
  <2>1. c.codec \in Codec
    BY <1>4, CommandsAssumption
  <2>2. cfg \in ConfigSet /\ cfg.lo <= cfg.hi
    BY <1>1, <2>1 DEF ConfigSet
  <2> HIDE DEF cfg
  <2>3. Store(cfg)
    BY <1>4 DEF cfg
  <2> QED BY <1>2, <2>2, <2>3, StoreStep
<1>5. CASE /\ c.op = "bitrate" /\ encoder' = Told(encoder, c.kbps) /\ untold' = TRUE
           /\ UNCHANGED <<config, applying, abr, client, refused>>
  <2>1. c.kbps \in Nat \ {0}
    BY <1>5, CommandsAssumption
  <2>2. /\ encoder' \in Session \union {NoSession} /\ encoder'.codec = encoder.codec
        /\ encoder = NoSession <=> encoder' = NoSession
    BY <1>1, <1>5, <2>1, Present DEF Told, Session
  <2>3. TypeOK' /\ config'.lo <= config'.hi
    BY <1>2, <1>5, <2>2 DEF TypeOK
  <2>4. AbrSane' /\ AbrWithinPolicy' /\ EncoderAsBelieved'
    BY <1>5, <2>2 DEF AbrSane, AbrWithinPolicy, EncoderAsBelieved
  <2>5. HeaderInv'
    BY <1>2, <1>5, <2>2 DEF HeaderInv
  <2> QED BY <2>3, <2>4, <2>5
<1>6. CASE /\ c.op = "adaptive"
           /\ config' = [config EXCEPT !.adaptive = TRUE, !.lo = c.lo, !.hi = c.hi]
           /\ ConfigureAbr(config', encoder) /\ UNCHANGED <<applying, client>>
  <2>1. {c.lo, c.hi} \subseteq Nat \ {0} /\ c.lo <= c.hi
    BY <1>6, CommandsAssumption
  <2>2. config' \in ConfigSet /\ config'.lo <= config'.hi /\ config'.codec = config.codec
    BY <1>1, <1>6, <2>1 DEF ConfigSet
  <2>3. abr = NoAbr => encoder = NoSession
    BY <1>1 DEF EncoderAsBelieved
  <2>4. /\ abr' \in Abr /\ encoder' \in Session \union {NoSession}
        /\ abr'.adaptive = config'.adaptive /\ abr'.lo = config'.lo /\ abr'.hi = config'.hi
        /\ abr'.current = (IF config'.adaptive THEN config'.hi ELSE config'.kbps)
        /\ 0 < abr'.lo /\ 0 < abr'.current
        /\ untold' \in BOOLEAN /\ refused' = FALSE
        /\ encoder = NoSession <=> encoder' = NoSession
        /\ encoder'.codec = encoder.codec
        /\ encoder' # NoSession /\ ~untold' => encoder'.kbps = abr'.current
    BY <1>1, <1>6, <2>2, <2>3, AbrConfigured
  <2>5. abr' # NoAbr
    BY <2>4, Present
  <2>6. TypeOK'
    BY <1>2, <1>6, <2>2, <2>4 DEF TypeOK
  <2>7. AbrSane' /\ AbrWithinPolicy'
    BY <2>2, <2>4 DEF AbrSane, AbrWithinPolicy, ConfigSet
  <2>8. EncoderAsBelieved'
    BY <1>1, <1>6, <2>2, <2>4, <2>5 DEF EncoderAsBelieved
  <2>9. HeaderInv'
    BY <1>2, <1>6, <2>2, <2>4 DEF HeaderInv
  <2> QED BY <2>2, <2>6, <2>7, <2>8, <2>9
<1> QED BY <1>3, <1>4, <1>5, <1>6 DEF Handle

-----------------------------------------------------------------------------
(* The theorems *)

(***************************************************************************)
(* The invariant is inductive.                                             *)
(***************************************************************************)
LEMMA StreamAlways == Spec => []StreamInv
<1>1. StreamInv /\ [Next]_vars => StreamInv'
  <2> SUFFICES ASSUME StreamInv, [Next]_vars PROVE StreamInv'
    OBVIOUS
  <2>1. ASSUME NEW c \in Commands, Handle(c) PROVE StreamInv'
    BY <2>1, HandleStep
  <2>2. ASSUME NEW rate \in {"low", "mid", "full"}, FrameRate(rate) PROVE StreamInv'
    BY <2>2, BitratesKept DEF FrameRate, StreamInv, TypeOK, HeaderInv
  <2>3. CASE UNCHANGED vars
    BY <2>3, BitratesKept DEF vars, StreamInv, TypeOK, HeaderInv
  <2> QED BY <2>1, <2>2, <2>3, AdjustStep, ConfigureStep, DisconnectStep, DataStep DEF Next
<1> QED BY <1>1, StreamInit, PTL DEF Spec

(***************************************************************************)
(* Configuration, controller, encoder and client are what they should be,  *)
(* and bitrates are positive, for every set of commands.                   *)
(***************************************************************************)
THEOREM StreamTypeCorrect == Spec => []TypeOK
BY StreamAlways, PTL DEF StreamInv

(***************************************************************************)
(* A client that sees no change of the codec, not even one that was stored *)
(* when it came and is still to reach the encoder, is sent no unit of a    *)
(* codec its header does not name.                                         *)
(***************************************************************************)
THEOREM HeadersTellCodec == Spec => []HeaderTellsCodec
<1>1. StreamInv => HeaderTellsCodec
  BY DEF StreamInv, HeaderInv, HeaderTellsCodec, NoClient
<1> QED BY <1>1, StreamAlways, PTL

(***************************************************************************)
(* The encoder runs with the codec of the configuration and the bitrate    *)
(* the controller believes in, for all bitrates that Windows may ask for,  *)
(* unless the controller is new or setBitrate went behind its back.        *)
(***************************************************************************)
THEOREM EncoderAlwaysAsBelieved == Spec => []EncoderAsBelieved
<1>1. StreamInv => EncoderAsBelieved
  BY DEF StreamInv
<1> QED BY <1>1, StreamAlways, PTL

(***************************************************************************)
(* Until the encoder refuses a configuration the adaptive bitrate never    *)
(* leaves its policy, for all bounds.                                      *)
(***************************************************************************)
THEOREM AbrAlwaysWithinPolicy == Spec => []AbrWithinPolicy
<1>1. StreamInv => AbrWithinPolicy
  BY DEF StreamInv
<1> QED BY <1>1, StreamAlways, PTL

-----------------------------------------------------------------------------
(***************************************************************************)
(* The other phone: proofs about AndroidPhone, for any bounds and any load *)
(* of its encoder.                                                         *)
(***************************************************************************)

Axes == {"h", "v"}
Names == Corrections \cup Axes
Packets == Activations \cup PcCommands
Fresh == Options(1, 1, TRUE, 4096000, FALSE, FALSE, FALSE)

\* The jobs there are, but for a second activation's.
Jobs == {Cmd("start", 1), Cmd("restart", None),
         Cmd("disconnected", None)}
          \cup {Cmd("effect", e) : e \in Effects}
          \cup {Cmd("correction", c) : c \in Corrections}
          \cup {Cmd("flip", axis) : axis \in Axes}

CorrectionBags == {SetToBag(S) : S \in SUBSET Corrections}
OptionSets == [size : {1, 2}, fps : {1, 2}, camera : BOOLEAN, bitrate : Nat, adaptive : BOOLEAN,
               stab : BOOLEAN, focus : BOOLEAN, h265 : BOOLEAN, effect : Effects,
               corrections : CorrectionBags, flips : SUBSET Axes]
Devices == [preview : BOOLEAN, camera : BOOLEAN, size : {1, 2}, streaming : BOOLEAN,
            format : {1, 2} \X {1, 2}, rate : Nat, stab : BOOLEAN, focus : BOOLEAN,
            codec : BOOLEAN]
Wants == [on : BOOLEAN, size : {1, 2}, fps : {1, 2}, camera : BOOLEAN, rate : Nat,
          stab : BOOLEAN, focus : BOOLEAN, codec : BOOLEAN, effect : Effects,
          filters : SUBSET Names]

(***************************************************************************)
(* The invariant.  Nothing is claimed once one of the exceptions of        *)
(* AsCommanded has happened.                                               *)
(***************************************************************************)
LinkInv == wire \in Seq(Packets) /\ buffer \in Packets \cup {Nothing} /\ sent \in Nat

PhoneTypes ==
  /\ opts \in [0 .. MaxActs -> OptionSets] /\ opts[0] = Fresh
  /\ cur \in {0, 1} /\ cur \in 0 .. MaxActs
  /\ main \in Seq(Jobs)
  /\ dev \in Devices /\ adapter \in BOOLEAN /\ want \in Wants

\* Before the activation, which is the first packet.
Idle ==
  /\ buffer = Nothing /\ (wire = <<>> => sent = 0)
  /\ wire # <<>> => Head(wire) \in Activations
  /\ rx => main = <<>>
  /\ \A i \in 1 .. Len(main) : main[i].op = "disconnected"
  /\ ~want.on /\ ~dev.streaming /\ ~adapter /\ gl = EmptyBag
  /\ dev.preview => dev.size = 1 /\ dev.camera

\* What a job makes of the effect and the filters, and a queue of them.
Chosen(e, F) == [effect |-> e, filters |-> F]
AllChosen == [effect : Effects, filters : SUBSET Names]
Carried(job, f) ==
  IF job.op = "effect" THEN Chosen(job.arg, f.filters)
  ELSE IF job.op = "correction" THEN Chosen(f.effect, f.filters \cup {job.arg})
  ELSE IF job.op = "flip" THEN Chosen(f.effect, Toggle(job.arg, f.filters)) ELSE f
Course(q, h) ==
  /\ h \in [0 .. Len(q) -> AllChosen]
  /\ \A i \in 1 .. Len(q) : h[i] = Carried(q[i], h[i - 1])
LeadsTo(q, f, g) == \E h : Course(q, h) /\ h[0] = f /\ h[Len(q)] = g

\* The options of the activation, and the filters in them.
Now == opts[1]
Filters == Now.flips \cup DOMAIN Now.corrections
InUse == Filters \cup ({Now.effect} \ {None})
Once(S) == SetToBag({<<name, 1>> : name \in S})

Has(op) == \E i \in 1 .. Len(main) : main[i].op = op
Waiting == main # <<>> /\ main[1].op = "start"

\* The start comes first; a correction waits once, and is not in use.
QueueInv ==
  /\ \A i \in 1 .. Len(main) : main[i].op = "start" => i = 1
  /\ \A i, j \in 1 .. Len(main) :
       main[i].op = "correction" /\ main[j].op = "correction" => i = j
  /\ \A i \in 1 .. Len(main) :
       main[i].op = "correction" => main[i].arg \in want.filters \ DOMAIN Now.corrections

\* The filters in use are those of the options, each once, and the jobs make
\* of them what was asked for.
FilterInv ==
  /\ gl = Once(InUse)
  /\ DOMAIN Now.corrections \subseteq want.filters
  /\ LeadsTo(main, Chosen(Now.effect, Filters), Chosen(want.effect, want.filters))

OptionInv ==
  /\ want.on /\ want.size = Now.size /\ want.fps = Now.fps /\ want.camera = Now.camera
  /\ adapter => Now.adaptive

\* The stream has not been started: it will be with the options.
WaitingInv ==
  /\ ~dev.streaming /\ ~Now.adaptive /\ want.rate = Now.bitrate
  /\ want.stab = Now.stab /\ want.focus = Now.focus /\ want.codec = Now.h265
  /\ Now.effect = None /\ Filters = {}
  /\ dev.preview => /\ dev.camera \in {TRUE, Now.camera}
                    /\ ~Has("restart") => dev.size \in {1, Now.size}

\* It has been: a restart will give it the options' format and bitrate.
StartedInv ==
  /\ dev.streaming /\ dev.preview /\ dev.camera = Now.camera
  /\ dev.stab = want.stab /\ dev.focus = want.focus /\ dev.codec = want.codec
  /\ IF Has("restart") THEN want.rate = Now.bitrate
     ELSE /\ dev.format = <<Now.size, Now.fps>> /\ dev.size = Now.size
          /\ ~Now.adaptive => dev.rate = want.rate

DeviceInv == IF Waiting THEN WaitingInv ELSE StartedInv

Active == QueueInv /\ FilterInv /\ OptionInv /\ DeviceInv
Regular == odd = {} /\ session # "over"
PhoneInv == PhoneTypes /\ IF cur = 0 THEN Idle ELSE Active
AndroidInv == LinkInv /\ (Regular => PhoneInv)

-----------------------------------------------------------------------------
(***************************************************************************)
(* Bags of names, each once.                                               *)
(***************************************************************************)
LEMMA OnceEmpty == Once({}) = EmptyBag
BY DEF Once, SetToBag, EmptyBag

LEMMA OnceMore ==
  ASSUME NEW S, NEW x, x \notin S
  PROVE  Once(S) (+) SetToBag({<<x, 1>>}) = Once(S \cup {x})
<1>1. \A n : <<n, 1>> \in {<<m, 1>> : m \in S} <=> n \in S
  OBVIOUS
<1> QED BY <1>1 DEF Once, SetToBag, (+)

LEMMA OnceLess ==
  ASSUME NEW S, NEW x, x \in S
  PROVE  Once(S) (-) SetToBag({<<x, 1>>}) = Once(S \ {x})
<1>1. \A n : <<n, 1>> \in {<<m, 1>> : m \in S} <=> n \in S
  OBVIOUS
<1> QED BY <1>1 DEF Once, SetToBag, (-)

LEMMA OnceSame ==
  ASSUME NEW S
  PROVE  Once(S) (+) EmptyBag = Once(S) /\ Once(S) (-) EmptyBag = Once(S)
BY DEF Once, EmptyBag, SetToBag, (+), (-)

(***************************************************************************)
(* What the PC sends, and what the phone reads.                            *)
(***************************************************************************)
LEMMA PacketTypes ==
  /\ \A p \in Activations : p.op = "activation" /\ p.arg \in Snapshots
  /\ \A p \in Packets \cup {Nothing} :
       /\ p.op = "activation" => p \in Activations
       /\ p.op \in {"resolution", "fps"} => p.arg \in {1, 2}
       /\ p.op = "effect" => p.arg \in Effects
       /\ p.op = "correction" => p.arg \in Corrections
       /\ p.op = "flip" => p.arg \in Axes
       /\ p.op \in {"bitrate", "adaptive"} => p.arg \in Nat
       /\ p.op \in {"stab", "focus", "codec"} => p.arg \in BOOLEAN
  /\ Nothing.op = "frame"
<1>1. \A p \in Activations : p.op = "activation" /\ p.arg \in Snapshots
  BY DEF Activations, Cmd
<1>2. \A p \in PcCommands :
        /\ p.op # "activation"
        /\ p.op \in {"resolution", "fps"} => p.arg \in {1, 2}
        /\ p.op = "effect" => p.arg \in Effects
        /\ p.op = "correction" => p.arg \in Corrections
        /\ p.op = "flip" => p.arg \in Axes
        /\ p.op \in {"bitrate", "adaptive"} => p.arg \in Nat
        /\ p.op \in {"stab", "focus", "codec"} => p.arg \in BOOLEAN
  BY DEF PcCommands, Cmd, Axes, ToldRate, Ceiling
<1>3. Nothing.op = "frame"
  BY DEF Nothing, Cmd
<1> QED BY <1>1, <1>2, <1>3 DEF Packets

LEMMA OptionsRead ==
  ASSUME NEW s \in Snapshots
  PROVE  /\ Deserialize(s) \in OptionSets /\ ~Deserialize(s).adaptive
         /\ Deserialize(s).effect = None /\ Deserialize(s).corrections = SetToBag({})
         /\ Deserialize(s).flips = {}
<1> DEFINE T == [size : {1, 2}, fps : {1, 2}, back : BOOLEAN, adaptive : BOOLEAN, bitrate : Nat,
                 max : Nat, stab : BOOLEAN, h265 : BOOLEAN, effect : Effects,
                 corrections : SUBSET Corrections]
<1>1. s \in T
  <2>1. DefaultOptions \in T
    BY SMT DEF DefaultOptions, Effects
  <2>2. ASSUME NEW d \in T, NEW m \in Nat
        PROVE  /\ [d EXCEPT !.size = 2, !.back = FALSE, !.max = m] \in T
               /\ [d EXCEPT !.adaptive = TRUE, !.stab = TRUE, !.h265 = TRUE] \in T
               /\ [d EXCEPT !.fps = 2, !.effect = "Sepia", !.corrections = Corrections] \in T
    BY Zenon DEF Effects
  <2>3. PICK m \in Nat : m = 12033
    OBVIOUS
  <2>4. [DefaultOptions EXCEPT !.size = 2, !.back = FALSE, !.max = 12033] \in T
    <3>1. [DefaultOptions EXCEPT !.size = 2, !.back = FALSE, !.max = m] \in T
      BY <2>1, <2>2
    <3> QED BY <2>3, <3>1, SMT
  <2>5. /\ [DefaultOptions EXCEPT !.adaptive = TRUE, !.stab = TRUE, !.h265 = TRUE] \in T
        /\ [DefaultOptions EXCEPT !.fps = 2, !.effect = "Sepia", !.corrections = Corrections] \in T
    BY <2>1, <2>2
  <2> HIDE DEF T
  <2> QED BY <2>1, <2>4, <2>5, SMT DEF Snapshots
<1> HIDE DEF T
<1> DEFINE r == (IF s.adaptive THEN 256 ELSE 0) + s.bitrate \div 16777216
           b1 == (s.max \div 65536) % 256 = 1
           b2 == s.max % 256 = 1
<1>2. r \in Nat
  <2>1. s.bitrate \div 16777216 \in Nat
    BY <1>1, SMT DEF T
  <2> QED BY <2>1, SMT
<1>3. b1 \in BOOLEAN /\ b2 \in BOOLEAN
  BY SMT
<1>4. Deserialize(s) = Options(s.size, s.fps, s.back, r, b1, s.stab, b2)
  BY SMT DEF Deserialize
<1> HIDE DEF r, b1, b2
<1> QED BY <1>1, <1>2, <1>3, <1>4
  DEF Options, OptionSets, CorrectionBags, EmptyBag, Effects, T

LEMMA JobTypes ==
  /\ \A job \in Jobs :
       /\ job.op \in {"start", "restart", "disconnected", "effect", "correction", "flip"}
       /\ job.op = "start" => job.arg = 1
       /\ job.op = "effect" => job.arg \in Effects
       /\ job.op = "correction" => job.arg \in Corrections
       /\ job.op = "flip" => job.arg \in Axes
  /\ Cmd("start", 1) \in Jobs /\ Cmd("restart", None) \in Jobs
  /\ Cmd("disconnected", None) \in Jobs
  /\ \A e \in Effects : Cmd("effect", e) \in Jobs
  /\ \A c \in Corrections : Cmd("correction", c) \in Jobs
  /\ \A axis \in Axes : Cmd("flip", axis) \in Jobs
<1>1. ASSUME NEW job \in Jobs
      PROVE  /\ job.op \in {"start", "restart", "disconnected", "effect", "correction", "flip"}
             /\ job.op = "start" => job.arg = 1
             /\ job.op = "effect" => job.arg \in Effects
             /\ job.op = "correction" => job.arg \in Corrections
             /\ job.op = "flip" => job.arg \in Axes
  <2>1. CASE job \in {Cmd("start", 1), Cmd("restart", None),
                       Cmd("disconnected", None)}
    BY <2>1 DEF Cmd
  <2>2. CASE job \in {Cmd("effect", e) : e \in Effects}
    BY <2>2 DEF Cmd
  <2>3. CASE job \in {Cmd("correction", c) : c \in Corrections}
    BY <2>3 DEF Cmd
  <2>4. CASE job \in {Cmd("flip", axis) : axis \in Axes}
    BY <2>4 DEF Cmd
  <2> QED BY <2>1, <2>2, <2>3, <2>4 DEF Jobs
<1>2. /\ \A e \in Effects : Cmd("effect", e) \in Jobs
      /\ \A c \in Corrections : Cmd("correction", c) \in Jobs
      /\ \A axis \in Axes : Cmd("flip", axis) \in Jobs
      /\ {Cmd("start", 1), Cmd("restart", None),
          Cmd("disconnected", None)} \subseteq Jobs
  BY DEF Jobs
<1> QED BY <1>1, <1>2

LEMMA CmdFields == \A op, arg : Cmd(op, arg).op = op /\ Cmd(op, arg).arg = arg
BY DEF Cmd

(***************************************************************************)
(* The queue of the main thread.                                           *)
(***************************************************************************)
LEMMA JobPosted ==
  ASSUME main \in Seq(Jobs), NEW job \in Jobs, main' = Append(main, job)
  PROVE  /\ main' \in Seq(Jobs) /\ Len(main) \in Nat /\ Len(main') = Len(main) + 1
         /\ \A i \in 1 .. Len(main) : main'[i] = main[i]
         /\ main'[Len(main) + 1] = job
         /\ \A i \in 1 .. Len(main') : i \in 1 .. Len(main) \/ i = Len(main) + 1
OBVIOUS

LEMMA HasPosted ==
  ASSUME main \in Seq(Jobs), NEW job \in Jobs, main' = Append(main, job)
  PROVE  /\ \A op : Has(op)' <=> Has(op) \/ job.op = op
         /\ Waiting' <=> IF main = <<>> THEN job.op = "start" ELSE Waiting
<1>1. \A op : Has(op)' <=> Has(op) \/ job.op = op
  BY JobPosted DEF Has
<1>2. CASE main = <<>>
  <2>1. main' # <<>> /\ main'[1] = job
    BY <1>2, JobPosted
  <2> QED BY <1>1, <1>2, <2>1 DEF Waiting
<1>3. CASE main # <<>>
  <2>1. main' # <<>> /\ main'[1] = main[1]
    BY <1>3, JobPosted
  <2> QED BY <1>1, <1>3, <2>1 DEF Waiting
<1> QED BY <1>2, <1>3

LEMMA JobTaken ==
  ASSUME main \in Seq(Jobs), main # <<>>, main' = Tail(main)
  PROVE  /\ main' \in Seq(Jobs) /\ Len(main) \in Nat /\ Len(main') \in Nat
         /\ Len(main) = Len(main') + 1
         /\ \A i \in 1 .. Len(main') : main'[i] = main[i + 1] /\ i + 1 \in 1 .. Len(main)
         /\ Head(main) = main[1] /\ Head(main) \in Jobs
         /\ \A i \in 1 .. Len(main) : i = 1 \/ (i - 1 \in 1 .. Len(main') /\ main'[i - 1] = main[i])
OBVIOUS

LEMMA HasTaken ==
  ASSUME main \in Seq(Jobs), main # <<>>, main' = Tail(main)
  PROVE  /\ \A op : Has(op) <=> Has(op)' \/ Head(main).op = op
         /\ Waiting <=> Head(main).op = "start"
<1>1. ASSUME NEW op PROVE Has(op) <=> Has(op)' \/ Head(main).op = op
  <2>1. ASSUME NEW i \in 1 .. Len(main), main[i].op = op PROVE Has(op)' \/ Head(main).op = op
    BY <2>1, JobTaken DEF Has
  <2>2. ASSUME NEW i \in 1 .. Len(main'), main'[i].op = op PROVE Has(op)
    BY <2>2, JobTaken DEF Has
  <2>3. 1 \in 1 .. Len(main)
    BY JobTaken
  <2> QED BY <2>1, <2>2, <2>3, JobTaken DEF Has
<1> QED BY <1>1, JobTaken DEF Waiting

\* The model looks for jobs by their kinds.
LEMMA PendingHas ==
  ASSUME main \in Seq(Jobs), NEW kinds
  PROVE  Pending(kinds) <=> \E op \in kinds : Has(op)
BY DEF Pending, Has

(***************************************************************************)
(* What a queue makes of the filters.                                      *)
(***************************************************************************)
LEMMA ChoiceCarried ==
  ASSUME NEW job \in Jobs, NEW f \in AllChosen
  PROVE  Carried(job, f) \in AllChosen
<1>1. f.effect \in Effects /\ f.filters \in SUBSET Names
  BY DEF AllChosen
<1>2. \A e \in Effects, F \in SUBSET Names : Chosen(e, F) \in AllChosen
  BY DEF Chosen, AllChosen
<1>3. job.op = "effect" => job.arg \in Effects
  BY JobTypes
<1>4. job.op = "correction" => f.filters \cup {job.arg} \in SUBSET Names
  BY <1>1, JobTypes DEF Names
<1>5. job.op = "flip" => Toggle(job.arg, f.filters) \in SUBSET Names
  BY <1>1, JobTypes DEF Names, Toggle
<1> QED BY <1>1, <1>2, <1>3, <1>4, <1>5 DEF Carried

LEMMA CoursePosted ==
  ASSUME main \in Seq(Jobs), NEW job \in Jobs, NEW f, NEW g, LeadsTo(main, f, g),
         main' = Append(main, job)
  PROVE  LeadsTo(main', f, Carried(job, g))
<1>1. PICK h : Course(main, h) /\ h[0] = f /\ h[Len(main)] = g
  BY DEF LeadsTo
<1> DEFINE n == Len(main)
           k == [i \in 0 .. n + 1 |-> IF i <= n THEN h[i] ELSE Carried(job, g)]
<1>2. /\ n \in Nat /\ Len(main') = n + 1 /\ \A i \in 1 .. n : main'[i] = main[i]
      /\ main'[n + 1] = job
  BY JobPosted
<1> HIDE DEF n
<1>3. h \in [0 .. n -> AllChosen] /\ \A i \in 1 .. n : h[i] = Carried(main[i], h[i - 1])
  BY <1>1 DEF Course, n
<1>4. g \in AllChosen /\ h[n] = g
  BY <1>1, <1>2, <1>3 DEF n
<1>5. k \in [0 .. n + 1 -> AllChosen]
  BY <1>2, <1>3, <1>4, ChoiceCarried
<1>6. ASSUME NEW i \in 1 .. n + 1 PROVE k[i] = Carried(main'[i], k[i - 1])
  <2>1. CASE i <= n
    <3>1. k[i] = h[i] /\ k[i - 1] = h[i - 1] /\ i \in 1 .. n
      BY <1>2, <2>1
    <3> QED BY <1>2, <1>3, <3>1
  <2>2. CASE i = n + 1
    <3>1. k[i] = Carried(job, g) /\ k[i - 1] = h[n]
      BY <1>2, <2>2
    <3> QED BY <1>2, <1>4, <2>2, <3>1
  <2> QED BY <1>2, <2>1, <2>2
<1>7. k[0] = f /\ k[n + 1] = Carried(job, g)
  BY <1>1, <1>2
<1> HIDE DEF k
<1>8. Course(main', k)
  BY <1>2, <1>5, <1>6 DEF Course
<1> QED BY <1>2, <1>7, <1>8 DEF LeadsTo

LEMMA CourseTaken ==
  ASSUME main \in Seq(Jobs), main # <<>>, main' = Tail(main), NEW f, NEW g, LeadsTo(main, f, g)
  PROVE  LeadsTo(main', Carried(Head(main), f), g)
<1>1. PICK h : Course(main, h) /\ h[0] = f /\ h[Len(main)] = g
  BY DEF LeadsTo
<1> DEFINE n == Len(main')
           k == [i \in 0 .. n |-> h[i + 1]]
<1>2. /\ n \in Nat /\ Len(main) = n + 1 /\ Head(main) = main[1]
      /\ \A i \in 1 .. n : main'[i] = main[i + 1]
  BY JobTaken
<1> HIDE DEF n
<1>3. h \in [0 .. n + 1 -> AllChosen] /\ \A i \in 1 .. n + 1 : h[i] = Carried(main[i], h[i - 1])
  BY <1>1, <1>2 DEF Course
<1>4. k \in [0 .. n -> AllChosen]
  BY <1>2, <1>3
<1>5. ASSUME NEW i \in 1 .. n PROVE k[i] = Carried(main'[i], k[i - 1])
  <2>1. i + 1 \in 1 .. n + 1 /\ (i + 1) - 1 = i /\ (i - 1) + 1 = i
    BY <1>2
  <2>2. k[i] = h[i + 1] /\ k[i - 1] = h[i]
    BY <1>2, <2>1
  <2> QED BY <1>2, <1>3, <2>1, <2>2
<1>6. k[0] = Carried(Head(main), f) /\ k[n] = g
  <2>1. 1 \in 1 .. n + 1 /\ 1 - 1 = 0 /\ 0 + 1 = 1
    BY <1>2
  <2>2. k[0] = h[1] /\ k[n] = h[n + 1]
    BY <1>2
  <2> QED BY <1>1, <1>2, <1>3, <2>1, <2>2
<1> HIDE DEF k
<1>7. Course(main', k)
  BY <1>4, <1>5 DEF Course, n
<1> QED BY <1>6, <1>7 DEF LeadsTo, n

LEMMA CourseOver ==
  ASSUME NEW f, NEW g, LeadsTo(<<>>, f, g)
  PROVE  f = g
BY DEF LeadsTo

LEMMA CourseBegun ==
  ASSUME NEW f \in AllChosen, NEW job \in Jobs, Carried(job, f) = f
  PROVE  LeadsTo(<<job>>, f, f)
<1> DEFINE k == [i \in 0 .. 1 |-> f]
<1>1. Len(<<job>>) = 1 /\ <<job>>[1] = job
  OBVIOUS
<1>2. k \in [0 .. 1 -> AllChosen] /\ k[0] = f /\ k[1] = f
  OBVIOUS
<1> HIDE DEF k
<1>3. ASSUME NEW i \in 1 .. Len(<<job>>) PROVE k[i] = Carried(<<job>>[i], k[i - 1])
  <2>1. i = 1 /\ i - 1 = 0
    BY <1>1
  <2> QED BY <1>1, <1>2, <2>1
<1>4. Course(<<job>>, k)
  BY <1>1, <1>2, <1>3 DEF Course
<1> QED BY <1>1, <1>2, <1>4 DEF LeadsTo

(***************************************************************************)
(* The queue and the filters, when a job is posted or taken.               *)
(***************************************************************************)
FiltersLeft ==
  /\ gl' = gl /\ Now'.effect = Now.effect /\ Now'.flips = Now.flips
  /\ Now'.corrections = Now.corrections

LEMMA QueueLeft ==
  ASSUME QueueInv, FilterInv, main' = main, FiltersLeft,
         want'.effect = want.effect, want'.filters = want.filters
  PROVE  QueueInv' /\ FilterInv'
<1>1. Now'.effect = Now.effect /\ Now'.corrections = Now.corrections /\ Filters' = Filters
  BY DEF FiltersLeft, Filters
<1>2. QueueInv'
  BY <1>1 DEF QueueInv
<1>3. InUse' = InUse /\ gl' = gl
  BY <1>1 DEF InUse, FiltersLeft
<1> QED BY <1>1, <1>2, <1>3 DEF FilterInv

LEMMA QueuePosted ==
  ASSUME main \in Seq(Jobs), QueueInv, FilterInv, NEW job \in Jobs, main' = Append(main, job),
         FiltersLeft, DOMAIN Now.corrections \subseteq Corrections,
         main = <<>> \/ job.op # "start",
         job.op = "correction" => ~Has("correction")
                                  /\ job.arg \in want'.filters \ DOMAIN Now.corrections,
         want.filters \cap Corrections \subseteq want'.filters,
         Chosen(want'.effect, want'.filters) = Carried(job, Chosen(want.effect, want.filters))
  PROVE  QueueInv' /\ FilterInv'
<1>1. /\ Now'.effect = Now.effect /\ DOMAIN Now'.corrections = DOMAIN Now.corrections
      /\ Filters' = Filters /\ gl' = gl
  BY DEF FiltersLeft, Filters
<1>2. /\ Len(main) \in Nat /\ Len(main') = Len(main) + 1
      /\ \A i \in 1 .. Len(main) : main'[i] = main[i] /\ main[i] \in Jobs
      /\ main'[Len(main) + 1] = job
      /\ \A i \in 1 .. Len(main') : i \in 1 .. Len(main) \/ i = Len(main) + 1
  BY JobPosted
<1>3. \A i \in 1 .. Len(main) : main[i].op = "correction" => main[i].arg \in want'.filters
  BY <1>2, JobTypes DEF QueueInv
<1>4. ASSUME NEW i \in 1 .. Len(main') PROVE main'[i].op = "start" => i = 1
  <2>1. CASE i \in 1 .. Len(main)
    BY <1>2, <2>1 DEF QueueInv
  <2>2. CASE i = Len(main) + 1
    <3>1. main = <<>> => i = 1
      BY <2>2
    <3> QED BY <1>2, <2>2, <3>1
  <2> QED BY <1>2, <2>1, <2>2
<1>5. \A i, j \in 1 .. Len(main') :
        main'[i].op = "correction" /\ main'[j].op = "correction" => i = j
  BY <1>2 DEF QueueInv, Has
<1>6. ASSUME NEW i \in 1 .. Len(main'), main'[i].op = "correction"
      PROVE  main'[i].arg \in want'.filters \ DOMAIN Now'.corrections
  BY <1>1, <1>2, <1>3, <1>6 DEF QueueInv
<1>7. LeadsTo(main', Chosen(Now.effect, Filters), Chosen(want'.effect, want'.filters))
  BY CoursePosted DEF FilterInv
<1>8. InUse' = InUse
  BY <1>1 DEF InUse
<1> QED BY <1>1, <1>4, <1>5, <1>6, <1>7, <1>8 DEF QueueInv, FilterInv

LEMMA QueueTaken ==
  ASSUME main \in Seq(Jobs), main # <<>>, main' = Tail(main), want' = want, QueueInv, FilterInv,
         DOMAIN Now'.corrections \subseteq
           DOMAIN Now.corrections
             \cup (IF Head(main).op = "correction" THEN {Head(main).arg} ELSE {}),
         gl' = Once(InUse'),
         Chosen(Now'.effect, Filters') = Carried(Head(main), Chosen(Now.effect, Filters))
  PROVE  QueueInv' /\ FilterInv' /\ ~Waiting'
<1>1. /\ main' \in Seq(Jobs) /\ Len(main) \in Nat /\ Len(main') \in Nat
      /\ Len(main) = Len(main') + 1
      /\ \A i \in 1 .. Len(main') : main'[i] = main[i + 1] /\ i + 1 \in 1 .. Len(main)
      /\ Head(main) = main[1] /\ 1 \in 1 .. Len(main)
  BY JobTaken
<1>2. \A i \in 1 .. Len(main') : main'[i].op # "start"
  BY <1>1 DEF QueueInv
<1>3. \A i, j \in 1 .. Len(main') :
        main'[i].op = "correction" /\ main'[j].op = "correction" => i = j
  <2> SUFFICES ASSUME NEW i \in 1 .. Len(main'), NEW j \in 1 .. Len(main'),
                      main'[i].op = "correction", main'[j].op = "correction"
               PROVE  i = j
    OBVIOUS
  <2>1. i + 1 = j + 1
    BY <1>1 DEF QueueInv
  <2> QED BY <2>1
<1>4. ASSUME NEW i \in 1 .. Len(main'), main'[i].op = "correction"
      PROVE  main'[i].arg \in want.filters \ DOMAIN Now'.corrections
  <2>1. i + 1 \in 1 .. Len(main) /\ i + 1 # 1 /\ main'[i] = main[i + 1]
    BY <1>1
  <2>2. Head(main).op # "correction"
    BY <1>1, <1>4, <2>1 DEF QueueInv
  <2> QED BY <1>4, <2>1, <2>2 DEF QueueInv
<1>5. ~Waiting'
  <2>1. main' # <<>> => 1 \in 1 .. Len(main')
    BY <1>1
  <2> QED BY <1>2, <2>1 DEF Waiting
<1>6. DOMAIN Now'.corrections \subseteq want.filters
  BY <1>1 DEF QueueInv, FilterInv
<1>7. LeadsTo(main', Chosen(Now'.effect, Filters'), Chosen(want.effect, want.filters))
  BY CourseTaken DEF FilterInv
<1> QED BY <1>2, <1>3, <1>4, <1>5, <1>6, <1>7 DEF QueueInv, FilterInv

(***************************************************************************)
(* The receive thread's handlers, once the activation has been read.       *)
(***************************************************************************)
Played == PhoneTypes /\ cur = 1 /\ Active

LEMMA NowTypes ==
  ASSUME PhoneTypes, cur = 1
  PROVE  /\ Now \in OptionSets /\ Options0 = Now
         /\ DOMAIN Now.corrections \subseteq Corrections
         /\ Filters \in SUBSET Names /\ Now.effect \in Effects
<1>1. Now \in OptionSets /\ Options0 = Now
  BY DEF PhoneTypes, Now, Options0
<1>2. Now.corrections \in CorrectionBags /\ Now.flips \subseteq Axes /\ Now.effect \in Effects
  BY <1>1 DEF OptionSets
<1>3. \A B \in CorrectionBags : DOMAIN B \subseteq Corrections
  BY DEF CorrectionBags, SetToBag
<1> QED BY <1>1, <1>2, <1>3 DEF Filters, Names

LEMMA OptionsSet ==
  ASSUME PhoneTypes, cur = 1, NEW o \in OptionSets, opts' = [opts EXCEPT ![cur] = o]
  PROVE  opts' \in [0 .. MaxActs -> OptionSets] /\ opts'[0] = Fresh /\ Now' = o
BY DEF PhoneTypes, Now

\* What a handler leaves alone.
LEMMA AllLeft ==
  ASSUME Played, UNCHANGED <<opts, cur, main, gl, dev, adapter, want>>
  PROVE  PhoneInv'
<1>1. PhoneTypes' /\ cur' = 1
  BY DEF Played, PhoneTypes
<1>2. FiltersLeft /\ Now' = Now
  BY DEF FiltersLeft, Now
<1>3. QueueInv' /\ FilterInv'
  BY <1>2, QueueLeft DEF Played, Active
<1>4. OptionInv' /\ DeviceInv'
  BY <1>2
  DEF Played, Active, OptionInv, DeviceInv, WaitingInv, StartedInv, Waiting, Has, Filters
<1> QED BY <1>1, <1>3, <1>4 DEF PhoneInv, Active

LEMMA CameraKept ==
  ASSUME Played, SwitchCamera, UNCHANGED adapter, odd' = {}
  PROVE  PhoneInv'
<1>1. CASE UNCHANGED <<opts, cur, main, gl, dev, want, odd>>
  BY <1>1, AllLeft
<1>2. CASE /\ dev' = [dev EXCEPT !.camera = ~@]
           /\ opts' = [opts EXCEPT ![cur].camera = ~@]
           /\ want' = [want EXCEPT !.camera = ~@]
           /\ odd' = Flag(Pending({"start"}), "early")
           /\ UNCHANGED <<cur, main, gl>>
  <2> DEFINE o == [Now EXCEPT !.camera = ~@]
  <2>1. Now \in OptionSets /\ dev \in Devices /\ want \in Wants
    BY NowTypes DEF Played, PhoneTypes
  <2>2. o \in OptionSets /\ dev' \in Devices /\ want' \in Wants
    BY <1>2, <2>1 DEF OptionSets, Devices, Wants
  <2>3. opts' = [opts EXCEPT ![cur] = o]
    BY <1>2 DEF Played, Now
  <2>4. opts' \in [0 .. MaxActs -> OptionSets] /\ opts'[0] = Fresh /\ Now' = o
    BY <2>2, <2>3, OptionsSet DEF Played
  <2>5. PhoneTypes' /\ cur' = 1
    BY <1>2, <2>2, <2>4 DEF Played, PhoneTypes
  <2>6. QueueInv' /\ FilterInv'
    <3>1. FiltersLeft
      BY <1>2, <2>1, <2>4 DEF FiltersLeft, OptionSets
    <3>2. want'.effect = want.effect /\ want'.filters = want.filters
      BY <1>2, <2>1 DEF Wants
    <3> QED BY <1>2, <3>1, <3>2, QueueLeft DEF Played, Active
  <2>7. ~Waiting /\ ~Waiting'
    <3>1. ~Has("start")
      BY <1>2, PendingHas DEF Flag, Played, PhoneTypes
    <3>2. main # <<>> => 1 \in 1 .. Len(main)
      BY DEF Played, PhoneTypes
    <3> QED BY <1>2, <3>1, <3>2 DEF Has, Waiting
  <2>8. OptionInv' /\ DeviceInv'
    BY <1>2, <2>1, <2>4, <2>7
    DEF Played, Active, OptionInv, DeviceInv, StartedInv, Has, OptionSets, Devices, Wants
  <2> QED BY <2>5, <2>6, <2>8 DEF PhoneInv, Active
<1> QED BY <1>1, <1>2 DEF SwitchCamera

LEMMA ResolutionKept ==
  ASSUME Played, NEW size \in {1, 2}, SetResolution(size), UNCHANGED adapter
  PROVE  PhoneInv'
<1>1. CASE size = Options0.size
  BY <1>1, AllLeft DEF SetResolution
<1>2. CASE size # Options0.size
  <2> DEFINE o == [Now EXCEPT !.size = size, !.bitrate = Optimal(size, Now.fps)]
  <2>1. Now \in OptionSets /\ want \in Wants /\ main \in Seq(Jobs) /\ Options0 = Now
    BY NowTypes DEF Played, PhoneTypes
  <2>2. /\ opts' = [opts EXCEPT ![cur].size = size, ![cur].bitrate = Optimal(size, Now.fps)]
        /\ main' = Append(main, Cmd("restart", None))
        /\ want' = [want EXCEPT !.size = size, !.rate = Optimal(size, Now.fps)]
        /\ UNCHANGED <<cur, gl, dev, odd>>
    BY <1>2, <2>1 DEF SetResolution, Post
  <2>3. Optimal(size, Now.fps) \in Nat
    BY <2>1 DEF Optimal, OptionSets
  <2>4. o \in OptionSets /\ want' \in Wants
    BY <2>1, <2>2, <2>3 DEF OptionSets, Wants
  <2>5. opts' \in [0 .. MaxActs -> OptionSets] /\ opts'[0] = Fresh /\ Now' = o
    <3>1. opts' = [opts EXCEPT ![cur] = o]
      BY <2>2 DEF Played, PhoneTypes, Now
    <3> QED BY <2>4, <3>1, OptionsSet DEF Played
  <2>6. Cmd("restart", None) \in Jobs /\ Cmd("restart", None).op = "restart"
    BY JobTypes, CmdFields
  <2>7. main' \in Seq(Jobs)
    BY <2>1, <2>2, <2>6, JobPosted
  <2>8. PhoneTypes' /\ cur' = 1
    BY <2>2, <2>4, <2>5, <2>7 DEF Played, PhoneTypes
  <2>9. QueueInv' /\ FilterInv'
    <3>1. FiltersLeft
      BY <2>1, <2>2, <2>5 DEF FiltersLeft, OptionSets
    <3>2. want'.effect = want.effect /\ want'.filters = want.filters
      BY <2>1, <2>2 DEF Wants
    <3>3. Chosen(want'.effect, want'.filters)
            = Carried(Cmd("restart", None), Chosen(want.effect, want.filters))
      BY <2>6, <3>2 DEF Carried
    <3> QED BY <2>1, <2>2, <2>6, <3>1, <3>2, <3>3, NowTypes, QueuePosted DEF Played, Active
  <2>10. Has("restart")' /\ (Waiting' <=> Waiting)
    BY <2>1, <2>2, <2>6, HasPosted DEF Waiting
  <2>11. OptionInv' /\ DeviceInv'
    BY <2>1, <2>2, <2>5, <2>10
    DEF Played, Active, OptionInv, DeviceInv, StartedInv, WaitingInv, OptionSets, Wants, Filters
  <2> QED BY <2>8, <2>9, <2>11 DEF PhoneInv, Active
<1> QED BY <1>1, <1>2

LEMMA FpsKept ==
  ASSUME Played, NEW fps \in {1, 2}, SetFps(fps), UNCHANGED adapter
  PROVE  PhoneInv'
<1>1. CASE fps = Options0.fps
  BY <1>1, AllLeft DEF SetFps
<1>2. CASE fps # Options0.fps
  <2> DEFINE o == [Now EXCEPT !.fps = fps]
  <2>1. Now \in OptionSets /\ want \in Wants /\ main \in Seq(Jobs) /\ Options0 = Now
    BY NowTypes DEF Played, PhoneTypes
  <2>2. /\ opts' = [opts EXCEPT ![cur].fps = fps]
        /\ main' = Append(main, Cmd("restart", None))
        /\ want' = [want EXCEPT !.fps = fps, !.rate = Now.bitrate]
        /\ UNCHANGED <<cur, gl, dev, odd>>
    BY <1>2, <2>1 DEF SetFps, Post
  <2>3. o \in OptionSets /\ want' \in Wants
    BY <2>1, <2>2 DEF OptionSets, Wants
  <2>4. opts' \in [0 .. MaxActs -> OptionSets] /\ opts'[0] = Fresh /\ Now' = o
    <3>1. opts' = [opts EXCEPT ![cur] = o]
      BY <2>2 DEF Played, Now
    <3> QED BY <2>3, <3>1, OptionsSet DEF Played
  <2>5. Cmd("restart", None) \in Jobs /\ Cmd("restart", None).op = "restart"
    BY JobTypes, CmdFields
  <2>6. main' \in Seq(Jobs)
    BY <2>1, <2>2, <2>5, JobPosted
  <2>7. PhoneTypes' /\ cur' = 1
    BY <2>2, <2>3, <2>4, <2>6 DEF Played, PhoneTypes
  <2>8. QueueInv' /\ FilterInv'
    <3>1. FiltersLeft
      BY <2>1, <2>2, <2>4 DEF FiltersLeft, OptionSets
    <3>2. want'.effect = want.effect /\ want'.filters = want.filters
      BY <2>1, <2>2 DEF Wants
    <3>3. Chosen(want'.effect, want'.filters)
            = Carried(Cmd("restart", None), Chosen(want.effect, want.filters))
      BY <2>5, <3>2 DEF Carried
    <3> QED BY <2>1, <2>2, <2>5, <3>1, <3>2, <3>3, NowTypes, QueuePosted DEF Played, Active
  <2>9. Has("restart")' /\ (Waiting' <=> Waiting)
    BY <2>1, <2>2, <2>5, HasPosted DEF Waiting
  <2>10. OptionInv' /\ DeviceInv'
    BY <2>1, <2>2, <2>4, <2>9
    DEF Played, Active, OptionInv, DeviceInv, StartedInv, WaitingInv, OptionSets, Wants, Filters
  <2> QED BY <2>7, <2>8, <2>10 DEF PhoneInv, Active
<1> QED BY <1>1, <1>2

\* A job for the filters leaves the stream as it is.
LEMMA FilterJobPosted ==
  ASSUME Played, NEW job \in Jobs, job.op \in {"effect", "correction", "flip", "disconnected"},
         main' = Append(main, job), UNCHANGED <<opts, cur, gl, dev, adapter>>,
         NEW e \in Effects, NEW F \in SUBSET Names,
         want' = [want EXCEPT !.effect = e, !.filters = F],
         job.op = "correction" => ~Has("correction") /\ job.arg \in F \ DOMAIN Now.corrections,
         want.filters \cap Corrections \subseteq F,
         Chosen(e, F) = Carried(job, Chosen(want.effect, want.filters))
  PROVE  PhoneInv'
<1>1. Now \in OptionSets /\ want \in Wants /\ main \in Seq(Jobs) /\ main' \in Seq(Jobs)
  BY NowTypes, JobPosted DEF Played, PhoneTypes
<1>2. want' \in Wants /\ want'.effect = e /\ want'.filters = F
  BY <1>1 DEF Wants
<1>3. PhoneTypes' /\ cur' = 1 /\ Now' = Now /\ FiltersLeft
  BY <1>1, <1>2 DEF Played, PhoneTypes, Now, FiltersLeft
<1>4. QueueInv' /\ FilterInv'
  BY <1>1, <1>2, <1>3, NowTypes, QueuePosted DEF Played, Active
<1>5. (Has("restart")' <=> Has("restart")) /\ (Waiting' <=> Waiting)
  BY <1>1, HasPosted DEF Waiting
<1>6. OptionInv' /\ DeviceInv'
  BY <1>1, <1>3, <1>5
  DEF Played, Active, OptionInv, DeviceInv, StartedInv, WaitingInv, Wants, Filters
<1> QED BY <1>3, <1>4, <1>6 DEF PhoneInv, Active

LEMMA EffectKept ==
  ASSUME Played, NEW e \in Effects, ApplyEffectFilter(e), UNCHANGED adapter
  PROVE  PhoneInv'
<1>1. want \in Wants
  BY DEF Played, PhoneTypes
<1>2. /\ want.filters \in SUBSET Names
      /\ want' = [want EXCEPT !.effect = e, !.filters = want.filters]
  BY <1>1 DEF ApplyEffectFilter, Wants
<1>3. /\ Cmd("effect", e) \in Jobs /\ Cmd("effect", e).op = "effect"
      /\ Cmd("effect", e).arg = e
      /\ main' = Append(main, Cmd("effect", e))
  BY JobTypes, CmdFields DEF ApplyEffectFilter, Post
<1>4. Chosen(e, want.filters)
        = Carried(Cmd("effect", e), Chosen(want.effect, want.filters))
  BY <1>3 DEF Carried, Chosen
<1> QED BY <1>2, <1>3, <1>4, FilterJobPosted DEF ApplyEffectFilter

LEMMA CorrectionKept ==
  ASSUME Played, NEW c \in Corrections, ApplyCorrectionFilter(c),
         UNCHANGED adapter, odd' = {}
  PROVE  PhoneInv'
<1>1. /\ want \in Wants /\ Options0 = Now /\ main \in Seq(Jobs)
      /\ DOMAIN Now.corrections \subseteq want.filters
  BY NowTypes DEF Played, PhoneTypes, Active, FilterInv
<1> DEFINE F == want.filters \cup {c}
<1>2. /\ want.effect \in Effects /\ F \in SUBSET Names
      /\ want' = [want EXCEPT !.effect = want.effect, !.filters = F]
  BY <1>1 DEF ApplyCorrectionFilter, Wants, Names
<1>3. CASE c \in DOMAIN Now.corrections
  <2>1. c \in want.filters
    BY <1>1, <1>3
  <2>2. want' = want
    BY <1>1, <2>1 DEF ApplyCorrectionFilter, Wants
  <2> QED BY <1>1, <1>3, <2>2, AllLeft DEF ApplyCorrectionFilter, BagIn, BagToSet
<1>4. CASE c \notin DOMAIN Now.corrections
  <2>1. /\ Cmd("correction", c) \in Jobs /\ Cmd("correction", c).op = "correction"
        /\ Cmd("correction", c).arg = c /\ main' = Append(main, Cmd("correction", c))
    BY <1>1, <1>4, JobTypes, CmdFields
    DEF ApplyCorrectionFilter, Post, BagIn, BagToSet
  <2>2. ~Has("correction") /\ c \in F \ DOMAIN Now.corrections
    BY <1>1, <1>4, PendingHas
    DEF ApplyCorrectionFilter, Flag
  <2>3. Chosen(want.effect, F)
          = Carried(Cmd("correction", c), Chosen(want.effect, want.filters))
    BY <2>1 DEF Carried, Chosen
  <2>4. want.filters \cap Corrections \subseteq F /\ UNCHANGED <<opts, cur, gl, dev, adapter>>
    BY DEF ApplyCorrectionFilter
  <2> HIDE DEF F
  <2> QED BY <1>2, <2>1, <2>2, <2>3, <2>4, FilterJobPosted
<1> QED BY <1>3, <1>4

LEMMA FlipKept ==
  ASSUME Played, NEW axis \in Axes, Flip(axis), UNCHANGED adapter
  PROVE  PhoneInv'
<1>1. want \in Wants
  BY DEF Played, PhoneTypes
<1> DEFINE F == Toggle(axis, want.filters)
<1>2. /\ want.effect \in Effects /\ F \in SUBSET Names
      /\ want.filters \cap Corrections \subseteq F
      /\ want' = [want EXCEPT !.effect = want.effect, !.filters = F]
  BY <1>1 DEF Flip, Wants, Names, Toggle, Axes, Corrections
<1>3. /\ Cmd("flip", axis) \in Jobs /\ Cmd("flip", axis).op = "flip"
      /\ Cmd("flip", axis).arg = axis /\ main' = Append(main, Cmd("flip", axis))
  BY JobTypes, CmdFields DEF Flip, Post
<1>4. Chosen(want.effect, F) = Carried(Cmd("flip", axis), Chosen(want.effect, want.filters))
  BY <1>3 DEF Carried, Chosen
<1> QED BY <1>2, <1>3, <1>4, FilterJobPosted DEF Flip

\* Nothing of the start or the restart is queued: the stream is as its options.
LEMMA NothingPending ==
  ASSUME Played, ~Has("start")
  PROVE  ~Waiting /\ StartedInv
<1>1. main # <<>> => 1 \in 1 .. Len(main)
  BY DEF Played, PhoneTypes
<1> QED BY <1>1 DEF Has, Waiting, Played, Active, DeviceInv

LEMMA BitrateKept ==
  ASSUME Played, NEW adaptive \in BOOLEAN, NEW rate \in Nat, SetBitrate(adaptive, rate),
         UNCHANGED adapter, odd' = {}
  PROVE  PhoneInv'
<1> DEFINE o == [Now EXCEPT !.adaptive = adaptive]
<1>1. Now \in OptionSets /\ want \in Wants /\ dev \in Devices /\ main \in Seq(Jobs)
  BY NowTypes DEF Played, PhoneTypes
<1>2. /\ opts' = [opts EXCEPT ![cur].adaptive = adaptive]
      /\ dev' = [dev EXCEPT !.rate = rate] /\ want' = [want EXCEPT !.rate = rate]
      /\ UNCHANGED <<cur, main, gl>>
  BY DEF SetBitrate
<1>3. o \in OptionSets /\ want' \in Wants /\ dev' \in Devices
  BY <1>1, <1>2 DEF OptionSets, Wants, Devices
<1>4. opts' \in [0 .. MaxActs -> OptionSets] /\ opts'[0] = Fresh /\ Now' = o
  <2>1. opts' = [opts EXCEPT ![cur] = o]
    BY <1>2 DEF Played, Now
  <2> QED BY <1>3, <2>1, OptionsSet DEF Played
<1>5. PhoneTypes' /\ cur' = 1
  BY <1>2, <1>3, <1>4 DEF Played, PhoneTypes
<1>6. QueueInv' /\ FilterInv'
  <2>1. FiltersLeft
    BY <1>1, <1>2, <1>4 DEF FiltersLeft, OptionSets
  <2>2. want'.effect = want.effect /\ want'.filters = want.filters
    BY <1>1, <1>2 DEF Wants
  <2> QED BY <1>2, <2>1, <2>2, QueueLeft DEF Played, Active
<1>7. ~Has("start") /\ ~Has("restart") /\ ~(adapter /\ ~adaptive)
  <2>1. ~Pending({"start", "restart"}) /\ ~(adapter /\ ~adaptive)
    BY DEF SetBitrate, Flag
  <2> QED BY <1>1, <2>1, PendingHas
<1>8. ~Waiting /\ StartedInv /\ ~Waiting' /\ ~Has("restart")'
  BY <1>2, <1>7, NothingPending DEF Waiting, Has
<1>9. OptionInv' /\ DeviceInv'
  BY <1>1, <1>2, <1>4, <1>7, <1>8
  DEF Played, Active, OptionInv, DeviceInv, StartedInv, OptionSets, Wants, Devices
<1> QED BY <1>5, <1>6, <1>9 DEF PhoneInv, Active

LEMMA FieldKept ==
  ASSUME Played, NEW field \in {"stab", "focus"}, NEW b \in BOOLEAN, SetCamera(field, b),
         UNCHANGED adapter, odd' = {}
  PROVE  PhoneInv'
<1>1. want \in Wants /\ dev \in Devices /\ main \in Seq(Jobs)
  BY DEF Played, PhoneTypes
<1>2. UNCHANGED <<opts, cur, main, gl, adapter>> /\ ~Has("start")
  BY <1>1, PendingHas DEF SetCamera, Flag
<1>3. \/ dev' = [dev EXCEPT !.stab = b] /\ want' = [want EXCEPT !.stab = b]
      \/ dev' = [dev EXCEPT !.focus = b] /\ want' = [want EXCEPT !.focus = b]
  BY DEF SetCamera
<1>4. want' \in Wants /\ dev' \in Devices /\ want'.effect = want.effect
      /\ want'.filters = want.filters
  BY <1>1, <1>3 DEF Wants, Devices
<1>5. PhoneTypes' /\ cur' = 1 /\ Now' = Now /\ FiltersLeft
  BY <1>2, <1>4 DEF Played, PhoneTypes, Now, FiltersLeft
<1>6. QueueInv' /\ FilterInv'
  BY <1>2, <1>4, <1>5, QueueLeft DEF Played, Active
<1>7. ~Waiting /\ StartedInv /\ ~Waiting' /\ (Has("restart")' <=> Has("restart"))
  BY <1>2, NothingPending DEF Waiting, Has
<1>8. OptionInv' /\ DeviceInv'
  BY <1>1, <1>2, <1>3, <1>5, <1>7
  DEF Played, Active, OptionInv, DeviceInv, StartedInv, Wants, Devices
<1> QED BY <1>5, <1>6, <1>8 DEF PhoneInv, Active

LEMMA CodecKept ==
  ASSUME Played, NEW b \in BOOLEAN, SetH265Codec(b), UNCHANGED adapter, odd' = {}
  PROVE  PhoneInv'
<1>1. /\ want \in Wants /\ dev \in Devices /\ main \in Seq(Jobs)
      /\ Options0 = Now /\ Now \in OptionSets
  BY NowTypes DEF Played, PhoneTypes
<1>2. UNCHANGED <<opts, cur, gl, adapter>> /\ ~Has("start")
  BY <1>1, PendingHas DEF SetH265Codec, Flag
<1>3. ~Waiting /\ StartedInv /\ dev.streaming
  BY <1>2, NothingPending DEF StartedInv
<1>4. /\ dev' = [dev EXCEPT !.codec = b]
      /\ want' = [want EXCEPT !.codec = b, !.rate = Now.bitrate]
      /\ main' = Append(main, Cmd("restart", None))
  BY <1>1, <1>3 DEF SetH265Codec, Post
<1>5. want' \in Wants /\ dev' \in Devices /\ want'.effect = want.effect
      /\ want'.filters = want.filters
  BY <1>1, <1>4 DEF Wants, Devices, OptionSets
<1>6. Cmd("restart", None) \in Jobs /\ Cmd("restart", None).op = "restart"
  BY JobTypes, CmdFields
<1>7. main' \in Seq(Jobs)
  BY <1>1, <1>4, <1>6, JobPosted
<1>8. PhoneTypes' /\ cur' = 1 /\ Now' = Now /\ FiltersLeft
  BY <1>2, <1>5, <1>7 DEF Played, PhoneTypes, Now, FiltersLeft
<1>9. QueueInv' /\ FilterInv'
  <2>1. Chosen(want'.effect, want'.filters)
          = Carried(Cmd("restart", None), Chosen(want.effect, want.filters))
    BY <1>5, <1>6 DEF Carried
  <2> QED BY <1>1, <1>4, <1>5, <1>6, <1>8, <2>1, NowTypes, QueuePosted DEF Played, Active
<1>10. Has("restart")' /\ ~Waiting'
  BY <1>1, <1>3, <1>4, <1>6, HasPosted
<1>11. OptionInv' /\ DeviceInv'
  BY <1>1, <1>2, <1>3, <1>4, <1>8, <1>10
  DEF Played, Active, OptionInv, DeviceInv, StartedInv, Wants, Devices
<1> QED BY <1>8, <1>9, <1>11 DEF PhoneInv, Active

\* The first activation, read while nothing is queued.
LEMMA ActivationKept ==
  ASSUME PhoneTypes, cur = 0, Idle, rx, NEW s \in Snapshots, StartStream(s),
         UNCHANGED adapter
  PROVE  PhoneInv'
<1> DEFINE o == Deserialize(s)
<1>1. /\ o \in OptionSets /\ ~o.adaptive /\ o.effect = None /\ o.corrections = SetToBag({})
      /\ o.flips = {}
  BY OptionsRead
<1>2. /\ cur' = 1 /\ 1 \in 0 .. MaxActs /\ opts' = [opts EXCEPT ![1] = o]
      /\ main' = Append(main, Cmd("start", 1))
      /\ want' = [on |-> TRUE, size |-> o.size, fps |-> o.fps, camera |-> o.camera,
                  rate |-> o.bitrate, stab |-> o.stab, focus |-> o.focus,
                  codec |-> o.h265, effect |-> None, filters |-> {}]
      /\ UNCHANGED <<gl, dev>>
  <2>1. cur < MaxActs /\ cur' = 1 /\ main' = Append(main, Cmd("start", 1))
    BY DEF StartStream, Post
  <2>2. 1 \in 0 .. MaxActs
    BY <2>1, BoundsAssumption
  <2> QED BY <2>1, <2>2, SMT DEF StartStream
<1> HIDE DEF o
<1>3. Cmd("start", 1) \in Jobs /\ Cmd("start", 1).op = "start"
  BY JobTypes, CmdFields
<1>4. main = <<>> /\ main' = <<Cmd("start", 1)>> /\ main' \in Seq(Jobs)
  BY <1>2, <1>3 DEF Idle
<1>5. opts' \in [0 .. MaxActs -> OptionSets] /\ opts'[0] = Fresh /\ Now' = o
  BY <1>1, <1>2 DEF PhoneTypes, Now
<1>6. want' \in Wants
  BY <1>1, <1>2 DEF OptionSets, Wants, Effects
<1>7. PhoneTypes'
  BY <1>2, <1>4, <1>5, <1>6 DEF PhoneTypes
<1>8. Filters' = {} /\ InUse' = {} /\ Now'.effect = None /\ DOMAIN Now'.corrections = {}
  BY <1>1, <1>5 DEF Filters, InUse, SetToBag
<1>9. Len(main') = 1 /\ main'[1] = Cmd("start", 1) /\ main' # <<>>
  BY <1>4
<1>10. QueueInv'
  BY <1>3, <1>9 DEF QueueInv
<1>11. FilterInv'
  <2>1. Chosen(None, {}) \in AllChosen
    BY DEF Chosen, AllChosen, Effects
  <2>2. LeadsTo(main', Chosen(None, {}), Chosen(None, {}))
    BY <1>3, <1>4, <2>1, CourseBegun DEF Carried
  <2>3. gl' = Once({})
    BY <1>2, OnceEmpty DEF Idle
  <2>4. want'.effect = None /\ want'.filters = {}
    BY <1>2
  <2> QED BY <1>8, <2>2, <2>3, <2>4 DEF FilterInv
<1>12. Waiting'
  BY <1>3, <1>9 DEF Waiting
<1>13. OptionInv' /\ WaitingInv'
  <2>1. OptionInv'
    BY <1>2, <1>5 DEF OptionInv, Idle
  <2> QED BY <1>1, <1>2, <1>5, <1>8, <2>1 DEF WaitingInv, Idle
<1> QED BY <1>2, <1>7, <1>10, <1>11, <1>12, <1>13 DEF PhoneInv, Active, DeviceInv

(***************************************************************************)
(* The jobs of the main thread.                                            *)
(***************************************************************************)
LEMMA StartKept ==
  ASSUME Played, main # <<>>, main' = Tail(main), Head(main).op = "start",
         StartJob(Head(main).arg), UNCHANGED <<adapter, want>>, odd' = {}
  PROVE  PhoneInv'
<1>1. /\ want \in Wants /\ dev \in Devices /\ main \in Seq(Jobs)
      /\ Options0 = Now /\ Now \in OptionSets
  BY NowTypes DEF Played, PhoneTypes
<1>2. Waiting /\ WaitingInv
  BY <1>1, HasTaken DEF Played, Active, DeviceInv
<1>3. main' \in Seq(Jobs) /\ Head(main) \in Jobs /\ Head(main).arg = 1
  BY <1>1, JobTaken, JobTypes
<1> DEFINE need == 1 # Now.size \/ TRUE # Now.camera
           shown == StartPreview(IF need THEN [dev EXCEPT !.preview = FALSE] ELSE dev)
           applied == ApplyOptionsToStream(Now, shown)
<1>4. /\ dev' = StartStreamInternal(applied) /\ odd' = Refused(applied)
      /\ UNCHANGED <<opts, cur>>
  <2>1. opts[0].size = 1 /\ opts[0].camera = TRUE
    BY DEF Played, PhoneTypes, Fresh, Options
  <2>2. opts[Head(main).arg - 1] = opts[0] /\ opts[Head(main).arg] = Now
    BY <1>3 DEF Now
  <2> QED BY <2>1, <2>2 DEF StartJob
<1>5. gl' = gl
  <2>1. opts[Head(main).arg] = Now
    BY <1>3 DEF Now
  <2>2. gl' = gl (+) Running(Now)
                 (+) [f \in {<<c, cur>> : c \in DOMAIN Now.corrections} |-> Now.corrections[f[1]]]
    BY <2>1 DEF StartJob
  <2>3. Now.effect = None /\ DOMAIN Now.corrections = {}
    BY <1>2 DEF WaitingInv, Filters
  <2>4. [f \in {<<c, cur>> : c \in DOMAIN Now.corrections} |-> Now.corrections[f[1]]] = EmptyBag
    BY <2>3 DEF EmptyBag, SetToBag
  <2>5. Running(Now) = EmptyBag
    BY <2>3 DEF Running
  <2>6. gl = Once(InUse)
    BY DEF Played, Active, FilterInv
  <2> QED BY <2>2, <2>4, <2>5, <2>6, OnceSame
<1>6. /\ shown \in Devices /\ shown.preview /\ shown.camera = Now.camera /\ ~shown.streaming
      /\ ~Has("restart") => shown.size = Now.size
  BY <1>1, <1>2 DEF StartPreview, WaitingInv, OptionSets, Devices
<1> HIDE DEF shown
<1>7. /\ applied \in Devices /\ applied.preview /\ applied.camera = Now.camera
      /\ ~applied.streaming /\ applied.size = shown.size /\ applied.rate = Now.bitrate
      /\ applied.stab = Now.stab /\ applied.focus = Now.focus /\ applied.codec = Now.h265
  BY <1>1, <1>2, <1>6 DEF ApplyOptionsToStream, WaitingInv, OptionSets, Devices
<1> HIDE DEF applied
<1>8. dev' = [applied EXCEPT !.streaming = TRUE, !.format = Format, !.rate = Now.bitrate]
  BY <1>1, <1>4, <1>7 DEF StartStreamInternal, Refused, Flag
<1>9. dev' \in Devices
  BY <1>1, <1>7, <1>8 DEF Format, OptionSets, Devices
<1>10. PhoneTypes' /\ cur' = 1 /\ Now' = Now
  BY <1>3, <1>4, <1>9 DEF Played, PhoneTypes, Now
<1>11. QueueInv' /\ FilterInv' /\ ~Waiting'
  <2>1. gl' = Once(InUse') /\ Filters' = Filters
    BY <1>5, <1>10 DEF Played, Active, FilterInv, InUse, Filters
  <2>2. Chosen(Now'.effect, Filters') = Carried(Head(main), Chosen(Now.effect, Filters))
    BY <1>10, <2>1 DEF Carried
  <2> QED BY <1>1, <1>10, <2>1, <2>2, QueueTaken DEF Played, Active
<1>12. Has("restart")' <=> Has("restart")
  BY <1>1, HasTaken
<1>13. OptionInv' /\ StartedInv'
  BY <1>1, <1>2, <1>6, <1>7, <1>8, <1>10, <1>12
  DEF Played, Active, OptionInv, StartedInv, WaitingInv, Format, Devices
<1> QED BY <1>10, <1>11, <1>13 DEF PhoneInv, Active, DeviceInv

LEMMA RestartKept ==
  ASSUME Played, main # <<>>, main' = Tail(main), Head(main).op = "restart",
         RestartJob, UNCHANGED <<adapter, want>>, odd' = {}
  PROVE  PhoneInv'
<1>1. /\ want \in Wants /\ dev \in Devices /\ main \in Seq(Jobs)
      /\ Options0 = Now /\ Now \in OptionSets
  BY NowTypes DEF Played, PhoneTypes
<1>2. ~Waiting /\ StartedInv /\ Has("restart") /\ want.rate = Now.bitrate
  BY <1>1, HasTaken DEF Played, Active, DeviceInv, StartedInv
<1>3. main' \in Seq(Jobs)
  BY <1>1, JobTaken
<1> DEFINE shown == StartPreview([dev EXCEPT !.streaming = FALSE, !.preview = FALSE])
<1>4. /\ dev' = StartStreamInternal(shown) /\ odd' = Refused(shown)
      /\ UNCHANGED <<opts, cur, gl>>
  BY <1>2 DEF RestartJob, StartedInv
<1>5. shown = [dev EXCEPT !.streaming = FALSE, !.preview = TRUE, !.camera = Now.camera,
                          !.size = Now.size]
  BY <1>1 DEF StartPreview, Devices
<1>6. /\ shown \in Devices /\ ~shown.streaming /\ shown.preview /\ shown.camera = Now.camera
      /\ shown.size = Now.size /\ shown.stab = dev.stab /\ shown.focus = dev.focus
      /\ shown.codec = dev.codec
  BY <1>1, <1>5 DEF Devices, OptionSets
<1> HIDE DEF shown
<1>7. dev' = [shown EXCEPT !.streaming = TRUE, !.format = Format, !.rate = Now.bitrate]
  BY <1>1, <1>4, <1>6 DEF StartStreamInternal, Refused, Flag
<1>8. dev' \in Devices
  BY <1>1, <1>6, <1>7 DEF Format, OptionSets, Devices
<1>9. PhoneTypes' /\ cur' = 1 /\ Now' = Now
  BY <1>3, <1>4, <1>8 DEF Played, PhoneTypes, Now
<1>10. QueueInv' /\ FilterInv' /\ ~Waiting'
  <2>1. gl' = Once(InUse') /\ Filters' = Filters
    BY <1>4, <1>9 DEF Played, Active, FilterInv, InUse, Filters
  <2>2. Chosen(Now'.effect, Filters') = Carried(Head(main), Chosen(Now.effect, Filters))
    BY <1>9, <2>1 DEF Carried
  <2> QED BY <1>1, <1>9, <2>1, <2>2, QueueTaken DEF Played, Active
<1>11. OptionInv' /\ StartedInv'
  BY <1>1, <1>2, <1>6, <1>7, <1>9
  DEF Played, Active, OptionInv, StartedInv, Format, Devices
<1> QED BY <1>9, <1>10, <1>11 DEF PhoneInv, Active, DeviceInv

\* A job of the filters finds the stream started, and leaves it so.
LEMMA FilterJobTaken ==
  ASSUME Played, main # <<>>, main' = Tail(main),
         Head(main).op \in {"effect", "correction", "flip"},
         UNCHANGED <<cur, dev, adapter, want>>, NEW o \in OptionSets,
         opts' = [opts EXCEPT ![cur] = o],
         o.size = Now.size /\ o.fps = Now.fps /\ o.camera = Now.camera,
         o.bitrate = Now.bitrate /\ o.adaptive = Now.adaptive,
         DOMAIN o.corrections \subseteq
           DOMAIN Now.corrections
             \cup (IF Head(main).op = "correction" THEN {Head(main).arg} ELSE {}),
         gl' = Once(o.flips \cup DOMAIN o.corrections \cup ({o.effect} \ {None})),
         Chosen(o.effect, o.flips \cup DOMAIN o.corrections)
           = Carried(Head(main), Chosen(Now.effect, Filters))
  PROVE  PhoneInv'
<1>1. main \in Seq(Jobs) /\ main' \in Seq(Jobs)
  BY JobTaken DEF Played, PhoneTypes
<1>2. opts' \in [0 .. MaxActs -> OptionSets] /\ opts'[0] = Fresh /\ Now' = o
  BY OptionsSet DEF Played
<1>3. PhoneTypes' /\ cur' = 1
  BY <1>1, <1>2 DEF Played, PhoneTypes
<1>4. QueueInv' /\ FilterInv' /\ ~Waiting'
  BY <1>1, <1>2, QueueTaken DEF Played, Active, InUse, Filters
<1>5. ~Waiting /\ StartedInv
  BY <1>1, HasTaken DEF Played, Active, DeviceInv
<1>6. Has("restart")' <=> Has("restart")
  BY <1>1, HasTaken
<1>7. OptionInv' /\ StartedInv'
  BY <1>2, <1>5, <1>6 DEF Played, Active, OptionInv, StartedInv
<1> QED BY <1>3, <1>4, <1>7 DEF PhoneInv, Active, DeviceInv

LEMMA NamesApart ==
  /\ \A e \in Effects \ {None} : e \notin Names
  /\ \A c \in Corrections : c \notin Axes
  /\ None \notin Names
BY DEF Effects, None, Names, Corrections, Axes

LEMMA EffectJobKept ==
  ASSUME Played, main # <<>>, main' = Tail(main), Head(main).op = "effect",
         EffectJob(Head(main).arg), UNCHANGED <<adapter, want>>
  PROVE  PhoneInv'
<1> DEFINE e == Head(main).arg
           o == [Now EXCEPT !.effect = e]
<1>1. /\ Options0 = Now /\ Now \in OptionSets /\ cur = 1 /\ Filters \subseteq Names
      /\ Now.effect \in Effects
  BY NowTypes DEF Played
<1>2. e \in Effects
  BY JobTaken, JobTypes DEF Played, PhoneTypes
<1>3. /\ gl' = (gl (-) Running(Now))
                 (+) (IF e = None THEN EmptyBag ELSE SetToBag({<<e, 1>>}))
      /\ opts' = [opts EXCEPT ![cur].effect = e] /\ UNCHANGED <<cur, dev>>
  BY <1>1 DEF EffectJob, Object
<1> HIDE DEF e
<1>4. o \in OptionSets /\ opts' = [opts EXCEPT ![cur] = o]
  BY <1>1, <1>2, <1>3 DEF OptionSets, Now
<1>5. /\ o.size = Now.size /\ o.fps = Now.fps /\ o.camera = Now.camera
      /\ o.bitrate = Now.bitrate /\ o.adaptive = Now.adaptive /\ o.flips = Now.flips
      /\ o.corrections = Now.corrections /\ o.effect = e
  BY <1>1 DEF OptionSets
<1> HIDE DEF o
<1>6. gl (-) Running(Now) = Once(Filters)
  <2>1. gl = Once(InUse)
    BY DEF Played, Active, FilterInv
  <2>2. CASE Now.effect = None
    <3>1. InUse = Filters /\ Running(Now) = EmptyBag
      BY <2>2 DEF InUse, Running
    <3> QED BY <2>1, <3>1, OnceSame
  <2>3. CASE Now.effect # None
    <3>1. InUse \ {Now.effect} = Filters /\ Now.effect \in InUse
      BY <1>1, <2>3, NamesApart DEF InUse
    <3>2. Running(Now) = SetToBag({<<Now.effect, 1>>})
      BY <1>1, <2>3 DEF Running
    <3> QED BY <2>1, <3>1, <3>2, OnceLess
  <2> QED BY <2>2, <2>3
<1>7. gl' = Once(Filters \cup ({e} \ {None}))
  <2>1. CASE e = None
    <3>1. Filters \cup ({e} \ {None}) = Filters
      BY <2>1
    <3> QED BY <1>3, <1>6, <2>1, <3>1, OnceSame
  <2>2. CASE e # None
    <3>1. Filters \cup ({e} \ {None}) = Filters \cup {e} /\ e \notin Filters
      BY <1>1, <1>2, <2>2, NamesApart
    <3> QED BY <1>3, <1>6, <2>2, <3>1, OnceMore
  <2> QED BY <2>1, <2>2
<1>8. Chosen(o.effect, Filters) = Carried(Head(main), Chosen(Now.effect, Filters))
  BY <1>5 DEF Carried, Chosen, e
<1>9. o.flips \cup DOMAIN o.corrections = Filters
  BY <1>5 DEF Filters
<1>10. gl' = Once(o.flips \cup DOMAIN o.corrections \cup ({o.effect} \ {None}))
  BY <1>5, <1>7, <1>9
<1> QED BY <1>3, <1>4, <1>5, <1>8, <1>9, <1>10, FilterJobTaken

LEMMA CorrectionJobKept ==
  ASSUME Played, main # <<>>, main' = Tail(main), Head(main).op = "correction",
         CorrectionJob(Head(main).arg), UNCHANGED <<adapter, want>>
  PROVE  PhoneInv'
<1> DEFINE c == Head(main).arg
           o == [Now EXCEPT !.corrections = @ (+) SetToBag({c})]
<1>1. /\ Options0 = Now /\ Now \in OptionSets /\ cur = 1 /\ Now.effect \in Effects
      /\ Now.corrections \in CorrectionBags /\ Now.flips \subseteq Axes
  BY NowTypes DEF Played, OptionSets
<1>2. c \in Corrections /\ c \notin DOMAIN Now.corrections
  <2>1. c \in Corrections /\ 1 \in 1 .. Len(main) /\ Head(main) = main[1]
    BY JobTaken, JobTypes DEF Played, PhoneTypes
  <2> QED BY <2>1 DEF Played, Active, QueueInv
<1>3. /\ gl' = gl (+) SetToBag({<<c, 1>>})
      /\ opts' = [opts EXCEPT ![cur].corrections = @ (+) SetToBag({c})] /\ UNCHANGED <<cur, dev>>
  BY <1>1 DEF CorrectionJob, Object
<1> HIDE DEF c
<1> DEFINE B == Now.corrections (+) SetToBag({c})
<1>4. B \in CorrectionBags /\ DOMAIN B = DOMAIN Now.corrections \cup {c}
  <2>1. PICK S \in SUBSET Corrections : Now.corrections = SetToBag(S)
    BY <1>1 DEF CorrectionBags
  <2>2. c \notin S
    BY <1>2, <2>1 DEF SetToBag
  <2>3. B = SetToBag(S \cup {c})
    BY <2>1, <2>2 DEF SetToBag, (+)
  <2>4. S \cup {c} \in SUBSET Corrections
    BY <1>2
  <2> QED BY <2>1, <2>3, <2>4 DEF CorrectionBags, SetToBag
<1> HIDE DEF B
<1>5. o \in OptionSets /\ opts' = [opts EXCEPT ![cur] = o]
  BY <1>1, <1>3, <1>4 DEF OptionSets, Now, B
<1>6. /\ o.size = Now.size /\ o.fps = Now.fps /\ o.camera = Now.camera
      /\ o.bitrate = Now.bitrate /\ o.adaptive = Now.adaptive /\ o.flips = Now.flips
      /\ o.corrections = B /\ o.effect = Now.effect
  BY <1>1 DEF OptionSets, B
<1> HIDE DEF o
<1>7. o.flips \cup DOMAIN o.corrections = Filters \cup {c}
  BY <1>4, <1>6 DEF Filters
<1>8. gl' = Once(o.flips \cup DOMAIN o.corrections \cup ({o.effect} \ {None}))
  <2>1. gl = Once(InUse) /\ c \notin InUse
    BY <1>1, <1>2, NamesApart DEF Played, Active, FilterInv, InUse, Filters, Names
  <2>2. o.flips \cup DOMAIN o.corrections \cup ({o.effect} \ {None}) = InUse \cup {c}
    BY <1>6, <1>7 DEF InUse
  <2> QED BY <1>3, <2>1, <2>2, OnceMore
<1>9. Chosen(o.effect, Filters \cup {c}) = Carried(Head(main), Chosen(Now.effect, Filters))
  BY <1>6 DEF Carried, Chosen, c
<1> QED BY <1>3, <1>4, <1>5, <1>6, <1>7, <1>8, <1>9, FilterJobTaken DEF c

LEMMA FlipJobKept ==
  ASSUME Played, main # <<>>, main' = Tail(main), Head(main).op = "flip",
         FlipJob(Head(main).arg), UNCHANGED <<adapter, want>>
  PROVE  PhoneInv'
<1> DEFINE axis == Head(main).arg
           o == [Now EXCEPT !.flips = Toggle(axis, @)]
<1>1. /\ Options0 = Now /\ Now \in OptionSets /\ cur = 1 /\ Now.effect \in Effects
      /\ DOMAIN Now.corrections \subseteq Corrections /\ Now.flips \in SUBSET Axes
  BY NowTypes DEF Played, OptionSets
<1>2. axis \in Axes
  BY JobTaken, JobTypes DEF Played, PhoneTypes
<1>3. /\ gl' = IF axis \in Now.flips THEN gl (-) SetToBag({<<axis, 1>>})
               ELSE gl (+) SetToBag({<<axis, 1>>})
      /\ opts' = [opts EXCEPT ![cur].flips = Toggle(axis, @)] /\ UNCHANGED <<cur, dev>>
  BY <1>1 DEF FlipJob, Object
<1> HIDE DEF axis
<1>4. Toggle(axis, Now.flips) \in SUBSET Axes
  BY <1>1, <1>2 DEF Toggle
<1>5. o \in OptionSets /\ opts' = [opts EXCEPT ![cur] = o]
  BY <1>1, <1>3, <1>4 DEF OptionSets, Now
<1>6. /\ o.size = Now.size /\ o.fps = Now.fps /\ o.camera = Now.camera
      /\ o.bitrate = Now.bitrate /\ o.adaptive = Now.adaptive
      /\ o.corrections = Now.corrections /\ o.effect = Now.effect
      /\ o.flips = Toggle(axis, Now.flips)
  BY <1>1 DEF OptionSets
<1> HIDE DEF o
<1>7. axis \notin DOMAIN Now.corrections /\ axis \notin ({Now.effect} \ {None})
  BY <1>1, <1>2, NamesApart DEF Names
<1>8. o.flips \cup DOMAIN o.corrections = Toggle(axis, Filters)
  BY <1>6, <1>7 DEF Filters, Toggle
<1>9. gl' = Once(o.flips \cup DOMAIN o.corrections \cup ({o.effect} \ {None}))
  <2>1. gl = Once(InUse)
    BY DEF Played, Active, FilterInv
  <2>2. o.flips \cup DOMAIN o.corrections \cup ({o.effect} \ {None})
          = IF axis \in Now.flips THEN InUse \ {axis} ELSE InUse \cup {axis}
    BY <1>6, <1>7 DEF InUse, Filters, Toggle
  <2>3. axis \in InUse <=> axis \in Now.flips
    BY <1>7 DEF InUse, Filters
  <2> QED BY <1>3, <2>1, <2>2, <2>3, OnceMore, OnceLess
<1>10. Chosen(o.effect, Toggle(axis, Filters)) = Carried(Head(main), Chosen(Now.effect, Filters))
  BY <1>6 DEF Carried, Chosen, axis
<1> QED BY <1>3, <1>5, <1>6, <1>8, <1>9, <1>10, FilterJobTaken

(***************************************************************************)
(* The other threads, and the link.                                        *)
(***************************************************************************)
LEMMA SurfaceKept ==
  ASSUME PhoneInv, StartPreview(dev) = dev', UNCHANGED <<opts, cur, main, gl, adapter, want>>,
         cur = 0 => UNCHANGED <<buffer, wire, sent, rx>>
  PROVE  PhoneInv'
<1>1. /\ cur \in {0, 1} /\ PhoneTypes /\ dev \in Devices /\ opts[0] = Fresh
      /\ cur \in 0 .. MaxActs
  BY DEF PhoneInv, PhoneTypes
<1>2. Options0 \in OptionSets
  BY <1>1 DEF PhoneTypes, Options0
<1>3. dev' \in Devices
  BY <1>1, <1>2 DEF StartPreview, Devices, OptionSets
<1>4. PhoneTypes' /\ Now' = Now
  BY <1>1, <1>3 DEF PhoneTypes, Now
<1>5. CASE cur = 0
  <2>1. Options0.size = 1 /\ Options0.camera = TRUE
    BY <1>1, <1>5 DEF Options0, Fresh, Options
  <2>2. Idle
    BY <1>5 DEF PhoneInv
  <2>3. ~dev'.streaming /\ (dev'.preview => dev'.size = 1 /\ dev'.camera)
    BY <1>1, <2>1, <2>2 DEF Idle, StartPreview, Devices
  <2>4. Idle'
    BY <1>5, <2>2, <2>3 DEF Idle
  <2> QED BY <1>4, <1>5, <2>4 DEF PhoneInv
<1>6. CASE cur = 1
  <2>1. Played /\ Options0 = Now
    BY <1>1, <1>6, NowTypes DEF PhoneInv, Played
  <2>2. QueueInv' /\ FilterInv'
    BY <1>4, <2>1, QueueLeft DEF Played, Active, FiltersLeft
  <2>3. OptionInv' /\ DeviceInv'
    BY <1>1, <1>4, <2>1
    DEF Played, Active, OptionInv, DeviceInv, WaitingInv, StartedInv, Waiting, Has,
        Filters, StartPreview, Devices
  <2> QED BY <1>4, <1>6, <2>2, <2>3 DEF PhoneInv, Active
<1> QED BY <1>1, <1>5, <1>6

LEMMA AdapterKept ==
  ASSUME Played, UNCHANGED <<opts, cur, main, gl, want>>,
         \/ dev' = dev /\ adapter' = TRUE /\ Options0.adaptive
         \/ dev' = [dev EXCEPT !.rate = 700] /\ adapter /\ adapter' = FALSE
  PROVE  PhoneInv'
<1>1. dev \in Devices /\ Options0 = Now
  BY NowTypes DEF Played, PhoneTypes
<1>2. dev' \in Devices
  BY <1>1 DEF Devices
<1>3. PhoneTypes' /\ cur' = 1 /\ Now' = Now
  BY <1>2 DEF Played, PhoneTypes, Now
<1>4. QueueInv' /\ FilterInv'
  BY <1>3, QueueLeft DEF Played, Active, FiltersLeft
<1>5. OptionInv'
  BY <1>1, <1>3 DEF Played, Active, OptionInv
<1>6. DeviceInv'
  <2>1. (Waiting' <=> Waiting) /\ (Has("restart")' <=> Has("restart")) /\ Filters' = Filters
    BY <1>3 DEF Waiting, Has, Filters
  <2>2. CASE dev' = dev
    BY <1>3, <2>1, <2>2 DEF Played, Active, DeviceInv, WaitingInv, StartedInv
  <2>3. CASE dev' = [dev EXCEPT !.rate = 700] /\ adapter
    <3>1. Now.adaptive
      BY <2>3 DEF Played, Active, OptionInv
    <3> QED BY <1>1, <1>3, <2>1, <2>3, <3>1
        DEF Played, Active, DeviceInv, WaitingInv, StartedInv, Devices
  <2> QED BY <2>2, <2>3
<1> QED BY <1>3, <1>4, <1>5, <1>6 DEF PhoneInv, Active

LEMMA HandlerKept ==
  ASSUME Played, NEW p \in Packets \cup {Nothing}, OnBytesReceived(p),
         UNCHANGED adapter, odd' = {}
  PROVE  PhoneInv'
<1>1. /\ p.op \in {"resolution", "fps"} => p.arg \in {1, 2}
      /\ p.op = "effect" => p.arg \in Effects
      /\ p.op = "correction" => p.arg \in Corrections
      /\ p.op = "flip" => p.arg \in Axes
      /\ p.op \in {"bitrate", "adaptive"} => p.arg \in Nat
      /\ p.op \in {"stab", "focus", "codec"} => p.arg \in BOOLEAN
  BY PacketTypes
<1>2. CASE p.op = "activation" /\ StartStream(p.arg)
  <2>1. odd' = odd \cup {"again"}
    BY <1>2 DEF StartStream, Flag, Played
  <2> QED BY <2>1
<1>3. CASE p.op = "camera" /\ SwitchCamera
  BY <1>3, CameraKept
<1>4. CASE p.op = "resolution" /\ SetResolution(p.arg)
  BY <1>1, <1>4, ResolutionKept
<1>5. CASE p.op = "fps" /\ SetFps(p.arg)
  BY <1>1, <1>5, FpsKept
<1>6. CASE p.op = "effect" /\ ApplyEffectFilter(p.arg)
  BY <1>1, <1>6, EffectKept
<1>7. CASE p.op = "correction" /\ ApplyCorrectionFilter(p.arg)
  BY <1>1, <1>7, CorrectionKept
<1>8. CASE p.op = "flip" /\ Flip(p.arg)
  BY <1>1, <1>8, FlipKept
<1>9. CASE p.op \in {"bitrate", "adaptive"} /\ SetBitrate(p.op = "adaptive", p.arg)
  <2>1. CASE p.op = "bitrate"
    <3>1. SetBitrate(FALSE, p.arg)
      BY <1>9, <2>1
    <3> QED BY <1>1, <2>1, <3>1, BitrateKept
  <2>2. CASE p.op = "adaptive"
    <3>1. SetBitrate(TRUE, p.arg)
      BY <1>9, <2>2
    <3> QED BY <1>1, <2>2, <3>1, BitrateKept
  <2> QED BY <1>9, <2>1, <2>2
<1>10. CASE p.op \in {"stab", "focus"} /\ SetCamera(p.op, p.arg)
  BY <1>1, <1>10, FieldKept
<1>11. CASE p.op = "codec" /\ SetH265Codec(p.arg)
  BY <1>1, <1>11, CodecKept
<1>12. CASE p.op = "frame" /\ UNCHANGED <<opts, cur, main, gl, dev, want, odd>>
  BY <1>12, AllLeft
<1> QED BY <1>2, <1>3, <1>4, <1>5, <1>6, <1>7, <1>8, <1>9, <1>10, <1>11, <1>12
    DEF OnBytesReceived

LEMMA LinkKept ==
  ASSUME LinkInv, AndroidNext
  PROVE  LinkInv'
<1>1. CASE Read
  <2>1. PICK k \in 1 .. Len(wire) : wire' = SubSeq(wire, k + 1, Len(wire))
    BY <1>1 DEF Read
  <2>2. wire' \in Seq(Packets) /\ Head(wire) \in Packets
    BY <1>1, <2>1 DEF Read, LinkInv
  <2> QED BY <1>1, <2>2 DEF Read, LinkInv
<1>2. CASE \/ ReadEnds \/ ReadSpins \/ RunJob \/ SurfaceCreated
           \/ AdapterTests \/ AdapterSets
  BY <1>2
  DEF ReadEnds, ReadSpins, RunJob, SurfaceCreated,
      AdapterTests, AdapterSets, linkVars, LinkInv
<1>3. ASSUME NEW p \in Activations \cup PcCommands, PcSends(p) PROVE LinkInv'
  BY <1>3 DEF PcSends, LinkInv, Packets
<1>4. ASSUME NEW how, PcEnds(how) PROVE LinkInv'
  BY <1>4 DEF PcEnds, LinkInv
<1> QED BY <1>1, <1>2, <1>3, <1>4 DEF AndroidNext, Receive

\* The exceptions are never taken back, and the session never resumes.
LEMMA RegularBefore ==
  ASSUME AndroidNext, Regular'
  PROVE  Regular
<1>1. ASSUME NEW p, OnBytesReceived(p) PROVE odd \subseteq odd'
  BY <1>1
  DEF OnBytesReceived, StartStream, SwitchCamera,
      SetResolution, SetFps, ApplyEffectFilter,
      ApplyCorrectionFilter, Flip, SetBitrate, SetCamera,
      SetH265Codec, Flag
<1>2. CASE Read \/ ReadSpins
  BY <1>1, <1>2 DEF Read, ReadSpins, Regular
<1>3. CASE RunJob
  BY <1>3
  DEF RunJob, StartJob, RestartJob, EffectJob,
      CorrectionJob, FlipJob, DisconnectedJob, Refused,
      Flag, Regular
<1>4. CASE ReadEnds \/ SurfaceCreated \/ AdapterTests \/ AdapterSets
  BY <1>4
  DEF ReadEnds, SurfaceCreated, AdapterTests, AdapterSets,
      Regular
<1>5. CASE \E p \in Activations \cup PcCommands : PcSends(p)
  BY <1>5 DEF PcSends, Regular
<1>6. CASE \E how \in {"closed", "broken"} : PcEnds(how)
  BY <1>6 DEF PcEnds, Regular
<1> QED BY <1>2, <1>3, <1>4, <1>5, <1>6 DEF AndroidNext, Receive

\* Before the activation there is nothing to read but the activation.
LEMMA IdleKept ==
  ASSUME LinkInv, PhoneTypes, cur = 0, Idle, AndroidNext, odd' = {}, session' # "over"
  PROVE  PhoneInv'
<1>1. ASSUME UNCHANGED <<opts, cur, main, dev, adapter, want>>, Idle' PROVE PhoneInv'
  BY <1>1 DEF PhoneInv, PhoneTypes
<1>2. CASE Read
  <2>1. Head(wire) \in Activations /\ OnBytesReceived(Head(wire)) /\ rx /\ UNCHANGED adapter
    BY <1>2 DEF Read, Idle
  <2>2. Head(wire).op = "activation" /\ Head(wire).arg \in Snapshots
    BY <2>1, PacketTypes
  <2>3. StartStream(Head(wire).arg)
    BY <2>1, <2>2 DEF OnBytesReceived
  <2> QED BY <2>1, <2>2, <2>3, ActivationKept
<1>3. CASE ReadEnds
  <2>1. /\ main = <<>> /\ main' = Append(main, Cmd("disconnected", None)) /\ rx' = FALSE
        /\ UNCHANGED <<wire, buffer, sent, opts, cur, gl, dev, adapter, want>>
    BY <1>3 DEF ReadEnds, Idle, Post
  <2>2. /\ Cmd("disconnected", None) \in Jobs
        /\ Cmd("disconnected", None).op = "disconnected"
    BY JobTypes, CmdFields
  <2>3. main' = <<Cmd("disconnected", None)>>
    BY <2>1
  <2>4. main' \in Seq(Jobs) /\ \A i \in 1 .. Len(main') : main'[i].op = "disconnected"
    BY <2>2, <2>3
  <2> QED BY <2>1, <2>4 DEF PhoneInv, PhoneTypes, Idle
<1>4. CASE ReadSpins
  <2>1. OnBytesReceived(Nothing) /\ UNCHANGED <<linkVars, adapter, session>>
    BY <1>4 DEF ReadSpins, Idle
  <2>2. UNCHANGED <<opts, cur, main, gl, dev, want, odd>>
    BY <2>1, PacketTypes DEF OnBytesReceived
  <2> QED BY <1>1, <2>1, <2>2 DEF Idle, linkVars
<1>5. CASE RunJob
  <2>1. main # <<>> /\ 1 \in 1 .. Len(main) /\ Head(main) = main[1]
    BY <1>5, JobTaken DEF RunJob, PhoneTypes
  <2>2. Head(main).op = "disconnected"
    BY <2>1 DEF Idle
  <2>3. session' = "over"
    BY <1>5, <2>2 DEF RunJob, DisconnectedJob
  <2> QED BY <2>3
<1>6. CASE SurfaceCreated
  BY <1>6, SurfaceKept DEF SurfaceCreated, linkVars, PhoneInv
<1>7. CASE AdapterTests \/ AdapterSets
  BY <1>7 DEF AdapterTests, AdapterSets, Idle
<1>8. ASSUME NEW p \in Activations \cup PcCommands, PcSends(p) PROVE PhoneInv'
  <2>1. /\ wire' = Append(wire, p) /\ sent' = sent + 1
        /\ p.op # "activation" => sent > 0
        /\ UNCHANGED <<buffer, rx, opts, cur, main, gl, dev, adapter, want>>
    BY <1>8 DEF PcSends
  <2>2. p \in Packets
    BY DEF Packets
  <2>3. wire' # <<>> /\ Head(wire') \in Activations
    <3>1. CASE wire = <<>>
      <4>1. p.op = "activation"
        BY <2>1, <3>1 DEF Idle
      <4>2. p \in Activations
        BY <2>2, <4>1, PacketTypes
      <4> QED BY <2>1, <3>1, <4>2
    <3>2. CASE wire # <<>>
      BY <2>1, <2>2, <3>2 DEF Idle, LinkInv
    <3> QED BY <3>1, <3>2
  <2> QED BY <1>1, <2>1, <2>3 DEF Idle
<1>9. ASSUME NEW how, PcEnds(how) PROVE PhoneInv'
  BY <1>1, <1>9 DEF PcEnds, Idle
<1> QED BY <1>2, <1>3, <1>4, <1>5, <1>6, <1>7, <1>8, <1>9 DEF AndroidNext, Receive

LEMMA PlayedKept ==
  ASSUME LinkInv, Played, AndroidNext, odd' = {}, session' # "over"
  PROVE  PhoneInv'
<1>1. CASE Read \/ ReadSpins
  <2>1. \E p \in Packets \cup {Nothing} : OnBytesReceived(p)
    BY <1>1 DEF Read, ReadSpins, LinkInv
  <2> QED BY <1>1, <2>1, HandlerKept DEF Read, ReadSpins
<1>2. CASE ReadEnds
  <2>1. /\ main' = Append(main, Cmd("disconnected", None))
        /\ UNCHANGED <<opts, cur, gl, dev, adapter, want>>
    BY <1>2 DEF ReadEnds, Post
  <2>2. /\ Cmd("disconnected", None) \in Jobs
        /\ Cmd("disconnected", None).op = "disconnected"
    BY JobTypes, CmdFields
  <2>3. /\ want.effect \in Effects /\ want.filters \in SUBSET Names
        /\ want' = [want EXCEPT !.effect = want.effect, !.filters = want.filters]
    BY <2>1 DEF Played, PhoneTypes, Wants
  <2>4. Chosen(want.effect, want.filters)
          = Carried(Cmd("disconnected", None), Chosen(want.effect, want.filters))
    BY <2>2 DEF Carried
  <2> QED BY <2>1, <2>2, <2>3, <2>4, FilterJobPosted
<1>3. CASE RunJob
  <2>1. main # <<>> /\ main' = Tail(main) /\ UNCHANGED <<adapter, want>>
    BY <1>3 DEF RunJob
  <2>2. CASE Head(main).op = "start" /\ StartJob(Head(main).arg)
    BY <2>1, <2>2, StartKept
  <2>3. CASE Head(main).op = "restart" /\ RestartJob
    BY <2>1, <2>3, RestartKept
  <2>4. CASE Head(main).op = "effect" /\ EffectJob(Head(main).arg)
    BY <2>1, <2>4, EffectJobKept
  <2>5. CASE Head(main).op = "correction" /\ CorrectionJob(Head(main).arg)
    BY <2>1, <2>5, CorrectionJobKept
  <2>6. CASE Head(main).op = "flip" /\ FlipJob(Head(main).arg)
    BY <2>1, <2>6, FlipJobKept
  <2>7. CASE DisconnectedJob
    BY <2>7 DEF DisconnectedJob
  <2> QED BY <1>3, <2>2, <2>3, <2>4, <2>5, <2>6, <2>7 DEF RunJob
<1>4. CASE SurfaceCreated
  BY <1>4, SurfaceKept DEF SurfaceCreated, Played, PhoneInv
<1>5. CASE AdapterTests \/ AdapterSets
  BY <1>5, AdapterKept DEF AdapterTests, AdapterSets
<1>6. CASE \E p \in Activations \cup PcCommands : PcSends(p)
  BY <1>6, AllLeft DEF PcSends
<1>7. CASE \E how \in {"closed", "broken"} : PcEnds(how)
  BY <1>7, AllLeft DEF PcEnds
<1> QED BY <1>1, <1>2, <1>3, <1>4, <1>5, <1>6, <1>7 DEF AndroidNext, Receive

LEMMA AndroidBegins == AndroidInit => AndroidInv
<1> SUFFICES ASSUME AndroidInit PROVE AndroidInv
  OBVIOUS
<1>1. LinkInv
  BY DEF AndroidInit, LinkInv
<1>2. Fresh \in OptionSets
  <2>1. SetToBag({}) \in CorrectionBags
    BY DEF CorrectionBags
  <2> QED BY <2>1, SMT
    DEF Fresh, Options, OptionSets, Effects, EmptyBag
<1>3. opts = [g \in 0 .. MaxActs |-> Fresh]
  BY SMT DEF AndroidInit, Fresh
<1>4. opts \in [0 .. MaxActs -> OptionSets] /\ opts[0] = Fresh /\ 0 \in 0 .. MaxActs
  BY <1>2, <1>3, BoundsAssumption
<1>5. dev \in Devices /\ want \in Wants /\ adapter \in BOOLEAN /\ main \in Seq(Jobs)
  <2>1. dev \in Devices
    BY SMT DEF AndroidInit, Devices
  <2>2. want \in Wants
    BY SMT DEF AndroidInit, Wants, Effects
  <2>3. adapter = FALSE /\ main = <<>>
    BY SMT DEF AndroidInit
  <2>4. main \in Seq(Jobs)
    <3>1. <<>> \in Seq(Jobs)
      OBVIOUS
    <3> QED BY <2>3, <3>1
  <2> QED BY <2>1, <2>2, <2>3, <2>4
<1>6. cur = 0 /\ Idle
  BY SMT DEF AndroidInit, Idle
<1> QED BY <1>1, <1>4, <1>5, <1>6 DEF AndroidInv, PhoneInv, PhoneTypes

LEMMA AndroidKept == AndroidInv /\ [AndroidNext]_androidVars => AndroidInv'
<1> SUFFICES ASSUME AndroidInv, [AndroidNext]_androidVars PROVE AndroidInv'
  OBVIOUS
<1>1. CASE AndroidNext
  <2>1. LinkInv'
    BY <1>1, LinkKept DEF AndroidInv
  <2>2. ASSUME Regular' PROVE PhoneInv'
    <3>1. PhoneInv /\ LinkInv /\ odd' = {} /\ session' # "over"
      BY <1>1, <2>2, RegularBefore DEF AndroidInv, Regular
    <3>2. CASE cur = 0
      BY <1>1, <3>1, <3>2, IdleKept DEF PhoneInv
    <3>3. CASE cur # 0
      <4>1. Played
        BY <3>1, <3>3 DEF PhoneInv, PhoneTypes, Played
      <4> QED BY <1>1, <3>1, <4>1, PlayedKept
    <3> QED BY <3>2, <3>3
  <2> QED BY <2>1, <2>2 DEF AndroidInv
<1>2. CASE UNCHANGED androidVars
  <2>1. LinkInv' /\ (Regular' => Regular)
    BY <1>2 DEF androidVars, AndroidInv, LinkInv, Regular
  <2>2. ASSUME PhoneInv PROVE PhoneInv'
    <3>1. CASE cur = 0
      BY <1>2, <2>2, <3>1 DEF androidVars, PhoneInv, PhoneTypes, Idle
    <3>2. CASE cur # 0
      <4>1. Played
        BY <2>2, <3>2 DEF PhoneInv, PhoneTypes, Played
      <4> QED BY <1>2, <4>1, AllLeft DEF androidVars
    <3> QED BY <3>1, <3>2
  <2> QED BY <2>1, <2>2 DEF AndroidInv
<1> QED BY <1>1, <1>2

LEMMA AndroidImplies == AndroidInv => AsCommanded
<1> SUFFICES ASSUME AndroidInv, main = <<>>, odd = {}, want.on, session # "over"
             PROVE  /\ dev.streaming /\ dev.preview
                    /\ dev.format = <<want.size, want.fps>> /\ dev.size = want.size
                    /\ \A field \in {"camera", "stab", "focus", "codec"} : dev[field] = want[field]
                    /\ ~Options0.adaptive /\ ~adapter => dev.rate = want.rate
                    /\ gl = SetToBag({<<name, cur>> :
                                        name \in want.filters \cup ({want.effect} \ {None})})
  BY DEF AsCommanded
<1>1. Played
  BY DEF AndroidInv, Regular, PhoneInv, PhoneTypes, Idle, Played
<1>2. StartedInv /\ OptionInv /\ FilterInv /\ ~Has("restart") /\ Options0 = Now /\ cur = 1
  BY <1>1, NothingPending, NowTypes DEF Played, Active, Has
<1>3. Now.effect = want.effect /\ Filters = want.filters
  BY <1>2, CourseOver DEF FilterInv, Chosen
<1>4. gl = SetToBag({<<name, cur>> : name \in want.filters \cup ({want.effect} \ {None})})
  BY <1>2, <1>3 DEF FilterInv, Once, InUse
<1> QED BY <1>2, <1>4 DEF StartedInv, OptionInv

(***************************************************************************)
(* AsCommanded: with nothing left to run on the main thread, the Android   *)
(* phone is as if the packets it handled had been carried out one by one,  *)
(* for any bounds and whatever the encoder refuses (Streamer.kt:80-346,    *)
(* StreamActivity.kt:63-130).                                              *)
(***************************************************************************)
THEOREM PhoneAsCommanded == AndroidSpec => []AsCommanded
BY AndroidBegins, AndroidKept, AndroidImplies, PTL DEF AndroidSpec
=============================================================================
