------------------------------ MODULE PhoneStream ------------------------------
(***************************************************************************)
(* What the iPhone streams: the configuration that the commands of Windows *)
(* set (Streaming/StreamController.swift), the encoder                     *)
(* (Encoding/VTH264Encoder.swift), the adaptive bitrate                    *)
(* (Streaming/AdaptiveBitrateController.swift) and the header a client is  *)
(* sent before its first unit (Networking/VideoStreamServer.swift).        *)
(*                                                                         *)
(* Commands and metrics are handled on the main queue, frames come on the  *)
(* capture queue, units leave on the encoder's thread and clients come and *)
(* go on the server's queue.  How a session starts and ends is the matter  *)
(* of PhoneSession.tla; commands that were queued are handled even after   *)
(* its end.  Of the configuration we keep the codec and the bitrates.      *)
(***************************************************************************)
EXTENDS Integers, FiniteSetsExt

CONSTANTS
  Default,  \* the configuration before the first ACTIVATION
  Commands  \* what Windows sends

Codec == {"h264", "h265"}

ConfigSet == [codec : Codec, adaptive : BOOLEAN, kbps : Nat \ {0}, lo : Nat \ {0}, hi : Nat \ {0}]

\* Bitrates are positive, and the minimum is no greater than the maximum: the
\* dialog on Windows sees to both (constants.h, OnBitrateSliderChanged).
ASSUME CommandsAssumption ==
  /\ Default \in ConfigSet /\ Default.lo <= Default.hi
  /\ \A c \in Commands :
       \/ c.op = "activation" /\ c.config \in ConfigSet /\ c.config.lo <= c.config.hi
       \/ c.op = "codec" /\ c.codec \in Codec
       \/ c.op = "bitrate" /\ c.kbps \in Nat \ {0}
       \/ c.op = "adaptive" /\ {c.lo, c.hi} \subseteq Nat \ {0} /\ c.lo <= c.hi

NoAbr == [absent |-> TRUE]
NoSession == [codec |-> "none", kbps |-> 0]
NoClient == [on |-> FALSE, header |-> "none", strange |-> FALSE, shifted |-> FALSE]

VARIABLES
  live,      \* between connect() and disconnect(): listener and metrics run
  config,    \* the lock-protected configuration
  applying,  \* applyActivation() has stored config and not yet configured
  abr,       \* abrController: its policy and the bitrate it believes in, or NoAbr
  encoder,   \* the compression session: its codec and bitrate, or NoSession
  encoding,  \* codec of the frames inside the session, or "none"
  client,    \* the video client: the header it was sent and, as history,
             \* whether it was sent a unit of another codec (strange) and
             \* whether the codec changed while it was there (shifted)
  frames,    \* the frame rate of the last snapshot: "low", "mid" or "full" (below 85 %,
             \* below 98 % of the target, or more)
  untold,    \* history: the encoder does not know abr's bitrate
  refused    \* history: the encoder refused the configuration

vars == <<live, config, applying, abr, encoder, encoding, client, frames, untold, refused>>

Init ==
  /\ live = FALSE /\ config = Default /\ applying = FALSE
  /\ abr = NoAbr /\ encoder = NoSession /\ encoding = "none" /\ client = NoClient
  /\ frames = "low" /\ untold = FALSE /\ refused = FALSE

-----------------------------------------------------------------------------
(* Adaptive bitrate *)

Believed(adaptive, kbps, hi) == IF adaptive THEN hi ELSE kbps

Policy(cfg) == [adaptive |-> cfg.adaptive, lo |-> cfg.lo, hi |-> cfg.hi,
                current |-> Believed(cfg.adaptive, cfg.kbps, cfg.hi)]

\* Mutant: updateBitrate() does not ask for a session.
ToldAnyway(enc, kbps) == [enc EXCEPT !.kbps = kbps]

\* updateBitrate(), for want of a session without effect.
Told(enc, kbps) == IF enc = NoSession THEN enc ELSE [enc EXCEPT !.kbps = kbps]

\* Mutant: neither a new controller nor an old one tells the encoder.
Untold(cfg, enc) == enc

\* A new controller does not tell the encoder what it believes, an old one does.
AfterPolicy(cfg, enc) == IF abr = NoAbr THEN enc ELSE Told(enc, Policy(cfg).current)

\* configureABR(), with an encoder as in enc.
ConfigureAbr(cfg, enc) ==
  /\ abr' = Policy(cfg)
  /\ encoder' = AfterPolicy(cfg, enc)
  /\ untold' = (abr = NoAbr /\ cfg.adaptive)
  /\ refused' = FALSE

\* Mutant: the minimum is forgotten.
LoweredFreely(a) == [a EXCEPT !.current = (a.current * 8) \div 10]

\* Mutant: raised by one percent.
RaisedSlightly(a) == [a EXCEPT !.current = Min({a.hi, (a.current * 101) \div 100})]

\* Int(Double(currentKbps) * 0.8) and * 1.1, within the policy.
Lowered(a) == [a EXCEPT !.current = Max({a.lo, (a.current * 8) \div 10})]
Raised(a)  == [a EXCEPT !.current = Min({a.hi, (a.current * 11) \div 10})]

\* consume(), more than two seconds after the last change (before, and with a
\* static policy, it does nothing).
Adjust ==
  /\ live /\ ~applying /\ abr # NoAbr /\ abr.adaptive
  /\ \/ frames = "low" /\ abr' = Lowered(abr)
     \/ frames = "full" /\ abr.current < abr.hi /\ abr' = Raised(abr)
  /\ encoder' = Told(encoder, abr'.current)
  /\ untold' = FALSE
  /\ UNCHANGED <<live, config, applying, encoding, client, frames, refused>>

\* Frames come faster or slower; without a client there are soon none, since
\* none is encoded.
FrameRate(rate) ==
  /\ frames' = rate /\ (~client.on => rate = "low")
  /\ UNCHANGED <<live, config, applying, abr, encoder, encoding, client, untold, refused>>

-----------------------------------------------------------------------------
(* Units and clients *)

\* Mutant: the header always names the default codec.
NamedByDefault(cfg) == Default.codec

\* makeHeader().
Named(cfg) == cfg.codec

\* A client is sent a unit, and before its first a header of the configuration
\* of that moment; without a client the unit is dropped.
Sent(unit) ==
  IF ~client.on THEN client
  ELSE LET header == IF client.header = "none" THEN Named(config) ELSE client.header
       IN  [client EXCEPT !.header = header, !.strange = @ \/ header # unit]

\* didOutput, with a subscriber: a frame goes into the session.
Encode ==
  /\ client.on /\ encoder # NoSession
  /\ encoding' = encoder.codec
  /\ UNCHANGED <<live, config, applying, abr, encoder, client, frames, untold, refused>>

\* didEmit.
Emit ==
  /\ encoding # "none" /\ encoding' = "none"
  /\ client' = Sent(encoding)
  /\ UNCHANGED <<live, config, applying, abr, encoder, frames, untold, refused>>

ClientJoins ==
  /\ live /\ ~client.on
  /\ client' = [NoClient EXCEPT !.on = TRUE,
                  !.shifted = ~({encoder.codec, encoding} \subseteq {"none", config.codec})]
  /\ UNCHANGED <<live, config, applying, abr, encoder, encoding, frames, untold, refused>>

ClientLeaves ==
  /\ client.on /\ client' = NoClient
  /\ UNCHANGED <<live, config, applying, abr, encoder, encoding, frames, untold, refused>>

-----------------------------------------------------------------------------
(* Commands *)

\* The first line of applyActivation(): from here on headers are made of cfg.
Store(cfg) ==
  /\ config' = cfg /\ applying' = TRUE
  /\ client' = [client EXCEPT !.shifted = @ \/ (client.on /\ cfg.codec # config.codec)]
  /\ UNCHANGED <<abr, encoder, untold, refused>>

\* The rest of it: configure() tears the session down, which sends the units
\* that are still inside, and makes a new one or throws; then configureABR().
Configure ==
  /\ applying /\ applying' = FALSE
  /\ client' = IF encoding = "none" THEN client ELSE Sent(encoding)
  /\ encoding' = "none"
  /\ \/ ConfigureAbr(config, [codec |-> config.codec, kbps |-> config.kbps])
     \/ encoder' = NoSession /\ refused' = TRUE /\ UNCHANGED <<abr, untold>>
  /\ UNCHANGED <<live, config, frames>>

\* handle(command:), of the commands that concern codec and bitrates.
Handle(c) ==
  /\ ~applying
  /\ \/ c.op = "activation" /\ Store(c.config)
     \/ c.op = "codec" /\ Store([config EXCEPT !.codec = c.codec])
     \/ /\ c.op = "bitrate"
        /\ encoder' = Told(encoder, c.kbps)
        /\ untold' = TRUE
        /\ UNCHANGED <<config, applying, abr, client, refused>>
     \/ /\ c.op = "adaptive"
        /\ config' = [config EXCEPT !.adaptive = TRUE, !.lo = c.lo, !.hi = c.hi]
        /\ ConfigureAbr(config', encoder)
        /\ UNCHANGED <<applying, client>>
  /\ UNCHANGED <<live, encoding, frames>>

\* The end of connect().
Connect ==
  /\ ~live /\ live' = TRUE
  /\ UNCHANGED <<config, applying, abr, encoder, encoding, client, frames, untold, refused>>

\* disconnect(): the units inside the session find no client.
Disconnect ==
  /\ live /\ ~applying /\ live' = FALSE
  /\ abr' = NoAbr /\ encoder' = NoSession /\ encoding' = "none" /\ client' = NoClient
  /\ untold' = FALSE /\ UNCHANGED <<config, applying, frames, refused>>

-----------------------------------------------------------------------------
Next ==
  \/ \E c \in Commands : Handle(c)
  \/ Configure \/ Connect \/ Disconnect
  \/ Adjust \/ \E rate \in {"low", "mid", "full"} : FrameRate(rate)
  \/ Encode \/ Emit \/ ClientJoins \/ ClientLeaves

Spec == Init /\ [][Next]_vars

\* The metrics timer fires every second, whatever it shows; the main queue goes on.
FairSpec ==
  /\ Spec
  /\ WF_vars(Configure)
  /\ WF_vars(Adjust)

-----------------------------------------------------------------------------
(* Properties *)

Abr == [adaptive : BOOLEAN, lo : Nat, hi : Nat, current : Nat]
Session == [codec : Codec, kbps : Nat \ {0}]
Client == [on : BOOLEAN, header : {"none"} \union Codec, strange : BOOLEAN, shifted : BOOLEAN]

TypeOK ==
  /\ live \in BOOLEAN /\ applying \in BOOLEAN /\ untold \in BOOLEAN /\ refused \in BOOLEAN
  /\ frames \in {"low", "mid", "full"}
  /\ config \in ConfigSet
  /\ abr \in Abr \union {NoAbr} /\ encoder \in Session \union {NoSession}
  /\ encoding \in {"none"} \union Codec /\ client \in Client

(***************************************************************************)
(* A client is only ever sent units of the codec its header named, also    *)
(* those that were inside the encoder when it was configured anew, unless  *)
(* Windows changes the codec while it is connected, or it comes while such *)
(* a change is stored and the encoder still has the old codec.             *)
(***************************************************************************)
HeaderTellsCodec == client.strange => client.shifted

(***************************************************************************)
(* When no command is being applied the encoder runs with the codec of the *)
(* configuration and at the bitrate the controller takes to be in effect,  *)
(* unless that controller is new or setBitrate went behind its back, until *)
(* the next nudge.                                                         *)
(***************************************************************************)
EncoderAsBelieved ==
  ~applying /\ encoder # NoSession =>
    /\ encoder.codec = config.codec
    /\ abr # NoAbr /\ (~untold => encoder.kbps = abr.current)

(***************************************************************************)
(* The controller has the policy of the configuration and stays within it, *)
(* however often it is nudged, until the encoder refuses a configuration.  *)
(***************************************************************************)
AbrWithinPolicy ==
  ~applying /\ abr # NoAbr /\ ~refused =>
    /\ abr.adaptive = config.adaptive /\ abr.lo = config.lo /\ abr.hi = config.hi
    /\ IF abr.adaptive THEN abr.current \in abr.lo .. abr.hi
                       ELSE abr.current = config.kbps

(***************************************************************************)
(* The bitrate recovers: if from some moment on frames come at the full    *)
(* rate and no command arrives, it rises to the maximum and stays there,   *)
(* in spite of the truncation in each step, or sessions keep ending before *)
(* it does.                                                                *)
(***************************************************************************)
Recovers ==
  <>[](frames = "full") /\ <>[][\A c \in Commands : ~Handle(c)]_vars =>
    \/ <>[](live /\ ~applying /\ abr # NoAbr /\ abr.adaptive => abr.current = abr.hi)
    \/ []<><<Connect>>_vars
=============================================================================
