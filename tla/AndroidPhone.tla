----------------------------- MODULE AndroidPhone -----------------------------
(***************************************************************************)
(* The Android phone of a session: TCPConnection's receive thread, which   *)
(* hands each read to StreamActivity.onBytesReceived, and the main thread, *)
(* which runs what Streamer posts to it (android/.../StreamActivity.kt,    *)
(* rtsp/Streamer.kt, rtsp/StreamOptions.kt, networking/ConnectionManager.kt*)
(* and connection/TCPConnection.kt).  A packet is written at once by the   *)
(* PC and never split; the main looper is first in, first out.  Zoom,      *)
(* flash and rotation go straight to the library and are left out.         *)
(***************************************************************************)
EXTENDS Naturals, Sequences, Bags

CONSTANTS MaxLoad, \* the encoder refuses a larger size times fps
          MaxSent, \* bound: packets of the PC
          MaxMain, \* bound: jobs waiting for the main thread
          MaxActs  \* bound: activations handled, repeated ones included

ASSUME BoundsAssumption == MaxLoad \in Nat /\ MaxSent \in Nat /\ MaxMain \in Nat /\ MaxActs \in Nat

VARIABLES
    adb,     \* isOverAdb
    end,     \* the PC's end of the connection: "open", "closed", "broken"
    wire,    \* packets not read yet
    buffer,  \* buf: the packet it begins with
    rx,      \* the receive thread is in its loop
    opts,    \* the StreamOptions objects, by the activation that made them
    cur,     \* Streamer.options, as an index of opts
    main,    \* jobs posted to the main thread
    gl,      \* glInterface's filters
    dev,     \* preview, encoder and camera of RtspServerCamera2
    adapter, \* the BitrateAdapter's callback has seen adaptiveBitrateEnabled
    session, \* "new", "shown" (surfaceCreated) or "over" (onDisconnected)
    sent,
    want,    \* history: what the packets handled so far ask for, one by one
    odd      \* history: which of the known races and failures happened

androidVars == <<adb, end, wire, buffer, rx, opts, cur, main, gl, dev, adapter, session,
                sent, want, odd>>
linkVars == <<adb, end, wire, buffer, rx, sent>>

-----------------------------------------------------------------------------
(***************************************************************************)
(* What the PC sends.                                                      *)
(***************************************************************************)
None == "None"
Effects == {"Sepia", "Blur", None}
Corrections == {"Gamma"}
ToldRate == 5000 \* the kbit/s of a BITRATE
Ceiling == 9000  \* the maximum of an ADAPTIVE_BITRATE

DefaultOptions ==
    [size |-> 1, fps |-> 1, back |-> TRUE, adaptive |-> FALSE, bitrate |-> 4000, max |-> 12000,
     stab |-> FALSE, h265 |-> FALSE, effect |-> None, corrections |-> {}]
Snapshots == {DefaultOptions,
              [DefaultOptions EXCEPT !.size = 2, !.back = FALSE, !.max = 12033],
              [DefaultOptions EXCEPT !.adaptive = TRUE, !.stab = TRUE, !.h265 = TRUE],
              [DefaultOptions EXCEPT !.fps = 2, !.effect = "Sepia", !.corrections = Corrections]}

Cmd(op, arg) == [op |-> op, arg |-> arg]
PcCommands ==
    {Cmd("camera", None)}
    \cup {Cmd(op, n) : op \in {"resolution", "fps"}, n \in {1, 2}}
    \cup {Cmd("effect", e) : e \in Effects} \cup {Cmd("correction", c) : c \in Corrections}
    \cup {Cmd("flip", axis) : axis \in {"h", "v"}}
    \cup {Cmd("bitrate", ToldRate), Cmd("adaptive", Ceiling)}
    \cup {Cmd(op, b) : op \in {"stab", "focus", "codec"}, b \in BOOLEAN}
Nothing == Cmd("frame", None)  \* a buffer of zeros
Activations == {Cmd("activation", o) : o \in Snapshots}

-----------------------------------------------------------------------------
(***************************************************************************)
(* StreamOptions.  Camera is TRUE for the one on the back, focus for a     *)
(* focus that is off, h265 for the codec.                                  *)
(***************************************************************************)
Options(size, fps, camera, bitrate, stab, focus, h265) ==
    [size |-> size, fps |-> fps, camera |-> camera, bitrate |-> bitrate, adaptive |-> FALSE,
     stab |-> stab, focus |-> focus, h265 |-> h265,
     effect |-> None, corrections |-> EmptyBag, flips |-> {}]

\* serializer.cpp writes a bool as four bytes, deserialize reads one: adaptive
\* is the first of four, the bitrate is its other three and one of its own,
\* stabilization and codec are bytes of the maximum, the focus mode is the
\* stabilization, the count of filters the first half of flash.
Deserialize(o) ==
    Options(o.size, o.fps, o.back,
            (IF o.adaptive THEN 256 ELSE 0) + o.bitrate \div 16777216,
            (o.max \div 65536) % 256 = 1, o.stab, o.max % 256 = 1)

\* calculateOptimalBitrate, up to scale.
Optimal(size, fps) == 1000 * size * fps

Pending(kinds) == \E i \in DOMAIN main : main[i].op \in kinds
Flag(cond, name) == IF cond THEN odd \cup {name} ELSE odd
Options0 == opts[cur]

AndroidInit ==
    /\ adb \in BOOLEAN /\ end = "open" /\ wire = <<>> /\ buffer = Nothing /\ rx = TRUE
    /\ opts = [g \in 0 .. MaxActs |-> Options(1, 1, TRUE, 4096000, FALSE, FALSE, FALSE)]
    /\ cur = 0 /\ main = <<>> /\ gl = EmptyBag
    /\ dev = [preview |-> FALSE, camera |-> TRUE, size |-> 1, streaming |-> FALSE,
              format |-> <<1, 1>>, rate |-> 0, stab |-> FALSE, focus |-> FALSE, codec |-> FALSE]
    /\ adapter = FALSE /\ session = "new" /\ sent = 0
    /\ want = [on |-> FALSE, size |-> 1, fps |-> 1, camera |-> TRUE, rate |-> 0, stab |-> FALSE,
               focus |-> FALSE, codec |-> FALSE, effect |-> None, filters |-> {}]
    /\ odd = {}

-----------------------------------------------------------------------------
(***************************************************************************)
(* The receive thread: one operator per case of onBytesReceived.           *)
(***************************************************************************)
Post(op, arg) == main' = Append(main, Cmd(op, arg))
Toggle(x, S) == IF x \in S THEN S \ {x} ELSE S \cup {x}

\* startStream replaces the options at once and posts the rest.
StartStream(o) ==
    LET new == Deserialize(o)
    IN /\ cur < MaxActs /\ cur' = cur + 1
       /\ opts' = [opts EXCEPT ![cur + 1] = new]
       /\ Post("start", cur + 1)
       /\ want' = [on |-> TRUE, size |-> new.size, fps |-> new.fps, camera |-> new.camera,
                   rate |-> new.bitrate, stab |-> new.stab, focus |-> new.focus,
                   codec |-> new.h265, effect |-> None, filters |-> {}]
       /\ odd' = Flag(cur > 0, "again")
       /\ UNCHANGED <<gl, dev>>

SwitchCamera ==
    \/ UNCHANGED <<opts, cur, main, gl, dev, want, odd>>  \* CameraOpenException
    \/ /\ dev' = [dev EXCEPT !.camera = ~@]
       /\ opts' = [opts EXCEPT ![cur].camera = ~@]
       /\ want' = [want EXCEPT !.camera = ~@]
       /\ odd' = Flag(Pending({"start"}), "early")
       /\ UNCHANGED <<cur, main, gl>>

SetResolution(size) ==
    IF size = Options0.size THEN UNCHANGED <<opts, cur, main, gl, dev, want, odd>>
    ELSE LET bitrate == Optimal(size, Options0.fps)
         IN /\ opts' = [opts EXCEPT ![cur].size = size, ![cur].bitrate = bitrate]
            /\ Post("restart", None)
            /\ want' = [want EXCEPT !.size = size, !.rate = bitrate]
            /\ UNCHANGED <<cur, gl, dev, odd>>

SetFps(fps) ==
    IF fps = Options0.fps THEN UNCHANGED <<opts, cur, main, gl, dev, want, odd>>
    ELSE /\ opts' = [opts EXCEPT ![cur].fps = fps]
         /\ Post("restart", None)
         /\ want' = [want EXCEPT !.fps = fps, !.rate = Options0.bitrate]
         /\ UNCHANGED <<cur, gl, dev, odd>>

ApplyEffectFilter(e) ==
    /\ Post("effect", e)
    /\ want' = [want EXCEPT !.effect = e]
    /\ UNCHANGED <<opts, cur, gl, dev, odd>>

\* The filter is looked up here and added by the job.
ApplyCorrectionFilter(c) ==
    /\ IF BagIn(c, Options0.corrections) THEN UNCHANGED main ELSE Post("correction", c)
    /\ want' = [want EXCEPT !.filters = @ \cup {c}]
    /\ odd' = Flag(Pending({"correction"}), "hurried")
    /\ UNCHANGED <<opts, cur, gl, dev>>

Flip(axis) ==
    /\ Post("flip", axis)
    /\ want' = [want EXCEPT !.filters = Toggle(axis, @)]
    /\ UNCHANGED <<opts, cur, gl, dev, odd>>

\* setBitrate and setAdaptiveBitrate: at once, and not into the options' bitrate.
SetBitrate(adaptive, rate) ==
    /\ opts' = [opts EXCEPT ![cur].adaptive = adaptive]
    /\ dev' = [dev EXCEPT !.rate = rate]
    /\ want' = [want EXCEPT !.rate = rate]
    /\ odd' = Flag(Pending({"start", "restart"}), "early")
                \cup (IF adapter /\ ~adaptive THEN {"adapting"} ELSE {})
    /\ UNCHANGED <<cur, main, gl>>

\* setStabilization and setFocus: the camera, not the options.
SetCamera(field, b) ==
    /\ dev' = [dev EXCEPT ![field] = b]
    /\ want' = [want EXCEPT ![field] = b]
    /\ odd' = Flag(Pending({"start"}), "early")
    /\ UNCHANGED <<opts, cur, main, gl>>

SetH265Codec(b) ==
    /\ dev' = [dev EXCEPT !.codec = b]
    /\ IF dev.streaming
       THEN Post("restart", None) /\ want' = [want EXCEPT !.codec = b, !.rate = Options0.bitrate]
       ELSE UNCHANGED main /\ want' = [want EXCEPT !.codec = b]
    /\ odd' = Flag(Pending({"start"}), "early")
    /\ UNCHANGED <<opts, cur, gl>>

OnBytesReceived(p) ==
    /\ Len(main) < MaxMain
    /\ \/ p.op = "activation" /\ StartStream(p.arg)
       \/ p.op = "camera" /\ SwitchCamera
       \/ p.op = "resolution" /\ SetResolution(p.arg)
       \/ p.op = "fps" /\ SetFps(p.arg)
       \/ p.op = "effect" /\ ApplyEffectFilter(p.arg)
       \/ p.op = "correction" /\ ApplyCorrectionFilter(p.arg)
       \/ p.op = "flip" /\ Flip(p.arg)
       \/ p.op \in {"bitrate", "adaptive"} /\ SetBitrate(p.op = "adaptive", p.arg)
       \/ p.op \in {"stab", "focus"} /\ SetCamera(p.op, p.arg)
       \/ p.op = "codec" /\ SetH265Codec(p.arg)
       \/ p.op = "frame" /\ UNCHANGED <<opts, cur, main, gl, dev, want, odd>>

\* A read returns what has arrived; only its first packet is looked at.
Read ==
    /\ rx /\ wire # <<>> /\ end # "broken"
    /\ \E k \in 1 .. Len(wire) : wire' = SubSeq(wire, k + 1, Len(wire))
    /\ buffer' = Head(wire)
    /\ OnBytesReceived(Head(wire))
    /\ UNCHANGED <<adb, end, rx, adapter, session, sent>>

\* Mutant: a read that throws ends the thread, and tells nobody.
ReadThrows ==
    /\ rx
    /\ end = "broken" \/ (end = "closed" /\ wire = <<>> /\ adb)
    /\ rx' = FALSE
    /\ IF end = "broken" THEN UNCHANGED main ELSE Post("disconnected", None)
    /\ UNCHANGED <<adb, end, wire, buffer, opts, cur, gl, dev, adapter, session, sent, want, odd>>

\* ConnectionManager.onDisconnected, from the catch or at the end over adb.
ReadEnds ==
    /\ rx
    /\ end = "broken" \/ (end = "closed" /\ wire = <<>> /\ adb)
    /\ rx' = FALSE
    /\ Post("disconnected", None)
    /\ UNCHANGED <<adb, end, wire, buffer, opts, cur, gl, dev, adapter, session, sent, want, odd>>

\* Over Wi-Fi the -1 goes to the callback with the old buffer, again and again.
ReadSpins ==
    /\ rx /\ end = "closed" /\ wire = <<>> /\ ~adb
    /\ OnBytesReceived(buffer)
    /\ UNCHANGED <<linkVars, adapter, session>>

-----------------------------------------------------------------------------
(***************************************************************************)
(* The main thread.  startPreview and startStreamInternal use the options  *)
(* of now, applyOptionsToStream those of its activation.  The camera is    *)
(* the library's: a preview has the facing and the size it is given.       *)
(***************************************************************************)
StartPreview(d) ==
    IF d.preview THEN d
    ELSE [d EXCEPT !.preview = TRUE, !.camera = Options0.camera, !.size = Options0.size]
Format == <<Options0.size, Options0.fps>>
Unsupported == Options0.size * Options0.fps > MaxLoad
StartStreamInternal(d) ==
    IF d.streaming \/ Unsupported THEN d
    ELSE [d EXCEPT !.streaming = TRUE, !.format = Format, !.rate = Options0.bitrate]
Refused(d) == Flag(~d.streaming /\ Unsupported, "refused")

ApplyOptionsToStream(o, d) ==
    [d EXCEPT !.rate = IF o.adaptive THEN @ ELSE o.bitrate,
              !.stab = o.stab, !.focus = o.focus, !.codec = o.h265]

Object(name) == SetToBag({<<name, cur>>})
Running(job) == IF job.effect = None THEN EmptyBag ELSE SetToBag({<<job.effect, cur>>})

StartJob(g) ==
    LET old == opts[g - 1]
        new == opts[g]
        need == old.size # new.size \/ old.camera # new.camera
        shown == StartPreview(IF need THEN [dev EXCEPT !.preview = FALSE] ELSE dev)
        applied == ApplyOptionsToStream(new, shown)
    IN /\ dev' = StartStreamInternal(applied)
       /\ odd' = Refused(applied)
       /\ gl' = gl (+) Running(new)
                   (+) [f \in {<<c, cur>> : c \in DOMAIN new.corrections} |->
                          new.corrections[f[1]]]
       /\ UNCHANGED <<opts, cur>>

RestartJob ==
    LET shown == StartPreview([dev EXCEPT !.streaming = FALSE, !.preview = FALSE])
    IN /\ dev' = IF dev.streaming THEN StartStreamInternal(shown) ELSE shown
       /\ odd' = IF dev.streaming THEN Refused(shown) ELSE odd
       /\ UNCHANGED <<opts, cur, gl>>

\* Mutant: the effect in use is not removed first.
EffectJobAdds(e) ==
    /\ gl' = gl (+) (IF e = None THEN EmptyBag ELSE Object(e))
    /\ opts' = [opts EXCEPT ![cur].effect = e]
    /\ UNCHANGED <<cur, dev, odd>>

EffectJob(e) ==
    /\ gl' = (gl (-) Running(Options0)) (+) (IF e = None THEN EmptyBag ELSE Object(e))
    /\ opts' = [opts EXCEPT ![cur].effect = e]
    /\ UNCHANGED <<cur, dev, odd>>

CorrectionJob(c) ==
    /\ gl' = gl (+) Object(c)
    /\ opts' = [opts EXCEPT ![cur].corrections = @ (+) SetToBag({c})]
    /\ UNCHANGED <<cur, dev, odd>>

FlipJob(axis) ==
    /\ gl' = IF axis \in Options0.flips THEN gl (-) Object(axis) ELSE gl (+) Object(axis)
    /\ opts' = [opts EXCEPT ![cur].flips = Toggle(axis, @)]
    /\ UNCHANGED <<cur, dev, odd>>

\* close() joins the receive thread, which has left its loop.
DisconnectedJob ==
    /\ session' = "over"
    /\ dev' = [dev EXCEPT !.preview = FALSE, !.streaming = FALSE]
    /\ UNCHANGED <<opts, cur, gl, odd>>

RunJob ==
    /\ main # <<>> /\ main' = Tail(main)
    /\ LET job == Head(main)
       IN \/ job.op = "start" /\ StartJob(job.arg) /\ UNCHANGED session
          \/ job.op = "restart" /\ RestartJob /\ UNCHANGED session
          \/ job.op = "effect" /\ EffectJob(job.arg) /\ UNCHANGED session
          \/ job.op = "correction" /\ CorrectionJob(job.arg) /\ UNCHANGED session
          \/ job.op = "flip" /\ FlipJob(job.arg) /\ UNCHANGED session
          \/ job.op = "disconnected" /\ DisconnectedJob
    /\ UNCHANGED <<linkVars, adapter, want>>

SurfaceCreated ==
    /\ session = "new" /\ session' = "shown"
    /\ dev' = StartPreview(dev)
    /\ UNCHANGED <<linkVars, opts, cur, main, gl, adapter, want, odd>>

-----------------------------------------------------------------------------
\* The RTSP server's thread: onNewBitrate tests the flag and then sets the rate.
AdapterTests ==
    /\ ~adapter /\ dev.streaming /\ Options0.adaptive /\ adapter' = TRUE
    /\ UNCHANGED <<linkVars, opts, cur, main, gl, dev, session, want, odd>>
AdapterSets ==
    /\ adapter /\ adapter' = FALSE
    /\ dev' = [dev EXCEPT !.rate = 700]
    /\ UNCHANGED <<linkVars, opts, cur, main, gl, session, want, odd>>

PcSends(p) ==
    /\ end = "open" /\ sent < MaxSent /\ sent' = sent + 1
    /\ p.op # "activation" => sent > 0
    /\ wire' = Append(wire, p)
    /\ UNCHANGED <<adb, end, buffer, rx, opts, cur, main, gl, dev, adapter, session, want, odd>>
PcEnds(how) ==
    /\ end = "open" /\ end' = how
    /\ UNCHANGED <<adb, wire, buffer, rx, sent, opts, cur, main, gl, dev, adapter, session, want, odd>>

Receive == Read \/ ReadEnds \/ ReadSpins
AndroidNext ==
    \/ Receive
    \/ RunJob \/ SurfaceCreated
    \/ AdapterTests \/ AdapterSets
    \/ \E p \in Activations \cup PcCommands : PcSends(p)
    \/ \E how \in {"closed", "broken"} : PcEnds(how)

\* Both threads run.
AndroidSpec == /\ AndroidInit /\ [][AndroidNext]_androidVars
               /\ WF_androidVars(Receive) /\ WF_androidVars(RunJob)

-----------------------------------------------------------------------------
\* With nothing left to run on the main thread, the phone is as if its packets
\* had been carried out one by one where they were read: format, camera, codec,
\* rate and each filter once (StreamActivity.kt:63-130, Streamer.kt:80-346).
\* The races and failures of `odd` are excepted: a second activation, a command
\* overtaken by the start or restart it found queued, a correction sent twice in
\* a hurry, the adapter's late rate, a format the encoder refuses.
AsCommanded ==
    main = <<>> /\ odd = {} /\ want.on /\ session # "over" =>
        /\ dev.streaming /\ dev.preview
        /\ dev.format = <<want.size, want.fps>> /\ dev.size = want.size
        /\ \A field \in {"camera", "stab", "focus", "codec"} : dev[field] = want[field]
        /\ ~Options0.adaptive /\ ~adapter => dev.rate = want.rate
        /\ gl = SetToBag({<<name, cur>> : name \in want.filters \cup ({want.effect} \ {None})})

\* A connection that breaks, or over adb is closed, ends the session: preview and
\* stream stop and nothing that was still queued starts them again
\* (TCPConnection.kt:59-76, ConnectionManager.kt:114-120, StreamActivity.kt:56-61).
CloseNoticed ==
    (end = "broken" \/ (end = "closed" /\ adb))
        ~> [](session = "over" /\ ~dev.streaming /\ ~dev.preview)

\* The PC's ACTIVATION is read as it was written (docs/PROTOCOL.md:110-128).
ActivationHonoured ==
    \A o \in Snapshots :
        buffer = Cmd("activation", o) /\ cur = 1 /\ main = <<>> /\ dev.streaming =>
            dev.rate = o.bitrate
=============================================================================
