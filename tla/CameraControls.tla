--------------------------- MODULE CameraControls ---------------------------
(***************************************************************************)
(* The settings of a phone, which live twice: in the PC's stateRegistry    *)
(* (windows/src/application.cpp, one StreamOptions per phone name) and in  *)
(* the phone (iOS: StreamController and the controllers of CameraControls).*)
(* Buttons, the dock panel and the modal configuration dialog write the    *)
(* registry and send one command each; selecting a phone sends ACTIVATION  *)
(* and, right behind it, the camera settings that ACTIVATION does not      *)
(* carry.  Nothing is ever read back from the phone.                       *)
(*                                                                         *)
(* A setting has two values, 0 (StreamOptions' default) and 1.  Of the     *)
(* network only what matters here is kept: an ACTIVATION takes for itself  *)
(* whatever TCP delivered behind it (ControlChannel has the buffer).       *)
(***************************************************************************)
EXTENDS Naturals, Sequences

CONSTANTS Phones, IPhones, None,
          MaxEdits,     \* bound: changes the user makes
          MaxSelects,   \* bound: streams started, by the user or a timer
          MaxFaults     \* bound: activations camera or encoder refuse

ASSUME PhonesAssumption == IPhones \subseteq Phones /\ None \notin Phones

Value == 0 .. 1
Front == 1                 \* "back" = 1 is the front camera: the default is 0
Unforced == 2              \* no value in force: the camera decides
Off   == 2                 \* stabilization off, neither standard nor cinematic
Adaptive == 2              \* the bitrate is the adaptive controller's

\* What SerializeStreamOptions puts into an ACTIVATION.
Carried == {"res", "fps", "back", "adaptive", "rate", "stab", "torch", "h265"}
\* The rest of StreamOptions; focus = 1 is a lock at a lens position.
Camera  == {"lens", "manual", "shutter", "ev", "wbManual", "temp",
            "stabMode", "focus", "portrait", "focusMode"}
Field   == Carried \cup Camera
\* The controls of the dock panel whose events are bound.
Panel   == {"manual", "shutter", "ev", "wbManual", "temp", "portrait"}

VARIABLES
    active,      \* Manager::streamingDevice
    registry,    \* Application::stateRegistry
    dock,        \* CameraDockPanel: shown, and the values its widgets hold
    torchButton, \* whether the torch button is enabled
    dialog,      \* the phone the modal configuration dialog was opened for
    net,         \* commands sent to each phone and not handled
    phone,       \* what each phone has in force
    unsure,      \* history: settings whose last command did not keep its hold
    edits, selects, faults

vars == <<active, registry, dock, torchButton, dialog, net, phone,
          unsure, edits, selects, faults>>
host == <<active, registry, dock, torchButton, dialog, edits, selects>>

(***************************************************************************)
(* Commands: an opcode and the settings it carries.                        *)
(***************************************************************************)
Ops == {"ACTIVATION", "RESOLUTION", "FPS", "CAMERA", "CODEC", "STABILIZATION",
        "FLASH", "BITRATE", "ADAPTIVE_BITRATE", "FOCUS", "ZOOM"}
\* The opcodes only an iPhone knows (v2 of the protocol).
IosOps == {"LENS_ZOOM", "EXPOSURE", "EXPOSURE_COMPENSATION", "WHITE_BALANCE",
           "STABILIZATION_MODE", "FOCUS_LOCK", "PORTRAIT_MODE",
           "RESET_CAMERA_TO_AUTO"}
Cmd(op, state, S) == [op |-> op, arg |-> [f \in S |-> state[f]]]
Plain(op) == [op |-> op, arg |-> [f \in {} |-> 0]]

\* SendToActiveDevice: nothing is sent while no phone streams.
Send(cmds) ==
    net' = IF active = None THEN net ELSE [net EXCEPT ![active] = @ \o cmds]

\* The one command that announces a changed setting, as the setters of
\* Manager build it from the registry's new entry s.
\* Mutant: the compensation belongs to manual exposure.
SetExposureManual(s) ==
    IF s["manual"] = 1
    THEN <<Cmd("EXPOSURE", s, {"shutter"}), Cmd("EXPOSURE_COMPENSATION", s, {"ev"})>>
    ELSE <<>>

SetExposure(s) ==
    (IF s["manual"] = 1 THEN <<Cmd("EXPOSURE", s, {"shutter"})>> ELSE <<>>)
        \o <<Cmd("EXPOSURE_COMPENSATION", s, {"ev"})>>
SetWhiteBalance(s) ==
    IF s["wbManual"] = 1 THEN <<Cmd("WHITE_BALANCE", s, {"temp"})>> ELSE <<>>
SetPortraitMode(s) == <<Cmd("PORTRAIT_MODE", s, {"portrait"})>>
SetBitrate(s) ==
    IF s["adaptive"] = 1 THEN <<Cmd("ADAPTIVE_BITRATE", s, {"adaptive"})>>
                         ELSE <<Cmd("BITRATE", s, {"rate"})>>

\* Mutant: portrait is left to the next change of it.
ReapplyWithoutPortrait(s) ==
    <<Cmd("LENS_ZOOM", s, {"lens"})>> \o SetExposure(s) \o SetWhiteBalance(s)
      \o <<Cmd("STABILIZATION_MODE", s, {"stabMode"})>>
      \o (IF s["focus"] = 1 THEN <<Cmd("FOCUS_LOCK", s, {"focus"})>> ELSE <<>>)

\* ReapplyIosControlsAfterStreamConnect
Reapply(s) ==
    <<Cmd("LENS_ZOOM", s, {"lens"})>> \o SetExposure(s) \o SetWhiteBalance(s)
      \o <<Cmd("STABILIZATION_MODE", s, {"stabMode"})>>
      \o (IF s["focus"] = 1 THEN <<Cmd("FOCUS_LOCK", s, {"focus"})>> ELSE <<>>)
      \o SetPortraitMode(s)

\* Mutant: the iOS controls are reapplied without asking for the platform.
StartOfAny(p, s) == <<Cmd("ACTIVATION", s, Carried)>> \o Reapply(s)

\* Connect2Stream and what its callers send after it.
StartOf(p, s) ==
    <<Cmd("ACTIVATION", s, Carried)>> \o (IF p \in IPhones THEN Reapply(s) ELSE <<>>)

\* What a phone's cameras and its encoder have in force.  An iPhone keeps the
\* StreamConfiguration it was last told in conf.
Camera0 == [lens |-> 0, shutter |-> Unforced, ev |-> 0, temp |-> Unforced, focus |-> 0]
Phone0 == [conf |-> [f \in Carried \cup {"portrait"} |-> 0],
           live |-> [torch |-> 0, stabMode |-> Off, rate |-> 0],
           cam  |-> [c \in Value |-> Camera0]]

\* The dock is hidden; its panel shows StreamOptions' defaults.
Dock0 == [shown |-> FALSE, panel |-> [f \in Panel |-> 0]]

Init ==
    /\ active = None /\ dialog = None
    /\ registry = [p \in Phones |-> [f \in Field |-> 0]]
    /\ dock = Dock0
    /\ torchButton = FALSE
    /\ net = [p \in Phones |-> <<>>]
    /\ phone = [p \in Phones |-> Phone0]
    /\ unsure = [p \in Phones |-> {}]
    /\ edits = 0 /\ selects = 0 /\ faults = 0

-----------------------------------------------------------------------------
(***************************************************************************)
(* A phone leaves.  Which phones are connected while they do not stream is *)
(* left open: any may dial in, and be selected or leave (HostServer has    *)
(* the two lists and their threads).                                       *)
(***************************************************************************)
\* OnDeviceDisconnected hides the dock and disables the torch button whichever
\* phone left; an open dialog stays open.
Disconnect(p) ==
    /\ active' = IF active = p THEN None ELSE active
    /\ dock' = [dock EXCEPT !.shown = FALSE]
    /\ torchButton' = FALSE
    /\ net' = [net EXCEPT ![p] = <<>>]
    /\ UNCHANGED <<registry, dialog, phone, unsure, edits, selects, faults>>

(***************************************************************************)
(* The GUI thread.                                                         *)
(***************************************************************************)
\* OnSourceChanged.  The front camera lists only resolution 0.
Select(p) ==
    /\ dialog = None
    /\ selects < MaxSelects /\ selects' = selects + 1
    /\ LET s == [registry[p] EXCEPT !["res"] =
                     IF registry[p]["back"] = Front THEN 0 ELSE @]
       IN /\ registry' = [registry EXCEPT ![p] = s]
          /\ net' = [net EXCEPT ![p] = @ \o StartOf(p, s)]
    /\ active' = p
    /\ dock' = [dock EXCEPT !.shown = p \in IPhones]
    /\ torchButton' = TRUE
    /\ UNCHANGED <<dialog, phone, unsure, edits, faults>>

\* A plugged cable or a changed link mode starts the stream again; the USB
\* timer also fires while a modal dialog is open.
Restart ==
    /\ active \in IPhones
    /\ selects < MaxSelects /\ selects' = selects + 1
    /\ Send(StartOf(active, registry[active]))
    /\ UNCHANGED <<active, registry, dock, torchButton, dialog,
                   phone, unsure, edits, faults>>

\* One change by the user: the registry's entry of phone p becomes s and the
\* commands go to the streaming phone.
Change(p, s, cmds) ==
    /\ edits < MaxEdits /\ edits' = edits + 1
    /\ registry' = [registry EXCEPT ![p] = s]
    /\ Send(cmds)
    /\ UNCHANGED <<active, torchButton, dialog, phone, unsure,
                   selects, faults>>

Flip(s, f) == [s EXCEPT ![f] = 1 - @]
MainWindow == dialog = None /\ active # None

PressTorch ==
    /\ MainWindow /\ torchButton
    /\ LET s == Flip(registry[active], "torch")
       IN Change(active, s, <<Cmd("FLASH", s, {"torch"})>>)
    /\ UNCHANGED dock

PressSwap ==
    /\ MainWindow
    /\ Change(active, Flip(registry[active], "back"), <<Plain("CAMERA")>>)
    /\ UNCHANGED dock

\* Zoom in and out; on Android the option is another one and not persisted.
PressZoom ==
    /\ MainWindow
    /\ \E v \in Value :
         LET s == [registry[active] EXCEPT !["lens"] = v]
         IN Change(active, s,
                <<Cmd(IF active \in IPhones THEN "LENS_ZOOM" ELSE "ZOOM", s, {"lens"})>>)
    /\ UNCHANGED dock

\* The dock: a change of one widget stores the whole group of its panel.  The
\* panel was seeded with defaults, and LoadState is empty and never called.
DockTouched(f) == Flip(dock.panel, f)
DockStored(group, f) ==
    [g \in Field |-> IF g \in group THEN DockTouched(f)[g] ELSE registry[active][g]]
DockChange(f, s, cmds) ==
    /\ MainWindow /\ dock.shown
    /\ f = "shutter" => dock.panel["manual"] = 1
    /\ f = "temp" => dock.panel["wbManual"] = 1
    /\ dock' = [dock EXCEPT !.panel = DockTouched(f)]
    /\ Change(active, s, cmds)

DockPortrait ==
    LET s == DockStored({"portrait"}, "portrait")
    IN DockChange("portrait", s, SetPortraitMode(s))
DockExposure(f) ==
    LET s == DockStored({"manual", "shutter", "ev"}, f) IN DockChange(f, s, SetExposure(s))
DockWhiteBalance(f) ==
    LET s == DockStored({"wbManual", "temp"}, f) IN DockChange(f, s, SetWhiteBalance(s))

\* "Reset to Auto" of the dock moves its widgets; its event is not bound.
DockReset ==
    /\ MainWindow /\ dock.shown
    /\ edits < MaxEdits /\ edits' = edits + 1
    /\ dock' = [dock EXCEPT !.panel["manual"] = 0, !.panel["wbManual"] = 0]
    /\ UNCHANGED <<active, registry, torchButton, dialog, net, phone,
                   unsure, selects, faults>>

(***************************************************************************)
(* The configuration dialog.  It is seeded from the registry and is modal, *)
(* so its widgets show the entry of the phone it was opened for.           *)
(***************************************************************************)
OpenDialog ==
    /\ MainWindow
    /\ dialog' = active
    /\ UNCHANGED <<active, registry, dock, torchButton, net, phone,
                   unsure, edits, selects, faults>>

CloseDialog ==
    /\ dialog # None
    /\ dialog' = None
    /\ UNCHANGED <<active, registry, dock, torchButton, net, phone,
                   unsure, edits, selects, faults>>

Row(f, op) == [field |-> f, op |-> op]
\* The widgets that send their one setting, on every phone and on iPhones.
Simple == {Row("res", "RESOLUTION"), Row("fps", "FPS"), Row("h265", "CODEC"),
           Row("stab", "STABILIZATION"), Row("torch", "FLASH"), Row("focusMode", "FOCUS")}
IosSimple == {Row("lens", "LENS_ZOOM"), Row("stabMode", "STABILIZATION_MODE"),
              Row("focus", "FOCUS_LOCK")}

DialogChange(s, cmds) == dialog # None /\ Change(dialog, s, cmds) /\ UNCHANGED dock
DialogSets(f) == Flip(registry[dialog], f)

\* The resolutions offered are those of the camera in use.
DialogSimple(r) ==
    /\ r \in IosSimple => dialog \in IPhones
    /\ r.field = "res" => dialog # None /\ registry[dialog]["back"] # Front
    /\ DialogChange(DialogSets(r.field), <<Cmd(r.op, DialogSets(r.field), {r.field})>>)

\* The static slider is hidden in adaptive mode; the limits of that mode are
\* left out.
DialogBitrate(f) ==
    /\ f = "rate" => dialog # None /\ registry[dialog]["adaptive"] = 0
    /\ DialogChange(DialogSets(f), SetBitrate(DialogSets(f)))

DialogExposure(f) ==
    /\ dialog \in IPhones
    /\ f = "shutter" => registry[dialog]["manual"] = 1
    /\ DialogChange(DialogSets(f), SetExposure(DialogSets(f)))

DialogWhiteBalance(f) ==
    /\ dialog \in IPhones
    /\ f = "temp" => registry[dialog]["wbManual"] = 1
    /\ DialogChange(DialogSets(f), SetWhiteBalance(DialogSets(f)))

DialogReset ==
    /\ dialog \in IPhones
    /\ DialogChange([f \in Field |-> IF f \in {"manual", "wbManual", "focus"} THEN 0
                                     ELSE registry[dialog][f]],
                    <<Plain("RESET_CAMERA_TO_AUTO")>>)

-----------------------------------------------------------------------------
(***************************************************************************)
(* The iPhone: StreamController.handle(command:).  unsure loses the        *)
(* settings a command brings and gains those it, or a loss, puts in doubt. *)
(***************************************************************************)
Fields(cmds) == (UNION {DOMAIN cmds[i].arg : i \in 1 .. Len(cmds)})
                  \cup {f \in {"back"} : \E i \in 1 .. Len(cmds) : cmds[i].op = "CAMERA"}

\* What an applied configuration sets besides itself: the torch (the front
\* camera has none), the stabilization of the connection, the encoder's rate.
LiveOf(conf, live) ==
    [torch    |-> IF conf["back"] = Front THEN live.torch ELSE conf["torch"],
     stabMode |-> IF conf["stab"] = 1 THEN 0 ELSE Off,
     rate     |-> IF conf["adaptive"] = 1 THEN Adaptive ELSE conf["rate"]]

\* applyActivation.  The configuration is stored first.  A refusal of the
\* camera is reported and the rest goes on; one of the encoder ends it before
\* torch and bitrate.
Apply(p, conf, lost, rest) ==
    \E outcome \in {"accepted", "camera", "encoder"} :
      LET new == LiveOf(conf, phone[p].live) IN
      /\ outcome # "accepted" => faults < MaxFaults
      /\ faults' = faults + (IF outcome = "accepted" THEN 0 ELSE 1)
      /\ phone' = [phone EXCEPT ![p].conf = conf, ![p].live =
             [torch    |-> IF outcome = "encoder" THEN @.torch ELSE new.torch,
              rate     |-> IF outcome = "encoder" THEN @.rate ELSE new.rate,
              stabMode |-> IF outcome = "camera" THEN @.stabMode ELSE new.stabMode]]
      /\ unsure' = [unsure EXCEPT ![p] = lost \cup
             (IF outcome = "accepted" THEN {} ELSE ({"torch", "rate"} \cup Camera) \ {"portrait"})]
      /\ net' = [net EXCEPT ![p] = rest]

Arrives(p, ops) ==
    /\ p \in IPhones /\ net[p] # <<>> /\ Head(net[p]).op \in ops
    /\ UNCHANGED host

\* The packet has no length: the commands that came with it in one read, k of
\* them, are taken for its body.  Portrait is not in it and goes off.
HandleActivation(p) ==
    /\ Arrives(p, {"ACTIVATION"})
    /\ LET arg == Head(net[p]).arg
           rest == Tail(net[p])
       IN \E k \in 0 .. Len(rest) :
            Apply(p, [f \in Carried \cup {"portrait"} |-> IF f = "portrait" THEN 0 ELSE arg[f]],
                  (unsure[p] \ Carried) \cup Fields(SubSeq(rest, 1, k)),
                  SubSeq(rest, k + 1, Len(rest)))

\* reconfigure: the stored configuration, changed, is applied anew: what was
\* set without being stored in it is undone, and another camera has settings
\* of its own.
HandleReconfigure(p) ==
    /\ Arrives(p, {"RESOLUTION", "FPS", "CODEC", "STABILIZATION", "CAMERA"})
    /\ LET c == Head(net[p])
           conf == phone[p].conf
       IN Apply(p, IF c.op = "CAMERA" THEN Flip(conf, "back")
                   ELSE [f \in DOMAIN conf |-> IF f \in DOMAIN c.arg THEN c.arg[f] ELSE conf[f]],
                (unsure[p] \ DOMAIN c.arg) \cup {"torch", "rate", "stabMode"}
                  \cup (IF c.op = "CAMERA" THEN {"lens", "shutter", "ev", "temp", "focus"} ELSE {}),
                Tail(net[p]))

\* The other commands do not restart anything: ph is the phone after it, and
\* doubtful the settings it leaves in doubt.
Done(p, ph, doubtful) ==
    /\ phone' = [phone EXCEPT ![p] = ph]
    /\ unsure' = [unsure EXCEPT ![p] = (@ \ DOMAIN Head(net[p]).arg) \cup doubtful]
    /\ net' = [net EXCEPT ![p] = Tail(@)]
    /\ UNCHANGED faults

\* setPortraitMode and setAdaptiveBitrate store their values (reconfigureNoRestart).
HandleStored(p) ==
    /\ Arrives(p, {"PORTRAIT_MODE", "ADAPTIVE_BITRATE"})
    /\ LET c == Head(net[p])
           conf == [f \in DOMAIN phone[p].conf |->
                      IF f \in DOMAIN c.arg THEN c.arg[f] ELSE phone[p].conf[f]]
       IN Done(p, [phone[p] EXCEPT !.conf = conf,
                     !.live.rate = IF c.op = "PORTRAIT_MODE" THEN @ ELSE Adaptive],
               {})

\* setFlash, setBitrate and setStabilizationMode act on torch, encoder and
\* connection and store nothing; an adaptive controller keeps its policy.
HandleLive(p) ==
    /\ Arrives(p, {"FLASH", "BITRATE", "STABILIZATION_MODE"})
    /\ LET c == Head(net[p])
           f == CASE c.op = "FLASH" -> "torch" [] c.op = "BITRATE" -> "rate"
                  [] OTHER -> "stabMode"
           hasTorch == phone[p].conf["back"] # Front
       IN Done(p, IF c.op = "FLASH" /\ ~hasTorch THEN phone[p]
                  ELSE [phone[p] EXCEPT !.live[f] = c.arg[f]],
               IF \/ c.op = "BITRATE" /\ phone[p].conf["adaptive"] = 1
                  \/ c.op = "FLASH" /\ ~hasTorch
               THEN {f} ELSE {})

\* The controllers act on the camera in use, inside its limits.
HandleCamera(p) ==
    /\ Arrives(p, {"LENS_ZOOM", "ZOOM", "EXPOSURE", "EXPOSURE_COMPENSATION",
                   "WHITE_BALANCE", "FOCUS_LOCK"})
    /\ LET c == Head(net[p])
           b == phone[p].conf["back"]
       IN Done(p, [phone[p] EXCEPT !.cam[b] =
                     [f \in DOMAIN Camera0 |-> IF f \in DOMAIN c.arg THEN c.arg[f] ELSE @[f]]], {})

\* Focus mode and focus lock drive the same camera setting.
HandleFocusMode(p) ==
    /\ Arrives(p, {"FOCUS"})
    /\ Done(p, [phone[p] EXCEPT !.cam[phone[p].conf["back"]].focus = 0], {"focus"})

\* resetCameraToAuto also takes the exposure compensation back, which the
\* registry keeps.
HandleReset(p) ==
    /\ Arrives(p, {"RESET_CAMERA_TO_AUTO"})
    /\ LET b == phone[p].conf["back"]
       IN Done(p, [phone[p] EXCEPT !.cam[b] = [@ EXCEPT !.shutter = Unforced, !.temp = Unforced,
                                                       !.ev = 0, !.focus = 0]], {"ev"})

\* An Android phone is another program (AndroidPhone): it takes what is there.
HandleAndroid(p) ==
    /\ p \notin IPhones /\ net[p] # <<>>
    /\ net' = [net EXCEPT ![p] = <<>>]
    /\ UNCHANGED <<active, registry, dock, torchButton, dialog, phone,
                   unsure, edits, selects, faults>>

Gui == \/ \E p \in Phones : Select(p)
       \/ Restart \/ PressTorch \/ PressSwap \/ PressZoom
       \/ DockPortrait \/ DockReset
       \/ \E f \in {"manual", "shutter", "ev"} : DockExposure(f) \/ DialogExposure(f)
       \/ \E f \in {"wbManual", "temp"} : DockWhiteBalance(f) \/ DialogWhiteBalance(f)
       \/ OpenDialog \/ CloseDialog \/ DialogReset
       \/ \E r \in Simple \cup IosSimple : DialogSimple(r)
       \/ \E f \in {"adaptive", "rate"} : DialogBitrate(f)

Handle(p) == \/ HandleActivation(p) \/ HandleReconfigure(p) \/ HandleStored(p)
             \/ HandleLive(p) \/ HandleCamera(p) \/ HandleFocusMode(p)
             \/ HandleReset(p) \/ HandleAndroid(p)

Next == Gui \/ \E p \in Phones : Disconnect(p) \/ Handle(p)
Spec == Init /\ [][Next]_vars

-----------------------------------------------------------------------------
InForce == 0 .. 2
TypeOK ==
    /\ active \in Phones \cup {None}
    /\ dialog \in Phones \cup {None}
    /\ registry \in [Phones -> [Field -> Value]]
    /\ dock \in [shown : BOOLEAN, panel : [Panel -> Value]]
    /\ torchButton \in BOOLEAN
    /\ DOMAIN net = Phones
    /\ \A p \in Phones : \A n \in 1 .. Len(net[p]) : net[p][n].op \in Ops \cup IosOps
    /\ edits \in Nat /\ selects \in Nat /\ faults \in Nat

\* A command reaches only the phone whose setting it is, and only a phone that
\* knows it: a dialog outlives the connection it was opened for, but then no
\* phone streams (application.cpp binds its events to a captured deviceName and
\* sends to whatever streams); the dock is shown only while an iPhone streams,
\* and an Android phone never gets a command of the iOS protocol, though no
\* setter of Manager looks at the platform.
OwnPhoneOnly ==
    /\ TypeOK
    /\ dialog # None => active \in {dialog, None}
    /\ dock.shown => active \in IPhones
    /\ \A p \in Phones \ IPhones : \A i \in 1 .. Len(net[p]) : net[p][i].op \in Ops

\* The streaming iPhone, when it has handled all that was sent.
Settled(p) == p = active /\ p \in IPhones /\ net[p] = <<>>

\* The stream the PC believes in is the stream the phone is configured for:
\* toggles, deltas and restarts add up to the registry's entry, unless a
\* command was swallowed by an ACTIVATION (application.cpp:138-153, 347-353;
\* StreamController.swift:386-390).
ConfigAsChosen ==
    \A p \in Phones : Settled(p) =>
        \A f \in {"res", "fps", "back", "h265", "stab", "portrait"} \ unsure[p] :
            phone[p].conf[f] = registry[p][f]

\* The picture is the one chosen: what the user set by hand is in force on the
\* camera in use, also after the phone was deselected, reconnected or
\* restarted.  Not promised by the code, and therefore in unsure: settings of
\* another camera after a swap; torch, bitrate and stabilization mode after a
\* reconfiguration; a static bitrate while the policy is adaptive; the
\* compensation after a reset; and a mode put back to automatic, which nothing sends.
PictureAsChosen ==
    \A p \in Phones : Settled(p) =>
        LET s == registry[p]
            cam == phone[p].cam[phone[p].conf["back"]]
            live == phone[p].live
            Kept(f) == f \notin unsure[p]
        IN /\ Kept("back") =>
                /\ Kept("lens") => cam.lens = s["lens"]
                /\ Kept("ev") => cam.ev = s["ev"]
                /\ Kept("shutter") /\ s["manual"] = 1 => cam.shutter = s["shutter"]
                /\ Kept("temp") /\ s["wbManual"] = 1 => cam.temp = s["temp"]
                /\ Kept("focus") /\ s["focus"] = 1 => cam.focus = 1
                /\ Kept("torch") /\ s["back"] # Front => live.torch = s["torch"]
           /\ Kept("stabMode") => live.stabMode = s["stabMode"]
           /\ Kept("rate") /\ Kept("adaptive") =>
                live.rate = IF s["adaptive"] = 1 THEN Adaptive ELSE s["rate"]

=============================================================================
