------------------------- MODULE CameraControlsProofs -------------------------
(***************************************************************************)
(* Proofs about CameraControls, for any phones and any number of changes.  *)
(***************************************************************************)
EXTENDS CameraControls, SequenceTheorems, WellFoundedInduction, TLAPS

\* The settings a command of each opcode carries.
Announces(op) ==
    CASE op = "ACTIVATION" -> Carried
      [] op = "RESOLUTION" -> {"res"}        [] op = "FPS" -> {"fps"}
      [] op = "CODEC" -> {"h265"}            [] op = "STABILIZATION" -> {"stab"}
      [] op = "FLASH" -> {"torch"}           [] op = "BITRATE" -> {"rate"}
      [] op = "ADAPTIVE_BITRATE" -> {"adaptive"}
      [] op = "FOCUS" -> {"focusMode"}       [] op \in {"ZOOM", "LENS_ZOOM"} -> {"lens"}
      [] op = "EXPOSURE" -> {"shutter"}      [] op = "EXPOSURE_COMPENSATION" -> {"ev"}
      [] op = "WHITE_BALANCE" -> {"temp"}    [] op = "STABILIZATION_MODE" -> {"stabMode"}
      [] op = "FOCUS_LOCK" -> {"focus"}      [] op = "PORTRAIT_MODE" -> {"portrait"}
      [] OTHER -> {}

\* The commands with an opcode of O.
Args == UNION {[S -> Value] : S \in SUBSET Field}
CommandsOf(O) == {c \in [op : O, arg : Args] : DOMAIN c.arg = Announces(c.op)}
States == [Field -> Value]
AllOps == Ops \cup IosOps

\* On the way to a phone there are only commands it knows.
NetInv ==
    /\ net \in [Phones -> Seq(CommandsOf(AllOps))]
    /\ \A p \in Phones \ IPhones : net[p] \in Seq(CommandsOf(Ops))

HostTypes ==
    /\ active \in Phones \cup {None}
    /\ dialog \in Phones \cup {None}
    /\ registry \in [Phones -> States]
    /\ dock \in [shown : BOOLEAN, panel : [Panel -> Value]]
    /\ torchButton \in BOOLEAN
    /\ edits \in Nat /\ selects \in Nat

\* The dialog and the dock belong to the streaming phone.
OwnInv ==
    /\ dialog # None => active \in {dialog, None}
    /\ dock.shown => active \in IPhones

ControlsInv == HostTypes /\ NetInv /\ OwnInv /\ faults \in Nat

LEMMA ControlsInvSuffices == ControlsInv => OwnPhoneOnly
<1> SUFFICES ASSUME ControlsInv PROVE OwnPhoneOnly
  OBVIOUS
<1>1. ASSUME NEW O, NEW s \in Seq(CommandsOf(O)), NEW i \in 1 .. Len(s)
      PROVE  s[i].op \in O
  <2>1. s[i] \in CommandsOf(O)
    BY <1>1, ElementOfSeq
  <2> QED BY <2>1 DEF CommandsOf
<1>2. \A p \in Phones : net[p] \in Seq(CommandsOf(AllOps))
  BY DEF ControlsInv, NetInv
<1>3. \A p \in Phones : \A n \in 1 .. Len(net[p]) : net[p][n].op \in Ops \cup IosOps
  BY <1>1, <1>2 DEF AllOps
<1>4. \A p \in Phones \ IPhones : \A i \in 1 .. Len(net[p]) : net[p][i].op \in Ops
  BY <1>1 DEF ControlsInv, NetInv
<1>5. DOMAIN net = Phones
  BY DEF ControlsInv, NetInv
<1> QED
  BY <1>3, <1>4, <1>5 DEF ControlsInv, HostTypes, States, OwnInv, OwnPhoneOnly, TypeOK

(***************************************************************************)
(* The commands built from a state.                                        *)
(***************************************************************************)
LEMMA Values == 0 \in Value /\ 1 \in Value /\ Front \in Value /\ \A v \in Value : 1 - v \in Value
BY DEF Value, Front

LEMMA Flipped ==
  ASSUME NEW s \in States, NEW f \in Field
  PROVE  Flip(s, f) \in States
BY Values DEF Flip, States

LEMMA Built ==
  ASSUME NEW s \in States, NEW O, NEW op \in O, NEW S \in SUBSET Field, S = Announces(op)
  PROVE  Cmd(op, s, S) \in CommandsOf(O)
<1>1. [f \in S |-> s[f]] \in [S -> Value]
  BY DEF States
<1>2. [f \in S |-> s[f]] \in Args
  BY <1>1 DEF Args
<1> QED BY <1>2 DEF Cmd, CommandsOf

LEMMA BuiltPlain ==
  ASSUME NEW O, NEW op \in O, op \in {"CAMERA", "RESET_CAMERA_TO_AUTO"}
  PROVE  Plain(op) \in CommandsOf(O)
<1>1. [f \in {} |-> 0] \in [{} -> Value]
  OBVIOUS
<1>2. [f \in {} |-> 0] \in Args
  BY <1>1 DEF Args
<1>3. Announces(op) = {}
  BY DEF Announces
<1> QED BY <1>2, <1>3 DEF Plain, CommandsOf

\* The setters of the iOS controls.
LEMMA Setters ==
  ASSUME NEW s \in States
  PROVE  /\ SetExposure(s) \in Seq(CommandsOf(AllOps))
         /\ SetWhiteBalance(s) \in Seq(CommandsOf(AllOps))
         /\ SetPortraitMode(s) \in Seq(CommandsOf(AllOps))
         /\ Reapply(s) \in Seq(CommandsOf(AllOps))
         /\ SetBitrate(s) \in Seq(CommandsOf(Ops))
<1> DEFINE C == CommandsOf(AllOps)
<1>1. \A op \in AllOps : \A S \in SUBSET Field : S = Announces(op) => <<Cmd(op, s, S)>> \in Seq(C)
  BY Built
<1>2. \A f \in Field : {f} \in SUBSET Field
  OBVIOUS
<1>3. {"lens", "shutter", "ev", "temp", "stabMode", "focus", "portrait", "adaptive", "rate"}
        \subseteq Field
  BY DEF Field, Carried, Camera
<1>4. {"LENS_ZOOM", "EXPOSURE", "EXPOSURE_COMPENSATION", "WHITE_BALANCE",
       "STABILIZATION_MODE", "FOCUS_LOCK", "PORTRAIT_MODE"} \subseteq AllOps
  BY DEF AllOps, IosOps
<1>a. /\ Announces("LENS_ZOOM") = {"lens"} /\ Announces("EXPOSURE") = {"shutter"}
      /\ Announces("EXPOSURE_COMPENSATION") = {"ev"} /\ Announces("WHITE_BALANCE") = {"temp"}
      /\ Announces("STABILIZATION_MODE") = {"stabMode"} /\ Announces("FOCUS_LOCK") = {"focus"}
      /\ Announces("PORTRAIT_MODE") = {"portrait"} /\ Announces("BITRATE") = {"rate"}
      /\ Announces("ADAPTIVE_BITRATE") = {"adaptive"}
  BY DEF Announces
<1>5. SetExposure(s) \in Seq(C)
  <2>1. /\ <<Cmd("EXPOSURE", s, {"shutter"})>> \in Seq(C) /\ <<>> \in Seq(C)
        /\ <<Cmd("EXPOSURE_COMPENSATION", s, {"ev"})>> \in Seq(C)
    BY <1>1, <1>2, <1>3, <1>4, <1>a
  <2> HIDE DEF C
  <2> QED BY <2>1, ConcatProperties DEF SetExposure
<1>6. SetWhiteBalance(s) \in Seq(C)
  <2>1. <<Cmd("WHITE_BALANCE", s, {"temp"})>> \in Seq(C) /\ <<>> \in Seq(C)
    BY <1>1, <1>2, <1>3, <1>4, <1>a
  <2> QED BY <2>1 DEF SetWhiteBalance
<1>7. SetPortraitMode(s) \in Seq(C)
  BY <1>1, <1>2, <1>3, <1>4, <1>a DEF SetPortraitMode
<1>8. Reapply(s) \in Seq(C)
  <2>1. /\ <<Cmd("LENS_ZOOM", s, {"lens"})>> \in Seq(C)
        /\ <<Cmd("STABILIZATION_MODE", s, {"stabMode"})>> \in Seq(C)
        /\ <<Cmd("FOCUS_LOCK", s, {"focus"})>> \in Seq(C) /\ <<>> \in Seq(C)
    BY <1>1, <1>2, <1>3, <1>4, <1>a
  <2> HIDE DEF C
  <2>2. \A a, b \in Seq(C) : a \o b \in Seq(C)
    BY ConcatProperties
  <2> QED BY <1>5, <1>6, <1>7, <2>1, <2>2, Zenon DEF Reapply
<1>9. SetBitrate(s) \in Seq(CommandsOf(Ops))
  <2>1. {"ADAPTIVE_BITRATE", "BITRATE"} \subseteq Ops
    BY DEF Ops
  <2>2. /\ Cmd("ADAPTIVE_BITRATE", s, {"adaptive"}) \in CommandsOf(Ops)
        /\ Cmd("BITRATE", s, {"rate"}) \in CommandsOf(Ops)
    BY <1>2, <1>3, <1>a, <2>1, Built
  <2> QED BY <2>2 DEF SetBitrate
<1> QED BY <1>5, <1>6, <1>7, <1>8, <1>9

\* What a stream is started with: the iOS controls only for an iPhone.
LEMMA Starts ==
  ASSUME NEW p \in Phones, NEW s \in States
  PROVE  /\ StartOf(p, s) \in Seq(CommandsOf(AllOps))
         /\ p \notin IPhones => StartOf(p, s) \in Seq(CommandsOf(Ops))
<1>1. /\ "ACTIVATION" \in Ops /\ Ops \subseteq AllOps /\ Carried \subseteq Field
      /\ Announces("ACTIVATION") = Carried
  BY DEF Ops, AllOps, Field, Announces
<1>2. /\ <<Cmd("ACTIVATION", s, Carried)>> \in Seq(CommandsOf(AllOps))
      /\ <<Cmd("ACTIVATION", s, Carried)>> \in Seq(CommandsOf(Ops))
  BY <1>1, Built
<1>3. StartOf(p, s) \in Seq(CommandsOf(AllOps))
  BY <1>2, Setters, ConcatProperties DEF StartOf
<1>4. ASSUME p \notin IPhones PROVE StartOf(p, s) \in Seq(CommandsOf(Ops))
  BY <1>2, <1>4, ConcatProperties DEF StartOf
<1> QED BY <1>3, <1>4

(***************************************************************************)
(* What sending does to the network.                                       *)
(***************************************************************************)
\* Commands behind those on the way to one phone.
LEMMA Queued ==
  ASSUME NetInv, NEW p \in Phones, NEW cmds \in Seq(CommandsOf(AllOps)),
         p \notin IPhones => cmds \in Seq(CommandsOf(Ops)),
         net' = [net EXCEPT ![p] = @ \o cmds]
  PROVE  NetInv'
<1>1. net[p] \o cmds \in Seq(CommandsOf(AllOps))
  BY ConcatProperties DEF NetInv
<1>2. p \notin IPhones => net[p] \o cmds \in Seq(CommandsOf(Ops))
  BY ConcatProperties DEF NetInv
<1> QED BY <1>1, <1>2 DEF NetInv

LEMMA Sent ==
  ASSUME NetInv, active \in Phones \cup {None}, NEW cmds \in Seq(CommandsOf(AllOps)),
         active \in Phones \ IPhones => cmds \in Seq(CommandsOf(Ops)),
         Send(cmds)
  PROVE  NetInv'
<1>1. CASE active = None
  BY <1>1 DEF Send, NetInv
<1>2. CASE active # None
  BY <1>2, Queued DEF Send
<1> QED BY <1>1, <1>2

\* A phone that has taken commands off the front of its queue.
LEMMA Taken ==
  ASSUME NetInv, NEW p \in IPhones, net[p] # <<>>,
         \/ net' = [net EXCEPT ![p] = Tail(@)]
         \/ \E k \in 0 .. Len(Tail(net[p])) :
              net' = [net EXCEPT ![p] = SubSeq(Tail(net[p]), k + 1, Len(Tail(net[p])))]
  PROVE  NetInv'
<1>1. p \in Phones /\ net[p] \in Seq(CommandsOf(AllOps))
  BY PhonesAssumption DEF NetInv
<1>2. Tail(net[p]) \in Seq(CommandsOf(AllOps))
  BY <1>1
<1>3. \A k \in 0 .. Len(Tail(net[p])) :
        SubSeq(Tail(net[p]), k + 1, Len(Tail(net[p]))) \in Seq(CommandsOf(AllOps))
  BY <1>2, SubSeqProperties
<1>4. PICK rest \in Seq(CommandsOf(AllOps)) : net' = [net EXCEPT ![p] = rest]
  BY <1>2, <1>3
<1> QED BY <1>1, <1>4 DEF NetInv

LEMMA ControlsInvInitially == Init => ControlsInv
<1> SUFFICES ASSUME Init PROVE ControlsInv
  OBVIOUS
<1>1. HostTypes
  BY Values DEF Init, HostTypes, States, Dock0
<1>2. NetInv /\ OwnInv /\ faults \in Nat
  BY DEF Init, NetInv, OwnInv, Dock0
<1> QED BY <1>1, <1>2 DEF ControlsInv

(***************************************************************************)
(* A change by the user, whatever it changes.                              *)
(***************************************************************************)
LEMMA ChangeKeepsIt ==
  ASSUME ControlsInv, NEW p \in Phones, NEW s \in States,
         NEW cmds \in Seq(CommandsOf(AllOps)),
         active \in Phones \ IPhones => cmds \in Seq(CommandsOf(Ops)),
         Change(p, s, cmds),
         dock' \in [shown : BOOLEAN, panel : [Panel -> Value]], dock'.shown = dock.shown
  PROVE  ControlsInv'
<1>1. NetInv'
  BY Sent DEF ControlsInv, HostTypes, Change
<1>2. HostTypes'
  BY DEF ControlsInv, HostTypes, Change
<1>3. OwnInv' /\ faults' \in Nat
  BY DEF ControlsInv, OwnInv, Change
<1> QED BY <1>1, <1>2, <1>3 DEF ControlsInv

\* One command that every phone knows, or that goes to an iPhone.
LEMMA SingleKeepsIt ==
  ASSUME ControlsInv, NEW p \in Phones, NEW s \in States, NEW O, NEW c \in CommandsOf(O),
         O = Ops \/ (O = AllOps /\ active \in IPhones \cup {None}),
         Change(p, s, <<c>>),
         dock' \in [shown : BOOLEAN, panel : [Panel -> Value]], dock'.shown = dock.shown
  PROVE  ControlsInv'
<1>1. Ops \subseteq AllOps
  BY DEF AllOps
<1>2. c \in CommandsOf(AllOps)
  BY <1>1 DEF CommandsOf
<1>3. active \in Phones \ IPhones => c \in CommandsOf(Ops)
  BY PhonesAssumption
<1>4. <<c>> \in Seq(CommandsOf(AllOps)) /\ (active \in Phones \ IPhones => <<c>> \in Seq(CommandsOf(Ops)))
  BY <1>2, <1>3
<1> QED BY <1>4, ChangeKeepsIt

\* The buttons of the main window.
LEMMA ButtonsKeepIt ==
  ASSUME ControlsInv, PressTorch \/ PressSwap \/ PressZoom
  PROVE  ControlsInv'
<1>1. active \in Phones /\ registry[active] \in States
  BY DEF PressTorch, PressSwap, PressZoom, MainWindow, ControlsInv, HostTypes
<1>2. /\ dock' \in [shown : BOOLEAN, panel : [Panel -> Value]] /\ dock'.shown = dock.shown
  BY DEF PressTorch, PressSwap, PressZoom, ControlsInv, HostTypes
<1>3. /\ {"torch", "back", "lens"} \subseteq Field /\ {"FLASH", "CAMERA", "ZOOM"} \subseteq Ops
      /\ "LENS_ZOOM" \in AllOps
  BY DEF Field, Carried, Camera, Ops, IosOps, AllOps
<1>a. /\ Announces("FLASH") = {"torch"} /\ Announces("LENS_ZOOM") = {"lens"}
      /\ Announces("ZOOM") = {"lens"}
  BY DEF Announces
<1>4. CASE PressTorch
  <2>1. Change(active, Flip(registry[active], "torch"),
               <<Cmd("FLASH", Flip(registry[active], "torch"), {"torch"})>>)
    BY <1>4 DEF PressTorch
  <2>2. Flip(registry[active], "torch") \in States
    BY <1>1, <1>3, Flipped
  <2>3. Cmd("FLASH", Flip(registry[active], "torch"), {"torch"}) \in CommandsOf(Ops)
    BY <1>3, <1>a, <2>2, Built
  <2> QED BY <1>1, <1>2, <2>1, <2>2, <2>3, SingleKeepsIt
<1>5. CASE PressSwap
  <2>1. Flip(registry[active], "back") \in States /\ Plain("CAMERA") \in CommandsOf(Ops)
    BY <1>1, <1>3, Flipped, BuiltPlain
  <2> QED BY <1>1, <1>2, <1>5, <2>1, SingleKeepsIt DEF PressSwap
<1>6. CASE PressZoom
  <2>1. PICK v \in Value :
          LET s == [registry[active] EXCEPT !["lens"] = v]
          IN Change(active, s,
                <<Cmd(IF active \in IPhones THEN "LENS_ZOOM" ELSE "ZOOM", s, {"lens"})>>)
    BY <1>6 DEF PressZoom
  <2> DEFINE s == [registry[active] EXCEPT !["lens"] = v]
  <2>2. s \in States
    BY <1>1, <1>3 DEF States
  <2>3. CASE active \in IPhones
    <3>1. Change(active, s, <<Cmd("LENS_ZOOM", s, {"lens"})>>)
      BY <2>1, <2>3
    <3>2. Cmd("LENS_ZOOM", s, {"lens"}) \in CommandsOf(AllOps)
      BY <1>3, <1>a, <2>2, Built
    <3> HIDE DEF s
    <3> QED BY <1>1, <1>2, <2>2, <2>3, <3>1, <3>2, SingleKeepsIt
  <2>4. CASE active \notin IPhones
    <3>1. Change(active, s, <<Cmd("ZOOM", s, {"lens"})>>)
      BY <2>1, <2>4
    <3>2. Cmd("ZOOM", s, {"lens"}) \in CommandsOf(Ops)
      BY <1>3, <1>a, <2>2, Built
    <3> HIDE DEF s
    <3> QED BY <1>1, <1>2, <2>2, <3>1, <3>2, SingleKeepsIt
  <2> QED BY <2>3, <2>4
<1> QED BY <1>4, <1>5, <1>6

\* The dock is shown only while an iPhone streams.
LEMMA DockKeepsIt ==
  ASSUME ControlsInv, NEW f \in Panel, NEW group \in SUBSET Panel, NEW cmds,
         DockStored(group, f) \in States => cmds \in Seq(CommandsOf(AllOps)),
         DockChange(f, DockStored(group, f), cmds)
  PROVE  ControlsInv'
<1>1. /\ active \in IPhones \cap Phones /\ registry[active] \in States
      /\ dock \in [shown : BOOLEAN, panel : [Panel -> Value]]
      /\ Change(active, DockStored(group, f), cmds)
      /\ dock' = [dock EXCEPT !.panel = DockTouched(f)]
  BY PhonesAssumption DEF DockChange, ControlsInv, HostTypes, OwnInv
<1>2. DockTouched(f) \in [Panel -> Value]
  BY <1>1, Values DEF DockTouched, Flip
<1>3. DockStored(group, f) \in States
  BY <1>1, <1>2 DEF DockStored, States
<1>4. dock' \in [shown : BOOLEAN, panel : [Panel -> Value]] /\ dock'.shown = dock.shown
  BY <1>1, <1>2
<1> QED BY <1>1, <1>3, <1>4, ChangeKeepsIt

LEMMA DockActionsKeepIt ==
  ASSUME ControlsInv,
         \/ DockPortrait \/ DockReset
         \/ \E f \in {"manual", "shutter", "ev"} : DockExposure(f)
         \/ \E f \in {"wbManual", "temp"} : DockWhiteBalance(f)
  PROVE  ControlsInv'
<1>1. CASE DockPortrait
  BY <1>1, Setters, DockKeepsIt DEF DockPortrait, Panel
<1>2. ASSUME NEW f \in {"manual", "shutter", "ev"}, DockExposure(f) PROVE ControlsInv'
  BY <1>2, Setters, DockKeepsIt DEF DockExposure, Panel
<1>3. ASSUME NEW f \in {"wbManual", "temp"}, DockWhiteBalance(f) PROVE ControlsInv'
  BY <1>3, Setters, DockKeepsIt DEF DockWhiteBalance, Panel
<1>4. CASE DockReset
  <2>1. {"manual", "wbManual"} \subseteq Panel
    BY DEF Panel
  <2>2. dock' \in [shown : BOOLEAN, panel : [Panel -> Value]] /\ dock'.shown = dock.shown
    BY <1>4, <2>1, Values DEF DockReset, ControlsInv, HostTypes
  <2>3. HostTypes'
    BY <1>4, <2>2 DEF DockReset, ControlsInv, HostTypes
  <2> QED BY <1>4, <2>2, <2>3 DEF DockReset, ControlsInv, NetInv, OwnInv
<1> QED BY <1>1, <1>2, <1>3, <1>4

\* What the dialog of a phone changes reaches that phone or nobody.
LEMMA DialogKeepsIt ==
  ASSUME ControlsInv,
         \/ DialogReset
         \/ \E f \in {"manual", "shutter", "ev"} : DialogExposure(f)
         \/ \E f \in {"wbManual", "temp"} : DialogWhiteBalance(f)
         \/ \E r \in Simple \cup IosSimple : DialogSimple(r)
         \/ \E f \in {"adaptive", "rate"} : DialogBitrate(f)
  PROVE  ControlsInv'
<1>1. /\ dialog \in Phones /\ registry[dialog] \in States /\ active \in {dialog, None}
      /\ dock' \in [shown : BOOLEAN, panel : [Panel -> Value]] /\ dock'.shown = dock.shown
  BY DEF DialogReset, DialogExposure, DialogWhiteBalance, DialogSimple, DialogBitrate,
         DialogChange, ControlsInv, HostTypes, OwnInv
<1>2. \A f \in Field : DialogSets(f) \in States
  BY <1>1, Flipped DEF DialogSets
<1>3. {"manual", "shutter", "ev", "wbManual", "temp", "adaptive", "rate"} \subseteq Field
  BY DEF Field, Carried, Camera
<1>4. Seq(CommandsOf(Ops)) \subseteq Seq(CommandsOf(AllOps))
  <2>1. CommandsOf(Ops) \subseteq CommandsOf(AllOps)
    BY DEF CommandsOf, AllOps
  <2> QED BY <2>1, SeqMonotonic
<1>5. CASE DialogReset
  <2> DEFINE s == [f \in Field |-> IF f \in {"manual", "wbManual", "focus"} THEN 0
                                   ELSE registry[dialog][f]]
  <2>1. s \in States
    BY <1>1, Values DEF States
  <2>2. Plain("RESET_CAMERA_TO_AUTO") \in CommandsOf(AllOps)
    <3>1. "RESET_CAMERA_TO_AUTO" \in AllOps
      BY DEF AllOps, IosOps
    <3> QED BY <3>1, BuiltPlain
  <2>3. dialog \in IPhones /\ Change(dialog, s, <<Plain("RESET_CAMERA_TO_AUTO")>>)
    BY <1>5 DEF DialogReset, DialogChange
  <2> HIDE DEF s
  <2> QED BY <1>1, <2>1, <2>2, <2>3, SingleKeepsIt
<1>6. ASSUME NEW f \in {"manual", "shutter", "ev"}, DialogExposure(f) PROVE ControlsInv'
  <2>1. DialogSets(f) \in States
    BY <1>2, <1>3
  <2>2. dialog \in IPhones /\ Change(dialog, DialogSets(f), SetExposure(DialogSets(f)))
    BY <1>6 DEF DialogExposure, DialogChange
  <2> QED BY <1>1, <2>1, <2>2, Setters, ChangeKeepsIt, PhonesAssumption
<1>7. ASSUME NEW f \in {"wbManual", "temp"}, DialogWhiteBalance(f) PROVE ControlsInv'
  <2>1. DialogSets(f) \in States
    BY <1>2, <1>3
  <2>2. dialog \in IPhones /\ Change(dialog, DialogSets(f), SetWhiteBalance(DialogSets(f)))
    BY <1>7 DEF DialogWhiteBalance, DialogChange
  <2> QED BY <1>1, <2>1, <2>2, Setters, ChangeKeepsIt, PhonesAssumption
<1>8. ASSUME NEW r \in Simple \cup IosSimple, DialogSimple(r) PROVE ControlsInv'
  <2>1. /\ r.field \in Field
        /\ r \in Simple => r.op \in Ops
        /\ r \in IosSimple => r.op \in AllOps
        /\ {r.field} = Announces(r.op)
    BY DEF Simple, IosSimple, Row, Field, Carried, Camera, Ops, IosOps, AllOps, Announces
  <2>2. DialogSets(r.field) \in States
    BY <1>2, <2>1
  <2>3. /\ Change(dialog, DialogSets(r.field),
                  <<Cmd(r.op, DialogSets(r.field), {r.field})>>)
        /\ r \in IosSimple => dialog \in IPhones
    BY <1>8 DEF DialogSimple, DialogChange
  <2>4. CASE r \in Simple
    <3>1. Cmd(r.op, DialogSets(r.field), {r.field}) \in CommandsOf(Ops)
      BY <2>1, <2>2, <2>4, Built
    <3> QED BY <1>1, <2>2, <2>3, <3>1, SingleKeepsIt
  <2>5. CASE r \in IosSimple
    <3>1. Cmd(r.op, DialogSets(r.field), {r.field}) \in CommandsOf(AllOps)
      BY <2>1, <2>2, <2>5, Built
    <3> QED BY <1>1, <2>2, <2>3, <2>5, <3>1, SingleKeepsIt
  <2> QED BY <2>4, <2>5
<1>9. ASSUME NEW f \in {"adaptive", "rate"}, DialogBitrate(f) PROVE ControlsInv'
  <2>1. DialogSets(f) \in States
    BY <1>2, <1>3
  <2>2. Change(dialog, DialogSets(f), SetBitrate(DialogSets(f)))
    BY <1>9 DEF DialogBitrate, DialogChange
  <2>3. SetBitrate(DialogSets(f)) \in Seq(CommandsOf(Ops)) \cap Seq(CommandsOf(AllOps))
    BY <1>4, <2>1, Setters
  <2> QED BY <1>1, <2>1, <2>2, <2>3, ChangeKeepsIt
<1> QED BY <1>5, <1>6, <1>7, <1>8, <1>9

\* Selecting and restarting; the dock follows the platform of the phone.
LEMMA StartsKeepIt ==
  ASSUME ControlsInv, Restart \/ \E p \in Phones : Select(p)
  PROVE  ControlsInv'
<1>1. CASE Restart
  <2>1. active \in IPhones \cap Phones /\ registry[active] \in States
    BY <1>1, PhonesAssumption DEF Restart, ControlsInv, HostTypes
  <2>2. NetInv'
    BY <1>1, <2>1, Starts, Sent DEF Restart, ControlsInv, HostTypes
  <2> QED BY <1>1, <2>2 DEF Restart, ControlsInv, HostTypes, OwnInv
<1>2. ASSUME NEW p \in Phones, Select(p) PROVE ControlsInv'
  <2>1. PICK s \in States :
          /\ registry' = [registry EXCEPT ![p] = s]
          /\ net' = [net EXCEPT ![p] = @ \o StartOf(p, s)]
    <3> DEFINE t == [registry[p] EXCEPT !["res"] =
                       IF registry[p]["back"] = Front THEN 0 ELSE @]
    <3>1. "res" \in Field /\ registry[p] \in States
      BY DEF Field, Carried, ControlsInv, HostTypes
    <3>2. t \in States
      BY <3>1, Values DEF States
    <3> QED BY <1>2, <3>2 DEF Select
  <2>2. NetInv'
    BY <2>1, Starts, Queued DEF ControlsInv
  <2>3. /\ active' = p /\ dialog = None /\ dialog' = None
        /\ dock' = [dock EXCEPT !.shown = p \in IPhones] /\ torchButton' = TRUE
        /\ selects' = selects + 1 /\ UNCHANGED <<edits, faults>>
    BY <1>2 DEF Select
  <2>4. dock' \in [shown : BOOLEAN, panel : [Panel -> Value]] /\ (dock'.shown => p \in IPhones)
    <3>1. p \in IPhones => dock' = [dock EXCEPT !.shown = TRUE]
      BY <2>3
    <3>2. ASSUME p \notin IPhones PROVE dock' = [dock EXCEPT !.shown = FALSE]
      <4>1. (p \in IPhones) = FALSE
        BY <3>2
      <4> QED BY <2>3, <4>1, Zenon
    <3> QED BY <3>1, <3>2 DEF ControlsInv, HostTypes
  <2>5. HostTypes'
    BY <2>1, <2>3, <2>4 DEF ControlsInv, HostTypes
  <2>6. OwnInv' /\ faults' \in Nat
    BY <2>3, <2>4 DEF ControlsInv, OwnInv
  <2> QED BY <2>2, <2>5, <2>6 DEF ControlsInv
<1> QED BY <1>1, <1>2

\* What the phones do to their queues.
LEMMA PhonesKeepIt ==
  ASSUME ControlsInv, NEW p \in Phones, Disconnect(p) \/ Handle(p)
  PROVE  ControlsInv'
<1>1. CASE Disconnect(p)
  <2>1. dock' \in [shown : BOOLEAN, panel : [Panel -> Value]] /\ ~dock'.shown
    BY <1>1 DEF Disconnect, ControlsInv, HostTypes
  <2>2. HostTypes'
    BY <1>1, <2>1 DEF Disconnect, ControlsInv, HostTypes
  <2>3. NetInv'
    BY <1>1 DEF Disconnect, ControlsInv, NetInv
  <2>4. OwnInv' /\ faults' \in Nat
    BY <1>1, <2>1 DEF Disconnect, ControlsInv, OwnInv
  <2> QED BY <2>2, <2>3, <2>4 DEF ControlsInv
<1>2. CASE HandleAndroid(p)
  <2>1. NetInv'
    BY <1>2 DEF HandleAndroid, ControlsInv, NetInv
  <2> QED BY <1>2, <2>1 DEF HandleAndroid, ControlsInv, HostTypes, OwnInv
<1>3. CASE Handle(p) /\ ~HandleAndroid(p)
  <2>1. p \in IPhones /\ net[p] # <<>> /\ UNCHANGED host
    BY <1>3
    DEF Handle, HandleActivation, HandleReconfigure, HandleStored, HandleLive, HandleCamera,
        HandleFocusMode, HandleReset, Arrives
  <2>2. /\ faults' \in Nat
        /\ \/ net' = [net EXCEPT ![p] = Tail(@)]
           \/ \E k \in 0 .. Len(Tail(net[p])) :
                net' = [net EXCEPT ![p] = SubSeq(Tail(net[p]), k + 1, Len(Tail(net[p])))]
    <3>0. faults \in Nat
      BY DEF ControlsInv
    <3>1. ASSUME NEW conf, NEW lost, NEW rest, Apply(p, conf, lost, rest)
          PROVE  faults' \in Nat /\ net' = [net EXCEPT ![p] = rest]
      BY <3>0, <3>1 DEF Apply
    <3>2. CASE HandleActivation(p)
      <4> DEFINE rest == Tail(net[p])
                 conf == [f \in Carried \cup {"portrait"} |->
                            IF f = "portrait" THEN 0 ELSE Head(net[p]).arg[f]]
                 lost(k) == (unsure[p] \ Carried) \cup Fields(SubSeq(rest, 1, k))
      <4>1. PICK k \in 0 .. Len(rest) : Apply(p, conf, lost(k), SubSeq(rest, k + 1, Len(rest)))
        BY <3>2, Zenon DEF HandleActivation
      <4>2. faults' \in Nat /\ net' = [net EXCEPT ![p] = SubSeq(rest, k + 1, Len(rest))]
        BY <3>1, <4>1
      <4> QED BY <4>2
    <3>3. CASE HandleReconfigure(p)
      BY <3>1, <3>3 DEF HandleReconfigure
    <3>4. CASE \/ HandleStored(p) \/ HandleLive(p) \/ HandleCamera(p)
               \/ HandleFocusMode(p) \/ HandleReset(p)
      BY <3>0, <3>4
      DEF HandleStored, HandleLive, HandleCamera, HandleFocusMode, HandleReset, Done
    <3> QED BY <1>3, <3>2, <3>3, <3>4 DEF Handle
  <2>3. NetInv'
    BY <2>1, <2>2, Taken DEF ControlsInv
  <2> QED BY <2>1, <2>2, <2>3 DEF ControlsInv, HostTypes, OwnInv, host
<1> QED BY <1>1, <1>2, <1>3

LEMMA ControlsInvKept == ControlsInv /\ [Next]_vars => ControlsInv'
<1> SUFFICES ASSUME ControlsInv, [Next]_vars PROVE ControlsInv'
  OBVIOUS
<1>1. CASE \/ Restart \/ \E p \in Phones : Select(p)
  BY <1>1, StartsKeepIt
<1>2. CASE PressTorch \/ PressSwap \/ PressZoom
  BY <1>2, ButtonsKeepIt
<1>3. CASE \/ DockPortrait \/ DockReset
           \/ \E f \in {"manual", "shutter", "ev"} : DockExposure(f)
           \/ \E f \in {"wbManual", "temp"} : DockWhiteBalance(f)
  BY <1>3, DockActionsKeepIt
<1>4. CASE \/ DialogReset
           \/ \E f \in {"manual", "shutter", "ev"} : DialogExposure(f)
           \/ \E f \in {"wbManual", "temp"} : DialogWhiteBalance(f)
           \/ \E r \in Simple \cup IosSimple : DialogSimple(r)
           \/ \E f \in {"adaptive", "rate"} : DialogBitrate(f)
  BY <1>4, DialogKeepsIt
<1>5. CASE OpenDialog \/ CloseDialog
  <2>1. HostTypes' /\ OwnInv'
    BY <1>5 DEF OpenDialog, CloseDialog, MainWindow, ControlsInv, HostTypes, OwnInv
  <2> QED BY <1>5, <2>1 DEF OpenDialog, CloseDialog, ControlsInv, NetInv
<1>6. ASSUME NEW p \in Phones, Disconnect(p) \/ Handle(p) PROVE ControlsInv'
  BY <1>6, PhonesKeepIt
<1>7. CASE UNCHANGED vars
  BY <1>7 DEF vars, ControlsInv, HostTypes, NetInv, OwnInv
<1> QED
  BY <1>1, <1>2, <1>3, <1>4, <1>5, <1>6, <1>7 DEF Next, Gui

\* Commands of the iOS protocol only ever reach iPhones, and the dialog and the
\* dock only the phone they belong to, for any phones and any number of changes
\* (application.cpp:138-153, 347-353).
THEOREM OwnPhoneAlways == Spec => []OwnPhoneOnly
<1>1. Init => ControlsInv
  BY ControlsInvInitially
<1>2. ControlsInv /\ [Next]_vars => ControlsInv'
  BY ControlsInvKept
<1>3. ControlsInv => OwnPhoneOnly
  BY ControlsInvSuffices
<1> QED BY <1>1, <1>2, <1>3, PTL DEF Spec

(***************************************************************************)
(* What is on its way to a phone, and what that will put in force.  An     *)
(* aspect is a part of the stream or of the picture that the PC chooses: a *)
(* command may tell it, or undo it without telling a value.                *)
(***************************************************************************)
ConfigAspects == {"res", "fps", "h265", "stab", "portrait"}
CameraAspects == {"lens", "ev", "shutter", "temp", "focus"}
LiveAspects == {"torch", "stabMode", "rate"}
Aspects == ConfigAspects \cup CameraAspects \cup LiveAspects

Tells(c, a) == a \in DOMAIN c.arg \/ (a = "rate" /\ "adaptive" \in DOMAIN c.arg)
Told(c, a) ==
    IF a # "rate" THEN c.arg[a]
    ELSE IF c.op = "ADAPTIVE_BITRATE" THEN Adaptive
    ELSE IF c.op = "ACTIVATION" /\ c.arg["adaptive"] = 1 THEN Adaptive ELSE c.arg["rate"]
Undoes(c, a) ==
    \/ c.op = "ACTIVATION" /\ a \in Camera
    \/ c.op = "RESET_CAMERA_TO_AUTO" /\ a \in {"shutter", "temp", "focus"}
Touches(c, a) == Tells(c, a) \/ Undoes(c, a)

\* No command of q touches the aspect; the last one that does tells v.
Quiet(q, a) == \A j \in 1 .. Len(q) : ~Touches(q[j], a)
InformsAt(q, i, a, v) ==
    /\ Tells(q[i], a) /\ Told(q[i], a) = v
    /\ \A j \in i + 1 .. Len(q) : ~Touches(q[j], a)
Informs(q, a, v) == \E i \in 1 .. Len(q) : InformsAt(q, i, a, v)

LEMMA QuietBehind ==
  ASSUME NEW C, NEW x \in Seq(C), NEW y \in Seq(C), NEW a, Quiet(x, a), Quiet(y, a)
  PROVE  Quiet(x \o y, a)
<1> SUFFICES ASSUME NEW j \in 1 .. Len(x \o y) PROVE ~Touches((x \o y)[j], a)
  BY DEF Quiet
<1>1. Len(x) \in Nat /\ Len(y) \in Nat /\ Len(x \o y) = Len(x) + Len(y)
  BY ConcatProperties, LenProperties
<1>2. CASE j <= Len(x)
  <2>1. (x \o y)[j] = x[j] /\ j \in 1 .. Len(x)
    BY <1>1, <1>2, ConcatProperties
  <2> QED BY <2>1 DEF Quiet
<1>3. CASE j > Len(x)
  <2>1. (x \o y)[j] = y[j - Len(x)] /\ j - Len(x) \in 1 .. Len(y)
    BY <1>1, <1>3, ConcatProperties
  <2> QED BY <2>1 DEF Quiet
<1> QED BY <1>1, <1>2, <1>3

LEMMA InformsLater ==
  ASSUME NEW C, NEW x \in Seq(C), NEW y \in Seq(C), NEW a, NEW v, Informs(y, a, v)
  PROVE  Informs(x \o y, a, v)
<1>1. Len(x) \in Nat /\ Len(y) \in Nat /\ Len(x \o y) = Len(x) + Len(y)
  BY ConcatProperties, LenProperties
<1>2. PICK i \in 1 .. Len(y) : InformsAt(y, i, a, v)
  BY DEF Informs
<1>3. \A j \in 1 .. Len(y) : (x \o y)[Len(x) + j] = y[j]
  BY <1>1, ConcatProperties
<1>4. Len(x) + i \in 1 .. Len(x \o y)
  BY <1>1
<1>5. ASSUME NEW j \in Len(x) + i + 1 .. Len(x \o y) PROVE ~Touches((x \o y)[j], a)
  <2>1. j - Len(x) \in i + 1 .. Len(y) /\ j = Len(x) + (j - Len(x)) /\ j - Len(x) \in 1 .. Len(y)
    BY <1>1
  <2>2. (x \o y)[j] = y[j - Len(x)]
    BY <1>3, <2>1
  <2> QED BY <1>2, <2>1, <2>2 DEF InformsAt
<1>6. InformsAt(x \o y, Len(x) + i, a, v)
  BY <1>2, <1>3, <1>5 DEF InformsAt
<1> QED BY <1>4, <1>6 DEF Informs

LEMMA InformsBefore ==
  ASSUME NEW C, NEW x \in Seq(C), NEW y \in Seq(C), NEW a, NEW v,
         Informs(x, a, v), Quiet(y, a)
  PROVE  Informs(x \o y, a, v)
<1>1. Len(x) \in Nat /\ Len(y) \in Nat /\ Len(x \o y) = Len(x) + Len(y)
  BY ConcatProperties, LenProperties
<1>2. PICK i \in 1 .. Len(x) : InformsAt(x, i, a, v)
  BY DEF Informs
<1>3. i \in 1 .. Len(x \o y) /\ (x \o y)[i] = x[i]
  BY <1>1, ConcatProperties
<1>4. ASSUME NEW j \in i + 1 .. Len(x \o y) PROVE ~Touches((x \o y)[j], a)
  <2>1. CASE j <= Len(x)
    <3>1. (x \o y)[j] = x[j] /\ j \in i + 1 .. Len(x)
      BY <1>1, <2>1, ConcatProperties
    <3> QED BY <1>2, <3>1 DEF InformsAt
  <2>2. CASE j > Len(x)
    <3>1. (x \o y)[j] = y[j - Len(x)] /\ j - Len(x) \in 1 .. Len(y)
      BY <1>1, <2>2, ConcatProperties
    <3> QED BY <3>1 DEF Quiet
  <2> QED BY <1>1, <2>1, <2>2
<1>5. InformsAt(x \o y, i, a, v)
  BY <1>2, <1>3, <1>4 DEF InformsAt
<1> QED BY <1>3, <1>5 DEF Informs

\* One command.
LEMMA InformsAlone ==
  ASSUME NEW c, NEW a
  PROVE  /\ Tells(c, a) => Informs(<<c>>, a, Told(c, a))
         /\ ~Touches(c, a) => Quiet(<<c>>, a)
<1>1. Len(<<c>>) = 1 /\ <<c>>[1] = c
  OBVIOUS
<1>2. \A j \in 1 .. Len(<<c>>) : j = 1
  BY <1>1
<1>3. ~Touches(c, a) => Quiet(<<c>>, a)
  BY <1>1, <1>2 DEF Quiet
<1>4. 1 \in 1 .. Len(<<c>>) /\ \A j \in 1 + 1 .. Len(<<c>>) : FALSE
  BY <1>1
<1>5. Tells(c, a) => InformsAt(<<c>>, 1, a, Told(c, a))
  BY <1>1, <1>4 DEF InformsAt
<1> QED BY <1>3, <1>4, <1>5 DEF Informs

\* What is left when the first command, or the first k + 1, are taken away.
LEMMA InformsRest ==
  ASSUME NEW C, NEW q \in Seq(C), NEW a, NEW v, NEW n \in 1 .. Len(q)
  PROVE  /\ Quiet(q, a) => Quiet(SubSeq(q, n + 1, Len(q)), a)
         /\ Informs(q, a, v) =>
               \/ Informs(SubSeq(q, n + 1, Len(q)), a, v)
               \/ /\ Quiet(SubSeq(q, n + 1, Len(q)), a)
                  /\ \E i \in 1 .. n : InformsAt(q, i, a, v)
<1> DEFINE r == SubSeq(q, n + 1, Len(q))
<1>1. /\ Len(q) \in Nat /\ Len(r) = Len(q) - n /\ Len(r) \in Nat
      /\ \A j \in 1 .. Len(r) : r[j] = q[n + j] /\ n + j \in 1 .. Len(q)
  <2>1. Len(q) \in Nat
    BY LenProperties
  <2>2. n + 1 \in 1 .. Len(q) + 1 /\ Len(q) \in n + 1 - 1 .. Len(q)
    BY <2>1
  <2>3. Len(r) = Len(q) - n
    BY <2>1
  <2>4. \A j \in 1 .. Len(r) : r[j] = q[n + j]
    BY <2>1, <2>3
  <2> HIDE DEF r
  <2> QED BY <2>1, <2>3, <2>4
<1> HIDE DEF r
<1>2. Quiet(q, a) => Quiet(r, a)
  BY <1>1 DEF Quiet
<1>3. ASSUME NEW i \in 1 .. Len(q), InformsAt(q, i, a, v)
      PROVE  \/ Informs(r, a, v)
             \/ Quiet(r, a) /\ i \in 1 .. n
  <2>1. CASE i <= n
    <3>1. ASSUME NEW j \in 1 .. Len(r) PROVE ~Touches(r[j], a)
      <4>1. r[j] = q[n + j] /\ n + j \in i + 1 .. Len(q)
        BY <1>1, <2>1
      <4> QED BY <1>3, <4>1 DEF InformsAt
    <3> QED BY <2>1, <3>1 DEF Quiet
  <2>2. CASE i > n
    <3>1. i - n \in 1 .. Len(r) /\ r[i - n] = q[i]
      BY <1>1, <2>2
    <3>2. ASSUME NEW j \in (i - n) + 1 .. Len(r) PROVE ~Touches(r[j], a)
      <4>1. j \in 1 .. Len(r) /\ n + j \in i + 1 .. Len(q)
        BY <1>1, <2>2
      <4>2. r[j] = q[n + j]
        BY <1>1, <4>1
      <4> QED BY <1>3, <4>1, <4>2 DEF InformsAt
    <3>3. InformsAt(r, i - n, a, v)
      BY <1>3, <3>1, <3>2 DEF InformsAt
    <3> QED BY <3>1, <3>3 DEF Informs
  <2> QED BY <1>1, <2>1, <2>2
<1> QED BY <1>2, <1>3 DEF Informs, r

LEMMA TailIsRest ==
  ASSUME NEW C, NEW q \in Seq(C), q # <<>>
  PROVE  /\ Len(q) \in Nat /\ 1 \in 1 .. Len(q) /\ Head(q) = q[1] /\ Head(q) \in C
         /\ Tail(q) \in Seq(C) /\ Len(Tail(q)) = Len(q) - 1
         /\ Tail(q) = SubSeq(q, 1 + 1, Len(q))
         /\ \A k \in 0 .. Len(Tail(q)) :
              /\ SubSeq(Tail(q), k + 1, Len(Tail(q))) = SubSeq(q, (k + 1) + 1, Len(q))
              /\ SubSeq(Tail(q), 1, k) = SubSeq(q, 2, k + 1)
<1>1. /\ Len(q) \in Nat /\ 1 \in 1 .. Len(q) /\ Head(q) = q[1] /\ Head(q) \in C
      /\ Tail(q) \in Seq(C) /\ Len(Tail(q)) = Len(q) - 1
      /\ \A i \in 1 .. Len(Tail(q)) : Tail(q)[i] = q[i + 1]
  BY HeadTailProperties, EmptySeq, LenProperties, ElementOfSeq
<1>2. Tail(q) = SubSeq(q, 1 + 1, Len(q))
  OBVIOUS
<1>3. ASSUME NEW k \in 0 .. Len(Tail(q))
      PROVE  /\ SubSeq(Tail(q), k + 1, Len(Tail(q))) = SubSeq(q, (k + 1) + 1, Len(q))
             /\ SubSeq(Tail(q), 1, k) = SubSeq(q, 2, k + 1)
  <2>1. SubSeq(Tail(q), k + 1, Len(Tail(q)))
          = [i \in 1 .. Len(Tail(q)) - k |-> q[i + k + 1]]
    BY <1>1
  <2>2. SubSeq(q, (k + 1) + 1, Len(q)) = [i \in 1 .. Len(q) - 1 - k |-> q[i + k + 1]]
    BY <1>1
  <2>3. SubSeq(Tail(q), 1, k) = [i \in 1 .. k |-> q[i + 1]]
    BY <1>1
  <2>4. SubSeq(q, 2, k + 1) = [i \in 1 .. k |-> q[i + 1]]
    BY <1>1
  <2> QED BY <1>1, <2>1, <2>2, <2>3, <2>4
<1> QED BY <1>1, <1>2, <1>3

(***************************************************************************)
(* What a phone has in force, and how handling a command changes it.       *)
(***************************************************************************)
Confs == [Carried \cup {"portrait"} -> Value]
Lives == [torch : InForce, stabMode : InForce, rate : InForce]
Cameras == [DOMAIN Camera0 -> InForce]
PhoneStates == [conf : Confs, live : Lives, cam : [Value -> Cameras]]
PhoneInv ==
    /\ phone \in [Phones -> PhoneStates]
    /\ unsure \in [Phones -> SUBSET Field]

Doubt(lost, a) == a \in lost \/ (a = "rate" /\ "adaptive" \in lost)
Has(ph, a) ==
    IF a \in LiveAspects THEN ph.live[a]
    ELSE IF a \in ConfigAspects THEN ph.conf[a] ELSE ph.cam[ph.conf["back"]][a]
Agrees(ph, a, v) == (a = "torch" => ph.conf["back"] # Front) => Has(ph, a) = v

\* The aspect is what command c told, or what it was before a command that
\* does not touch it, unless it is in doubt.
HandledOne(ph, lost, c, ph2, lost2, a, v) ==
    \/ Tells(c, a) /\ Told(c, a) = v
    \/ ~Touches(c, a) /\ (Doubt(lost, a) \/ Agrees(ph, a, v))
    => Doubt(lost2, a) \/ Agrees(ph2, a, v)
Handled(ph, lost, c, ph2, lost2) ==
    \A a \in Aspects : \A v : HandledOne(ph, lost, c, ph2, lost2, a, v)

\* The camera in use after a command.
Turned(c, b) ==
    IF c.op = "ACTIVATION" THEN c.arg["back"] ELSE IF c.op = "CAMERA" THEN 1 - b ELSE b
Faces(ph, lost, c, ph2, lost2) ==
    "back" \notin lost2 =>
        /\ ph2.conf["back"] = Turned(c, ph.conf["back"])
        /\ c.op # "ACTIVATION" => "back" \notin lost

\* The phone p becomes ph and its settings of lost are in doubt.
Becomes(p, ph, lost) ==
    /\ ph \in PhoneStates /\ lost \in SUBSET Field
    /\ phone' = [phone EXCEPT ![p] = ph]
    /\ unsure' = [unsure EXCEPT ![p] = lost]
\* Phone p handled the command at the head of its queue, and no other.
HandledFirst(p) ==
    /\ net' = [net EXCEPT ![p] = Tail(@)]
    /\ \E ph \in PhoneStates, lost \in SUBSET Field :
         /\ Becomes(p, ph, lost)
         /\ Handled(phone[p], unsure[p], Head(net[p]), ph, lost)
         /\ Faces(phone[p], unsure[p], Head(net[p]), ph, lost)

LEMMA PhoneInvInitially == Init => PhoneInv
<1> SUFFICES ASSUME Init PROVE PhoneInv
  OBVIOUS
<1>1. Phone0.conf \in Confs
  BY DEF Phone0, Confs, Value
<1>2. Phone0.live \in Lives
  BY DEF Phone0, Lives, InForce, Off
<1>3. Camera0 \in Cameras
  <2>1. \A f \in DOMAIN Camera0 : Camera0[f] \in InForce
    BY DEF Camera0, InForce, Unforced
  <2>2. Camera0 = [f \in DOMAIN Camera0 |-> Camera0[f]]
    BY DEF Camera0
  <2> QED BY <2>1, <2>2 DEF Cameras
<1>4. Phone0.cam \in [Value -> Cameras]
  BY <1>3 DEF Phone0
<1>5. Phone0 \in PhoneStates
  <2>1. Phone0 = [conf |-> Phone0.conf, live |-> Phone0.live, cam |-> Phone0.cam]
    BY DEF Phone0
  <2> QED BY <1>1, <1>2, <1>4, <2>1 DEF PhoneStates
<1> QED BY <1>5 DEF Init, PhoneInv

LEMMA BecomesTyped ==
  ASSUME PhoneInv, NEW p \in Phones, NEW ph, NEW lost, Becomes(p, ph, lost)
  PROVE  PhoneInv'
BY DEF PhoneInv, Becomes

\* A command that is on its way to an iPhone, and the phone.
LEMMA Known ==
  ASSUME PhoneInv, NetInv, NEW p \in IPhones, net[p] # <<>>
  PROVE  /\ p \in Phones
         /\ Head(net[p]).op \in AllOps
         /\ DOMAIN Head(net[p]).arg = Announces(Head(net[p]).op)
         /\ \A f \in DOMAIN Head(net[p]).arg : f \in Field /\ Head(net[p]).arg[f] \in Value
         /\ phone[p] \in PhoneStates /\ unsure[p] \in SUBSET Field
         /\ phone[p].conf \in Confs /\ phone[p].live \in Lives
         /\ phone[p].cam \in [Value -> Cameras]
         /\ phone[p].conf["back"] \in Value
<1>1. p \in Phones /\ net[p] \in Seq(CommandsOf(AllOps))
  BY PhonesAssumption DEF NetInv
<1>2. PICK c \in CommandsOf(AllOps) : c = Head(net[p])
  BY <1>1, HeadTailProperties
<1>3. c.op \in AllOps /\ c.arg \in Args /\ DOMAIN c.arg = Announces(c.op)
  BY DEF CommandsOf
<1>4. \A f \in DOMAIN c.arg : f \in Field /\ c.arg[f] \in Value
  BY <1>3 DEF Args
<1>5. phone[p] \in PhoneStates /\ unsure[p] \in SUBSET Field
  BY <1>1 DEF PhoneInv
<1>6. /\ phone[p].conf \in Confs /\ phone[p].live \in Lives
      /\ phone[p].cam \in [Value -> Cameras]
  BY <1>5 DEF PhoneStates
<1>7. phone[p].conf["back"] \in Value
  BY <1>6 DEF Confs, Carried
<1> QED BY <1>1, <1>2, <1>3, <1>4, <1>5, <1>6, <1>7

LEMMA AspectKinds ==
  /\ Aspects = ConfigAspects \cup LiveAspects \cup DOMAIN Camera0
  /\ CameraAspects = DOMAIN Camera0
  /\ DOMAIN Camera0 \cap (ConfigAspects \cup LiveAspects) = {}
  /\ ConfigAspects \subseteq Carried \cup {"portrait"}
  /\ Aspects \subseteq Carried \cup Camera /\ Carried \cup Camera = Field
BY DEF Aspects, ConfigAspects, LiveAspects, CameraAspects, Camera0, Carried, Camera, Field

\* Two parts of a record changed at once, the second one inside.
LEMMA StoredUpdate ==
  ASSUME NEW ph \in PhoneStates, NEW conf, NEW r
  PROVE  [ph EXCEPT !.conf = conf, !.live.rate = r]
           = [conf |-> conf, live |-> [ph.live EXCEPT !.rate = r], cam |-> ph.cam]
<1>1. PICK ph1 : ph1 = [conf |-> conf, live |-> ph.live, cam |-> ph.cam]
  OBVIOUS
<1>2. [ph EXCEPT !.conf = conf] = ph1
  BY <1>1 DEF PhoneStates
<1>3. PICK live : live = [ph.live EXCEPT !.rate = r]
  OBVIOUS
<1>4. ph1.live = ph.live /\ [ph1 EXCEPT !.live = live] = [conf |-> conf, live |-> live, cam |-> ph.cam]
  BY <1>1
<1>5. [ph EXCEPT !.conf = conf, !.live.rate = r] = [ph1 EXCEPT !.live.rate = r]
  BY <1>2, Zenon
<1>6. [ph1 EXCEPT !.live.rate = r] = [ph1 EXCEPT !.live = live]
  BY <1>3, <1>4, Zenon
<1> QED BY <1>3, <1>4, <1>5, <1>6, Zenon

\* The handlers that restart nothing.
LEMMA StoredHandled ==
  ASSUME PhoneInv, NetInv, NEW p \in IPhones, HandleStored(p)
  PROVE  HandledFirst(p)
<1> DEFINE c == Head(net[p])
           ph == phone[p]
           lost == unsure[p]
           conf == [f \in DOMAIN ph.conf |-> IF f \in DOMAIN c.arg THEN c.arg[f] ELSE ph.conf[f]]
           rate == IF c.op = "PORTRAIT_MODE" THEN ph.live.rate ELSE Adaptive
           live == [ph.live EXCEPT !.rate = rate]
           ph2 == [conf |-> conf, live |-> live, cam |-> ph.cam]
           lost2 == lost \ DOMAIN c.arg
<1>1. /\ net[p] # <<>> /\ c.op \in {"PORTRAIT_MODE", "ADAPTIVE_BITRATE"}
      /\ net' = [net EXCEPT ![p] = Tail(@)]
      /\ unsure' = [unsure EXCEPT ![p] = lost2]
      /\ phone' = [phone EXCEPT ![p] = [ph EXCEPT !.conf = conf,
                     !.live.rate = IF c.op = "PORTRAIT_MODE" THEN @ ELSE Adaptive]]
  BY DEF HandleStored, Arrives, Done
<1>2. /\ p \in Phones /\ DOMAIN c.arg = Announces(c.op)
      /\ \A f \in DOMAIN c.arg : f \in Field /\ c.arg[f] \in Value
      /\ ph \in PhoneStates /\ lost \in SUBSET Field
      /\ ph.conf \in Confs /\ ph.live \in Lives /\ ph.cam \in [Value -> Cameras]
  BY <1>1, Known
<1>3. [ph EXCEPT !.conf = conf, !.live.rate = IF c.op = "PORTRAIT_MODE" THEN @ ELSE Adaptive] = ph2
  <2>1. [ph EXCEPT !.conf = conf, !.live.rate = rate] = ph2
    <3> HIDE DEF ph, conf, rate
    <3> QED BY <1>2, StoredUpdate
  <2> QED BY <2>1, Zenon
<1>4. conf \in Confs /\ live \in Lives
  BY <1>1, <1>2 DEF Confs, Lives, InForce, Adaptive
<1>5. ph2 \in PhoneStates /\ lost2 \in SUBSET Field
  BY <1>2, <1>4 DEF PhoneStates
<1>6. c.op = "PORTRAIT_MODE" => DOMAIN c.arg = {"portrait"}
  BY <1>2 DEF Announces
<1>7. c.op = "ADAPTIVE_BITRATE" => DOMAIN c.arg = {"adaptive"}
  BY <1>2 DEF Announces
<1> HIDE DEF c, ph, lost
<1>8. conf["back"] = ph.conf["back"]
  BY <1>1, <1>2, <1>6, <1>7 DEF Confs, Carried
<1>9. ASSUME NEW a \in Aspects, NEW v PROVE HandledOne(ph, lost, c, ph2, lost2, a, v)
  <2>1. CASE c.op = "PORTRAIT_MODE"
    BY <1>2, <1>6, <1>8, <2>1
    DEF HandledOne, Tells, Told, Touches, Undoes, Doubt, Agrees, Has, Confs, Lives, Carried,
        Aspects, ConfigAspects, LiveAspects, CameraAspects
  <2>2. CASE c.op = "ADAPTIVE_BITRATE"
    BY <1>2, <1>7, <1>8, <2>2
    DEF HandledOne, Tells, Told, Touches, Undoes, Doubt, Agrees, Has, Confs, Lives, Carried,
        Aspects, ConfigAspects, LiveAspects, CameraAspects
  <2> QED BY <1>1, <2>1, <2>2
<1>10. Faces(ph, lost, c, ph2, lost2)
  BY <1>1, <1>6, <1>7, <1>8 DEF Faces, Turned
<1>11. Handled(ph, lost, c, ph2, lost2)
  BY <1>9 DEF Handled
<1> HIDE DEF ph2, lost2
<1>12. Becomes(p, ph2, lost2)
  BY <1>1, <1>3, <1>5 DEF Becomes, ph
<1> QED BY <1>1, <1>5, <1>10, <1>11, <1>12 DEF HandledFirst, c, ph, lost

\* One part of a record inside another.
LEMMA LiveUpdate ==
  ASSUME NEW ph \in PhoneStates, NEW f, NEW r
  PROVE  [ph EXCEPT !.live[f] = r]
           = [conf |-> ph.conf, live |-> [ph.live EXCEPT ![f] = r], cam |-> ph.cam]
<1>1. PICK live : live = [ph.live EXCEPT ![f] = r]
  OBVIOUS
<1>2. [ph EXCEPT !.live = live] = [conf |-> ph.conf, live |-> live, cam |-> ph.cam]
  BY DEF PhoneStates
<1>3. [ph EXCEPT !.live[f] = r] = [ph EXCEPT !.live = live]
  BY <1>1, Zenon
<1> QED BY <1>1, <1>2, <1>3

LEMMA CamUpdate ==
  ASSUME NEW ph \in PhoneStates, NEW b, NEW r
  PROVE  [ph EXCEPT !.cam[b] = r]
           = [conf |-> ph.conf, live |-> ph.live, cam |-> [ph.cam EXCEPT ![b] = r]]
<1>1. PICK cam : cam = [ph.cam EXCEPT ![b] = r]
  OBVIOUS
<1>2. [ph EXCEPT !.cam = cam] = [conf |-> ph.conf, live |-> ph.live, cam |-> cam]
  BY DEF PhoneStates
<1>3. [ph EXCEPT !.cam[b] = r] = [ph EXCEPT !.cam = cam]
  BY <1>1, Zenon
<1> QED BY <1>1, <1>2, <1>3

LEMMA LiveHandled ==
  ASSUME PhoneInv, NetInv, NEW p \in IPhones, HandleLive(p)
  PROVE  HandledFirst(p)
<1> DEFINE c == Head(net[p])
           ph == phone[p]
           lost == unsure[p]
           f == CASE c.op = "FLASH" -> "torch" [] c.op = "BITRATE" -> "rate"
                  [] OTHER -> "stabMode"
           hasTorch == ph.conf["back"] # Front
           live == [ph.live EXCEPT ![f] = c.arg[f]]
           ph2 == IF c.op = "FLASH" /\ ~hasTorch THEN ph
                  ELSE [conf |-> ph.conf, live |-> live, cam |-> ph.cam]
           doubtful == IF \/ c.op = "BITRATE" /\ ph.conf["adaptive"] = 1
                          \/ c.op = "FLASH" /\ ~hasTorch
                       THEN {f} ELSE {}
           lost2 == (lost \ DOMAIN c.arg) \cup doubtful
<1>1. /\ net[p] # <<>> /\ c.op \in {"FLASH", "BITRATE", "STABILIZATION_MODE"}
      /\ net' = [net EXCEPT ![p] = Tail(@)]
      /\ unsure' = [unsure EXCEPT ![p] = lost2]
      /\ phone' = [phone EXCEPT ![p] = IF c.op = "FLASH" /\ ~hasTorch THEN ph
                                       ELSE [ph EXCEPT !.live[f] = c.arg[f]]]
  BY DEF HandleLive, Arrives, Done
<1>2. /\ p \in Phones /\ DOMAIN c.arg = Announces(c.op)
      /\ \A g \in DOMAIN c.arg : g \in Field /\ c.arg[g] \in Value
      /\ ph \in PhoneStates /\ lost \in SUBSET Field
      /\ ph.conf \in Confs /\ ph.live \in Lives /\ ph.cam \in [Value -> Cameras]
  BY <1>1, Known
<1>3. DOMAIN c.arg = {f} /\ f \in LiveAspects /\ f \in Field
  BY <1>1, <1>2 DEF Announces, LiveAspects, Field, Carried, Camera
<1>4. c.arg[f] \in InForce
  BY <1>2, <1>3 DEF InForce, Value
<1>5. live \in Lives
  <2> HIDE DEF f
  <2> QED BY <1>2, <1>3, <1>4 DEF Lives, LiveAspects
<1>6. [ph EXCEPT !.live[f] = c.arg[f]] = [conf |-> ph.conf, live |-> live, cam |-> ph.cam]
  <2> HIDE DEF ph, c, f
  <2> QED BY <1>2, LiveUpdate
<1> HIDE DEF c, ph, lost, live
<1>7. ph2 \in PhoneStates /\ lost2 \in SUBSET Field
  BY <1>2, <1>3, <1>5 DEF PhoneStates
<1>8. ph2.conf = ph.conf /\ ph2.cam = ph.cam
  OBVIOUS
<1>9. ASSUME NEW a \in Aspects, NEW v PROVE HandledOne(ph, lost, c, ph2, lost2, a, v)
  <2>1. c.op \notin {"ACTIVATION", "RESET_CAMERA_TO_AUTO", "ADAPTIVE_BITRATE"}
    BY <1>1
  <2>2. CASE a = f
    <3>1. "adaptive" \notin DOMAIN c.arg /\ a \in DOMAIN c.arg
      BY <1>3, <2>2 DEF LiveAspects
    <3>2. Told(c, a) = c.arg[f]
      BY <2>1, <2>2 DEF Told
    <3>3. CASE doubtful = {f}
      BY <2>2, <3>3 DEF HandledOne, Doubt
    <3>4. CASE doubtful = {}
      <4>1. ph2.live[f] = c.arg[f]
        BY <1>2, <1>3, <3>4 DEF live, Lives, LiveAspects
      <4> QED BY <1>3, <2>2, <3>1, <3>2, <4>1 DEF HandledOne, Touches, Tells, Agrees, Has
    <3> QED BY <3>3, <3>4
  <2>3. CASE a # f
    <3>1. ph2.live[a] = ph.live[a] \/ a \notin LiveAspects
      <4>1. live[a] = ph.live[a] \/ a \notin LiveAspects
        BY <1>2, <2>3 DEF live, Lives, LiveAspects
      <4> QED BY <4>1
    <3>2. Has(ph2, a) = Has(ph, a)
      BY <1>8, <3>1 DEF Has
    <3>3. ~Tells(c, a)
      BY <1>3, <2>3 DEF Tells, LiveAspects
    <3>4. Doubt(lost, a) => Doubt(lost2, a)
      BY <1>3, <2>3 DEF Doubt, LiveAspects
    <3> QED BY <1>8, <3>2, <3>3, <3>4 DEF HandledOne, Agrees
  <2> QED BY <2>2, <2>3
<1>10. Faces(ph, lost, c, ph2, lost2)
  BY <1>1, <1>3, <1>8 DEF Faces, Turned, LiveAspects
<1>11. Handled(ph, lost, c, ph2, lost2)
  BY <1>9 DEF Handled
<1>12. phone' = [phone EXCEPT ![p] = ph2]
  BY <1>1, <1>6, Zenon
<1> HIDE DEF ph2, lost2
<1>13. Becomes(p, ph2, lost2)
  BY <1>1, <1>7, <1>12 DEF Becomes
<1> QED BY <1>1, <1>7, <1>10, <1>11, <1>13 DEF HandledFirst, c, ph, lost

LEMMA CameraHandled ==
  ASSUME PhoneInv, NetInv, NEW p \in IPhones, HandleCamera(p)
  PROVE  HandledFirst(p)
<1> DEFINE c == Head(net[p])
           ph == phone[p]
           lost == unsure[p]
           b == ph.conf["back"]
           of == [f \in DOMAIN Camera0 |-> IF f \in DOMAIN c.arg THEN c.arg[f] ELSE ph.cam[b][f]]
           ph2 == [conf |-> ph.conf, live |-> ph.live, cam |-> [ph.cam EXCEPT ![b] = of]]
           lost2 == lost \ DOMAIN c.arg
<1>1. /\ net[p] # <<>>
      /\ c.op \in {"LENS_ZOOM", "ZOOM", "EXPOSURE", "EXPOSURE_COMPENSATION",
                   "WHITE_BALANCE", "FOCUS_LOCK"}
      /\ net' = [net EXCEPT ![p] = Tail(@)]
      /\ unsure' = [unsure EXCEPT ![p] = (lost \ DOMAIN c.arg) \cup {}]
      /\ phone' = [phone EXCEPT ![p] = [ph EXCEPT !.cam[b] =
                     [f \in DOMAIN Camera0 |-> IF f \in DOMAIN c.arg THEN c.arg[f] ELSE @[f]]]]
  BY Zenon DEF HandleCamera, Arrives, Done
<1>2. /\ p \in Phones /\ DOMAIN c.arg = Announces(c.op)
      /\ \A g \in DOMAIN c.arg : g \in Field /\ c.arg[g] \in Value
      /\ ph \in PhoneStates /\ lost \in SUBSET Field /\ b \in Value
      /\ ph.conf \in Confs /\ ph.live \in Lives /\ ph.cam \in [Value -> Cameras]
  BY <1>1, Known
<1>3. DOMAIN c.arg \subseteq CameraAspects /\ "adaptive" \notin DOMAIN c.arg
  BY <1>1, <1>2 DEF Announces, CameraAspects
<1>4. phone' = [phone EXCEPT ![p] = ph2]
  <2>1. phone' = [phone EXCEPT ![p] = [ph EXCEPT !.cam[b] = of]]
    BY <1>1, Zenon
  <2>2. [ph EXCEPT !.cam[b] = of] = ph2
    <3> HIDE DEF ph, b, of
    <3> QED BY <1>2, CamUpdate
  <2> QED BY <2>1, <2>2, Zenon
<1>5. unsure' = [unsure EXCEPT ![p] = lost2] /\ lost2 \in SUBSET Field
  BY <1>1, <1>2
<1> HIDE DEF c, ph, lost
<1>6. of \in Cameras
  <2>1. \A f \in DOMAIN c.arg : c.arg[f] \in InForce
    BY <1>2 DEF Value, InForce
  <2>2. ph.cam[b] \in Cameras
    BY <1>2
  <2> QED BY <2>1, <2>2 DEF Cameras
<1>7. \A f \in DOMAIN Camera0 : of[f] = IF f \in DOMAIN c.arg THEN c.arg[f] ELSE ph.cam[b][f]
  OBVIOUS
<1> HIDE DEF of
<1>8. ph2 \in PhoneStates
  BY <1>2, <1>6 DEF PhoneStates
<1>9. ph2.conf = ph.conf /\ ph2.live = ph.live /\ ph2.cam[b] = of
  BY <1>2
<1> HIDE DEF ph2
<1>10. ASSUME NEW a \in Aspects, NEW v PROVE HandledOne(ph, lost, c, ph2, lost2, a, v)
  <2>1. c.op \notin {"ACTIVATION", "RESET_CAMERA_TO_AUTO", "ADAPTIVE_BITRATE"}
    BY <1>1
  <2>2. CASE a \in DOMAIN c.arg
    <3>1. /\ a \in DOMAIN Camera0 /\ a \notin LiveAspects /\ a \notin ConfigAspects /\ a # "rate"
      BY <1>3, <2>2, AspectKinds DEF LiveAspects
    <3>2. Told(c, a) = c.arg[a]
      BY <3>1 DEF Told
    <3>3. Has(ph2, a) = c.arg[a]
      BY <1>7, <1>9, <2>2, <3>1 DEF Has
    <3> QED BY <2>2, <3>2, <3>3 DEF HandledOne, Touches, Tells, Agrees
  <2>3. CASE a \notin DOMAIN c.arg
    <3>1. Has(ph2, a) = Has(ph, a)
      BY <1>7, <1>9, <2>3, AspectKinds DEF Has
    <3>2. ~Tells(c, a) /\ (Doubt(lost, a) => Doubt(lost2, a))
      BY <1>3, <2>3 DEF Tells, Doubt
    <3> QED BY <1>9, <3>1, <3>2 DEF HandledOne, Agrees
  <2> QED BY <2>2, <2>3
<1>11. Faces(ph, lost, c, ph2, lost2)
  BY <1>1, <1>3, <1>9 DEF Faces, Turned, CameraAspects
<1>12. Handled(ph, lost, c, ph2, lost2)
  BY <1>10 DEF Handled
<1> HIDE DEF lost2
<1>13. Becomes(p, ph2, lost2)
  BY <1>4, <1>5, <1>8 DEF Becomes
<1> QED BY <1>1, <1>5, <1>8, <1>11, <1>12, <1>13 DEF HandledFirst, c, ph, lost

LEMMA CamUpdated ==
  ASSUME NEW ph \in PhoneStates, NEW of \in Cameras,
         NEW ph2, ph2 = [ph EXCEPT !.cam[ph.conf["back"]] = of]
  PROVE  /\ ph2 \in PhoneStates /\ ph2.conf = ph.conf /\ ph2.live = ph.live
         /\ ph2.cam[ph.conf["back"]] = of
<1> DEFINE b == ph.conf["back"]
<1>1. /\ ph.conf \in Confs /\ ph.live \in Lives /\ ph.cam \in [Value -> Cameras] /\ b \in Value
  BY DEF PhoneStates, Confs, Carried
<1>2. ph2 = [conf |-> ph.conf, live |-> ph.live, cam |-> [ph.cam EXCEPT ![b] = of]]
  BY CamUpdate, Zenon
<1>3. ph2 \in PhoneStates
  BY <1>1, <1>2 DEF PhoneStates
<1> QED BY <1>1, <1>2, <1>3

\* The camera in use changed to of by a command that tells nothing of it.
CameraStep(ph, lost, c, of, doubtful, ph2, lost2) ==
    /\ c.op \in {"FOCUS", "RESET_CAMERA_TO_AUTO"}
    /\ DOMAIN c.arg \cap (Aspects \cup {"back", "adaptive"}) = {}
    /\ \A a \in CameraAspects : \/ Touches(c, a) \/ a \in doubtful
                                \/ of[a] = ph.cam[ph.conf["back"]][a]
    /\ doubtful \subseteq CameraAspects
    /\ lost \subseteq Field /\ lost2 = (lost \ DOMAIN c.arg) \cup doubtful
    /\ ph2.conf = ph.conf /\ ph2.live = ph.live /\ ph2.cam[ph.conf["back"]] = of

LEMMA CameraChanged ==
  ASSUME NEW ph, NEW lost, NEW c, NEW of, NEW doubtful, NEW ph2, NEW lost2,
         CameraStep(ph, lost, c, of, doubtful, ph2, lost2)
  PROVE  /\ lost2 \in SUBSET Field
         /\ Handled(ph, lost, c, ph2, lost2) /\ Faces(ph, lost, c, ph2, lost2)
<1> USE DEF CameraStep
<1>4. ph2.conf = ph.conf /\ ph2.live = ph.live /\ ph2.cam[ph.conf["back"]] = of
  OBVIOUS
<1>5. lost2 \in SUBSET Field
  BY AspectKinds DEF Aspects
<1>6. ASSUME NEW a \in Aspects, NEW v PROVE HandledOne(ph, lost, c, ph2, lost2, a, v)
  <2>1. ~Tells(c, a) /\ (Doubt(lost, a) => Doubt(lost2, a))
    BY DEF Tells, Doubt, Aspects
  <2>2. CASE a \in CameraAspects
    <3>1. Touches(c, a) \/ a \in doubtful \/ Has(ph2, a) = Has(ph, a)
      BY <1>4, <2>2, AspectKinds DEF Has
    <3> QED BY <1>4, <2>1, <3>1 DEF HandledOne, Agrees, Doubt
  <2>3. CASE a \notin CameraAspects
    <3>1. Has(ph2, a) = Has(ph, a)
      BY <1>4, <2>3, AspectKinds DEF Has
    <3> QED BY <1>4, <2>1, <3>1 DEF HandledOne, Agrees
  <2> QED BY <2>2, <2>3
<1>7. Handled(ph, lost, c, ph2, lost2)
  BY <1>6 DEF Handled
<1>8. Faces(ph, lost, c, ph2, lost2)
  BY <1>4 DEF Faces, Turned, CameraAspects
<1> QED BY <1>5, <1>7, <1>8

LEMMA FocusModeHandled ==
  ASSUME PhoneInv, NetInv, NEW p \in IPhones, HandleFocusMode(p)
  PROVE  HandledFirst(p)
<1> DEFINE c == Head(net[p])
           ph == phone[p]
           b == ph.conf["back"]
           of == [ph.cam[b] EXCEPT !.focus = 0]
           lost2 == (unsure[p] \ DOMAIN c.arg) \cup {"focus"}
<1>1. /\ net[p] # <<>> /\ c.op = "FOCUS"
      /\ net' = [net EXCEPT ![p] = Tail(@)]
      /\ unsure' = [unsure EXCEPT ![p] = lost2]
      /\ phone' = [phone EXCEPT ![p] = [ph EXCEPT !.cam[b].focus = 0]]
  BY DEF HandleFocusMode, Arrives, Done
<1>2. /\ p \in Phones /\ DOMAIN c.arg = Announces(c.op) /\ b \in Value
      /\ ph \in PhoneStates /\ unsure[p] \in SUBSET Field /\ ph.cam \in [Value -> Cameras]
  BY <1>1, Known
<1>3. DOMAIN c.arg = {"focusMode"}
  BY <1>1, <1>2 DEF Announces
<1>4. PICK ph2 : ph2 = [ph EXCEPT !.cam[b] = of]
  OBVIOUS
<1>5. phone' = [phone EXCEPT ![p] = ph2]
  BY <1>1, <1>4, Zenon
<1>6. ph.cam[b] \in Cameras
  BY <1>2
<1>7. of \in Cameras /\ \A a \in CameraAspects \ {"focus"} : of[a] = ph.cam[b][a]
  BY <1>6, AspectKinds DEF Cameras, CameraAspects, InForce
<1>8. /\ ph2 \in PhoneStates /\ lost2 \in SUBSET Field
      /\ Handled(ph, unsure[p], c, ph2, lost2) /\ Faces(ph, unsure[p], c, ph2, lost2)
  <2>1. /\ c.op \in {"FOCUS", "RESET_CAMERA_TO_AUTO"}
        /\ DOMAIN c.arg \cap (Aspects \cup {"back", "adaptive"}) = {}
        /\ {"focus"} \in SUBSET CameraAspects
    BY <1>1, <1>3 DEF Aspects, ConfigAspects, CameraAspects, LiveAspects
  <2>2. PICK doubtful \in SUBSET CameraAspects : doubtful = {"focus"}
    BY <2>1
  <2>3. \A a \in CameraAspects : Touches(c, a) \/ a \in doubtful \/ of[a] = ph.cam[b][a]
    BY <1>7, <2>2
  <2>4. lost2 = (unsure[p] \ DOMAIN c.arg) \cup doubtful
    BY <2>2
  <2>5. /\ ph2 \in PhoneStates /\ ph2.conf = ph.conf /\ ph2.live = ph.live
        /\ ph2.cam[ph.conf["back"]] = of
    BY <1>2, <1>4, <1>7, CamUpdated
  <2> HIDE DEF c, ph, of, lost2
  <2>6. CameraStep(ph, unsure[p], c, of, doubtful, ph2, lost2)
    BY <1>2, <2>1, <2>3, <2>4, <2>5 DEF CameraStep
  <2> QED BY <2>5, <2>6, CameraChanged
<1> HIDE DEF lost2
<1>9. Becomes(p, ph2, lost2)
  BY <1>1, <1>5, <1>8 DEF Becomes
<1> QED BY <1>1, <1>8, <1>9 DEF HandledFirst

LEMMA ResetHandled ==
  ASSUME PhoneInv, NetInv, NEW p \in IPhones, HandleReset(p)
  PROVE  HandledFirst(p)
<1> DEFINE c == Head(net[p])
           ph == phone[p]
           b == ph.conf["back"]
           of == [ph.cam[b] EXCEPT !.shutter = Unforced, !.temp = Unforced, !.ev = 0, !.focus = 0]
           lost2 == (unsure[p] \ DOMAIN c.arg) \cup {"ev"}
<1>1. /\ net[p] # <<>> /\ c.op = "RESET_CAMERA_TO_AUTO"
      /\ net' = [net EXCEPT ![p] = Tail(@)]
      /\ unsure' = [unsure EXCEPT ![p] = lost2]
      /\ phone' = [phone EXCEPT ![p] = [ph EXCEPT !.cam[b] =
           [@ EXCEPT !.shutter = Unforced, !.temp = Unforced, !.ev = 0, !.focus = 0]]]
  BY Zenon DEF HandleReset, Arrives, Done
<1>2. /\ p \in Phones /\ DOMAIN c.arg = Announces(c.op) /\ b \in Value
      /\ ph \in PhoneStates /\ unsure[p] \in SUBSET Field /\ ph.cam \in [Value -> Cameras]
  BY <1>1, Known
<1>3. DOMAIN c.arg = {}
  BY <1>1, <1>2 DEF Announces
<1>4. PICK ph2 : ph2 = [ph EXCEPT !.cam[b] = of]
  OBVIOUS
<1>5. phone' = [phone EXCEPT ![p] = ph2]
  BY <1>1, <1>4, Zenon
<1>6. ph.cam[b] \in Cameras
  BY <1>2
<1>7. of \in Cameras /\ of["lens"] = ph.cam[b]["lens"]
  <2>1. PICK cam \in Cameras : cam = ph.cam[b]
    BY <1>6
  <2>2. PICK x : x = [cam EXCEPT !.shutter = Unforced]
    OBVIOUS
  <2>3. PICK y : y = [x EXCEPT !.temp = Unforced]
    OBVIOUS
  <2>4. PICK z : z = [y EXCEPT !.ev = 0]
    OBVIOUS
  <2>a. ASSUME NEW u \in Cameras, NEW f \in CameraAspects \ {"lens"}, NEW v \in InForce
        PROVE  [u EXCEPT ![f] = v] \in Cameras /\ [u EXCEPT ![f] = v]["lens"] = u["lens"]
    BY AspectKinds DEF Cameras, CameraAspects
  <2>b. /\ {"shutter", "temp", "ev", "focus"} \subseteq CameraAspects \ {"lens"}
        /\ 0 \in InForce /\ Unforced \in InForce
    BY DEF CameraAspects, InForce, Unforced
  <2>5. /\ x \in Cameras /\ x["lens"] = cam["lens"]
        /\ y \in Cameras /\ y["lens"] = x["lens"]
        /\ z \in Cameras /\ z["lens"] = y["lens"]
        /\ [z EXCEPT !.focus = 0] \in Cameras /\ [z EXCEPT !.focus = 0]["lens"] = z["lens"]
    <3>1. x = [cam EXCEPT !["shutter"] = Unforced]
      BY <2>2
    <3>2. y = [x EXCEPT !["temp"] = Unforced]
      BY <2>3
    <3>3. z = [y EXCEPT !["ev"] = 0]
      BY <2>4
    <3>4. x \in Cameras /\ x["lens"] = cam["lens"]
      BY <2>a, <2>b, <3>1, Zenon
    <3>5. y \in Cameras /\ y["lens"] = x["lens"]
      BY <2>a, <2>b, <3>2, <3>4, Zenon
    <3>6. z \in Cameras /\ z["lens"] = y["lens"]
      BY <2>a, <2>b, <3>3, <3>5, Zenon
    <3>7. [z EXCEPT !["focus"] = 0] \in Cameras /\ [z EXCEPT !["focus"] = 0]["lens"] = z["lens"]
      BY <2>a, <2>b, <3>6, Zenon
    <3> QED BY <3>4, <3>5, <3>6, <3>7
  <2>6. of = [z EXCEPT !.focus = 0]
    BY <2>1, <2>2, <2>3, <2>4, Zenon
  <2> QED BY <2>1, <2>5, <2>6
<1>8. /\ ph2 \in PhoneStates /\ lost2 \in SUBSET Field
      /\ Handled(ph, unsure[p], c, ph2, lost2) /\ Faces(ph, unsure[p], c, ph2, lost2)
  <2>1. /\ c.op \in {"FOCUS", "RESET_CAMERA_TO_AUTO"}
        /\ DOMAIN c.arg \cap (Aspects \cup {"back", "adaptive"}) = {}
        /\ {"ev"} \in SUBSET CameraAspects
    BY <1>1, <1>3 DEF CameraAspects
  <2>2. PICK doubtful \in SUBSET CameraAspects : doubtful = {"ev"}
    BY <2>1
  <2>3. \A a \in CameraAspects : Touches(c, a) \/ a \in doubtful \/ of[a] = ph.cam[b][a]
    BY <1>1, <1>7, <2>2 DEF Touches, Undoes, CameraAspects
  <2>4. lost2 = (unsure[p] \ DOMAIN c.arg) \cup doubtful
    BY <2>2
  <2>5. /\ ph2 \in PhoneStates /\ ph2.conf = ph.conf /\ ph2.live = ph.live
        /\ ph2.cam[ph.conf["back"]] = of
    BY <1>2, <1>4, <1>7, CamUpdated
  <2> HIDE DEF c, ph, of, lost2
  <2>6. CameraStep(ph, unsure[p], c, of, doubtful, ph2, lost2)
    BY <1>2, <2>1, <2>3, <2>4, <2>5 DEF CameraStep
  <2> QED BY <2>5, <2>6, CameraChanged
<1> HIDE DEF lost2
<1>9. Becomes(p, ph2, lost2)
  BY <1>1, <1>5, <1>8 DEF Becomes
<1> QED BY <1>1, <1>8, <1>9 DEF HandledFirst

\* Applying a configuration.
ConfLive(p, conf, live) == [phone EXCEPT ![p].conf = conf, ![p].live = live]

LEMMA ConfLiveUpdate ==
  ASSUME PhoneInv, NEW p \in Phones, NEW conf, NEW live, NEW ph2,
         ph2 = [conf |-> conf, live |-> live, cam |-> phone[p].cam]
  PROVE  ConfLive(p, conf, live) = [phone EXCEPT ![p] = ph2]
<1>1. PICK ph : ph = phone[p]
  OBVIOUS
<1>2. PICK ph1 : ph1 = [conf |-> conf, live |-> ph.live, cam |-> ph.cam]
  OBVIOUS
<1>3. ph \in PhoneStates
  BY <1>1 DEF PhoneInv
<1>4. [ph EXCEPT !.conf = conf] = ph1
  BY <1>2, <1>3 DEF PhoneStates
<1>5. PICK f : f = [phone EXCEPT ![p] = ph1]
  OBVIOUS
<1>6. f[p] = ph1 /\ [f EXCEPT ![p] = ph2] = [phone EXCEPT ![p] = ph2]
  BY <1>5 DEF PhoneInv
<1>7. [ph1 EXCEPT !.live = live] = ph2
  BY <1>1, <1>2
<1>8. [phone EXCEPT ![p].conf = conf] = f
  BY <1>1, <1>4, <1>5, Zenon
<1>9. [f EXCEPT ![p].live = live] = [f EXCEPT ![p] = ph2]
  BY <1>6, <1>7, Zenon
<1>10. ConfLive(p, conf, live) = [f EXCEPT ![p].live = live]
  BY <1>8, Zenon DEF ConfLive
<1> QED BY <1>6, <1>9, <1>10

\* ph is phone p with the configuration applied; a refusal leaves more in doubt.
InForceIn(p, conf, lost, ph, doubts) ==
    /\ Becomes(p, ph, doubts)
    /\ ph.conf = conf /\ ph.cam = phone[p].cam
    /\ lost \subseteq doubts /\ ("back" \in doubts => "back" \in lost)
    /\ "torch" \notin doubts => ph.live.torch = LiveOf(conf, phone[p].live).torch
    /\ "rate" \notin doubts => ph.live.rate = LiveOf(conf, phone[p].live).rate

LEMMA Applied ==
  ASSUME PhoneInv, NEW p \in Phones, NEW conf \in Confs, NEW lost \in SUBSET Field, NEW rest,
         Apply(p, conf, lost, rest)
  PROVE  /\ net' = [net EXCEPT ![p] = rest]
         /\ \E ph \in PhoneStates, doubts \in SUBSET Field :
              InForceIn(p, conf, lost, ph, doubts)
<1> DEFINE new == LiveOf(conf, phone[p].live)
           LiveAfter(outcome) ==
             [torch    |-> IF outcome = "encoder" THEN phone[p].live.torch ELSE new.torch,
              rate     |-> IF outcome = "encoder" THEN phone[p].live.rate ELSE new.rate,
              stabMode |-> IF outcome = "camera" THEN phone[p].live.stabMode ELSE new.stabMode]
           More(outcome) == IF outcome = "accepted" THEN {}
                            ELSE ({"torch", "rate"} \cup Camera) \ {"portrait"}
<1>1. PICK outcome \in {"accepted", "camera", "encoder"} :
        /\ phone' = [phone EXCEPT ![p].conf = conf, ![p].live = LiveAfter(outcome)]
        /\ unsure' = [unsure EXCEPT ![p] = lost \cup More(outcome)]
        /\ net' = [net EXCEPT ![p] = rest]
  BY Zenon DEF Apply
<1>2. PICK live : live = LiveAfter(outcome)
  OBVIOUS
<1>3. PICK ph : ph = [conf |-> conf, live |-> live, cam |-> phone[p].cam]
  OBVIOUS
<1>4. PICK doubts : doubts = lost \cup More(outcome)
  OBVIOUS
<1>5. phone[p] \in PhoneStates
  BY DEF PhoneInv
<1>6. phone[p].live \in Lives /\ phone[p].cam \in [Value -> Cameras]
  BY <1>5 DEF PhoneStates
<1>7. new \in Lives
  <2>1. {"back", "torch", "stab", "adaptive", "rate"} \subseteq Carried
    BY DEF Carried
  <2>2. \A f \in Carried : conf[f] \in InForce
    BY DEF Confs, Value, InForce
  <2> QED BY <1>6, <2>1, <2>2 DEF LiveOf, Lives, InForce, Off, Adaptive
<1>8. live \in Lives
  <2> HIDE DEF new
  <2> QED BY <1>2, <1>6, <1>7 DEF Lives
<1>9. ph \in PhoneStates
  BY <1>3, <1>6, <1>8 DEF PhoneStates
<1>10. doubts \in SUBSET Field
  BY <1>4 DEF Field, Carried, Camera
<1>11. phone' = [phone EXCEPT ![p] = ph]
  <2>1. ConfLive(p, conf, live) = [phone EXCEPT ![p] = ph]
    BY <1>3, ConfLiveUpdate
  <2> QED BY <1>1, <1>2, <2>1, Zenon DEF ConfLive
<1>12. Becomes(p, ph, doubts)
  BY <1>1, <1>4, <1>9, <1>10, <1>11 DEF Becomes
<1>13. lost \subseteq doubts /\ ("back" \in doubts => "back" \in lost)
  BY <1>4 DEF Camera
<1>14. /\ "torch" \notin doubts => live.torch = new.torch
       /\ "rate" \notin doubts => live.rate = new.rate
  <2> HIDE DEF new
  <2> QED BY <1>2, <1>4
<1>15. ph.conf = conf /\ ph.cam = phone[p].cam /\ ph.live = live
  BY <1>3
<1>16. InForceIn(p, conf, lost, ph, doubts)
  BY <1>12, <1>13, <1>14, <1>15 DEF InForceIn
<1> QED BY <1>1, <1>9, <1>10, <1>16

LEMMA ReconfigureHandled ==
  ASSUME PhoneInv, NetInv, NEW p \in IPhones, HandleReconfigure(p)
  PROVE  HandledFirst(p)
<1> DEFINE c == Head(net[p])
           was == phone[p]
           lost == unsure[p]
           conf == IF c.op = "CAMERA" THEN Flip(was.conf, "back")
                   ELSE [f \in DOMAIN was.conf |->
                           IF f \in DOMAIN c.arg THEN c.arg[f] ELSE was.conf[f]]
           moved == IF c.op = "CAMERA" THEN {"lens", "shutter", "ev", "temp", "focus"} ELSE {}
           lost1 == (lost \ DOMAIN c.arg) \cup {"torch", "rate", "stabMode"} \cup moved
<1>1. /\ net[p] # <<>> /\ c.op \in {"RESOLUTION", "FPS", "CODEC", "STABILIZATION", "CAMERA"}
      /\ Apply(p, conf, lost1, Tail(net[p]))
  BY Zenon DEF HandleReconfigure, Arrives
<1>2. /\ p \in Phones /\ DOMAIN c.arg = Announces(c.op)
      /\ \A f \in DOMAIN c.arg : f \in Field /\ c.arg[f] \in Value
      /\ lost \in SUBSET Field /\ was.conf \in Confs /\ was.conf["back"] \in Value
  BY <1>1, Known
<1>3. DOMAIN c.arg \subseteq ConfigAspects /\ (c.op = "CAMERA" => DOMAIN c.arg = {})
  BY <1>1, <1>2 DEF Announces, ConfigAspects
<1> HIDE DEF c, was, lost
<1>4. conf \in Confs
  <2>1. "back" \in Carried
    BY DEF Carried
  <2> QED BY <1>2, <2>1, Values DEF Confs, Flip
<1>5. conf["back"] = Turned(c, was.conf["back"])
  <2>1. "back" \in Carried /\ "back" \notin ConfigAspects
    BY DEF Carried, ConfigAspects
  <2> QED BY <1>1, <1>2, <1>3, <2>1 DEF Confs, Flip, Turned
<1>6. \A a \in ConfigAspects : conf[a] = IF a \in DOMAIN c.arg THEN c.arg[a] ELSE was.conf[a]
  <2>1. "back" \notin ConfigAspects
    BY DEF ConfigAspects
  <2> QED BY <1>2, <1>3, <2>1, AspectKinds DEF Confs, Flip
<1> HIDE DEF conf
<1>7. lost1 \in SUBSET Field
  BY <1>2 DEF Field, Carried, Camera
<1> HIDE DEF lost1
<1>a. PICK ph \in PhoneStates, doubts \in SUBSET Field : InForceIn(p, conf, lost1, ph, doubts)
  BY <1>1, <1>2, <1>4, <1>7, Applied
<1>8. /\ Becomes(p, ph, doubts)
      /\ ph.conf = conf /\ ph.cam = was.cam
      /\ lost1 \subseteq doubts /\ ("back" \in doubts => "back" \in lost1)
      /\ net' = [net EXCEPT ![p] = Tail(net[p])]
  <2>1. net' = [net EXCEPT ![p] = Tail(net[p])]
    BY <1>1, <1>2, <1>4, <1>7, Applied
  <2> QED BY <1>a, <2>1 DEF was, InForceIn
<1> USE DEF lost1
<1>9. ASSUME NEW a \in Aspects, NEW v PROVE HandledOne(was, lost, c, ph, doubts, a, v)
  <2>1. CASE a \in LiveAspects
    <3>1. a \in lost1
      BY <2>1 DEF LiveAspects
    <3> QED BY <1>8, <3>1 DEF HandledOne, Doubt
  <2>2. CASE a \in ConfigAspects
    <3>1. /\ a \notin LiveAspects /\ a # "rate" /\ a # "torch"
          /\ c.op \notin {"ACTIVATION", "RESET_CAMERA_TO_AUTO"}
      BY <1>1, <2>2 DEF ConfigAspects, LiveAspects
    <3>2. Has(ph, a) = conf[a] /\ Has(was, a) = was.conf[a]
      BY <1>8, <2>2, <3>1 DEF Has
    <3>3. Tells(c, a) => Told(c, a) = c.arg[a]
      BY <3>1 DEF Told
    <3>4. Tells(c, a) <=> a \in DOMAIN c.arg
      BY <3>1 DEF Tells
    <3>5. a \in lost /\ a \notin DOMAIN c.arg => a \in doubts
      BY <1>8
    <3> QED BY <1>6, <2>2, <3>1, <3>2, <3>3, <3>4, <3>5
            DEF HandledOne, Touches, Doubt, Agrees
  <2>3. CASE a \in CameraAspects
    <3>1. a \notin LiveAspects /\ a \notin ConfigAspects /\ a # "rate" /\ a # "torch"
      BY <2>3, AspectKinds DEF LiveAspects
    <3>2. CASE c.op = "CAMERA"
      <4>1. a \in lost1
        BY <2>3, <3>2 DEF CameraAspects
      <4> QED BY <1>8, <4>1 DEF HandledOne, Doubt
    <3>3. CASE c.op # "CAMERA"
      <4>1. Has(ph, a) = Has(was, a)
        BY <1>1, <1>5, <1>8, <3>1, <3>3 DEF Has, Turned
      <4>2. ~Tells(c, a) /\ (a \in lost => a \in doubts)
        BY <1>3, <1>8, <3>1 DEF Tells
      <4> QED BY <3>1, <4>1, <4>2 DEF HandledOne, Doubt, Agrees
    <3> QED BY <3>2, <3>3
  <2> QED BY <2>1, <2>2, <2>3 DEF Aspects
<1>10. Handled(was, lost, c, ph, doubts)
  BY <1>9 DEF Handled
<1>11. Faces(was, lost, c, ph, doubts)
  <2>1. "back" \in lost => "back" \in lost1
    BY <1>3 DEF ConfigAspects
  <2> QED BY <1>1, <1>5, <1>8, <2>1 DEF Faces
<1> QED BY <1>8, <1>10, <1>11 DEF HandledFirst, c, was, lost

\* An ACTIVATION that came with the k commands behind it.
HandledTogether(p, k) ==
    LET rest == Tail(net[p])
        taken == SubSeq(rest, 1, k)
    IN /\ Head(net[p]).op = "ACTIVATION"
       /\ net' = [net EXCEPT ![p] = SubSeq(rest, k + 1, Len(rest))]
       /\ \E ph \in PhoneStates, lost \in SUBSET Field :
            /\ Becomes(p, ph, lost)
            /\ Handled(phone[p], unsure[p], Head(net[p]), ph, lost)
            /\ Faces(phone[p], unsure[p], Head(net[p]), ph, lost)
            /\ Fields(taken) \subseteq lost

LEMMA FieldsOf ==
  ASSUME NEW C, NEW q \in Seq(C),
         \A c \in C : DOMAIN c.arg \subseteq Field
  PROVE  Fields(q) \in SUBSET Field
<1>1. \A i \in 1 .. Len(q) : q[i] \in C
  BY ElementOfSeq
<1>2. "back" \in Field
  BY DEF Field, Carried
<1>3. \A i \in 1 .. Len(q) : DOMAIN q[i].arg \subseteq Field
  BY <1>1
<1>4. PICK A : A = UNION {DOMAIN q[i].arg : i \in 1 .. Len(q)}
  OBVIOUS
<1>5. PICK B : B = {f \in {"back"} : \E i \in 1 .. Len(q) : q[i].op = "CAMERA"}
  OBVIOUS
<1>6. A \subseteq Field /\ B \subseteq Field
  BY <1>2, <1>3, <1>4, <1>5
<1>7. Fields(q) = A \cup B
  BY <1>4, <1>5 DEF Fields
<1> QED BY <1>6, <1>7

LEMMA ActivationHandled ==
  ASSUME PhoneInv, NetInv, NEW p \in IPhones, HandleActivation(p)
  PROVE  \E k \in 0 .. Len(Tail(net[p])) : HandledTogether(p, k)
<1> DEFINE c == Head(net[p])
           was == phone[p]
           lost == unsure[p]
           rest == Tail(net[p])
           conf == [f \in Carried \cup {"portrait"} |-> IF f = "portrait" THEN 0 ELSE c.arg[f]]
           left(k) == SubSeq(rest, k + 1, Len(rest))
           lost1(k) == (lost \ Carried) \cup Fields(SubSeq(rest, 1, k))
<1>1. PICK k \in 0 .. Len(rest) : Apply(p, conf, lost1(k), left(k))
  BY Zenon DEF HandleActivation
<1>2. net[p] # <<>> /\ c.op = "ACTIVATION"
  BY DEF HandleActivation, Arrives
<1>3. /\ p \in Phones /\ DOMAIN c.arg = Announces(c.op)
      /\ \A f \in DOMAIN c.arg : f \in Field /\ c.arg[f] \in Value
      /\ lost \in SUBSET Field
  BY <1>2, Known
<1>4. DOMAIN c.arg = Carried
  BY <1>2, <1>3 DEF Announces
<1>5. conf \in Confs
  <2> HIDE DEF c
  <2> QED BY <1>3, <1>4, Values DEF Confs
<1>6. /\ conf["back"] = c.arg["back"] /\ conf["portrait"] = 0
      /\ \A f \in Carried : conf[f] = c.arg[f]
  BY DEF Carried
<1>7. lost1(k) \in SUBSET Field
  <2>1. rest \in Seq(CommandsOf(AllOps))
    <3>1. net[p] \in Seq(CommandsOf(AllOps))
      BY <1>3 DEF NetInv
    <3> QED BY <1>2, <3>1, HeadTailProperties
  <2>2. SubSeq(rest, 1, k) \in Seq(CommandsOf(AllOps))
    BY <2>1, SubSeqProperties, ElementOfSeq
  <2>3. \A d \in CommandsOf(AllOps) : DOMAIN d.arg \subseteq Field
    BY DEF CommandsOf, Args
  <2>4. Fields(SubSeq(rest, 1, k)) \in SUBSET Field
    BY <2>2, <2>3, FieldsOf
  <2> HIDE DEF rest
  <2> QED BY <1>3, <2>4
<1> HIDE DEF c, was, lost, conf, rest, left, lost1
<1>8. PICK ph \in PhoneStates, doubts \in SUBSET Field : InForceIn(p, conf, lost1(k), ph, doubts)
  BY <1>1, <1>3, <1>5, <1>7, Applied
<1>9. net' = [net EXCEPT ![p] = left(k)]
  BY <1>1, <1>3, <1>5, <1>7, Applied
<1>10. /\ Becomes(p, ph, doubts) /\ ph.conf = conf
       /\ "torch" \notin doubts => ph.live.torch = LiveOf(conf, was.live).torch
       /\ "rate" \notin doubts => ph.live.rate = LiveOf(conf, was.live).rate
       /\ lost1(k) \subseteq doubts
  BY <1>8 DEF InForceIn, was
<1>11. ASSUME NEW a \in Aspects, NEW v PROVE HandledOne(was, lost, c, ph, doubts, a, v)
  <2>1. Touches(c, a) /\ (Tells(c, a) <=> a \in Carried)
    BY <1>2, <1>4, AspectKinds DEF Touches, Tells, Undoes, Carried
  <2>2. CASE a \in {"res", "fps", "h265", "stab"}
    <3>1. a \in ConfigAspects /\ a \notin LiveAspects /\ a # "rate" /\ a # "torch" /\ a \in Carried
      BY <2>2 DEF ConfigAspects, LiveAspects, Carried
    <3>2. Has(ph, a) = c.arg[a]
      BY <1>6, <1>10, <3>1 DEF Has
    <3> QED BY <2>1, <3>1, <3>2 DEF HandledOne, Told, Agrees
  <2>3. CASE a = "torch"
    <3>1. conf["back"] # Front => LiveOf(conf, was.live).torch = c.arg["torch"]
      BY <1>6 DEF LiveOf, Carried
    <3>2. Has(ph, a) = ph.live.torch
      BY <2>3 DEF Has, LiveAspects
    <3> QED BY <1>10, <2>1, <2>3, <3>1, <3>2 DEF HandledOne, Told, Agrees, Doubt
  <2>4. CASE a = "rate"
    <3>1. LiveOf(conf, was.live).rate = IF c.arg["adaptive"] = 1 THEN Adaptive ELSE c.arg["rate"]
      BY <1>6 DEF LiveOf, Carried
    <3>2. Has(ph, a) = ph.live.rate
      BY <2>4 DEF Has, LiveAspects
    <3> QED BY <1>2, <1>10, <2>1, <2>4, <3>1, <3>2 DEF HandledOne, Told, Agrees, Doubt
  <2>5. CASE a \notin Carried
    BY <2>1, <2>5 DEF HandledOne
  <2>6. a \in {"res", "fps", "h265", "stab", "torch", "rate"} \/ a \notin Carried
    BY DEF Aspects, ConfigAspects, CameraAspects, LiveAspects, Carried
  <2> QED BY <2>2, <2>3, <2>4, <2>5, <2>6
<1>12. Handled(was, lost, c, ph, doubts)
  BY <1>11 DEF Handled
<1>13. Faces(was, lost, c, ph, doubts)
  BY <1>2, <1>6, <1>10 DEF Faces, Turned
<1>14. Fields(SubSeq(rest, 1, k)) \subseteq doubts
  BY <1>10 DEF lost1
<1>15. HandledTogether(p, k)
  BY <1>2, <1>8, <1>9, <1>10, <1>12, <1>13, <1>14 DEF HandledTogether, c, was, lost, rest, left
<1> QED BY <1>15 DEF rest

\* Whatever an iPhone handles.
LEMMA EverythingHandled ==
  ASSUME PhoneInv, NetInv, NEW p \in Phones, Handle(p), ~HandleAndroid(p)
  PROVE  /\ p \in IPhones /\ net[p] # <<>> /\ UNCHANGED host
         /\ HandledFirst(p) \/ \E k \in 0 .. Len(Tail(net[p])) : HandledTogether(p, k)
<1>1. p \in IPhones /\ net[p] # <<>> /\ UNCHANGED host
  BY DEF Handle, HandleActivation, HandleReconfigure, HandleStored, HandleLive, HandleCamera,
         HandleFocusMode, HandleReset, Arrives
<1> QED BY <1>1, StoredHandled, LiveHandled, CameraHandled, FocusModeHandled, ResetHandled,
           ReconfigureHandled, ActivationHandled DEF Handle

(***************************************************************************)
(* What the PC sends: parts of the picture announced from a state s.       *)
(***************************************************************************)
Wanted(s, a) == IF a = "rate" /\ s["adaptive"] = 1 THEN Adaptive ELSE s[a]
\* The aspects the PC has chosen a value for; the rest is automatic.
Claimed(s, a) ==
    /\ a = "shutter" => s["manual"] = 1
    /\ a = "temp" => s["wbManual"] = 1
    /\ a = "focus" => s["focus"] = 1

Turning == {"ACTIVATION", "CAMERA"}
\* q announces the aspects of D as s has them and touches no others.
Part(q, s, D) ==
    /\ q \in Seq(CommandsOf(AllOps))
    /\ \A a \in Aspects : /\ a \in D /\ Claimed(s, a) => Informs(q, a, Wanted(s, a))
                          /\ a \notin D => Quiet(q, a)
    /\ \A i \in 1 .. Len(q) : q[i].op \notin Turning

LEMMA PartsJoin ==
  ASSUME NEW s, NEW x, NEW y, NEW D, NEW E, Part(x, s, D), Part(y, s, E)
  PROVE  Part(x \o y, s, D \cup E)
<1>1. /\ x \in Seq(CommandsOf(AllOps)) /\ y \in Seq(CommandsOf(AllOps))
      /\ x \o y \in Seq(CommandsOf(AllOps))
  BY ConcatProperties DEF Part
<1>2. ASSUME NEW a \in Aspects, a \in D \cup E, Claimed(s, a)
      PROVE  Informs(x \o y, a, Wanted(s, a))
  <2>1. CASE a \in E
    <3>1. Informs(y, a, Wanted(s, a))
      BY <1>2, <2>1 DEF Part
    <3> QED BY <1>1, <3>1, InformsLater
  <2>2. CASE a \notin E
    <3>1. Informs(x, a, Wanted(s, a)) /\ Quiet(y, a)
      BY <1>2, <2>2 DEF Part
    <3> QED BY <1>1, <3>1, InformsBefore
  <2> QED BY <2>1, <2>2
<1>3. ASSUME NEW a \in Aspects, a \notin D \cup E PROVE Quiet(x \o y, a)
  <2>1. Quiet(x, a) /\ Quiet(y, a)
    BY <1>3 DEF Part
  <2> QED BY <1>1, <2>1, QuietBehind
<1>4. ASSUME NEW i \in 1 .. Len(x \o y) PROVE (x \o y)[i].op \notin Turning
  <2>1. Len(x) \in Nat /\ Len(y) \in Nat /\ Len(x \o y) = Len(x) + Len(y)
    BY <1>1, ConcatProperties, LenProperties
  <2>2. CASE i <= Len(x)
    <3>1. (x \o y)[i] = x[i] /\ i \in 1 .. Len(x)
      BY <1>1, <2>1, <2>2, ConcatProperties
    <3> QED BY <3>1 DEF Part
  <2>3. CASE i > Len(x)
    <3>1. (x \o y)[i] = y[i - Len(x)] /\ i - Len(x) \in 1 .. Len(y)
      BY <1>1, <2>1, <2>3, ConcatProperties
    <3> QED BY <3>1 DEF Part
  <2> QED BY <2>1, <2>2, <2>3
<1> QED BY <1>1, <1>2, <1>3, <1>4 DEF Part

LEMMA NoPart == ASSUME NEW s PROVE Part(<<>>, s, {})
<1>1. <<>> \in Seq(CommandsOf(AllOps)) /\ Len(<<>>) = 0
  OBVIOUS
<1> QED BY <1>1 DEF Part, Quiet

\* Nothing is announced of an aspect the PC has not chosen.
LEMMA PartUnclaimed ==
  ASSUME NEW s, NEW q, NEW D, NEW g, Part(q, s, D), ~Claimed(s, g)
  PROVE  Part(q, s, D \cup {g})
BY DEF Part

LEMMA OnePart ==
  ASSUME NEW s \in States, NEW g \in Field, NEW op \in AllOps, Announces(op) = {g},
         op \notin {"ACTIVATION", "CAMERA", "RESET_CAMERA_TO_AUTO"},
         g = "rate" => s["adaptive"] # 1,
         NEW a0, a0 = IF g = "adaptive" THEN "rate" ELSE g,
         g = "adaptive" => s["adaptive"] = 1 /\ op = "ADAPTIVE_BITRATE"
  PROVE  Part(<<Cmd(op, s, {g})>>, s, {a0})
<1>1. PICK c \in CommandsOf(AllOps) : c = Cmd(op, s, {g})
  <2>1. {g} \in SUBSET Field
    OBVIOUS
  <2> QED BY <2>1, Built
<1>2. c.op = op /\ DOMAIN c.arg = {g} /\ c.arg[g] = s[g]
  BY <1>1 DEF Cmd
<1>3. \A a \in Aspects : Tells(c, a) <=> a = a0
  BY <1>2 DEF Tells, Aspects, ConfigAspects, CameraAspects, LiveAspects
<1>4. \A a \in Aspects : ~Undoes(c, a)
  BY <1>2 DEF Undoes
<1>5. a0 \in Aspects => Told(c, a0) = Wanted(s, a0)
  BY <1>2 DEF Told, Wanted, Announces
<1>6. <<c>> \in Seq(CommandsOf(AllOps)) /\ Len(<<c>>) = 1 /\ <<c>>[1] = c
  BY <1>1
<1>7. \A a \in Aspects : /\ a = a0 => Informs(<<c>>, a, Wanted(s, a))
                         /\ a # a0 => Quiet(<<c>>, a)
  BY <1>3, <1>4, <1>5, InformsAlone DEF Touches
<1>8. \A i \in 1 .. Len(<<c>>) : <<c>>[i].op \notin Turning
  BY <1>2, <1>6 DEF Turning
<1>9. Part(<<c>>, s, {a0})
  BY <1>6, <1>7, <1>8 DEF Part
<1> QED BY <1>1, <1>9

LEMMA SetterParts ==
  ASSUME NEW s \in States
  PROVE  /\ Part(SetExposure(s), s, {"shutter", "ev"})
         /\ Part(SetWhiteBalance(s), s, {"temp"})
         /\ Part(SetPortraitMode(s), s, {"portrait"})
         /\ Part(SetBitrate(s), s, {"rate"})
         /\ Part(Reapply(s), s, CameraAspects \cup {"portrait", "stabMode"})
<1>1. /\ Announces("LENS_ZOOM") = {"lens"} /\ Announces("EXPOSURE") = {"shutter"}
      /\ Announces("EXPOSURE_COMPENSATION") = {"ev"} /\ Announces("WHITE_BALANCE") = {"temp"}
      /\ Announces("STABILIZATION_MODE") = {"stabMode"} /\ Announces("FOCUS_LOCK") = {"focus"}
      /\ Announces("PORTRAIT_MODE") = {"portrait"} /\ Announces("BITRATE") = {"rate"}
      /\ Announces("ADAPTIVE_BITRATE") = {"adaptive"}
  BY DEF Announces
<1>2. {"lens", "shutter", "ev", "temp", "stabMode", "focus", "portrait", "adaptive", "rate"}
        \subseteq Field
  BY DEF Field, Carried, Camera
<1>3. {"LENS_ZOOM", "EXPOSURE", "EXPOSURE_COMPENSATION", "WHITE_BALANCE", "BITRATE",
       "ADAPTIVE_BITRATE", "STABILIZATION_MODE", "FOCUS_LOCK", "PORTRAIT_MODE"} \subseteq AllOps
  BY DEF AllOps, IosOps, Ops
<1>4. ASSUME NEW g \in Field \ {"rate", "adaptive"}, NEW op \in AllOps, Announces(op) = {g},
             op \notin {"ACTIVATION", "CAMERA", "RESET_CAMERA_TO_AUTO"}
      PROVE  Part(<<Cmd(op, s, {g})>>, s, {g})
  <2>1. g = (IF g = "adaptive" THEN "rate" ELSE g)
    OBVIOUS
  <2> QED BY <1>4, <2>1, OnePart
<1>5. /\ Part(<<Cmd("LENS_ZOOM", s, {"lens"})>>, s, {"lens"})
      /\ Part(<<Cmd("EXPOSURE", s, {"shutter"})>>, s, {"shutter"})
      /\ Part(<<Cmd("EXPOSURE_COMPENSATION", s, {"ev"})>>, s, {"ev"})
      /\ Part(<<Cmd("WHITE_BALANCE", s, {"temp"})>>, s, {"temp"})
      /\ Part(<<Cmd("STABILIZATION_MODE", s, {"stabMode"})>>, s, {"stabMode"})
      /\ Part(<<Cmd("FOCUS_LOCK", s, {"focus"})>>, s, {"focus"})
      /\ Part(<<Cmd("PORTRAIT_MODE", s, {"portrait"})>>, s, {"portrait"})
  BY <1>1, <1>2, <1>3, <1>4
<1>6. \A g : Part(<<>>, s, {}) /\ {} \cup {g} = {g}
  BY NoPart
<1>7. Part(IF s["manual"] = 1 THEN <<Cmd("EXPOSURE", s, {"shutter"})>> ELSE <<>>, s, {"shutter"})
  <2>1. s["manual"] # 1 => ~Claimed(s, "shutter")
    BY DEF Claimed
  <2>2. s["manual"] # 1 => Part(<<>>, s, {"shutter"})
    BY <1>6, <2>1, PartUnclaimed
  <2> QED BY <1>5, <2>2
<1>8. Part(SetExposure(s), s, {"shutter", "ev"})
  <2>1. {"shutter"} \cup {"ev"} = {"shutter", "ev"}
    OBVIOUS
  <2>2. Part(SetExposure(s), s, {"shutter"} \cup {"ev"})
    BY <1>5, <1>7, PartsJoin, Zenon DEF SetExposure
  <2> QED BY <2>1, <2>2
<1>9. Part(SetWhiteBalance(s), s, {"temp"})
  <2>1. s["wbManual"] # 1 => ~Claimed(s, "temp")
    BY DEF Claimed
  <2>2. s["wbManual"] # 1 => Part(<<>>, s, {"temp"})
    BY <1>6, <2>1, PartUnclaimed
  <2> QED BY <1>5, <2>2 DEF SetWhiteBalance
<1>10. Part(SetPortraitMode(s), s, {"portrait"})
  BY <1>5 DEF SetPortraitMode
<1>11. Part(SetBitrate(s), s, {"rate"})
  <2>1. "rate" = (IF "adaptive" = "adaptive" THEN "rate" ELSE "adaptive")
        /\ "rate" = (IF "rate" = "adaptive" THEN "rate" ELSE "rate")
    OBVIOUS
  <2>2. CASE s["adaptive"] = 1
    <3>1. Part(<<Cmd("ADAPTIVE_BITRATE", s, {"adaptive"})>>, s, {"rate"})
      BY <1>1, <1>2, <1>3, <2>1, <2>2, OnePart
    <3> QED BY <2>2, <3>1 DEF SetBitrate
  <2>3. CASE s["adaptive"] # 1
    <3>1. Part(<<Cmd("BITRATE", s, {"rate"})>>, s, {"rate"})
      BY <1>1, <1>2, <1>3, <2>1, <2>3, OnePart
    <3> QED BY <2>3, <3>1 DEF SetBitrate
  <2> QED BY <2>2, <2>3
<1>12. Part(IF s["focus"] = 1 THEN <<Cmd("FOCUS_LOCK", s, {"focus"})>> ELSE <<>>, s, {"focus"})
  <2>1. s["focus"] # 1 => ~Claimed(s, "focus")
    BY DEF Claimed
  <2>2. s["focus"] # 1 => Part(<<>>, s, {"focus"})
    BY <1>6, <2>1, PartUnclaimed
  <2> QED BY <1>5, <2>2
<1>13. Part(Reapply(s), s, CameraAspects \cup {"portrait", "stabMode"})
  <2>1. Part(Reapply(s), s, ((((({"lens"} \cup {"shutter", "ev"}) \cup {"temp"})
                                 \cup {"stabMode"}) \cup {"focus"}) \cup {"portrait"}))
    BY <1>5, <1>8, <1>9, <1>10, <1>12, PartsJoin, Zenon DEF Reapply
  <2>2. ((((({"lens"} \cup {"shutter", "ev"}) \cup {"temp"})
                                 \cup {"stabMode"}) \cup {"focus"}) \cup {"portrait"})
          = CameraAspects \cup {"portrait", "stabMode"}
    BY DEF CameraAspects
  <2> QED BY <2>1, <2>2
<1> QED BY <1>8, <1>9, <1>10, <1>11, <1>13

(***************************************************************************)
(* The camera a phone faces after each command on its way.                 *)
(***************************************************************************)
Course(q, h) ==
    /\ h \in [0 .. Len(q) -> Value]
    /\ \A i \in 1 .. Len(q) : h[i] = Turned(q[i], h[i - 1])
LeadsTo(q, b, e) == \E h : Course(q, h) /\ h[0] = b /\ h[Len(q)] = e

LEMMA CoursesJoin ==
  ASSUME NEW C, NEW x \in Seq(C), NEW y \in Seq(C), NEW b, NEW e, NEW d,
         LeadsTo(x, b, e), LeadsTo(y, e, d)
  PROVE  LeadsTo(x \o y, b, d)
<1>1. PICK h : Course(x, h) /\ h[0] = b /\ h[Len(x)] = e
  BY DEF LeadsTo
<1>2. PICK g : Course(y, g) /\ g[0] = e /\ g[Len(y)] = d
  BY DEF LeadsTo
<1>3. Len(x) \in Nat /\ Len(y) \in Nat /\ Len(x \o y) = Len(x) + Len(y)
  BY ConcatProperties, LenProperties
<1> DEFINE k == [i \in 0 .. Len(x \o y) |-> IF i <= Len(x) THEN h[i] ELSE g[i - Len(x)]]
<1>4. k \in [0 .. Len(x \o y) -> Value]
  BY <1>1, <1>2, <1>3 DEF Course
<1>5. ASSUME NEW i \in 1 .. Len(x \o y) PROVE k[i] = Turned((x \o y)[i], k[i - 1])
  <2>1. CASE i <= Len(x)
    <3>1. (x \o y)[i] = x[i] /\ i \in 1 .. Len(x)
      BY <1>3, <2>1, ConcatProperties
    <3>2. k[i] = h[i] /\ k[i - 1] = h[i - 1]
      BY <1>3, <2>1, <3>1
    <3> QED BY <1>1, <3>1, <3>2 DEF Course
  <2>2. CASE i > Len(x)
    <3>1. (x \o y)[i] = y[i - Len(x)] /\ i - Len(x) \in 1 .. Len(y)
      BY <1>3, <2>2, ConcatProperties
    <3>2. k[i] = g[i - Len(x)] /\ k[i - 1] = g[(i - Len(x)) - 1]
      <4>1. CASE i - 1 > Len(x)
        <5>1. (i - 1) - Len(x) = (i - Len(x)) - 1
          BY <1>3
        <5> QED BY <1>3, <2>2, <4>1, <5>1
      <4>2. CASE i - 1 = Len(x)
        <5>1. (i - Len(x)) - 1 = 0 /\ k[i - 1] = h[Len(x)]
          BY <1>3, <4>2
        <5> QED BY <1>1, <1>2, <1>3, <2>2, <5>1
      <4> QED BY <1>3, <2>2, <4>1, <4>2
    <3> QED BY <1>2, <3>1, <3>2 DEF Course
  <2> QED BY <1>3, <2>1, <2>2
<1>6. k[0] = b /\ k[Len(x \o y)] = d
  BY <1>1, <1>2, <1>3
<1> HIDE DEF k
<1>7. Course(x \o y, k)
  BY <1>4, <1>5 DEF Course
<1> QED BY <1>6, <1>7 DEF LeadsTo

LEMMA CourseRest ==
  ASSUME NEW C, NEW q \in Seq(C), NEW h, Course(q, h), NEW n \in 1 .. Len(q)
  PROVE  LeadsTo(SubSeq(q, n + 1, Len(q)), h[n], h[Len(q)])
<1> DEFINE r == SubSeq(q, n + 1, Len(q))
<1>1. /\ Len(q) \in Nat /\ Len(r) = Len(q) - n
      /\ \A j \in 1 .. Len(r) : r[j] = q[n + j]
  <2>1. Len(q) \in Nat
    BY LenProperties
  <2>2. Len(r) = Len(q) - n
    BY <2>1
  <2> QED BY <2>1, <2>2
<1> HIDE DEF r
<1> DEFINE g == [i \in 0 .. Len(r) |-> h[n + i]]
<1>2. g \in [0 .. Len(r) -> Value]
  BY <1>1 DEF Course
<1>3. ASSUME NEW i \in 1 .. Len(r) PROVE g[i] = Turned(r[i], g[i - 1])
  <2>1. n + i \in 1 .. Len(q) /\ r[i] = q[n + i]
    BY <1>1
  <2>2. h[n + i] = Turned(q[n + i], h[(n + i) - 1])
    BY <2>1 DEF Course
  <2>3. g[i] = h[n + i] /\ g[i - 1] = h[(n + i) - 1]
    BY <1>1
  <2> QED BY <2>1, <2>2, <2>3
<1>4. g[0] = h[n] /\ g[Len(r)] = h[Len(q)]
  BY <1>1
<1> HIDE DEF g
<1>5. Course(r, g)
  BY <1>2, <1>3 DEF Course
<1> QED BY <1>4, <1>5 DEF LeadsTo, r

LEMMA CourseFirst ==
  ASSUME NEW c, NEW b \in Value, Turned(c, b) \in Value
  PROVE  LeadsTo(<<c>>, b, Turned(c, b))
<1> DEFINE g == [i \in 0 .. 1 |-> IF i = 0 THEN b ELSE Turned(c, b)]
<1>1. Len(<<c>>) = 1 /\ <<c>>[1] = c
  OBVIOUS
<1>2. g \in [0 .. 1 -> Value] /\ g[0] = b /\ g[1] = Turned(c, b)
  OBVIOUS
<1>3. \A i \in 1 .. Len(<<c>>) : i = 1 /\ i - 1 = 0
  BY <1>1
<1> HIDE DEF g
<1>4. \A i \in 1 .. Len(<<c>>) : g[i] = Turned(<<c>>[i], g[i - 1])
  BY <1>1, <1>2, <1>3
<1>5. Course(<<c>>, g)
  BY <1>1, <1>2, <1>4 DEF Course
<1> QED BY <1>1, <1>2, <1>5 DEF LeadsTo

\* Commands that turn nothing.
LEMMA CourseStill ==
  ASSUME NEW C, NEW q \in Seq(C), NEW b \in Value,
         \A i \in 1 .. Len(q) : q[i].op \notin Turning
  PROVE  LeadsTo(q, b, b)
<1> DEFINE g == [i \in 0 .. Len(q) |-> b]
<1>1. Len(q) \in Nat
  BY LenProperties
<1>2. g \in [0 .. Len(q) -> Value] /\ g[0] = b /\ g[Len(q)] = b
  BY <1>1
<1>3. \A i \in 1 .. Len(q) : g[i] = Turned(q[i], g[i - 1])
  BY <1>1 DEF Turned, Turning
<1> HIDE DEF g
<1>4. Course(q, g)
  BY <1>2, <1>3 DEF Course
<1> QED BY <1>2, <1>4 DEF LeadsTo

LEMMA LeastNumber ==
  ASSUME NEW T \in SUBSET Nat, T # {}
  PROVE  \E n \in T : \A m \in T : ~(m < n)
<1>1. IsWellFoundedOn(OpToRel(<, Nat), Nat)
  BY NatLessThanWellFounded
<1>2. \E x \in T : \A y \in T : ~ (<<y, x>> \in OpToRel(<, Nat))
  BY <1>1, WFMin
<1>3. \A x, y \in Nat : y < x => <<y, x>> \in OpToRel(<, Nat)
  BY DEF OpToRel
<1> QED BY <1>2, <1>3

\* The same within a course: the commands after the first one, up to n.
LEMMA CourseFlat ==
  ASSUME NEW q, Len(q) \in Nat, NEW h, Course(q, h), NEW n \in 1 .. Len(q),
         \A i \in 2 .. n : q[i].op \notin Turning
  PROVE  h[n] = h[1]
<1> DEFINE T == {i \in 1 .. n : h[i] # h[1]}
<1>1. SUFFICES ASSUME T # {} PROVE FALSE
  OBVIOUS
<1>2. T \in SUBSET Nat
  OBVIOUS
<1>3. PICK m \in T : \A j \in T : ~(j < m)
  BY <1>1, <1>2, LeastNumber
<1>4. m \in 2 .. n /\ m - 1 \in 1 .. n /\ m - 1 < m
  OBVIOUS
<1>5. h[m - 1] = h[1]
  BY <1>3, <1>4
<1>6. h[m] = Turned(q[m], h[m - 1])
  BY <1>4 DEF Course
<1>7. h[m] = h[m - 1]
  BY <1>4, <1>6 DEF Turned, Turning
<1> QED BY <1>3, <1>5, <1>7

(***************************************************************************)
(* The invariant.  For each aspect the PC has chosen, either a command on  *)
(* its way to the streaming iPhone brings it, with none behind that        *)
(* touches it, or it is in force already and no command on its way touches *)
(* it.                                                                     *)
(***************************************************************************)
KeptIn(q, lost, ph, s, a) ==
    \/ Informs(q, a, Wanted(s, a))
    \/ Quiet(q, a) /\ (Doubt(lost, a) \/ Agrees(ph, a, Wanted(s, a)))
KeptAll(q, lost, ph, s) == \A a \in Aspects : Claimed(s, a) => KeptIn(q, lost, ph, s, a)
AllKept == active \in IPhones =>
    KeptAll(net[active], unsure[active], phone[active], registry[active])

\* The commands on its way turn a phone from b to e.
Facing(q, lost, ph, b, e) ==
    /\ b \in Value /\ e \in Value /\ LeadsTo(q, b, e)
    /\ "back" \notin lost => ph.conf["back"] = b
BackInv == \A p \in IPhones : \E b, e \in Value :
    /\ Facing(net[p], unsure[p], phone[p], b, e)
    /\ p = active => e = registry[p]["back"]

PictureInv == PhoneInv /\ AllKept /\ BackInv

LEMMA EmptyQueue ==
  ASSUME NEW b \in Value, NEW a
  PROVE  LeadsTo(<<>>, b, b) /\ Quiet(<<>>, a) /\ \A v : ~Informs(<<>>, a, v)
<1>1. <<>> \in Seq({}) /\ Len(<<>>) = 0
  OBVIOUS
<1>2. LeadsTo(<<>>, b, b)
  <2>1. \A i \in 1 .. Len(<<>>) : <<>>[i].op \notin Turning
    BY <1>1
  <2> QED BY <1>1, <2>1, CourseStill
<1>3. Quiet(<<>>, a)
  BY <1>1 DEF Quiet
<1> QED BY <1>1, <1>2, <1>3 DEF Informs

LEMMA PictureInvInitially == Init => PictureInv
<1> SUFFICES ASSUME Init PROVE PictureInv
  OBVIOUS
<1>1. PhoneInv
  BY PhoneInvInitially
<1>2. active \notin IPhones
  BY PhonesAssumption DEF Init
<1>3. ASSUME NEW p \in IPhones
      PROVE  \E b, e \in Value : /\ Facing(net[p], unsure[p], phone[p], b, e)
                                 /\ p = active => e = registry[p]["back"]
  <2>1. net[p] = <<>> /\ phone[p].conf \in Confs
    BY <1>1, <1>3, PhonesAssumption DEF Init, PhoneInv, PhoneStates
  <2>2. phone[p].conf["back"] \in Value
    BY <2>1 DEF Confs, Carried
  <2> QED BY <1>2, <2>1, <2>2, EmptyQueue DEF Facing
<1> QED BY <1>1, <1>2, <1>3 DEF PictureInv, AllKept, BackInv

\* A phone whose queue and state stay as they are.
LEMMA OthersFace ==
  ASSUME NEW p \in IPhones, BackInv, net'[p] = net[p], unsure'[p] = unsure[p],
         phone'[p] = phone[p],
         p = active' => p = active /\ registry'[p]["back"] = registry[p]["back"]
  PROVE  \E b, e \in Value : /\ Facing(net'[p], unsure'[p], phone'[p], b, e)
                             /\ p = active' => e = registry'[p]["back"]
<1>1. PICK b \in Value, e \in Value :
        /\ Facing(net[p], unsure[p], phone[p], b, e)
        /\ p = active => e = registry[p]["back"]
  BY DEF BackInv
<1> QED BY <1>1

\* Commands sent to an iPhone, which is then the one that streams.
Announced(cmds, s, t) ==
    \A a \in Aspects : Claimed(t, a) =>
        \/ Informs(cmds, a, Wanted(t, a))
        \/ Quiet(cmds, a) /\ Claimed(s, a) /\ Wanted(t, a) = Wanted(s, a)

LEMMA SentKept ==
  ASSUME NetInv, PictureInv, NEW p \in IPhones, registry \in [Phones -> States],
         NEW t \in States, NEW cmds \in Seq(CommandsOf(AllOps)),
         net' = [net EXCEPT ![p] = @ \o cmds],
         registry' = [registry EXCEPT ![p] = t],
         UNCHANGED <<phone, unsure>>, active' = p,
         \A a \in Aspects : Claimed(t, a) =>
            \/ Informs(cmds, a, Wanted(t, a))
            \/ active = p /\ Announced(cmds, registry[p], t),
         \/ active = p /\ LeadsTo(cmds, registry[p]["back"], t["back"])
         \/ \A b \in Value : LeadsTo(cmds, b, t["back"])
  PROVE  PictureInv'
<1>1. PhoneInv'
  BY DEF PictureInv, PhoneInv
<1>2. p \in Phones /\ net[p] \in Seq(CommandsOf(AllOps))
  BY PhonesAssumption DEF NetInv
<1>3. net'[p] = net[p] \o cmds /\ registry'[p] = t /\ t["back"] \in Value
  BY <1>2 DEF NetInv, States, Field, Carried
<1>4. ASSUME NEW a \in Aspects, Claimed(t, a)
      PROVE  KeptIn(net'[p], unsure[p], phone[p], t, a)
  <2>1. CASE Informs(cmds, a, Wanted(t, a))
    BY <1>2, <1>3, <2>1, InformsLater DEF KeptIn
  <2>2. CASE ~Informs(cmds, a, Wanted(t, a))
    <3>1. /\ active = p /\ Quiet(cmds, a) /\ Claimed(registry[p], a)
          /\ Wanted(t, a) = Wanted(registry[p], a)
      BY <1>4, <2>2 DEF Announced
    <3>2. KeptIn(net[p], unsure[p], phone[p], registry[p], a)
      BY <3>1 DEF PictureInv, AllKept, KeptAll
    <3>3. CASE Informs(net[p], a, Wanted(t, a))
      BY <1>2, <1>3, <3>1, <3>3, InformsBefore DEF KeptIn
    <3>4. CASE Quiet(net[p], a) /\ (Doubt(unsure[p], a) \/ Agrees(phone[p], a, Wanted(t, a)))
      BY <1>2, <1>3, <3>1, <3>4, QuietBehind DEF KeptIn
    <3> QED BY <3>1, <3>2, <3>3, <3>4 DEF KeptIn
  <2> QED BY <2>1, <2>2
<1>5. AllKept'
  BY <1>3, <1>4 DEF AllKept, KeptAll
<1>6. ASSUME NEW r \in IPhones
      PROVE  \E b, e \in Value : /\ Facing(net'[r], unsure'[r], phone'[r], b, e)
                                 /\ r = active' => e = registry'[r]["back"]
  <2>1. CASE r = p
    <3>1. PICK b \in Value, e \in Value :
            /\ Facing(net[p], unsure[p], phone[p], b, e)
            /\ p = active => e = registry[p]["back"]
      BY DEF PictureInv, BackInv
    <3>2. LeadsTo(cmds, e, t["back"])
      BY <3>1
    <3>3. LeadsTo(net'[p], b, t["back"])
      <4>1. LeadsTo(net[p], b, e)
        BY <3>1 DEF Facing
      <4>2. LeadsTo(net[p] \o cmds, b, t["back"])
        BY <1>2, <3>2, <4>1, CoursesJoin
      <4> QED BY <1>3, <4>2
    <3>4. Facing(net'[p], unsure[p], phone[p], b, t["back"])
      BY <1>3, <3>1, <3>3 DEF Facing
    <3> QED BY <1>3, <2>1, <3>4
  <2>2. CASE r # p
    <3>1. r \in Phones
      BY PhonesAssumption
    <3>2. net'[r] = net[r] /\ unsure'[r] = unsure[r] /\ phone'[r] = phone[r] /\ r # active'
      BY <2>2, <3>1 DEF NetInv
    <3> QED BY <3>2, OthersFace DEF PictureInv
  <2> QED BY <2>1, <2>2
<1>7. BackInv'
  BY <1>6 DEF BackInv
<1> QED BY <1>1, <1>5, <1>7 DEF PictureInv

\* Steps that leave the streaming iPhone alone, or end its stream.
LEMMA NotSentKept ==
  ASSUME NetInv, PictureInv, UNCHANGED <<phone, unsure>>,
         active' \in IPhones =>
            /\ active' = active /\ net'[active] = net[active]
            /\ registry'[active] = registry[active],
         \A r \in IPhones : net'[r] = net[r] \/ (net'[r] = <<>> /\ r # active')
  PROVE  PictureInv'
<1>1. PhoneInv'
  BY DEF PictureInv, PhoneInv
<1>2. AllKept'
  BY DEF PictureInv, AllKept
<1>3. ASSUME NEW r \in IPhones
      PROVE  \E b, e \in Value : /\ Facing(net'[r], unsure'[r], phone'[r], b, e)
                                 /\ r = active' => e = registry'[r]["back"]
  <2>1. CASE net'[r] = net[r]
    BY <2>1, OthersFace DEF PictureInv
  <2>2. CASE net'[r] = <<>> /\ r # active'
    <3>1. phone[r].conf \in Confs
      BY PhonesAssumption DEF PictureInv, PhoneInv, PhoneStates
    <3>2. phone[r].conf["back"] \in Value
      BY <3>1 DEF Confs, Carried
    <3> QED BY <2>2, <3>2, EmptyQueue DEF Facing
  <2> QED BY <2>1, <2>2
<1>4. BackInv'
  BY <1>3 DEF BackInv
<1> QED BY <1>1, <1>2, <1>4 DEF PictureInv

(***************************************************************************)
(* A phone handles the first n commands of its queue: the first one, and   *)
(* what came with an ACTIVATION.                                           *)
(***************************************************************************)
HandledSome(p, n, ph, lost) ==
    LET q == net[p] IN
    /\ net' = [net EXCEPT ![p] = SubSeq(q, n + 1, Len(q))]
    /\ Becomes(p, ph, lost)
    /\ Handled(phone[p], unsure[p], q[1], ph, lost)
    /\ Faces(phone[p], unsure[p], q[1], ph, lost)
    /\ \A i \in 2 .. n : DOMAIN q[i].arg \subseteq lost /\ (q[i].op = "CAMERA" => "back" \in lost)

LEMMA SomeHandled ==
  ASSUME NetInv, NEW p \in IPhones, net[p] # <<>>,
         HandledFirst(p) \/ \E k \in 0 .. Len(Tail(net[p])) : HandledTogether(p, k)
  PROVE  \E n \in 1 .. Len(net[p]), ph \in PhoneStates, lost \in SUBSET Field :
            HandledSome(p, n, ph, lost)
<1> DEFINE q == net[p]
           rest == Tail(q)
           C == CommandsOf(AllOps)
<1>1. q \in Seq(C)
  BY PhonesAssumption DEF NetInv
<1>2. /\ Len(q) \in Nat /\ 1 \in 1 .. Len(q) /\ Head(q) = q[1]
      /\ rest \in Seq(C) /\ Len(rest) = Len(q) - 1 /\ rest = SubSeq(q, 1 + 1, Len(q))
      /\ \A k \in 0 .. Len(rest) :
           /\ SubSeq(rest, k + 1, Len(rest)) = SubSeq(q, (k + 1) + 1, Len(q))
           /\ SubSeq(rest, 1, k) = SubSeq(q, 2, k + 1)
  <2> HIDE DEF C
  <2> QED BY <1>1, TailIsRest
<1>3. CASE HandledFirst(p)
  <2>1. PICK ph \in PhoneStates, lost \in SUBSET Field :
          /\ net' = [net EXCEPT ![p] = rest]
          /\ Becomes(p, ph, lost)
          /\ Handled(phone[p], unsure[p], Head(q), ph, lost)
          /\ Faces(phone[p], unsure[p], Head(q), ph, lost)
    BY <1>3 DEF HandledFirst
  <2>2. \A i \in 2 .. 1 : FALSE
    OBVIOUS
  <2>3. HandledSome(p, 1, ph, lost)
    BY <1>2, <2>1, <2>2, Zenon DEF HandledSome
  <2> QED BY <1>2, <2>3
<1>4. ASSUME NEW k \in 0 .. Len(rest), HandledTogether(p, k)
      PROVE  \E n \in 1 .. Len(q), ph \in PhoneStates, lost \in SUBSET Field :
                HandledSome(p, n, ph, lost)
  <2>1. PICK ph \in PhoneStates, lost \in SUBSET Field :
          /\ net' = [net EXCEPT ![p] = SubSeq(rest, k + 1, Len(rest))]
          /\ Becomes(p, ph, lost)
          /\ Handled(phone[p], unsure[p], Head(q), ph, lost)
          /\ Faces(phone[p], unsure[p], Head(q), ph, lost)
          /\ Fields(SubSeq(rest, 1, k)) \subseteq lost
    BY <1>4, Zenon DEF HandledTogether
  <2>2. PICK t : t = SubSeq(q, 2, k + 1)
    OBVIOUS
  <2>3. Len(t) = k /\ \A j \in 1 .. k : t[j] = q[j + 1]
    BY <1>1, <1>2, <2>2
  <2>4. Fields(t) \subseteq lost
    BY <1>2, <2>1, <2>2
  <2>5. ASSUME NEW i \in 2 .. k + 1
        PROVE  DOMAIN q[i].arg \subseteq lost /\ (q[i].op = "CAMERA" => "back" \in lost)
    <3>1. i - 1 \in 1 .. Len(t) /\ t[i - 1] = q[i]
      BY <1>2, <2>3
    <3>2. DOMAIN t[i - 1].arg \subseteq Fields(t)
      BY <3>1 DEF Fields
    <3>3. t[i - 1].op = "CAMERA" => "back" \in Fields(t)
      BY <3>1 DEF Fields
    <3> QED BY <2>4, <3>1, <3>2, <3>3
  <2>6. net' = [net EXCEPT ![p] = SubSeq(q, (k + 1) + 1, Len(q))]
    BY <1>2, <2>1
  <2>7. HandledSome(p, k + 1, ph, lost)
    BY <1>2, <2>1, <2>5, <2>6, Zenon DEF HandledSome
  <2>8. k + 1 \in 1 .. Len(q)
    BY <1>2
  <2> QED BY <2>7, <2>8
<1> QED BY <1>3, <1>4

\* An aspect that was kept stays kept.
LEMMA HandlingKeeps ==
  ASSUME NEW C, NEW q \in Seq(C), NEW n \in 1 .. Len(q), NEW s, NEW a \in Aspects,
         NEW ph, NEW lost, NEW ph2, NEW lost2,
         Handled(ph, lost, q[1], ph2, lost2),
         \A i \in 2 .. n : DOMAIN q[i].arg \subseteq lost2,
         KeptIn(q, lost, ph, s, a)
  PROVE  KeptIn(SubSeq(q, n + 1, Len(q)), lost2, ph2, s, a)
<1>1. PICK v : v = Wanted(s, a)
  OBVIOUS
<1>2. PICK r : r = SubSeq(q, n + 1, Len(q))
  OBVIOUS
<1>3. HandledOne(ph, lost, q[1], ph2, lost2, a, v)
  BY DEF Handled
<1>4. Len(q) \in Nat
  BY LenProperties
<1>5. CASE Informs(q, a, v)
  <2>1. \/ Informs(r, a, v)
        \/ Quiet(r, a) /\ \E i \in 1 .. n : InformsAt(q, i, a, v)
    BY <1>2, <1>5, InformsRest
  <2>2. ASSUME NEW i \in 1 .. n, InformsAt(q, i, a, v)
        PROVE  Doubt(lost2, a) \/ Agrees(ph2, a, v)
    <3>1. Tells(q[i], a) /\ Told(q[i], a) = v
      BY <2>2 DEF InformsAt
    <3>2. CASE i = 1
      BY <1>3, <3>1, <3>2 DEF HandledOne
    <3>3. CASE i # 1
      <4>1. DOMAIN q[i].arg \subseteq lost2
        BY <1>4, <3>3
      <4> QED BY <3>1, <4>1 DEF Tells, Doubt
    <3> QED BY <3>2, <3>3
  <2> QED BY <1>1, <1>2, <2>1, <2>2 DEF KeptIn
<1>6. CASE Quiet(q, a) /\ (Doubt(lost, a) \/ Agrees(ph, a, v))
  <2>1. Quiet(r, a)
    BY <1>2, <1>6, InformsRest
  <2>2. ~Touches(q[1], a)
    BY <1>4, <1>6 DEF Quiet
  <2>3. Doubt(lost2, a) \/ Agrees(ph2, a, v)
    BY <1>3, <1>6, <2>2 DEF HandledOne
  <2> QED BY <1>1, <1>2, <2>1, <2>3 DEF KeptIn
<1> QED BY <1>1, <1>5, <1>6 DEF KeptIn

\* And the commands left turn the phone from where it faces now.
LEMMA HandlingFaces ==
  ASSUME NEW q \in Seq(CommandsOf(AllOps)), NEW n \in 1 .. Len(q),
         NEW ph, NEW lost, NEW ph2, NEW lost2, NEW b, NEW e,
         Faces(ph, lost, q[1], ph2, lost2),
         \A i \in 2 .. n : DOMAIN q[i].arg \subseteq lost2 /\ (q[i].op = "CAMERA" => "back" \in lost2),
         Facing(q, lost, ph, b, e)
  PROVE  \E d \in Value : Facing(SubSeq(q, n + 1, Len(q)), lost2, ph2, d, e)
<1>1. Len(q) \in Nat
  BY LenProperties
<1>2. PICK h : Course(q, h) /\ h[0] = b /\ h[Len(q)] = e
  BY DEF Facing, LeadsTo
<1>3. LeadsTo(SubSeq(q, n + 1, Len(q)), h[n], e)
  <2>1. PICK C : C = CommandsOf(AllOps) /\ q \in Seq(C)
    OBVIOUS
  <2> QED BY <1>2, <2>1, CourseRest
<1>4. h[n] \in Value /\ e \in Value
  BY <1>1, <1>2 DEF Course, Facing
<1>5. ASSUME "back" \notin lost2 PROVE ph2.conf["back"] = h[n]
  <2>1. h[1] = Turned(q[1], b)
    BY <1>1, <1>2 DEF Course
  <2>2. ph2.conf["back"] = h[1]
    BY <1>5, <2>1 DEF Faces, Facing, Turned
  <2>3. ASSUME NEW i \in 2 .. n PROVE q[i].op \notin Turning
    <3>1. q[i] \in CommandsOf(AllOps)
      BY <1>1, ElementOfSeq
    <3>2. q[i].op = "ACTIVATION" => "back" \in DOMAIN q[i].arg
      BY <3>1 DEF CommandsOf, Announces, Carried
    <3> QED BY <1>5, <3>2 DEF Turning
  <2>4. h[n] = h[1]
    BY <1>1, <1>2, <2>3, CourseFlat
  <2> QED BY <2>2, <2>4
<1> QED BY <1>3, <1>4, <1>5 DEF Facing

LEMMA HandledKept ==
  ASSUME NetInv, PictureInv, NEW p \in Phones, Handle(p), ~HandleAndroid(p)
  PROVE  PictureInv'
<1>1. /\ p \in IPhones /\ net[p] # <<>> /\ active' = active /\ registry' = registry
      /\ HandledFirst(p) \/ \E k \in 0 .. Len(Tail(net[p])) : HandledTogether(p, k)
  BY EverythingHandled DEF PictureInv, host
<1>2. PICK n \in 1 .. Len(net[p]), ph \in PhoneStates, lost \in SUBSET Field :
        HandledSome(p, n, ph, lost)
  BY <1>1, SomeHandled
<1>3. net[p] \in Seq(CommandsOf(AllOps))
  BY DEF NetInv
<1> DEFINE r == SubSeq(net[p], n + 1, Len(net[p]))
<1>4. /\ Becomes(p, ph, lost) /\ net' = [net EXCEPT ![p] = r]
      /\ Handled(phone[p], unsure[p], net[p][1], ph, lost)
      /\ Faces(phone[p], unsure[p], net[p][1], ph, lost)
      /\ \A i \in 2 .. n : /\ DOMAIN net[p][i].arg \subseteq lost
                           /\ net[p][i].op = "CAMERA" => "back" \in lost
  BY <1>2 DEF HandledSome
<1> HIDE DEF r
<1>5. /\ PhoneInv' /\ net'[p] = r /\ phone'[p] = ph /\ unsure'[p] = lost
      /\ \A x \in Phones \ {p} : net'[x] = net[x] /\ phone'[x] = phone[x] /\ unsure'[x] = unsure[x]
  BY <1>4, BecomesTyped DEF PictureInv, PhoneInv, Becomes, NetInv
<1>6. AllKept'
  <2> SUFFICES ASSUME active \in IPhones, NEW a \in Aspects, Claimed(registry[active], a)
               PROVE  KeptIn(net'[active], unsure'[active], phone'[active], registry[active], a)
    BY <1>1 DEF AllKept, KeptAll
  <2>1. KeptIn(net[active], unsure[active], phone[active], registry[active], a)
    BY DEF PictureInv, AllKept, KeptAll
  <2>2. CASE active = p
    <3>1. KeptIn(r, lost, ph, registry[p], a)
      BY <1>3, <1>4, <2>1, <2>2, HandlingKeeps DEF r
    <3> QED BY <1>5, <2>2, <3>1
  <2>3. CASE active # p
    <3>1. active \in Phones \ {p}
      BY <2>3, PhonesAssumption
    <3> QED BY <1>5, <2>1, <3>1
  <2> QED BY <2>2, <2>3
<1>7. ASSUME NEW x \in IPhones
      PROVE  \E b, e \in Value : /\ Facing(net'[x], unsure'[x], phone'[x], b, e)
                                 /\ x = active' => e = registry'[x]["back"]
  <2>1. CASE x = p
    <3>1. PICK b \in Value, e \in Value :
            /\ Facing(net[p], unsure[p], phone[p], b, e)
            /\ p = active => e = registry[p]["back"]
      BY <1>1 DEF PictureInv, BackInv
    <3>2. \E d \in Value : Facing(r, lost, ph, d, e)
      BY <1>3, <1>4, <3>1, HandlingFaces DEF r
    <3> QED BY <1>1, <1>5, <2>1, <3>1, <3>2
  <2>2. CASE x # p
    <3>1. x \in Phones \ {p}
      BY <2>2, PhonesAssumption
    <3> QED BY <1>1, <1>5, <3>1, OthersFace DEF PictureInv
  <2> QED BY <2>1, <2>2
<1>8. BackInv'
  BY <1>7 DEF BackInv
<1> QED BY <1>5, <1>6, <1>8 DEF PictureInv

(***************************************************************************)
(* The steps of the PC.                                                    *)
(***************************************************************************)
\* A stream is started with all the PC has chosen.
LEMMA StartTells ==
  ASSUME NEW p \in IPhones, NEW s \in States
  PROVE  /\ \A a \in Aspects : Claimed(s, a) => Informs(StartOf(p, s), a, Wanted(s, a))
         /\ \A b \in Value : LeadsTo(StartOf(p, s), b, s["back"])
<1>1. PICK x : x = <<Cmd("ACTIVATION", s, Carried)>>
  OBVIOUS
<1>2. PICK y : y = Reapply(s)
  OBVIOUS
<1>3. PICK c \in CommandsOf(AllOps) : c = Cmd("ACTIVATION", s, Carried)
  <2>1. "ACTIVATION" \in AllOps /\ Carried \in SUBSET Field /\ Announces("ACTIVATION") = Carried
    BY DEF AllOps, Ops, Field, Announces
  <2> QED BY <2>1, Built
<1>4. /\ c.op = "ACTIVATION" /\ DOMAIN c.arg = Carried /\ \A f \in Carried : c.arg[f] = s[f]
  BY <1>3 DEF Cmd
<1>5. /\ x \in Seq(CommandsOf(AllOps)) /\ y \in Seq(CommandsOf(AllOps))
      /\ Part(y, s, CameraAspects \cup {"portrait", "stabMode"})
      /\ StartOf(p, s) = x \o y
  BY <1>1, <1>2, <1>3, SetterParts DEF StartOf, Part
<1>6. ASSUME NEW a \in Aspects, Claimed(s, a)
      PROVE  Informs(x \o y, a, Wanted(s, a))
  <2>1. CASE a \in CameraAspects \cup {"portrait", "stabMode"}
    <3>1. Informs(y, a, Wanted(s, a))
      BY <1>5, <1>6, <2>1 DEF Part
    <3> QED BY <1>5, <3>1, InformsLater
  <2>2. CASE a \notin CameraAspects \cup {"portrait", "stabMode"}
    <3>1. Quiet(y, a)
      BY <1>5, <2>2 DEF Part
    <3>2. a \in Carried
      BY <2>2 DEF Aspects, ConfigAspects, LiveAspects, Carried
    <3>3. Tells(c, a) /\ Told(c, a) = Wanted(s, a)
      BY <1>4, <3>2 DEF Tells, Told, Wanted, Carried
    <3>4. Informs(x, a, Wanted(s, a))
      BY <1>1, <1>3, <3>3, InformsAlone
    <3> QED BY <1>5, <3>1, <3>4, InformsBefore
  <2> QED BY <2>1, <2>2
<1>7. ASSUME NEW b \in Value PROVE LeadsTo(x \o y, b, s["back"])
  <2>1. Turned(c, b) = s["back"] /\ s["back"] \in Value
    BY <1>4 DEF Turned, Carried, States, Field
  <2>2. LeadsTo(x, b, s["back"])
    BY <1>1, <1>3, <2>1, CourseFirst
  <2>3. LeadsTo(y, s["back"], s["back"])
    BY <1>5, <2>1, CourseStill DEF Part
  <2> QED BY <1>5, <2>2, <2>3, CoursesJoin
<1> QED BY <1>5, <1>6, <1>7

LEMMA ChangeKept ==
  ASSUME ControlsInv, PictureInv, NEW p \in Phones, NEW s \in States,
         NEW cmds \in Seq(CommandsOf(AllOps)), Change(p, s, cmds), active \in {p, None},
         Announced(cmds, registry[p], s), LeadsTo(cmds, registry[p]["back"], s["back"])
  PROVE  PictureInv'
<1>1. /\ registry' = [registry EXCEPT ![p] = s] /\ active' = active
      /\ UNCHANGED <<phone, unsure>> /\ Send(cmds)
  BY DEF Change
<1>2. NetInv /\ registry \in [Phones -> States] /\ p # None
  BY PhonesAssumption DEF ControlsInv, HostTypes
<1>3. CASE active = None
  <2>1. net' = net /\ active' \notin IPhones
    BY <1>1, <1>3, PhonesAssumption DEF Send
  <2> QED BY <1>1, <1>2, <2>1, NotSentKept
<1>4. CASE active = p /\ p \in IPhones
  <2>1. net' = [net EXCEPT ![p] = @ \o cmds]
    BY <1>1, <1>2, <1>4 DEF Send
  <2> QED BY <1>1, <1>2, <1>4, <2>1, SentKept
<1>5. CASE active = p /\ p \notin IPhones
  <2>1. \A r \in IPhones : net'[r] = net[r]
    BY <1>1, <1>2, <1>5, PhonesAssumption DEF Send, NetInv
  <2> QED BY <1>1, <1>2, <1>5, <2>1, NotSentKept
<1> QED BY <1>3, <1>4, <1>5

\* A change of the settings of G, announced with the aspects of D.
LEMMA PartKept ==
  ASSUME ControlsInv, PictureInv, NEW p \in Phones, NEW s \in States, NEW cmds, NEW D, NEW G,
         Change(p, s, cmds), active \in {p, None}, Part(cmds, s, D),
         \A f \in Field \ G : s[f] = registry[p][f],
         "back" \notin G, \A a \in G : a \in Aspects => a \in D,
         "manual" \in G => "shutter" \in D, "wbManual" \in G => "temp" \in D,
         "adaptive" \in G => "rate" \in D
  PROVE  PictureInv'
<1>1. {"back", "manual", "wbManual", "adaptive"} \subseteq Field /\ Aspects \subseteq Field
  BY AspectKinds DEF Field, Carried, Camera
<1>2. cmds \in Seq(CommandsOf(AllOps))
  BY DEF Part
<1>3. s["back"] = registry[p]["back"] /\ s["back"] \in Value
  BY <1>1 DEF States
<1>4. LeadsTo(cmds, registry[p]["back"], s["back"])
  BY <1>2, <1>3, CourseStill DEF Part
<1>5. ASSUME NEW a \in Aspects, Claimed(s, a)
      PROVE  \/ Informs(cmds, a, Wanted(s, a))
             \/ /\ Quiet(cmds, a) /\ Claimed(registry[p], a)
                /\ Wanted(s, a) = Wanted(registry[p], a)
  <2>1. CASE a \in D
    BY <1>5, <2>1 DEF Part
  <2>2. CASE a \notin D
    <3>1. Quiet(cmds, a) /\ s[a] = registry[p][a]
      BY <1>1, <2>2 DEF Part
    <3>2. /\ a = "shutter" => s["manual"] = registry[p]["manual"]
          /\ a = "temp" => s["wbManual"] = registry[p]["wbManual"]
          /\ a = "rate" => s["adaptive"] = registry[p]["adaptive"]
      BY <1>1, <2>2
    <3> QED BY <1>5, <3>1, <3>2 DEF Claimed, Wanted
  <2> QED BY <2>1, <2>2
<1>6. Announced(cmds, registry[p], s)
  BY <1>5 DEF Announced
<1> QED BY <1>2, <1>4, <1>6, ChangeKept

\* A command that carries nothing.
LEMMA PlainQuiet ==
  ASSUME NEW op \in {"CAMERA", "RESET_CAMERA_TO_AUTO"}
  PROVE  /\ <<Plain(op)>> \in Seq(CommandsOf(AllOps))
         /\ \A a \in Aspects : ~Undoes(Plain(op), a) => Quiet(<<Plain(op)>>, a)
         /\ Plain(op).op = op
<1>1. op \in AllOps
  BY DEF AllOps, Ops, IosOps
<1>2. Plain(op) \in CommandsOf(AllOps)
  BY <1>1, BuiltPlain
<1>3. Plain(op).op = op /\ DOMAIN Plain(op).arg = {}
  BY DEF Plain
<1>4. \A a : ~Tells(Plain(op), a)
  BY <1>3 DEF Tells
<1> QED BY <1>2, <1>3, <1>4, InformsAlone DEF Touches

LEMMA ButtonsKeepPicture ==
  ASSUME ControlsInv, PictureInv, PressTorch \/ PressSwap \/ PressZoom
  PROVE  PictureInv'
<1>1. active \in Phones /\ registry[active] \in States
  BY DEF PressTorch, PressSwap, PressZoom, MainWindow, ControlsInv, HostTypes
<1>2. /\ {"torch", "back", "lens"} \subseteq Field /\ {"FLASH", "ZOOM", "LENS_ZOOM"} \subseteq AllOps
      /\ Announces("FLASH") = {"torch"} /\ Announces("LENS_ZOOM") = {"lens"}
      /\ Announces("ZOOM") = {"lens"}
  BY DEF Field, Carried, Camera, Ops, IosOps, AllOps, Announces
<1>3. CASE PressTorch
  <2> DEFINE s == Flip(registry[active], "torch")
  <2>1. Change(active, s, <<Cmd("FLASH", s, {"torch"})>>)
    BY <1>3 DEF PressTorch
  <2>2. s \in States /\ \A f \in Field \ {"torch"} : s[f] = registry[active][f]
    BY <1>1, <1>2, Values DEF Flip, States
  <2> HIDE DEF s
  <2>3. Part(<<Cmd("FLASH", s, {"torch"})>>, s, {"torch"})
    <3>1. "torch" = (IF "torch" = "adaptive" THEN "rate" ELSE "torch")
      OBVIOUS
    <3> QED BY <1>2, <2>2, <3>1, OnePart
  <2>4. \A a \in {"torch"} : a \in {"torch"} /\ a \notin {"back", "manual", "wbManual", "adaptive"}
    OBVIOUS
  <2> QED BY <1>1, <2>1, <2>2, <2>3, <2>4, PartKept
<1>4. CASE PressZoom
  <2>1. PICK v \in Value :
          LET s == [registry[active] EXCEPT !["lens"] = v]
          IN Change(active, s,
                <<Cmd(IF active \in IPhones THEN "LENS_ZOOM" ELSE "ZOOM", s, {"lens"})>>)
    BY <1>4 DEF PressZoom
  <2>2. PICK s : s = [registry[active] EXCEPT !["lens"] = v]
    OBVIOUS
  <2>3. PICK op : op = IF active \in IPhones THEN "LENS_ZOOM" ELSE "ZOOM"
    OBVIOUS
  <2>4. Change(active, s, <<Cmd(op, s, {"lens"})>>)
    BY <2>1, <2>2, <2>3
  <2>5. s \in States /\ \A f \in Field \ {"lens"} : s[f] = registry[active][f]
    BY <1>1, <1>2, <2>2 DEF States
  <2>6. Part(<<Cmd(op, s, {"lens"})>>, s, {"lens"})
    <3>1. "lens" = (IF "lens" = "adaptive" THEN "rate" ELSE "lens")
      OBVIOUS
    <3> QED BY <1>2, <2>3, <2>5, <3>1, OnePart
  <2>7. \A a \in {"lens"} : a \in {"lens"} /\ a \notin {"back", "manual", "wbManual", "adaptive"}
    OBVIOUS
  <2> QED BY <1>1, <2>4, <2>5, <2>6, <2>7, PartKept
<1>5. CASE PressSwap
  <2> DEFINE s == Flip(registry[active], "back")
             c == Plain("CAMERA")
  <2>1. Change(active, s, <<c>>)
    BY <1>5 DEF PressSwap
  <2>2. /\ s \in States /\ s["back"] = 1 - registry[active]["back"]
        /\ registry[active]["back"] \in Value /\ s["back"] \in Value
        /\ \A f \in Field \ {"back"} : s[f] = registry[active][f]
    BY <1>1, <1>2, Values DEF Flip, States
  <2> HIDE DEF s
  <2>3. /\ <<c>> \in Seq(CommandsOf(AllOps)) /\ c.op = "CAMERA"
        /\ \A a \in Aspects : Quiet(<<c>>, a)
    BY PlainQuiet DEF Undoes
  <2> HIDE DEF c
  <2>4. LeadsTo(<<c>>, registry[active]["back"], s["back"])
    <3>1. Turned(c, registry[active]["back"]) = s["back"]
      BY <2>2, <2>3 DEF Turned
    <3> QED BY <2>2, <3>1, CourseFirst
  <2>5. /\ \A a \in Aspects : s[a] = registry[active][a]
        /\ \A f \in {"manual", "wbManual", "adaptive"} : s[f] = registry[active][f]
    <3>1. Aspects \cup {"manual", "wbManual", "adaptive"} \subseteq Field \ {"back"}
      BY DEF Aspects, ConfigAspects, CameraAspects, LiveAspects, Field, Carried, Camera
    <3> QED BY <2>2, <3>1
  <2>6. Announced(<<c>>, registry[active], s)
    BY <2>3, <2>5 DEF Announced, Claimed, Wanted
  <2> QED BY <1>1, <2>1, <2>2, <2>3, <2>4, <2>6, ChangeKept
<1> QED BY <1>3, <1>4, <1>5

LEMMA DockKeepsPicture ==
  ASSUME ControlsInv, PictureInv,
         \/ DockPortrait
         \/ \E f \in {"manual", "shutter", "ev"} : DockExposure(f)
         \/ \E f \in {"wbManual", "temp"} : DockWhiteBalance(f)
  PROVE  PictureInv'
<1>1. ASSUME NEW f \in Panel, NEW G \in SUBSET Panel, NEW cmds,
             DockChange(f, DockStored(G, f), cmds)
      PROVE  /\ active \in Phones /\ DockStored(G, f) \in States
             /\ Change(active, DockStored(G, f), cmds)
             /\ \A g \in Field \ G : DockStored(G, f)[g] = registry[active][g]
  <2>1. /\ active \in Phones /\ registry[active] \in States
        /\ dock \in [shown : BOOLEAN, panel : [Panel -> Value]]
        /\ Change(active, DockStored(G, f), cmds)
    BY <1>1 DEF DockChange, MainWindow, ControlsInv, HostTypes
  <2>2. DockTouched(f) \in [Panel -> Value]
    BY <2>1, Values DEF DockTouched, Flip
  <2>3. DockStored(G, f) \in States
    BY <2>1, <2>2 DEF DockStored, States
  <2> QED BY <2>1, <2>3 DEF DockStored
<1>2. CASE DockPortrait
  <2>1. PICK s : s = DockStored({"portrait"}, "portrait")
    OBVIOUS
  <2>2. /\ active \in Phones /\ s \in States /\ Change(active, s, SetPortraitMode(s))
        /\ \A g \in Field \ {"portrait"} : s[g] = registry[active][g]
    BY <1>1, <1>2, <2>1 DEF DockPortrait, Panel
  <2>3. PICK G : G = {"portrait"}
    OBVIOUS
  <2>4. \A a \in G : a \in {"portrait"} /\ a \notin {"back", "manual", "wbManual", "adaptive"}
    BY <2>3
  <2> QED BY <2>2, <2>3, <2>4, SetterParts, PartKept
<1>3. ASSUME NEW f \in {"manual", "shutter", "ev"}, DockExposure(f) PROVE PictureInv'
  <2>1. PICK G \in SUBSET Panel : G = {"manual", "shutter", "ev"}
    BY DEF Panel
  <2>2. PICK s : s = DockStored(G, f)
    OBVIOUS
  <2>3. /\ active \in Phones /\ s \in States /\ Change(active, s, SetExposure(s))
        /\ \A g \in Field \ G : s[g] = registry[active][g]
    BY <1>1, <1>3, <2>1, <2>2 DEF DockExposure, Panel
  <2>4. PICK D : D = {"shutter", "ev"}
    OBVIOUS
  <2>5. /\ \A a \in G : a \in Aspects => a \in D
        /\ "back" \notin G /\ "shutter" \in D /\ "wbManual" \notin G /\ "adaptive" \notin G
    BY <2>1, <2>4 DEF Aspects, ConfigAspects, CameraAspects, LiveAspects
  <2> QED BY <2>3, <2>4, <2>5, SetterParts, PartKept
<1>4. ASSUME NEW f \in {"wbManual", "temp"}, DockWhiteBalance(f) PROVE PictureInv'
  <2>1. PICK G \in SUBSET Panel : G = {"wbManual", "temp"}
    BY DEF Panel
  <2>2. PICK s : s = DockStored(G, f)
    OBVIOUS
  <2>3. /\ active \in Phones /\ s \in States /\ Change(active, s, SetWhiteBalance(s))
        /\ \A g \in Field \ G : s[g] = registry[active][g]
    BY <1>1, <1>4, <2>1, <2>2 DEF DockWhiteBalance, Panel
  <2>4. PICK D : D = {"temp"}
    OBVIOUS
  <2>5. /\ \A a \in G : a \in Aspects => a \in D
        /\ "back" \notin G /\ "temp" \in D /\ "manual" \notin G /\ "adaptive" \notin G
    BY <2>1, <2>4 DEF Aspects, ConfigAspects, CameraAspects, LiveAspects
  <2> QED BY <2>3, <2>4, <2>5, SetterParts, PartKept
<1> QED BY <1>2, <1>3, <1>4

LEMMA DialogKeepsPicture ==
  ASSUME ControlsInv, PictureInv,
         \/ DialogReset
         \/ \E f \in {"manual", "shutter", "ev"} : DialogExposure(f)
         \/ \E f \in {"wbManual", "temp"} : DialogWhiteBalance(f)
         \/ \E r \in Simple \cup IosSimple : DialogSimple(r)
         \/ \E f \in {"adaptive", "rate"} : DialogBitrate(f)
  PROVE  PictureInv'
<1>1. /\ dialog \in Phones /\ registry[dialog] \in States /\ active \in {dialog, None}
  BY DEF DialogReset, DialogExposure, DialogWhiteBalance, DialogSimple, DialogBitrate,
         DialogChange, ControlsInv, HostTypes, OwnInv
<1>2. ASSUME NEW f \in Field, NEW s, s = DialogSets(f)
      PROVE  s \in States /\ \A g \in Field \ {f} : s[g] = registry[dialog][g]
  BY <1>1, <1>2, Values DEF DialogSets, Flip, States
<1>3. {"manual", "shutter", "ev", "wbManual", "temp", "adaptive", "rate"} \subseteq Field
  BY DEF Field, Carried, Camera
<1>4. CASE DialogReset
  <2> DEFINE s == [f \in Field |-> IF f \in {"manual", "wbManual", "focus"} THEN 0
                                   ELSE registry[dialog][f]]
             c == Plain("RESET_CAMERA_TO_AUTO")
  <2>1. Change(dialog, s, <<c>>)
    BY <1>4 DEF DialogReset, DialogChange
  <2>2. /\ s \in States /\ s["manual"] = 0 /\ s["wbManual"] = 0 /\ s["focus"] = 0
        /\ \A f \in Field \ {"manual", "wbManual", "focus"} : s[f] = registry[dialog][f]
    BY <1>1, Values DEF States, Field, Carried, Camera
  <2> HIDE DEF s
  <2>3. /\ <<c>> \in Seq(CommandsOf(AllOps)) /\ c.op = "RESET_CAMERA_TO_AUTO"
        /\ \A a \in Aspects : a \notin {"shutter", "temp", "focus"} => Quiet(<<c>>, a)
    BY PlainQuiet DEF Undoes
  <2> HIDE DEF c
  <2>4. Aspects \cup {"back", "adaptive"} \subseteq Field
    BY AspectKinds DEF Field, Carried, Camera
  <2>5. /\ \A a \in Aspects : a # "focus" => s[a] = registry[dialog][a]
        /\ s["adaptive"] = registry[dialog]["adaptive"]
        /\ s["back"] = registry[dialog]["back"] /\ s["back"] \in Value
    <3>1. "manual" \notin Aspects /\ "wbManual" \notin Aspects
      BY DEF Aspects, ConfigAspects, CameraAspects, LiveAspects
    <3> QED BY <2>2, <2>4, <3>1 DEF States
  <2>6. LeadsTo(<<c>>, registry[dialog]["back"], s["back"])
    <3>1. Turned(c, registry[dialog]["back"]) = s["back"]
      BY <2>3, <2>5 DEF Turned
    <3> QED BY <2>5, <3>1, CourseFirst
  <2>7. Announced(<<c>>, registry[dialog], s)
    BY <2>2, <2>3, <2>5 DEF Announced, Claimed, Wanted
  <2> QED BY <1>1, <2>1, <2>2, <2>3, <2>6, <2>7, ChangeKept
<1>5. ASSUME NEW f \in {"manual", "shutter", "ev"}, DialogExposure(f) PROVE PictureInv'
  <2>1. PICK s : s = DialogSets(f)
    OBVIOUS
  <2>2. /\ s \in States /\ Change(dialog, s, SetExposure(s))
        /\ \A g \in Field \ {f} : s[g] = registry[dialog][g]
    BY <1>2, <1>3, <1>5, <2>1 DEF DialogExposure, DialogChange
  <2>3. PICK D : D = {"shutter", "ev"}
    OBVIOUS
  <2>4. PICK G : G = {f}
    OBVIOUS
  <2>5. /\ \A a \in G : a \in Aspects => a \in D
        /\ "back" \notin G /\ "shutter" \in D /\ "wbManual" \notin G /\ "adaptive" \notin G
    BY <2>3, <2>4 DEF Aspects, ConfigAspects, CameraAspects, LiveAspects
  <2> QED BY <1>1, <2>2, <2>3, <2>4, <2>5, SetterParts, PartKept
<1>6. ASSUME NEW f \in {"wbManual", "temp"}, DialogWhiteBalance(f) PROVE PictureInv'
  <2>1. PICK s : s = DialogSets(f)
    OBVIOUS
  <2>2. /\ s \in States /\ Change(dialog, s, SetWhiteBalance(s))
        /\ \A g \in Field \ {f} : s[g] = registry[dialog][g]
    BY <1>2, <1>3, <1>6, <2>1 DEF DialogWhiteBalance, DialogChange
  <2>3. PICK D : D = {"temp"}
    OBVIOUS
  <2>4. PICK G : G = {f}
    OBVIOUS
  <2>5. /\ \A a \in G : a \in Aspects => a \in D
        /\ "back" \notin G /\ "temp" \in D /\ "manual" \notin G /\ "adaptive" \notin G
    BY <2>3, <2>4 DEF Aspects, ConfigAspects, CameraAspects, LiveAspects
  <2> QED BY <1>1, <2>2, <2>3, <2>4, <2>5, SetterParts, PartKept
<1>7. ASSUME NEW f \in {"adaptive", "rate"}, DialogBitrate(f) PROVE PictureInv'
  <2>1. PICK s : s = DialogSets(f)
    OBVIOUS
  <2>2. /\ s \in States /\ Change(dialog, s, SetBitrate(s))
        /\ \A g \in Field \ {f} : s[g] = registry[dialog][g]
    BY <1>2, <1>3, <1>7, <2>1 DEF DialogBitrate, DialogChange
  <2>3. PICK D : D = {"rate"}
    OBVIOUS
  <2>4. PICK G : G = {f}
    OBVIOUS
  <2>5. /\ \A a \in G : a \in Aspects => a \in D
        /\ "back" \notin G /\ "rate" \in D /\ "manual" \notin G /\ "wbManual" \notin G
    BY <2>3, <2>4 DEF Aspects, ConfigAspects, CameraAspects, LiveAspects
  <2> QED BY <1>1, <2>2, <2>3, <2>4, <2>5, SetterParts, PartKept
<1>8. ASSUME NEW r \in Simple \cup IosSimple, DialogSimple(r) PROVE PictureInv'
  <2>1. PICK f, op : f = r.field /\ op = r.op
    OBVIOUS
  <2>2. /\ f \in Field /\ op \in AllOps /\ Announces(op) = {f}
        /\ f \notin {"back", "manual", "wbManual", "adaptive", "rate"}
        /\ op \notin {"ACTIVATION", "CAMERA", "RESET_CAMERA_TO_AUTO"}
    BY <2>1 DEF Simple, IosSimple, Row, Field, Carried, Camera, Ops, IosOps, AllOps, Announces
  <2>3. PICK s : s = DialogSets(f)
    OBVIOUS
  <2>4. /\ s \in States /\ Change(dialog, s, <<Cmd(op, s, {f})>>)
        /\ \A g \in Field \ {f} : s[g] = registry[dialog][g]
    BY <1>2, <1>8, <2>1, <2>2, <2>3 DEF DialogSimple, DialogChange
  <2>5. PICK G : G = {f}
    OBVIOUS
  <2>6. Part(<<Cmd(op, s, {f})>>, s, G)
    <3>1. f = (IF f = "adaptive" THEN "rate" ELSE f)
      BY <2>2
    <3>2. Part(<<Cmd(op, s, {f})>>, s, {f})
      BY <2>2, <2>4, <3>1, OnePart
    <3> QED BY <2>5, <3>2
  <2>7. \A g \in Field \ G : s[g] = registry[dialog][g]
    BY <2>4, <2>5
  <2>8. \A a \in G : a \notin {"back", "manual", "wbManual", "adaptive"}
    BY <2>2, <2>5
  <2> QED BY <1>1, <2>4, <2>6, <2>7, <2>8, PartKept
<1> QED BY <1>4, <1>5, <1>6, <1>7, <1>8

LEMMA StartsKeepPicture ==
  ASSUME ControlsInv, PictureInv, Restart \/ \E p \in Phones : Select(p)
  PROVE  PictureInv'
<1>1. NetInv /\ registry \in [Phones -> States] /\ active \in Phones \cup {None}
  BY DEF ControlsInv, HostTypes
<1>2. CASE Restart
  <2>1. /\ active \in IPhones /\ active \in Phones /\ active' = active /\ active # None
        /\ UNCHANGED <<registry, phone, unsure>>
        /\ Send(StartOf(active, registry[active]))
    BY <1>2, PhonesAssumption DEF Restart
  <2>2. PICK t \in States : t = registry[active]
    BY <1>1, <2>1
  <2>3. PICK cmds \in Seq(CommandsOf(AllOps)) : cmds = StartOf(active, t)
    BY <2>1, Starts
  <2>4. net' = [net EXCEPT ![active] = @ \o cmds]
    BY <2>1, <2>2, <2>3 DEF Send
  <2>5. registry' = [registry EXCEPT ![active] = t]
    BY <1>1, <2>1, <2>2
  <2>6. /\ \A a \in Aspects : Claimed(t, a) => Informs(cmds, a, Wanted(t, a))
        /\ \A b \in Value : LeadsTo(cmds, b, t["back"])
    BY <2>1, <2>3, StartTells
  <2> QED BY <1>1, <2>1, <2>4, <2>5, <2>6, SentKept
<1>3. ASSUME NEW p \in Phones, Select(p) PROVE PictureInv'
  <2> DEFINE s == [registry[p] EXCEPT !["res"] = IF registry[p]["back"] = Front THEN 0 ELSE @]
  <2>1. "res" \in Field /\ registry[p] \in States
    BY <1>1 DEF Field, Carried
  <2>2. s \in States
    BY <2>1, Values DEF States
  <2>3. /\ registry' = [registry EXCEPT ![p] = s] /\ active' = p /\ UNCHANGED <<phone, unsure>>
        /\ net' = [net EXCEPT ![p] = @ \o StartOf(p, s)]
    BY <1>3 DEF Select
  <2>4. PICK t \in States : t = s
    BY <2>2
  <2> HIDE DEF s
  <2>5. PICK cmds \in Seq(CommandsOf(AllOps)) : cmds = StartOf(p, t)
    BY Starts
  <2>6. registry' = [registry EXCEPT ![p] = t] /\ net' = [net EXCEPT ![p] = @ \o cmds]
    BY <2>3, <2>4, <2>5
  <2>7. CASE p \in IPhones
    <3>1. /\ \A a \in Aspects : Claimed(t, a) => Informs(cmds, a, Wanted(t, a))
          /\ \A b \in Value : LeadsTo(cmds, b, t["back"])
      BY <2>5, <2>7, StartTells
    <3> QED BY <1>1, <2>3, <2>6, <2>7, <3>1, SentKept
  <2>8. CASE p \notin IPhones
    <3>1. \A r \in IPhones : net'[r] = net[r]
      BY <2>6, <2>8, PhonesAssumption DEF ControlsInv, NetInv
    <3> QED BY <1>1, <2>3, <2>8, <3>1, NotSentKept
  <2> QED BY <2>7, <2>8
<1> QED BY <1>2, <1>3

LEMMA PictureInvKept == ControlsInv /\ PictureInv /\ [Next]_vars => PictureInv'
<1> SUFFICES ASSUME ControlsInv, PictureInv, [Next]_vars PROVE PictureInv'
  OBVIOUS
<1>1. CASE Restart \/ \E p \in Phones : Select(p)
  BY <1>1, StartsKeepPicture
<1>2. CASE PressTorch \/ PressSwap \/ PressZoom
  BY <1>2, ButtonsKeepPicture
<1>3. CASE \/ DockPortrait
           \/ \E f \in {"manual", "shutter", "ev"} : DockExposure(f)
           \/ \E f \in {"wbManual", "temp"} : DockWhiteBalance(f)
  BY <1>3, DockKeepsPicture
<1>4. CASE \/ DialogReset
           \/ \E f \in {"manual", "shutter", "ev"} : DialogExposure(f)
           \/ \E f \in {"wbManual", "temp"} : DialogWhiteBalance(f)
           \/ \E r \in Simple \cup IosSimple : DialogSimple(r)
           \/ \E f \in {"adaptive", "rate"} : DialogBitrate(f)
  BY <1>4, DialogKeepsPicture
<1>5. CASE DockReset \/ OpenDialog \/ CloseDialog \/ UNCHANGED vars
  <2>1. UNCHANGED <<active, registry, net, phone, unsure>>
    BY <1>5 DEF DockReset, OpenDialog, CloseDialog, vars
  <2>2. /\ NetInv /\ UNCHANGED <<phone, unsure>> /\ active' = active
        /\ registry' = registry /\ net' = net
    BY <2>1 DEF ControlsInv
  <2>3. \A r \in IPhones : net'[r] = net[r] \/ (net'[r] = <<>> /\ r # active')
    BY <2>2
  <2>4. active' \in IPhones => /\ active' = active /\ net'[active] = net[active]
                               /\ registry'[active] = registry[active]
    BY <2>2
  <2> QED BY <2>2, <2>3, <2>4, NotSentKept, Zenon
<1>6. ASSUME NEW p \in Phones, Disconnect(p) PROVE PictureInv'
  <2>1. /\ active' = IF active = p THEN None ELSE active
        /\ net' = [net EXCEPT ![p] = <<>>]
        /\ UNCHANGED <<registry, phone, unsure>>
    BY <1>6 DEF Disconnect
  <2>2. \A r \in Phones : net'[r] = IF r = p THEN <<>> ELSE net[r]
    BY <2>1 DEF ControlsInv, NetInv
  <2>3. active' # p /\ (active' \in IPhones => active' = active)
    BY <2>1, PhonesAssumption
  <2>4. /\ NetInv /\ UNCHANGED <<phone, unsure>> /\ registry' = registry
        /\ \A r \in IPhones : net'[r] = net[r] \/ (net'[r] = <<>> /\ r # active')
    <3>1. NetInv
      BY DEF ControlsInv
    <3>2. \A r \in IPhones : net'[r] = net[r] \/ (net'[r] = <<>> /\ r # active')
      BY <2>2, <2>3, PhonesAssumption
    <3> QED BY <2>1, <3>1, <3>2
  <2>5. active' \in IPhones => /\ active' = active /\ net'[active] = net[active]
                               /\ registry'[active] = registry[active]
    BY <2>1, <2>2, <2>3, PhonesAssumption
  <2> QED BY <2>4, <2>5, NotSentKept, Zenon
<1>7. ASSUME NEW p \in Phones, HandleAndroid(p) PROVE PictureInv'
  <2>1. /\ p \notin IPhones /\ net' = [net EXCEPT ![p] = <<>>]
        /\ UNCHANGED <<active, registry, phone, unsure>>
    BY <1>7 DEF HandleAndroid
  <2>2. \A r \in IPhones : net'[r] = net[r]
    BY <2>1, PhonesAssumption DEF ControlsInv, NetInv
  <2>3. /\ NetInv /\ UNCHANGED <<phone, unsure>> /\ active' = active /\ registry' = registry
    BY <2>1 DEF ControlsInv
  <2>4. \A r \in IPhones : net'[r] = net[r] \/ (net'[r] = <<>> /\ r # active')
    BY <2>2
  <2>5. active' \in IPhones => /\ active' = active /\ net'[active] = net[active]
                               /\ registry'[active] = registry[active]
    BY <2>2, <2>3
  <2> QED BY <2>3, <2>4, <2>5, NotSentKept, Zenon
<1>8. ASSUME NEW p \in Phones, Handle(p), ~HandleAndroid(p) PROVE PictureInv'
  BY <1>8, HandledKept DEF ControlsInv
<1> QED
  BY <1>1, <1>2, <1>3, <1>4, <1>5, <1>6, <1>7, <1>8 DEF Next, Gui

\* When nothing is on its way any more, what was kept is in force.
LEMMA SettledInForce ==
  ASSUME ControlsInv, PictureInv, NEW p \in Phones, Settled(p), NEW a \in Aspects,
         Claimed(registry[p], a)
  PROVE  Doubt(unsure[p], a) \/ Agrees(phone[p], a, Wanted(registry[p], a))
<1>1. KeptIn(<<>>, unsure[p], phone[p], registry[p], a)
  BY DEF Settled, PictureInv, AllKept, KeptAll
<1>2. 0 \in Value
  BY DEF Value
<1> QED BY <1>1, <1>2, EmptyQueue DEF KeptIn

LEMMA SettledFaces ==
  ASSUME ControlsInv, PictureInv, NEW p \in Phones, Settled(p), "back" \notin unsure[p]
  PROVE  phone[p].conf["back"] = registry[p]["back"]
<1>1. PICK b \in Value, e \in Value :
        Facing(<<>>, unsure[p], phone[p], b, e) /\ e = registry[p]["back"]
  BY DEF Settled, PictureInv, BackInv
<1>2. PICK h : h[0] = b /\ h[Len(<<>>)] = e
  BY <1>1 DEF Facing, LeadsTo
<1>3. b = e
  BY <1>2
<1> QED BY <1>1, <1>3 DEF Facing

LEMMA ConfigSettled == ControlsInv /\ PictureInv => ConfigAsChosen
<1> SUFFICES ASSUME ControlsInv, PictureInv, NEW p \in Phones, Settled(p),
                    NEW f \in {"res", "fps", "back", "h265", "stab", "portrait"} \ unsure[p]
             PROVE  phone[p].conf[f] = registry[p][f]
  BY DEF ConfigAsChosen
<1>1. CASE f = "back"
  BY <1>1, SettledFaces
<1>2. CASE f # "back"
  <2>1. f \in Aspects /\ f \in ConfigAspects /\ f \notin LiveAspects
        /\ f \notin {"rate", "torch", "shutter", "temp", "focus"}
    BY <1>2 DEF Aspects, ConfigAspects, LiveAspects
  <2>2. Claimed(registry[p], f) /\ Wanted(registry[p], f) = registry[p][f]
    BY <2>1 DEF Claimed, Wanted
  <2>3. Has(phone[p], f) = phone[p].conf[f]
    BY <2>1 DEF Has
  <2> QED BY <2>1, <2>2, <2>3, SettledInForce DEF Doubt, Agrees
<1> QED BY <1>1, <1>2

LEMMA PictureSettled == ControlsInv /\ PictureInv => PictureAsChosen
<1> SUFFICES ASSUME ControlsInv, PictureInv, NEW p \in Phones, Settled(p)
             PROVE  LET s == registry[p]
                        cam == phone[p].cam[phone[p].conf["back"]]
                        live == phone[p].live
                        Keeps(f) == f \notin unsure[p]
                    IN /\ Keeps("back") =>
                            /\ Keeps("lens") => cam.lens = s["lens"]
                            /\ Keeps("ev") => cam.ev = s["ev"]
                            /\ Keeps("shutter") /\ s["manual"] = 1 => cam.shutter = s["shutter"]
                            /\ Keeps("temp") /\ s["wbManual"] = 1 => cam.temp = s["temp"]
                            /\ Keeps("focus") /\ s["focus"] = 1 => cam.focus = 1
                            /\ Keeps("torch") /\ s["back"] # Front => live.torch = s["torch"]
                       /\ Keeps("stabMode") => live.stabMode = s["stabMode"]
                       /\ Keeps("rate") /\ Keeps("adaptive") =>
                            live.rate = IF s["adaptive"] = 1 THEN Adaptive ELSE s["rate"]
  BY DEF PictureAsChosen
<1> DEFINE s == registry[p]
           cam == phone[p].cam[phone[p].conf["back"]]
           live == phone[p].live
<1>1. ASSUME NEW a \in Aspects, Claimed(s, a)
      PROVE  Doubt(unsure[p], a) \/ Agrees(phone[p], a, Wanted(s, a))
  BY <1>1, SettledInForce
<1>2. \A a \in CameraAspects : Has(phone[p], a) = cam[a]
  BY AspectKinds DEF Has
<1>3. \A a \in LiveAspects : Has(phone[p], a) = live[a]
  BY DEF Has
<1>4. "back" \notin unsure[p] => phone[p].conf["back"] = s["back"]
  BY SettledFaces
<1> HIDE DEF s, cam, live
<1>5. ASSUME NEW a \in CameraAspects, Claimed(s, a), a \notin unsure[p] PROVE cam[a] = s[a]
  <2>1. a \in Aspects /\ a # "rate" /\ a # "torch"
    BY DEF Aspects, CameraAspects
  <2> QED BY <1>1, <1>2, <1>5, <2>1 DEF Doubt, Agrees, Wanted
<1>6. /\ "lens" \notin unsure[p] => cam["lens"] = s["lens"]
      /\ "ev" \notin unsure[p] => cam["ev"] = s["ev"]
      /\ "shutter" \notin unsure[p] /\ s["manual"] = 1 => cam["shutter"] = s["shutter"]
      /\ "temp" \notin unsure[p] /\ s["wbManual"] = 1 => cam["temp"] = s["temp"]
      /\ "focus" \notin unsure[p] /\ s["focus"] = 1 => cam["focus"] = 1
  BY <1>5 DEF CameraAspects, Claimed
<1>7. "stabMode" \notin unsure[p] => live["stabMode"] = s["stabMode"]
  <2>1. "stabMode" \in Aspects /\ "stabMode" \in LiveAspects /\ Claimed(s, "stabMode")
    BY DEF Aspects, LiveAspects, Claimed
  <2> QED BY <1>1, <1>3, <2>1 DEF Doubt, Agrees, Wanted
<1>8. "rate" \notin unsure[p] /\ "adaptive" \notin unsure[p] =>
        live["rate"] = IF s["adaptive"] = 1 THEN Adaptive ELSE s["rate"]
  <2>1. "rate" \in Aspects /\ "rate" \in LiveAspects /\ Claimed(s, "rate")
    BY DEF Aspects, LiveAspects, Claimed
  <2> QED BY <1>1, <1>3, <2>1 DEF Doubt, Agrees, Wanted
<1>9. "back" \notin unsure[p] /\ "torch" \notin unsure[p] /\ s["back"] # Front =>
        live["torch"] = s["torch"]
  <2>1. "torch" \in Aspects /\ "torch" \in LiveAspects /\ Claimed(s, "torch")
    BY DEF Aspects, LiveAspects, Claimed
  <2> QED BY <1>1, <1>3, <1>4, <2>1 DEF Doubt, Agrees, Wanted
<1> QED BY <1>6, <1>7, <1>8, <1>9 DEF s, cam, live

\* The stream the PC believes in is the stream the iPhone is configured for,
\* once it has handled all that was sent: toggles, deltas, restarts and
\* reconnections add up, for any phones and any number of changes
\* (application.cpp:138-153, 347-353; StreamController.swift:386-390).
THEOREM ConfigAlwaysAsChosen == Spec => []ConfigAsChosen
<1>1. Init => ControlsInv /\ PictureInv
  BY ControlsInvInitially, PictureInvInitially
<1>2. ControlsInv /\ PictureInv /\ [Next]_vars => (ControlsInv /\ PictureInv)'
  BY ControlsInvKept, PictureInvKept
<1>3. ControlsInv /\ PictureInv => ConfigAsChosen
  BY ConfigSettled
<1> QED BY <1>1, <1>2, <1>3, PTL DEF Spec

\* What the user set by hand is in force on the camera in use, or on the list of
\* settings whose hold the code does not promise.
THEOREM PictureAlwaysAsChosen == Spec => []PictureAsChosen
<1>1. Init => ControlsInv /\ PictureInv
  BY ControlsInvInitially, PictureInvInitially
<1>2. ControlsInv /\ PictureInv /\ [Next]_vars => (ControlsInv /\ PictureInv)'
  BY ControlsInvKept, PictureInvKept
<1>3. ControlsInv /\ PictureInv => PictureAsChosen
  BY PictureSettled
<1> QED BY <1>1, <1>2, <1>3, PTL DEF Spec

=============================================================================
