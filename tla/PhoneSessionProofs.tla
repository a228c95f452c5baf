-------------------------- MODULE PhoneSessionProofs --------------------------
(***************************************************************************)
(* Proofs about PhoneSession, for any number of calls to connect(), whether*)
(* they overlap or not, and of commands.                                   *)
(***************************************************************************)
EXTENDS PhoneSession, SequenceTheorems, TLAPS

States == {"idle", "connecting", "connected", "failed"}
Steps == {"none", "start", "authorise", "denied", "bring up",
          "naming", "dial", "dialled", "tail", "done"}
Places == [step : Steps, usb : BOOLEAN, loopback : BOOLEAN]
Awaited == {"start", "name", "tail"}

\* The jobs there are: handle(controlState:) never publishes .connected.
Posted == [do : {"control"}, state : States]
            \cup [do : {"show"}, state : {"disconnected", "connecting", "failed"}]
            \cup [do : {"command"}, command : Command]
            \cup [do : Awaited, dialer : Dialer]

\* TypeOK, with only the jobs that are really posted in the queue.
SessionTypes ==
  /\ main \in Seq(Posted)
  /\ shown \in {"disconnected", "connecting", "connected", "failed"}
  /\ dialer \in [Dialer -> Places]
  /\ on \subseteq Resource /\ capture \in {"off", "on", "stopping"}
  /\ control \in [state : States, link : {"none", "preparing", "open", "broken"}]
  /\ callbacks \in Seq({"ready", "failed", "cancelled"}) /\ lostReceives \in Nat
  /\ commands \in 0 .. MaxCommands
  /\ {useUsbLoopback, astir, crossed, overlapped, again, misnamed} \subseteq BOOLEAN

\* What ShutDown says is inductive: whoever takes something into use sets astir.
Unused == on = {} /\ capture # "on" /\ ~useUsbLoopback /\ control.link = "none"
ShutInv == SessionTypes /\ (~astir => Unused)

LEMMA PostedJobs ==
  /\ Posted \subseteq Job
  /\ \A job \in Posted :
       /\ job.do \in {"control", "show", "command"} \cup Awaited
       /\ job.do = "control" => job.state \in States
       /\ job.do = "show" => job.state \in {"disconnected", "connecting", "failed"}
       /\ job.do = "command" => job.command \in Command
       /\ job.do \in Awaited => job.dialer \in Dialer
  /\ \A s \in States : [do |-> "control", state |-> s] \in Posted
  /\ \A s \in {"disconnected", "connecting", "failed"} : [do |-> "show", state |-> s] \in Posted
  /\ \A c \in Command : [do |-> "command", command |-> c] \in Posted
  /\ \A w \in Awaited, d \in Dialer : [do |-> w, dialer |-> d] \in Posted
BY DEF Posted, Job, Awaited, States

LEMMA Appending ==
  ASSUME SessionTypes, NEW job \in Posted
  PROVE  Append(main, job) \in Seq(Posted)
BY DEF SessionTypes

LEMMA ShutInvSuffices == ShutInv => ShutDown
<1> SUFFICES ASSUME ShutInv PROVE ShutDown
  OBVIOUS
<1>1. main \in Seq(Job)
  BY PostedJobs, SeqMonotonic DEF ShutInv, SessionTypes
<1>2. TypeOK
  BY <1>1 DEF ShutInv, SessionTypes, TypeOK, Places, Steps, States
<1> QED BY <1>2 DEF ShutInv, Unused, ShutDown

\* No capture, listener, channel, ... before the first connect().
LEMMA ShutInvInitially == Init => ShutInv
<1> SUFFICES ASSUME Init PROVE ShutInv
  OBVIOUS
<1>1. main \in Seq(Posted) /\ callbacks \in Seq({"ready", "failed", "cancelled"})
  BY EmptySeq DEF Init
<1>2. dialer \in [Dialer -> Places]
  BY DEF Init, Places, Steps
<1>3. SessionTypes
  <2>1. control \in [state : States, link : {"none", "preparing", "open", "broken"}]
    BY DEF Init, States
  <2>2. commands \in 0 .. MaxCommands
    BY BoundsAssumption DEF Init
  <2> QED BY <1>1, <1>2, <2>1, <2>2 DEF Init, SessionTypes
<1>4. Unused
  BY DEF Init, Unused
<1> QED BY <1>3, <1>4 DEF ShutInv

\* connect() number d goes on.
GoesOn(d, to) ==
  /\ dialer' \in [Dialer -> Places] /\ dialer'[d].step = to /\ dialer'[d].usb = dialer[d].usb
  /\ \A e \in Dialer \ {d} : dialer'[e] = dialer[e]

LEMMA Going ==
  ASSUME SessionTypes, NEW d \in Dialer, NEW to \in Steps,
         dialer' = [dialer EXCEPT ![d].step = to]
  PROVE  GoesOn(d, to) /\ dialer'[d].loopback = dialer[d].loopback
BY DEF SessionTypes, Places, GoesOn

LEMMA GoingNamed ==
  ASSUME SessionTypes, NEW d \in Dialer, NEW to \in Steps,
         dialer' = [dialer EXCEPT ![d].step = to, ![d].loopback = useUsbLoopback]
  PROVE  GoesOn(d, to) /\ dialer'[d].loopback = useUsbLoopback
<1>1. useUsbLoopback \in BOOLEAN
  BY DEF SessionTypes
<1> QED BY <1>1 DEF SessionTypes, Places, GoesOn

\* What StateChange and Published put at the end of the queue.
LEMMA Postings ==
  ASSUME SessionTypes, NEW q \in Seq(Posted), NEW s \in States
  PROVE  /\ q \o StateChange(s) = IF control.state = s THEN q
                                  ELSE Append(q, [do |-> "control", state |-> s])
         /\ q \o Published(s) = IF s = "connected" THEN q
                                ELSE Append(q, [do |-> "show",
                                                state |-> IF s = "idle" THEN "disconnected" ELSE s])
         /\ q \o StateChange(s) \in Seq(Posted) /\ q \o Published(s) \in Seq(Posted)
<1>1. \A job \in Posted : q \o <<job>> = Append(q, job) /\ Append(q, job) \in Seq(Posted)
  OBVIOUS
<1>2. q \o <<>> = q
  OBVIOUS
<1>3. q \o StateChange(s) = IF control.state = s THEN q
                            ELSE Append(q, [do |-> "control", state |-> s])
  BY <1>1, <1>2, PostedJobs DEF StateChange
<1>4. s \in {"connecting", "failed"} \/ s = "idle" \/ s = "connected"
  BY DEF States
<1>5. Published(s) = IF s = "connected" THEN <<>>
                     ELSE <<[do |-> "show", state |-> IF s = "idle" THEN "disconnected" ELSE s]>>
  BY <1>4 DEF Published, Publish
<1>6. q \o Published(s) = IF s = "connected" THEN q
                          ELSE Append(q, [do |-> "show",
                                          state |-> IF s = "idle" THEN "disconnected" ELSE s])
  BY <1>1, <1>2, <1>4, <1>5, PostedJobs
<1> QED BY <1>1, <1>3, <1>4, <1>6, PostedJobs

Reports == {"ready", "failed", "cancelled"}
LEMMA Cancelling ==
  ASSUME NEW q \in Seq(Reports)
  PROVE  q \o CancelPosts \in Seq(Reports) /\ CancelReceives \in Nat
<1>1. CancelPosts \in Seq(Reports)
  <2>1. <<>> \in Seq(Reports) /\ <<"cancelled">> \in Seq(Reports)
    BY DEF Reports
  <2> QED BY <2>1 DEF CancelPosts
<1> QED BY <1>1, ConcatProperties DEF CancelReceives

LEMMA NetworkKeepsTypes ==
  ASSUME ShutInv,
         \/ \E s \in {"ready", "failed"} : LinkReports(s)
         \/ Callback \/ ReceiveEnds \/ \E c \in Command : CommandArrives(c)
  PROVE  ShutInv'
<1>0. SessionTypes /\ callbacks \in Seq(Reports)
  BY DEF ShutInv, SessionTypes, Reports
<1>1. ASSUME NEW s \in {"ready", "failed"}, LinkReports(s) PROVE ShutInv'
  <2>1. control' \in [state : States, link : {"none", "preparing", "open", "broken"}]
    BY <1>0, <1>1 DEF LinkReports, SessionTypes
  <2>2. callbacks' \in Seq({"ready", "failed", "cancelled"})
    BY <1>0, <1>1 DEF LinkReports, SessionTypes
  <2>3. SessionTypes' /\ astir' = astir /\ astir
    BY <1>0, <1>1, <2>1, <2>2 DEF LinkReports, SessionTypes, ShutInv, Unused, uiVars, heldVars, pastVars
  <2> QED BY <2>3 DEF ShutInv
<1>2. CASE Callback
  <2>1. callbacks # <<>> /\ Head(callbacks) \in Reports /\ Tail(callbacks) \in Seq(Reports)
    BY <1>0, <1>2, HeadTailProperties DEF Callback
  <2>2. PICK s \in {"connected", "failed", "idle"} :
          /\ control' = [state |-> s, link |-> IF s = "failed" THEN "none" ELSE control.link]
          /\ callbacks' = Tail(callbacks) \o IF s = "failed" THEN CancelPosts ELSE <<>>
          /\ lostReceives' = lostReceives + IF s = "failed" THEN CancelReceives ELSE 0
          /\ main' = main \o StateChange(s)
    BY <1>2, <2>1 DEF Callback, Reports
  <2>3. callbacks' \in Seq(Reports) /\ CancelReceives \in Nat
    BY <2>1, <2>2, Cancelling
  <2>4. main' \in Seq(Posted)
    BY <1>0, <2>2, Postings DEF SessionTypes, States
  <2>5. SessionTypes'
    BY <1>0, <1>2, <2>2, <2>3, <2>4 DEF Callback, SessionTypes, heldVars, pastVars, States, Reports
  <2>6. (~astir => Unused)'
    BY <1>2, <2>2 DEF Callback, ShutInv, Unused, heldVars, pastVars
  <2> QED BY <2>5, <2>6 DEF ShutInv
<1>3. CASE ReceiveEnds
  <2>1. PICK s \in {"failed", "idle"} :
          /\ lostReceives' \in {lostReceives - 1 + CancelReceives, lostReceives}
          /\ lostReceives' # lostReceives => lostReceives > 0
          /\ control' = [state |-> s, link |-> "none"]
          /\ callbacks' = callbacks \o CancelPosts
          /\ main' = main \o StateChange(s)
    BY <1>3 DEF ReceiveEnds
  <2>2. callbacks' \in Seq(Reports) /\ lostReceives' \in Nat
    BY <1>0, <2>1, Cancelling DEF SessionTypes
  <2>3. main' \in Seq(Posted)
    BY <1>0, <2>1, Postings DEF SessionTypes, States
  <2>4. SessionTypes'
    BY <1>0, <1>3, <2>1, <2>2, <2>3 DEF ReceiveEnds, SessionTypes, heldVars, pastVars, States, Reports
  <2>5. (~astir => Unused)'
    BY <1>3, <2>1 DEF ReceiveEnds, ShutInv, Unused, heldVars, pastVars
  <2> QED BY <2>4, <2>5 DEF ShutInv
<1>4. ASSUME NEW c \in Command, CommandArrives(c) PROVE ShutInv'
  <2>1. main' \in Seq(Posted)
    BY <1>0, <1>4, PostedJobs DEF CommandArrives, SessionTypes
  <2>2. commands' \in 0 .. MaxCommands
    BY <1>0, <1>4, BoundsAssumption DEF CommandArrives, SessionTypes
  <2>3. SessionTypes'
    BY <1>0, <1>4, <2>1, <2>2 DEF CommandArrives, SessionTypes, heldVars, netVars
  <2>4. (~astir => Unused)'
    BY <1>4 DEF CommandArrives, ShutInv, Unused, heldVars, netVars
  <2> QED BY <2>3, <2>4 DEF ShutInv
<1> QED BY <1>1, <1>2, <1>3, <1>4

LEMMA UserKeepsTypes ==
  ASSUME ShutInv,
         \/ \E d \in Dialer, usb \in BOOLEAN : Tap(d, usb)
         \/ Disconnect \/ Snap \/ CaptureStops
  PROVE  ShutInv'
<1>0. SessionTypes /\ callbacks \in Seq(Reports)
  BY DEF ShutInv, SessionTypes, Reports
<1>1. ASSUME NEW d \in Dialer, NEW usb \in BOOLEAN, Tap(d, usb) PROVE ShutInv'
  <2>1. main' \in Seq(Posted)
    BY <1>0, <1>1, PostedJobs DEF Tap, SessionTypes, Awaited
  <2>2. dialer' \in [Dialer -> Places]
    BY <1>0, <1>1 DEF Tap, SessionTypes, Places, Steps
  <2>3. useUsbLoopback' \in BOOLEAN /\ astir' = TRUE /\ again' \in BOOLEAN
    BY <1>0, <1>1 DEF Tap, Loopback, SessionTypes
  <2>4. SessionTypes'
    BY <1>0, <1>1, <2>1, <2>2, <2>3 DEF Tap, SessionTypes, heldVars, netVars
  <2> QED BY <2>3, <2>4 DEF ShutInv
<1>2. CASE Disconnect
  <2>1. main' \in Seq(Posted)
    BY <1>0, <1>2, PostedJobs DEF Disconnect, Ended, SessionTypes
  <2>2. callbacks' \in Seq(Reports) /\ lostReceives' \in Nat
    BY <1>0, <1>2, Cancelling DEF Disconnect, SessionTypes
  <2>3. control' \in [state : States, link : {"none", "preparing", "open", "broken"}] /\ control'.link = "none"
    BY <1>0, <1>2 DEF Disconnect, SessionTypes
  <2>4. on' = {} /\ capture' \in {"off", "stopping"} /\ useUsbLoopback' = FALSE /\ astir' = FALSE
    BY <1>0, <1>2 DEF Disconnect, Kept, SessionTypes
  <2>5. SessionTypes'
    BY <1>0, <1>2, <2>1, <2>2, <2>3, <2>4 DEF Disconnect, SessionTypes, Reports
  <2> QED BY <2>3, <2>4, <2>5 DEF ShutInv, Unused
<1>3. CASE Snap \/ CaptureStops
  <2>1. on' \subseteq on /\ capture' \in {capture, "off"} /\ UNCHANGED <<uiVars, netVars, pastVars>>
    BY <1>3 DEF Snap, CaptureStops
  <2>2. SessionTypes'
    BY <1>0, <2>1 DEF SessionTypes, uiVars, netVars, pastVars
  <2>3. (~astir => Unused)'
    BY <2>1 DEF ShutInv, Unused, uiVars, netVars, pastVars
  <2> QED BY <2>2, <2>3 DEF ShutInv
<1> QED BY <1>1, <1>2, <1>3

LEMMA ConnectingKeepsTypes ==
  ASSUME ShutInv, NEW d \in Dialer, Connecting(d)
  PROVE  ShutInv'
<1>0. SessionTypes /\ callbacks \in Seq(Reports)
  BY DEF ShutInv, SessionTypes, Reports
<1>1. CASE Authorise(d)
  <2>1. PICK to \in {"bring up", "denied"} :
          /\ dialer' = [dialer EXCEPT ![d].step = to] /\ astir' = TRUE
          /\ main' \in {main, Append(main, [do |-> "show", state |-> "failed"])}
          /\ UNCHANGED <<shown, useUsbLoopback, heldVars, netVars, overlapped, misnamed,
                         commands, crossed, again>>
    BY <1>1 DEF Authorise, Resume
  <2>2. main' \in Seq(Posted)
    <3>1. [do |-> "show", state |-> "failed"] \in Posted
      BY PostedJobs
    <3>2. main \in Seq(Posted) /\ Append(main, [do |-> "show", state |-> "failed"]) \in Seq(Posted)
      BY <1>0, <3>1, Appending DEF SessionTypes
    <3> QED BY <2>1, <3>2
  <2>3. dialer' \in [Dialer -> Places]
    BY <1>0, <2>1, Going DEF GoesOn, Steps
  <2>4. SessionTypes'
    BY <1>0, <2>1, <2>2, <2>3 DEF SessionTypes, heldVars, netVars
  <2> QED BY <2>1, <2>4 DEF ShutInv
<1>2. CASE BringUp(d)
  <2>1. main' \in Seq(Posted)
    <3>1. [do |-> "name", dialer |-> d] \in Posted
      BY PostedJobs DEF Awaited
    <3>2. main' = Append(main, [do |-> "name", dialer |-> d])
      BY <1>2 DEF BringUp
    <3> QED BY <1>0, <3>1, <3>2, Appending
  <2>2. dialer' \in [Dialer -> Places]
    BY <1>0, <1>2, GoingNamed DEF BringUp, GoesOn, Steps
  <2>3. capture' \in {"off", "on", "stopping"} /\ on' \subseteq Resource /\ astir' = TRUE
    BY <1>0, <1>2 DEF BringUp, Drained, SessionTypes, Resource
  <2>4. SessionTypes'
    BY <1>0, <1>2, <2>1, <2>2, <2>3 DEF BringUp, SessionTypes, netVars
  <2> QED BY <2>3, <2>4 DEF ShutInv
<1>3. CASE Dial(d)
  <2>1. dialer' \in [Dialer -> Places]
    BY <1>0, <1>3, Going DEF Dial, Resume, GoesOn, Steps
  <2>2. callbacks' \in Seq(Reports) /\ lostReceives' \in Nat
    BY <1>0, <1>3, Cancelling DEF Dial, SessionTypes
  <2>3. main' \in Seq(Posted)
    BY <1>0, <1>3, Postings DEF Dial, SessionTypes, States
  <2>4. overlapped' \in BOOLEAN /\ misnamed' \in BOOLEAN /\ astir' = TRUE
    BY <1>0, <1>3 DEF Dial, Resume, SessionTypes
  <2>5. SessionTypes'
    BY <1>0, <1>3, <2>1, <2>2, <2>3, <2>4 DEF Dial, Resume, SessionTypes, Reports, States, Resource
  <2> QED BY <2>4, <2>5 DEF ShutInv
<1>4. CASE PostTail(d)
  <2>1. dialer' \in [Dialer -> Places]
    BY <1>0, <1>4, Going DEF PostTail, Resume, GoesOn, Steps
  <2>2. main' \in Seq(Posted)
    BY <1>0, <1>4, PostedJobs DEF PostTail, SessionTypes, Awaited
  <2>3. SessionTypes' /\ astir' = TRUE
    BY <1>0, <1>4, <2>1, <2>2 DEF PostTail, Resume, SessionTypes, heldVars, netVars
  <2> QED BY <2>3 DEF ShutInv
<1> QED BY <1>1, <1>2, <1>3, <1>4 DEF Connecting

\* The step an awaited job is posted at, and the one after it.
StepOf(do) == IF do = "name" THEN "naming" ELSE do
After(do) == IF do = "start" THEN "authorise" ELSE IF do = "name" THEN "dial" ELSE "done"

LEMMA AwaitedRuns ==
  ASSUME SessionTypes, NEW job \in Posted, AwaitedJob(job)
  PROVE  /\ job.do \in Awaited /\ job.dialer \in Dialer
         /\ GoesOn(job.dialer, After(job.do))
         /\ dialer'[job.dialer].loopback = dialer[job.dialer].loopback
         /\ shown' = IF job.do = "start" THEN "connecting"
                     ELSE IF job.do = "tail" THEN "connected" ELSE shown
         /\ main' = Tail(main) /\ UNCHANGED <<heldVars, astir, crossed>>
<1>1. job.do \in Awaited /\ job.dialer \in Dialer
  BY PostedJobs DEF AwaitedJob, Awaited
<1>2. dialer' = [dialer EXCEPT ![job.dialer].step = After(job.do)]
  <2>1. CASE job.do = "start"
    BY <2>1 DEF AwaitedJob, After
  <2>2. CASE job.do = "name"
    BY <2>2 DEF AwaitedJob, After
  <2>3. CASE job.do = "tail"
    BY <2>3 DEF AwaitedJob, After
  <2> QED BY <1>1, <2>1, <2>2, <2>3 DEF Awaited
<1>3. After(job.do) \in Steps
  BY DEF After, Steps
<1>4. GoesOn(job.dialer, After(job.do)) /\ dialer'[job.dialer].loopback = dialer[job.dialer].loopback
  BY <1>1, <1>2, <1>3, Going
<1>5. shown' = IF job.do = "start" THEN "connecting"
               ELSE IF job.do = "tail" THEN "connected" ELSE shown
  BY <1>1 DEF AwaitedJob, Awaited
<1> QED BY <1>1, <1>4, <1>5 DEF AwaitedJob

LEMMA JobKeepsTypes ==
  ASSUME ShutInv, RunJob
  PROVE  ShutInv'
<1> DEFINE job == Head(main)
<1>0. SessionTypes /\ main \in Seq(Posted) /\ main # <<>>
  BY DEF ShutInv, SessionTypes, RunJob
<1>1. /\ job \in Posted /\ Tail(main) \in Seq(Posted)
      /\ ControlJob(job) \/ CommandJob(job) \/ ShowJob(job) \/ AwaitedJob(job)
      /\ UNCHANGED <<useUsbLoopback, netVars, commands, overlapped, again, misnamed>>
  BY <1>0, HeadTailProperties DEF RunJob
<1> HIDE DEF job
<1>2. CASE ControlJob(job)
  <2>1. job.state \in States
    BY <1>1, <1>2, PostedJobs DEF ControlJob
  <2>2. main' \in Seq(Posted)
    BY <1>0, <1>1, <1>2, <2>1, Postings DEF ControlJob
  <2>3. crossed' \in BOOLEAN
    BY <1>0, <1>2 DEF ControlJob, SessionTypes
  <2>4. SessionTypes' /\ (~astir => Unused)'
    BY <1>0, <1>1, <1>2, <2>2, <2>3 DEF ControlJob, ShutInv, Unused, SessionTypes, heldVars, netVars
  <2> QED BY <2>4 DEF ShutInv
<1>3. CASE CommandJob(job)
  <2>1. on' \subseteq Resource /\ capture' \in {"off", "on", "stopping"} /\ astir' = TRUE
    BY <1>0, <1>3 DEF CommandJob, HandleCommand, Drained, SessionTypes, Resource
  <2>2. SessionTypes'
    BY <1>0, <1>1, <1>3, <2>1 DEF CommandJob, SessionTypes, netVars
  <2> QED BY <2>1, <2>2 DEF ShutInv
<1>4. CASE ShowJob(job)
  <2>1. shown' \in {"disconnected", "connecting", "failed"}
    BY <1>1, <1>4, PostedJobs DEF ShowJob
  <2>2. SessionTypes' /\ (~astir => Unused)'
    BY <1>0, <1>1, <1>4, <2>1 DEF ShowJob, ShutInv, Unused, SessionTypes, heldVars, netVars
  <2> QED BY <2>2 DEF ShutInv
<1>5. CASE AwaitedJob(job)
  <2>1. /\ dialer' \in [Dialer -> Places] /\ main' = Tail(main)
        /\ shown' \in {"connecting", "connected", shown} /\ UNCHANGED <<heldVars, astir, crossed>>
    BY <1>0, <1>1, <1>5, AwaitedRuns DEF GoesOn
  <2>2. SessionTypes' /\ (~astir => Unused)'
    BY <1>0, <1>1, <2>1 DEF ShutInv, Unused, SessionTypes, heldVars, netVars
  <2> QED BY <2>2 DEF ShutInv
<1> QED BY <1>1, <1>2, <1>3, <1>4, <1>5

LEMMA ShutInvKept == ShutInv /\ [Next]_vars => ShutInv'
<1> SUFFICES ASSUME ShutInv, [Next]_vars PROVE ShutInv'
  OBVIOUS
<1>1. CASE Next
  BY <1>1, NetworkKeepsTypes, UserKeepsTypes, ConnectingKeepsTypes, JobKeepsTypes DEF Next
<1>2. CASE UNCHANGED vars
  BY <1>2 DEF vars, uiVars, heldVars, netVars, pastVars, ShutInv, SessionTypes, Unused
<1> QED BY <1>1, <1>2

(***************************************************************************)
(* SessionShutsDown: after disconnect() nothing stays in use, for any      *)
(* number of sessions and commands (StreamController.disconnect).  The     *)
(* types of the session are part of it.                                    *)
(***************************************************************************)
THEOREM SessionShutsDown == Spec => []ShutDown
<1>1. Init => ShutInv
  BY ShutInvInitially
<1>2. ShutInv /\ [Next]_vars => ShutInv'
  BY ShutInvKept
<1>3. ShutInv => ShutDown
  BY ShutInvSuffices
<1> QED BY <1>1, <1>2, <1>3, PTL DEF Spec

(***************************************************************************)
(* The jobs connect() waits for.                                           *)
(***************************************************************************)
Waiting == {"start", "naming", "tail"}

\* A job connect() waits for finds it where it was posted, and there is one.
AwaitsOne(q, dl) ==
  /\ \A i \in 1 .. Len(q) : q[i].do \in Awaited => dl[q[i].dialer].step = StepOf(q[i].do)
  /\ \A i, j \in 1 .. Len(q) : i # j /\ q[i].do \in Awaited /\ q[j].do \in Awaited =>
                                 q[i].dialer # q[j].dialer

AwaitInv == AwaitsOne(main, dialer)

Others(d, dl, dl2) == \A e \in Dialer \ {d} : dl2[e] = dl[e]

LEMMA AwaitKept ==
  ASSUME NEW q \in Seq(Posted), NEW dl, NEW dl2, NEW d \in Dialer, AwaitsOne(q, dl),
         dl[d].step \notin Waiting, Others(d, dl, dl2)
  PROVE  AwaitsOne(q, dl2)
<1>1. ASSUME NEW i \in 1 .. Len(q), q[i].do \in Awaited PROVE dl2[q[i].dialer] = dl[q[i].dialer]
  <2>1. q[i] \in Posted /\ StepOf(q[i].do) \in Waiting
    BY <1>1, ElementOfSeq DEF StepOf, Waiting, Awaited
  <2>2. q[i].dialer \in Dialer /\ dl[q[i].dialer].step = StepOf(q[i].do)
    BY <1>1, <2>1, PostedJobs DEF AwaitsOne
  <2>3. q[i].dialer # d
    BY <2>1, <2>2
  <2> QED BY <2>2, <2>3 DEF Others
<1> QED BY <1>1 DEF AwaitsOne

LEMMA AwaitAppend ==
  ASSUME NEW q \in Seq(Posted), NEW dl, AwaitsOne(q, dl), NEW job \in Posted,
         job.do \in Awaited => /\ dl[job.dialer].step = StepOf(job.do)
                               /\ \A i \in 1 .. Len(q) : q[i].do \in Awaited => q[i].dialer # job.dialer
  PROVE  AwaitsOne(Append(q, job), dl)
<1> DEFINE r == Append(q, job)
<1>1. Len(r) = Len(q) + 1 /\ Len(q) \in Nat
      /\ r[Len(q) + 1] = job /\ \A i \in 1 .. Len(q) : r[i] = q[i]
  OBVIOUS
<1> HIDE DEF r
<1>2. ASSUME NEW i \in 1 .. Len(r), r[i].do \in Awaited PROVE dl[r[i].dialer].step = StepOf(r[i].do)
  BY <1>1, <1>2 DEF AwaitsOne
<1>3. ASSUME NEW i \in 1 .. Len(r), NEW j \in 1 .. Len(r), i # j,
             r[i].do \in Awaited, r[j].do \in Awaited
      PROVE  r[i].dialer # r[j].dialer
  <2>1. CASE i \in 1 .. Len(q) /\ j \in 1 .. Len(q)
    BY <1>1, <1>3, <2>1 DEF AwaitsOne
  <2>2. CASE i = Len(q) + 1 /\ j \in 1 .. Len(q)
    BY <1>1, <1>3, <2>2
  <2>3. CASE i \in 1 .. Len(q) /\ j = Len(q) + 1
    BY <1>1, <1>3, <2>3
  <2> QED BY <1>1, <1>3, <2>1, <2>2, <2>3
<1>4. AwaitsOne(r, dl)
  BY <1>2, <1>3 DEF AwaitsOne
<1> QED BY <1>4 DEF r

LEMMA AwaitPosted ==
  ASSUME NEW q \in Seq(Posted), NEW dl, NEW dl2, AwaitsOne(q, dl), NEW job \in Posted,
         job.do \in Awaited, dl[job.dialer].step \notin Waiting,
         dl2[job.dialer].step = StepOf(job.do), Others(job.dialer, dl, dl2)
  PROVE  AwaitsOne(Append(q, job), dl2)
<1>1. job.dialer \in Dialer
  BY PostedJobs
<1>2. AwaitsOne(q, dl2)
  BY <1>1, AwaitKept
<1>3. ASSUME NEW i \in 1 .. Len(q), q[i].do \in Awaited PROVE q[i].dialer # job.dialer
  <2>1. StepOf(q[i].do) \in Waiting /\ dl[q[i].dialer].step = StepOf(q[i].do)
    BY <1>3 DEF StepOf, Waiting, Awaited, AwaitsOne
  <2> QED BY <2>1
<1> QED BY <1>2, <1>3, AwaitAppend

LEMMA AwaitTail ==
  ASSUME NEW q \in Seq(Posted), q # <<>>, NEW dl, AwaitsOne(q, dl)
  PROVE  /\ AwaitsOne(Tail(q), dl)
         /\ Head(q).do \in Awaited =>
              /\ dl[Head(q).dialer].step = StepOf(Head(q).do)
              /\ \A dl2 : Others(Head(q).dialer, dl, dl2) => AwaitsOne(Tail(q), dl2)
<1> DEFINE r == Tail(q)
<1>1. /\ Len(q) \in Nat \ {0} /\ Len(r) = Len(q) - 1 /\ q[1] = Head(q)
      /\ \A i \in 1 .. Len(r) : r[i] = q[i + 1] /\ i + 1 \in 2 .. Len(q)
  OBVIOUS
<1>2. r \in Seq(Posted)
  BY HeadTailProperties
<1> HIDE DEF r
<1>3. AwaitsOne(r, dl)
  <2>1. \A i \in 1 .. Len(r) : r[i].do \in Awaited => dl[r[i].dialer].step = StepOf(r[i].do)
    BY <1>1 DEF AwaitsOne
  <2>2. \A i, j \in 1 .. Len(r) : i # j => i + 1 # j + 1
    BY <1>1
  <2>3. \A i, j \in 1 .. Len(r) : i # j /\ r[i].do \in Awaited /\ r[j].do \in Awaited =>
                                    r[i].dialer # r[j].dialer
    BY <1>1, <2>2 DEF AwaitsOne
  <2> QED BY <2>1, <2>3 DEF AwaitsOne
<1>4. ASSUME Head(q).do \in Awaited, NEW dl2, Others(Head(q).dialer, dl, dl2)
      PROVE  AwaitsOne(r, dl2)
  <2>1. ASSUME NEW i \in 1 .. Len(r), r[i].do \in Awaited PROVE dl2[r[i].dialer] = dl[r[i].dialer]
    <3>1. r[i].dialer # Head(q).dialer
      <4>1. i + 1 # 1 /\ i + 1 \in 1 .. Len(q) /\ 1 \in 1 .. Len(q) /\ r[i] = q[i + 1]
        BY <1>1
      <4> QED BY <1>1, <1>4, <2>1, <4>1 DEF AwaitsOne
    <3>2. r[i] \in Posted
      BY <1>2, ElementOfSeq
    <3>3. r[i].dialer \in Dialer
      BY <2>1, <3>2, PostedJobs
    <3> QED BY <1>4, <3>1, <3>3 DEF Others
  <2> QED BY <1>3, <2>1 DEF AwaitsOne
<1>5. Head(q).do \in Awaited => dl[Head(q).dialer].step = StepOf(Head(q).do)
  <2>1. 1 \in 1 .. Len(q)
    BY <1>1
  <2> QED BY <1>1, <2>1 DEF AwaitsOne
<1> QED BY <1>3, <1>4, <1>5 DEF r

LEMMA AwaitInvKept ==
  ASSUME SessionTypes, AwaitInv, Next
  PROVE  AwaitInv'
<1>0. main \in Seq(Posted) /\ AwaitsOne(main, dialer)
  BY DEF SessionTypes, AwaitInv
<1>1. ASSUME NEW job \in Posted, job.do \notin Awaited, main' = Append(main, job), dialer' = dialer
      PROVE  AwaitInv'
  BY <1>0, <1>1, AwaitAppend DEF AwaitInv
<1>2. ASSUME main' = main, dialer' = dialer
      PROVE  AwaitInv'
  BY <1>0, <1>2 DEF AwaitInv
<1>3. ASSUME NEW d \in Dialer, NEW job \in Posted, job.do \in Awaited, job.dialer = d,
             main' = Append(main, job), dialer[d].step \notin Waiting,
             dialer'[d].step = StepOf(job.do), Others(d, dialer, dialer')
      PROVE  AwaitInv'
  BY <1>0, <1>3, AwaitPosted DEF AwaitInv
<1>4. ASSUME NEW d \in Dialer, dialer[d].step \notin Waiting, Others(d, dialer, dialer'),
             \/ main' = main
             \/ \E job \in Posted : job.do \notin Awaited /\ main' = Append(main, job)
      PROVE  AwaitInv'
  <2>1. AwaitsOne(main, dialer')
    BY <1>0, <1>4, AwaitKept
  <2> QED BY <1>0, <1>4, <2>1, AwaitAppend DEF AwaitInv
<1>5. ASSUME NEW s \in States, main' = main \o StateChange(s), dialer' = dialer PROVE AwaitInv'
  <2>1. main' = IF control.state = s THEN main ELSE Append(main, [do |-> "control", state |-> s])
    BY <1>0, <1>5, Postings
  <2>2. [do |-> "control", state |-> s] \in Posted /\ [do |-> "control", state |-> s].do \notin Awaited
    BY PostedJobs DEF Awaited
  <2> QED BY <1>1, <1>2, <1>5, <2>1, <2>2
<1>6. CASE Callback
  <2>1. callbacks # <<>> /\ Head(callbacks) \in Reports
    BY <1>6, HeadTailProperties DEF Callback, SessionTypes, Reports
  <2>2. \E s \in States : main' = main \o StateChange(s)
    BY <1>6, <2>1 DEF Callback, Reports, States
  <2>3. dialer' = dialer
    BY <1>6 DEF Callback
  <2> QED BY <1>5, <2>2, <2>3
<1>7. CASE ReceiveEnds
  BY <1>5, <1>7 DEF ReceiveEnds, States
<1>8. CASE \/ \E s \in {"ready", "failed"} : LinkReports(s)
           \/ Snap \/ CaptureStops
  BY <1>2, <1>8 DEF LinkReports, Snap, CaptureStops, uiVars
<1>9. ASSUME NEW c \in Command, CommandArrives(c) PROVE AwaitInv'
  <2>1. [do |-> "command", command |-> c] \in Posted /\ [do |-> "command", command |-> c].do \notin Awaited
    BY PostedJobs DEF Awaited
  <2> QED BY <1>1, <1>9, <2>1 DEF CommandArrives
<1>10. CASE Disconnect
  <2>1. Ended \in Posted /\ Ended.do \notin Awaited
    BY PostedJobs DEF Awaited, Ended
  <2> QED BY <1>1, <1>10, <2>1 DEF Disconnect
<1>11. ASSUME NEW d \in Dialer, NEW usb \in BOOLEAN, Tap(d, usb) PROVE AwaitInv'
  <2>1. [do |-> "start", dialer |-> d] \in Posted /\ dialer[d].step \notin Waiting
    BY <1>11, PostedJobs DEF Awaited, Tap, Waiting
  <2>2. dialer'[d].step = "start" /\ Others(d, dialer, dialer')
    BY <1>11 DEF Tap, SessionTypes, Others
  <2> QED BY <1>3, <1>11, <2>1, <2>2 DEF Tap, Awaited, StepOf
<1>12. ASSUME NEW d \in Dialer, Authorise(d) \/ Dial(d) PROVE AwaitInv'
  <2>1. PICK to \in Steps : dialer' = [dialer EXCEPT ![d].step = to]
    BY <1>12 DEF Authorise, Dial, Resume, Steps
  <2>2. dialer[d].step \notin Waiting /\ Others(d, dialer, dialer')
    BY <1>12, <2>1, Going DEF Authorise, Dial, Resume, Waiting, GoesOn, Others
  <2>3. \/ main' = main \/ main' = Append(main, [do |-> "show", state |-> "failed"])
        \/ main' = main \o StateChange("connecting")
    BY <1>12 DEF Authorise, Dial
  <2>4. /\ [do |-> "show", state |-> "failed"] \in Posted
        /\ [do |-> "control", state |-> "connecting"] \in Posted
        /\ [do |-> "show", state |-> "failed"].do \notin Awaited
        /\ [do |-> "control", state |-> "connecting"].do \notin Awaited
    BY PostedJobs DEF Awaited, States
  <2>5. \/ main' = main
        \/ \E job \in Posted : job.do \notin Awaited /\ main' = Append(main, job)
    <3>1. main \o StateChange("connecting") \in {main, Append(main, [do |-> "control", state |-> "connecting"])}
      BY <1>0, Postings DEF States
    <3> QED BY <2>3, <2>4, <3>1
  <2> QED BY <1>4, <2>2, <2>5
<1>13. ASSUME NEW d \in Dialer, BringUp(d) PROVE AwaitInv'
  <2>1. [do |-> "name", dialer |-> d] \in Posted /\ dialer[d].step \notin Waiting
    BY <1>13, PostedJobs DEF Awaited, BringUp, Waiting
  <2>2. dialer'[d].step = "naming" /\ Others(d, dialer, dialer')
    BY <1>13, GoingNamed DEF BringUp, GoesOn, Others, Steps
  <2> QED BY <1>3, <1>13, <2>1, <2>2 DEF BringUp, Awaited, StepOf
<1>14. ASSUME NEW d \in Dialer, PostTail(d) PROVE AwaitInv'
  <2>1. [do |-> "tail", dialer |-> d] \in Posted /\ dialer[d].step \notin Waiting
    BY <1>14, PostedJobs DEF Awaited, PostTail, Resume, Waiting
  <2>2. dialer'[d].step = "tail" /\ Others(d, dialer, dialer')
    BY <1>14, Going DEF PostTail, Resume, GoesOn, Others, Steps
  <2> QED BY <1>3, <1>14, <2>1, <2>2 DEF PostTail, Awaited, StepOf
<1>15. CASE RunJob
  <2> DEFINE job == Head(main)
  <2>1. /\ main # <<>> /\ job \in Posted /\ Tail(main) \in Seq(Posted)
        /\ ControlJob(job) \/ CommandJob(job) \/ ShowJob(job) \/ AwaitedJob(job)
        /\ AwaitsOne(Tail(main), dialer)
        /\ job.do \in Awaited => \A dl2 : Others(job.dialer, dialer, dl2) => AwaitsOne(Tail(main), dl2)
    BY <1>0, <1>15, HeadTailProperties, AwaitTail DEF RunJob
  <2> HIDE DEF job
  <2>2. CASE ControlJob(job)
    <3>1. job.state \in States /\ main' = Tail(main) \o Published(job.state) /\ dialer' = dialer
      BY <2>1, <2>2, PostedJobs DEF ControlJob
    <3>2. PICK x \in {"disconnected", "connecting", "failed"} :
            main' \in {Tail(main), Append(Tail(main), [do |-> "show", state |-> x])}
      <4>1. job.state = "connected" \/
            (IF job.state = "idle" THEN "disconnected" ELSE job.state) \in {"disconnected", "connecting", "failed"}
        BY <3>1 DEF States
      <4> QED BY <2>1, <3>1, <4>1, Postings
    <3>3. [do |-> "show", state |-> x] \in Posted /\ [do |-> "show", state |-> x].do \notin Awaited
      BY PostedJobs DEF Awaited
    <3> QED BY <2>1, <3>1, <3>2, <3>3, AwaitAppend DEF AwaitInv
  <2>3. CASE CommandJob(job) \/ ShowJob(job)
    BY <2>1, <2>3 DEF CommandJob, ShowJob, AwaitInv
  <2>4. CASE AwaitedJob(job)
    <3>1. job.do \in Awaited /\ Others(job.dialer, dialer, dialer') /\ main' = Tail(main)
      BY <2>1, <2>4, AwaitedRuns DEF GoesOn, Others
    <3> QED BY <2>1, <3>1 DEF AwaitInv
  <2> QED BY <2>1, <2>2, <2>3, <2>4
<1> QED BY <1>6, <1>7, <1>8, <1>9, <1>10, <1>11, <1>12, <1>13, <1>14, <1>15 DEF Next, Connecting

(***************************************************************************)
(* The route.  As long as connect() is called once for each disconnect(),  *)
(* one call is under way at a time, and useUsbLoopback is that call's.     *)
(***************************************************************************)
AtRestSteps == {"none", "done", "denied"}

UnderWayAlone(d) ==
  /\ astir /\ shown # "connected" /\ useUsbLoopback = dialer[d].usb
  /\ \A e \in Dialer \ {d} : dialer[e].step \in AtRestSteps
  /\ dialer[d].step \in {"naming", "dial"} => dialer[d].loopback = dialer[d].usb

RouteInv ==
  ~again => /\ ~misnamed
            /\ \A d \in Dialer : dialer[d].step \notin AtRestSteps => UnderWayAlone(d)

SessionInv == ShutInv /\ AwaitInv
RoutedInv == SessionInv /\ RouteInv

\* One call goes on, or ends, and nothing else changes that matters.
LEMMA AloneGoesOn ==
  ASSUME SessionTypes, RouteInv, NEW d \in Dialer, dialer[d].step \notin AtRestSteps,
         NEW to \in Steps, GoesOn(d, to),
         ~again => \/ to \in AtRestSteps
                   \/ /\ astir' /\ UNCHANGED useUsbLoopback /\ shown' # "connected"
                      /\ to \in {"naming", "dial"} => dialer'[d].loopback = dialer[d].usb,
         again' = again, ~again => ~misnamed'
  PROVE  RouteInv'
<1> SUFFICES ASSUME ~again PROVE RouteInv'
  BY DEF RouteInv
<1>1. UnderWayAlone(d) /\ ~misnamed
  BY DEF RouteInv
<1>2. ASSUME NEW e \in Dialer, dialer'[e].step \notin AtRestSteps PROVE UnderWayAlone(e)'
  <2>1. e = d
    BY <1>1, <1>2 DEF UnderWayAlone, GoesOn
  <2>2. to \notin AtRestSteps
    BY <1>2, <2>1 DEF GoesOn
  <2> QED BY <1>1, <2>1, <2>2 DEF UnderWayAlone, GoesOn
<1> QED BY <1>2 DEF RouteInv

LEMMA RouteKeptSame ==
  ASSUME RouteInv, UNCHANGED <<dialer, useUsbLoopback, again, misnamed>>,
         astir => astir', shown' = "connected" => shown = "connected"
  PROVE  RouteInv'
BY DEF RouteInv, UnderWayAlone

LEMMA RouteInvKept ==
  ASSUME RoutedInv, Next
  PROVE  RouteInv'
<1>0. SessionTypes /\ RouteInv /\ AwaitInv /\ main \in Seq(Posted)
  BY DEF RoutedInv, SessionInv, ShutInv, SessionTypes
<1>1. CASE \/ \E s \in {"ready", "failed"} : LinkReports(s)
           \/ Callback \/ ReceiveEnds \/ Snap \/ CaptureStops
           \/ \E c \in Command : CommandArrives(c)
  <2>1. UNCHANGED <<dialer, useUsbLoopback, again, misnamed, astir, shown>>
    BY <1>1 DEF LinkReports, Callback, ReceiveEnds, Snap, CaptureStops, CommandArrives,
                uiVars, pastVars
  <2> QED BY <1>0, <2>1, RouteKeptSame
<1>2. CASE Disconnect
  <2>1. shown = "connected" /\ UNCHANGED <<dialer, again, misnamed, shown>>
    BY <1>2 DEF Disconnect
  <2> QED BY <1>0, <2>1 DEF RouteInv, UnderWayAlone
<1>3. ASSUME NEW d \in Dialer, NEW usb \in BOOLEAN, Tap(d, usb) PROVE RouteInv'
  <2> SUFFICES ASSUME ~again' PROVE RouteInv'
    BY DEF RouteInv
  <2>1. ~again /\ ~astir /\ astir' = TRUE /\ UNCHANGED <<misnamed, shown>> /\ shown # "connected"
    BY <1>3 DEF Tap
  <2>2. useUsbLoopback' = usb
    <3>1. ~useUsbLoopback
      BY <2>1 DEF RoutedInv, SessionInv, ShutInv, Unused
    <3> QED BY <1>3, <3>1 DEF Tap, Loopback
  <2>3. ~misnamed /\ \A e \in Dialer : dialer[e].step \in AtRestSteps
    BY <1>0, <2>1 DEF RouteInv, UnderWayAlone
  <2>4. /\ dialer'[d] = [step |-> "start", usb |-> usb, loopback |-> FALSE]
        /\ \A e \in Dialer \ {d} : dialer'[e] = dialer[e]
    BY <1>0, <1>3 DEF Tap, SessionTypes
  <2> QED BY <2>1, <2>2, <2>3, <2>4 DEF RouteInv, UnderWayAlone, AtRestSteps
<1>4. ASSUME NEW d \in Dialer, Connecting(d) PROVE RouteInv'
  <2>1. CASE Authorise(d)
    <3>1. PICK to \in {"bring up", "denied"} :
            /\ dialer' = [dialer EXCEPT ![d].step = to] /\ dialer[d].step = "authorise"
            /\ astir' = TRUE /\ UNCHANGED <<shown, useUsbLoopback, misnamed, again>>
      BY <2>1 DEF Authorise, Resume
    <3>2. GoesOn(d, to) /\ to \in Steps /\ to \notin {"naming", "dial"}
      BY <1>0, <3>1, Going DEF Steps
    <3>3. ~again => shown' # "connected" /\ ~misnamed'
      BY <1>0, <3>1 DEF RouteInv, UnderWayAlone, AtRestSteps
    <3> QED BY <1>0, <3>1, <3>2, <3>3, AloneGoesOn DEF AtRestSteps
  <2>2. CASE BringUp(d)
    <3>1. /\ dialer[d].step = "bring up"
          /\ astir' = TRUE /\ UNCHANGED <<shown, useUsbLoopback, misnamed, again>>
      BY <2>2 DEF BringUp
    <3>2. GoesOn(d, "naming") /\ dialer'[d].loopback = useUsbLoopback /\ "naming" \in Steps
      BY <1>0, <2>2, GoingNamed DEF Steps, BringUp
    <3>3. ~again => shown' # "connected" /\ ~misnamed' /\ useUsbLoopback = dialer[d].usb
      BY <1>0, <3>1 DEF RouteInv, UnderWayAlone, AtRestSteps
    <3> QED BY <1>0, <3>1, <3>2, <3>3, AloneGoesOn DEF AtRestSteps
  <2>3. CASE Dial(d)
    <3>1. /\ dialer' = [dialer EXCEPT ![d].step = "dialled"] /\ dialer[d].step = "dial"
          /\ astir' = TRUE /\ UNCHANGED <<shown, useUsbLoopback, again>>
          /\ misnamed' = (misnamed \/ dialer[d].loopback # dialer[d].usb)
      BY <2>3 DEF Dial, Resume
    <3>2. GoesOn(d, "dialled") /\ "dialled" \in Steps
      BY <1>0, <3>1, Going DEF Steps
    <3>3. ~again => shown' # "connected" /\ ~misnamed'
      BY <1>0, <3>1 DEF RouteInv, UnderWayAlone, AtRestSteps
    <3> QED BY <1>0, <3>1, <3>2, <3>3, AloneGoesOn DEF AtRestSteps
  <2>4. CASE PostTail(d)
    <3>1. /\ dialer' = [dialer EXCEPT ![d].step = "tail"] /\ dialer[d].step = "dialled"
          /\ astir' = TRUE /\ UNCHANGED <<shown, useUsbLoopback, again, misnamed>>
      BY <2>4 DEF PostTail, Resume
    <3>2. GoesOn(d, "tail") /\ "tail" \in Steps
      BY <1>0, <3>1, Going DEF Steps
    <3>3. ~again => shown' # "connected" /\ ~misnamed'
      BY <1>0, <3>1 DEF RouteInv, UnderWayAlone, AtRestSteps
    <3> QED BY <1>0, <3>1, <3>2, <3>3, AloneGoesOn DEF AtRestSteps
  <2> QED BY <1>4, <2>1, <2>2, <2>3, <2>4 DEF Connecting
<1>5. CASE RunJob
  <2> DEFINE job == Head(main)
  <2>1. /\ job \in Posted
        /\ ControlJob(job) \/ CommandJob(job) \/ ShowJob(job) \/ AwaitedJob(job)
        /\ UNCHANGED <<useUsbLoopback, again, misnamed>>
        /\ job.do \in Awaited => dialer[job.dialer].step = StepOf(job.do)
    BY <1>0, <1>5, HeadTailProperties, AwaitTail DEF RunJob, AwaitInv
  <2> HIDE DEF job
  <2>2. CASE ControlJob(job) \/ CommandJob(job)
    <3>1. UNCHANGED <<dialer, shown>> /\ (astir => astir')
      <4>1. CASE ControlJob(job)
        BY <4>1 DEF ControlJob
      <4>2. CASE CommandJob(job)
        <5>1. astir' = TRUE
          BY <4>2 DEF CommandJob, HandleCommand
        <5> QED BY <4>2, <5>1 DEF CommandJob
      <4> QED BY <2>2, <4>1, <4>2
    <3> QED BY <1>0, <2>1, <3>1, RouteKeptSame
  <2>3. CASE ShowJob(job)
    <3>1. UNCHANGED <<dialer, astir>> /\ shown' # "connected"
      BY <2>1, <2>3, PostedJobs DEF ShowJob
    <3> QED BY <1>0, <2>1, <3>1, RouteKeptSame
  <2>4. CASE AwaitedJob(job)
    <3>1. /\ job.do \in Awaited /\ job.dialer \in Dialer
          /\ GoesOn(job.dialer, After(job.do)) /\ After(job.do) \in Steps
          /\ dialer'[job.dialer].loopback = dialer[job.dialer].loopback
          /\ shown' = IF job.do = "start" THEN "connecting"
                      ELSE IF job.do = "tail" THEN "connected" ELSE shown
          /\ astir' = astir
      BY <1>0, <2>1, <2>4, AwaitedRuns DEF After, Steps
    <3>2. dialer[job.dialer].step = StepOf(job.do) /\ StepOf(job.do) \notin AtRestSteps
      BY <2>1, <3>1 DEF StepOf, Awaited, AtRestSteps
    <3>3. ~again => UnderWayAlone(job.dialer) /\ ~misnamed
      BY <1>0, <3>1, <3>2 DEF RouteInv
    <3>4. ~again => \/ After(job.do) \in AtRestSteps
                    \/ /\ astir' /\ shown' # "connected"
                       /\ After(job.do) \in {"naming", "dial"} =>
                            dialer'[job.dialer].loopback = dialer[job.dialer].usb
      BY <3>1, <3>2, <3>3 DEF UnderWayAlone, After, StepOf, Awaited, AtRestSteps
    <3> QED BY <1>0, <2>1, <3>1, <3>2, <3>3, <3>4, AloneGoesOn
  <2> QED BY <2>1, <2>2, <2>3, <2>4
<1> QED BY <1>1, <1>2, <1>3, <1>4, <1>5 DEF Next

LEMMA SessionInvKept == SessionInv /\ [Next]_vars => SessionInv'
<1> SUFFICES ASSUME SessionInv, [Next]_vars PROVE SessionInv'
  OBVIOUS
<1>1. ShutInv'
  BY ShutInvKept DEF SessionInv
<1>2. CASE Next
  BY <1>1, <1>2, AwaitInvKept DEF SessionInv, ShutInv
<1>3. CASE UNCHANGED vars
  BY <1>1, <1>3 DEF SessionInv, AwaitInv, vars, uiVars
<1> QED BY <1>2, <1>3

LEMMA SessionInvInitially == Init => SessionInv
<1> SUFFICES ASSUME Init PROVE SessionInv
  OBVIOUS
<1>1. AwaitInv
  BY DEF Init, AwaitInv, AwaitsOne
<1> QED BY <1>1, ShutInvInitially DEF SessionInv

(***************************************************************************)
(* RoutesAreNamed: in every session that follows a disconnect(), the       *)
(* descriptor names the address of the route the user chose                *)
(* (StreamController.connectUsb, buildDescriptor).                         *)
(***************************************************************************)
THEOREM RoutesAreNamed == Spec => []OwnRouteNamed
<1>1. Init => RoutedInv
  <2>1. Init => RouteInv
    BY DEF Init, RouteInv, AtRestSteps
  <2> QED BY <2>1, SessionInvInitially DEF RoutedInv
<1>2. RoutedInv /\ [Next]_vars => RoutedInv'
  <2> SUFFICES ASSUME RoutedInv, [Next]_vars PROVE RoutedInv'
    OBVIOUS
  <2>1. SessionInv'
    BY SessionInvKept DEF RoutedInv
  <2>2. CASE Next
    BY <2>1, <2>2, RouteInvKept DEF RoutedInv
  <2>3. CASE UNCHANGED vars
    <3>1. RouteInv'
      BY <2>3 DEF RoutedInv, RouteInv, UnderWayAlone, vars, uiVars, pastVars
    <3> QED BY <2>1, <3>1 DEF RoutedInv
  <2> QED BY <2>2, <2>3
<1>3. RoutedInv => OwnRouteNamed
  BY DEF RoutedInv, RouteInv, OwnRouteNamed
<1> QED BY <1>1, <1>2, <1>3, PTL DEF Spec

(***************************************************************************)
(* The connection below the channel, as long as connect() only dials when  *)
(* the last one is done with: which callbacks are still to come.           *)
(***************************************************************************)
Down == {"idle", "failed"}

LinkInv ==
  ~overlapped =>
    /\ control.link \in {"preparing", "open", "broken"} => lostReceives = 0
    /\ control.link = "preparing" => control.state = "connecting" /\ callbacks = <<>>
    /\ control.link = "broken" => control.state = "connecting" /\ callbacks = <<"failed">>
    /\ control.link = "open" => \/ control.state = "connecting" /\ callbacks = <<"ready">>
                                \/ control.state = "connected" /\ callbacks = <<>>
    /\ control.link = "none" =>
         /\ callbacks \in {<<>>, <<"cancelled">>, <<"ready", "cancelled">>, <<"failed", "cancelled">>}
         /\ callbacks = <<>> => control.state \in Down

\* A connection was dialled by a call that is past its permission.
PastInv == control.link # "none" => \E d \in Dialer : dialer[d].step \in {"dialled", "tail", "done"}

LEMMA ShortQueues ==
  /\ \A x : <<>> \o <<x>> = <<x>> /\ Head(<<x>>) = x /\ Tail(<<x>>) = <<>> /\ <<x>> # <<>>
            /\ Append(<<>>, x) = <<x>>
  /\ \A x, y : <<x>> \o <<y>> = <<x, y>> /\ Head(<<x, y>>) = x /\ Tail(<<x, y>>) = <<y>>
               /\ <<x, y>> # <<>>
  /\ <<>> \o <<>> = <<>>
  /\ \A x : <<x>> \o <<>> = <<x>>
  /\ \A x, y : <<x, y>> \o <<>> = <<x, y>>
<1>1. ASSUME NEW x
      PROVE  /\ <<>> \o <<x>> = <<x>> /\ Head(<<x>>) = x /\ Tail(<<x>>) = <<>> /\ <<x>> # <<>>
             /\ Append(<<>>, x) = <<x>> /\ <<x>> \o <<>> = <<x>>
  OBVIOUS
<1>2. ASSUME NEW x, NEW y
      PROVE  /\ <<x>> \o <<y>> = <<x, y>> /\ Head(<<x, y>>) = x
             /\ <<x, y>> # <<>>
  <2>0. ASSUME NEW S, x \in S, y \in S
        PROVE  <<x, y>> \in Seq(S) /\ <<x>> \in Seq(S) /\ <<y>> \in Seq(S)
    BY <2>0
  <2>1. /\ <<x, y>> \in Seq({x, y}) /\ <<x>> \in Seq({x, y}) /\ <<y>> \in Seq({x, y})
        /\ Len(<<x, y>>) = 2 /\ Len(<<x>>) = 1 /\ Len(<<y>>) = 1
        /\ <<x, y>>[1] = x /\ <<x, y>>[2] = y /\ <<x>>[1] = x /\ <<y>>[1] = y
    BY <2>0
  <2> DEFINE s == <<x>>
             t == <<y>>
             r == <<x, y>>
             c == s \o t
  <2>2. /\ c \in Seq({x, y}) /\ Len(c) = Len(s) + Len(t)
        /\ \A i \in 1 .. Len(s) + Len(t) : c[i] = IF i <= Len(s) THEN s[i] ELSE t[i - Len(s)]
    BY <2>1, ConcatProperties
  <2> HIDE DEF s, t, r, c
  <2>3. /\ r \in Seq({x, y}) /\ Len(r) = 2 /\ Len(s) = 1 /\ Len(t) = 1
        /\ r[1] = x /\ r[2] = y /\ s[1] = x /\ t[1] = y
    BY <2>1 DEF s, t, r
  <2>4. Len(c) = 2 /\ c[1] = x /\ c[2] = y
    BY <2>2, <2>3
  <2>5. \A i \in 1 .. Len(c) : c[i] = r[i]
    BY <2>3, <2>4
  <2>6. c = r
    BY <2>2, <2>3, <2>4, <2>5, SeqEqual
  <2>7. Head(<<x, y>>) = x /\ <<x, y>> # <<>>
    OBVIOUS
  <2> QED BY <2>6, <2>7 DEF s, t, r, c
<1>3. ASSUME NEW x, NEW y PROVE Tail(<<x, y>>) = <<y>>
  <2>0. ASSUME NEW S, x \in S, y \in S PROVE <<x, y>> \in Seq(S) /\ <<y>> \in Seq(S)
    BY <2>0
  <2>1. <<x, y>> \in Seq({x, y}) /\ <<x, y>> # <<>> /\ <<y>> \in Seq({x, y}) /\ Len(<<x, y>>) = 2
    BY <2>0
  <2>2. /\ Tail(<<x, y>>) \in Seq({x, y}) /\ Len(Tail(<<x, y>>)) = 1
        /\ \A i \in 1 .. 1 : Tail(<<x, y>>)[i] = <<x, y>>[i + 1]
    BY <2>1, HeadTailProperties
  <2>3. Tail(<<x, y>>)[1] = y
    BY <2>2
  <2>4. \A i \in 1 .. 1 : Tail(<<x, y>>)[i] = <<y>>[i]
    BY <2>3
  <2> QED BY <2>1, <2>2, <2>4, SeqEqual
<1>4. ASSUME NEW x, NEW y PROVE <<x, y>> \o <<>> = <<x, y>>
  <2>1. <<x, y>> \in Seq({x, y})
    OBVIOUS
  <2> QED BY <2>1, ConcatEmptySeq
<1>5. <<>> \o <<>> = <<>>
  OBVIOUS
<1> QED BY <1>1, <1>2, <1>3, <1>4, <1>5

LEMMA LinkInvKept ==
  ASSUME SessionTypes, LinkInv, Next
  PROVE  LinkInv'
<1> SUFFICES ASSUME ~overlapped' PROVE LinkInv'
  BY DEF LinkInv
<1>0. control \in [state : States, link : {"none", "preparing", "open", "broken"}] /\ lostReceives \in Nat
  BY DEF SessionTypes
<1>1. CASE \/ Snap \/ CaptureStops \/ RunJob \/ \E c \in Command : CommandArrives(c)
           \/ \E d \in Dialer : Authorise(d) \/ BringUp(d) \/ PostTail(d)
           \/ \E d \in Dialer, usb \in BOOLEAN : Tap(d, usb)
  <2>1. UNCHANGED <<control, callbacks, lostReceives, overlapped>>
    BY <1>1 DEF Snap, CaptureStops, RunJob, CommandArrives, Authorise, BringUp, PostTail, Tap,
                netVars, pastVars
  <2> QED BY <2>1 DEF LinkInv
<1>2. ASSUME NEW s \in {"ready", "failed"}, LinkReports(s) PROVE LinkInv'
  <2>1. /\ control.link = "preparing" /\ callbacks' = Append(callbacks, s)
        /\ control'.link = IF s = "ready" THEN "open" ELSE "broken"
        /\ control'.state = control.state /\ UNCHANGED <<lostReceives, overlapped>>
    BY <1>0, <1>2 DEF LinkReports, pastVars
  <2>2. control.state = "connecting" /\ callbacks = <<>> /\ lostReceives = 0
    BY <2>1 DEF LinkInv
  <2>3. callbacks' = <<s>>
    BY <2>1, <2>2, ShortQueues
  <2> QED BY <2>1, <2>2, <2>3 DEF LinkInv
<1>3. CASE Callback
  <2>0. ~overlapped
    BY <1>3 DEF Callback, pastVars
  <2>1. CASE control.link = "none"
    <3>1. callbacks \in {<<"cancelled">>, <<"ready", "cancelled">>, <<"failed", "cancelled">>}
      BY <1>3, <2>0, <2>1 DEF LinkInv, Callback
    <3>2. CancelPosts = <<>>
      BY <2>1 DEF CancelPosts
    <3>3. control'.link = "none"
      BY <1>3, <2>1 DEF Callback
    <3>4. CASE callbacks = <<"cancelled">>
      <4>1. callbacks' = <<>> /\ control'.state = "idle"
        BY <1>3, <3>4, ShortQueues DEF Callback
      <4> QED BY <3>3, <4>1 DEF LinkInv, Down
    <3>5. CASE callbacks \in {<<"ready", "cancelled">>, <<"failed", "cancelled">>}
      <4>1. callbacks' = <<"cancelled">> /\ <<"cancelled">> # <<>>
        <5>1. callbacks' = Tail(callbacks) \o <<>>
          BY <1>3, <3>2 DEF Callback
        <5>2. Tail(callbacks) = <<"cancelled">>
          <6>1. CASE callbacks = <<"ready", "cancelled">>
            BY <6>1, ShortQueues
          <6>2. CASE callbacks = <<"failed", "cancelled">>
            BY <6>2, ShortQueues
          <6> QED BY <3>5, <6>1, <6>2
        <5>3. <<"cancelled">> \o <<>> = <<"cancelled">> /\ <<"cancelled">> # <<>>
          BY ShortQueues
        <5> QED BY <5>1, <5>2, <5>3
      <4> QED BY <3>3, <4>1 DEF LinkInv
    <3> QED BY <3>1, <3>4, <3>5
  <2>2. CASE control.link = "open"
    <3>1. callbacks = <<"ready">> /\ control.state = "connecting" /\ lostReceives = 0
      BY <1>3, <2>0, <2>2 DEF LinkInv, Callback
    <3>2. control'.state = "connected" /\ control'.link = "open" /\ callbacks' = <<>>
          /\ lostReceives' = lostReceives
      BY <1>0, <1>3, <2>2, <3>1, ShortQueues DEF Callback
    <3> QED BY <3>1, <3>2 DEF LinkInv
  <2>3. CASE control.link = "broken"
    <3>1. callbacks = <<"failed">> /\ CancelPosts = <<"cancelled">>
      BY <2>0, <2>3 DEF LinkInv, CancelPosts
    <3>2. control'.link = "none" /\ callbacks' = <<"cancelled">> /\ <<"cancelled">> # <<>>
      BY <1>3, <3>1, ShortQueues DEF Callback
    <3> QED BY <3>2 DEF LinkInv
  <2>4. CASE control.link = "preparing"
    BY <1>3, <2>0, <2>4 DEF LinkInv, Callback
  <2> QED BY <1>0, <2>1, <2>2, <2>3, <2>4
<1>4. CASE ReceiveEnds
  <2>1. PICK s \in Down :
          /\ \/ lostReceives > 0
             \/ control = [state |-> "connected", link |-> "open"]
          /\ control' = [state |-> s, link |-> "none"]
          /\ callbacks' = callbacks \o CancelPosts
          /\ UNCHANGED overlapped
    BY <1>4 DEF ReceiveEnds, Down, pastVars
  <2>2. control'.link = "none" /\ control'.state \in Down
    BY <2>1
  <2>3. callbacks' \in {<<>>, <<"cancelled">>, <<"ready", "cancelled">>, <<"failed", "cancelled">>}
    <3>1. CASE lostReceives > 0
      <4>1. control.link = "none"
        BY <1>0, <2>1, <3>1 DEF LinkInv
      <4>2. CancelPosts = <<>>
        BY <4>1 DEF CancelPosts
      <4> QED BY <2>1, <4>1, <4>2, ShortQueues DEF LinkInv
    <3>2. CASE control = [state |-> "connected", link |-> "open"]
      <4>1. callbacks = <<>> /\ CancelPosts = <<"cancelled">>
        BY <2>1, <3>2 DEF LinkInv, CancelPosts
      <4> QED BY <2>1, <4>1, ShortQueues
    <3> QED BY <2>1, <3>1, <3>2
  <2> QED BY <2>2, <2>3 DEF LinkInv
<1>5. CASE Disconnect
  <2>1. /\ control'.link = "none" /\ control'.state = control.state
        /\ callbacks' = callbacks \o CancelPosts /\ UNCHANGED overlapped
    BY <1>0, <1>5 DEF Disconnect
  <2>2. CASE control.link = "none"
    <3>1. CancelPosts = <<>>
      BY <2>2 DEF CancelPosts
    <3>2. callbacks' = callbacks
      BY <2>1, <2>2, <3>1, ShortQueues DEF LinkInv
    <3> QED BY <2>1, <2>2, <3>2 DEF LinkInv
  <2>3. CASE control.link # "none"
    <3>1. CancelPosts = <<"cancelled">> /\ callbacks \in {<<>>, <<"ready">>, <<"failed">>}
      BY <1>0, <2>1, <2>3 DEF LinkInv, CancelPosts
    <3>2. callbacks' \in {<<"cancelled">>, <<"ready", "cancelled">>, <<"failed", "cancelled">>}
      BY <2>1, <3>1, ShortQueues
    <3>3. callbacks' # <<>>
      BY <3>2, ShortQueues
    <3> QED BY <2>1, <3>2, <3>3 DEF LinkInv
  <2> QED BY <2>2, <2>3
<1>6. ASSUME NEW d \in Dialer, Dial(d) PROVE LinkInv'
  <2>1. callbacks = <<>> /\ lostReceives = 0 /\ control.link = "none"
    <3>1. ~(callbacks # <<>> \/ lostReceives > 0 \/ control.link # "none")
      BY <1>6 DEF Dial
    <3> QED BY <1>0, <3>1
  <2>2. control' = [state |-> "connecting", link |-> "preparing"]
        /\ callbacks' = <<>> /\ lostReceives' = 0
    BY <1>6, <2>1, ShortQueues DEF Dial, CancelPosts, CancelReceives
  <2> QED BY <2>2 DEF LinkInv
<1> QED BY <1>1, <1>2, <1>3, <1>4, <1>5, <1>6 DEF Next, Connecting

LEMMA PastInvKept ==
  ASSUME SessionTypes, AwaitInv, PastInv, Next
  PROVE  PastInv'
<1> DEFINE Past == {"dialled", "tail", "done"}
<1>0. main \in Seq(Posted) /\ control \in [state : States, link : {"none", "preparing", "open", "broken"}]
  BY DEF SessionTypes
<1>1. ASSUME NEW d \in Dialer, NEW to \in Steps, GoesOn(d, to), dialer[d].step \in Past => to \in Past,
             control'.link # "none" => control.link # "none"
      PROVE  PastInv'
  BY <1>1 DEF PastInv, GoesOn
<1>2. ASSUME dialer' = dialer, control'.link # "none" => control.link # "none" PROVE PastInv'
  BY <1>2 DEF PastInv
<1>3. CASE \/ \E s \in {"ready", "failed"} : LinkReports(s)
           \/ Callback \/ ReceiveEnds \/ Snap \/ CaptureStops \/ Disconnect
           \/ \E c \in Command : CommandArrives(c)
  <2>1. dialer' = dialer
    BY <1>3 DEF LinkReports, Callback, ReceiveEnds, Snap, CaptureStops, Disconnect, CommandArrives, uiVars
  <2>2. control'.link # "none" => control.link # "none"
    <3>1. CASE \E s \in {"ready", "failed"} : LinkReports(s)
      BY <3>1 DEF LinkReports
    <3>2. CASE Callback
      BY <3>2 DEF Callback
    <3>3. CASE ReceiveEnds
      BY <3>3 DEF ReceiveEnds
    <3>4. CASE Disconnect
      BY <1>0, <3>4 DEF Disconnect
    <3>5. CASE Snap \/ CaptureStops \/ \E c \in Command : CommandArrives(c)
      BY <3>5 DEF Snap, CaptureStops, CommandArrives, netVars
    <3> QED BY <1>3, <3>1, <3>2, <3>3, <3>4, <3>5
  <2> QED BY <1>2, <2>1, <2>2
<1>4. ASSUME NEW d \in Dialer, NEW usb \in BOOLEAN, Tap(d, usb) PROVE PastInv'
  <2>1. /\ \A e \in Dialer \ {d} : dialer'[e] = dialer[e]
        /\ dialer[d].step = "none" /\ control' = control
    BY <1>4 DEF Tap, SessionTypes, netVars
  <2> QED BY <2>1 DEF PastInv
<1>5. ASSUME NEW d \in Dialer, Dial(d) PROVE PastInv'
  <2>1. dialer'[d].step = "dialled"
    BY <1>5, Going DEF Dial, Resume, GoesOn, Steps
  <2> QED BY <2>1 DEF PastInv
<1>6. ASSUME NEW d \in Dialer, Authorise(d) \/ BringUp(d) \/ PostTail(d) PROVE PastInv'
  <2>1. control' = control
    BY <1>6 DEF Authorise, BringUp, PostTail, netVars
  <2>2. \E to \in Steps : GoesOn(d, to) /\ (dialer[d].step \in Past => to \in Past)
    BY <1>6, Going, GoingNamed DEF Authorise, BringUp, PostTail, Resume, Steps
  <2> QED BY <1>1, <2>1, <2>2
<1>7. CASE RunJob
  <2> DEFINE job == Head(main)
  <2>1. /\ job \in Posted /\ control' = control
        /\ ControlJob(job) \/ CommandJob(job) \/ ShowJob(job) \/ AwaitedJob(job)
        /\ job.do \in Awaited => dialer[job.dialer].step = StepOf(job.do)
    BY <1>0, <1>7, HeadTailProperties, AwaitTail DEF RunJob, AwaitInv, netVars
  <2> HIDE DEF job
  <2>2. CASE ControlJob(job) \/ CommandJob(job) \/ ShowJob(job)
    BY <1>2, <2>1, <2>2 DEF ControlJob, CommandJob, ShowJob
  <2>3. CASE AwaitedJob(job)
    <3>1. job.do \in Awaited /\ job.dialer \in Dialer /\ GoesOn(job.dialer, After(job.do))
      BY <2>1, <2>3, AwaitedRuns
    <3>2. After(job.do) \in Steps /\ (StepOf(job.do) \in Past => After(job.do) \in Past)
      BY <3>1 DEF After, Steps, StepOf, Awaited
    <3> QED BY <1>1, <2>1, <3>1, <3>2
  <2> QED BY <2>1, <2>2, <2>3
<1> QED BY <1>3, <1>4, <1>5, <1>6, <1>7 DEF Next, Connecting

(***************************************************************************)
(* The screen.  What it will show once the jobs in the queue have run is   *)
(* settled by the last of them that shows something; a job of the channel  *)
(* adds another at the end.                                                *)
(***************************************************************************)
IsVisible(job) == job.do \in {"start", "show", "tail"}
Is(job, states) == job.do = "control" /\ job.state \in states

EndsUp(q, sh) ==
  \/ sh = "connected" /\ \A j \in 1 .. Len(q) : ~IsVisible(q[j])
  \/ \E i \in 1 .. Len(q) : q[i].do = "tail" /\ \A j \in 1 .. Len(q) : i < j => ~IsVisible(q[j])

\* "Connecting" is shown before the end of connect(), unless they cross, ...
Covered(q, waits) ==
  \A i \in 1 .. Len(q) : Is(q[i], {"connecting"}) =>
    waits \/ \E j \in 1 .. Len(q) : i < j /\ q[j].do = "tail"

\* ... which they are bound to when both are in the queue.
Doomed(q) ==
  \E k, j \in 1 .. Len(q) : k < j /\ Is(q[k], {"connecting"}) /\ q[j].do = "tail"

\* The end of a connection, before the next one was dialled or for good.
Overruled(q) ==
  \A i \in 1 .. Len(q) : Is(q[i], Down) =>
    \E k \in 1 .. Len(q) : i < k /\ Is(q[k], {"connecting"})
Sinks(q) == \E i \in 1 .. Len(q) : Is(q[i], Down)

Dialled == \E d \in Dialer : dialer[d].step = "dialled"
UnderWaySteps == {"start", "authorise", "bring up", "naming", "dial", "dialled"}
UnderWay == \E d \in Dialer : dialer[d].step \in UnderWaySteps

ScreenInv ==
  ~overlapped /\ ~crossed =>
    /\ Covered(main, Dialled)
    /\ control.link # "none" => Overruled(main) /\ (Doomed(main) \/ UnderWay \/ EndsUp(main, shown))
    /\ control.link = "none" /\ control.state \in Down =>
         Sinks(main) \/ (~Dialled /\ ~EndsUp(main, shown))

ShownInv == SessionInv /\ LinkInv /\ PastInv /\ ScreenInv

LEMMA OneMore ==
  ASSUME NEW q \in Seq(Posted), NEW job \in Posted
  PROVE  /\ Len(Append(q, job)) = Len(q) + 1 /\ Len(q) \in Nat
         /\ Append(q, job)[Len(q) + 1] = job
         /\ \A i \in 1 .. Len(q) : Append(q, job)[i] = q[i]
OBVIOUS

LEMMA AppendedJob ==
  ASSUME NEW q \in Seq(Posted), NEW job \in Posted
  PROVE  /\ \A sh : EndsUp(Append(q, job), sh) <=>
                      IF IsVisible(job) THEN job.do = "tail" ELSE EndsUp(q, sh)
         /\ Sinks(q) \/ Is(job, Down) => Sinks(Append(q, job))
         /\ Doomed(q) => Doomed(Append(q, job))
         /\ Overruled(q) /\ ~Is(job, Down) => Overruled(Append(q, job))
         /\ Is(job, {"connecting"}) => Overruled(Append(q, job))
<1> DEFINE r == Append(q, job)
<1>1. /\ Len(r) = Len(q) + 1 /\ Len(q) \in Nat /\ r[Len(q) + 1] = job
      /\ \A i \in 1 .. Len(q) : r[i] = q[i]
  BY OneMore
<1> HIDE DEF r
<1>2. ASSUME NEW sh PROVE EndsUp(r, sh) <=> IF IsVisible(job) THEN job.do = "tail" ELSE EndsUp(q, sh)
  <2>1. CASE IsVisible(job)
    <3>1. ~(\A j \in 1 .. Len(r) : ~IsVisible(r[j]))
      BY <1>1, <2>1
    <3>2. ASSUME NEW i \in 1 .. Len(r), r[i].do = "tail", \A j \in 1 .. Len(r) : i < j => ~IsVisible(r[j])
          PROVE  job.do = "tail"
      BY <1>1, <2>1, <3>2
    <3>3. job.do = "tail" => EndsUp(r, sh)
      BY <1>1 DEF EndsUp
    <3> QED BY <2>1, <3>1, <3>2, <3>3 DEF EndsUp
  <2>2. CASE ~IsVisible(job)
    <3>1. (\A j \in 1 .. Len(r) : ~IsVisible(r[j])) <=> \A j \in 1 .. Len(q) : ~IsVisible(q[j])
      BY <1>1, <2>2
    <3>2. ASSUME NEW i \in 1 .. Len(r), r[i].do = "tail", \A j \in 1 .. Len(r) : i < j => ~IsVisible(r[j])
          PROVE  i \in 1 .. Len(q) /\ q[i].do = "tail" /\ \A j \in 1 .. Len(q) : i < j => ~IsVisible(q[j])
      BY <1>1, <2>2, <3>2 DEF IsVisible
    <3>3. ASSUME NEW i \in 1 .. Len(q), q[i].do = "tail", \A j \in 1 .. Len(q) : i < j => ~IsVisible(q[j])
          PROVE  i \in 1 .. Len(r) /\ r[i].do = "tail" /\ \A j \in 1 .. Len(r) : i < j => ~IsVisible(r[j])
      BY <1>1, <2>2, <3>3
    <3> QED BY <2>2, <3>1, <3>2, <3>3 DEF EndsUp
  <2> QED BY <2>1, <2>2
<1>3. Sinks(q) \/ Is(job, Down) => Sinks(r)
  BY <1>1 DEF Sinks
<1>4. Doomed(q) => Doomed(r)
  <2> SUFFICES ASSUME Doomed(q) PROVE Doomed(r)
    OBVIOUS
  <2>1. PICK k \in 1 .. Len(q), j \in 1 .. Len(q) : k < j /\ Is(q[k], {"connecting"}) /\ q[j].do = "tail"
    BY DEF Doomed
  <2>2. k \in 1 .. Len(r) /\ j \in 1 .. Len(r) /\ r[k] = q[k] /\ r[j] = q[j]
    BY <1>1
  <2> QED BY <2>1, <2>2 DEF Doomed
<1>5. Overruled(q) /\ ~Is(job, Down) => Overruled(r)
  <2> SUFFICES ASSUME Overruled(q), ~Is(job, Down), NEW i \in 1 .. Len(r), Is(r[i], Down)
               PROVE  \E k \in 1 .. Len(r) : i < k /\ Is(r[k], {"connecting"})
    BY DEF Overruled
  <2>1. i \in 1 .. Len(q) /\ r[i] = q[i]
    BY <1>1
  <2>2. PICK k \in 1 .. Len(q) : i < k /\ Is(q[k], {"connecting"})
    BY <2>1 DEF Overruled
  <2>3. k \in 1 .. Len(r) /\ r[k] = q[k]
    BY <1>1
  <2> QED BY <2>2, <2>3
<1>6. Is(job, {"connecting"}) => Overruled(r)
  <2> SUFFICES ASSUME Is(job, {"connecting"}), NEW i \in 1 .. Len(r), Is(r[i], Down)
               PROVE  \E k \in 1 .. Len(r) : i < k /\ Is(r[k], {"connecting"})
    BY DEF Overruled
  <2>1. i # Len(q) + 1
    BY <1>1 DEF Is, Down
  <2>2. Len(q) + 1 \in 1 .. Len(r) /\ i < Len(q) + 1
    BY <1>1, <2>1
  <2> QED BY <1>1, <2>2
<1> QED BY <1>2, <1>3, <1>4, <1>5, <1>6 DEF r

LEMMA AppendedCovered ==
  ASSUME NEW q \in Seq(Posted), NEW job \in Posted, NEW waits, NEW waits2, Covered(q, waits),
         waits => waits2 \/ job.do = "tail", Is(job, {"connecting"}) => waits2
  PROVE  Covered(Append(q, job), waits2)
<1> DEFINE r == Append(q, job)
<1>1. /\ Len(r) = Len(q) + 1 /\ Len(q) \in Nat /\ r[Len(q) + 1] = job
      /\ \A i \in 1 .. Len(q) : r[i] = q[i]
  BY OneMore
<1> HIDE DEF r
<1>2. SUFFICES ASSUME NEW i \in 1 .. Len(r), Is(r[i], {"connecting"}), ~waits2
               PROVE  \E j \in 1 .. Len(r) : i < j /\ r[j].do = "tail"
  BY DEF Covered, r
<1>3. i \in 1 .. Len(q) /\ r[i] = q[i]
  BY <1>1, <1>2
<1>4. CASE waits
  BY <1>1, <1>2, <1>3, <1>4
<1>5. CASE ~waits
  <2>1. PICK j \in 1 .. Len(q) : i < j /\ q[j].do = "tail"
    BY <1>2, <1>3, <1>5 DEF Covered
  <2>2. j \in 1 .. Len(r) /\ r[j] = q[j]
    BY <1>1
  <2> QED BY <2>1, <2>2
<1> QED BY <1>4, <1>5

LEMMA FirstJobRun ==
  ASSUME NEW q \in Seq(Posted), q # <<>>, NEW waits
  PROVE  /\ \A sh, sh2 : (IF IsVisible(Head(q)) THEN sh2 = "connected" <=> Head(q).do = "tail"
                          ELSE sh2 = sh) => (EndsUp(Tail(q), sh2) <=> EndsUp(q, sh))
         /\ Covered(q, waits) => Covered(Tail(q), waits)
         /\ Overruled(q) => Overruled(Tail(q))
         /\ Sinks(q) => Sinks(Tail(q)) \/ Is(Head(q), Down)
         /\ Doomed(q) => Doomed(Tail(q)) \/ Is(Head(q), {"connecting"})
         /\ Doomed(q) => \E j \in 1 .. Len(q) : q[j].do = "tail"
         /\ Is(Head(q), {"connecting"}) /\ Covered(q, waits) =>
              waits \/ \E j \in 1 .. Len(q) : q[j].do = "tail"
         /\ Is(Head(q), Down) /\ Overruled(q) /\ Covered(q, waits) => waits \/ Doomed(Tail(q))
<1> DEFINE r == Tail(q)
           h == Head(q)
<1>1. /\ Len(q) \in Nat \ {0} /\ Len(r) = Len(q) - 1 /\ q[1] = h /\ 1 \in 1 .. Len(q)
      /\ \A i \in 1 .. Len(r) : r[i] = q[i + 1] /\ i + 1 \in 2 .. Len(q)
      /\ \A i \in 2 .. Len(q) : q[i] = r[i - 1] /\ i - 1 \in 1 .. Len(r)
  <2>1. Len(q) \in Nat \ {0} /\ q[1] = h
    OBVIOUS
  <2>2. Len(r) = Len(q) - 1 /\ \A i \in 1 .. Len(r) : r[i] = q[i + 1]
    BY HeadTailProperties
  <2> HIDE DEF r, h
  <2>3. \A i \in 2 .. Len(q) : q[i] = r[i - 1] /\ i - 1 \in 1 .. Len(r)
    <3> SUFFICES ASSUME NEW i \in 2 .. Len(q) PROVE q[i] = r[i - 1] /\ i - 1 \in 1 .. Len(r)
      OBVIOUS
    <3>1. i - 1 \in 1 .. Len(r) /\ (i - 1) + 1 = i
      BY <2>1, <2>2
    <3> QED BY <2>2, <3>1
  <2> QED BY <2>1, <2>2, <2>3
<1> HIDE DEF r, h
<1>2. ASSUME NEW sh, NEW sh2, IF IsVisible(h) THEN sh2 = "connected" <=> h.do = "tail" ELSE sh2 = sh
      PROVE  EndsUp(r, sh2) <=> EndsUp(q, sh)
  <2>1. (\A j \in 1 .. Len(q) : ~IsVisible(q[j])) <=>
        ~IsVisible(h) /\ \A j \in 1 .. Len(r) : ~IsVisible(r[j])
    <3>1. \A j \in 1 .. Len(q) : j = 1 \/ j \in 2 .. Len(q)
      BY <1>1
    <3> QED BY <1>1, <3>1
  <2>2. (h.do = "tail" /\ \A j \in 1 .. Len(q) : 1 < j => ~IsVisible(q[j])) <=>
        (h.do = "tail" /\ \A j \in 1 .. Len(r) : ~IsVisible(r[j]))
    <3>1. \A j \in 1 .. Len(q) : 1 < j <=> j \in 2 .. Len(q)
      BY <1>1
    <3>2. \A j \in 1 .. Len(r) : 1 < j + 1 /\ j + 1 \in 1 .. Len(q)
      BY <1>1
    <3> QED BY <1>1, <3>1, <3>2
  <2>3. ASSUME NEW i \in 1 .. Len(r)
        PROVE  (r[i].do = "tail" /\ \A j \in 1 .. Len(r) : i < j => ~IsVisible(r[j])) <=>
               (q[i + 1].do = "tail" /\ \A j \in 1 .. Len(q) : i + 1 < j => ~IsVisible(q[j]))
    <3>1. \A j \in 1 .. Len(q) : i + 1 < j => j \in 2 .. Len(q) /\ i < j - 1
      BY <1>1
    <3>2. \A j \in 1 .. Len(r) : i < j => i + 1 < j + 1 /\ j + 1 \in 1 .. Len(q)
      BY <1>1
    <3> QED BY <1>1, <3>1, <3>2
  <2>4. (\E i \in 1 .. Len(q) : q[i].do = "tail" /\ \A j \in 1 .. Len(q) : i < j => ~IsVisible(q[j])) <=>
        \/ h.do = "tail" /\ \A j \in 1 .. Len(r) : ~IsVisible(r[j])
        \/ \E i \in 1 .. Len(r) : r[i].do = "tail" /\ \A j \in 1 .. Len(r) : i < j => ~IsVisible(r[j])
    <3>1. ASSUME NEW i \in 1 .. Len(q), q[i].do = "tail", \A j \in 1 .. Len(q) : i < j => ~IsVisible(q[j])
          PROVE  \/ h.do = "tail" /\ \A j \in 1 .. Len(r) : ~IsVisible(r[j])
                 \/ \E k \in 1 .. Len(r) : r[k].do = "tail" /\ \A j \in 1 .. Len(r) : k < j => ~IsVisible(r[j])
      <4>1. CASE i = 1
        BY <1>1, <2>2, <3>1, <4>1
      <4>2. CASE i # 1
        <5>1. PICK m \in 1 .. Len(r) : m + 1 = i
          <6>1. i - 1 \in 1 .. Len(r) /\ (i - 1) + 1 = i
            BY <1>1, <4>2
          <6> QED BY <6>1
        <5>2. q[m + 1].do = "tail" /\ \A j \in 1 .. Len(q) : m + 1 < j => ~IsVisible(q[j])
          BY <3>1, <5>1
        <5> QED BY <2>3, <5>2
      <4> QED BY <4>1, <4>2
    <3>2. ASSUME h.do = "tail", \A j \in 1 .. Len(r) : ~IsVisible(r[j])
          PROVE  \E i \in 1 .. Len(q) : q[i].do = "tail" /\ \A j \in 1 .. Len(q) : i < j => ~IsVisible(q[j])
      BY <1>1, <2>2, <3>2
    <3>3. ASSUME NEW k \in 1 .. Len(r), r[k].do = "tail", \A j \in 1 .. Len(r) : k < j => ~IsVisible(r[j])
          PROVE  \E i \in 1 .. Len(q) : q[i].do = "tail" /\ \A j \in 1 .. Len(q) : i < j => ~IsVisible(q[j])
      <4>1. k + 1 \in 1 .. Len(q)
        BY <1>1
      <4> QED BY <2>3, <3>3, <4>1
    <3> QED BY <3>1, <3>2, <3>3
  <2>5. h.do = "tail" => IsVisible(h)
    BY DEF IsVisible
  <2> QED BY <1>2, <2>1, <2>4, <2>5 DEF EndsUp
<1>3. Covered(q, waits) => Covered(r, waits)
  <2> SUFFICES ASSUME Covered(q, waits), NEW i \in 1 .. Len(r), Is(r[i], {"connecting"}), ~waits
               PROVE  \E j \in 1 .. Len(r) : i < j /\ r[j].do = "tail"
    BY DEF Covered
  <2>1. PICK j \in 1 .. Len(q) : i + 1 < j /\ q[j].do = "tail"
    <3>1. i + 1 \in 1 .. Len(q) /\ Is(q[i + 1], {"connecting"})
      BY <1>1
    <3> QED BY <3>1 DEF Covered
  <2>2. j - 1 \in 1 .. Len(r) /\ i < j - 1 /\ r[j - 1] = q[j]
    BY <1>1, <2>1
  <2> QED BY <2>1, <2>2
<1>4. Overruled(q) => Overruled(r)
  <2> SUFFICES ASSUME Overruled(q), NEW i \in 1 .. Len(r), Is(r[i], Down)
               PROVE  \E k \in 1 .. Len(r) : i < k /\ Is(r[k], {"connecting"})
    BY DEF Overruled
  <2>1. PICK k \in 1 .. Len(q) : i + 1 < k /\ Is(q[k], {"connecting"})
    <3>1. i + 1 \in 1 .. Len(q) /\ Is(q[i + 1], Down)
      BY <1>1
    <3> QED BY <3>1 DEF Overruled
  <2>2. k - 1 \in 1 .. Len(r) /\ i < k - 1 /\ r[k - 1] = q[k]
    BY <1>1, <2>1
  <2> QED BY <2>1, <2>2
<1>5. Sinks(q) => Sinks(r) \/ Is(h, Down)
  <2>1. ASSUME NEW i \in 1 .. Len(q), Is(q[i], Down) PROVE Sinks(r) \/ Is(h, Down)
    <3>1. i = 1 \/ i \in 2 .. Len(q)
      BY <1>1
    <3> QED BY <1>1, <2>1, <3>1 DEF Sinks
  <2> QED BY <2>1 DEF Sinks
<1>6. ASSUME NEW k \in 2 .. Len(q), NEW j \in 1 .. Len(q), k < j, Is(q[k], {"connecting"}), q[j].do = "tail"
      PROVE  Doomed(r)
  <2>1. /\ k - 1 \in 1 .. Len(r) /\ j - 1 \in 1 .. Len(r) /\ k - 1 < j - 1
        /\ r[k - 1] = q[k] /\ r[j - 1] = q[j]
    BY <1>1, <1>6
  <2> QED BY <1>6, <2>1 DEF Doomed
<1>7. Doomed(q) => Doomed(r) \/ Is(h, {"connecting"})
  <2> SUFFICES ASSUME Doomed(q) PROVE Doomed(r) \/ Is(h, {"connecting"})
    OBVIOUS
  <2>1. PICK k \in 1 .. Len(q), j \in 1 .. Len(q) : k < j /\ Is(q[k], {"connecting"}) /\ q[j].do = "tail"
    BY DEF Doomed
  <2>2. k = 1 \/ k \in 2 .. Len(q)
    BY <1>1
  <2> QED BY <1>1, <1>6, <2>1, <2>2
<1>8. Doomed(q) => \E j \in 1 .. Len(q) : q[j].do = "tail"
  BY DEF Doomed
<1>9. Is(h, {"connecting"}) /\ Covered(q, waits) => waits \/ \E j \in 1 .. Len(q) : q[j].do = "tail"
  BY <1>1 DEF Covered
<1>10. Is(h, Down) /\ Overruled(q) /\ Covered(q, waits) => waits \/ Doomed(r)
  <2> SUFFICES ASSUME Is(h, Down), Overruled(q), Covered(q, waits), ~waits PROVE Doomed(r)
    OBVIOUS
  <2>1. PICK k \in 1 .. Len(q) : 1 < k /\ Is(q[k], {"connecting"})
    BY <1>1 DEF Overruled
  <2>2. PICK j \in 1 .. Len(q) : k < j /\ q[j].do = "tail"
    BY <2>1 DEF Covered
  <2>3. k \in 2 .. Len(q)
    BY <1>1, <2>1
  <2> QED BY <1>6, <2>1, <2>2, <2>3
<1> QED BY <1>2, <1>3, <1>4, <1>5, <1>7, <1>8, <1>9, <1>10 DEF r, h

(***************************************************************************)
(* The steps.                                                              *)
(***************************************************************************)
\* Neither a job nor the jobs' dialers change, and no connection comes up.
LEMMA ScreenSame ==
  ASSUME ScreenInv, UNCHANGED <<main, shown, overlapped, crossed>>,
         Dialled' = Dialled, UnderWay => UnderWay',
         control'.link = "none" <=> control.link = "none",
         control.link = "none" => control' = control
  PROVE  ScreenInv'
BY DEF ScreenInv

\* A job that shows something, and is neither the channel's nor the end of connect().
LEMMA ScreenAppended ==
  ASSUME SessionTypes, ScreenInv, NEW job \in Posted, main' = Append(main, job),
         job.do \notin {"control", "tail"},
         UNCHANGED <<shown, overlapped, crossed>>,
         Dialled' = Dialled,
         \/ UnderWay' /\ UNCHANGED control
         \/ (UnderWay => UnderWay') /\ ~IsVisible(job) /\ UNCHANGED control
         \/ /\ IsVisible(job) /\ control'.link = "none"
            /\ control'.state \in Down => control.link = "none" /\ control.state \in Down
  PROVE  ScreenInv'
<1> SUFFICES ASSUME ~overlapped, ~crossed
             PROVE  ScreenInv'
  BY DEF ScreenInv
<1>0. main \in Seq(Posted) /\ ~Is(job, Down) /\ ~Is(job, {"connecting"})
  BY DEF SessionTypes, Is
<1>1. Covered(main', Dialled')
  BY <1>0, AppendedCovered DEF ScreenInv
<1>2. /\ EndsUp(main', shown') <=> IF IsVisible(job) THEN FALSE ELSE EndsUp(main, shown)
      /\ Sinks(main) => Sinks(main')
      /\ Doomed(main) => Doomed(main')
      /\ Overruled(main) => Overruled(main')
  BY <1>0, AppendedJob
<1>3. ASSUME control'.link # "none"
      PROVE  Overruled(main') /\ (Doomed(main') \/ UnderWay' \/ EndsUp(main', shown'))
  <2>1. UNCHANGED control /\ (UnderWay' \/ ((UnderWay => UnderWay') /\ ~IsVisible(job)))
    BY <1>3
  <2>2. Overruled(main) /\ (Doomed(main) \/ UnderWay \/ EndsUp(main, shown))
    BY <1>3, <2>1 DEF ScreenInv
  <2> QED BY <1>2, <2>1, <2>2
<1>4. ASSUME control'.link = "none", control'.state \in Down
      PROVE  Sinks(main') \/ (~Dialled' /\ ~EndsUp(main', shown'))
  <2>1. control.link = "none" /\ control.state \in Down
    BY <1>4
  <2>2. Sinks(main) \/ (~Dialled /\ ~EndsUp(main, shown))
    BY <2>1 DEF ScreenInv
  <2> QED BY <1>2, <2>2
<1> QED BY <1>1, <1>3, <1>4 DEF ScreenInv

\* A job of the channel, at its change of state.
LEMMA ScreenControl ==
  ASSUME SessionTypes, ScreenInv, NEW s \in {"connected", "idle", "failed"},
         main' = main \o StateChange(s), control'.state = s,
         UNCHANGED <<shown, dialer, overlapped, crossed>>,
         s = "connected" => (control'.link = "none" <=> control.link = "none"),
         s # "connected" => /\ control'.link = "none"
                            /\ ~overlapped /\ control.state \in Down => control.link = "none"
  PROVE  ScreenInv'
<1> SUFFICES ASSUME ~overlapped, ~crossed
             PROVE  ScreenInv'
  BY DEF ScreenInv
<1> DEFINE job == [do |-> "control", state |-> s]
<1>0. /\ main \in Seq(Posted) /\ job \in Posted /\ job.do \notin {"tail", "start", "show"}
      /\ Is(job, Down) <=> s # "connected"
      /\ ~Is(job, {"connecting"})
  BY PostedJobs DEF SessionTypes, Is, Down, States
<1>1. main' = IF control.state = s THEN main ELSE Append(main, job)
  BY <1>0, Postings DEF States
<1>2. Dialled' = Dialled /\ UnderWay' = UnderWay
  BY DEF Dialled, UnderWay
<1> HIDE DEF job
<1>3. Covered(main', Dialled')
  <2>1. Covered(main, Dialled)
    BY DEF ScreenInv
  <2>2. Covered(Append(main, job), Dialled)
    BY <1>0, <2>1, AppendedCovered
  <2> QED BY <1>1, <1>2, <2>1, <2>2
<1>4. CASE s = "connected"
  <2>1. /\ EndsUp(main', shown) <=> EndsUp(main, shown)
        /\ Doomed(main) => Doomed(main')
        /\ Overruled(main) => Overruled(main')
    BY <1>0, <1>1, <1>4, AppendedJob DEF IsVisible
  <2> QED BY <1>2, <1>3, <1>4, <2>1 DEF ScreenInv, Down
<1>5. CASE s # "connected"
  <2>1. control'.link = "none" /\ s \in Down
    BY <1>5 DEF Down
  <2>2. CASE control.state = s
    BY <1>1, <1>2, <1>3, <1>5, <2>1, <2>2 DEF ScreenInv
  <2>3. CASE control.state # s
    <3>1. Sinks(main')
      BY <1>0, <1>1, <1>5, <2>3, AppendedJob
    <3> QED BY <1>3, <2>1, <3>1 DEF ScreenInv
  <2> QED BY <2>2, <2>3
<1> QED BY <1>4, <1>5

LEMMA NetworkKeepsScreen ==
  ASSUME ShownInv,
         \/ \E s \in {"ready", "failed"} : LinkReports(s)
         \/ Callback \/ ReceiveEnds \/ \E c \in Command : CommandArrives(c)
         \/ Snap \/ CaptureStops \/ Disconnect
  PROVE  ScreenInv'
<1>0. SessionTypes /\ ScreenInv /\ LinkInv
      /\ control \in [state : States, link : {"none", "preparing", "open", "broken"}]
  BY DEF ShownInv, SessionInv, ShutInv, SessionTypes
<1>a. dialer' = dialer /\ Dialled' = Dialled /\ UnderWay' = UnderWay
  <2>1. dialer' = dialer
    BY DEF LinkReports, Callback, ReceiveEnds, Snap, CaptureStops, Disconnect, CommandArrives, uiVars
  <2> QED BY <2>1 DEF Dialled, UnderWay
<1>1. ASSUME NEW s \in {"ready", "failed"}, LinkReports(s) PROVE ScreenInv'
  <2>1. /\ UNCHANGED <<main, shown, overlapped, crossed>>
        /\ control.link # "none" /\ control'.link # "none"
    BY <1>0, <1>1 DEF LinkReports, uiVars, pastVars
  <2> QED BY <1>0, <1>a, <2>1, ScreenSame
<1>2. CASE Snap \/ CaptureStops
  <2>1. UNCHANGED <<main, shown, overlapped, crossed, control>>
    BY <1>2 DEF Snap, CaptureStops, uiVars, netVars, pastVars
  <2> QED BY <1>0, <1>a, <2>1, ScreenSame
<1>3. ASSUME NEW c \in Command, CommandArrives(c) PROVE ScreenInv'
  <2> DEFINE job == [do |-> "command", command |-> c]
  <2>1. job \in Posted /\ job.do \notin {"control", "tail"} /\ ~IsVisible(job)
    BY PostedJobs DEF IsVisible
  <2>2. main' = Append(main, job) /\ UNCHANGED <<shown, overlapped, crossed, control>>
    BY <1>3 DEF CommandArrives, netVars
  <2> HIDE DEF job
  <2> QED BY <1>0, <1>a, <2>1, <2>2, ScreenAppended
<1>4. CASE Disconnect
  <2>1. Ended \in Posted /\ Ended.do \notin {"control", "tail"} /\ IsVisible(Ended)
    BY PostedJobs DEF IsVisible, Ended
  <2>2. /\ main' = Append(main, Ended) /\ UNCHANGED <<shown, overlapped, crossed>>
        /\ control'.link = "none" /\ control'.state = control.state
    BY <1>0, <1>4 DEF Disconnect
  <2>3. ~overlapped => (control.state \in Down => control.link = "none")
    BY <1>0 DEF LinkInv, Down
  <2>4. CASE overlapped
    BY <2>2, <2>4 DEF ScreenInv
  <2>5. CASE ~overlapped
    BY <1>0, <1>a, <2>1, <2>2, <2>3, <2>5, ScreenAppended
  <2> QED BY <2>4, <2>5
<1>5. CASE Callback
  <2>1. callbacks # <<>> /\ Head(callbacks) \in Reports
    BY <1>0, <1>5, HeadTailProperties DEF Callback, SessionTypes, Reports
  <2>2. PICK s \in {"connected", "idle", "failed"} :
          /\ s = "connected" <=> Head(callbacks) = "ready"
          /\ s = "idle" <=> Head(callbacks) = "cancelled"
          /\ control' = [state |-> s, link |-> IF s = "failed" THEN "none" ELSE control.link]
          /\ main' = main \o StateChange(s)
    BY <1>5, <2>1 DEF Callback, Reports
  <2>3. UNCHANGED <<shown, overlapped, crossed>>
    BY <1>5 DEF Callback, pastVars
  <2>4. CASE overlapped
    BY <2>3, <2>4 DEF ScreenInv
  <2>5. CASE ~overlapped
    <3>1. s = "idle" => control.link = "none"
      <4>1. Head(callbacks) = "cancelled" => control.link \notin {"preparing", "open", "broken"}
        BY <1>0, <2>1, <2>5, ShortQueues DEF LinkInv
      <4> QED BY <1>0, <2>2, <4>1
    <3>2. control.state \in Down => control.link = "none"
      BY <1>0, <2>5 DEF LinkInv, Down
    <3>3. control'.state = s /\ control'.link = IF s = "failed" THEN "none" ELSE control.link
      BY <2>2
    <3> QED BY <1>0, <1>a, <2>2, <2>3, <3>1, <3>2, <3>3, ScreenControl
  <2> QED BY <2>4, <2>5
<1>6. CASE ReceiveEnds
  <2>1. PICK s \in {"idle", "failed"} :
          control' = [state |-> s, link |-> "none"] /\ main' = main \o StateChange(s)
    BY <1>6 DEF ReceiveEnds
  <2>2. UNCHANGED <<shown, overlapped, crossed>> /\ control'.state = s /\ control'.link = "none"
    BY <1>6, <2>1 DEF ReceiveEnds, pastVars
  <2>3. ~overlapped /\ control.state \in Down => control.link = "none"
    BY <1>0 DEF LinkInv, Down
  <2> QED BY <1>0, <1>a, <2>1, <2>2, <2>3, ScreenControl
<1> QED BY <1>1, <1>2, <1>3, <1>4, <1>5, <1>6

LEMMA UserKeepsScreen ==
  ASSUME ShownInv, NEW d \in Dialer, NEW usb \in BOOLEAN, Tap(d, usb)
  PROVE  ScreenInv'
<1> DEFINE job == [do |-> "start", dialer |-> d]
<1>1. job \in Posted /\ job.do \notin {"control", "tail"}
  BY PostedJobs DEF Awaited
<1>2. main' = Append(main, job) /\ UNCHANGED <<shown, overlapped, crossed, control>>
  BY DEF Tap, netVars
<1>3. dialer'[d].step = "start" /\ dialer[d].step = "none" /\ \A e \in Dialer \ {d} : dialer'[e] = dialer[e]
  BY DEF Tap, ShownInv, SessionInv, ShutInv, SessionTypes
<1>4. UnderWay' /\ Dialled' = Dialled
  BY <1>3 DEF UnderWay, UnderWaySteps, Dialled
<1> HIDE DEF job
<1> QED BY <1>1, <1>2, <1>4, ScreenAppended DEF ShownInv, SessionInv, ShutInv

\* A call goes from one step to another.
LEMMA GoingOn ==
  ASSUME NEW d \in Dialer, NEW to, GoesOn(d, to)
  PROVE  /\ to # "dialled" /\ dialer[d].step # "dialled" => Dialled' = Dialled
         /\ to \in UnderWaySteps => UnderWay'
         /\ dialer[d].step \notin UnderWaySteps /\ UnderWay => UnderWay'
         /\ to = "dialled" => Dialled'
         /\ dialer[d].step = "dialled" => Dialled
BY DEF GoesOn, Dialled, UnderWay

LEMMA ConnectingKeepsScreen ==
  ASSUME ShownInv, NEW d \in Dialer, Connecting(d)
  PROVE  ScreenInv'
<1>0. SessionTypes /\ ScreenInv /\ LinkInv /\ PastInv /\ main \in Seq(Posted)
      /\ control \in [state : States, link : {"none", "preparing", "open", "broken"}]
  BY DEF ShownInv, SessionInv, ShutInv, SessionTypes
<1>1. CASE Authorise(d)
  <2>1. UNCHANGED <<shown, overlapped, crossed, control>> /\ dialer[d].step = "authorise"
    BY <1>1 DEF Authorise, Resume, netVars
  <2>2. \/ /\ dialer' = [dialer EXCEPT ![d].step = "bring up"] /\ main' = main
        \/ /\ dialer' = [dialer EXCEPT ![d].step = "denied"]
           /\ \A e \in Dialer : dialer[e].step \in {"none", "start", "authorise", "denied"}
           /\ main' = Append(main, [do |-> "show", state |-> "failed"])
    BY <1>1 DEF Authorise, Resume
  <2>3. CASE dialer' = [dialer EXCEPT ![d].step = "bring up"] /\ main' = main
    <3>1. GoesOn(d, "bring up")
      BY <1>0, <2>3, Going DEF Steps
    <3>2. UnderWay' /\ Dialled' = Dialled
      <4>1. "bring up" \in UnderWaySteps
        BY DEF UnderWaySteps
      <4>2. UnderWay'
        BY <3>1, <4>1, GoingOn
      <4>3. Dialled' = Dialled
        <5>1. dialer[d].step # "dialled" /\ "bring up" # "dialled"
          BY <2>1
        <5> QED BY <3>1, <5>1, GoingOn
      <4> QED BY <4>2, <4>3
    <3> QED BY <1>0, <2>1, <2>3, <3>2, ScreenSame
  <2>4. CASE /\ dialer' = [dialer EXCEPT ![d].step = "denied"]
             /\ \A e \in Dialer : dialer[e].step \in {"none", "start", "authorise", "denied"}
             /\ main' = Append(main, [do |-> "show", state |-> "failed"])
    <3> DEFINE job == [do |-> "show", state |-> "failed"]
    <3>1. GoesOn(d, "denied")
      BY <1>0, <2>4, Going DEF Steps
    <3>2. Dialled' = Dialled
      BY <2>1, <3>1, GoingOn
    <3>3. control.link = "none"
      BY <1>0, <2>4 DEF PastInv
    <3>4. job \in Posted /\ job.do \notin {"control", "tail"} /\ IsVisible(job)
      BY PostedJobs DEF IsVisible
    <3>5. main' = Append(main, job)
      BY <2>4
    <3> HIDE DEF job
    <3> QED BY <1>0, <2>1, <3>2, <3>3, <3>4, <3>5, ScreenAppended
  <2> QED BY <2>2, <2>3, <2>4
<1>2. CASE BringUp(d)
  <2> DEFINE job == [do |-> "name", dialer |-> d]
  <2>1. UNCHANGED <<shown, overlapped, crossed, control>> /\ dialer[d].step = "bring up"
        /\ main' = Append(main, job)
    BY <1>2 DEF BringUp, netVars
  <2>2. GoesOn(d, "naming")
    BY <1>0, <1>2, GoingNamed DEF BringUp, Steps
  <2>3. UnderWay' /\ Dialled' = Dialled
    <3>1. "naming" \in UnderWaySteps
      BY DEF UnderWaySteps
    <3>2. UnderWay'
      BY <2>2, <3>1, GoingOn
    <3>3. Dialled' = Dialled
      <4>1. dialer[d].step # "dialled" /\ "naming" # "dialled"
        BY <2>1
      <4> QED BY <2>2, <4>1, GoingOn
    <3> QED BY <3>2, <3>3
  <2>4. job \in Posted /\ job.do \notin {"control", "tail"}
    BY PostedJobs DEF Awaited
  <2> HIDE DEF job
  <2> QED BY <1>0, <2>1, <2>3, <2>4, ScreenAppended
<1>3. CASE Dial(d)
  <2> SUFFICES ASSUME ~overlapped', ~crossed' PROVE ScreenInv'
    BY DEF ScreenInv
  <2>1. GoesOn(d, "dialled") /\ UnderWay' /\ Dialled'
    <3>1. GoesOn(d, "dialled")
      BY <1>0, <1>3, Going DEF Dial, Resume, Steps
    <3> QED BY <3>1, GoingOn DEF UnderWaySteps
  <2>2. ~(overlapped \/ callbacks # <<>> \/ lostReceives > 0 \/ control.link # "none") /\ ~crossed
    BY <1>3 DEF Dial, Resume
  <2>3. control.state \in Down
    BY <1>0, <2>2 DEF LinkInv
  <2> DEFINE job == [do |-> "control", state |-> "connecting"]
  <2>4. main' = Append(main, job) /\ job \in Posted /\ Is(job, {"connecting"})
    <3>1. "connecting" \in States /\ control.state # "connecting"
      BY <2>3 DEF States, Down
    <3>2. main' = main \o StateChange("connecting")
      BY <1>3 DEF Dial
    <3>3. main' = Append(main, job)
      BY <1>0, <3>1, <3>2, Postings
    <3> QED BY <3>1, <3>3, PostedJobs DEF Is
  <2>5. control'.link = "preparing"
    BY <1>3 DEF Dial
  <2> HIDE DEF job
  <2>6. Covered(main, Dialled)
    BY <1>0, <2>2 DEF ScreenInv
  <2>7. Covered(main', Dialled')
    BY <1>0, <2>1, <2>4, <2>6, AppendedCovered
  <2>8. Overruled(main')
    BY <1>0, <2>4, AppendedJob
  <2> QED BY <2>1, <2>5, <2>7, <2>8 DEF ScreenInv
<1>4. CASE PostTail(d)
  <2> DEFINE job == [do |-> "tail", dialer |-> d]
  <2>1. UNCHANGED <<shown, overlapped, crossed, control>> /\ dialer[d].step = "dialled"
        /\ main' = Append(main, job)
    BY <1>4 DEF PostTail, Resume, netVars
  <2>2. Dialled
    BY <2>1 DEF Dialled
  <2>3. job \in Posted /\ job.do = "tail" /\ ~Is(job, Down) /\ ~Is(job, {"connecting"}) /\ IsVisible(job)
    BY PostedJobs DEF Awaited, Is, IsVisible
  <2> HIDE DEF job
  <2> SUFFICES ASSUME ~overlapped, ~crossed PROVE ScreenInv'
    BY <2>1 DEF ScreenInv
  <2>4. Covered(main, Dialled)
    BY <1>0 DEF ScreenInv
  <2>5. Covered(main', Dialled')
    BY <1>0, <2>1, <2>3, <2>4, AppendedCovered
  <2>6. /\ EndsUp(main', shown')
        /\ Sinks(main) => Sinks(main')
        /\ Overruled(main) => Overruled(main')
    BY <1>0, <2>1, <2>3, AppendedJob
  <2> QED BY <1>0, <2>1, <2>2, <2>5, <2>6 DEF ScreenInv
<1> QED BY <1>1, <1>2, <1>3, <1>4 DEF Connecting

LEMMA JobKeepsScreen ==
  ASSUME ShownInv, RunJob
  PROVE  ScreenInv'
<1> DEFINE job == Head(main)
<1>0. /\ SessionTypes /\ AwaitInv /\ ScreenInv /\ main \in Seq(Posted) /\ main # <<>>
      /\ UNCHANGED <<control, overlapped>>
  BY DEF ShownInv, SessionInv, ShutInv, SessionTypes, RunJob, netVars
<1>1. /\ job \in Posted /\ Tail(main) \in Seq(Posted)
      /\ ControlJob(job) \/ CommandJob(job) \/ ShowJob(job) \/ AwaitedJob(job)
      /\ job.do \in Awaited => dialer[job.dialer].step = StepOf(job.do)
  BY <1>0, HeadTailProperties, AwaitTail DEF RunJob, AwaitInv
<1> SUFFICES ASSUME ~overlapped, ~crossed' PROVE ScreenInv'
  BY <1>0 DEF ScreenInv
<1>2. ~crossed
  BY <1>1 DEF ControlJob, CommandJob, ShowJob, AwaitedJob
<1>3. /\ Covered(Tail(main), Dialled)
      /\ Sinks(main) => Sinks(Tail(main)) \/ Is(job, Down)
      /\ Doomed(main) => Doomed(Tail(main)) \/ Is(job, {"connecting"})
      /\ Overruled(main) => Overruled(Tail(main))
  BY <1>0, <1>2, FirstJobRun DEF ScreenInv
<1>4. ASSUME main' = Tail(main), ~Is(job, {"connecting"}), ~Is(job, Down),
             Dialled' = Dialled, UnderWay => UnderWay',
             IF IsVisible(job) THEN shown' = "connected" <=> job.do = "tail" ELSE shown' = shown
      PROVE  ScreenInv'
  <2>1. EndsUp(main', shown') <=> EndsUp(main, shown)
    BY <1>0, <1>4, FirstJobRun
  <2>2. Covered(main', Dialled')
    BY <1>3, <1>4
  <2>3. /\ Sinks(main) => Sinks(main')
        /\ Doomed(main) => Doomed(main')
        /\ Overruled(main) => Overruled(main')
    BY <1>3, <1>4
  <2> QED BY <1>0, <1>2, <1>4, <2>1, <2>2, <2>3 DEF ScreenInv
<1>5. CASE CommandJob(job)
  <2>1. main' = Tail(main) /\ UNCHANGED <<shown, dialer>> /\ job.do = "command"
    BY <1>5 DEF CommandJob
  <2>2. Dialled' = Dialled /\ UnderWay' = UnderWay
    BY <2>1 DEF Dialled, UnderWay
  <2>3. ~Is(job, {"connecting"}) /\ ~Is(job, Down) /\ ~IsVisible(job)
    BY <2>1 DEF Is, IsVisible
  <2> HIDE DEF job
  <2> QED BY <1>4, <2>1, <2>2, <2>3
<1>6. CASE ShowJob(job)
  <2>1. main' = Tail(main) /\ UNCHANGED dialer /\ job.do = "show" /\ shown' # "connected"
    BY <1>1, <1>6, PostedJobs DEF ShowJob
  <2>2. Dialled' = Dialled /\ UnderWay' = UnderWay
    BY <2>1 DEF Dialled, UnderWay
  <2>3. ~Is(job, {"connecting"}) /\ ~Is(job, Down) /\ job.do # "tail"
    BY <2>1 DEF Is
  <2>4. IF IsVisible(job) THEN shown' = "connected" <=> job.do = "tail" ELSE shown' = shown
    BY <2>1 DEF IsVisible
  <2> HIDE DEF job
  <2> QED BY <1>4, <2>1, <2>2, <2>3, <2>4
<1>7. CASE AwaitedJob(job)
  <2>1. /\ job.do \in Awaited /\ job.dialer \in Dialer
        /\ GoesOn(job.dialer, After(job.do)) /\ main' = Tail(main)
        /\ shown' = IF job.do = "start" THEN "connecting"
                    ELSE IF job.do = "tail" THEN "connected" ELSE shown
    BY <1>0, <1>1, <1>7, AwaitedRuns
  <2>2. dialer[job.dialer].step = StepOf(job.do)
    BY <1>1, <2>1
  <2> HIDE DEF job
  <2>3. /\ After(job.do) # "dialled" /\ StepOf(job.do) # "dialled"
        /\ After(job.do) \in UnderWaySteps \/ StepOf(job.do) \notin UnderWaySteps
    BY <2>1 DEF After, StepOf, Awaited, UnderWaySteps
  <2>4. Dialled' = Dialled /\ (UnderWay => UnderWay')
    BY <2>1, <2>2, <2>3, GoingOn
  <2>5. ~Is(job, {"connecting"}) /\ ~Is(job, Down)
    BY <2>1 DEF Is, Awaited
  <2>6. IF IsVisible(job) THEN shown' = "connected" <=> job.do = "tail" ELSE shown' = shown
    BY <2>1 DEF IsVisible, Awaited
  <2> QED BY <1>4, <2>1, <2>4, <2>5, <2>6
<1>8. CASE ControlJob(job)
  <2>1. /\ main' = Tail(main) \o Published(job.state) /\ ~Crosses(job.state)
        /\ UNCHANGED <<shown, dialer>> /\ job.do = "control" /\ job.state \in States
    BY <1>1, <1>8, PostedJobs DEF ControlJob
  <2> DEFINE show == [do |-> "show", state |-> IF job.state = "idle" THEN "disconnected" ELSE job.state]
  <2>2. main' = IF job.state = "connected" THEN Tail(main) ELSE Append(Tail(main), show)
    BY <1>0, <1>1, <2>1, Postings
  <2>3. Dialled' = Dialled /\ UnderWay' = UnderWay
    BY <2>1 DEF Dialled, UnderWay
  <2>4. ~IsVisible(job)
    BY <2>1 DEF IsVisible
  <2>5. job.state # "connected" => show \in Posted
    BY <2>1, PostedJobs DEF States
  <2>6. show.do = "show"
    OBVIOUS
  <2>7. EndsUp(Tail(main), shown) <=> EndsUp(main, shown)
    BY <1>0, <2>4, FirstJobRun
  <2> HIDE DEF show
  <2>8. ~Is(show, {"connecting"}) /\ ~Is(show, Down) /\ IsVisible(show) /\ show.do # "tail"
    BY <2>6 DEF Is, IsVisible
  <2>9. job.state # "connected" =>
          /\ ~EndsUp(main', shown)
          /\ Covered(main', Dialled)
          /\ Sinks(Tail(main)) => Sinks(main')
          /\ Doomed(Tail(main)) => Doomed(main')
          /\ Overruled(Tail(main)) => Overruled(main')
    BY <1>1, <1>3, <2>2, <2>5, <2>8, AppendedJob, AppendedCovered
  <2>10. CASE job.state = "connected"
    <3>1. main' = Tail(main) /\ ~Is(job, {"connecting"}) /\ ~Is(job, Down)
      BY <2>2, <2>10 DEF Is, Down
    <3>2. UNCHANGED shown
      BY <2>1
    <3> HIDE DEF job
    <3> QED BY <1>4, <2>3, <2>4, <3>1, <3>2
  <2>11. CASE job.state = "connecting"
    <3>1. ~ \E j \in 1 .. Len(main) : main[j].do = "tail"
      <4>1. ASSUME NEW j \in 1 .. Len(main), main[j].do = "tail" PROVE FALSE
        <5>1. main[j].dialer \in Dialer /\ dialer[main[j].dialer].step = "tail"
          <6>1. main[j] \in Posted
            BY <1>0, ElementOfSeq
          <6> QED BY <1>0, <4>1, <6>1, PostedJobs DEF AwaitInv, AwaitsOne, Awaited, StepOf
        <5> QED BY <2>1, <2>11, <5>1 DEF Crosses
      <4> QED BY <4>1
    <3>2. Is(job, {"connecting"}) /\ ~Is(job, Down)
      BY <2>1, <2>11 DEF Is, Down
    <3>3. Dialled
      <4>1. Covered(main, Dialled)
        BY <1>0, <1>2 DEF ScreenInv
      <4> QED BY <1>0, <3>1, <3>2, <4>1, FirstJobRun
    <3>4. UnderWay
      BY <3>3 DEF Dialled, UnderWay, UnderWaySteps
    <3> HIDE DEF job
    <3> QED BY <1>0, <1>2, <1>3, <2>1, <2>3, <2>9, <2>11, <3>2, <3>3, <3>4 DEF ScreenInv
  <2>12. CASE job.state \in Down
    <3>1. ~Dialled /\ Is(job, Down) /\ job.state # "connected"
      BY <2>1, <2>12 DEF Crosses, Dialled, Is, Down
    <3>2. control.link # "none" => Doomed(Tail(main)) /\ Overruled(Tail(main))
      <4>1. Covered(main, Dialled)
        BY <1>0, <1>2 DEF ScreenInv
      <4>2. control.link # "none" => Overruled(main)
        BY <1>0, <1>2 DEF ScreenInv
      <4> QED BY <1>0, <3>1, <4>1, <4>2, FirstJobRun
    <3> HIDE DEF job
    <3> QED BY <1>0, <2>1, <2>3, <2>9, <3>1, <3>2 DEF ScreenInv
  <2> QED BY <2>1, <2>10, <2>11, <2>12 DEF States, Down
<1> QED BY <1>1, <1>5, <1>6, <1>7, <1>8

LEMMA ShownInvSuffices == ShownInv => ShownIsTrue
<1> SUFFICES ASSUME ShownInv, AtRest, ~crossed, ~overlapped
             PROVE  shown = "connected" <=> control.state \in {"connecting", "connected"}
  BY DEF ShownIsTrue
<1>0. control \in [state : States, link : {"none", "preparing", "open", "broken"}]
  BY DEF ShownInv, SessionInv, ShutInv, SessionTypes
<1>1. /\ main = <<>> /\ callbacks = <<>> /\ ~UnderWay /\ ~Dialled /\ Len(main) = 0
  BY DEF AtRest, UnderWay, UnderWaySteps, Dialled
<1>2. /\ ~Sinks(main) /\ ~Doomed(main)
      /\ EndsUp(main, shown) <=> shown = "connected"
  BY <1>1 DEF Sinks, Doomed, EndsUp
<1>3. CASE control.link = "none"
  <2>1. control.state \in Down
    BY <1>1, <1>3 DEF ShownInv, LinkInv
  <2>2. shown # "connected"
    BY <1>1, <1>2, <1>3, <2>1 DEF ShownInv, ScreenInv
  <2> QED BY <2>1, <2>2 DEF Down
<1>4. CASE control.link # "none"
  <2>1. control.state \in {"connecting", "connected"}
    BY <1>0, <1>4 DEF ShownInv, LinkInv
  <2>2. shown = "connected"
    BY <1>1, <1>2, <1>4 DEF ShownInv, ScreenInv
  <2> QED BY <2>1, <2>2
<1> QED BY <1>3, <1>4

LEMMA ShownInvKept == ShownInv /\ [Next]_vars => ShownInv'
<1> SUFFICES ASSUME ShownInv, [Next]_vars PROVE ShownInv'
  OBVIOUS
<1>1. SessionInv'
  BY SessionInvKept DEF ShownInv
<1>2. CASE Next
  <2>1. LinkInv' /\ PastInv'
    BY <1>2, LinkInvKept, PastInvKept DEF ShownInv, SessionInv, ShutInv
  <2>2. ScreenInv'
    BY <1>2, NetworkKeepsScreen, UserKeepsScreen, ConnectingKeepsScreen, JobKeepsScreen DEF Next
  <2> QED BY <1>1, <2>1, <2>2 DEF ShownInv
<1>3. CASE UNCHANGED vars
  <2>1. UNCHANGED <<main, shown, dialer, control, callbacks, lostReceives, crossed, overlapped>>
    BY <1>3 DEF vars, uiVars, netVars, pastVars
  <2>2. LinkInv' /\ PastInv'
    BY <2>1 DEF ShownInv, LinkInv, PastInv
  <2>3. ScreenInv'
    BY <2>1 DEF ShownInv, ScreenInv, Dialled, UnderWay
  <2> QED BY <1>1, <2>2, <2>3 DEF ShownInv
<1> QED BY <1>2, <1>3

(***************************************************************************)
(* ScreenIsTrue: once every callback and task has run, the screen shows a  *)
(* connection exactly if the control channel has one or still dials        *)
(* (StreamController.connect, handle(controlState:)), for any number of    *)
(* sessions, unless a state of the channel crossed connect() or connect()  *)
(* dialled before the last connection was done with.                       *)
(***************************************************************************)
THEOREM ScreenIsTrue == Spec => []ShownIsTrue
<1>1. Init => ShownInv
  <2> SUFFICES ASSUME Init PROVE ShownInv
    OBVIOUS
  <2>1. control.link = "none" /\ control.state = "idle" /\ callbacks = <<>> /\ main = <<>> /\ Len(main) = 0
        /\ shown = "disconnected" /\ \A d \in Dialer : dialer[d].step = "none"
    BY DEF Init
  <2>2. LinkInv /\ PastInv
    BY <2>1 DEF LinkInv, PastInv, Down
  <2>3. ~Dialled /\ ~EndsUp(main, shown) /\ Covered(main, Dialled)
    BY <2>1 DEF Dialled, EndsUp, Covered
  <2>4. ScreenInv
    BY <2>1, <2>3 DEF ScreenInv
  <2> QED BY <2>2, <2>4, SessionInvInitially DEF ShownInv
<1>2. ShownInv /\ [Next]_vars => ShownInv'
  BY ShownInvKept
<1>3. ShownInv => ShownIsTrue
  BY ShownInvSuffices
<1> QED BY <1>1, <1>2, <1>3, PTL DEF Spec

=============================================================================
