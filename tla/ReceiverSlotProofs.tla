-------------------------- MODULE ReceiverSlotProofs --------------------------
(***************************************************************************)
(* Proofs about ReceiverSlot, for any receivers, classes and stalls.       *)
(***************************************************************************)
EXTENDS ReceiverSlot, UsbTunnels, TLAPS

Busy(c)  == pc[c] \notin {"idle", "closed"}
Holds(c) == pc[c] \in {"check", "clear", "join", "destroy", "spawn"}

\* Somebody is waiting for the thread of r.
Joining(r) == \E c \in Caller : pc[c] = "join" /\ held[c] = r

(***************************************************************************)
(* What is true even when the callers overlap: receivers come into use as  *)
(* they are created, and a decode thread can be joined.                    *)
(***************************************************************************)
Born ==
  /\ \A r \in Receiver :
       IF life[r] = "unborn"
         THEN worker[r] = "none" /\ ~isRunning[r] /\ ~joinable[r]
         ELSE kind[r] \in {"rtsp", "raw"}
  /\ slot # NoReceiver => life[slot] # "unborn"
  /\ \A c \in Caller : Holds(c) => held[c] # NoReceiver /\ life[held[c]] # "unborn"

CanBeJoined == \A r \in Receiver : Decoding(r) => joinable[r]

OrphanInv == TypeOK /\ Born /\ CanBeJoined /\ NoOrphan

(***************************************************************************)
(* What is true as long as they do not.                                    *)
(***************************************************************************)
OneCaller == \A c, d \in Caller : Busy(c) /\ Busy(d) => c = d

\* A caller and the receiver it works on, at each place of its way.
CallInv(c) ==
  /\ Busy(c) /\ pc[c] # "start" => goal[c] # "start"
  /\ Holds(c) => life[held[c]] = "live"
  /\ pc[c] \in {"check", "clear", "join"} /\ after[c] = "reset" => held[c] = slot
  /\ \/ pc[c] \in {"check", "clear", "join"} /\ after[c] = "destroy"
     \/ pc[c] \in {"create", "destroy"}
     => slot = NoReceiver
  /\ pc[c] = "destroy" => ~joinable[held[c]] \/ worker[held[c]] = "quit"
  /\ pc[c] = "start" => slot # NoReceiver /\ worker[slot] = "none"
  /\ pc[c] = "spawn" => held[c] = slot /\ isRunning[slot] /\ worker[slot] = "none"

\* A thread that decodes is the slot's or is being stopped, and one that is told to
\* end is being waited for.
ThreadInv(r) ==
  /\ Decoding(r) => r = slot \/ \E c \in Caller : /\ pc[c] \in {"check", "clear", "join"}
                                                  /\ after[c] = "destroy" /\ held[c] = r
  /\ joinable[r] => isRunning[r] \/ worker[r] = "quit" \/ Joining(r)

InTurn ==
  /\ OneCaller
  /\ \A c \in Caller : CallInv(c)
  /\ \A r \in Receiver : ThreadInv(r)
  /\ slot # NoReceiver => life[slot] = "live"

SlotInv ==
  /\ OrphanInv
  /\ ~overlap /\ fate = "alive" => InTurn
  /\ OneDecoder /\ TornDownCleanly

LEMMA SlotInitially == Init => SlotInv
<1> SUFFICES ASSUME Init PROVE SlotInv
  OBVIOUS
<1>1. TypeOK
  BY DEF Init, TypeOK
<1>2. Born /\ CanBeJoined /\ NoOrphan
  BY DEF Init, Born, CanBeJoined, NoOrphan, Decoding, Holds
<1>3. InTurn
  BY DEF Init, InTurn, OneCaller, Busy, CallInv, Holds, ThreadInv, Decoding
<1>4. OneDecoder /\ TornDownCleanly
  BY <1>1 DEF Init, OneDecoder, TornDownCleanly, Decoding
<1> QED BY <1>1, <1>2, <1>3, <1>4 DEF SlotInv, OrphanInv

(***************************************************************************)
(* A process that has come to its end does nothing more.                   *)
(***************************************************************************)
LEMMA StepsAreAlive == Next => fate = "alive"
BY DEF Next, EnterConnect, EnterClose, EnterDisconnect, MayEnter, Render, At,
       CallerStep, Load, CheckRunning, ClearRunning, Join, Reset, Destroy, Create,
       Start, Spawn, WorkerStep, RtspRetry, RtspOpen, RtspOpened, RtspLost,
       RawConnected, CheckLoop, ReadFrame, ReadFails, RawLeaves, Worker

(***************************************************************************)
(* Types.                                                                  *)
(***************************************************************************)
LEMMA CallersKeepTypes ==
  ASSUME TypeOK, NEW c \in Caller, CallerStep(c)
  PROVE  TypeOK'
<1> USE DEF At, Go, Dangles, objVars, callVars, canvasVars
<1>1. CASE Load(c)
  BY <1>1 DEF Load, TypeOK
<1>2. CASE CheckRunning(c)
  BY <1>2 DEF CheckRunning, TypeOK
<1>3. CASE ClearRunning(c)
  <2>1. isRunning' \in [Receiver -> BOOLEAN] /\ stopRequested' \in [Receiver -> BOOLEAN]
    BY <1>3 DEF ClearRunning, TypeOK
  <2>2. pc' \in {pc, [pc EXCEPT ![c] = "join"], [pc EXCEPT ![c] = after[c]]}
    BY <1>3 DEF ClearRunning
  <2> QED BY <1>3, <2>1, <2>2 DEF ClearRunning, TypeOK
<1>4. CASE Join(c)
  <2>1. joinable' \in [Receiver -> BOOLEAN]
    BY <1>4 DEF Join, TypeOK
  <2>2. pc' \in {pc, [pc EXCEPT ![c] = after[c]]}
    BY <1>4 DEF Join
  <2> QED BY <1>4, <2>1, <2>2 DEF Join, TypeOK
<1>5. CASE Reset(c)
  BY <1>5 DEF Reset, TypeOK
<1>6. CASE Destroy(c)
  BY <1>6 DEF Destroy, TypeOK
<1>7. CASE Create(c)
  BY <1>7, KindsAssumption DEF Create, TypeOK
<1>8. CASE Start(c)
  BY <1>8 DEF Start, TypeOK
<1>9. CASE Spawn(c)
  BY <1>9 DEF Spawn, TypeOK
<1> QED BY <1>1, <1>2, <1>3, <1>4, <1>5, <1>6, <1>7, <1>8, <1>9 DEF CallerStep

LEMMA WorkersKeepTypes ==
  ASSUME TypeOK, Born, NEW r \in Receiver, WorkerStep(r)
  PROVE  TypeOK'
<1> USE DEF Worker, frame, callVars, canvasVars
<1>1. CASE RtspRetry(r) \/ RtspOpen(r) \/ RtspOpened(r) \/ RtspLost(r)
  BY <1>1 DEF RtspRetry, RtspOpen, RtspOpened, RtspLost, TypeOK
<1>2. CASE RawConnected(r) \/ RawLeaves(r)
  BY <1>2 DEF RawConnected, RawLeaves, TypeOK
<1>3. CASE CheckLoop(r)
  BY <1>3 DEF CheckLoop, TypeOK
<1>4. CASE ReadFrame(r)
  <2>1. queued' \in Nat
    BY <1>4 DEF ReadFrame, TypeOK
  <2>2. {drawn', isRendering', overlap'} \subseteq BOOLEAN
    BY <1>4, Zenon DEF ReadFrame, TypeOK
  <2> QED BY <1>4, <2>1, <2>2 DEF ReadFrame, TypeOK
<1>5. CASE ReadFails(r)
  BY <1>5 DEF ReadFails, TypeOK
<1> QED BY <1>1, <1>2, <1>3, <1>4, <1>5 DEF WorkerStep

LEMMA EntersKeepTypes ==
  ASSUME TypeOK, EnterConnect \/ EnterClose \/ EnterDisconnect \/ Render
  PROVE  TypeOK'
<1>1. ASSUME NEW c \in Caller, MayEnter(c) PROVE overlap' \in BOOLEAN
  BY <1>1 DEF MayEnter, TypeOK
<1>2. "gui" \in Caller /\ "io" \in Caller
  BY DEF Caller
<1> USE DEF Go, objVars, callVars, canvasVars
<1>3. CASE EnterConnect
  BY <1>1, <1>2, <1>3 DEF EnterConnect, TypeOK
<1>4. CASE EnterClose
  BY <1>1, <1>2, <1>4 DEF EnterClose, TypeOK
<1>5. CASE EnterDisconnect
  BY <1>1, <1>2, <1>5 DEF EnterDisconnect, TypeOK
<1>6. CASE Render
  <2>1. queued' \in Nat
    BY <1>6 DEF Render, TypeOK
  <2>2. {drawn', isRendering', overlap'} \subseteq BOOLEAN
    BY <1>6, Zenon DEF Render, TypeOK
  <2> QED BY <1>6, <2>1, <2>2 DEF Render, TypeOK
<1> QED BY <1>3, <1>4, <1>5, <1>6

LEMMA TypesKept ==
  ASSUME TypeOK, Born, Next PROVE TypeOK'
BY CallersKeepTypes, WorkersKeepTypes, EntersKeepTypes DEF Next

(***************************************************************************)
(* No decode thread outlives its receiver, whoever stops it.               *)
(***************************************************************************)
LEMMA CallersKeepOrphans ==
  ASSUME OrphanInv, NEW c \in Caller, CallerStep(c)
  PROVE  Born' /\ CanBeJoined' /\ NoOrphan'
<1> USE DEF OrphanInv, At, Go, Dangles, objVars, callVars, canvasVars, Decoding
<1>1. CASE Load(c)
  BY <1>1 DEF Load, TypeOK, Born, CanBeJoined, NoOrphan, Holds
<1>2. CASE CheckRunning(c)
  BY <1>2 DEF CheckRunning, TypeOK, Born, CanBeJoined, NoOrphan, Holds
<1>3. CASE ClearRunning(c)
  BY <1>3 DEF ClearRunning, TypeOK, Born, CanBeJoined, NoOrphan, Holds
<1>4. CASE Join(c)
  BY <1>4 DEF Join, TypeOK, Born, CanBeJoined, NoOrphan, Holds
<1>5. CASE Reset(c)
  BY <1>5 DEF Reset, TypeOK, Born, CanBeJoined, NoOrphan, Holds
<1>6. CASE Destroy(c)
  BY <1>6 DEF Destroy, TypeOK, Born, CanBeJoined, NoOrphan, Holds
<1>7. CASE Create(c)
  BY <1>7, KindsAssumption, NoReceiverAssumption DEF Create, TypeOK, Born, CanBeJoined, NoOrphan, Holds
<1>8. CASE Start(c)
  BY <1>8 DEF Start, TypeOK, Born, CanBeJoined, NoOrphan, Holds
<1>9. CASE Spawn(c)
  BY <1>9 DEF Spawn, TypeOK, Born, CanBeJoined, NoOrphan, Holds
<1> QED BY <1>1, <1>2, <1>3, <1>4, <1>5, <1>6, <1>7, <1>8, <1>9 DEF CallerStep

\* What the steps of a decode thread have in common.
LEMMA WorkerActs ==
  ASSUME TypeOK, NEW r \in Receiver, WorkerStep(r)
  PROVE  /\ UNCHANGED <<slot, kind, life, joinable, pc, held, after, goal, fate, overlap>>
         /\ fate = "alive" /\ Decoding(r)
         /\ \E w : w # "none" /\ worker' = [worker EXCEPT ![r] = w]
         /\ \/ isRunning' = isRunning
            \/ /\ isRunning' = [isRunning EXCEPT ![r] = FALSE]
               /\ isRunning[r] => worker'[r] = "quit"
BY DEF WorkerStep, RtspRetry, RtspOpen, RtspOpened, RtspLost, RawConnected, CheckLoop,
       ReadFrame, ReadFails, RawLeaves, Worker, frame, callVars, Decoding, TypeOK

LEMMA WorkersKeepOrphans ==
  ASSUME OrphanInv, NEW r \in Receiver, WorkerStep(r)
  PROVE  Born' /\ CanBeJoined' /\ NoOrphan'
<1>1. /\ UNCHANGED <<slot, kind, life, joinable, pc, held, fate>> /\ fate = "alive"
      /\ Decoding(r)
      /\ \E w : w # "none" /\ worker' = [worker EXCEPT ![r] = w]
      /\ isRunning' \in {isRunning, [isRunning EXCEPT ![r] = FALSE]}
  BY WorkerActs DEF OrphanInv
<1>2. life[r] # "unborn"
  BY <1>1 DEF OrphanInv, Born, Decoding
<1>3. Born'
  BY <1>1, <1>2 DEF OrphanInv, Born, TypeOK, Holds
<1>4. CanBeJoined' /\ NoOrphan'
  BY <1>1 DEF OrphanInv, CanBeJoined, NoOrphan, TypeOK, Decoding
<1> QED BY <1>3, <1>4

LEMMA OrphansKept ==
  ASSUME OrphanInv, Next PROVE OrphanInv'
<1>1. TypeOK'
  BY TypesKept DEF OrphanInv
<1>2. ASSUME EnterConnect \/ EnterClose \/ EnterDisconnect \/ Render
      PROVE  Born' /\ CanBeJoined' /\ NoOrphan'
  <2>1. /\ UNCHANGED <<slot, objVars, held, fate>>
        /\ \A c \in Caller : Holds(c)' => Holds(c)
    BY <1>2 DEF EnterConnect, EnterClose, EnterDisconnect, Render, Go, callVars, Holds,
                OrphanInv, TypeOK
  <2> QED BY <2>1 DEF objVars, OrphanInv, Born, CanBeJoined, NoOrphan, Decoding
<1> QED BY <1>1, <1>2, CallersKeepOrphans, WorkersKeepOrphans DEF Next, OrphanInv

(***************************************************************************)
(* Callers in turn: nobody decodes but for the slot or the receiver that   *)
(* is being stopped.                                                       *)
(***************************************************************************)
LEMMA OneInTurn ==
  ASSUME InTurn', NEW r \in Receiver, NEW s \in Receiver, Decoding(r)', Decoding(s)'
  PROVE  r = s
<1>1. \A c \in Caller : pc'[c] \in {"check", "clear", "join"} => Busy(c)'
  BY DEF Busy
<1>2. \A c \in Caller : pc'[c] \in {"check", "clear", "join"} /\ after'[c] = "destroy"
                          => slot' = NoReceiver
  BY DEF InTurn, CallInv
<1> QED BY <1>1, <1>2, NoReceiverAssumption DEF InTurn, ThreadInv, OneCaller

\* What a step of a caller has to show, since the other one is elsewhere.
LEMMA CallerTurn ==
  ASSUME TypeOK, InTurn, NEW c \in Caller, Busy(c), \A d \in Caller \ {c} : pc'[d] = pc[d],
         CallInv(c)', \A r \in Receiver : ThreadInv(r)',
         slot' # NoReceiver => life'[slot'] = "live"
  PROVE  InTurn'
<1>1. \A d \in Caller \ {c} : ~Busy(d)'
  BY DEF InTurn, OneCaller, Busy
<1>2. \A d \in Caller \ {c} : CallInv(d)'
  BY <1>1 DEF Busy, CallInv, Holds
<1> QED BY <1>1, <1>2 DEF InTurn, OneCaller

\* Who is at work on what.
LEMMA Alone ==
  ASSUME TypeOK, InTurn, NEW c \in Caller, Busy(c)
  PROVE  /\ \A d \in Caller : d # c => pc[d] \in {"idle", "closed"}
         /\ pc[c] # "join" => \A r \in Receiver : ~Joining(r)
BY DEF InTurn, OneCaller, Busy, Joining

LEMMA LoadTurn ==
  ASSUME OrphanInv, InTurn, NEW c \in Caller, Load(c), fate' = "alive"
  PROVE  InTurn'
<1> USE DEF At, Go, Dangles, objVars, callVars
<1>1. TypeOK /\ Busy(c) /\ \A d \in Caller \ {c} : pc'[d] = pc[d]
  BY DEF Load, OrphanInv, TypeOK, Busy
<1>2. /\ \A d \in Caller : d # c => pc[d] \in {"idle", "closed"}
      /\ pc[c] # "join" => \A r \in Receiver : ~Joining(r)
  BY <1>1, Alone
<1>3. /\ CallInv(c) /\ \A r \in Receiver : ThreadInv(r)
      /\ slot # NoReceiver => life[slot] = "live"
      /\ Holds(c) => held[c] \in Receiver
      /\ \A r \in Receiver : Decoding(r) => joinable[r]
  BY DEF InTurn, OrphanInv, TypeOK, Born, CanBeJoined
<1>4. CallInv(c)'
  BY <1>1, <1>2, <1>3 DEF Load, CallInv, Busy, Holds, TypeOK
<1>5. ASSUME NEW r \in Receiver PROVE ThreadInv(r)'
  BY <1>1, <1>2, <1>3, <1>5 DEF Load, CallInv, ThreadInv, Decoding, Joining, Holds, TypeOK
<1>6. slot' # NoReceiver => life'[slot'] = "live"
  BY <1>1, <1>3 DEF Load, InTurn, CallInv, Holds, TypeOK
<1> QED BY <1>1, <1>4, <1>5, <1>6, CallerTurn

LEMMA CheckTurn ==
  ASSUME OrphanInv, InTurn, NEW c \in Caller, CheckRunning(c), fate' = "alive"
  PROVE  InTurn'
<1> USE DEF At, Go, Dangles, objVars, callVars
<1>1. TypeOK /\ Busy(c) /\ \A d \in Caller \ {c} : pc'[d] = pc[d]
  BY DEF CheckRunning, OrphanInv, TypeOK, Busy
<1>2. /\ \A d \in Caller : d # c => pc[d] \in {"idle", "closed"}
      /\ pc[c] # "join" => \A r \in Receiver : ~Joining(r)
  BY <1>1, Alone
<1>3. /\ CallInv(c) /\ \A r \in Receiver : ThreadInv(r)
      /\ slot # NoReceiver => life[slot] = "live"
      /\ Holds(c) => held[c] \in Receiver
      /\ \A r \in Receiver : Decoding(r) => joinable[r]
  BY DEF InTurn, OrphanInv, TypeOK, Born, CanBeJoined
<1>4. CallInv(c)'
  BY <1>1, <1>2, <1>3 DEF CheckRunning, CallInv, Busy, Holds, TypeOK, ThreadInv
<1>5. ASSUME NEW r \in Receiver PROVE ThreadInv(r)'
  BY <1>1, <1>2, <1>3, <1>5 DEF CheckRunning, CallInv, ThreadInv, Decoding, Joining, Holds, TypeOK
<1>6. slot' # NoReceiver => life'[slot'] = "live"
  BY <1>1, <1>3 DEF CheckRunning, InTurn, CallInv, Holds, TypeOK
<1> QED BY <1>1, <1>4, <1>5, <1>6, CallerTurn

LEMMA ClearTurn ==
  ASSUME OrphanInv, InTurn, NEW c \in Caller, ClearRunning(c), fate' = "alive"
  PROVE  InTurn'
<1> USE DEF At, Go, Dangles, objVars, callVars
<1>1. TypeOK /\ Busy(c) /\ \A d \in Caller \ {c} : pc'[d] = pc[d]
  BY DEF ClearRunning, OrphanInv, TypeOK, Busy
<1>2. /\ \A d \in Caller : d # c => pc[d] \in {"idle", "closed"}
      /\ pc[c] # "join" => \A r \in Receiver : ~Joining(r)
  BY <1>1, Alone
<1>3. /\ CallInv(c) /\ \A r \in Receiver : ThreadInv(r)
      /\ slot # NoReceiver => life[slot] = "live"
      /\ Holds(c) => held[c] \in Receiver
      /\ \A r \in Receiver : Decoding(r) => joinable[r]
  BY DEF InTurn, OrphanInv, TypeOK, Born, CanBeJoined
<1>4. CallInv(c)'
  BY <1>1, <1>2, <1>3 DEF ClearRunning, CallInv, Busy, Holds, TypeOK
<1>5. ASSUME NEW r \in Receiver PROVE ThreadInv(r)'
  BY <1>1, <1>2, <1>3, <1>5 DEF ClearRunning, CallInv, ThreadInv, Decoding, Joining, Holds, TypeOK
<1>6. slot' # NoReceiver => life'[slot'] = "live"
  BY <1>1, <1>3 DEF ClearRunning, InTurn, CallInv, Holds, TypeOK
<1> QED BY <1>1, <1>4, <1>5, <1>6, CallerTurn

LEMMA JoinTurn ==
  ASSUME OrphanInv, InTurn, NEW c \in Caller, Join(c), fate' = "alive"
  PROVE  InTurn'
<1> USE DEF At, Go, Dangles, objVars, callVars
<1>1. TypeOK /\ Busy(c) /\ \A d \in Caller \ {c} : pc'[d] = pc[d]
  BY DEF Join, OrphanInv, TypeOK, Busy
<1>2. /\ \A d \in Caller : d # c => pc[d] \in {"idle", "closed"}
      /\ pc[c] # "join" => \A r \in Receiver : ~Joining(r)
  BY <1>1, Alone
<1>3. /\ CallInv(c) /\ \A r \in Receiver : ThreadInv(r)
      /\ slot # NoReceiver => life[slot] = "live"
      /\ Holds(c) => held[c] \in Receiver
      /\ \A r \in Receiver : Decoding(r) => joinable[r]
  BY DEF InTurn, OrphanInv, TypeOK, Born, CanBeJoined
<1>4. CallInv(c)'
  BY <1>1, <1>2, <1>3 DEF Join, CallInv, Busy, Holds, TypeOK
<1>5. ASSUME NEW r \in Receiver PROVE ThreadInv(r)'
  BY <1>1, <1>2, <1>3, <1>5 DEF Join, CallInv, ThreadInv, Decoding, Joining, Holds, TypeOK
<1>6. slot' # NoReceiver => life'[slot'] = "live"
  BY <1>1, <1>3 DEF Join, InTurn, CallInv, Holds, TypeOK
<1> QED BY <1>1, <1>4, <1>5, <1>6, CallerTurn

LEMMA ResetTurn ==
  ASSUME OrphanInv, InTurn, NEW c \in Caller, Reset(c), fate' = "alive"
  PROVE  InTurn'
<1> USE DEF At, Go, Dangles, objVars, callVars
<1>1. TypeOK /\ Busy(c) /\ \A d \in Caller \ {c} : pc'[d] = pc[d]
  BY DEF Reset, OrphanInv, TypeOK, Busy
<1>2. /\ \A d \in Caller : d # c => pc[d] \in {"idle", "closed"}
      /\ pc[c] # "join" => \A r \in Receiver : ~Joining(r)
  BY <1>1, Alone
<1>3. /\ CallInv(c) /\ \A r \in Receiver : ThreadInv(r)
      /\ slot # NoReceiver => life[slot] = "live"
      /\ Holds(c) => held[c] \in Receiver
      /\ \A r \in Receiver : Decoding(r) => joinable[r]
  BY DEF InTurn, OrphanInv, TypeOK, Born, CanBeJoined
<1>4. CallInv(c)'
  BY <1>1, <1>2, <1>3 DEF Reset, CallInv, Busy, Holds, TypeOK
<1>5. ASSUME NEW r \in Receiver PROVE ThreadInv(r)'
  BY <1>1, <1>2, <1>3, <1>5 DEF Reset, CallInv, ThreadInv, Decoding, Joining, Holds, TypeOK
<1>6. slot' # NoReceiver => life'[slot'] = "live"
  BY <1>1, <1>3 DEF Reset, InTurn, CallInv, Holds, TypeOK
<1> QED BY <1>1, <1>4, <1>5, <1>6, CallerTurn

LEMMA DestroyTurn ==
  ASSUME OrphanInv, InTurn, NEW c \in Caller, Destroy(c), fate' = "alive"
  PROVE  InTurn'
<1> USE DEF At, Go, Dangles, objVars, callVars
<1>1. TypeOK /\ Busy(c) /\ \A d \in Caller \ {c} : pc'[d] = pc[d]
  BY DEF Destroy, OrphanInv, TypeOK, Busy
<1>2. /\ \A d \in Caller : d # c => pc[d] \in {"idle", "closed"}
      /\ pc[c] # "join" => \A r \in Receiver : ~Joining(r)
  BY <1>1, Alone
<1>3. /\ CallInv(c) /\ \A r \in Receiver : ThreadInv(r)
      /\ slot # NoReceiver => life[slot] = "live"
      /\ Holds(c) => held[c] \in Receiver
      /\ \A r \in Receiver : Decoding(r) => joinable[r]
  BY DEF InTurn, OrphanInv, TypeOK, Born, CanBeJoined
<1>4. CallInv(c)'
  BY <1>1, <1>2, <1>3 DEF Destroy, CallInv, Busy, Holds, TypeOK
<1>5. ASSUME NEW r \in Receiver PROVE ThreadInv(r)'
  BY <1>1, <1>2, <1>3, <1>5 DEF Destroy, CallInv, ThreadInv, Decoding, Joining, Holds, TypeOK
<1>6. slot' # NoReceiver => life'[slot'] = "live"
  BY <1>1, <1>3 DEF Destroy, InTurn, CallInv, Holds, TypeOK
<1> QED BY <1>1, <1>4, <1>5, <1>6, CallerTurn

LEMMA CreateTurn ==
  ASSUME OrphanInv, InTurn, NEW c \in Caller, Create(c), fate' = "alive"
  PROVE  InTurn'
<1> USE DEF At, Go, Dangles, objVars, callVars
<1>1. TypeOK /\ Busy(c) /\ \A d \in Caller \ {c} : pc'[d] = pc[d]
  BY DEF Create, OrphanInv, TypeOK, Busy
<1>2. /\ \A d \in Caller : d # c => pc[d] \in {"idle", "closed"}
      /\ pc[c] # "join" => \A r \in Receiver : ~Joining(r)
  BY <1>1, Alone
<1>3. /\ CallInv(c) /\ \A r \in Receiver : ThreadInv(r)
      /\ slot # NoReceiver => life[slot] = "live"
      /\ Holds(c) => held[c] \in Receiver
      /\ \A r \in Receiver : Decoding(r) => joinable[r]
  BY DEF InTurn, OrphanInv, TypeOK, Born, CanBeJoined
<1>7. PICK n \in Receiver :
        /\ life[n] = "unborn" /\ life' = [life EXCEPT ![n] = "live"] /\ slot' = n
  BY DEF Create
<1>8. /\ slot = NoReceiver /\ worker[n] = "none" /\ ~isRunning[n] /\ ~joinable[n]
      /\ pc'[c] = "start"
      /\ UNCHANGED <<worker, joinable, isRunning>>
  BY <1>1, <1>3, <1>7 DEF Create, CallInv, OrphanInv, Born, TypeOK
<1>4. CallInv(c)'
  BY <1>7, <1>8, NoReceiverAssumption DEF CallInv, Busy, Holds
<1>5. ASSUME NEW r \in Receiver PROVE ThreadInv(r)'
  <2>1. ~Decoding(r)
    BY <1>2, <1>3, <1>8, NoReceiverAssumption DEF Create, ThreadInv
  <2>2. joinable[r] => isRunning[r] \/ worker[r] = "quit"
    BY <1>2, <1>3 DEF Create, ThreadInv
  <2> QED BY <1>8, <2>1, <2>2 DEF ThreadInv, Decoding
<1>6. slot' # NoReceiver => life'[slot'] = "live"
  BY <1>1, <1>7 DEF TypeOK
<1> QED BY <1>1, <1>4, <1>5, <1>6, CallerTurn

LEMMA StartTurn ==
  ASSUME OrphanInv, InTurn, NEW c \in Caller, Start(c), fate' = "alive"
  PROVE  InTurn'
<1> USE DEF At, Go, Dangles, objVars, callVars
<1>1. TypeOK /\ Busy(c) /\ \A d \in Caller \ {c} : pc'[d] = pc[d]
  BY DEF Start, OrphanInv, TypeOK, Busy
<1>2. /\ \A d \in Caller : d # c => pc[d] \in {"idle", "closed"}
      /\ pc[c] # "join" => \A r \in Receiver : ~Joining(r)
  BY <1>1, Alone
<1>3. /\ CallInv(c) /\ \A r \in Receiver : ThreadInv(r)
      /\ slot # NoReceiver => life[slot] = "live"
      /\ Holds(c) => held[c] \in Receiver
      /\ \A r \in Receiver : Decoding(r) => joinable[r]
  BY DEF InTurn, OrphanInv, TypeOK, Born, CanBeJoined
<1>4. CallInv(c)'
  BY <1>1, <1>2, <1>3 DEF Start, CallInv, Busy, Holds, TypeOK
<1>5. ASSUME NEW r \in Receiver PROVE ThreadInv(r)'
  BY <1>1, <1>2, <1>3, <1>5 DEF Start, CallInv, ThreadInv, Decoding, Joining, Holds, TypeOK
<1>6. slot' # NoReceiver => life'[slot'] = "live"
  BY <1>1, <1>3 DEF Start, InTurn, CallInv, Holds, TypeOK
<1> QED BY <1>1, <1>4, <1>5, <1>6, CallerTurn

LEMMA SpawnTurn ==
  ASSUME OrphanInv, InTurn, NEW c \in Caller, Spawn(c), fate' = "alive"
  PROVE  InTurn'
<1> USE DEF At, Go, Dangles, objVars, callVars
<1>1. TypeOK /\ Busy(c) /\ \A d \in Caller \ {c} : pc'[d] = pc[d]
  BY DEF Spawn, OrphanInv, TypeOK, Busy
<1>2. /\ \A d \in Caller : d # c => pc[d] \in {"idle", "closed"}
      /\ pc[c] # "join" => \A r \in Receiver : ~Joining(r)
  BY <1>1, Alone
<1>3. /\ CallInv(c) /\ \A r \in Receiver : ThreadInv(r)
      /\ slot # NoReceiver => life[slot] = "live"
      /\ Holds(c) => held[c] \in Receiver
      /\ \A r \in Receiver : Decoding(r) => joinable[r]
  BY DEF InTurn, OrphanInv, TypeOK, Born, CanBeJoined
<1>4. CallInv(c)'
  BY <1>1, <1>2, <1>3 DEF Spawn, CallInv, Busy, Holds, TypeOK
<1>5. ASSUME NEW r \in Receiver PROVE ThreadInv(r)'
  BY <1>1, <1>2, <1>3, <1>5 DEF Spawn, CallInv, ThreadInv, Decoding, Joining, Holds, TypeOK
<1>6. slot' # NoReceiver => life'[slot'] = "live"
  BY <1>1, <1>3 DEF Spawn, InTurn, CallInv, Holds, TypeOK
<1> QED BY <1>1, <1>4, <1>5, <1>6, CallerTurn

LEMMA WorkersTurn ==
  ASSUME OrphanInv, InTurn, NEW r \in Receiver, WorkerStep(r)
  PROVE  InTurn'
<1>1. /\ UNCHANGED <<slot, life, joinable, pc, held, after, goal>> /\ Decoding(r)
      /\ \A s \in Receiver \ {r} : worker'[s] = worker[s] /\ isRunning'[s] = isRunning[s]
      /\ isRunning[r] => isRunning'[r] \/ worker'[r] = "quit"
  BY WorkerActs DEF OrphanInv, TypeOK
<1>2. ASSUME NEW s \in Receiver PROVE ThreadInv(s)'
  <2>1. CASE s = r
    BY <1>1, <2>1 DEF InTurn, ThreadInv, Decoding, Joining
  <2>2. CASE s # r
    BY <1>1, <2>2 DEF InTurn, ThreadInv, Decoding, Joining
  <2> QED BY <2>1, <2>2
<1>3. ASSUME NEW c \in Caller PROVE CallInv(c)'
  <2>1. /\ CallInv(c)
        /\ Holds(c) => held[c] \in Receiver
        /\ slot # NoReceiver => slot \in Receiver
    BY DEF InTurn, OrphanInv, Born, TypeOK
  <2>2. /\ pc[c] = "destroy" => ~joinable[held[c]] \/ held[c] # r
        /\ pc[c] \in {"start", "spawn"} => slot # r
    BY <1>1, <2>1 DEF CallInv, Decoding
  <2>3. /\ pc[c] = "destroy" => ~joinable[held[c]] \/ worker'[held[c]] = "quit"
        /\ pc[c] = "start" => slot # NoReceiver /\ worker'[slot] = "none"
        /\ pc[c] = "spawn" => held[c] = slot /\ isRunning'[slot] /\ worker'[slot] = "none"
    BY <1>1, <2>1, <2>2 DEF CallInv, Holds
  <2> QED BY <1>1, <2>1, <2>3 DEF CallInv, Busy, Holds
<1>4. OneCaller' /\ (slot' # NoReceiver => life'[slot'] = "live")
  BY <1>1 DEF InTurn, OneCaller, Busy
<1> QED BY <1>2, <1>3, <1>4 DEF InTurn

LEMMA EntersTurn ==
  ASSUME OrphanInv, InTurn, ~overlap',
         EnterConnect \/ EnterClose \/ EnterDisconnect \/ Render
  PROVE  InTurn'
<1>1. UNCHANGED <<slot, life, isRunning, joinable, worker, held, after>>
  BY DEF EnterConnect, EnterClose, EnterDisconnect, Render, objVars, callVars
<1>2. ASSUME NEW r \in Receiver, \A c \in Caller : pc[c] \in {"idle", "closed"}
      PROVE  ThreadInv(r)'
  BY <1>1, <1>2 DEF InTurn, ThreadInv, Decoding, Joining
<1>3. ASSUME NEW c \in Caller, MayEnter(c), Go(c, "load"),
             \E g \in {"create", "closed", "idle"} : goal' = [goal EXCEPT ![c] = g]
      PROVE  InTurn'
  <2>1. /\ \A d \in Caller : ~Busy(d)
        /\ pc'[c] = "load" /\ goal'[c] # "start"
        /\ \A d \in Caller \ {c} : ~Busy(d)'
    BY <1>3 DEF MayEnter, Go, Busy, OrphanInv, TypeOK
  <2>2. \A d \in Caller : CallInv(d)'
    BY <2>1 DEF CallInv, Busy, Holds
  <2>3. OneCaller' /\ (slot' # NoReceiver => life'[slot'] = "live")
    BY <1>1, <2>1 DEF InTurn, OneCaller
  <2> QED BY <1>2, <2>1, <2>2, <2>3 DEF InTurn, Busy
<1>4. CASE Render
  BY <1>1, <1>4 DEF Render, callVars, InTurn, OneCaller, CallInv, ThreadInv, Busy, Holds,
                    Decoding, Joining
<1> QED BY <1>3, <1>4 DEF EnterConnect, EnterClose, EnterDisconnect, Caller

(***************************************************************************)
(* In turn, only a raw receiver that ended by itself ends the process.     *)
(***************************************************************************)
LEMMA InTurnAlive ==
  ASSUME OrphanInv, InTurn, Next, fate' # "alive"
  PROVE  \E r \in Receiver : worker'[r] = "quit"
<1>1. fate = "alive"
  BY StepsAreAlive
<1>2. PICK c \in Caller : CallerStep(c)
  <2>1. \A r \in Receiver : ~WorkerStep(r)
    BY <1>1, WorkerActs DEF OrphanInv
  <2>2. ~(EnterConnect \/ EnterClose \/ EnterDisconnect \/ Render)
    BY <1>1 DEF EnterConnect, EnterClose, EnterDisconnect, Render
  <2> QED BY <2>1, <2>2 DEF Next
<1>3. /\ CallInv(c)
      /\ Holds(c) => held[c] \in Receiver
  BY DEF InTurn, OrphanInv, Born, TypeOK
<1>4. Holds(c) => ~Dangles(c)
  BY <1>3 DEF CallInv, Dangles
<1>5. Destroy(c) \/ Start(c)
  BY <1>1, <1>2, <1>4 DEF CallerStep, Load, CheckRunning, ClearRunning, Join, Reset, Create,
                          Spawn, Holds, At
<1>6. ~Start(c)
  BY <1>1, <1>3 DEF Start, At, CallInv
<1>7. pc[c] = "destroy" /\ joinable[held[c]] /\ worker' = worker
  BY <1>1, <1>5, <1>6 DEF Destroy, At
<1> QED BY <1>3, <1>7 DEF CallInv, Holds

LEMMA SlotKept ==
  ASSUME SlotInv, [Next]_vars PROVE SlotInv'
<1>1. CASE UNCHANGED vars
  BY <1>1 DEF vars, objVars, callVars, canvasVars, SlotInv, OrphanInv, TypeOK, Born, CanBeJoined,
       NoOrphan, InTurn, OneCaller, CallInv, ThreadInv, Busy, Holds, Joining, Decoding,
       OneDecoder, TornDownCleanly
<1>2. CASE Next
  <2>1. OrphanInv'
    BY <1>2, OrphansKept DEF SlotInv
  <2>2. fate = "alive" /\ (overlap => overlap')
    BY <1>2, StepsAreAlive, WorkerActs
       DEF SlotInv, OrphanInv, Next, EnterConnect, EnterClose, EnterDisconnect, MayEnter, Render,
           CallerStep, Load, CheckRunning, ClearRunning, Join, Reset, Destroy, Create, Start,
           Spawn, Dangles
  <2>3. ASSUME ~overlap' PROVE InTurn
    BY <2>2, <2>3 DEF SlotInv
  <2>4. ASSUME ~overlap', fate' = "alive" PROVE InTurn'
    <3>1. ASSUME NEW c \in Caller, CallerStep(c) PROVE InTurn'
      BY <2>3, <2>4, <3>1, LoadTurn, CheckTurn, ClearTurn, JoinTurn, ResetTurn, DestroyTurn,
         CreateTurn, StartTurn, SpawnTurn DEF CallerStep, SlotInv
    <3> QED BY <1>2, <2>3, <2>4, <3>1, WorkersTurn, EntersTurn DEF Next, SlotInv
  <2>5. TornDownCleanly'
    BY <1>2, <2>3, InTurnAlive DEF TornDownCleanly, SlotInv
  <2>6. ASSUME ~overlap', NEW r \in Receiver, NEW s \in Receiver, Decoding(r)', Decoding(s)'
        PROVE  r = s
    <3>1. CASE fate' = "alive"
      <4>1. InTurn'
        BY <2>4, <2>6, <3>1
      <4> QED BY <2>6, <4>1, OneInTurn
    <3>2. CASE fate' # "alive"
      <4>1. worker' = worker
        BY <1>2, <2>2, <3>2, WorkerActs
           DEF SlotInv, OrphanInv, Next, EnterConnect, EnterClose, EnterDisconnect, Render,
               CallerStep, Load, CheckRunning, ClearRunning, Join, Reset, Destroy, Create, Start,
               Spawn, Dangles, objVars
      <4> QED BY <2>2, <2>6, <4>1 DEF SlotInv, OneDecoder, Decoding
    <3> QED BY <3>1, <3>2
  <2> QED BY <2>1, <2>4, <2>5, <2>6 DEF SlotInv, OneDecoder, OrphanInv
<1> QED BY <1>1, <1>2

(***************************************************************************)
(* NoOrphan: for any number of receivers, of either class, and callers     *)
(* that overlap as they like, no decode thread outlives its receiver.      *)
(***************************************************************************)
THEOREM NoOrphanEver == Spec => []NoOrphan
<1>1. SlotInv => NoOrphan
  BY DEF SlotInv, OrphanInv
<1> QED BY <1>1, SlotInitially, SlotKept, PTL DEF Spec

(***************************************************************************)
(* OneDecoder: two receivers never decode at once, as long as the callers  *)
(* have not overlapped.                                                    *)
(***************************************************************************)
THEOREM OneDecoderEver == Spec => []OneDecoder
<1>1. SlotInv => OneDecoder
  BY DEF SlotInv
<1> QED BY <1>1, SlotInitially, SlotKept, PTL DEF Spec

(***************************************************************************)
(* TornDownCleanly: nothing is destroyed joinable or used destroyed, as    *)
(* long as the callers have not overlapped and no raw receiver has ended   *)
(* by itself.                                                              *)
(***************************************************************************)
THEOREM TornDownCleanlyEver == Spec => []TornDownCleanly
<1>1. SlotInv => TornDownCleanly
  BY DEF SlotInv
<1> QED BY <1>1, SlotInitially, SlotKept, PTL DEF Spec

-----------------------------------------------------------------------------
(***************************************************************************)
(* The RTSP receiver tries again.  The thread is started once: only the    *)
(* GUI thread creates and starts receivers, and the one it starts has no   *)
(* thread yet.  This holds even when the callers overlap.                  *)
(***************************************************************************)
StarterInv ==
  /\ pc["io"] \notin {"create", "start", "spawn"} /\ goal["io"] = "idle"
  /\ pc["gui"] = "start" /\ fate = "alive" => goal["gui"] = "start"
  /\ pc["gui"] = "spawn" => goal["gui"] = "idle" /\ worker[held["gui"]] = "none"
  /\ goal["gui"] = "start" /\ slot # NoReceiver => worker[slot] = "none"
  /\ \A r \in Receiver : worker[r] \in {"retry", "open", "opening", "lost"} => kind[r] = "rtsp"

TriesInv == OrphanInv /\ StarterInv

LEMMA StarterInitially == Init => StarterInv
<1>1. "gui" \in Caller /\ "io" \in Caller
  BY DEF Caller
<1> QED BY <1>1 DEF Init, StarterInv

LEMMA CallersKeepStarter ==
  ASSUME TriesInv, NEW c \in Caller, CallerStep(c)
  PROVE  StarterInv'
<1> USE DEF TriesInv, OrphanInv, At, Go, Dangles, objVars, callVars, canvasVars
<1>0. Caller = {"gui", "io"} /\ TypeOK
  BY DEF Caller
<1>1. CASE Load(c)
  BY <1>0, <1>1 DEF Load, TypeOK, StarterInv
<1>2. CASE CheckRunning(c)
  BY <1>0, <1>2 DEF CheckRunning, TypeOK, StarterInv
<1>3. CASE ClearRunning(c)
  BY <1>0, <1>3 DEF ClearRunning, TypeOK, StarterInv
<1>4. CASE Join(c)
  BY <1>0, <1>4 DEF Join, TypeOK, StarterInv
<1>5. CASE Reset(c)
  BY <1>0, <1>5 DEF Reset, TypeOK, StarterInv
<1>6. CASE Destroy(c)
  BY <1>0, <1>6 DEF Destroy, TypeOK, StarterInv
<1>7. CASE Create(c)
  <2>1. c = "gui"
    BY <1>0, <1>7 DEF Create, StarterInv
  <2>2. PICK r \in Receiver, k \in Kinds :
          life[r] = "unborn" /\ kind' = [kind EXCEPT ![r] = k] /\ slot' = r
    BY <1>7 DEF Create
  <2>3. worker[r] = "none"
    BY <2>2 DEF Born
  <2>4. \A s \in Receiver : s # r => kind'[s] = kind[s]
    BY <1>0, <2>2 DEF TypeOK
  <2> QED BY <1>0, <1>7, <2>1, <2>2, <2>3, <2>4 DEF Create, TypeOK, StarterInv
<1>8. CASE Start(c)
  BY <1>0, <1>8 DEF Start, TypeOK, StarterInv
<1>9. CASE Spawn(c)
  <2>1. c = "gui"
    BY <1>0, <1>9 DEF Spawn, StarterInv
  <2> QED BY <1>0, <1>9, <2>1 DEF Spawn, TypeOK, StarterInv
<1> QED BY <1>1, <1>2, <1>3, <1>4, <1>5, <1>6, <1>7, <1>8, <1>9 DEF CallerStep

LEMMA WorkersKeepStarter ==
  ASSUME TriesInv, NEW r \in Receiver, WorkerStep(r)
  PROVE  StarterInv'
<1>0. TypeOK /\ Holds("gui") = (pc["gui"] \in {"check", "clear", "join", "destroy", "spawn"})
  BY DEF TriesInv, OrphanInv, Holds
<1>1. /\ UNCHANGED <<slot, kind, pc, held, goal, fate>> /\ Decoding(r)
      /\ \A s \in Receiver : s # r => worker'[s] = worker[s]
  BY <1>0, WorkerActs DEF TypeOK
<1>2. worker'[r] \in {"retry", "open", "opening", "lost"} => kind[r] = "rtsp"
  BY <1>0 DEF WorkerStep, RtspRetry, RtspOpen, RtspOpened, RtspLost, RawConnected, CheckLoop,
     ReadFrame, ReadFails, RawLeaves, Worker, TypeOK
<1>3. pc["gui"] = "spawn" => held["gui"] \in Receiver
  BY <1>0 DEF TriesInv, OrphanInv, Born, TypeOK, Caller
<1> QED BY <1>0, <1>1, <1>2, <1>3 DEF TriesInv, StarterInv, Decoding, TypeOK

LEMMA TriesInvKept == TriesInv /\ [Next]_vars => TriesInv'
<1> SUFFICES ASSUME TriesInv, [Next]_vars PROVE TriesInv'
  OBVIOUS
<1>1. CASE UNCHANGED vars
  BY <1>1 DEF vars, objVars, callVars, canvasVars, TriesInv, StarterInv, OrphanInv, TypeOK, Born,
     CanBeJoined, NoOrphan, Holds, Decoding
<1>2. CASE Next
  <2>1. OrphanInv'
    BY <1>2, OrphansKept DEF TriesInv
  <2>2. ASSUME EnterConnect \/ EnterClose \/ EnterDisconnect \/ Render
        PROVE  StarterInv'
    BY <2>2 DEF EnterConnect, EnterClose, EnterDisconnect, MayEnter, Render, At, Go, objVars,
       callVars, Caller, TriesInv, OrphanInv, TypeOK, StarterInv
  <2> QED BY <1>2, <2>1, <2>2, CallersKeepStarter, WorkersKeepStarter DEF Next, TriesInv
<1> QED BY <1>1, <1>2

\* r's thread is between two streams, and nobody has stopped it.
Between(r, w) == fate = "alive" /\ isRunning[r] /\ worker[r] = w
TriedOrOver(r) == worker[r] = "opening" \/ ~isRunning[r] \/ fate # "alive"

\* Any other step leaves it there, or stops it.
LEMMA BetweenStep ==
  ASSUME TriesInv, [Next]_vars, NEW r \in Receiver, NEW w \in {"lost", "retry", "open"},
         Between(r, w), ~WorkerStep(r)
  PROVE  Between(r, w)' \/ TriedOrOver(r)'
<1>1. SUFFICES worker'[r] = w
  <2>1. TypeOK'
    BY TriesInvKept DEF TriesInv, OrphanInv
  <2> QED BY <1>1, <2>1 DEF Between, TriedOrOver, TypeOK
<1>2. TypeOK /\ worker[r] = w
  BY DEF TriesInv, OrphanInv, Between
<1>3. ASSUME NEW s \in Receiver, WorkerStep(s) PROVE worker'[r] = w
  BY <1>2, <1>3, WorkerActs DEF TypeOK
<1>4. ASSUME NEW c \in Caller, Spawn(c) PROVE worker'[r] = w
  <2>1. c = "gui" /\ pc["gui"] = "spawn"
    BY <1>4 DEF Spawn, At, Caller, TriesInv, StarterInv
  <2>2. held["gui"] # r
    BY <1>2, <2>1 DEF TriesInv, StarterInv
  <2> QED BY <1>2, <1>4, <2>1, <2>2 DEF Spawn, Dangles, objVars, TypeOK
<1>5. ASSUME NEW c \in Caller, CallerStep(c), ~Spawn(c) PROVE worker'[r] = w
  BY <1>2, <1>5 DEF CallerStep, Load, CheckRunning, ClearRunning, Join, Reset, Destroy, Create,
     Start, Dangles, objVars
<1>6. CASE EnterConnect \/ EnterClose \/ EnterDisconnect \/ Render \/ UNCHANGED vars
  BY <1>2, <1>6 DEF EnterConnect, EnterClose, EnterDisconnect, Render, vars, objVars
<1> QED BY <1>3, <1>4, <1>5, <1>6 DEF Next

\* Its own step takes it on: the request to stop is forgotten only after
\* isRunning has been looked at.
LEMMA BetweenGoesOn ==
  ASSUME TriesInv, NEW r \in Receiver, NEW w \in {"lost", "retry", "open"},
         Between(r, w), WorkerStep(r)
  PROVE  /\ w = "lost" => Between(r, "retry")'
         /\ w = "retry" => Between(r, "open")'
         /\ w = "open" => worker'[r] = "opening"
<1>1. TypeOK /\ kind[r] = "rtsp"
  BY DEF TriesInv, OrphanInv, StarterInv, Between
<1> QED
  BY <1>1 DEF Between, WorkerStep, RtspRetry, RtspOpen, RtspOpened, RtspLost, RawConnected,
     CheckLoop, ReadFrame, ReadFails, RawLeaves, Worker, frame, TypeOK

\* What the fairness says of one thread.
LEMMA ThreadsGoOn == FairSpec => \A r \in Receiver : GoesOn(r)
BY PTL DEF FairSpec, Fairness

(***************************************************************************)
(* TriesAgain: whenever an RTSP receiver lost its stream and nobody has    *)
(* stopped it, it opens it again (receiver.cpp, WorkerFunc), for any       *)
(* number of receivers and however the callers overlap.                    *)
(***************************************************************************)
THEOREM AlwaysTriesAgain == FairSpec /\ []TriesGuardsEnable => TriesAgain
<1>1. ASSUME NEW r \in Receiver
      PROVE  FairSpec /\ []TriesGuardsEnable =>
               (worker[r] = "lost" /\ isRunning[r] ~> TriedOrOver(r))
  <2> DEFINE B1 == Between(r, "lost")
             B2 == Between(r, "retry")
             B3 == Between(r, "open")
             T == TriedOrOver(r)
             P == worker[r] = "lost" /\ isRunning[r]
             G == BetweenStreams(r)
  <2>1. <<Returns(r)>>_vars => WorkerStep(r)
    BY DEF Returns
  <2>2. /\ TriesInv /\ B1 /\ [Next]_vars => B1' \/ B2' \/ T'
        /\ TriesInv /\ B1 /\ <<Returns(r)>>_vars => B2'
    BY <2>1, BetweenStep, BetweenGoesOn
  <2>3. /\ TriesInv /\ B2 /\ [Next]_vars => B2' \/ B3' \/ T'
        /\ TriesInv /\ B2 /\ <<Returns(r)>>_vars => B3'
    BY <2>1, BetweenStep, BetweenGoesOn
  <2>4. /\ TriesInv /\ B3 /\ [Next]_vars => B3' \/ T'
        /\ TriesInv /\ B3 /\ <<Returns(r)>>_vars => T'
    BY <2>1, BetweenStep, BetweenGoesOn DEF TriedOrOver
  <2>5. TriesInv /\ (B1 \/ B2 \/ B3) => G
    BY DEF TriesInv, StarterInv, Between, BetweenStreams
  <2>6. P => B1 \/ T
    BY DEF Between, TriedOrOver
  <2>7. TriesGuardsEnable => (G => ENABLED <<Returns(r)>>_vars)
    BY DEF TriesGuardsEnable
  <2>8. FairSpec => WF_vars(Returns(r))
    <3>1. FairSpec => GoesOn(r)
      BY ThreadsGoOn
    <3>2. GoesOn(r) => WF_vars(Returns(r))
      BY PTL DEF GoesOn
    <3> QED BY <3>1, <3>2, PTL
  <2>9. Spec => []TriesInv
    <3>1. Init => TriesInv
      BY StarterInitially, SlotInitially DEF TriesInv, SlotInv
    <3> QED BY <3>1, TriesInvKept, PTL DEF Spec
  <2> HIDE DEF B1, B2, B3, T, P, G
  <2>10. FairSpec /\ []TriesGuardsEnable => (P ~> T)
    BY <2>2, <2>3, <2>4, <2>5, <2>6, <2>7, <2>8, <2>9, PTL DEF FairSpec, Spec
  <2> QED BY <2>10 DEF P, T
<1> QED BY <1>1 DEF TriesAgain, TriedOrOver

-----------------------------------------------------------------------------
(***************************************************************************)
(* The USB tunnels a raw TCP receiver dials: proofs about UsbTunnels, for  *)
(* any number of plugs and of starts.                                      *)
(***************************************************************************)
\* What the last poll took the cable for, counting what it set out to do.
SeenPlugged == gui = "setup" \/ (gui = "idle" /\ usb)

\* The cable is as the poll saw it, or has changed once since.
CableInv ==
    ~missed /\ gui \in {"idle", "setup", "join"} =>
        ((cable # 0) <=> IF fresh THEN SeenPlugged ELSE ~SeenPlugged)

\* No poll, no tunnel; and a tunnel that is wanted is there, to the right phone.
RelayInv ==
    /\ gui = "setup" => ~usb
    /\ gui \in {"idle", "setup"} /\ ~usb => relay = NoRelay
    /\ gui = "idle" /\ usb /\ ~failed => Listening /\ (fresh /\ ~missed => handle = cable)

\* The stream's address: only in mode "auto" does it depend on the cable.
StreamInv ==
    stream # "none" /\ (mode # "auto" \/ (gui = "idle" /\ fresh /\ ~missed)) =>
        stream = EffectiveUrl(mode)

TunnelInv == UsbTypeOK /\ CableInv /\ RelayInv /\ StreamInv

\* The invariant says what the property says, and more.
LEMMA TunnelInvSuffices == TunnelInv => AfterPoll
BY DEF TunnelInv, CableInv, RelayInv, StreamInv, SeenPlugged, AfterPoll, UsbTypeOK

LEMMA TunnelInvInitially == UsbInit => TunnelInv
<1> SUFFICES ASSUME UsbInit PROVE TunnelInv
  OBVIOUS
<1>1. NoRelay \in Relays /\ 0 \in Handles
  BY BoundsAssumption DEF Handles, Relays, NoRelay
<1>2. picks \in 0 .. MaxPicks
  BY BoundsAssumption DEF UsbInit
<1>3. UsbTypeOK
  BY <1>1, <1>2, Zenon DEF UsbInit, UsbTypeOK
<1> QED
  BY <1>3 DEF UsbInit, TunnelInv, CableInv, RelayInv, StreamInv, SeenPlugged, Handles

(***************************************************************************)
(* What happens to a relay when the receiver lets go of it.                *)
(***************************************************************************)
LEMMA LeftBehindRelay ==
  ASSUME UsbTypeOK
  PROVE  /\ LeftBehind \in Relays
         /\ LeftBehind.phase = relay.phase /\ LeftBehind.running = relay.running
         /\ relay = NoRelay => LeftBehind = NoRelay
<1>1. PICK b \in BOOLEAN : b = IF client = "up" /\ stream = "loop" THEN FALSE ELSE relay.peer
  BY DEF UsbTypeOK, Relays
<1>2. LeftBehind = [relay EXCEPT !.peer = b, !.queue = IF @ = "live" THEN "dead" ELSE @]
  BY <1>1, Zenon DEF LeftBehind
<1>3. relay = NoRelay => b = FALSE
  BY <1>1 DEF NoRelay
<1>4. LeftBehind \in Relays
  BY <1>2 DEF UsbTypeOK, Relays
<1>5. LeftBehind.phase = relay.phase /\ LeftBehind.running = relay.running
  BY <1>2 DEF UsbTypeOK, Relays
<1>6. ASSUME relay = NoRelay PROVE LeftBehind = NoRelay
  <2>1. b = FALSE
    BY <1>3, <1>6
  <2> QED BY <1>2, <1>6, <2>1 DEF NoRelay
<1> QED BY <1>4, <1>5, <1>6

\* A start or a stop of the receiver leaves the address the mode calls for.
LEMMA Started ==
  ASSUME UsbTypeOK, NEW m \in {"auto", "usb", "wifi"}, StartStream(m)
  PROVE  /\ stream' = EffectiveUrl(m) /\ stream' \in {"loop", "lan"}
         /\ client' = "dialing" /\ crashed' \in BOOLEAN
BY DEF StartStream, EffectiveUrl

\* The relay's thread changes neither NoRelay nor whether the port is open.
RelayGoesOn ==
    /\ relay' \in Relays
    /\ relay = NoRelay => relay' = NoRelay
    /\ Listening => Listening'

LEMMA WorkerGoesOn ==
  ASSUME UsbTypeOK, RelayWorker \/ FromDevice
  PROVE  RelayGoesOn /\ client' \in {"off", "dialing", "waiting", "up", "ended"}
<1>1. CASE Accept
  <2>1. relay.phase = "listen" /\ relay.running
    BY <1>1 DEF Accept
  <2>2. /\ relay' \in Relays /\ relay'.phase \in {"listen", "open"} /\ relay'.running
        /\ client' \in {"up", client}
    <3>1. PICK answers \in BOOLEAN :
            IF answers /\ handle = cable /\ cable # 0
            THEN /\ relay' = [relay EXCEPT !.phase = "open", !.to = handle, !.queue = "none",
                                           !.peer = relay.queue = "live"]
                 /\ client' = IF relay.queue = "live" THEN "up" ELSE client
            ELSE relay' = [relay EXCEPT !.queue = "none"] /\ client' = client
      BY <1>1 DEF Accept, RelayStep
    <3>2. CASE relay' = [relay EXCEPT !.queue = "none"] /\ client' = client
      BY <3>2, <2>1 DEF UsbTypeOK, Relays
    <3>3. CASE /\ relay' = [relay EXCEPT !.phase = "open", !.to = handle, !.queue = "none",
                                        !.peer = relay.queue = "live"]
               /\ client' \in {"up", client}
      <4>1. PICK b \in BOOLEAN : b = (relay.queue = "live")
        OBVIOUS
      <4>2. relay' = [relay EXCEPT !.phase = "open", !.to = handle, !.queue = "none", !.peer = b]
        BY <3>3, <4>1, Zenon
      <4> QED BY <4>2, <3>3, <2>1 DEF UsbTypeOK, Relays
    <3> QED BY <3>1, <3>2, <3>3
  <2> QED BY <1>1, <2>1, <2>2
    DEF Accept, RelayGoesOn, NoRelay, Listening, UsbTypeOK
<1>2. CASE FromDevice
  BY <1>2
  DEF FromDevice, RelayStep, RelayGoesOn, NoRelay, Listening, UsbTypeOK,
      Relays
<1>3. CASE SendReturns \/ SessionEnds
  <2>1. relay.phase \in {"open", "sending"} /\ client' = client
    BY <1>3 DEF SendReturns, SessionEnds
  <2>2. relay' \in {[relay EXCEPT !.phase = "open"], Ended}
    BY <1>3 DEF SendReturns, SessionEnds, RelayStep
  <2>3. relay # NoRelay
    BY <2>1 DEF NoRelay
  <2>4. 0 \in Handles
    BY BoundsAssumption DEF Handles
  <2>5. relay' \in Relays
    BY <2>2, <2>4 DEF Ended, UsbTypeOK, Relays
  <2>6. Listening => Listening'
    BY <2>2 DEF Ended, UsbTypeOK, Relays, Listening
  <2> QED BY <2>1, <2>3, <2>5, <2>6 DEF RelayGoesOn, UsbTypeOK
<1>4. CASE WorkerReturns
  <2>1. /\ relay.phase = "listen" /\ ~relay.running
        /\ relay' = [relay EXCEPT !.phase = "over", !.queue = "none"]
        /\ client' = client
    BY <1>4 DEF WorkerReturns, RelayStep
  <2>2. relay' \in Relays
    BY <2>1 DEF UsbTypeOK, Relays
  <2>3. relay # NoRelay /\ ~Listening
    BY <2>1 DEF NoRelay, Listening
  <2> QED BY <2>1, <2>2, <2>3 DEF RelayGoesOn, UsbTypeOK
<1> QED BY <1>1, <1>2, <1>3, <1>4 DEF RelayWorker

(***************************************************************************)
(* The invariant is kept by every step.                                    *)
(***************************************************************************)
LEMMA TunnelInvKept == TunnelInv /\ [UsbNext]_usbVars => TunnelInv'
<1> SUFFICES ASSUME TunnelInv, [UsbNext]_usbVars PROVE TunnelInv'
  OBVIOUS
<1> USE DEF TunnelInv
<1>0. plugs \in Nat /\ picks \in Nat /\ MaxPlugs \in Nat /\ MaxPicks \in Nat
  BY BoundsAssumption DEF UsbTypeOK, Handles
<1>1. CASE Plug \/ Unplug
  <2>0. cable' \in Handles /\ plugs' \in Handles
    BY <1>1, <1>0 DEF Plug, Unplug, CableMoves, UsbTypeOK, Handles
  <2>1. UsbTypeOK'
    BY <1>1, <2>0 DEF Plug, Unplug, CableMoves, UsbTypeOK
  <2>2. CableInv'
    <3>1. (cable' # 0) <=> (cable = 0)
      BY <1>1, <1>0 DEF Plug, Unplug
    <3>2. /\ ~missed' => ~missed /\ fresh
          /\ ~fresh' /\ UNCHANGED <<gui, usb>>
      BY <1>1 DEF Plug, Unplug, CableMoves
    <3> QED BY <3>1, <3>2 DEF CableInv, SeenPlugged
  <2>3. RelayInv'
    BY <1>1 DEF Plug, Unplug, CableMoves, RelayInv, Listening
  <2>4. StreamInv'
    BY <1>1 DEF Plug, Unplug, CableMoves, StreamInv, EffectiveUrl, UsbTypeOK
  <2> QED BY <2>1, <2>2, <2>3, <2>4
<1>2. CASE Select
  <2>1. UsbTypeOK'
    BY <1>2, <1>0, LeftBehindRelay, Started DEF Select, Gui, UsbTypeOK
  <2>2. CableInv' /\ RelayInv'
    BY <1>2, LeftBehindRelay DEF Select, CableInv, SeenPlugged, RelayInv, Listening
  <2>3. StreamInv'
    BY <1>2 DEF Select, StartStream, StreamInv, EffectiveUrl
  <2> QED BY <2>1, <2>2, <2>3
<1>3. ASSUME NEW m \in {"auto", "usb", "wifi"}, ChangeMode(m) PROVE TunnelInv'
  <2>1. UsbTypeOK'
    BY <1>3, <1>0, LeftBehindRelay, Started DEF ChangeMode, Gui, UsbTypeOK
  <2>2. CableInv' /\ RelayInv'
    BY <1>3, LeftBehindRelay DEF ChangeMode, CableInv, SeenPlugged, RelayInv, Listening
  <2>3. StreamInv'
    BY <1>3 DEF ChangeMode, StartStream, StreamInv, EffectiveUrl
  <2> QED BY <2>1, <2>2, <2>3
<1>4. CASE PhoneLeaves
  <2>1. UsbTypeOK'
    BY <1>4, LeftBehindRelay DEF PhoneLeaves, StopAll, UsbTypeOK
  <2>2. CableInv' /\ RelayInv'
    BY <1>4, LeftBehindRelay DEF PhoneLeaves, CableInv, SeenPlugged, RelayInv, Listening
  <2>3. StreamInv'
    BY <1>4 DEF PhoneLeaves, StopAll, StreamInv
  <2> QED BY <2>1, <2>2, <2>3
<1>5. CASE Poll
  <2>1. relay' \in Relays /\ (gui' # "join" => relay' = relay)
    BY <1>5 DEF Poll, UsbTypeOK, Relays
  <2>2. UsbTypeOK'
    BY <1>5, <2>1 DEF Poll, Gui, UsbTypeOK
  <2>3. CableInv' /\ RelayInv'
    BY <1>5, <2>1
    DEF Poll, Gui, CableInv, SeenPlugged, RelayInv, Listening, UsbTypeOK
  <2>4. StreamInv'
    BY <1>5
    DEF Poll, Gui, StreamInv, CableInv, SeenPlugged, EffectiveUrl, UsbTypeOK
  <2> QED BY <2>2, <2>3, <2>4
<1>6. CASE Setup
  <2>1. relay = NoRelay
    BY <1>6 DEF Setup, Gui, RelayInv
  <2>2. PICK paired \in BOOLEAN, bound \in BOOLEAN, opens \in BOOLEAN :
          /\ opens <=> cable # 0 /\ bound
          /\ reverse' = (reverse \/ (cable # 0 /\ paired))
          /\ handle' = IF cable # 0 THEN cable ELSE handle
          /\ failed' = ~opens
          /\ Reconnect(IF opens THEN [NoRelay EXCEPT !.phase = "listen", !.running = TRUE]
                       ELSE relay)
    BY <1>6, <2>1 DEF Setup, NoRelay
  <2>3. relay' = IF opens THEN [NoRelay EXCEPT !.phase = "listen", !.running = TRUE] ELSE relay
    BY <2>2 DEF Reconnect
  <2>4. /\ relay' \in Relays
        /\ opens => Listening'
    <3>1. 0 \in Handles
      BY <1>0 DEF Handles
    <3>2. NoRelay \in Relays
      BY <3>1 DEF Relays, NoRelay
    <3> QED BY <2>1, <2>3, <3>2 DEF Relays, Listening
  <2>5. /\ mode = "auto" /\ stream # "none" => StartStream(mode)
        /\ ~(mode = "auto" /\ stream # "none") => UNCHANGED <<stream, client, crashed>>
    BY <2>2 DEF Reconnect
  <2>6. UsbTypeOK'
    BY <1>6, <2>2, <2>4, <2>5, Started DEF Setup, UsbTypeOK
  <2>7. CableInv'
    BY <1>6 DEF Setup, Gui, CableInv, SeenPlugged
  <2>8. RelayInv'
    BY <1>6, <2>2, <2>4 DEF Setup, Gui, RelayInv, CableInv, SeenPlugged, UsbTypeOK
  <2>9. StreamInv'
    BY <1>6, <2>5 DEF Setup, StartStream, StreamInv, EffectiveUrl, UsbTypeOK
  <2> QED BY <2>6, <2>7, <2>8, <2>9
<1>7. CASE Killed
  <2>1. relay' = NoRelay
    BY <1>7 DEF Killed, Reconnect
  <2>2. NoRelay \in Relays
    BY <1>0 DEF Relays, NoRelay, Handles
  <2>3. /\ mode = "auto" /\ stream # "none" => StartStream(mode)
        /\ ~(mode = "auto" /\ stream # "none") => UNCHANGED <<stream, client, crashed>>
    BY <1>7 DEF Killed, Reconnect
  <2>4. UsbTypeOK'
    BY <1>7, <2>1, <2>2, <2>3, Started DEF Killed, UsbTypeOK
  <2>5. CableInv' /\ RelayInv'
    BY <1>7, <2>1 DEF Killed, Gui, CableInv, SeenPlugged, RelayInv
  <2>6. StreamInv'
    BY <1>7, <2>3 DEF Killed, StartStream, StreamInv, EffectiveUrl, UsbTypeOK
  <2> QED BY <2>4, <2>5, <2>6
<1>8. CASE Close
  <2>1. relay' \in Relays
    BY <1>8, LeftBehindRelay DEF Close, Relays
  <2>2. UsbTypeOK'
    BY <1>8, <2>1 DEF Close, StopAll, UsbTypeOK
  <2>3. CableInv' /\ RelayInv' /\ StreamInv'
    BY <1>8 DEF Close, StopAll, CableInv, RelayInv, StreamInv
  <2> QED BY <2>2, <2>3
<1>9. CASE Closed
  <2>1. UsbTypeOK'
    BY <1>9, <1>0 DEF Closed, UsbTypeOK, Relays, NoRelay, Handles
  <2>2. CableInv' /\ RelayInv' /\ StreamInv'
    BY <1>9 DEF Closed, Gui, CableInv, RelayInv, StreamInv, EffectiveUrl
  <2> QED BY <2>1, <2>2
<1>10. CASE Dial \/ SeesEnd
  <2>1. /\ RelayGoesOn /\ client' \in {"off", "dialing", "waiting", "up", "ended"}
        /\ UNCHANGED <<cable, usb, handle, reverse, mode, stream, gui, crashed,
                       plugs, picks, fresh, missed, failed>>
    BY <1>10
    DEF Dial, SeesEnd, ClientStep, RelayGoesOn, UsbTypeOK, Relays,
        NoRelay, Listening
  <2> QED
    BY <2>1
    DEF RelayGoesOn, UsbTypeOK, CableInv, SeenPlugged, RelayInv, StreamInv,
        EffectiveUrl
<1>11. CASE RelayWorker \/ FromDevice
  <2>1. UNCHANGED <<cable, usb, handle, reverse, mode, stream, gui, crashed,
                    plugs, picks, fresh, missed, failed>>
    BY <1>11
    DEF RelayWorker, FromDevice, Accept, SendReturns, SessionEnds,
        WorkerReturns, RelayStep
  <2> QED
    BY <1>11, <2>1, WorkerGoesOn
    DEF RelayGoesOn, UsbTypeOK, CableInv, SeenPlugged, RelayInv, StreamInv, EffectiveUrl
<1>12. CASE UNCHANGED usbVars
  BY <1>12
 
  DEF usbVars, UsbTypeOK, CableInv, SeenPlugged, RelayInv, StreamInv, EffectiveUrl,
      Listening
<1> QED
  BY <1>1, <1>2, <1>3, <1>4, <1>5, <1>6, <1>7, <1>8, <1>9, <1>10, <1>11, <1>12 DEF UsbNext

(***************************************************************************)
(* TunnelsAgreeAfterPoll: tunnel and stream agree with the cable after     *)
(* every poll, for any number of plugs, starts and changes of the mode     *)
(* (application.cpp:75-88, 114-136).                                       *)
(***************************************************************************)
THEOREM TunnelsAgreeAfterPoll == UsbSpec => []AfterPoll
<1>1. UsbInit => TunnelInv
  BY TunnelInvInitially
<1>2. TunnelInv /\ [UsbNext]_usbVars => TunnelInv'
  BY TunnelInvKept
<1>3. TunnelInv => AfterPoll
  BY TunnelInvSuffices
<1> QED BY <1>1, <1>2, <1>3, PTL DEF UsbSpec

-----------------------------------------------------------------------------
(***************************************************************************)
(* Kill gets its thread back.  Who is at the relay's socket is the         *)
(* receiver's thread, so that a send the relay is inside of returns; and   *)
(* running is off while somebody waits, so that the relay's thread only    *)
(* goes towards its end.                                                   *)
(***************************************************************************)
PeerInv ==
    /\ relay.peer => relay.phase \in {"open", "sending"} /\ client = "up" /\ stream = "loop"
    /\ relay.queue = "live" => client = "waiting" /\ stream = "loop"
    /\ gui \in {"join", "closing"} => ~relay.running

\* What LeftBehind leaves has nobody at its ends.
LEMMA LeftBehindNobody ==
  ASSUME UsbTypeOK, PeerInv
  PROVE  ~LeftBehind.peer /\ LeftBehind.queue # "live" /\ LeftBehind.running = relay.running
<1> DEFINE b == IF client = "up" /\ stream = "loop" THEN FALSE ELSE relay.peer
<1>1. b = FALSE
  BY DEF PeerInv, UsbTypeOK, Relays
<1>2. LeftBehind = [relay EXCEPT !.peer = b, !.queue = IF @ = "live" THEN "dead" ELSE @]
  BY Zenon DEF LeftBehind
<1> QED BY <1>1, <1>2 DEF UsbTypeOK, Relays

LEMMA PeerInitially == UsbInit => PeerInv
BY DEF UsbInit, PeerInv, NoRelay

LEMMA PeerKept == TunnelInv /\ PeerInv /\ [UsbNext]_usbVars => PeerInv'
<1> SUFFICES ASSUME TunnelInv, PeerInv, [UsbNext]_usbVars PROVE PeerInv'
  OBVIOUS
<1>0. UsbTypeOK
  BY DEF TunnelInv
<1>1. CASE Plug \/ Unplug
  BY <1>1 DEF Plug, Unplug, CableMoves, PeerInv
<1>2. CASE Select \/ (\E m \in {"auto", "usb", "wifi"} : ChangeMode(m)) \/ PhoneLeaves
  <2>1. gui' = gui /\ (relay' = LeftBehind \/ (relay' = relay /\ UNCHANGED <<client, stream>>))
    BY <1>2 DEF Select, ChangeMode, PhoneLeaves
  <2> QED BY <1>0, <2>1, LeftBehindNobody DEF PeerInv
<1>3. CASE Poll
  <2>1. \/ relay' = relay /\ gui' \in {"idle", "setup"}
        \/ relay' = [relay EXCEPT !.running = FALSE]
    BY <1>3 DEF Poll, Gui
  <2>2. UNCHANGED <<client, stream>>
    BY <1>3 DEF Poll
  <2> QED BY <1>0, <2>1, <2>2 DEF PeerInv, UsbTypeOK, Relays
<1>4. CASE Setup
  <2>1. relay = NoRelay /\ gui' = "idle"
    BY <1>4 DEF Setup, Gui, TunnelInv, RelayInv
  <2>2. relay' = relay \/ relay' = [NoRelay EXCEPT !.phase = "listen", !.running = TRUE]
    BY <1>4 DEF Setup, Reconnect
  <2>3. CASE relay' = relay
    BY <2>1, <2>3 DEF PeerInv, NoRelay
  <2>4. CASE relay' = [NoRelay EXCEPT !.phase = "listen", !.running = TRUE]
    BY <2>1, <2>4 DEF PeerInv, NoRelay
  <2> QED BY <2>2, <2>3, <2>4
<1>5. CASE Killed \/ Closed
  <2>1. relay' = NoRelay /\ gui' \in {"idle", "closed"}
    BY <1>5 DEF Killed, Closed, Reconnect
  <2> QED BY <2>1 DEF PeerInv, NoRelay
<1>6. CASE Close
  <2>1. relay' = [LeftBehind EXCEPT !.running = FALSE]
    BY <1>6 DEF Close
  <2> QED BY <1>0, <2>1, LeftBehindNobody, LeftBehindRelay DEF PeerInv, Relays
<1>7. CASE Dial
  <2>1. client = "dialing" /\ gui' = gui /\ stream' = stream
        /\ \/ relay' = relay
           \/ client' = "waiting" /\ stream = "loop" /\ relay' = [relay EXCEPT !.queue = "live"]
    BY <1>7 DEF Dial, ClientStep
  <2> QED BY <1>0, <2>1 DEF PeerInv, UsbTypeOK, Relays
<1>8. CASE SeesEnd
  BY <1>8 DEF SeesEnd, ClientStep, PeerInv
<1>9. CASE Accept
  <2>1. /\ relay.queue # "none" /\ relay.phase = "listen" /\ UNCHANGED <<stream, gui>>
        /\ gui \notin {"join", "closing"}
    BY <1>9 DEF Accept, RelayStep, PeerInv
  <2>2. \/ /\ relay' = [relay EXCEPT !.phase = "open", !.to = handle, !.queue = "none",
                                     !.peer = relay.queue = "live"]
           /\ client' = IF relay.queue = "live" THEN "up" ELSE client
        \/ relay' = [relay EXCEPT !.queue = "none"] /\ client' = client
    BY <1>9 DEF Accept, RelayStep
  <2> QED BY <1>0, <2>1, <2>2 DEF PeerInv, UsbTypeOK, Relays
<1>10. CASE FromDevice \/ SendReturns \/ SessionEnds \/ WorkerReturns
  <2>1. UNCHANGED <<client, stream, gui>>
    BY <1>10 DEF FromDevice, SendReturns, SessionEnds, WorkerReturns, RelayStep
  <2>2. \/ /\ relay.phase \in {"open", "sending"}
           /\ \E ph \in {"open", "sending"} : relay' = [relay EXCEPT !.phase = ph]
        \/ relay' = Ended
        \/ relay.phase = "listen" /\ relay' = [relay EXCEPT !.phase = "over", !.queue = "none"]
    BY <1>10 DEF FromDevice, SendReturns, SessionEnds, WorkerReturns, RelayStep
  <2> QED BY <1>0, <2>1, <2>2 DEF PeerInv, Ended, UsbTypeOK, Relays
<1>11. CASE UNCHANGED usbVars
  BY <1>11 DEF usbVars, PeerInv
<1> QED
  BY <1>1, <1>2, <1>3, <1>4, <1>5, <1>6, <1>7, <1>8, <1>9, <1>10, <1>11
  DEF UsbNext, RelayWorker

LEMMA UsbAlways == UsbSpec => [](TunnelInv /\ PeerInv)
<1>1. UsbInit => TunnelInv /\ PeerInv
  BY TunnelInvInitially, PeerInitially
<1>2. TunnelInv /\ PeerInv /\ [UsbNext]_usbVars => TunnelInv' /\ PeerInv'
  BY TunnelInvKept, PeerKept
<1> QED BY <1>1, <1>2, PTL DEF UsbSpec

\* The GUI thread waits for a relay whose thread is where phase says.
Awaits(phases) == gui \in {"join", "closing"} /\ ~crashed /\ relay.phase \in phases
GotBack == gui \in {"idle", "closed"} \/ crashed

\* The relay's thread goes towards its end.
LEMMA RelayEnds ==
  ASSUME TunnelInv, PeerInv, RelayWorker \/ FromDevice,
         Awaits({"none", "over", "listen", "open", "sending"})
  PROVE  /\ gui' = gui /\ ~crashed'
         /\ \/ relay.phase = "sending" /\ relay'.phase \in {"open", "listen"}
            \/ relay.phase = "open" /\ relay'.phase = "listen"
            \/ relay.phase = "listen" /\ relay'.phase = "over"
<1>1. UsbTypeOK /\ ~relay.running /\ ~crashed
  BY DEF TunnelInv, PeerInv, Awaits
<1>2. ~Accept /\ ~FromDevice
  BY <1>1 DEF Accept, FromDevice
<1>3. gui' = gui /\ crashed' = crashed
  BY <1>2 DEF RelayWorker, SendReturns, SessionEnds, WorkerReturns, RelayStep
<1>4. CASE SendReturns
  <2>1. relay' \in {[relay EXCEPT !.phase = "open"], Ended} /\ relay.phase = "sending"
    BY <1>4 DEF SendReturns, RelayStep
  <2> QED BY <1>1, <1>3, <2>1 DEF Ended, UsbTypeOK, Relays
<1>5. CASE SessionEnds
  <2>1. relay' = Ended /\ relay.phase = "open"
    BY <1>5 DEF SessionEnds, RelayStep
  <2> QED BY <1>1, <1>3, <2>1 DEF Ended, UsbTypeOK, Relays
<1>6. CASE WorkerReturns
  <2>1. relay' = [relay EXCEPT !.phase = "over", !.queue = "none"] /\ relay.phase = "listen"
    BY <1>6 DEF WorkerReturns, RelayStep
  <2> QED BY <1>1, <1>3, <2>1 DEF UsbTypeOK, Relays
<1> QED BY <1>2, <1>4, <1>5, <1>6 DEF RelayWorker

\* Any other step leaves it where it is, or ends the wait.
LEMMA AwaitsStep ==
  ASSUME TunnelInv, PeerInv, [UsbNext]_usbVars, ~(RelayWorker \/ FromDevice),
         Awaits({"none", "over", "listen", "open", "sending"})
  PROVE  GotBack' \/ (gui' = gui /\ ~crashed' /\ relay'.phase = relay.phase)
<1>1. UsbTypeOK /\ gui \notin {"idle", "setup"} /\ ~crashed
  BY DEF TunnelInv, Awaits
<1>2. CASE Plug \/ Unplug \/ UNCHANGED usbVars
  BY <1>1, <1>2 DEF Plug, Unplug, CableMoves, usbVars
<1>3. CASE PhoneLeaves
  <2>1. relay' = LeftBehind /\ gui' = gui /\ crashed' \in BOOLEAN
    BY <1>3 DEF PhoneLeaves, StopAll
  <2> QED BY <1>1, <2>1, LeftBehindRelay DEF GotBack
<1>4. CASE Dial \/ SeesEnd
  <2>1. /\ gui' = gui /\ crashed' = crashed
        /\ relay' \in {relay, [relay EXCEPT !.queue = "live"]}
    BY <1>4 DEF Dial, SeesEnd, ClientStep
  <2> QED BY <1>1, <2>1 DEF UsbTypeOK, Relays
<1>5. CASE Killed \/ Closed
  BY <1>5 DEF Killed, Closed, GotBack
<1>6. ~(Select \/ Poll \/ Setup \/ Close \/ \E m \in {"auto", "usb", "wifi"} : ChangeMode(m))
  BY <1>1 DEF Select, Poll, Setup, Close, ChangeMode, Gui
<1> QED BY <1>2, <1>3, <1>4, <1>5, <1>6 DEF UsbNext

(***************************************************************************)
(* KillAlwaysReturns: Kill and KillAll get the relay's thread back         *)
(* (usbmuxbridge.cpp:182-216), whatever it is blocked in, for any number   *)
(* of plugs and starts.                                                    *)
(***************************************************************************)
THEOREM KillAlwaysReturns == UsbSpec /\ []UsbGuardsEnable => KillReturns
<1> DEFINE I == TunnelInv /\ PeerInv
           P1 == Awaits({"sending"})
           P2 == Awaits({"open"})
           P3 == Awaits({"listen"})
           P4 == CanReturn("join")
           P5 == CanReturn("closing")
<1>1. I /\ P1 /\ [UsbNext]_usbVars => P1' \/ P2' \/ P3' \/ GotBack'
  BY AwaitsStep, RelayEnds DEF Awaits
<1>2. I /\ P1 /\ <<RelayWorker>>_usbVars => P2' \/ P3'
  BY RelayEnds DEF Awaits
<1>3. I /\ P2 /\ [UsbNext]_usbVars => P2' \/ P3' \/ GotBack'
  BY AwaitsStep, RelayEnds DEF Awaits
<1>4. I /\ P2 /\ <<RelayWorker>>_usbVars => P3'
  BY RelayEnds DEF Awaits
<1>5. I /\ P3 /\ [UsbNext]_usbVars => P3' \/ P4' \/ P5' \/ GotBack'
  BY AwaitsStep, RelayEnds DEF Awaits, CanReturn
<1>6. I /\ P3 /\ <<RelayWorker>>_usbVars => P4' \/ P5'
  BY RelayEnds DEF Awaits, CanReturn
<1>7. /\ I /\ P4 /\ [UsbNext]_usbVars => P4' \/ GotBack'
      /\ I /\ P5 /\ [UsbNext]_usbVars => P5' \/ GotBack'
  BY AwaitsStep, RelayEnds DEF Awaits, CanReturn
<1>8. <<Killed>>_usbVars \/ <<Closed>>_usbVars => GotBack'
  BY DEF Killed, Closed, GotBack
<1>9. I /\ (P1 \/ P2 \/ P3) => RelayCanGo
  BY DEF Awaits, RelayCanGo, PeerInv
<1>10. I /\ gui \in {"join", "closing"} => GotBack \/ P1 \/ P2 \/ P3 \/ P4 \/ P5
  BY DEF TunnelInv, UsbTypeOK, Relays, Awaits, CanReturn, GotBack
<1>11. KillReturns <=> (gui \in {"join", "closing"} ~> GotBack)
  BY DEF KillReturns, GotBack
<1> HIDE DEF I, P1, P2, P3, P4, P5
<1>12. UsbSpec => []I
  BY UsbAlways DEF I
<1> QED
  BY <1>1, <1>2, <1>3, <1>4, <1>5, <1>6, <1>7, <1>8, <1>9, <1>10, <1>11, <1>12, PTL
  DEF UsbSpec, UsbFairness, UsbGuardsEnable, P4, P5
=============================================================================
