----------------------------- MODULE ReceiverSlot -----------------------------
(***************************************************************************)
(* The one video receiver of the Windows client: RTSP::Manager::receiver,  *)
(* a unique_ptr that the GUI thread replaces (Connect2Stream) and both the *)
(* GUI and the IO thread empty (StopAll), the decode thread each receiver  *)
(* runs (rtsp/receiver.cpp, streaming/rawtcpreceiver.cpp) and the preview  *)
(* canvas its frames end on (canvas.cpp).                                  *)
(*                                                                         *)
(* A blocking call of a decode thread is a state of its own ("connecting", *)
(* "opening", "reading"); how it returns is up to phone and network.       *)
(***************************************************************************)
EXTENDS Naturals

CONSTANTS
  Receiver,   \* receiver objects; each one is created at most once
  NoReceiver, \* the empty unique_ptr
  Kinds,      \* the receiver classes in use, a subset of {"rtsp", "raw"}
  RawStalls   \* may an iPhone hold its video connection open in silence?

ASSUME NoReceiverAssumption == NoReceiver \notin Receiver
ASSUME KindsAssumption == Kinds \subseteq {"rtsp", "raw"}
ASSUME RawStallsAssumption == RawStalls \in BOOLEAN

Caller == {"gui", "io"}

VARIABLES
  slot,          \* Manager::receiver
  kind,          \* the class of each receiver
  life,          \* "unborn", "live" or "dead"
  isRunning,     \* Receiver::isRunning
  stopRequested, \* FFmpegInterrupt::State::stopRequested
  joinable,      \* the std::thread member is joinable
  worker,        \* where the decode thread is
  pc,            \* where each caller is
  held,          \* the receiver a caller works on
  after,         \* where a caller's Stop returns to: "reset" or "destroy"
  goal,          \* what follows when the old receiver is gone
  fate,          \* "alive", "terminate" (std::terminate) or "dangling"
  drawn,         \* Canvas::shouldDraw: the preview shows a frame
  isRendering,   \* Canvas::isRendering
  queued,        \* Render calls posted to the GUI thread
  overlap        \* history: the two callers have been inside at once

objVars    == <<kind, life, isRunning, stopRequested, joinable, worker>>
callVars   == <<pc, held, after, goal>>
canvasVars == <<drawn, isRendering, queued>>
vars == <<slot, objVars, callVars, fate, canvasVars, overlap>>

Init ==
  /\ slot = NoReceiver
  /\ kind = [r \in Receiver |-> "none"]
  /\ life = [r \in Receiver |-> "unborn"]
  /\ isRunning = [r \in Receiver |-> FALSE]
  /\ stopRequested = [r \in Receiver |-> FALSE]
  /\ joinable = [r \in Receiver |-> FALSE]
  /\ worker = [r \in Receiver |-> "none"]
  /\ pc = [c \in Caller |-> "idle"]
  /\ held = [c \in Caller |-> NoReceiver]
  /\ after = [c \in Caller |-> "reset"]
  /\ goal = [c \in Caller |-> "idle"]
  /\ fate = "alive"
  /\ drawn = FALSE /\ isRendering = FALSE /\ queued = 0
  /\ overlap = FALSE

-----------------------------------------------------------------------------
(* The callers *)

At(c, where) == fate = "alive" /\ pc[c] = where
Go(c, where) == pc' = [pc EXCEPT ![c] = where]

\* A caller enters; nothing keeps the other one out.
MayEnter(c) ==
  /\ At(c, "idle")
  /\ overlap' = (overlap \/ \E t \in Caller : pc[t] \notin {"idle", "closed"})

\* The GUI thread enters Connect2Stream.
EnterConnect ==
  /\ MayEnter("gui")
  /\ \E r \in Receiver : life[r] = "unborn"
  /\ Go("gui", "load") /\ goal' = [goal EXCEPT !["gui"] = "create"]
  /\ UNCHANGED <<slot, objVars, held, after, fate, canvasVars>>

\* The GUI thread closes the window: StopAll, and no handler after it.
EnterClose ==
  /\ MayEnter("gui")
  /\ Go("gui", "load") /\ goal' = [goal EXCEPT !["gui"] = "closed"]
  /\ UNCHANGED <<slot, objVars, held, after, fate, canvasVars>>

\* The streaming phone left: the IO thread blanks the canvas, with the GUI
\* thread's help, and then calls StopAll.
EnterDisconnect ==
  /\ MayEnter("io") /\ At("gui", "idle") /\ slot # NoReceiver
  /\ drawn' = FALSE /\ isRendering' = FALSE
  /\ Go("io", "load") /\ goal' = [goal EXCEPT !["io"] = "idle"]
  /\ UNCHANGED <<slot, objVars, held, after, fate, queued>>

\* if (receiver) receiver->Stop() ...
Load(c) ==
  /\ At(c, "load")
  /\ IF slot = NoReceiver
       THEN Go(c, goal[c]) /\ UNCHANGED <<held, after>>
       ELSE /\ Go(c, "check")
            /\ held' = [held EXCEPT ![c] = slot]
            /\ after' = [after EXCEPT ![c] = "reset"]
  /\ UNCHANGED <<slot, objVars, goal, fate, canvasVars, overlap>>

\* Using an object that the other caller has destroyed meanwhile.
Dangles(c) ==
  /\ held[c] # NoReceiver /\ life[held[c]] = "dead"
  /\ fate' = "dangling"
  /\ UNCHANGED <<slot, objVars, callVars, canvasVars, overlap>>

\* Stop: if (!isRunning) return;
CheckRunning(c) ==
  /\ At(c, "check")
  /\ \/ Dangles(c)
     \/ /\ life[held[c]] # "dead"
        /\ Go(c, IF isRunning[held[c]] THEN "clear" ELSE after[c])
        /\ UNCHANGED <<slot, objVars, held, after, goal, fate, canvasVars, overlap>>

\* Mutant: Stop does not wait for the thread.
ClearRunningOnly(c) ==
  /\ At(c, "clear") /\ life[held[c]] # "dead"
  /\ isRunning' = [isRunning EXCEPT ![held[c]] = FALSE]
  /\ stopRequested' = [stopRequested EXCEPT ![held[c]] = kind[held[c]] = "rtsp"]
  /\ Go(c, after[c])
  /\ UNCHANGED <<slot, kind, life, joinable, worker, held, after, goal, fate, canvasVars, overlap>>

\* Stop: isRunning = false; the RTSP receiver also wakes its blocking calls.
ClearRunning(c) ==
  /\ At(c, "clear")
  /\ \/ Dangles(c)
     \/ /\ life[held[c]] # "dead"
        /\ isRunning' = [isRunning EXCEPT ![held[c]] = FALSE]
        /\ stopRequested' = [stopRequested EXCEPT ![held[c]] = kind[held[c]] = "rtsp"]
        /\ Go(c, IF joinable[held[c]] THEN "join" ELSE after[c])
        /\ UNCHANGED <<slot, kind, life, joinable, worker, held, after, goal, fate, canvasVars, overlap>>

\* Mutant: worker.detach() in place of worker.join().
Detach(c) ==
  /\ At(c, "join") /\ life[held[c]] # "dead"
  /\ joinable' = [joinable EXCEPT ![held[c]] = FALSE]
  /\ Go(c, after[c])
  /\ UNCHANGED <<slot, kind, life, isRunning, stopRequested, worker, held, after,
                 goal, fate, canvasVars, overlap>>

\* Stop: worker.join() returns.
Join(c) ==
  /\ At(c, "join")
  /\ \/ Dangles(c)
     \/ /\ life[held[c]] # "dead"
        /\ worker[held[c]] \in {"ended", "quit"}
        /\ joinable' = [joinable EXCEPT ![held[c]] = FALSE]
        /\ Go(c, after[c])
        /\ UNCHANGED <<slot, kind, life, isRunning, stopRequested, worker, held, after,
                       goal, fate, canvasVars, overlap>>

\* receiver.reset() empties the pointer; the destructor starts with Stop.
Reset(c) ==
  /\ At(c, "reset")
  /\ IF slot = NoReceiver
       THEN Go(c, goal[c]) /\ UNCHANGED <<slot, held, after>>
       ELSE /\ Go(c, "check")
            /\ slot' = NoReceiver
            /\ held' = [held EXCEPT ![c] = slot]
            /\ after' = [after EXCEPT ![c] = "destroy"]
  /\ UNCHANGED <<objVars, goal, fate, canvasVars, overlap>>

\* The destructor's end: the std::thread member goes, joined or not.
Destroy(c) ==
  /\ At(c, "destroy")
  /\ life' = [life EXCEPT ![held[c]] = "dead"]
  /\ fate' = IF joinable[held[c]] THEN "terminate" ELSE fate
  /\ held' = [held EXCEPT ![c] = NoReceiver]
  /\ Go(c, goal[c])
  /\ UNCHANGED <<slot, kind, isRunning, stopRequested, joinable, worker, after, goal, canvasVars, overlap>>

\* receiver = CreateReceiverFor(...), which destroys what is there by now.
Create(c) ==
  /\ At(c, "create")
  /\ \E r \in Receiver, k \in Kinds :
       /\ life[r] = "unborn"
       /\ life' = [life EXCEPT ![r] = "live"] /\ kind' = [kind EXCEPT ![r] = k]
       /\ slot' = r
  /\ goal' = [goal EXCEPT ![c] = "start"]
  /\ after' = [after EXCEPT ![c] = "destroy"]
  /\ held' = [held EXCEPT ![c] = slot]
  /\ Go(c, IF slot = NoReceiver THEN "start" ELSE "check")
  /\ UNCHANGED <<isRunning, stopRequested, joinable, worker, fate, canvasVars, overlap>>

\* receiver->Start(...): a vcmd:// url that does not parse starts nothing.
Start(c) ==
  /\ At(c, "start")
  /\ goal' = [goal EXCEPT ![c] = "idle"]
  /\ IF slot = NoReceiver
       THEN fate' = "dangling" /\ UNCHANGED <<isRunning, pc, held>>
       ELSE /\ \/ /\ isRunning' = [isRunning EXCEPT ![slot] = TRUE]
                  /\ held' = [held EXCEPT ![c] = slot]
                  /\ Go(c, "spawn")
               \/ kind[slot] = "raw" /\ Go(c, "idle") /\ UNCHANGED <<isRunning, held>>
            /\ UNCHANGED fate
  /\ UNCHANGED <<slot, kind, life, stopRequested, joinable, worker, after, canvasVars, overlap>>

\* ... worker = std::thread(...).
Spawn(c) ==
  /\ At(c, "spawn")
  /\ \/ Dangles(c)
     \/ /\ life[held[c]] # "dead"
        /\ joinable' = [joinable EXCEPT ![held[c]] = TRUE]
        /\ worker' = [worker EXCEPT ![held[c]] = IF kind[held[c]] = "rtsp"
                                                   THEN "retry" ELSE "connecting"]
        /\ Go(c, "idle")
        /\ UNCHANGED <<slot, kind, life, isRunning, stopRequested, held, after, goal,
                       fate, canvasVars, overlap>>

-----------------------------------------------------------------------------
(* The decode threads *)

\* What no decode thread touches.
frame == <<slot, kind, life, joinable, callVars, fate, overlap>>

Worker(r, k, where) == fate = "alive" /\ kind[r] = k /\ worker[r] = where

\* RTSP, WorkerFunc: while (isRunning) Loop() ...
RtspRetry(r) ==
  /\ Worker(r, "rtsp", "retry")
  /\ worker' = [worker EXCEPT ![r] = IF isRunning[r] THEN "open" ELSE "ended"]
  /\ UNCHANGED <<frame, isRunning, stopRequested, canvasVars>>

\* RTSP, OpenConnection resets the request flag and calls into FFmpeg.
RtspOpen(r) ==
  /\ Worker(r, "rtsp", "open")
  /\ stopRequested' = [stopRequested EXCEPT ![r] = FALSE]
  /\ worker' = [worker EXCEPT ![r] = "opening"]
  /\ UNCHANGED <<frame, isRunning, canvasVars>>

\* avformat_open_input returns: with a stream, or with an error, at the latest
\* TIMEOUT_MS after the last activity.
RtspOpened(r) ==
  /\ Worker(r, "rtsp", "opening")
  /\ worker' \in {[worker EXCEPT ![r] = "loop"], [worker EXCEPT ![r] = "lost"]}
  /\ UNCHANGED <<frame, isRunning, stopRequested, canvasVars>>

\* Mutant: the thread ends with its first stream.
RtspGivesUp(r) ==
  /\ Worker(r, "rtsp", "lost")
  /\ worker' = [worker EXCEPT ![r] = "ended"]
  /\ UNCHANGED <<frame, isRunning, stopRequested, canvasVars>>

\* RTSP, after Loop: sleep and retry, unless it is over.
RtspLost(r) ==
  /\ Worker(r, "rtsp", "lost")
  /\ worker' = [worker EXCEPT ![r] = "retry"]
  /\ UNCHANGED <<frame, isRunning, stopRequested, canvasVars>>

\* Raw TCP: the connection is made or refused.
RawConnected(r) ==
  /\ Worker(r, "raw", "connecting")
  /\ \/ worker' = [worker EXCEPT ![r] = "loop"]
     \/ worker' = [worker EXCEPT ![r] = "leaving"]
  /\ UNCHANGED <<frame, isRunning, stopRequested, canvasVars>>

\* Mutant: while (true) read.
CheckNothing(r) ==
  /\ fate = "alive" /\ worker[r] = "loop"
  /\ worker' = [worker EXCEPT ![r] = "reading"]
  /\ UNCHANGED <<frame, isRunning, stopRequested, canvasVars>>

\* Either loop: while (isRunning) read.
CheckLoop(r) ==
  /\ fate = "alive" /\ worker[r] = "loop"
  /\ worker' = [worker EXCEPT ![r] =
                  IF isRunning[r] THEN "reading"
                  ELSE IF kind[r] = "rtsp" THEN "lost" ELSE "leaving"]
  /\ UNCHANGED <<frame, isRunning, stopRequested, canvasVars>>

\* A frame arrives and is handed to the canvas, which takes one at a time.
ReadFrame(r) ==
  /\ fate = "alive" /\ worker[r] = "reading"
  /\ worker' = [worker EXCEPT ![r] = "loop"]
  /\ isRendering' = TRUE
  /\ queued' = IF isRendering THEN queued ELSE queued + 1
  /\ UNCHANGED <<frame, isRunning, stopRequested, drawn>>

\* The read fails: an error or a timeout, or the end of the connection.
ReadFails(r) ==
  /\ fate = "alive" /\ worker[r] = "reading"
  /\ worker' = [worker EXCEPT ![r] = IF kind[r] = "rtsp" THEN "lost" ELSE "leaving"]
  /\ UNCHANGED <<frame, isRunning, stopRequested, canvasVars>>

\* Every exit of the raw receiver's thread says so in isRunning; it has "quit"
\* when nobody had asked for it.
RawLeaves(r) ==
  /\ Worker(r, "raw", "leaving")
  /\ isRunning' = [isRunning EXCEPT ![r] = FALSE]
  /\ worker' = [worker EXCEPT ![r] = IF isRunning[r] THEN "quit" ELSE "ended"]
  /\ UNCHANGED <<frame, stopRequested, canvasVars>>

\* A posted Render runs on the GUI thread.
Render ==
  /\ At("gui", "idle") /\ queued > 0
  /\ queued' = queued - 1 /\ drawn' = TRUE /\ isRendering' = FALSE
  /\ UNCHANGED <<slot, objVars, callVars, fate, overlap>>

-----------------------------------------------------------------------------
CallerStep(c) ==
  \/ Load(c) \/ CheckRunning(c) \/ ClearRunning(c) \/ Join(c)
  \/ Reset(c) \/ Destroy(c) \/ Create(c) \/ Start(c) \/ Spawn(c)

WorkerStep(r) ==
  \/ RtspRetry(r) \/ RtspOpen(r) \/ RtspOpened(r) \/ RtspLost(r)
  \/ RawConnected(r) \/ CheckLoop(r)
  \/ ReadFrame(r) \/ ReadFails(r) \/ RawLeaves(r)

Next ==
  \/ EnterConnect \/ EnterClose \/ EnterDisconnect \/ Render
  \/ \E c \in Caller : CallerStep(c)
  \/ \E r \in Receiver : WorkerStep(r)

Spec == Init /\ [][Next]_vars

(***************************************************************************)
(* A call runs to its end, and a decode thread goes on.  FFmpeg's blocking *)
(* calls return because of the interrupt callback's timeout; the raw       *)
(* receiver's blocking reads, of the header and of the units, have none    *)
(* and return only if the phone sends or closes.                           *)
(***************************************************************************)
Returns(r) ==
  /\ kind[r] = "raw" /\ RawStalls => worker[r] \notin {"connecting", "reading"}
  /\ WorkerStep(r)

GoesOn(r) == WF_vars(Returns(r))

Fairness ==
  /\ \A c \in Caller : WF_vars(CallerStep(c))
  /\ \A r \in Receiver : GoesOn(r)

FairSpec == Spec /\ Fairness

\* Where the thread of an RTSP receiver is between two streams;
\* TriesGuardsEnable says that it can go on there.  The proof of TriesAgain
\* takes it as a hypothesis.
BetweenStreams(r) ==
  fate = "alive" /\ kind[r] = "rtsp" /\ worker[r] \in {"lost", "retry", "open"}
TriesGuardsEnable ==
  \A r \in Receiver : BetweenStreams(r) => ENABLED <<Returns(r)>>_vars

-----------------------------------------------------------------------------
(* Properties *)

TypeOK ==
  /\ slot \in Receiver \union {NoReceiver}
  /\ kind \in [Receiver -> {"none", "rtsp", "raw"}]
  /\ life \in [Receiver -> {"unborn", "live", "dead"}]
  /\ isRunning \in [Receiver -> BOOLEAN]
  /\ stopRequested \in [Receiver -> BOOLEAN]
  /\ joinable \in [Receiver -> BOOLEAN]
  /\ worker \in [Receiver -> {"none", "retry", "open", "opening", "lost", "connecting",
                              "loop", "reading", "leaving", "ended", "quit"}]
  /\ pc \in [Caller -> {"idle", "load", "check", "clear", "join", "reset", "destroy",
                        "create", "start", "spawn", "closed"}]
  /\ held \in [Caller -> Receiver \union {NoReceiver}]
  /\ after \in [Caller -> {"reset", "destroy"}]
  /\ goal \in [Caller -> {"idle", "create", "start", "closed"}]
  /\ fate \in {"alive", "terminate", "dangling"}
  /\ {drawn, isRendering, overlap} \subseteq BOOLEAN /\ queued \in Nat

Decoding(r) == worker[r] \notin {"none", "ended", "quit"}

(***************************************************************************)
(* No receiver is destroyed while its std::thread is joinable, and nobody  *)
(* touches one that was: as long as the two callers have never overlapped  *)
(* and no raw receiver has ended its own thread.                           *)
(***************************************************************************)
TornDownCleanly == ~overlap /\ (\A r \in Receiver : worker[r] # "quit") => fate = "alive"

(***************************************************************************)
(* No decode thread outlives its receiver, at the worst because the        *)
(* process goes first; even when the two callers overlap.                  *)
(***************************************************************************)
NoOrphan ==
  \A r \in Receiver : life[r] = "dead" /\ Decoding(r) => fate = "terminate"

(***************************************************************************)
(* Two receivers never decode at once: "switching devices tears the        *)
(* receiver down before constructing a new one" (docs/PERFORMANCE.md), as  *)
(* long as the two callers have never overlapped.  The types are as well.  *)
(***************************************************************************)
OneDecoder ==
  /\ TypeOK
  /\ ~overlap => \A r, s \in Receiver : Decoding(r) /\ Decoding(s) => r = s

(***************************************************************************)
(* Connect2Stream and StopAll return: the thread they join ends.           *)
(***************************************************************************)
CallsReturn ==
  \A c \in Caller : pc[c] # "idle" ~> (pc[c] \in {"idle", "closed"} \/ fate # "alive")

(***************************************************************************)
(* The RTSP receiver tries again whenever it lost its stream and nobody    *)
(* stopped it.                                                             *)
(***************************************************************************)
TriesAgain ==
  \A r \in Receiver :
    (worker[r] = "lost" /\ isRunning[r]) ~>
      (worker[r] = "opening" \/ ~isRunning[r] \/ fate # "alive")
=============================================================================
