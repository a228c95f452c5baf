------------------------------ MODULE Discovery ------------------------------
(***************************************************************************)
(* iPhones on the LAN in the drop-down list of the PC: BonjourPublisher    *)
(* (iOS), the browse loop of MdnsBrowser (windows/src/discovery), its      *)
(* callbacks and the list they refresh (windows/src/application.cpp).      *)
(* A phone is its number, which stands for its instance name and for the   *)
(* name in its descriptor, and gives the order of std::map; an address is  *)
(* a phone's number and how often the phone has changed it.  The ports of  *)
(* a record are left out.  The IO thread changes the connected phones in   *)
(* one step and the rows in two: the Clear and the Appends of a refresh    *)
(* are window calls, and handlers of the GUI thread may run before each.   *)
(***************************************************************************)
EXTENDS Naturals, Sequences, SequencesExt

CONSTANTS Phones,      \* positive numbers
          MissedMax,   \* kMissedCyclesBeforeRemoval
          MaxMoves,    \* bound: changes of an address, all by one phone
          MaxChanges   \* bound: starts and stops of publishers, connections and their ends

ASSUME ConstantsAssumption ==
    /\ Phones \subseteq Nat \ {0} /\ MissedMax \in Nat \ {0}
    /\ MaxMoves \in Nat /\ MaxChanges \in Nat

VARIABLES
    air,        \* the publisher: "off", "starting", "on", "failed"
    moves,      \* how often each phone has changed its address
    running,    \* MdnsBrowser::running
    worker,     \* where WorkerLoop is
    joinable,   \* std::thread worker has not been joined
    pending,    \* BrowseAccumulator: the instances named, and their hosts
    todo,       \* instances not yet reconciled in this cycle
    known,      \* knownDevices, by host; NoHost if it is not there
    missed,     \* missedCycles
    discovered, \* Application::discoveredDevices: the names
    connected,  \* RTSP::Manager's descriptors
    io,         \* the IO thread: "rest", "listed" (descriptors changed), "cleared" (rows too)
    place,      \* the place of the phone it has added or removed; 0 at rest
    doubled,    \* the rows were filled twice, by the IO thread and by the GUI thread
    refresh,    \* an UpdateAvailableDevices is queued on the GUI thread
    shown,      \* the rows of the source choice
    gui,        \* "idle", "stopping" (in MdnsBrowser::Stop) or "closed"
    changes,
    quiet,      \* history: cycles since the phone answered in full
    unopened    \* history: the worker could not open its socket

vars == <<air, moves, running, worker, joinable, pending, todo, known, missed, discovered,
          connected, io, place, doubled, refresh, shown, gui, changes, quiet, unopened>>
phoneVars == <<air, moves, connected, io, place, changes>>
rowVars == <<refresh, shown, doubled>>
loopVars == <<running, joinable, unopened>>

NoHost == <<0, 0>>
Absent == <<0, 1>>  \* not in pending at all
Address(n) == <<n, moves[n]>>
On(n) == air[n] = "on"

\* The order of std::map.
IsAscending(s) == \A i, j \in DOMAIN s : i < j => s[i] < s[j]
Ascending(S) == CHOOSE s \in SetToSeqs(S) : IsAscending(s)

\* UpdateAvailableDevices: connected phones, then the others in the map's order.
Rows(conn, disc) == conn \o Ascending(disc \ ToSet(conn))

\* OnSourceChanged: the row against the lists of now; 0 if there is none.
Resolve(i) ==
    LET rows == Rows(connected, discovered) IN IF i \in DOMAIN rows THEN rows[i] ELSE 0

Init ==
    /\ air = [n \in Phones |-> "off"] /\ moves = [n \in Phones |-> 1]
    /\ running = TRUE /\ worker = "opening" /\ joinable = TRUE
    /\ pending = [n \in Phones |-> Absent] /\ todo = {}
    /\ known = [n \in Phones |-> NoHost] /\ missed = [n \in Phones |-> 0]
    /\ discovered = {} /\ connected = <<>> /\ refresh = FALSE /\ shown = <<>>
    /\ io = "rest" /\ place = 0 /\ doubled = FALSE
    /\ gui = "idle" /\ changes = 0
    /\ quiet = [n \in Phones |-> MissedMax] /\ unopened = FALSE

-----------------------------------------------------------------------------
(***************************************************************************)
(* The phones.                                                             *)
(***************************************************************************)
Publisher(n, from, to) == air[n] \in from /\ air' = [air EXCEPT ![n] = to]
PhoneChanges == changes < MaxChanges /\ changes' = changes + 1
Untouched == UNCHANGED <<loopVars, worker, pending, todo, known, missed, discovered, quiet,
                         gui>>
Listed == <<connected, io, place>>

\* start() stops an older listener first; stop() may come at any time.
Start(n) == PhoneChanges /\ Publisher(n, {"off", "starting", "on", "failed"}, "starting")
            /\ Untouched /\ UNCHANGED <<moves, Listed, rowVars>>
Stop(n) == PhoneChanges /\ Publisher(n, {"starting", "on", "failed"}, "off")
           /\ Untouched /\ UNCHANGED <<moves, Listed, rowVars>>
StateUpdate(n) == (\E to \in {"on", "failed"} : Publisher(n, {"starting"}, to))
                  /\ Untouched /\ UNCHANGED <<moves, Listed, changes, rowVars>>
Move(n) ==
    /\ \A m \in Phones : m # n => moves[m] = 1
    /\ moves[n] <= MaxMoves /\ moves' = [moves EXCEPT ![n] = @ + 1]
    /\ Untouched /\ UNCHANGED <<air, Listed, changes, rowVars>>

\* OnDeviceConnected and OnDeviceDisconnected, up to the change of the list, on
\* the IO thread, which runs one at a time.  connect() has started a publisher
\* that had no listener; only a disconnect() stops it, not a link that breaks.
Connect(n) ==
    /\ PhoneChanges /\ n \notin ToSet(connected) /\ io = "rest" /\ gui # "closed"
    /\ connected' = Append(connected, n)
    /\ io' = "listed" /\ place' = Len(connected) + 1
    /\ air' = IF air[n] = "off" THEN [air EXCEPT ![n] = "starting"] ELSE air
    /\ Untouched /\ UNCHANGED <<moves, rowVars>>
Disconnect(n) ==
    /\ PhoneChanges /\ io = "rest" /\ gui # "closed"
    /\ \E i \in DOMAIN connected :
         connected[i] = n /\ connected' = RemoveAt(connected, i) /\ place' = i
    /\ io' = "listed"
    /\ air' \in {air, [air EXCEPT ![n] = "off"]}
    /\ Untouched /\ UNCHANGED <<moves, rowVars>>

\* Their UpdateAvailableDevices, after the window calls of OnDeviceDisconnected:
\* Clear, and then the rows, one by one, behind whatever is there.
Refreshes(at, then) ==
    /\ io = at /\ io' = then /\ gui = "idle"
    /\ Untouched /\ UNCHANGED <<air, moves, connected, changes, refresh>>
IoClears ==
    /\ Refreshes("listed", "cleared") /\ UNCHANGED place
    /\ shown' = <<>> /\ doubled' = FALSE
IoFills ==
    /\ Refreshes("cleared", "rest") /\ place' = 0
    /\ shown' = shown \o Rows(connected, discovered) /\ doubled' = (shown # <<>>)

-----------------------------------------------------------------------------
(***************************************************************************)
(* The browser's thread.                                                   *)
(***************************************************************************)
At(pc) == worker = pc
Cycle(pc) == worker' = pc /\ UNCHANGED <<phoneVars, loopVars, shown, doubled, gui>>
Lists == <<known, missed, discovered, refresh>>

OpenSocket ==
    /\ At("opening")
    /\ \/ worker' = "query" /\ UNCHANGED <<running, unopened>>
       \/ worker' = "ended" /\ running' = FALSE /\ unopened' = TRUE
    /\ UNCHANGED <<phoneVars, joinable, pending, todo, Lists, shown, doubled, gui, quiet>>

\* A query that cannot be sent is tried again after three seconds.
Query ==
    /\ At("query")
    /\ Cycle(IF running THEN "collect" ELSE "ended")
    /\ UNCHANGED <<pending, todo, Lists, quiet>>

\* QueryCallback.  An A record goes to every instance named without a host.
Named(n) == IF pending[n] = Absent THEN [pending EXCEPT ![n] = NoHost] ELSE pending
Resolved(p, address) == [m \in Phones |-> IF p[m] = NoHost THEN address ELSE p[m]]
Packet(p, n) ==
    /\ At("collect") /\ On(n)
    /\ p # pending /\ pending' = p
    /\ UNCHANGED <<phoneVars, loopVars, worker, todo, Lists, shown, doubled, gui, quiet>>

\* One packet with all the records, or the address in a packet of its own.
Answer(n) == Packet(Resolved(Named(n), Address(n)), n)
Names(n) == Packet(Named(n), n)
Resolves(n) == Packet(Resolved(pending, Address(n)), n)

Seen(n) == pending[n] \notin {Absent, NoHost}
WindowEnds ==
    /\ At("collect") /\ Cycle("reconcile")
    /\ todo' = Phones
    /\ quiet' = [n \in Phones |-> IF Seen(n) THEN 0
                                  ELSE IF quiet[n] < MissedMax THEN quiet[n] + 1 ELSE quiet[n]]
    /\ UNCHANGED <<pending, Lists>>

\* Mutant: a phone that is seen again keeps the cycles it has missed.
FoundCounting(n) ==
    /\ known' = [known EXCEPT ![n] = pending[n]]
    /\ UNCHANGED missed
    /\ IF known[n] = pending[n] THEN UNCHANGED <<discovered, refresh>>
       ELSE discovered' = discovered \cup {n} /\ refresh' = TRUE

\* Mutant: onRemoved without its CallAfter.
MissedQuietly(n) ==
    IF known[n] = NoHost THEN UNCHANGED Lists
    ELSE IF missed[n] + 1 >= MissedMax
         THEN /\ known' = [known EXCEPT ![n] = NoHost] /\ missed' = [missed EXCEPT ![n] = 0]
              /\ discovered' = discovered \ {n} /\ UNCHANGED refresh
         ELSE /\ missed' = [missed EXCEPT ![n] = @ + 1]
              /\ UNCHANGED <<known, discovered, refresh>>

\* onFound and onRemoved change the map and queue a refresh.
Found(n) ==
    /\ known' = [known EXCEPT ![n] = pending[n]]
    /\ missed' = [missed EXCEPT ![n] = 0]
    /\ IF known[n] = pending[n] THEN UNCHANGED <<discovered, refresh>>
       ELSE discovered' = discovered \cup {n} /\ refresh' = TRUE
Missed(n) ==
    IF known[n] = NoHost THEN UNCHANGED Lists
    ELSE IF missed[n] + 1 >= MissedMax
         THEN /\ known' = [known EXCEPT ![n] = NoHost] /\ missed' = [missed EXCEPT ![n] = 0]
              /\ discovered' = discovered \ {n} /\ refresh' = TRUE
         ELSE /\ missed' = [missed EXCEPT ![n] = @ + 1]
              /\ UNCHANGED <<known, discovered, refresh>>

\* First the instances seen, then those that are not, in the map's order.
Turn(n) ==
    /\ n \in todo
    /\ \A m \in todo : IF Seen(m) = Seen(n) THEN n <= m ELSE Seen(n)

\* Mutant: the accumulator is outside the loop.
ReconcileKeeps(n) ==
    /\ At("reconcile") /\ Turn(n)
    /\ todo' = todo \ {n}
    /\ IF Seen(n) THEN Found(n) ELSE Missed(n)
    /\ Cycle(IF todo' = {} THEN "wait" ELSE "reconcile")
    /\ UNCHANGED <<pending, quiet>>

\* One instance after the other; the record is moved out.
Reconcile(n) ==
    /\ At("reconcile") /\ Turn(n)
    /\ todo' = todo \ {n}
    /\ IF Seen(n) THEN Found(n) ELSE Missed(n)
    /\ pending' = [pending EXCEPT ![n] = Absent]
    /\ Cycle(IF todo' = {} THEN "wait" ELSE "reconcile")
    /\ UNCHANGED quiet

Wait ==
    /\ At("wait") /\ Cycle("query")
    /\ UNCHANGED <<pending, todo, Lists, quiet>>

-----------------------------------------------------------------------------
(***************************************************************************)
(* The GUI thread.                                                         *)
(***************************************************************************)
UpdateAvailableDevices ==
    /\ gui = "idle" /\ refresh
    /\ refresh' = FALSE /\ shown' = Rows(connected, discovered) /\ doubled' = FALSE
    /\ UNCHANGED <<phoneVars, loopVars, worker, pending, todo, known, missed, discovered,
                   gui, quiet>>

\* OnWindowCloseEvent: Stop, which returns at once if running is already off.
Close ==
    /\ gui = "idle"
    /\ gui' = IF running THEN "stopping" ELSE "closed"
    /\ running' = FALSE
    /\ UNCHANGED <<phoneVars, worker, joinable, unopened, pending, todo, Lists, shown,
                   doubled, quiet>>

\* join returned: every known device is reported as removed.
Joined ==
    /\ gui = "stopping" /\ At("ended")
    /\ gui' = "closed" /\ joinable' = FALSE
    /\ discovered' = {n \in discovered : known[n] = NoHost}
    /\ refresh' = (refresh \/ \E n \in Phones : known[n] # NoHost)
    /\ known' = [n \in Phones |-> NoHost] /\ missed' = [n \in Phones |-> 0]
    /\ UNCHANGED <<phoneVars, running, unopened, worker, pending, todo, shown,
                   doubled, quiet>>

Worker == OpenSocket \/ Query \/ WindowEnds \/ Wait \/ \E n \in Phones : Reconcile(n)
Next ==
    \/ Worker \/ UpdateAvailableDevices \/ Close \/ Joined \/ IoClears \/ IoFills
    \/ \E n \in Phones :
         \/ Start(n) \/ Stop(n) \/ StateUpdate(n) \/ Move(n) \/ Connect(n) \/ Disconnect(n)
         \/ Answer(n) \/ Names(n) \/ Resolves(n)

\* The browser's thread goes on; a phone that is asked again and again answers.
Spec == /\ Init /\ [][Next]_vars
        /\ WF_vars(Worker)
        /\ \A n \in Phones : SF_vars(Answer(n))

-----------------------------------------------------------------------------
\* A row never opens another phone's stream, even before a queued refresh: only
\* rows of phones that are not connected can be out of date, and they only show
\* a hint; without a queued refresh every row means what it says.  But while the
\* IO thread has changed the descriptors and not yet the rows, only those before
\* the phone it has added or removed are right, and none has to be once its
\* refresh and the GUI thread's have run into each other, until the next one
\* (application.cpp:270-296, 446-476, 485-541, 661-696).
RowsAreTrue == ~doubled =>
    /\ \A i \in DOMAIN shown : (io # "rest" => i < place) =>
         (Resolve(i) # shown[i] => {Resolve(i), shown[i]} \cap ToSet(connected) = {})
    /\ io = "rest" /\ ~refresh => shown = Rows(connected, discovered)

\* After each cycle a phone is known as long as it has not been silent for
\* MissedMax cycles in a row, at whatever address, and the application has the
\* same phones; after Stop nobody is known, and the thread is gone unless it
\* could not open its socket (mdnsdiscovery.cpp:131-143, 205-275).
KnownIsTrue ==
    /\ At("wait") => \A n \in Phones : known[n] # NoHost <=> quiet[n] < MissedMax
    /\ discovered = {n \in Phones : known[n] # NoHost}
    /\ gui = "closed" => discovered = {} /\ (~joinable \/ unopened)

\* A phone that goes on advertising is found again and again, one that has
\* stopped is dropped for good, for as long as the browser runs.
ListFollowsAir ==
    \A n \in Phones :
        /\ <>[](running /\ On(n) /\ worker # "opening") => []<>(n \in discovered)
        /\ <>[](running /\ air[n] = "off") => <>[](n \notin discovered)
=============================================================================
