-------------------------- MODULE ConnectionManager --------------------------
(***************************************************************************)
(* How the desktop client keeps a connection to its server: the part of    *)
(* the view model that connects, checks and connects again                 *)
(* (desktop/src/main_view_model.cpp) and the life of the client's io       *)
(* thread and of the requests made over it (desktop/src/app_client.cpp).   *)
(*                                                                         *)
(* Who runs: the GUI thread (posted events in the order they were posted,  *)
(* timers, changes of the network, the user), the thread of reconnect(),   *)
(* the io thread, and a thread for each request. A step of the GUI thread  *)
(* is a whole handler. The stop() it may call waits for the io thread,     *)
(* which ends meanwhile and changes nothing that the others could tell     *)
(* from having ended before.                                               *)
(*                                                                         *)
(* Of an error the model keeps what the handlers look for in its text.     *)
(***************************************************************************)
EXTENDS Naturals, Sequences

CONSTANTS
  MaxChanges,  \* bound: changes of the network
  MaxFaults    \* bound: broken connections and late answers while the network
               \* is there, and what the user does

ASSUME ConstantsOK == MaxChanges \in Nat /\ MaxFaults \in Nat

VARIABLES
  view,      \* connection state of the view model; see View
  posted,    \* events posted to the GUI thread
  worker,    \* where the thread of reconnect() stands
  running,   \* running_
  io,        \* io_thread_: "none" is not joinable, "ended" is
  ioError,   \* what the io thread failed with
  ready,     \* the ready promise
  calls,     \* requests of reconnect(), of the health check and of a page
  mute,      \* the session's writer has ended, its reader goes on
  reach,     \* what QNetworkInformation says
  env,       \* the usable addresses of the machine, by number
  seen,      \* last_network_environment_fingerprint_
  paired,    \* the secret store holds a peer
  changes,   \* how many changes of the network there were
  faults,    \* how many faults
  stale,     \* history: see NeverStrandedUnlessStale
  crashed    \* the process has ended: an exception left a handler

gui     == <<view, posted, stale>>
client  == <<running, io, ioError, ready, calls>>
network == <<reach, env, seen, changes>>
vars    == <<gui, worker, client, mute, network, paired, faults, crashed>>

Errors  == {"timed out", "not connected", "route", "other"}
Callers == {"reconnect", "ping", "page"}
View ==
  [status : {"idle", "no device", "connecting", "connected", "disconnected", "failed",
             "no network", "awaiting change"},
   inProgress : BOOLEAN,      \* reconnect_in_progress_
   awaiting : BOOLEAN,        \* waiting_for_network_change_
   reconnectTimer : BOOLEAN,  \* reconnect_timer_ is running
   healthTimer : BOOLEAN]     \* health_check_timer_ is running
Events ==
  [event : {"connecting", "unpaired", "unreachable", "connected", "page"}] \cup
  [event : {"failed", "lost", "unhealthy"}, error : Errors]

-----------------------------------------------------------------------------
(* Requests                                                                  *)

NoCall    == [stage |-> "none"]
Made      == [stage |-> "made"]
Failed(e) == [stage |-> "failed", error |-> e]

\* failPendingRequests: calls that are registered fail.
Failing(e) ==
  [c \in Callers |-> IF calls[c].stage = "registered" THEN Failed(e) ELSE calls[c]]

\* request() checks running_, ...
CheckRunning(c) ==
  /\ calls[c] = Made
  /\ calls' = [calls EXCEPT ![c] =
       IF running THEN [stage |-> "checked"] ELSE Failed("not connected")]
  /\ UNCHANGED <<gui, worker, running, io, ioError, ready, mute, network, paired, faults, crashed>>

\* ... then puts its promise into pending_ and the request into outgoing_, ...
Register(c) ==
  /\ calls[c].stage = "checked"
  /\ calls' = [calls EXCEPT ![c] = [stage |-> "registered"]]
  /\ UNCHANGED <<gui, worker, running, io, ioError, ready, mute, network, paired, faults, crashed>>

\* ... and waits: for the answer, over this connection or a later one, ...
Answer(c) ==
  /\ calls[c].stage = "registered"
  /\ io = "serving" /\ ~mute
  /\ calls' = [calls EXCEPT ![c] = [stage |-> "answered"]]
  /\ UNCHANGED <<gui, worker, running, io, ioError, ready, mute, network, paired, faults, crashed>>

\* A page above the limit of writeEnvelope ends the session's writer: this request
\* and all that follow on the connection are handled and not answered.
AnswerTooLarge ==
  /\ calls["page"].stage = "registered"
  /\ io = "serving" /\ ~mute
  /\ faults < MaxFaults /\ faults' = faults + 1
  /\ mute' = TRUE
  /\ UNCHANGED <<gui, worker, client, network, paired, crashed>>

\* ... or for 30 s. That is a fault if there is a connection that is answered.
TimeOut(c) ==
  /\ calls[c].stage = "registered"
  /\ IF io \in {"none", "ended"} \/ mute THEN UNCHANGED faults
     ELSE faults < MaxFaults /\ faults' = faults + 1
  /\ calls' = [calls EXCEPT ![c] = Failed("timed out")]
  /\ UNCHANGED <<gui, worker, running, io, ioError, ready, mute, network, paired, crashed>>

-----------------------------------------------------------------------------
(* The io thread                                                             *)

Encrypted ==
  /\ io = "connecting"
  /\ reach
  /\ io' = "serving" /\ mute' = FALSE
  /\ ready' = "ok"
  /\ UNCHANGED <<gui, worker, running, ioError, calls, network, paired, faults, crashed>>

\* ioLoop throws: no connection, or it broke.
IoFails ==
  /\ io \in {"connecting", "serving"}
  /\ IF reach THEN faults < MaxFaults /\ faults' = faults + 1 ELSE UNCHANGED faults
  /\ running' = FALSE
  /\ \E e \in {"route", "other"} :
       /\ calls' = Failing(e)
       /\ ready' = IF io = "connecting" THEN e ELSE ready
       /\ ioError' = e
  /\ io' = "failing"
  /\ UNCHANGED <<gui, worker, mute, network, paired, crashed>>

\* onConnectionLost.
IoReports ==
  /\ io = "failing"
  /\ io' = "ended"
  /\ posted' = Append(posted, [event |-> "lost", error |-> ioError])
  /\ UNCHANGED <<view, stale, worker, running, ioError, ready, calls, mute, network, paired,
                 faults, crashed>>

IoQuits ==
  /\ io = "serving"
  /\ ~running
  /\ io' = "ended"
  /\ UNCHANGED <<gui, worker, running, ioError, ready, calls, mute, network, paired, faults, crashed>>

-----------------------------------------------------------------------------
(* The thread of reconnect()                                                 *)

\* Is there a peer, and a network?
CheckNetwork ==
  /\ worker = "checking"
  /\ LET go == paired /\ reach IN
       /\ worker' = IF go THEN "stopping" ELSE "idle"
       /\ posted' = Append(posted,
            [event |-> IF go THEN "connecting" ELSE IF paired THEN "unreachable" ELSE "unpaired"])
  /\ UNCHANGED <<view, stale, client, mute, network, paired, faults, crashed>>

\* stop(), from this thread.
StopOld ==
  /\ worker = "stopping"
  /\ worker' = "joining"
  /\ running' = FALSE
  /\ calls' = IF running \/ io # "none" THEN Failing("other") ELSE calls
  /\ UNCHANGED <<gui, io, ioError, ready, mute, network, paired, faults, crashed>>

\* The rest of connectAndStart, up to the wait for the ready promise.
StartNew ==
  /\ worker = "joining"
  /\ io \in {"none", "ended"}
  /\ worker' = "opening"
  /\ running' = TRUE
  /\ io' = "connecting"
  /\ ready' = "none"
  /\ UNCHANGED <<gui, ioError, calls, mute, network, paired, faults, crashed>>

\* The five requests that follow, as one that any of them may fail.
AskServer ==
  /\ worker = "opening"
  /\ ready = "ok"
  /\ worker' = "asking"
  /\ calls' = [calls EXCEPT !["reconnect"] = Made]
  /\ UNCHANGED <<gui, running, io, ioError, ready, mute, network, paired, faults, crashed>>

PostOutcome ==
  /\ \/ /\ worker = "opening" /\ ready \in Errors
        /\ posted' = Append(posted, [event |-> "failed", error |-> ready])
     \/ /\ worker = "asking" /\ calls["reconnect"].stage = "failed"
        /\ posted' = Append(posted,
                            [event |-> "failed", error |-> calls["reconnect"].error])
     \/ /\ worker = "asking" /\ calls["reconnect"].stage = "answered"
        /\ posted' = Append(posted, [event |-> "connected"])
     \/ /\ worker = "threw"
        /\ posted' = Append(posted, [event |-> "failed", error |-> "other"])
  /\ worker' = "idle"
  /\ calls' = [calls EXCEPT !["reconnect"] = NoCall]
  /\ UNCHANGED <<view, stale, running, io, ioError, ready, mute, network, paired, faults, crashed>>

\* The thread of a health check, or of a page, is done.
PingEnds ==
  /\ calls["ping"].stage \in {"answered", "failed"}
  /\ posted' = IF calls["ping"].stage = "answered" THEN posted
               ELSE Append(posted, [event |-> "unhealthy", error |-> calls["ping"].error])
  /\ calls' = [calls EXCEPT !["ping"] = NoCall]
  /\ UNCHANGED <<view, stale, worker, running, io, ioError, ready, mute, network, paired, faults,
                 crashed>>

\* Whether the page is still the one that is shown is up to the user. An error
\* about the route can be one that timed out as well.
PageEnds ==
  /\ calls["page"].stage \in {"answered", "failed"}
  /\ \/ UNCHANGED posted
     \/ /\ calls["page"] \in {Failed("timed out"), Failed("not connected"), Failed("route")}
        /\ posted' = Append(posted, [event |-> "page"])
  /\ calls' = [calls EXCEPT !["page"] = NoCall]
  /\ UNCHANGED <<view, stale, worker, running, io, ioError, ready, mute, network, paired, faults,
                 crashed>>

-----------------------------------------------------------------------------
(* The GUI thread: what its handlers do to the view, when QNetworkInformation *)
(* says r.                                                                   *)

SuggestsRoute(e) == e \in {"timed out", "route"}

\* scheduleReconnect.
Scheduled(v, r) ==
  IF v.inProgress \/ ~r \/ v.awaiting THEN v ELSE [v EXCEPT !.reconnectTimer = TRUE]

\* stopForNetworkLoss, but for stop().
NetworkLost(v) ==
  [v EXCEPT !.awaiting = FALSE, !.reconnectTimer = FALSE, !.healthTimer = FALSE,
            !.status = "no network"]

\* deferReconnectUntilNetworkChanges.
Deferred(v) ==
  [v EXCEPT !.awaiting = TRUE, !.reconnectTimer = FALSE, !.healthTimer = FALSE,
            !.status = "awaiting change"]

\* What every handler of a failure ends with.
AfterFailure(v, e) ==
  IF ~reach THEN NetworkLost(v)
  ELSE IF SuggestsRoute(e) THEN Deferred(v) ELSE Scheduled(v, reach)

\* handleNetworkEnvironmentChanged, once the fingerprint differs.
Moved(v, r) ==
  IF ~r THEN NetworkLost(v)
  ELSE LET cut == v.status = "connected" IN
       Scheduled([v EXCEPT !.awaiting = FALSE, !.reconnectTimer = FALSE,
                           !.healthTimer = @ /\ ~cut,
                           !.status = IF cut THEN "disconnected" ELSE @], r)

\* The io thread that stop() waits for keeps its promise, ... (Mutation: an io
\* thread that is told to stop forgets it.)
PromiseForgotten == ready

PromiseKept == IF io = "connecting" THEN "ok" ELSE ready

\* ... and posts what it had to report.
LastWords == IF io = "failing" THEN <<[event |-> "lost", error |-> ioError]>> ELSE <<>>

\* stop(), from the GUI thread. Two threads that join one thread are undefined
\* behaviour: the second gets an exception, which ends the process when it is
\* this one, and is a failure to connect when it is the other.
StopClient ==
  /\ running' = FALSE
  /\ io' = "none"
  /\ ready' = PromiseKept
  /\ calls' = IF running \/ io # "none" THEN Failing("other") ELSE calls
  /\ UNCHANGED ioError
  /\ LET collide == worker \in {"stopping", "joining"} /\ io # "none" IN
       \/ UNCHANGED <<worker, crashed>>
       \/ collide /\ crashed' = TRUE /\ UNCHANGED worker
       \/ collide /\ worker' = "threw" /\ UNCHANGED crashed

\* reconnect(). (Mutation: nobody looks whether it is under way.)
ReconnectAnyway(v) ==
  /\ view' = [v EXCEPT !.inProgress = TRUE, !.reconnectTimer = FALSE]
  /\ worker' = "checking"
  /\ stale' = FALSE

Reconnect(v) ==
  IF v.inProgress THEN view' = v /\ UNCHANGED <<worker, stale>>
  ELSE /\ view' = [v EXCEPT !.inProgress = TRUE, !.reconnectTimer = FALSE]
       /\ worker' = "checking"
       /\ stale' = FALSE

Init ==
  /\ view = [status |-> "idle", inProgress |-> TRUE, awaiting |-> FALSE,
             reconnectTimer |-> FALSE, healthTimer |-> FALSE]
  /\ posted = <<>>
  /\ worker = "checking"
  /\ running = FALSE
  /\ io = "none"
  /\ ioError = "other"
  /\ ready = "none"
  /\ calls = [c \in Callers |-> NoCall]
  /\ reach \in BOOLEAN
  /\ env = 0
  /\ seen = 0
  /\ paired \in BOOLEAN
  /\ changes = 0
  /\ faults = 0
  /\ stale = FALSE
  /\ crashed = FALSE
  /\ mute = FALSE

-----------------------------------------------------------------------------
(* The GUI thread: posted events                                             *)

Arrives(event) == posted # <<>> /\ Head(posted).event = event

\* The handler changes the view and leaves the client alone, ...
Leaves(v) ==
  /\ view' = v
  /\ posted' = Tail(posted)
  /\ UNCHANGED <<worker, client, crashed>>

\* ... or calls stop(), too.
Stops(v) ==
  /\ view' = v
  /\ posted' = Tail(posted) \o LastWords
  /\ StopClient

HandleConnecting ==
  /\ Arrives("connecting")
  /\ Leaves([view EXCEPT !.status = "connecting"])
  /\ UNCHANGED <<stale, mute, network, paired, faults>>

HandleUnpaired ==
  /\ Arrives("unpaired")
  /\ Leaves([view EXCEPT !.inProgress = FALSE, !.healthTimer = FALSE, !.status = "no device"])
  /\ stale' = paired
  /\ UNCHANGED <<mute, network, paired, faults>>

HandleUnreachable ==
  /\ Arrives("unreachable")
  /\ Stops(NetworkLost([view EXCEPT !.inProgress = FALSE]))
  /\ stale' = reach
  /\ UNCHANGED <<mute, network, paired, faults>>

\* The articles are loaded again, unless they are being loaded.
HandleConnected ==
  /\ Arrives("connected")
  /\ view' = [view EXCEPT !.inProgress = FALSE, !.awaiting = FALSE, !.healthTimer = TRUE,
                          !.status = "connected"]
  /\ posted' = Tail(posted)
  /\ calls' = [calls EXCEPT !["page"] = IF @ = NoCall THEN Made ELSE @]
  /\ UNCHANGED <<stale, worker, running, io, ioError, ready, mute, network, paired, faults, crashed>>

\* (Mutation: the attempt stays under way.)
OverButBusy(v) == [v EXCEPT !.healthTimer = FALSE, !.status = "failed"]

Over(v) == [v EXCEPT !.inProgress = FALSE, !.healthTimer = FALSE, !.status = "failed"]

HandleFailed ==
  /\ Arrives("failed")
  /\ LET v == AfterFailure(Over(view), Head(posted).error) IN
       IF reach THEN Leaves(v) ELSE Stops(v)
  /\ UNCHANGED <<stale, mute, network, paired, faults>>

HandleLost ==
  /\ Arrives("lost")
  /\ LET v == AfterFailure([view EXCEPT !.status = "disconnected"], Head(posted).error) IN
       IF reach THEN Leaves(v) ELSE Stops(v)
  /\ UNCHANGED <<stale, mute, network, paired, faults>>

HandleUnhealthy ==
  /\ Arrives("unhealthy")
  /\ Stops(AfterFailure([view EXCEPT !.status = "disconnected"], Head(posted).error))
  /\ UNCHANGED <<stale, mute, network, paired, faults>>

HandlePage ==
  /\ Arrives("page")
  /\ Leaves(Scheduled([view EXCEPT !.status = "disconnected"], reach))
  /\ UNCHANGED <<stale, mute, network, paired, faults>>

-----------------------------------------------------------------------------
(* The GUI thread: timers, the network and the user                          *)

\* A timer takes a second at least. By then a thread that waits for nothing has
\* gone on, and what was posted has been handled.
SecondsPass ==
  /\ posted = <<>>
  /\ \A c \in Callers : calls[c].stage \in {"none", "registered"}

ReconnectTimerFires ==
  /\ view.reconnectTimer
  /\ SecondsPass
  /\ Reconnect([view EXCEPT !.reconnectTimer = FALSE])
  /\ UNCHANGED <<posted, client, mute, network, paired, faults, crashed>>

\* performHealthCheck. A check is over before the next is due.
HealthTimerFires ==
  /\ view.healthTimer /\ view.status = "connected"
  /\ SecondsPass /\ calls["ping"] = NoCall
  /\ IF reach
       THEN /\ calls' = [calls EXCEPT !["ping"] = Made]
            /\ UNCHANGED <<gui, worker, running, io, ioError, ready, crashed>>
       ELSE /\ view' = NetworkLost(view)
            /\ posted' = posted \o LastWords
            /\ StopClient
            /\ UNCHANGED stale
  /\ UNCHANGED <<mute, network, paired, faults>>

\* An address comes or goes, and nobody has noticed yet.
AddressesChange ==
  /\ changes < MaxChanges
  /\ changes' = changes + 1
  /\ env' = env + 1
  /\ UNCHANGED <<gui, worker, client, mute, reach, seen, paired, faults, crashed>>

\* network_change_timer_.
CheckAddresses ==
  /\ seen # env
  /\ seen' = env
  /\ view' = Moved(view, reach)
  /\ IF reach /\ view.status # "connected"
       THEN UNCHANGED <<posted, worker, running, io, ioError, ready, calls, crashed>>
       ELSE posted' = posted \o LastWords /\ StopClient
  /\ UNCHANGED <<stale, mute, reach, env, changes, paired, faults>>

\* handleNetworkReachabilityChanged. (Mutation: it leaves reconnecting to the
\* change of addresses.)
BackIfMoved(v) == v

Back(v) ==
  IF v.status # "connected" /\ ~v.awaiting THEN Scheduled(v, TRUE) ELSE v

ReachabilityChanges ==
  /\ changes < MaxChanges
  /\ changes' = changes + 1
  /\ reach' = ~reach
  /\ seen' = env
  /\ LET moved == IF seen = env THEN view ELSE Moved(view, ~reach) IN
       /\ view' = IF reach THEN NetworkLost(moved) ELSE Back(moved)
       /\ IF reach \/ (seen # env /\ view.status = "connected")
            THEN posted' = posted \o LastWords /\ StopClient
            ELSE UNCHANGED <<posted, worker, running, io, ioError, ready, calls, crashed>>
  /\ UNCHANGED <<stale, mute, env, paired, faults>>

\* The user pairs the device, for the first time or again.
Pair ==
  /\ faults < MaxFaults
  /\ faults' = faults + 1
  /\ paired' = TRUE
  /\ Reconnect(view)
  /\ UNCHANGED <<posted, client, mute, network, crashed>>

\* The user selects a feed, or articles have come.
LoadPage ==
  /\ faults < MaxFaults
  /\ faults' = faults + 1
  /\ calls["page"] = NoCall
  /\ calls' = [calls EXCEPT !["page"] = Made]
  /\ UNCHANGED <<gui, worker, running, io, ioError, ready, mute, network, paired, crashed>>

-----------------------------------------------------------------------------
GuiStep ==
  \/ HandleConnecting \/ HandleUnpaired \/ HandleUnreachable \/ HandleConnected
  \/ HandleFailed \/ HandleLost \/ HandleUnhealthy \/ HandlePage

ReconnectStep == CheckNetwork \/ StopOld \/ StartNew \/ AskServer \/ PostOutcome

IoStep == Encrypted \/ IoFails \/ IoReports \/ IoQuits

CallStep(c) == CheckRunning(c) \/ Register(c) \/ Answer(c) \/ TimeOut(c)

Next ==
  /\ ~crashed
  /\ \/ GuiStep \/ ReconnectTimerFires \/ HealthTimerFires \/ CheckAddresses
     \/ AddressesChange \/ ReachabilityChanges \/ Pair \/ LoadPage
     \/ ReconnectStep \/ IoStep \/ PingEnds \/ PageEnds
     \/ AnswerTooLarge \/ \E c \in Callers : CallStep(c)

Spec == Init /\ [][Next]_vars

\* Threads run, timers fire, and the server takes a connection and answers
\* sooner or later, or the attempt ends in an error.
Fairness ==
  /\ WF_vars(~crashed /\ GuiStep)
  /\ WF_vars(~crashed /\ ReconnectTimerFires)
  /\ WF_vars(~crashed /\ HealthTimerFires)
  /\ WF_vars(~crashed /\ CheckAddresses)
  /\ WF_vars(~crashed /\ ReconnectStep)
  /\ WF_vars(~crashed /\ IoReports)
  /\ WF_vars(~crashed /\ IoQuits)
  /\ WF_vars(~crashed /\ (Encrypted \/ IoFails))
  /\ WF_vars(~crashed /\ (PingEnds \/ PageEnds))
  /\ \A c \in Callers : WF_vars(~crashed /\ CallStep(c))

FairSpec == Spec /\ Fairness
-----------------------------------------------------------------------------
(* Properties                                                                *)

Stages ==
  {NoCall, Made, [stage |-> "checked"], [stage |-> "registered"], [stage |-> "answered"]}
    \cup {Failed(e) : e \in Errors}

\* The variables keep their types; a thread that waits for the ready promise has
\* an io thread that will keep it, and its request is under way only after that.
TypeOK ==
  /\ view \in View
  /\ posted \in Seq(Events)
  /\ worker \in {"idle", "checking", "stopping", "joining", "opening", "asking", "threw"}
  /\ running \in BOOLEAN
  /\ io \in {"none", "connecting", "serving", "failing", "ended"}
  /\ ioError \in Errors
  /\ ready \in {"none", "ok"} \cup Errors
  /\ calls \in [Callers -> Stages]
  /\ worker = "opening" /\ ready = "none" => io = "connecting"
  /\ worker = "asking" <=> calls["reconnect"] # NoCall
  /\ reach \in BOOLEAN
  /\ seen \in Nat /\ env \in Nat
  /\ paired \in BOOLEAN
  /\ changes \in 0..MaxChanges
  /\ faults \in 0..MaxFaults
  /\ stale \in BOOLEAN
  /\ crashed \in BOOLEAN
  /\ mute \in BOOLEAN

Outcomes == {"unpaired", "unreachable", "connected", "failed"}

\* reconnect_in_progress_ keeps every other attempt from starting, so it is
\* raised exactly while an attempt is under way: its thread runs, or its
\* outcome is still to be handled, and never both or two of either. No timer
\* for another attempt runs meanwhile.
AttemptAccounted ==
  LET outcomes == {i \in 1..Len(posted) : posted[i].event \in Outcomes} IN
    /\ view.inProgress <=> (worker # "idle" \/ outcomes # {})
    /\ worker # "idle" => outcomes = {}
    /\ \A i, j \in outcomes : i = j
    /\ view.inProgress => ~view.reconnectTimer

\* Nobody is doing anything about the connection, though there is a network,
\* a peer, and no reason to wait for another network.
Left ==
  /\ reach /\ paired /\ ~view.awaiting /\ ~crashed
  /\ posted = <<>> /\ seen = env
  /\ \A c \in Callers : calls[c] = NoCall
  /\ worker = "idle"

\* The client is never left alone without a timer: either one that will connect
\* again, or, while it takes itself for connected, the one of the health check.
\* That holds whatever was lost, stopped and reported in which order, unless an
\* attempt found no network (or no peer) and there was one again when the GUI
\* thread came to hear of it (stale, until the next attempt).
NeverStrandedUnlessStale ==
  Left /\ ~stale =>
    view.reconnectTimer \/ (view.healthTimer /\ view.status = "connected")

\* Once the network, the server and the user leave it in peace, a client that is
\* not waiting for another network ends up connected and stays so, whatever it
\* was in the middle of.
EventuallyConnected ==
  <>[](reach /\ paired /\ ~view.awaiting /\ ~stale /\ ~crashed)
    => <>[](view.status = "connected" /\ running /\ io = "serving")

\* "OneRSS will reconnect when connectivity returns." A client that says so is
\* not left without a timer once there is a network. The code does not keep
\* this: the attempt that found none reports so after the network is back.
ReconnectsWhenBack ==
  Left /\ view.status = "no network" => view.reconnectTimer
=============================================================================
