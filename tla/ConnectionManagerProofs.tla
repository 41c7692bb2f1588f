----------------------- MODULE ConnectionManagerProofs -----------------------
(* Proofs about ConnectionManager, for any number of changes of the network  *)
(* and of faults: types, and that one attempt to connect is under way at a   *)
(* time and its flag is cleared.                                             *)
EXTENDS ConnectionManager, SequenceTheorems, TLAPS

\* The places of the posted events that end an attempt
Awaited(q) == {i \in 1..Len(q) : q[i].event \in Outcomes}

AtMostOne(S) == \A i, j \in S : i = j

\* The flag and the timer exclude each other.
Excluded(v) == v.inProgress => ~v.reconnectTimer

\* AttemptAccounted of any view, thread and queue
Accounted(v, w, q) ==
  /\ v.inProgress <=> (w # "idle" \/ Awaited(q) # {})
  /\ w # "idle" => Awaited(q) = {}
  /\ AtMostOne(Awaited(q))
  /\ Excluded(v)

LEMMA AttemptIsAccounted ==
  AttemptAccounted <=> Accounted(view, worker, posted)
  BY DEF AttemptAccounted, Accounted, Awaited, AtMostOne, Excluded

-----------------------------------------------------------------------------
(* The queue of posted events                                                *)

LEMMA PostedOther ==
  ASSUME NEW q \in Seq(Events), NEW e \in Events, e.event \notin Outcomes
  PROVE  /\ Append(q, e) \in Seq(Events)
         /\ Awaited(Append(q, e)) = Awaited(q)
  BY DEF Awaited

LEMMA PostedOutcome ==
  ASSUME NEW q \in Seq(Events), NEW e \in Events, e.event \in Outcomes, Awaited(q) = {}
  PROVE  /\ Append(q, e) \in Seq(Events)
         /\ Awaited(Append(q, e)) # {}
         /\ AtMostOne(Awaited(Append(q, e)))
<1>1. Append(q, e) \in Seq(Events) /\ Len(Append(q, e)) = Len(q) + 1 /\ Len(q) \in Nat
  OBVIOUS
<1>2. Append(q, e)[Len(q) + 1] = e /\ \A i \in 1..Len(q) : Append(q, e)[i] = q[i]
  OBVIOUS
<1>3. Awaited(Append(q, e)) = {Len(q) + 1}
  BY <1>1, <1>2 DEF Awaited
<1> QED
  BY <1>1, <1>3 DEF AtMostOne

LEMMA HandledOther ==
  ASSUME NEW q \in Seq(Events), q # <<>>, Head(q).event \notin Outcomes
  PROVE  /\ Tail(q) \in Seq(Events)
         /\ Awaited(Tail(q)) = {} <=> Awaited(q) = {}
         /\ AtMostOne(Awaited(q)) => AtMostOne(Awaited(Tail(q)))
<1>1. Len(q) \in Nat /\ Len(q) > 0 /\ Head(q) = q[1]
  OBVIOUS
<1>2. /\ Tail(q) \in Seq(Events) /\ Len(Tail(q)) = Len(q) - 1
      /\ \A i \in 1..Len(Tail(q)) : Tail(q)[i] = q[i + 1]
  BY HeadTailProperties
<1>3. \A i \in 1..(Len(q) - 1) : i \in Awaited(Tail(q)) <=> i + 1 \in Awaited(q)
  BY <1>1, <1>2 DEF Awaited
<1>4. \A j \in Awaited(q) : j \in 2..Len(q)
  BY <1>1 DEF Awaited
<1>5. Awaited(Tail(q)) \subseteq 1..(Len(q) - 1)
  BY <1>1, <1>2 DEF Awaited
<1>6. Awaited(Tail(q)) = {} <=> Awaited(q) = {}
  <2>1. ASSUME NEW j \in Awaited(q) PROVE j - 1 \in Awaited(Tail(q))
    BY <1>1, <1>3, <1>4
  <2>2. ASSUME NEW i \in Awaited(Tail(q)) PROVE i + 1 \in Awaited(q)
    BY <1>3, <1>5
  <2> QED
    BY <2>1, <2>2
<1>7. ASSUME AtMostOne(Awaited(q)), NEW i \in Awaited(Tail(q)), NEW j \in Awaited(Tail(q))
      PROVE  i = j
  <2>1. i \in 1..(Len(q) - 1) /\ j \in 1..(Len(q) - 1)
    BY <1>5
  <2>2. i + 1 \in Awaited(q) /\ j + 1 \in Awaited(q)
    BY <1>3, <2>1
  <2>3. i + 1 = j + 1
    BY <1>7, <2>2 DEF AtMostOne
  <2> QED
    BY <1>1, <2>1, <2>3
<1> QED
  BY <1>2, <1>6, <1>7 DEF AtMostOne

LEMMA HandledOutcome ==
  ASSUME NEW q \in Seq(Events), q # <<>>, Head(q).event \in Outcomes, AtMostOne(Awaited(q))
  PROVE  /\ Tail(q) \in Seq(Events)
         /\ Awaited(q) # {}
         /\ Awaited(Tail(q)) = {}
<1>1. Len(q) \in Nat /\ Len(q) > 0 /\ Head(q) = q[1]
  OBVIOUS
<1>2. /\ Tail(q) \in Seq(Events) /\ Len(Tail(q)) = Len(q) - 1
      /\ \A i \in 1..Len(Tail(q)) : Tail(q)[i] = q[i + 1]
  BY HeadTailProperties
<1>3. 1 \in Awaited(q)
  BY <1>1 DEF Awaited
<1>4. ASSUME NEW i \in Awaited(Tail(q)) PROVE FALSE
  <2>1. i \in 1..(Len(q) - 1) /\ i + 1 \in Awaited(q)
    BY <1>1, <1>2 DEF Awaited
  <2>2. i + 1 = 1
    BY <1>3, <2>1 DEF AtMostOne
  <2> QED
    BY <1>1, <2>1, <2>2
<1> QED
  BY <1>2, <1>3, <1>4

LEMMA LastWordsAreOther ==
  ASSUME NEW q \in Seq(Events), ioError \in Errors
  PROVE  /\ q \o LastWords \in Seq(Events)
         /\ Awaited(q \o LastWords) = Awaited(q)
<1>1. CASE io = "failing"
  <2> DEFINE e == [event |-> "lost", error |-> ioError]
  <2>1. e \in Events /\ e.event \notin Outcomes
    BY DEF Events, Outcomes
  <2>2. LastWords = <<e>>
    BY <1>1 DEF LastWords
  <2>3. q \o <<e>> = Append(q, e)
    BY <2>1, AppendIsConcat
  <2> QED
    BY <2>1, <2>2, <2>3, PostedOther
<1>2. CASE io # "failing"
  <2>1. LastWords = <<>>
    BY <1>2 DEF LastWords
  <2> QED
    BY <2>1, ConcatEmptySeq
<1> QED
  BY <1>1, <1>2

-----------------------------------------------------------------------------
(* What the handlers do to the view                                          *)

\* u is a view that has the flag that v has.
Alike(u, v) == u \in View /\ Excluded(u) /\ u.inProgress = v.inProgress

LEMMA ScheduledAlike ==
  ASSUME NEW v \in View, Excluded(v), NEW r
  PROVE  Alike(Scheduled(v, r), v)
  BY DEF View, Excluded, Scheduled, Alike

LEMMA NetworkLostAlike ==
  ASSUME NEW v \in View, Excluded(v)
  PROVE  Alike(NetworkLost(v), v)
  BY DEF View, Excluded, NetworkLost, Alike

LEMMA DeferredAlike ==
  ASSUME NEW v \in View, Excluded(v)
  PROVE  Alike(Deferred(v), v)
  BY DEF View, Excluded, Deferred, Alike

LEMMA MovedAlike ==
  ASSUME NEW v \in View, Excluded(v), NEW r
  PROVE  Alike(Moved(v, r), v)
<1> DEFINE cut == v.status = "connected"
           u   == [v EXCEPT !.awaiting = FALSE, !.reconnectTimer = FALSE,
                            !.healthTimer = @ /\ ~cut,
                            !.status = IF cut THEN "disconnected" ELSE @]
<1>1. u \in View /\ Excluded(u) /\ u.inProgress = v.inProgress
  BY DEF View, Excluded
<1>2. Moved(v, r) = IF ~r THEN NetworkLost(v) ELSE Scheduled(u, r)
  BY DEF Moved
<1> HIDE DEF u
<1> QED
  BY <1>1, <1>2, NetworkLostAlike, ScheduledAlike DEF Alike

LEMMA BackAlike ==
  ASSUME NEW v \in View, Excluded(v)
  PROVE  Alike(Back(v), v)
  BY ScheduledAlike DEF Back, Alike

LEMMA AfterFailureAlike ==
  ASSUME NEW v \in View, Excluded(v), NEW e
  PROVE  Alike(AfterFailure(v, e), v)
  BY ScheduledAlike, NetworkLostAlike, DeferredAlike DEF AfterFailure

-----------------------------------------------------------------------------
(* Types                                                                     *)

Typed(v, q) == v \in View /\ q \in Seq(Events)

\* Everything in TypeOK but the view and the queue
RestOK ==
  /\ worker \in {"idle", "checking", "stopping", "joining", "opening", "asking", "threw"}
  /\ running \in BOOLEAN
  /\ io \in {"none", "connecting", "serving", "failing", "ended"}
  /\ ioError \in Errors
  /\ ready \in {"none", "ok"} \cup Errors
  /\ calls \in [Callers -> Stages]
  /\ worker = "opening" /\ ready = "none" => io = "connecting"
  /\ worker = "asking" <=> calls["reconnect"] # NoCall
  /\ reach \in BOOLEAN
  /\ seen \in Nat /\ env \in Nat
  /\ paired \in BOOLEAN
  /\ changes \in 0..MaxChanges
  /\ faults \in 0..MaxFaults
  /\ stale \in BOOLEAN
  /\ crashed \in BOOLEAN
  /\ mute \in BOOLEAN

LEMMA TypeParts == TypeOK <=> Typed(view, posted) /\ RestOK
  BY DEF TypeOK, Typed, RestOK

\* A change of the calls that leaves the stages of reconnect()'s alone
KeepsReconnect(new) ==
  new \in [Callers -> Stages] /\ (new["reconnect"] = NoCall <=> calls["reconnect"] = NoCall)

LEMMA FailingKeeps ==
  ASSUME calls \in [Callers -> Stages], NEW e \in Errors
  PROVE  KeepsReconnect(Failing(e))
  BY DEF KeepsReconnect, Failing, Failed, NoCall, Stages, Callers

LEMMA OneCallKeeps ==
  ASSUME calls \in [Callers -> Stages], NEW c \in Callers, NEW s \in Stages,
         c = "reconnect" => s # NoCall /\ calls[c] # NoCall
  PROVE  KeepsReconnect([calls EXCEPT ![c] = s])
  BY DEF KeepsReconnect, Callers

LEMMA StagesAre ==
  /\ NoCall \in Stages /\ Made \in Stages /\ Made # NoCall
  /\ \A s \in {"checked", "registered", "answered"} :
       [stage |-> s] \in Stages /\ [stage |-> s] # NoCall
  /\ \A e \in Errors : Failed(e) \in Stages /\ Failed(e) # NoCall
  BY DEF Stages, NoCall, Made, Failed

\* stop() on the GUI thread
LEMMA StopClientTyped ==
  ASSUME RestOK, StopClient
  PROVE  /\ worker' \in {"idle", "checking", "stopping", "joining", "opening", "asking", "threw"}
         /\ running' \in BOOLEAN /\ io' = "none" /\ ioError' \in Errors
         /\ ready' \in {"none", "ok"} \cup Errors
         /\ calls' \in [Callers -> Stages]
         /\ worker' = "opening" => ready' # "none"
         /\ worker' = "asking" <=> calls'["reconnect"] # NoCall
         /\ crashed' \in BOOLEAN
         /\ worker' = worker \/ (worker # "idle" /\ worker' # "idle")
<1>1. "other" \in Errors
  BY DEF Errors
<1>2. KeepsReconnect(calls')
  BY <1>1, FailingKeeps DEF StopClient, RestOK, KeepsReconnect
<1>3. /\ worker' = worker \/ (worker \in {"stopping", "joining"} /\ worker' = "threw")
      /\ crashed' \in BOOLEAN
  BY DEF StopClient, RestOK
<1>4. worker' = "opening" => ready' # "none"
  BY <1>3 DEF StopClient, PromiseKept, RestOK
<1>5. worker' = "asking" <=> worker = "asking"
  BY <1>3
<1> QED
  BY <1>2, <1>3, <1>4, <1>5 DEF StopClient, PromiseKept, RestOK, KeepsReconnect

-----------------------------------------------------------------------------
(* View, thread and queue together                                           *)

Sound(v, w, q) == Typed(v, q) /\ Accounted(v, w, q)

\* w is the same thread, or both are under way.
SameThread(u, w) == u = w \/ (u # "idle" /\ w # "idle")

\* The queue becomes another one that ends as many attempts.
LEMMA SoundOther ==
  ASSUME NEW v, NEW w, NEW q, Sound(v, w, q),
         NEW u, Alike(u, v), NEW x, SameThread(x, w), NEW r \in Seq(Events),
         Awaited(r) = {} <=> Awaited(q) = {},
         AtMostOne(Awaited(q)) => AtMostOne(Awaited(r))
  PROVE  Sound(u, x, r)
  BY DEF Sound, Typed, Accounted, Alike, SameThread

LEMMA SoundSame ==
  ASSUME NEW v, NEW w, NEW q, Sound(v, w, q),
         NEW u, Alike(u, v), NEW x, SameThread(x, w), NEW r \in Seq(Events),
         Awaited(r) = Awaited(q)
  PROVE  Sound(u, x, r)
  BY SoundOther

\* The event that ends the attempt is handled, its thread has ended before.
LEMMA SoundOver ==
  ASSUME NEW v, NEW w, NEW q, Sound(v, w, q), q # <<>>, Head(q).event \in Outcomes,
         NEW u \in View, Excluded(u), ~u.inProgress, NEW x, SameThread(x, w),
         NEW r \in Seq(Events), Awaited(r) = Awaited(Tail(q))
  PROVE  Sound(u, x, r)
<1>1. Awaited(q) # {} /\ Awaited(Tail(q)) = {}
  BY HandledOutcome DEF Sound, Typed, Accounted
<1>2. w = "idle" /\ x = "idle"
  BY <1>1 DEF Sound, Accounted, SameThread
<1> QED
  BY <1>1, <1>2 DEF Sound, Typed, Accounted, AtMostOne

\* An attempt begins when none is under way.
LEMMA SoundBegun ==
  ASSUME NEW v, NEW w, NEW q, Sound(v, w, q), ~v.inProgress
  PROVE  Sound([v EXCEPT !.inProgress = TRUE, !.reconnectTimer = FALSE], "checking", q)
<1> DEFINE u == [v EXCEPT !.inProgress = TRUE, !.reconnectTimer = FALSE]
<1>1. u \in View /\ u.inProgress /\ ~u.reconnectTimer
  BY DEF Sound, Typed, View
<1> HIDE DEF u
<1>2. Awaited(q) = {} /\ AtMostOne(Awaited(q))
  BY DEF Sound, Accounted
<1>3. Sound(u, "checking", q)
  BY <1>1, <1>2 DEF Sound, Typed, Accounted, Excluded
<1> QED
  BY <1>3 DEF u

LEMMA AlikeItself ==
  ASSUME NEW v, NEW w, NEW q, Sound(v, w, q)
  PROVE  Alike(v, v) /\ v \in View /\ Excluded(v) /\ q \in Seq(Events)
  BY DEF Sound, Typed, Accounted, Alike

LEMMA InvariantParts ==
  TypeOK /\ AttemptAccounted <=> RestOK /\ Sound(view, worker, posted)
  BY TypeParts, AttemptIsAccounted DEF Sound

-----------------------------------------------------------------------------
(* The GUI thread                                                            *)

\* What a handler of an event does when it leaves the client alone, and when it
\* calls stop(): the queue loses the event, and may get the last words of the io
\* thread, which end no attempt.
LEMMA LeavesSame ==
  ASSUME Sound(view, worker, posted), posted # <<>>, Head(posted).event \notin Outcomes,
         NEW v, Alike(v, view), Leaves(v)
  PROVE  Sound(view', worker', posted')
  BY SoundOther, HandledOther, AlikeItself DEF Leaves, SameThread

LEMMA LeavesOver ==
  ASSUME Sound(view, worker, posted), posted # <<>>, Head(posted).event \in Outcomes,
         NEW v \in View, Excluded(v), ~v.inProgress, Leaves(v)
  PROVE  Sound(view', worker', posted')
  BY SoundOver, HandledOutcome, AlikeItself DEF Leaves, SameThread, Sound, Accounted

LEMMA StopsSame ==
  ASSUME RestOK, Sound(view, worker, posted), posted # <<>>,
         Head(posted).event \notin Outcomes, NEW v, Alike(v, view), Stops(v)
  PROVE  Sound(view', worker', posted')
<1>1. Tail(posted) \in Seq(Events) /\ ioError \in Errors
  BY HandledOther, AlikeItself DEF RestOK
<1>2. posted' \in Seq(Events) /\ Awaited(posted') = Awaited(Tail(posted))
  BY <1>1, LastWordsAreOther DEF Stops
<1>3. SameThread(worker', worker)
  BY StopClientTyped DEF Stops, SameThread
<1>4. view' = v
  BY DEF Stops
<1> QED
  BY <1>2, <1>3, <1>4, SoundOther, HandledOther, AlikeItself

LEMMA StopsOver ==
  ASSUME RestOK, Sound(view, worker, posted), posted # <<>>,
         Head(posted).event \in Outcomes, NEW v \in View, Excluded(v), ~v.inProgress, Stops(v)
  PROVE  Sound(view', worker', posted')
<1>1. Tail(posted) \in Seq(Events) /\ ioError \in Errors
  BY HandledOutcome, AlikeItself DEF RestOK, Sound, Accounted
<1>2. posted' \in Seq(Events) /\ Awaited(posted') = Awaited(Tail(posted))
  BY <1>1, LastWordsAreOther DEF Stops
<1>3. SameThread(worker', worker)
  BY StopClientTyped DEF Stops, SameThread
<1>4. view' = v
  BY DEF Stops
<1> QED
  BY <1>2, <1>3, <1>4, SoundOver

\* stop() without an event
LEMMA StoppedSame ==
  ASSUME RestOK, Sound(view, worker, posted), Alike(view', view), StopClient,
         posted' = posted \o LastWords
  PROVE  Sound(view', worker', posted')
<1>1. posted \in Seq(Events) /\ ioError \in Errors
  BY AlikeItself DEF RestOK
<1>2. posted' \in Seq(Events) /\ Awaited(posted') = Awaited(posted)
  BY <1>1, LastWordsAreOther
<1>3. SameThread(worker', worker)
  BY StopClientTyped DEF SameThread
<1> QED
  BY <1>2, <1>3, SoundSame

LEMMA ReconnectSound ==
  ASSUME Sound(view, worker, posted), NEW v, Alike(v, view), Reconnect(v), posted' = posted
  PROVE  Sound(view', worker', posted')
<1>1. Sound(v, worker, posted)
  BY SoundSame, AlikeItself DEF SameThread
<1>2. CASE v.inProgress
  BY <1>1, <1>2 DEF Reconnect
<1>3. CASE ~v.inProgress
  BY <1>1, <1>3, SoundBegun DEF Reconnect
<1> QED
  BY <1>2, <1>3

LEMMA EventsHandled ==
  ASSUME RestOK, Sound(view, worker, posted), GuiStep
  PROVE  Sound(view', worker', posted')
<1>1. view \in View /\ Excluded(view) /\ posted \in Seq(Events)
  BY AlikeItself
<1>2. ASSUME NEW v \in View, ~v.inProgress
      PROVE  Excluded(v)
  BY <1>2 DEF Excluded
<1>3. CASE HandleConnecting
  <2> DEFINE v == [view EXCEPT !.status = "connecting"]
  <2>1. Alike(v, view)
    BY <1>1 DEF Alike, View, Excluded
  <2> QED
    BY <1>3, <2>1, LeavesSame DEF HandleConnecting, Arrives, Outcomes
<1>4. CASE HandleUnpaired
  <2> DEFINE v == [view EXCEPT !.inProgress = FALSE, !.healthTimer = FALSE, !.status = "no device"]
  <2>1. v \in View /\ ~v.inProgress
    BY <1>1 DEF View
  <2> QED
    BY <1>2, <1>4, <2>1, LeavesOver DEF HandleUnpaired, Arrives, Outcomes
<1>5. CASE HandleUnreachable
  <2> DEFINE u == [view EXCEPT !.inProgress = FALSE]
             v == NetworkLost(u)
  <2>1. u \in View /\ ~u.inProgress
    BY <1>1 DEF View
  <2>2. Alike(v, u)
    BY <1>2, <2>1, NetworkLostAlike
  <2> QED
    BY <1>2, <1>5, <2>1, <2>2, StopsOver DEF HandleUnreachable, Arrives, Outcomes, Alike
<1>6. CASE HandleConnected
  <2> DEFINE v == [view EXCEPT !.inProgress = FALSE, !.awaiting = FALSE, !.healthTimer = TRUE,
                               !.status = "connected"]
  <2>1. v \in View /\ ~v.inProgress
    BY <1>1 DEF View
  <2>2. /\ posted # <<>> /\ Head(posted).event \in Outcomes /\ posted' = Tail(posted)
        /\ worker' = worker /\ view' = v
    BY <1>6 DEF HandleConnected, Arrives, Outcomes
  <2>3. Tail(posted) \in Seq(Events)
    BY <1>1, <2>2, HandledOutcome DEF Sound, Accounted
  <2> HIDE DEF v
  <2> QED
    BY <1>2, <2>1, <2>2, <2>3, SoundOver DEF SameThread
<1>7. CASE HandleFailed
  <2> DEFINE u == Over(view)
             v == AfterFailure(u, Head(posted).error)
  <2>1. u \in View /\ ~u.inProgress
    BY <1>1 DEF View, Over
  <2>2. Alike(v, u)
    BY <1>2, <2>1, AfterFailureAlike
  <2>3. posted # <<>> /\ Head(posted).event \in Outcomes /\ (Leaves(v) \/ Stops(v))
    BY <1>7 DEF HandleFailed, Arrives, Outcomes
  <2> HIDE DEF v
  <2> QED
    BY <1>2, <2>1, <2>2, <2>3, LeavesOver, StopsOver DEF Alike
<1>8. CASE HandleLost
  <2> DEFINE u == [view EXCEPT !.status = "disconnected"]
             v == AfterFailure(u, Head(posted).error)
  <2>1. u \in View /\ Excluded(u) /\ u.inProgress = view.inProgress
    BY <1>1 DEF View, Excluded
  <2>2. Alike(v, view)
    BY <2>1, AfterFailureAlike DEF Alike
  <2>3. posted # <<>> /\ Head(posted).event \notin Outcomes /\ (Leaves(v) \/ Stops(v))
    BY <1>8 DEF HandleLost, Arrives, Outcomes
  <2> HIDE DEF v
  <2> QED
    BY <2>2, <2>3, LeavesSame, StopsSame
<1>9. CASE HandleUnhealthy
  <2> DEFINE u == [view EXCEPT !.status = "disconnected"]
             v == AfterFailure(u, Head(posted).error)
  <2>1. u \in View /\ Excluded(u) /\ u.inProgress = view.inProgress
    BY <1>1 DEF View, Excluded
  <2>2. Alike(v, view)
    BY <2>1, AfterFailureAlike DEF Alike
  <2> QED
    BY <1>9, <2>2, StopsSame DEF HandleUnhealthy, Arrives, Outcomes
<1>10. CASE HandlePage
  <2> DEFINE u == [view EXCEPT !.status = "disconnected"]
             v == Scheduled(u, reach)
  <2>1. u \in View /\ Excluded(u) /\ u.inProgress = view.inProgress
    BY <1>1 DEF View, Excluded
  <2>2. Alike(v, view)
    BY <2>1, ScheduledAlike DEF Alike
  <2> QED
    BY <1>10, <2>2, LeavesSame DEF HandlePage, Arrives, Outcomes
<1> QED
  BY <1>3, <1>4, <1>5, <1>6, <1>7, <1>8, <1>9, <1>10 DEF GuiStep

LEMMA TimersAndUserSound ==
  ASSUME RestOK, Sound(view, worker, posted),
         ReconnectTimerFires \/ HealthTimerFires \/ CheckAddresses \/ AddressesChange
           \/ ReachabilityChanges \/ Pair \/ LoadPage
  PROVE  Sound(view', worker', posted')
<1>1. Alike(view, view) /\ view \in View /\ Excluded(view) /\ posted \in Seq(Events)
  BY AlikeItself
<1>2. ASSUME Alike(view', view), worker' = worker, posted' = posted
      PROVE  Sound(view', worker', posted')
  BY <1>1, <1>2, SoundSame DEF SameThread
<1>3. CASE ReconnectTimerFires
  <2> DEFINE v == [view EXCEPT !.reconnectTimer = FALSE]
  <2>1. Alike(v, view)
    BY <1>1 DEF Alike, View, Excluded
  <2>2. Reconnect(v) /\ posted' = posted
    BY <1>3 DEF ReconnectTimerFires
  <2> HIDE DEF v
  <2> QED
    BY <2>1, <2>2, ReconnectSound
<1>4. CASE HealthTimerFires
  <2>1. CASE reach
    BY <1>1, <1>2, <1>4, <2>1 DEF HealthTimerFires, gui
  <2>2. CASE ~reach
    BY <1>1, <1>4, <2>2, NetworkLostAlike, StoppedSame DEF HealthTimerFires
  <2> QED
    BY <2>1, <2>2
<1>5. CASE CheckAddresses
  <2>1. Alike(view', view)
    BY <1>1, <1>5, MovedAlike DEF CheckAddresses
  <2>2. (posted' = posted /\ worker' = worker) \/ (posted' = posted \o LastWords /\ StopClient)
    BY <1>5 DEF CheckAddresses
  <2> QED
    BY <1>2, <2>1, <2>2, StoppedSame
<1>6. CASE AddressesChange
  BY <1>1, <1>2, <1>6 DEF AddressesChange, gui
<1>7. CASE ReachabilityChanges
  <2> DEFINE moved == IF seen = env THEN view ELSE Moved(view, ~reach)
  <2>1. moved \in View /\ Excluded(moved) /\ moved.inProgress = view.inProgress
    BY <1>1, MovedAlike DEF Alike
  <2>2. view' = IF reach THEN NetworkLost(moved) ELSE Back(moved)
    BY <1>7 DEF ReachabilityChanges
  <2>3. (posted' = posted /\ worker' = worker) \/ (posted' = posted \o LastWords /\ StopClient)
    BY <1>7 DEF ReachabilityChanges
  <2> HIDE DEF moved
  <2>4. Alike(view', view)
    BY <2>1, <2>2, NetworkLostAlike, BackAlike DEF Alike
  <2> QED
    BY <1>2, <2>3, <2>4, StoppedSame
<1>8. CASE Pair
  BY <1>1, <1>8, ReconnectSound DEF Pair
<1>9. CASE LoadPage
  BY <1>1, <1>2, <1>9 DEF LoadPage, gui
<1> QED
  BY <1>3, <1>4, <1>5, <1>6, <1>7, <1>8, <1>9

-----------------------------------------------------------------------------
(* The other threads                                                         *)

\* The thread of an attempt posts how it ended, and ends.
LEMMA SoundEnded ==
  ASSUME Sound(view, worker, posted), worker # "idle",
         NEW e \in Events, e.event \in Outcomes
  PROVE  Sound(view, "idle", Append(posted, e))
<1>1. Awaited(posted) = {} /\ view.inProgress
  BY DEF Sound, Accounted
<1>2. posted \in Seq(Events)
  BY AlikeItself
<1>3. /\ Append(posted, e) \in Seq(Events) /\ Awaited(Append(posted, e)) # {}
      /\ AtMostOne(Awaited(Append(posted, e)))
  BY <1>1, <1>2, PostedOutcome
<1> QED
  BY <1>1, <1>3 DEF Sound, Typed, Accounted

\* A thread posts something else, or nothing.
LEMMA SoundPosted ==
  ASSUME Sound(view, worker, posted), view' = view, SameThread(worker', worker),
         posted' = posted \/ \E e \in Events : e.event \notin Outcomes /\ posted' = Append(posted, e)
  PROVE  Sound(view', worker', posted')
<1>1. Alike(view, view) /\ posted \in Seq(Events)
  BY AlikeItself
<1>2. posted' \in Seq(Events) /\ Awaited(posted') = Awaited(posted)
  BY <1>1, PostedOther
<1> QED
  BY <1>1, <1>2, SoundSame

LEMMA EventsAre ==
  /\ \A k \in {"connecting", "unpaired", "unreachable", "connected", "page"} :
       [event |-> k] \in Events
  /\ \A k \in {"failed", "lost", "unhealthy"}, e \in Errors :
       [event |-> k, error |-> e] \in Events
  BY DEF Events

LEMMA ReconnectStepSound ==
  ASSUME RestOK, Sound(view, worker, posted), ReconnectStep
  PROVE  Sound(view', worker', posted')
<1>1. CASE CheckNetwork
  <2>1. worker = "checking" /\ view' = view
    BY <1>1 DEF CheckNetwork
  <2>2. CASE paired /\ reach
    <3>1. worker' = "stopping" /\ posted' = Append(posted, [event |-> "connecting"])
      BY <1>1, <2>2 DEF CheckNetwork
    <3> QED
      BY <2>1, <3>1, EventsAre, SoundPosted DEF SameThread, Outcomes
  <2>3. CASE ~(paired /\ reach)
    <3>1. worker' = "idle" /\ \E k \in {"unreachable", "unpaired"} :
            posted' = Append(posted, [event |-> k])
      BY <1>1, <2>3 DEF CheckNetwork
    <3> QED
      BY <2>1, <3>1, EventsAre, SoundEnded DEF Outcomes
  <2> QED
    BY <2>2, <2>3
<1>2. CASE StopOld
  BY <1>2, SoundPosted DEF StopOld, gui, SameThread
<1>3. CASE StartNew
  BY <1>3, SoundPosted DEF StartNew, gui, SameThread
<1>4. CASE AskServer
  BY <1>4, SoundPosted DEF AskServer, gui, SameThread
<1>5. CASE PostOutcome
  <2>1. worker # "idle" /\ worker' = "idle" /\ view' = view
    BY <1>5 DEF PostOutcome
  <2>2. ASSUME calls["reconnect"].stage = "failed"
        PROVE  calls["reconnect"].error \in Errors
    BY <2>2 DEF RestOK, Stages, NoCall, Made, Failed, Callers
  <2>3. \/ \E e \in Errors : posted' = Append(posted, [event |-> "failed", error |-> e])
        \/ posted' = Append(posted, [event |-> "connected"])
    BY <1>5, <2>2 DEF PostOutcome, Errors
  <2> QED
    BY <2>1, <2>3, EventsAre, SoundEnded DEF Outcomes
<1> QED
  BY <1>1, <1>2, <1>3, <1>4, <1>5 DEF ReconnectStep

LEMMA OthersSound ==
  ASSUME RestOK, Sound(view, worker, posted),
         IoStep \/ PingEnds \/ PageEnds \/ AnswerTooLarge \/ \E c \in Callers : CallStep(c)
  PROVE  Sound(view', worker', posted')
<1>1. CASE Encrypted \/ IoFails \/ IoQuits \/ AnswerTooLarge
  BY <1>1, SoundPosted DEF Encrypted, IoFails, IoQuits, AnswerTooLarge, gui, SameThread
<1>2. CASE IoReports
  BY <1>2, EventsAre, SoundPosted DEF IoReports, SameThread, Outcomes, RestOK
<1>3. CASE PingEnds
  <2>1. ASSUME calls["ping"].stage = "failed"
        PROVE  calls["ping"].error \in Errors
    BY <2>1 DEF RestOK, Stages, NoCall, Made, Failed, Callers
  <2>2. posted' = posted \/ \E e \in Errors :
          posted' = Append(posted, [event |-> "unhealthy", error |-> e])
    BY <1>3, <2>1 DEF PingEnds
  <2>3. view' = view /\ worker' = worker
    BY <1>3 DEF PingEnds
  <2> QED
    BY <2>2, <2>3, EventsAre, SoundPosted DEF SameThread, Outcomes
<1>4. CASE PageEnds
  BY <1>4, EventsAre, SoundPosted DEF PageEnds, SameThread, Outcomes
<1>5. ASSUME NEW c \in Callers, CallStep(c)
      PROVE  view' = view /\ worker' = worker /\ posted' = posted
  BY <1>5 DEF CallStep, CheckRunning, Register, Answer, TimeOut, gui
<1> QED
  BY <1>1, <1>2, <1>3, <1>4, <1>5, SoundPosted DEF IoStep, SameThread

-----------------------------------------------------------------------------
(* The types of all but the view and the queue                               *)

\* The thread of reconnect() and its promise are left alone.
LEMMA RestKept ==
  ASSUME RestOK, worker' = worker, KeepsReconnect(calls'),
         running' \in BOOLEAN, ioError' \in Errors,
         io' \in {"none", "connecting", "serving", "failing", "ended"},
         ready' \in {"none", "ok"} \cup Errors,
         ready' = "none" => ready = "none" /\ (io = "connecting" => io' = "connecting"),
         reach' \in BOOLEAN, seen' \in Nat, env' \in Nat, paired' \in BOOLEAN,
         changes' \in 0..MaxChanges, faults' \in 0..MaxFaults,
         stale' \in BOOLEAN, crashed' \in BOOLEAN, mute' \in BOOLEAN
  PROVE  RestOK'
  BY DEF RestOK, KeepsReconnect

\* The handler leaves all but the view, the queue, the history and some other
\* request alone.
LEMMA RestUntouched ==
  ASSUME RestOK, UNCHANGED <<worker, running, io, ioError, ready, mute, network, paired, crashed>>,
         KeepsReconnect(calls'), stale' \in BOOLEAN, faults' \in 0..MaxFaults
  PROVE  RestOK'
  BY RestKept DEF RestOK, network

LEMMA CallsKept ==
  ASSUME RestOK, calls' = calls
  PROVE  KeepsReconnect(calls')
  BY DEF RestOK, KeepsReconnect

\* stop() on the GUI thread
LEMMA RestStopped ==
  ASSUME RestOK, StopClient,
         reach' \in BOOLEAN, seen' \in Nat, env' \in Nat, paired' = paired,
         changes' \in 0..MaxChanges, faults' = faults, stale' \in BOOLEAN, mute' = mute
  PROVE  RestOK'
<1>1. /\ worker' \in {"idle", "checking", "stopping", "joining", "opening", "asking", "threw"}
      /\ running' \in BOOLEAN /\ io' = "none" /\ ioError' \in Errors
      /\ ready' \in {"none", "ok"} \cup Errors
      /\ calls' \in [Callers -> Stages]
      /\ worker' = "opening" => ready' # "none"
      /\ worker' = "asking" <=> calls'["reconnect"] # NoCall
      /\ crashed' \in BOOLEAN
  BY StopClientTyped
<1> QED
  BY <1>1 DEF RestOK

\* reconnect(): its thread begins only when none is under way.
LEMMA RestReconnect ==
  ASSUME RestOK, Sound(view, worker, posted), NEW v, v.inProgress = view.inProgress, Reconnect(v),
         UNCHANGED <<client, mute, network, crashed>>, paired' \in BOOLEAN,
         faults' \in 0..MaxFaults
  PROVE  RestOK'
<1>1. CASE v.inProgress
  BY <1>1, RestKept, CallsKept DEF RestOK, Reconnect, client, network
<1>2. CASE ~v.inProgress
  <2>1. worker = "idle"
    BY <1>2 DEF Sound, Accounted
  <2>2. worker' = "checking" /\ stale' = FALSE
    BY <1>2 DEF Reconnect
  <2> QED
    BY <2>1, <2>2 DEF RestOK, client, network
<1> QED
  BY <1>1, <1>2

LEMMA EventsTyped ==
  ASSUME RestOK, GuiStep
  PROVE  RestOK'
<1>1. ASSUME NEW v, Leaves(v), stale' \in BOOLEAN, UNCHANGED <<mute, network, paired, faults>>
      PROVE  RestOK'
  BY <1>1, RestUntouched, CallsKept DEF Leaves, client, RestOK
<1>2. ASSUME NEW v, Stops(v), stale' \in BOOLEAN, UNCHANGED <<mute, network, paired, faults>>
      PROVE  RestOK'
  BY <1>2, RestStopped DEF Stops, network, RestOK
<1>3. CASE HandleConnecting \/ HandleUnpaired \/ HandlePage
  <2>1. stale' \in BOOLEAN /\ UNCHANGED <<mute, network, paired, faults>>
    BY <1>3 DEF HandleConnecting, HandleUnpaired, HandlePage, RestOK
  <2>2. \E v : Leaves(v)
    BY <1>3 DEF HandleConnecting, HandleUnpaired, HandlePage
  <2> QED
    BY <1>1, <2>1, <2>2
<1>4. CASE HandleUnreachable \/ HandleUnhealthy
  <2>1. stale' \in BOOLEAN /\ UNCHANGED <<mute, network, paired, faults>>
    BY <1>4 DEF HandleUnreachable, HandleUnhealthy, RestOK
  <2>2. \E v : Stops(v)
    BY <1>4 DEF HandleUnreachable, HandleUnhealthy
  <2> QED
    BY <1>2, <2>1, <2>2
<1>5. CASE HandleFailed \/ HandleLost
  <2>1. stale' \in BOOLEAN /\ UNCHANGED <<mute, network, paired, faults>>
    BY <1>5 DEF HandleFailed, HandleLost, RestOK
  <2>2. \E v : Leaves(v) \/ Stops(v)
    BY <1>5 DEF HandleFailed, HandleLost
  <2> QED
    BY <1>1, <1>2, <2>1, <2>2
<1>6. CASE HandleConnected
  <2>1. \/ calls["page"] = NoCall /\ calls' = [calls EXCEPT !["page"] = Made]
        \/ calls' = [calls EXCEPT !["page"] = calls["page"]]
    BY <1>6 DEF HandleConnected
  <2>2. KeepsReconnect(calls')
    BY <2>1, OneCallKeeps, StagesAre DEF RestOK, Callers
  <2> QED
    BY <1>6, <2>2, RestUntouched DEF HandleConnected, RestOK
<1> QED
  BY <1>3, <1>4, <1>5, <1>6 DEF GuiStep

LEMMA Counting ==
  /\ faults \in 0..MaxFaults /\ faults < MaxFaults => faults + 1 \in 0..MaxFaults
  /\ changes \in 0..MaxChanges /\ changes < MaxChanges => changes + 1 \in 0..MaxChanges
  BY ConstantsOK

LEMMA TimersAndUserTyped ==
  ASSUME RestOK, Sound(view, worker, posted),
         ReconnectTimerFires \/ HealthTimerFires \/ CheckAddresses \/ AddressesChange
           \/ ReachabilityChanges \/ Pair \/ LoadPage
  PROVE  RestOK'
<1>1. ASSUME NEW s \in Callers, calls[s] = NoCall, s # "reconnect",
             calls' = [calls EXCEPT ![s] = Made]
      PROVE  KeepsReconnect(calls')
  BY <1>1, OneCallKeeps, StagesAre DEF RestOK
<1>2. CASE ReconnectTimerFires
  <2> DEFINE v == [view EXCEPT !.reconnectTimer = FALSE]
  <2>1. v.inProgress = view.inProgress
    BY DEF Sound, Typed, View
  <2>2. Reconnect(v)
    BY <1>2 DEF ReconnectTimerFires
  <2> HIDE DEF v
  <2> QED
    BY <1>2, <2>1, <2>2, RestReconnect DEF ReconnectTimerFires, RestOK
<1>3. CASE HealthTimerFires
  <2>1. CASE reach
    BY <1>1, <1>3, <2>1, RestUntouched DEF HealthTimerFires, gui, Callers, RestOK
  <2>2. CASE ~reach
    BY <1>3, <2>2, RestStopped DEF HealthTimerFires, RestOK, network
  <2> QED
    BY <2>1, <2>2
<1>4. CASE CheckAddresses
  <2>1. CASE reach /\ view.status # "connected"
    BY <1>4, <2>1, RestKept, CallsKept DEF CheckAddresses, RestOK
  <2>2. CASE ~(reach /\ view.status # "connected")
    BY <1>4, <2>2, RestStopped DEF CheckAddresses, RestOK
  <2> QED
    BY <2>1, <2>2
<1>5. CASE AddressesChange
  BY <1>5, Counting, RestKept, CallsKept DEF AddressesChange, gui, client, RestOK
<1>6. CASE ReachabilityChanges
  <2>1. changes' \in 0..MaxChanges
    BY <1>6, Counting DEF ReachabilityChanges, RestOK
  <2>2. \/ StopClient
        \/ UNCHANGED <<worker, running, io, ioError, ready, calls, crashed>>
    BY <1>6 DEF ReachabilityChanges
  <2>3. reach' \in BOOLEAN /\ seen' \in Nat /\ UNCHANGED <<stale, mute, env, paired, faults>>
    BY <1>6 DEF ReachabilityChanges, RestOK
  <2>4. CASE StopClient
    BY <2>1, <2>3, <2>4, RestStopped DEF RestOK
  <2>5. CASE UNCHANGED <<worker, running, io, ioError, ready, calls, crashed>>
    BY <2>1, <2>3, <2>5, RestKept, CallsKept DEF RestOK
  <2> QED
    BY <2>2, <2>4, <2>5
<1>7. CASE Pair
  BY <1>7, Counting, RestReconnect DEF Pair, RestOK
<1>8. CASE LoadPage
  BY <1>1, <1>8, Counting, RestUntouched DEF LoadPage, gui, Callers, RestOK
<1> QED
  BY <1>2, <1>3, <1>4, <1>5, <1>6, <1>7, <1>8

LEMMA ReconnectStepTyped ==
  ASSUME RestOK, ReconnectStep
  PROVE  RestOK'
<1>1. CASE CheckNetwork
  BY <1>1 DEF CheckNetwork, RestOK, client, network
<1>2. CASE StopOld
  <2>1. KeepsReconnect(calls')
    BY <1>2, FailingKeeps, CallsKept DEF StopOld, RestOK, Errors
  <2> QED
    BY <1>2, <2>1 DEF StopOld, RestOK, gui, network, KeepsReconnect
<1>3. CASE StartNew
  BY <1>3 DEF StartNew, RestOK, gui, network
<1>4. CASE AskServer
  <2>1. calls' \in [Callers -> Stages] /\ calls'["reconnect"] # NoCall
    BY <1>4, StagesAre DEF AskServer, RestOK, Callers
  <2> QED
    BY <1>4, <2>1 DEF AskServer, RestOK, gui, network
<1>5. CASE PostOutcome
  <2>1. calls' \in [Callers -> Stages] /\ calls'["reconnect"] = NoCall
    BY <1>5, StagesAre DEF PostOutcome, RestOK, Callers
  <2>2. worker' = "idle"
    BY <1>5 DEF PostOutcome
  <2>3. UNCHANGED <<stale, running, io, ioError, ready, mute, network, paired, faults, crashed>>
    BY <1>5 DEF PostOutcome
  <2> QED
    BY <2>1, <2>2, <2>3 DEF RestOK, network
<1> QED
  BY <1>1, <1>2, <1>3, <1>4, <1>5 DEF ReconnectStep

LEMMA OthersTyped ==
  ASSUME RestOK,
         IoStep \/ PingEnds \/ PageEnds \/ AnswerTooLarge \/ \E c \in Callers : CallStep(c)
  PROVE  RestOK'
<1>1. CASE Encrypted
  BY <1>1, RestKept, CallsKept DEF Encrypted, RestOK, gui, network
<1>2. CASE IoFails
  <2>1. PICK e \in {"route", "other"} :
          /\ calls' = Failing(e) /\ ioError' = e
          /\ ready' = IF io = "connecting" THEN e ELSE ready
    BY <1>2 DEF IoFails
  <2>2. e \in Errors /\ e # "none"
    BY DEF Errors
  <2>3. KeepsReconnect(calls')
    BY <2>1, <2>2, FailingKeeps DEF RestOK
  <2>4. ready' \in {"none", "ok"} \cup Errors /\ (ready' = "none" => ready = "none" /\ io # "connecting")
    BY <2>1, <2>2 DEF RestOK
  <2>5. faults' \in 0..MaxFaults
    BY <1>2, Counting DEF IoFails, RestOK
  <2> QED
    BY <1>2, <2>1, <2>2, <2>3, <2>4, <2>5, RestKept DEF IoFails, RestOK, gui, network
<1>3. CASE IoReports \/ IoQuits
  BY <1>3, RestKept, CallsKept DEF IoReports, IoQuits, RestOK, gui, network
<1>4. CASE AnswerTooLarge
  BY <1>4, Counting, RestKept, CallsKept DEF AnswerTooLarge, RestOK, gui, client, network
<1>5. ASSUME NEW c \in {"ping", "page"}, calls' = [calls EXCEPT ![c] = NoCall]
      PROVE  KeepsReconnect(calls')
  BY <1>5, OneCallKeeps, StagesAre DEF RestOK, Callers
<1>6. CASE PingEnds
  BY <1>5, <1>6, RestUntouched DEF PingEnds, RestOK
<1>7. CASE PageEnds
  BY <1>5, <1>7, RestUntouched DEF PageEnds, RestOK
<1>8. ASSUME NEW c \in Callers, CallStep(c)
      PROVE  RestOK'
  <2>1. calls[c] # NoCall
    <3>1. NoCall.stage = "none" /\ NoCall # Made
      BY DEF NoCall, Made
    <3>2. calls[c] = Made \/ calls[c].stage \in {"checked", "registered"}
      BY <1>8 DEF CallStep, CheckRunning, Register, Answer, TimeOut
    <3> QED
      BY <3>1, <3>2
  <2>2. \E s \in Stages : s # NoCall /\ calls' = [calls EXCEPT ![c] = s]
    BY <1>8, StagesAre DEF CallStep, CheckRunning, Register, Answer, TimeOut, Errors
  <2>3. KeepsReconnect(calls')
    BY <2>1, <2>2, OneCallKeeps DEF RestOK
  <2>4. faults' \in 0..MaxFaults
    BY <1>8, Counting DEF CallStep, CheckRunning, Register, Answer, TimeOut, RestOK
  <2>5. /\ UNCHANGED <<worker, running, io, ioError, ready, mute, network, paired, crashed>>
        /\ stale' = stale
    BY <1>8 DEF CallStep, CheckRunning, Register, Answer, TimeOut, gui
  <2> QED
    BY <2>3, <2>4, <2>5, RestUntouched DEF RestOK
<1> QED
  BY <1>1, <1>2, <1>3, <1>4, <1>6, <1>7, <1>8 DEF IoStep

-----------------------------------------------------------------------------
(* The invariant                                                             *)

IInv == TypeOK /\ AttemptAccounted

LEMMA IInvNext ==
  ASSUME RestOK', Sound(view', worker', posted')
  PROVE  IInv'
  BY DEF IInv, RestOK, Sound, Typed, Accounted, Awaited, AtMostOne, Excluded, TypeOK,
         AttemptAccounted

LEMMA InitInv ==
  ASSUME Init
  PROVE  IInv
<1>1. view \in View /\ view.inProgress /\ ~view.reconnectTimer
  BY DEF Init, View
<1>2. posted \in Seq(Events) /\ Awaited(posted) = {}
  BY DEF Init, Awaited
<1>3. Sound(view, worker, posted)
  BY <1>1, <1>2 DEF Init, Sound, Typed, Accounted, AtMostOne, Excluded
<1>4. calls \in [Callers -> Stages] /\ calls["reconnect"] = NoCall
  BY StagesAre DEF Init, Callers
<1>5. RestOK
  <2>1. changes \in 0..MaxChanges /\ faults \in 0..MaxFaults /\ seen \in Nat /\ env \in Nat
    BY ConstantsOK DEF Init
  <2>2. /\ running \in BOOLEAN /\ reach \in BOOLEAN /\ paired \in BOOLEAN
        /\ stale \in BOOLEAN /\ crashed \in BOOLEAN /\ mute \in BOOLEAN
    BY DEF Init
  <2>3. worker = "checking" /\ io = "none" /\ ready = "none" /\ ioError \in Errors
    BY DEF Init, Errors
  <2> QED
    BY <1>4, <2>1, <2>2, <2>3 DEF RestOK
<1> QED
  BY <1>3, <1>5, InvariantParts DEF IInv

LEMMA Invariance ==
  ASSUME IInv, [Next]_vars
  PROVE  IInv'
<1>1. RestOK /\ Sound(view, worker, posted)
  BY InvariantParts DEF IInv
<1>2. CASE GuiStep
  BY <1>1, <1>2, EventsHandled, EventsTyped, IInvNext
<1>3. CASE ReconnectTimerFires \/ HealthTimerFires \/ CheckAddresses \/ AddressesChange
             \/ ReachabilityChanges \/ Pair \/ LoadPage
  BY <1>1, <1>3, TimersAndUserSound, TimersAndUserTyped, IInvNext
<1>4. CASE ReconnectStep
  BY <1>1, <1>4, ReconnectStepSound, ReconnectStepTyped, IInvNext
<1>5. CASE IoStep \/ PingEnds \/ PageEnds \/ AnswerTooLarge \/ \E c \in Callers : CallStep(c)
  BY <1>1, <1>5, OthersSound, OthersTyped, IInvNext
<1>6. CASE UNCHANGED vars
  BY <1>6 DEF vars, gui, client, network, IInv, TypeOK, AttemptAccounted
<1> QED
  BY <1>2, <1>3, <1>4, <1>5, <1>6 DEF Next

LEMMA AlwaysIInv == Spec => []IInv
  BY InitInv, Invariance, PTL DEF Spec

\* The variables keep their types, a thread that waits for the ready promise has
\* an io thread that will keep it, and the requests of reconnect() are under way
\* exactly while its thread is at them, whatever stops or breaks the connection.
THEOREM TypeCorrect == Spec => []TypeOK
  BY AlwaysIInv, PTL DEF IInv

\* reconnect_in_progress_ is raised exactly while an attempt is under way, which
\* is never more than one: its thread runs or its one outcome is posted and not
\* handled. So no second thread is ever started, the flag is cleared after every
\* way an attempt can end, and no timer for another one runs meanwhile. This
\* holds for any number of changes of the network and of faults.
THEOREM OneAttemptAtATime == Spec => []AttemptAccounted
  BY AlwaysIInv, PTL DEF IInv

-----------------------------------------------------------------------------
(* Nobody is left without a timer                                            *)

\* The places of the events that say an attempt goes on
Begun(q) == {i \in 1..Len(q) : q[i].event = "connecting"}

\* Such an event comes before the one that ends the attempt, so when it is
\* handled the attempt is under way.
Announced(v, q) ==
  /\ \A i \in Begun(q), j \in Awaited(q) : i < j
  /\ Begun(q) # {} => v.inProgress

\* Whoever shows a connection checks its health.
Watched(v) == v.status = "connected" => v.healthTimer

\* Something will come of it: an attempt, or another network.
Tended(v) == v.awaiting \/ v.inProgress \/ v.reconnectTimer

Attended(v, s, r, p) == r /\ p /\ ~s => Tended(v) \/ v.status = "connected"

Kept == Announced(view, posted) /\ Watched(view) /\ Attended(view, stale, reach, paired)

\* The queue

LEMMA AnnouncedPosted ==
  ASSUME NEW v, NEW q \in Seq(Events), Announced(v, q), NEW e \in Events,
         e.event \notin Outcomes, e.event # "connecting"
  PROVE  Announced(v, Append(q, e))
<1>1. Awaited(Append(q, e)) = Awaited(q)
  BY PostedOther
<1>2. Begun(Append(q, e)) = Begun(q)
  BY DEF Begun
<1> QED
  BY <1>1, <1>2 DEF Announced

LEMMA AnnouncedOutcome ==
  ASSUME NEW v, NEW q \in Seq(Events), Announced(v, q), NEW e \in Events, e.event \in Outcomes
  PROVE  Announced(v, Append(q, e))
<1>1. Len(q) \in Nat /\ Len(Append(q, e)) = Len(q) + 1
  OBVIOUS
<1>2. Begun(Append(q, e)) = Begun(q)
  BY DEF Begun, Outcomes
<1>3. Begun(q) \subseteq 1..Len(q)
  BY DEF Begun
<1>4. Awaited(Append(q, e)) \subseteq Awaited(q) \cup {Len(q) + 1}
  BY <1>1 DEF Awaited
<1>5. ASSUME NEW i \in Begun(q), NEW j \in Awaited(q) \cup {Len(q) + 1}
      PROVE  i < j
  BY <1>1, <1>3 DEF Announced
<1> QED
  BY <1>2, <1>4, <1>5 DEF Announced

LEMMA AnnouncedBegun ==
  ASSUME NEW v, v.inProgress, NEW q \in Seq(Events), Awaited(q) = {}, NEW e \in Events,
         e.event \notin Outcomes
  PROVE  Announced(v, Append(q, e))
BY PostedOther DEF Announced

LEMMA AnnouncedHandled ==
  ASSUME NEW v, NEW q \in Seq(Events), Announced(v, q), q # <<>>
  PROVE  Announced(v, Tail(q))
<1>1. Len(q) \in Nat /\ Len(q) > 0
  OBVIOUS
<1>2. /\ Len(Tail(q)) = Len(q) - 1
      /\ \A i \in 1..Len(Tail(q)) : Tail(q)[i] = q[i + 1]
  BY HeadTailProperties
<1>3. ASSUME NEW i \in Begun(Tail(q))
      PROVE  i \in Nat /\ i + 1 \in Begun(q)
  BY <1>1, <1>2 DEF Begun
<1>4. ASSUME NEW j \in Awaited(Tail(q))
      PROVE  j \in Nat /\ j + 1 \in Awaited(q)
  BY <1>1, <1>2 DEF Awaited
<1>5. ASSUME NEW i \in Begun(Tail(q)), NEW j \in Awaited(Tail(q))
      PROVE  i < j
  <2>1. i + 1 < j + 1
    BY <1>3, <1>4 DEF Announced
  <2> QED
    BY <1>3, <1>4, <2>1
<1> QED
  BY <1>3, <1>5 DEF Announced

\* Once the end of the attempt is handled there is nothing left of it.
LEMMA AnnouncedOver ==
  ASSUME NEW v, NEW q \in Seq(Events), Announced(v, q), q # <<>>, Head(q).event \in Outcomes,
         NEW u
  PROVE  Announced(u, Tail(q))
<1>1. Len(q) \in Nat /\ Len(q) > 0 /\ Head(q) = q[1]
  OBVIOUS
<1>2. /\ Len(Tail(q)) = Len(q) - 1
      /\ \A i \in 1..Len(Tail(q)) : Tail(q)[i] = q[i + 1]
  BY HeadTailProperties
<1>3. 1 \in Awaited(q)
  BY <1>1 DEF Awaited
<1>4. ASSUME NEW i \in Begun(Tail(q))
      PROVE  FALSE
  <2>1. i \in Nat /\ i > 0 /\ i + 1 \in Begun(q)
    BY <1>1, <1>2 DEF Begun
  <2>2. i + 1 < 1
    BY <1>3, <2>1 DEF Announced
  <2> QED
    BY <2>1, <2>2
<1> QED
  BY <1>4 DEF Announced

LEMMA AnnouncedLastWords ==
  ASSUME NEW v, NEW q \in Seq(Events), Announced(v, q), ioError \in Errors
  PROVE  Announced(v, q \o LastWords)
<1>1. CASE io = "failing"
  <2> DEFINE e == [event |-> "lost", error |-> ioError]
  <2>1. e \in Events /\ e.event \notin Outcomes /\ e.event # "connecting"
    BY DEF Events, Outcomes
  <2>2. q \o LastWords = Append(q, e)
    BY <1>1, <2>1, AppendIsConcat DEF LastWords
  <2> QED
    BY <2>1, <2>2, AnnouncedPosted
<1>2. CASE io # "failing"
  BY <1>2, ConcatEmptySeq DEF LastWords
<1> QED
  BY <1>1, <1>2

LEMMA AnnouncedAlike ==
  ASSUME NEW v, NEW q, Announced(v, q), NEW u, v.inProgress => u.inProgress
  PROVE  Announced(u, q)
  BY DEF Announced

\* The view

\* u is a view that may follow v when QNetworkInformation says r.
Follows(u, v, r) ==
  Watched(u) /\ u.inProgress = v.inProgress /\ (r => Tended(u) \/ u.status = "connected")

LEMMA ScheduledFollows ==
  ASSUME NEW v \in View, Watched(v), NEW r
  PROVE  Follows(Scheduled(v, r), v, r)
  BY DEF View, Watched, Scheduled, Follows, Tended

LEMMA NetworkLostFollows ==
  ASSUME NEW v \in View
  PROVE  Follows(NetworkLost(v), v, FALSE)
  BY DEF View, Watched, NetworkLost, Follows

LEMMA DeferredFollows ==
  ASSUME NEW v \in View, NEW r
  PROVE  Follows(Deferred(v), v, r)
  BY DEF View, Watched, Deferred, Follows, Tended

LEMMA MovedFollows ==
  ASSUME NEW v \in View, Watched(v), NEW r \in BOOLEAN
  PROVE  Follows(Moved(v, r), v, r)
<1> DEFINE cut == v.status = "connected"
           u   == [v EXCEPT !.awaiting = FALSE, !.reconnectTimer = FALSE,
                            !.healthTimer = @ /\ ~cut,
                            !.status = IF cut THEN "disconnected" ELSE @]
<1>1. u \in View /\ Watched(u) /\ u.inProgress = v.inProgress
  BY DEF View, Watched
<1>2. Moved(v, r) = IF ~r THEN NetworkLost(v) ELSE Scheduled(u, r)
  BY DEF Moved
<1> HIDE DEF u
<1> QED
  BY <1>1, <1>2, NetworkLostFollows, ScheduledFollows DEF Follows

LEMMA BackFollows ==
  ASSUME NEW v \in View, Watched(v)
  PROVE  Follows(Back(v), v, TRUE)
  BY ScheduledFollows DEF Back, Follows, Tended

LEMMA AfterFailureFollows ==
  ASSUME NEW v \in View, Watched(v), NEW e, reach \in BOOLEAN
  PROVE  Follows(AfterFailure(v, e), v, reach)
  BY ScheduledFollows, NetworkLostFollows, DeferredFollows DEF AfterFailure, Follows

-----------------------------------------------------------------------------
(* ... step by step                                                          *)

LEMMA EventsKeep ==
  ASSUME RestOK, Sound(view, worker, posted), Kept, GuiStep
  PROVE  Kept'
<1>1. view \in View /\ posted \in Seq(Events) /\ ioError \in Errors /\ reach \in BOOLEAN
  BY AlikeItself DEF RestOK
<1>2. posted # <<>> /\ reach' = reach /\ paired' = paired
  BY DEF GuiStep, HandleConnecting, HandleUnpaired, HandleUnreachable, HandleConnected,
         HandleFailed, HandleLost, HandleUnhealthy, HandlePage, Arrives, network
<1>3. ASSUME NEW v, Announced(v, Tail(posted)), Leaves(v) \/ Stops(v)
      PROVE  view' = v /\ Announced(view', posted')
  <2>1. Tail(posted) \in Seq(Events)
    BY <1>1, <1>2, HeadTailProperties
  <2> QED
    BY <1>1, <1>3, <2>1, AnnouncedLastWords DEF Leaves, Stops
\* An event that ends no attempt: the view follows the one there was.
<1>4. ASSUME NEW v, v.inProgress = view.inProgress, Watched(v), Leaves(v) \/ Stops(v),
             reach => Tended(v) \/ v.status = "connected"
      PROVE  Kept'
  <2>1. Announced(v, Tail(posted))
    BY <1>1, <1>2, <1>4, AnnouncedAlike, AnnouncedHandled DEF Kept
  <2> QED
    BY <1>2, <1>3, <1>4, <2>1 DEF Kept, Announced, Watched, Attended, Tended, Begun, Awaited
\* One that does
<1>5. ASSUME NEW v, Head(posted).event \in Outcomes, Watched(v), Leaves(v) \/ Stops(v),
             reach /\ paired /\ ~stale' => Tended(v) \/ v.status = "connected"
      PROVE  Kept'
  <2>1. Announced(v, Tail(posted))
    BY <1>1, <1>2, <1>5, AnnouncedOver DEF Kept
  <2> QED
    BY <1>2, <1>3, <1>5, <2>1 DEF Kept, Announced, Watched, Attended, Tended, Begun, Awaited
<1>6. CASE HandleConnecting
  <2> DEFINE v == [view EXCEPT !.status = "connecting"]
  <2>1. view.inProgress
    <3>1. 1 \in Begun(posted)
      BY <1>1, <1>6 DEF Begun, HandleConnecting, Arrives
    <3> QED
      BY <3>1 DEF Kept, Announced
  <2>2. v.inProgress = view.inProgress /\ v.status = "connecting"
    BY <1>1 DEF View
  <2>3. Leaves(v)
    BY <1>6 DEF HandleConnecting
  <2> HIDE DEF v
  <2> QED
    BY <1>4, <2>1, <2>2, <2>3 DEF Watched, Tended
<1>7. CASE HandleUnpaired
  <2> DEFINE v == [view EXCEPT !.inProgress = FALSE, !.healthTimer = FALSE, !.status = "no device"]
  <2>1. v.status = "no device"
    BY <1>1 DEF View
  <2>2. Leaves(v) /\ stale' = paired /\ Head(posted).event \in Outcomes
    BY <1>7 DEF HandleUnpaired, Arrives, Outcomes
  <2> HIDE DEF v
  <2> QED
    BY <1>5, <2>1, <2>2 DEF Watched
<1>8. CASE HandleUnreachable
  <2> DEFINE u == [view EXCEPT !.inProgress = FALSE]
             v == NetworkLost(u)
  <2>1. Watched(v)
    BY <1>1, NetworkLostFollows DEF View, Follows
  <2>2. Stops(v) /\ stale' = reach /\ Head(posted).event \in Outcomes
    BY <1>8 DEF HandleUnreachable, Arrives, Outcomes
  <2> HIDE DEF v
  <2> QED
    BY <1>5, <2>1, <2>2
<1>9. CASE HandleConnected
  <2> DEFINE v == [view EXCEPT !.inProgress = FALSE, !.awaiting = FALSE, !.healthTimer = TRUE,
                               !.status = "connected"]
  <2>1. v.status = "connected" /\ v.healthTimer
    BY <1>1 DEF View
  <2>2. view' = v /\ posted' = Tail(posted) /\ Head(posted).event \in Outcomes
    BY <1>9 DEF HandleConnected, Arrives, Outcomes
  <2>3. Announced(v, Tail(posted))
    BY <1>1, <1>2, <2>2, AnnouncedOver DEF Kept
  <2> HIDE DEF v
  <2> QED
    BY <2>1, <2>2, <2>3 DEF Kept, Announced, Watched, Attended, Begun, Awaited
<1>10. CASE HandleFailed
  <2> DEFINE u == Over(view)
             v == AfterFailure(u, Head(posted).error)
  <2>1. u \in View /\ Watched(u)
    BY <1>1 DEF View, Over, Watched
  <2>2. Follows(v, u, reach)
    BY <1>1, <2>1, AfterFailureFollows
  <2>3. Head(posted).event \in Outcomes /\ (Leaves(v) \/ Stops(v))
    BY <1>10 DEF HandleFailed, Arrives, Outcomes
  <2> HIDE DEF v
  <2> QED
    BY <1>5, <2>2, <2>3 DEF Follows
<1>11. ASSUME NEW u, u = [view EXCEPT !.status = "disconnected"]
       PROVE  u \in View /\ Watched(u) /\ u.inProgress = view.inProgress
  BY <1>1, <1>11 DEF View, Watched
<1>12. CASE HandleLost \/ HandleUnhealthy
  <2> DEFINE u == [view EXCEPT !.status = "disconnected"]
             v == AfterFailure(u, Head(posted).error)
  <2>1. Leaves(v) \/ Stops(v)
    BY <1>12 DEF HandleLost, HandleUnhealthy
  <2>2. Follows(v, u, reach)
    BY <1>1, <1>11, AfterFailureFollows
  <2>3. u.inProgress = view.inProgress
    BY <1>11
  <2> HIDE DEF v, u
  <2> QED
    BY <1>4, <2>1, <2>2, <2>3 DEF Follows
<1>13. CASE HandlePage
  <2> DEFINE u == [view EXCEPT !.status = "disconnected"]
             v == Scheduled(u, reach)
  <2>1. Leaves(v)
    BY <1>13 DEF HandlePage
  <2>2. Follows(v, u, reach)
    BY <1>11, ScheduledFollows
  <2>3. u.inProgress = view.inProgress
    BY <1>11
  <2> HIDE DEF v, u
  <2> QED
    BY <1>4, <2>1, <2>2, <2>3 DEF Follows
<1> QED
  BY <1>6, <1>7, <1>8, <1>9, <1>10, <1>12, <1>13 DEF GuiStep

LEMMA TimersAndUserKeep ==
  ASSUME RestOK, Sound(view, worker, posted), Kept,
         ReconnectTimerFires \/ HealthTimerFires \/ CheckAddresses \/ AddressesChange
           \/ ReachabilityChanges \/ Pair \/ LoadPage
  PROVE  Kept'
<1>1. view \in View /\ posted \in Seq(Events) /\ ioError \in Errors /\ reach \in BOOLEAN
  BY AlikeItself DEF RestOK
<1>2. ASSUME view' = view, posted' = posted, stale' = stale, reach' = reach, paired' = paired
      PROVE  Kept'
  BY <1>2 DEF Kept, Announced, Watched, Attended, Tended, Begun, Awaited
<1>3. ASSUME Follows(view', view, reach'), posted' = posted \/ posted' = posted \o LastWords
      PROVE  Kept'
  <2>1. Announced(view', posted)
    BY <1>3, AnnouncedAlike DEF Kept, Follows
  <2>2. Announced(view', posted')
    BY <1>1, <1>3, <2>1, AnnouncedLastWords
  <2> QED
    BY <1>3, <2>2 DEF Kept, Announced, Watched, Attended, Tended, Begun, Awaited, Follows
<1>4. ASSUME NEW v \in View, Reconnect(v), v.inProgress = view.inProgress,
             v.status = view.status, v.healthTimer = view.healthTimer, posted' = posted
      PROVE  Kept'
  <2>1. view'.inProgress /\ view'.status = view.status /\ view'.healthTimer = view.healthTimer
    BY <1>4 DEF Reconnect, View
  <2>2. Announced(view', posted)
    BY <2>1, AnnouncedAlike DEF Kept
  <2> QED
    BY <1>4, <2>1, <2>2 DEF Kept, Announced, Watched, Attended, Tended, Begun, Awaited
<1>5. CASE ReconnectTimerFires
  <2> DEFINE v == [view EXCEPT !.reconnectTimer = FALSE]
  <2>1. /\ v \in View /\ v.inProgress = view.inProgress /\ v.status = view.status
        /\ v.healthTimer = view.healthTimer
    BY <1>1 DEF View
  <2>2. Reconnect(v) /\ posted' = posted
    BY <1>5 DEF ReconnectTimerFires
  <2> HIDE DEF v
  <2> QED
    BY <1>4, <2>1, <2>2
<1>6. CASE HealthTimerFires
  <2>1. CASE reach
    BY <1>2, <1>6, <2>1 DEF HealthTimerFires, gui, network
  <2>2. CASE ~reach
    <3>1. view' = NetworkLost(view) /\ reach' = reach /\ posted' = posted \o LastWords
      BY <1>6, <2>2 DEF HealthTimerFires, network
    <3> QED
      BY <1>1, <1>3, <2>2, <3>1, NetworkLostFollows DEF Follows
  <2> QED
    BY <2>1, <2>2
<1>7. CASE CheckAddresses
  <2>1. view' = Moved(view, reach) /\ reach' = reach
    BY <1>7 DEF CheckAddresses
  <2>2. posted' = posted \/ posted' = posted \o LastWords
    BY <1>7 DEF CheckAddresses
  <2> QED
    BY <1>1, <1>3, <2>1, <2>2, MovedFollows DEF Kept
<1>8. CASE AddressesChange
  BY <1>2, <1>8 DEF AddressesChange, gui
<1>9. CASE ReachabilityChanges
  <2> DEFINE moved == IF seen = env THEN view ELSE Moved(view, ~reach)
  <2>1. moved \in View
    BY <1>1, AlikeItself, MovedAlike DEF Alike
  <2>2. Watched(moved) /\ moved.inProgress = view.inProgress
    BY <1>1, MovedFollows DEF Follows, Kept
  <2>3. /\ view' = IF reach THEN NetworkLost(moved) ELSE Back(moved)
        /\ reach' = ~reach
        /\ posted' = posted \/ posted' = posted \o LastWords
    BY <1>9 DEF ReachabilityChanges
  <2> HIDE DEF moved
  <2>4. CASE reach
    BY <1>3, <2>1, <2>2, <2>3, <2>4, NetworkLostFollows DEF Follows
  <2>5. CASE ~reach
    BY <1>3, <2>1, <2>2, <2>3, <2>5, BackFollows DEF Follows
  <2> QED
    BY <2>4, <2>5
<1>10. CASE Pair
  BY <1>1, <1>4, <1>10 DEF Pair
<1>11. CASE LoadPage
  BY <1>2, <1>11 DEF LoadPage, gui, network
<1> QED
  BY <1>5, <1>6, <1>7, <1>8, <1>9, <1>10, <1>11

\* The other threads only post.
LEMMA ThreadsKeep ==
  ASSUME RestOK, Sound(view, worker, posted), Kept,
         ReconnectStep \/ IoStep \/ PingEnds \/ PageEnds \/ AnswerTooLarge
           \/ \E c \in Callers : CallStep(c)
  PROVE  Kept'
<1>1. posted \in Seq(Events)
  BY AlikeItself
<1>2. view' = view /\ stale' = stale /\ reach' = reach /\ paired' = paired
  <2>1. CASE ReconnectStep
    BY <2>1 DEF ReconnectStep, CheckNetwork, StopOld, StartNew, AskServer, PostOutcome,
                gui, network
  <2>2. CASE IoStep \/ AnswerTooLarge
    BY <2>2 DEF IoStep, Encrypted, IoFails, IoReports, IoQuits, AnswerTooLarge, gui, network
  <2>3. CASE PingEnds \/ PageEnds
    BY <2>3 DEF PingEnds, PageEnds, network
  <2>4. ASSUME NEW c \in Callers, CallStep(c)
        PROVE  view' = view /\ stale' = stale /\ reach' = reach /\ paired' = paired
    BY <2>4 DEF CallStep, CheckRunning, Register, Answer, TimeOut, gui, network
  <2> QED
    BY <2>1, <2>2, <2>3, <2>4
<1>3. ASSUME Announced(view, posted')
      PROVE  Kept'
  BY <1>2, <1>3 DEF Kept, Announced, Watched, Attended, Tended, Begun, Awaited
<1>4. CASE CheckNetwork
  <2>1. Awaited(posted) = {} /\ view.inProgress
    BY <1>4 DEF CheckNetwork, Sound, Accounted
  <2>2. \E k \in {"connecting", "unreachable", "unpaired"} :
          posted' = Append(posted, [event |-> k])
    BY <1>4 DEF CheckNetwork
  <2>3. \A k \in {"unreachable", "unpaired"} : [event |-> k].event \in Outcomes
    BY DEF Outcomes
  <2>4. [event |-> "connecting"].event \notin Outcomes
    BY DEF Outcomes
  <2>5. CASE posted' = Append(posted, [event |-> "connecting"])
    BY <1>1, <1>3, <2>1, <2>4, <2>5, EventsAre, AnnouncedBegun
  <2>6. CASE \E k \in {"unreachable", "unpaired"} : posted' = Append(posted, [event |-> k])
    BY <1>1, <1>3, <2>3, <2>6, EventsAre, AnnouncedOutcome DEF Kept
  <2> QED
    BY <2>2, <2>5, <2>6
<1>5. CASE PostOutcome
  <2>1. ASSUME calls["reconnect"].stage = "failed"
        PROVE  calls["reconnect"].error \in Errors
    BY <2>1 DEF RestOK, Stages, NoCall, Made, Failed, Callers
  <2>2. \/ \E e \in Errors : posted' = Append(posted, [event |-> "failed", error |-> e])
        \/ posted' = Append(posted, [event |-> "connected"])
    BY <1>5, <2>1 DEF PostOutcome, Errors
  <2>3. \E e \in Events : e.event \in Outcomes /\ posted' = Append(posted, e)
    BY <2>2, EventsAre DEF Outcomes
  <2> QED
    BY <1>1, <1>3, <2>3, AnnouncedOutcome DEF Kept
<1>6. ASSUME \E k \in {"lost", "unhealthy"}, e \in Errors :
               posted' = Append(posted, [event |-> k, error |-> e])
      PROVE  Kept'
  <2>1. \E e \in Events : /\ e.event \notin Outcomes /\ e.event # "connecting"
                          /\ posted' = Append(posted, e)
    BY <1>6, EventsAre DEF Outcomes
  <2> QED
    BY <1>1, <1>3, <2>1, AnnouncedPosted DEF Kept
<1>7. ASSUME posted' = posted
      PROVE  Kept'
  BY <1>3, <1>7 DEF Kept
<1>8. CASE StopOld \/ StartNew \/ AskServer \/ Encrypted \/ IoFails \/ IoQuits \/ AnswerTooLarge
  BY <1>7, <1>8 DEF StopOld, StartNew, AskServer, Encrypted, IoFails, IoQuits, AnswerTooLarge, gui
<1>9. CASE IoReports
  BY <1>6, <1>9 DEF IoReports, RestOK
<1>10. CASE PingEnds
  <2>1. ASSUME calls["ping"].stage = "failed"
        PROVE  calls["ping"].error \in Errors
    BY <2>1 DEF RestOK, Stages, NoCall, Made, Failed, Callers
  <2> QED
    BY <1>6, <1>7, <1>10, <2>1 DEF PingEnds
<1>11. CASE PageEnds
  <2>1. posted' = posted \/ posted' = Append(posted, [event |-> "page"])
    BY <1>11 DEF PageEnds
  <2>2. [event |-> "page"].event \notin Outcomes /\ [event |-> "page"].event # "connecting"
    BY DEF Outcomes
  <2> QED
    BY <1>1, <1>3, <1>7, <2>1, <2>2, EventsAre, AnnouncedPosted DEF Kept
<1>12. ASSUME NEW c \in Callers, CallStep(c)
       PROVE  Kept'
  BY <1>7, <1>12 DEF CallStep, CheckRunning, Register, Answer, TimeOut, gui
<1> QED
  BY <1>4, <1>5, <1>8, <1>9, <1>10, <1>11, <1>12 DEF ReconnectStep, IoStep

LEMMA InitKept ==
  ASSUME Init
  PROVE  Kept
<1>1. view.inProgress /\ view.status = "idle"
  BY DEF Init
<1>2. Begun(posted) = {}
  BY DEF Init, Begun
<1> QED
  BY <1>1, <1>2 DEF Kept, Announced, Watched, Attended, Tended

LEMMA KeptNext ==
  ASSUME IInv, Kept, [Next]_vars
  PROVE  Kept'
<1>1. RestOK /\ Sound(view, worker, posted)
  BY InvariantParts DEF IInv
<1>2. CASE GuiStep
  BY <1>1, <1>2, EventsKeep
<1>3. CASE ReconnectTimerFires \/ HealthTimerFires \/ CheckAddresses \/ AddressesChange
             \/ ReachabilityChanges \/ Pair \/ LoadPage
  BY <1>1, <1>3, TimersAndUserKeep
<1>4. CASE ReconnectStep \/ IoStep \/ PingEnds \/ PageEnds \/ AnswerTooLarge
             \/ \E c \in Callers : CallStep(c)
  BY <1>1, <1>4, ThreadsKeep
<1>5. CASE UNCHANGED vars
  BY <1>5 DEF vars, gui, client, network, Kept, Announced, Watched, Attended, Tended, Begun,
              Awaited
<1> QED
  BY <1>2, <1>3, <1>4, <1>5 DEF Next

\* With nothing posted and no thread, no attempt is under way.
LEMMA KeptMeans ==
  ASSUME IInv, Kept
  PROVE  NeverStrandedUnlessStale
<1> SUFFICES ASSUME Left, ~stale
             PROVE  view.reconnectTimer \/ (view.healthTimer /\ view.status = "connected")
  BY DEF NeverStrandedUnlessStale
<1>1. Awaited(posted) = {}
  BY DEF Left, Awaited
<1>2. ~view.inProgress
  BY <1>1, AttemptIsAccounted DEF IInv, Accounted, Left
<1> QED
  BY <1>2 DEF Kept, Attended, Tended, Watched, Left

\* A client that has a network and a peer and is not waiting for another network
\* is never left without a timer: whatever is lost, stopped, posted and handled
\* in which order, reconnect_timer_ runs, or health_check_timer_ while the client
\* takes itself for connected. Excepted is what the last attempt found too late
\* to be true (stale). This holds for any number of changes and of faults.
THEOREM NeverStranded == Spec => []NeverStrandedUnlessStale
<1>1. Init => Kept
  BY InitKept
<1>2. IInv /\ Kept /\ [Next]_vars => Kept'
  BY KeptNext
<1>3. IInv /\ Kept => NeverStrandedUnlessStale
  BY KeptMeans
<1> QED
  BY <1>1, <1>2, <1>3, AlwaysIInv, PTL DEF Spec
=============================================================================
