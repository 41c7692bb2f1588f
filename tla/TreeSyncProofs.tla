--------------------------- MODULE TreeSyncProofs ---------------------------
(***************************************************************************)
(* Proofs about TreeSync, for any nodes, devices, connections and bounds.  *)
(*                                                                         *)
(* What a device that did not race shows is the server's tree, or becomes  *)
(* it with the one change that is on its way. The invariant says so:       *)
(* OneChange of what is on its way, CopiesFollow of the copies. The rest   *)
(* is what those need to know of requests and their answers.               *)
(***************************************************************************)
EXTENDS TreeSync, TLAPS

Ids == Sessions \cup 1..MaxChanges

-----------------------------------------------------------------------------
(* The invariant                                                             *)

\* What TypeOK leaves out: the list is one of sessions, who sends has somebody to
\* send to, and an id was given.
Given(k) ==
  /\ k \in Sessions => handler[k].stage # "new"
  /\ k \notin Sessions => k <= asked

TypeInv ==
  /\ TypeOK
  /\ registered \in Seq(Sessions)
  /\ \A s \in Sessions : handler[s].stage = "send" => handler[s].todo # <<>>
  /\ \A c \in calls : Given(c.id) /\ (c.op = "fetch" <=> c.id \in Sessions)

\* No parent is an id that is still to be given to a node.
ParentsUsed == \A n \in DOMAIN tree : tree[n].parent \in used \cup {Root}

\* Who is connected is on the list.
LinkedServed ==
  \A d \in Devices :
    link[d] # NoSession => handler[link[d]].stage \notin {"new", "ended"}

\* A request has one answer, and none before the server has read it. That to a
\* request for the tree is a tree.
Answer(k, x) ==
  \/ \E s \in Sessions : handler[s].call = k /\ handler[s].change = x
  \/ \E s \in Sessions : \E i \in 1..Len(out[s]) : out[s][i].call = k /\ out[s][i].change = x

AnswersAreOne ==
  \A k \in Ids : \A x \in Change : Answer(k, x) =>
    /\ Given(k)
    /\ k \in Sessions => x.op = "load"
    /\ \A y \in Change : Answer(k, y) => x = y
    /\ \A c \in calls : c.id = k => c.state \notin {"asked", "unclaimed"}

IdleIsBlank ==
  \A s \in Sessions :
    handler[s].stage \in {"new", "idle", "ended"} =>
      handler[s].call = NoCall /\ handler[s].change = Failed

TreesAreLoaded ==
  \A c \in calls : c.op = "fetch" /\ c.state = "answered" => c.result.op = "load"

AnswersSound == AnswersAreOne /\ IdleIsBlank /\ TreesAreLoaded

\* A device asks for the tree once per connection, and is not connected to the
\* user's eyes until it has it.
FetchesSound ==
  /\ \A c \in calls : c.op = "fetch" =>
       c.state # "unclaimed" /\ (link[c.device] # NoSession => ~online[c.device])
  /\ \A c1, c2 \in calls :
       c1.op = "fetch" /\ c2.op = "fetch" /\ c1.device = c2.device => c1 = c2

\* What is on its way: as long as a device did not race, trees that are what is
\* stored, and one change that has been made.
OnItsWay(x) ==
  \/ \E s \in Sessions : handler[s].change = x
  \/ \E s \in Sessions : \E i \in 1..Len(out[s]) : out[s][i].change = x
  \/ \E c \in calls : c.state = "answered" /\ c.result = x

IsChange(x) == x.op \in {"upsert", "remove"}

Current(x) ==
  /\ x.op = "load" => x.rows = Stored
  /\ x.op = "upsert" => x.node \in DOMAIN tree /\ tree[x.node].parent = x.parent
  /\ x.op = "remove" => x.node \notin DOMAIN tree

OneChange ==
  raced # Devices =>
    \A x \in Change : OnItsWay(x) =>
      /\ Current(x)
      /\ \A y \in Change : OnItsWay(y) /\ IsChange(x) /\ IsChange(y) => x = y

\* Change x will be applied by device d: as a notification of another device's
\* change, or as the response to its own.
Notified(d, x) ==
  \/ \E s \in Sessions :
       /\ handler[s].change = x /\ DeviceOf[s] # d
       /\ \/ handler[s].stage = "copy"
          \/ /\ handler[s].stage = "send"
             /\ \E i \in 1..Len(handler[s].todo) : handler[s].todo[i] = link[d]
  \/ \E i \in 1..Len(out[link[d]]) :
       out[link[d]][i].call = NoCall /\ out[link[d]][i].origin # d /\ out[link[d]][i].change = x

Answered(d, x) ==
  \E c \in calls :
    /\ c.device = d /\ c.op # "fetch"
    /\ \/ c.state = "answered" /\ c.result = x
       \/ /\ c.state = "taken"
          /\ \/ handler[link[d]].call = c.id /\ handler[link[d]].change = x
             \/ \E i \in 1..Len(out[link[d]]) :
                  out[link[d]][i].call = c.id /\ out[link[d]][i].change = x

\* The rows of a copy are among all there are, with all of these that the root
\* reaches.
Copies(rows, all) ==
  /\ DOMAIN rows \subseteq DOMAIN all
  /\ \A n \in DOMAIN rows : rows[n] = all[n]
  /\ Shown(all) \subseteq DOMAIN rows

Faithful(rows) == Copies(rows, Stored)

Follows(d) ==
  \/ Faithful(local[d])
  \/ \E x \in Change :
       /\ IsChange(x) /\ (Notified(d, x) \/ Answered(d, x))
       /\ Faithful(Applied(local[d], x))

Following(d) == d \notin raced /\ online[d] /\ link[d] # NoSession

CopiesFollow == \A d \in Devices : Following(d) => Follows(d)

Inv ==
  /\ TypeInv /\ ParentsUsed /\ LinkedServed /\ AnswersSound /\ FetchesSound
  /\ OneChange /\ CopiesFollow

-----------------------------------------------------------------------------
(* Rows and what is below a node                                             *)

\* The rows that are not below n never come to it.
LEMMA OthersAvoid ==
  ASSUME NEW rows, NEW n
  PROVE  Avoids(rows, DOMAIN rows \ Below(rows, n), n)
<1> DEFINE U == DOMAIN rows \ Below(rows, n)
<1>1. n \notin U
  BY DEF Below, Avoids
<1>2. ASSUME NEW k \in U, rows[k] \in DOMAIN rows \cup {n}  PROVE rows[k] \in U
  <2>1. PICK S \in SUBSET DOMAIN rows : k \in S /\ Avoids(rows, S, n)
    BY <1>2 DEF Below
  <2>2. rows[k] \in S
    BY <1>2, <2>1 DEF Avoids
  <2>. QED
    BY <2>1, <2>2 DEF Below
<1>. QED
  BY <1>1, <1>2 DEF Avoids

\* One step up from below n is below n, or n.
LEMMA BelowStepsUp ==
  ASSUME NEW rows, NEW n, NEW k \in Below(rows, n), k # n
  PROVE  rows[k] \in Below(rows, n) \cup {n}
<1> SUFFICES ASSUME rows[k] \notin Below(rows, n) \cup {n}  PROVE FALSE
  OBVIOUS
<1> DEFINE S == {k} \cup (DOMAIN rows \ Below(rows, n))
<1>1. S \in SUBSET DOMAIN rows /\ k \in S
  BY DEF Below
<1>2. Avoids(rows, S, n)
  BY OthersAvoid DEF Avoids
<1>. QED
  BY <1>1, <1>2 DEF Below

LEMMA AvoidingIsNotBelow ==
  ASSUME NEW rows, NEW n, NEW S \in SUBSET DOMAIN rows, Avoids(rows, S, n), NEW m \in S
  PROVE  m \notin Below(rows, n)
BY DEF Below

\* A copy shows what there is to be shown, where it is.
LEMMA CopiesAgree ==
  ASSUME NEW rows, NEW all, Root \notin DOMAIN all, Copies(rows, all)
  PROVE  Shown(rows) = Shown(all) /\ \A n \in Shown(all) : rows[n] = all[n]
<1>1. ASSUME NEW m \in Shown(rows)  PROVE m \in Shown(all)
  <2> DEFINE S == DOMAIN rows \ Shown(all)
  <2>1. Avoids(all, DOMAIN all \ Shown(all), Root)
    BY OthersAvoid DEF Shown
  <2>2. S \in SUBSET DOMAIN rows /\ Avoids(rows, S, Root)
    BY <2>1 DEF Avoids, Copies
  <2>. QED
    BY <2>2 DEF Shown, Below
<1>2. ASSUME NEW m \in Shown(all)  PROVE m \in Shown(rows)
  <2> DEFINE S == DOMAIN all \ Shown(rows)
  <2>1. Avoids(rows, DOMAIN rows \ Shown(rows), Root)
    BY OthersAvoid DEF Shown
  <2>2. Avoids(all, DOMAIN all \ Shown(all), Root)
    BY OthersAvoid DEF Shown
  <2>3. Shown(rows) \subseteq Shown(all)
    BY <1>1
  <2>4. S \in SUBSET DOMAIN all /\ Avoids(all, S, Root)
    <3> SUFFICES ASSUME NEW k \in S, all[k] \in DOMAIN all \cup {Root}  PROVE all[k] \in S
      BY DEF Avoids
    <3>1. CASE k \in DOMAIN rows
      <4>1. rows[k] = all[k] /\ rows[k] \notin Shown(rows)
        BY <2>1, <3>1 DEF Avoids, Copies, Shown, Below
      <4>2. all[k] # Root
        BY <2>1, <3>1, <4>1 DEF Avoids
      <4>. QED
        BY <4>1, <4>2
    <3>2. CASE k \notin DOMAIN rows
      <4>1. k \in DOMAIN all \ Shown(all)
        BY <3>2 DEF Copies
      <4>. QED
        BY <2>2, <2>3, <4>1 DEF Avoids
    <3>. QED
      BY <3>1, <3>2
  <2>. QED
    BY <2>4 DEF Shown, Below
<1>. QED
  BY <1>1, <1>2 DEF Copies

\* A change that is already made leaves a copy one.
LEMMA CopyAbsorbs ==
  ASSUME NEW rows, NEW all, Root \notin DOMAIN all, Copies(rows, all), NEW x \in Change,
         x.op = "load" => x.rows = all,
         x.op = "upsert" => x.node \in DOMAIN all /\ all[x.node] = x.parent,
         x.op = "remove" => x.node \notin DOMAIN all
  PROVE  Copies(Applied(rows, x), all)
<1>1. CASE x.op = "load"
  BY <1>1 DEF Applied, Copies, Shown, Below
<1>2. CASE x.op = "error"
  BY <1>2 DEF Applied
<1>3. CASE x.op = "upsert"
  BY <1>3 DEF Applied, Copies
<1>4. CASE x.op = "remove"
  <2> DEFINE B == Below(rows, x.node)
  <2>1. x.node \in Nodes /\ x.node # Root
    BY <1>4, ConstantsOK DEF Change
  <2>2. B \in SUBSET DOMAIN all /\ x.node \notin B
    BY <1>4 DEF Below, Copies
  <2>3. ASSUME NEW k \in B  PROVE all[k] \in B \cup {x.node}
    BY <2>2, <2>3, BelowStepsUp DEF Copies, Below
  <2>4. Avoids(all, B, Root)
    BY <1>4, <2>1, <2>2, <2>3 DEF Avoids
  <2>5. Shown(all) \cap B = {}
    BY <2>2, <2>4, AvoidingIsNotBelow DEF Shown
  <2>. QED
    BY <1>4, <2>5 DEF Applied, Copies
<1>. QED
  BY <1>1, <1>2, <1>3, <1>4 DEF Change

\* What was a copy is one again, once the change that was made is applied to it.
LEMMA CopyFollowsCreate ==
  ASSUME NEW rows, NEW all, NEW n, NEW p, Root \notin DOMAIN all, n # Root, Copies(rows, all),
         n \notin DOMAIN all, \A m \in DOMAIN all : all[m] # n,
         NEW now, now = [m \in DOMAIN all \cup {n} |-> IF m = n THEN p ELSE all[m]]
  PROVE  Copies(Applied(rows, [op |-> "upsert", node |-> n, parent |-> p]), now)
<1> DEFINE U == DOMAIN all \ Shown(all)
<1>1. Avoids(all, U, Root)
  BY OthersAvoid DEF Shown
<1>2. U \in SUBSET DOMAIN now /\ Avoids(now, U, Root)
  BY <1>1 DEF Avoids
<1>3. Shown(now) \subseteq Shown(all) \cup {n}
  BY <1>2, AvoidingIsNotBelow DEF Shown, Below
<1>. QED
  BY <1>3 DEF Applied, Copies

LEMMA CopyFollowsMove ==
  ASSUME NEW rows, NEW all, NEW n, NEW p, Copies(rows, all), n \in Shown(all),
         NEW now, now = [m \in DOMAIN all |-> IF m = n THEN p ELSE all[m]]
  PROVE  Copies(Applied(rows, [op |-> "upsert", node |-> n, parent |-> p]), now)
<1> DEFINE U == DOMAIN all \ Shown(all)
<1>1. Avoids(all, U, Root)
  BY OthersAvoid DEF Shown
<1>2. U \in SUBSET DOMAIN now /\ Avoids(now, U, Root)
  BY <1>1 DEF Avoids
<1>3. Shown(now) \subseteq Shown(all)
  BY <1>2, AvoidingIsNotBelow DEF Shown, Below
<1>4. n \in DOMAIN all /\ n \in DOMAIN rows
  BY DEF Copies, Shown, Below
<1>. QED
  BY <1>3, <1>4 DEF Applied, Copies

LEMMA CopyFollowsDelete ==
  ASSUME NEW rows, NEW all, NEW n, Root \notin DOMAIN all, n # Root, Copies(rows, all),
         NEW now, now = [m \in DOMAIN all \ {n} |-> all[m]]
  PROVE  Copies(Applied(rows, [op |-> "remove", node |-> n]), now)
<1> DEFINE B == Below(rows, n)
           V == (DOMAIN all \ Shown(all)) \ {n}
<1>1. Avoids(all, DOMAIN all \ Shown(all), Root)
  BY OthersAvoid DEF Shown
<1>2. V \in SUBSET DOMAIN now /\ Avoids(now, V, Root)
  BY <1>1 DEF Avoids
<1>3. Shown(now) \subseteq Shown(all)
  BY <1>2, AvoidingIsNotBelow DEF Shown, Below
<1>4. (B \ {n}) \in SUBSET DOMAIN now
  BY DEF Copies, Below
<1>5. ASSUME NEW k \in B \ {n}  PROVE now[k] \in B \cup {n}
  BY <1>4, <1>5, BelowStepsUp DEF Copies, Below
<1>6. Avoids(now, B \ {n}, Root)
  BY <1>4, <1>5 DEF Avoids
<1>7. Shown(now) \cap B = {}
  BY <1>4, <1>6, AvoidingIsNotBelow DEF Shown, Below
<1>8. n \in DOMAIN rows => n \in B
  BY DEF Below, Avoids
<1>. QED
  BY <1>3, <1>7, <1>8 DEF Applied, Copies

-----------------------------------------------------------------------------
(* Types                                                                     *)

LEMMA RowsAre ==
  ASSUME NEW rows
  PROVE  rows \in Rows <=> DOMAIN rows \in SUBSET Nodes /\ rows \in [DOMAIN rows -> Parents]
BY DEF Rows

LEMMA AppliedIsRows ==
  ASSUME NEW rows \in Rows, NEW x \in Change
  PROVE  Applied(rows, x) \in Rows
<1>1. DOMAIN rows \in SUBSET Nodes /\ rows \in [DOMAIN rows -> Parents]
  BY RowsAre
<1>2. CASE x.op = "load"
  BY <1>2 DEF Change, Applied
<1>3. CASE x.op = "upsert"
  <2>1. x.node \in Nodes /\ x.parent \in Parents
    BY <1>3 DEF Change
  <2> DEFINE new == [m \in DOMAIN rows \cup {x.node} |-> IF m = x.node THEN x.parent ELSE rows[m]]
  <2>2. DOMAIN new \in SUBSET Nodes /\ new \in [DOMAIN new -> Parents]
    BY <1>1, <2>1
  <2>. QED
    BY <1>3, <2>2, RowsAre DEF Applied
<1>4. CASE x.op = "remove"
  <2> DEFINE new == [m \in DOMAIN rows \ Below(rows, x.node) |-> rows[m]]
  <2>1. DOMAIN new \in SUBSET Nodes /\ new \in [DOMAIN new -> Parents]
    BY <1>1
  <2>. QED
    BY <1>4, <2>1, RowsAre DEF Applied
<1>5. CASE x.op = "error"
  BY <1>5 DEF Applied
<1>. QED
  BY <1>2, <1>3, <1>4, <1>5 DEF Change

\* A list without a session that is on it once
LEMMA WithoutIsRest ==
  ASSUME NEW list \in Seq(Sessions), NEW s \in Sessions,
         \E i \in 1..Len(list) : list[i] = s,
         \A i, j \in 1..Len(list) : list[i] = list[j] => i = j
  PROVE  LET rest == Without(list, s) IN
         /\ rest \in Seq(Sessions)
         /\ \A i, j \in 1..Len(rest) : rest[i] = rest[j] => i = j
         /\ \A t \in Sessions :
              (\E i \in 1..Len(rest) : rest[i] = t) <=>
                t # s /\ (\E i \in 1..Len(list) : list[i] = t)
<1> DEFINE at   == CHOOSE i \in DOMAIN list : list[i] = s
           up(i) == IF i < at THEN i ELSE i + 1
           rest == [i \in 1..Len(list) - 1 |-> list[up(i)]]
<1>1. at \in 1..Len(list) /\ list[at] = s
  OBVIOUS
<1> HIDE DEF at
<1>2. \A i \in 1..Len(list) - 1 : up(i) \in 1..Len(list) /\ up(i) # at
  BY <1>1
<1>3. rest \in Seq(Sessions) /\ Len(rest) = Len(list) - 1 /\ Len(list) \in Nat
  <2>1. Len(list) - 1 \in Nat /\ rest \in [1..Len(list) - 1 -> Sessions]
    BY <1>1, <1>2
  <2>. QED
    BY <2>1
<1>4. ASSUME NEW i \in 1..Len(rest), NEW j \in 1..Len(rest), rest[i] = rest[j]  PROVE i = j
  <2>1. up(i) = up(j)
    BY <1>2, <1>3, <1>4
  <2>. QED
    BY <1>1, <1>3, <2>1
<1>5. ASSUME NEW t \in Sessions, NEW i \in 1..Len(rest), rest[i] = t
      PROVE  t # s /\ \E j \in 1..Len(list) : list[j] = t
  BY <1>1, <1>2, <1>3, <1>5
<1>6. ASSUME NEW t \in Sessions, t # s, NEW j \in 1..Len(list), list[j] = t
      PROVE  \E i \in 1..Len(rest) : rest[i] = t
  <2>1. CASE j < at
    <3>1. j \in 1..Len(rest) /\ rest[j] = t
      BY <1>1, <1>3, <1>6, <2>1
    <3>. QED
      BY <3>1
  <2>2. CASE j > at
    <3>1. j - 1 \in 1..Len(rest) /\ rest[j - 1] = t
      BY <1>1, <1>3, <1>6, <2>2
    <3>. QED
      BY <3>1
  <2>3. j < at \/ j > at
    <3>1. j # at
      BY <1>1, <1>6
    <3>. QED
      BY <1>1, <1>3, <3>1
  <2>. QED
    BY <2>1, <2>2, <2>3
<1>7. Without(list, s) = rest
  BY DEF Without, at
<1> HIDE DEF rest, up
<1>. QED
  BY <1>3, <1>4, <1>5, <1>6, <1>7

LEMMA DoingIsHandler ==
  ASSUME NEW stage \in {"new", "idle", "copy", "send", "reply", "ended"}, NEW change \in Change,
         NEW call \in Ids \cup {NoCall}, NEW todo \in Seq(Sessions)
  PROVE  /\ Doing(stage, change, call, todo) \in Handler
         /\ Doing(stage, change, call, todo).stage = stage
         /\ Doing(stage, change, call, todo).change = change
         /\ Doing(stage, change, call, todo).call = call
         /\ Doing(stage, change, call, todo).todo = todo
BY DEF Doing, Handler, Ids

LEMMA FailedIsChange == Failed \in Change /\ ~IsChange(Failed) /\ Failed.op = "error"
BY DEF Failed, Change, IsChange

LEMMA IdleIsHandler == Idle \in Handler /\ Idle.stage = "idle" /\ Idle.call = NoCall /\ Idle.change = Failed
BY FailedIsChange DEF Idle, Doing, Handler

\* A call whose state has changed, with what came of it
LEMMA CallInState ==
  ASSUME NEW c \in Call, NEW e, NEW st \in {"asked", "unclaimed", "taken", "answered"},
         NEW x \in Change,
         \/ e = [c EXCEPT !.state = st]
         \/ e = [c EXCEPT !.state = st, !.result = x]
  PROVE  /\ e \in Call /\ e.state = st /\ e.id = c.id /\ e.op = c.op /\ e.device = c.device
         /\ e.node = c.node /\ e.parent = c.parent
BY DEF Call

\* A set of calls in which no id is used twice
CallsOK(cs) ==
  /\ cs \subseteq Call
  /\ \A c1, c2 \in cs : c1.id = c2.id => c1 = c2
  /\ \A c \in cs : c.op = "fetch" <=> c.id \in Sessions

\* Some calls go, and others of their ids come.
LEMMA CallsReplaced ==
  ASSUME NEW cs, CallsOK(cs), NEW gone \in SUBSET cs, NEW come,
         \A e \in come : e \in Call /\ \E c \in gone : e.id = c.id /\ e.op = c.op,
         \A e1, e2 \in come : e1.id = e2.id => e1 = e2
  PROVE  CallsOK((cs \ gone) \cup come)
BY DEF CallsOK

\* A call with an id that is new is added.
LEMMA CallAdded ==
  ASSUME NEW cs, CallsOK(cs), NEW e \in Call, \A c \in cs : c.id # e.id,
         e.op = "fetch" <=> e.id \in Sessions
  PROVE  CallsOK(cs \cup {e})
BY DEF CallsOK

\* The parts of TypeInv, by the steps that change them
TreeTyped ==
  /\ used \in SUBSET Nodes /\ DOMAIN tree \in SUBSET used
  /\ \A n \in DOMAIN tree : tree[n] \in Forest!Row

ServerTyped ==
  /\ handler \in [Sessions -> Handler]
  /\ out \in [Sessions -> Seq(Message)]
  /\ \A s \in Sessions : handler[s].stage = "send" => handler[s].todo # <<>>

ListTyped ==
  /\ registered \in Seq(Sessions)
  /\ \A s \in Sessions :
       (\E i \in 1..Len(registered) : registered[i] = s)
         <=> handler[s].stage \notin {"new", "ended"}
  /\ \A i, j \in 1..Len(registered) : registered[i] = registered[j] => i = j

DevicesTyped ==
  /\ link \in [Devices -> Sessions \cup {NoSession}]
  /\ \A d \in Devices : link[d] # NoSession => DeviceOf[link[d]] = d
  /\ online \in [Devices -> BOOLEAN]
  /\ local \in [Devices -> Rows]

CallsTyped == CallsOK(calls) /\ \A c \in calls : Given(c.id)

BoundsTyped ==
  /\ scope \in Scenario
  /\ asked \in 0..scope.changes
  /\ faults \in 0..scope.faults
  /\ raced \in SUBSET Devices

LEMMA TypeInvParts ==
  TypeInv <=> /\ TreeTyped /\ ServerTyped /\ ListTyped /\ DevicesTyped /\ CallsTyped /\ BoundsTyped
BY DEF TypeInv, TypeOK, TreeTyped, ServerTyped, ListTyped, DevicesTyped, CallsTyped, CallsOK, BoundsTyped

LEMMA TypeInvPartsNext ==
  TypeInv' <=> /\ TreeTyped' /\ ServerTyped' /\ ListTyped' /\ DevicesTyped' /\ CallsTyped' /\ BoundsTyped'
BY DEF TypeInv, TypeOK, TreeTyped, ServerTyped, ListTyped, DevicesTyped, CallsTyped, CallsOK, BoundsTyped

LEMMA StoredIsRows ==
  ASSUME TreeTyped
  PROVE  Stored \in Rows /\ DOMAIN Stored = DOMAIN tree /\ Root \notin DOMAIN Stored
<1>1. \A n \in DOMAIN tree : tree[n].parent \in Parents
  BY DEF TreeTyped, Forest!Row, Parents
<1>2. Stored \in [DOMAIN tree -> Parents] /\ DOMAIN Stored = DOMAIN tree
  BY <1>1 DEF Stored
<1>3. DOMAIN tree \in SUBSET Nodes
  BY DEF TreeTyped
<1>. QED
  BY <1>2, <1>3, RowsAre, ConstantsOK

\* What a session that reads a request does to the calls
LEMMA TakesTyped ==
  ASSUME CallsTyped, NEW s \in Sessions, NEW c \in calls, Takes(s, c)
  PROVE  /\ CallsOK(calls')
         /\ \A e \in calls' : \E k \in calls : e.id = k.id
         /\ c \in Call
<1> DEFINE come == {[k EXCEPT !.state = "taken"] : k \in {k \in {c} : k.state = "asked"}}
<1>1. c \in Call /\ CallsOK(calls)
  BY DEF CallsTyped, CallsOK
<1>2. calls' = (calls \ {c}) \cup come
  BY DEF Takes
<1>3. \A e \in come : e = [c EXCEPT !.state = "taken"]
  OBVIOUS
<1>4. [c EXCEPT !.state = "taken"] \in Call /\ [c EXCEPT !.state = "taken"].id = c.id
      /\ [c EXCEPT !.state = "taken"].op = c.op
  BY <1>1, FailedIsChange, CallInState
<1> HIDE DEF come
<1>5. CallsOK((calls \ {c}) \cup come)
  <2>1. \A e \in come : e \in Call /\ \E k \in {c} : e.id = k.id /\ e.op = k.op
    BY <1>3, <1>4
  <2>2. \A e1, e2 \in come : e1.id = e2.id => e1 = e2
    BY <1>3
  <2>. QED
    BY <1>1, <2>1, <2>2, CallsReplaced
<1>. QED
  BY <1>1, <1>2, <1>3, <1>4, <1>5

\* A handler stays in its stages, and no session becomes new.
LEMMA HandlerTyped ==
  ASSUME ServerTyped, NEW s \in Sessions, NEW h \in Handler, h.stage = "send" => h.todo # <<>>,
         handler' = [handler EXCEPT ![s] = h], out' = out
  PROVE  /\ ServerTyped'
         /\ handler'[s] = h
         /\ \A t \in Sessions : t # s => handler'[t] = handler[t]
BY DEF ServerTyped

LEMMA StaysGiven ==
  ASSUME BoundsTyped, BoundsTyped', asked' >= asked,
         \A s \in Sessions : handler'[s].stage = "new" => handler[s].stage = "new",
         NEW k \in Ids, Given(k)
  PROVE  Given(k)'
<1>1. scope.changes \in 0..MaxChanges /\ scope'.changes \in 0..MaxChanges /\ MaxChanges \in Nat
  BY ConstantsOK DEF BoundsTyped, Scenario
<1>2. asked \in Nat /\ asked' \in Nat
  BY <1>1 DEF BoundsTyped
<1>3. k \notin Sessions => k \in Nat
  BY <1>1 DEF Ids
<1>. QED
  BY <1>2, <1>3 DEF Given

\* A session's stage changes, but neither to nor from being on the list.
LEMMA ListStays ==
  ASSUME ListTyped, UNCHANGED registered,
         \A s \in Sessions : handler'[s].stage \in {"new", "ended"} <=> handler[s].stage \in {"new", "ended"}
  PROVE  ListTyped'
BY DEF ListTyped

\* A session reads a request, and goes on to tell of change x or to answer.
LEMMA HandlingKeepsTypes ==
  ASSUME TypeInv, NEW s \in Sessions, NEW c \in calls, NEW x \in Change, Takes(s, c),
         NEW stage \in {"copy", "reply"},
         handler' = [handler EXCEPT ![s] = Doing(stage, x, c.id, <<>>)],
         UNCHANGED <<registered, out, link, online, local, asked, faults, scope>>,
         raced' \in SUBSET Devices, TreeTyped'
  PROVE  TypeInv'
<1>1. TreeTyped /\ ServerTyped /\ ListTyped /\ DevicesTyped /\ CallsTyped /\ BoundsTyped
  BY TypeInvParts
<1>2. CallsOK(calls') /\ (\A e \in calls' : \E k \in calls : e.id = k.id) /\ c \in Call
  BY <1>1, TakesTyped
<1>3. c.id \in Ids /\ <<>> \in Seq(Sessions)
  BY <1>2 DEF Call, Ids
<1>4. Doing(stage, x, c.id, <<>>) \in Handler /\ Doing(stage, x, c.id, <<>>).stage = stage
  BY <1>3 DEF Doing, Handler, Ids
<1>5. ServerTyped' /\ handler'[s].stage = stage /\ \A t \in Sessions : t # s => handler'[t] = handler[t]
  BY <1>1, <1>4, HandlerTyped
<1>6. handler[s].stage = "idle"
  BY DEF Takes
<1>7. ListTyped'
  BY <1>1, <1>5, <1>6, ListStays
<1>8. DevicesTyped'
  BY <1>1 DEF DevicesTyped
<1>9. BoundsTyped'
  BY <1>1 DEF BoundsTyped
<1>10. CallsTyped'
  <2>1. asked' >= asked
    <3>1. asked \in Nat
      BY <1>1, ConstantsOK DEF BoundsTyped, Scenario
    <3>. QED
      BY <3>1
  <2>2. \A k \in calls : k.id \in Ids /\ Given(k.id)
    BY <1>1 DEF CallsTyped, CallsOK, Call, Ids
  <2>3. \A k \in calls : Given(k.id)'
    BY <1>1, <1>5, <1>6, <1>9, <2>1, <2>2, StaysGiven
  <2>. QED
    BY <1>2, <2>3 DEF CallsTyped, Given
<1>. QED
  BY <1>5, <1>7, <1>8, <1>9, <1>10, TypeInvPartsNext

LEMMA ChangesAreTyped ==
  ASSUME NEW n \in Nodes, NEW p \in Parents
  PROVE  /\ [op |-> "upsert", node |-> n, parent |-> p] \in Change
         /\ [op |-> "remove", node |-> n] \in Change
BY DEF Change

LEMMA CommitsKeepsTypes ==
  ASSUME TypeInv, NEW s \in Sessions, NEW c \in calls, NEW x \in Change, Commits(s, c, x),
         UNCHANGED scope, TreeTyped'
  PROVE  TypeInv'
<1>1. c.device \in Devices /\ raced \in SUBSET Devices
  BY TypeInvParts DEF CallsTyped, CallsOK, Call, BoundsTyped
<1>2. raced' \in SUBSET Devices
  BY <1>1 DEF Commits
<1>. QED
  BY <1>2, HandlingKeepsTypes DEF Commits

LEMMA CallTyped ==
  ASSUME TypeInv, NEW c \in calls
  PROVE  /\ c \in Call /\ c.id \in Ids /\ c.device \in Devices /\ c.node \in Parents
         /\ c.parent \in Parents /\ c.result \in Change /\ Given(c.id)
         /\ (c.op = "fetch" <=> c.id \in Sessions)
BY TypeInvParts DEF CallsTyped, CallsOK, Call, Ids

LEMMA HandleCreateKeepsTypes ==
  ASSUME TypeInv, NEW s \in Sessions, NEW c \in calls, HandleCreate(s, c), UNCHANGED scope
  PROVE  TypeInv'
<1>1. PICK n \in Nodes :
        /\ Forest!Create(User, n, "folder", c.parent)
        /\ Commits(s, c, [op |-> "upsert", node |-> n, parent |-> c.parent])
  BY DEF HandleCreate
<1>2. c.parent \in Parents
  BY CallTyped
<1>3. TreeTyped'
  BY <1>1, <1>2, TypeInvParts DEF TreeTyped, Forest!Create, Forest!Row, Parents
<1>. QED
  BY <1>1, <1>2, <1>3, ChangesAreTyped, CommitsKeepsTypes

LEMMA HandleUpdateKeepsTypes ==
  ASSUME TypeInv, NEW s \in Sessions, NEW c \in calls, HandleUpdate(s, c), UNCHANGED scope
  PROVE  TypeInv' /\ c.node \in Nodes
<1>1. c.parent \in Parents
  BY CallTyped
<1>2. TreeTyped' /\ c.node \in Nodes
  BY <1>1, TypeInvParts DEF TreeTyped, HandleUpdate, Forest!Update, Forest!Holds, Forest!Row, Parents
<1>. QED
  BY <1>1, <1>2, ChangesAreTyped, CommitsKeepsTypes DEF HandleUpdate

LEMMA HandleDeleteKeepsTypes ==
  ASSUME TypeInv, NEW s \in Sessions, NEW c \in calls, HandleDelete(s, c), UNCHANGED scope
  PROVE  TypeInv' /\ c.node \in Nodes
<1>1. TreeTyped' /\ c.node \in Nodes
  BY TypeInvParts DEF TreeTyped, HandleDelete, Forest!Delete, Forest!Holds
<1>2. Root \in Parents
  BY DEF Parents
<1>. QED
  BY <1>1, <1>2, ChangesAreTyped, CommitsKeepsTypes DEF HandleDelete

LEMMA SameTree == TreeTyped /\ UNCHANGED database => TreeTyped'
BY DEF TreeTyped, database

LEMMA HandleRefusedKeepsTypes ==
  ASSUME TypeInv, NEW s \in Sessions, NEW c \in calls, HandleRefused(s, c), UNCHANGED scope
  PROVE  TypeInv'
<1>1. TreeTyped' /\ raced \in SUBSET Devices
  BY SameTree, TypeInvParts DEF HandleRefused, BoundsTyped
<1>. QED
  BY <1>1, FailedIsChange, HandlingKeepsTypes DEF HandleRefused, history

LEMMA LoadIsChange ==
  ASSUME TypeInv
  PROVE  [op |-> "load", rows |-> Stored] \in Change
BY StoredIsRows, TypeInvParts DEF Change

LEMMA HandleFetchTreeKeepsTypes ==
  ASSUME TypeInv, NEW s \in Sessions, NEW c \in calls, HandleFetchTree(s, c), UNCHANGED scope
  PROVE  TypeInv'
<1>1. TreeTyped'
  BY SameTree, TypeInvParts DEF HandleFetchTree
<1>2. raced' \in SUBSET Devices
  BY TypeInvParts DEF HandleFetchTree, BoundsTyped
<1>. QED
  BY <1>1, <1>2, LoadIsChange, HandlingKeepsTypes DEF HandleFetchTree

\* A message joins what is on its way on a connection, or is lost.
LEMMA PushedTyped ==
  ASSUME ServerTyped, DevicesTyped, NEW s \in Sessions, NEW m \in Message
  PROVE  /\ Pushed(s, m) \in [Sessions -> Seq(Message)]
         /\ \A t \in Sessions : t # s => Pushed(s, m)[t] = out[t]
         /\ link[DeviceOf[s]] = s => Pushed(s, m)[s] = Append(out[s], m)
         /\ link[DeviceOf[s]] # s => Pushed(s, m)[s] = out[s]
BY DEF ServerTyped, Pushed

LEMMA HandlerParts ==
  ASSUME ServerTyped, NEW s \in Sessions
  PROVE  /\ handler[s].stage \in {"new", "idle", "copy", "send", "reply", "ended"}
         /\ handler[s].change \in Change /\ handler[s].call \in Ids \cup {NoCall}
         /\ handler[s].todo \in Seq(Sessions)
         /\ handler[s] = Doing(handler[s].stage, handler[s].change, handler[s].call, handler[s].todo)
BY DEF ServerTyped, Handler, Ids, Doing

\* A step of a session that is on the list, and stays on it
LEMMA SessionStepKeepsTypes ==
  ASSUME TypeInv, NEW s \in Sessions, handler[s].stage \in {"copy", "send", "reply"},
         NEW h \in Handler, h.stage \in {"idle", "send", "reply"}, h.stage = "send" => h.todo # <<>>,
         handler' = [handler EXCEPT ![s] = h], out' \in [Sessions -> Seq(Message)],
         UNCHANGED <<database, registered, clients, history, scope>>
  PROVE  TypeInv'
<1>1. TreeTyped /\ ServerTyped /\ ListTyped /\ DevicesTyped /\ CallsTyped /\ BoundsTyped
  BY TypeInvParts
<1>2. handler'[s] = h /\ (\A t \in Sessions : t # s => handler'[t] = handler[t]) /\ ServerTyped'
  BY <1>1 DEF ServerTyped
<1>3. TreeTyped' /\ DevicesTyped' /\ BoundsTyped'
  BY <1>1, SameTree DEF DevicesTyped, BoundsTyped, clients, history
<1>4. ListTyped'
  BY <1>1, <1>2, ListStays
<1>5. CallsTyped'
  BY <1>1, <1>2 DEF CallsTyped, clients, Given
<1>. QED
  BY <1>2, <1>3, <1>4, <1>5, TypeInvPartsNext

LEMMA CopyTargetsKeepsTypes ==
  ASSUME TypeInv, NEW s \in Sessions, CopyTargets(s), UNCHANGED scope
  PROVE  TypeInv'
<1> DEFINE h == Doing(IF Targets = <<>> THEN "reply" ELSE "send", handler[s].change,
                      handler[s].call, Targets)
<1>1. Targets \in Seq(Sessions) /\ ServerTyped
  BY TypeInvParts DEF Targets, ListTyped
<1>2. h \in Handler /\ h.todo = Targets /\ h.stage = IF Targets = <<>> THEN "reply" ELSE "send"
  BY <1>1, HandlerParts DEF Doing, Handler, Ids
<1>3. handler' = [handler EXCEPT ![s] = h] /\ handler[s].stage = "copy"
  BY DEF CopyTargets
<1>4. out' \in [Sessions -> Seq(Message)]
  BY <1>1 DEF CopyTargets, ServerTyped
<1> HIDE DEF h
<1>. QED
  BY <1>2, <1>3, <1>4, SessionStepKeepsTypes DEF CopyTargets

LEMMA NotifyKeepsTypes ==
  ASSUME TypeInv, NEW s \in Sessions, Notify(s), UNCHANGED scope
  PROVE  TypeInv'
<1> DEFINE rest == Tail(handler[s].todo)
           h    == Doing(IF rest = <<>> THEN "reply" ELSE "send", handler[s].change,
                         handler[s].call, rest)
           m    == [call |-> NoCall, origin |-> DeviceOf[s], change |-> handler[s].change]
<1>1. ServerTyped /\ DevicesTyped /\ handler[s].stage = "send"
  BY TypeInvParts DEF Notify
<1>2. handler[s].todo \in Seq(Sessions) /\ handler[s].todo # <<>>
  BY <1>1, HandlerParts DEF ServerTyped
<1>3. rest \in Seq(Sessions) /\ Head(handler[s].todo) \in Sessions
  BY <1>2
<1>4. h \in Handler /\ h.todo = rest /\ h.stage = IF rest = <<>> THEN "reply" ELSE "send"
  <2> HIDE DEF rest
  <2>. QED
    BY <1>1, <1>3, HandlerParts DEF Doing, Handler, Ids
<1>5. m \in Message
  BY <1>1, HandlerParts, ConstantsOK DEF Message, Ids
<1>6. handler' = [handler EXCEPT ![s] = h] /\ out' = Pushed(Head(handler[s].todo), m)
  BY DEF Notify
<1> HIDE DEF h, m, rest
<1>7. out' \in [Sessions -> Seq(Message)]
  BY <1>1, <1>3, <1>5, <1>6, PushedTyped
<1>. QED
  BY <1>1, <1>4, <1>6, <1>7, SessionStepKeepsTypes DEF Notify

LEMMA RespondKeepsTypes ==
  ASSUME TypeInv, NEW s \in Sessions, Respond(s), UNCHANGED scope
  PROVE  TypeInv'
<1> DEFINE m == [call |-> handler[s].call, origin |-> DeviceOf[s], change |-> handler[s].change]
<1>1. ServerTyped /\ DevicesTyped /\ handler[s].stage = "reply"
  BY TypeInvParts DEF Respond
<1>2. m \in Message
  BY <1>1, HandlerParts, ConstantsOK DEF Message, Ids
<1>3. handler' = [handler EXCEPT ![s] = Idle] /\ out' = Pushed(s, m)
  BY DEF Respond
<1> HIDE DEF m
<1>4. out' \in [Sessions -> Seq(Message)]
  BY <1>1, <1>2, <1>3, PushedTyped
<1>. QED
  BY <1>1, <1>3, <1>4, IdleIsHandler, SessionStepKeepsTypes DEF Respond

LEMMA EndSessionKeepsTypes ==
  ASSUME TypeInv, NEW s \in Sessions, EndSession(s), UNCHANGED scope
  PROVE  TypeInv'
<1> DEFINE h == Doing("ended", Failed, NoCall, <<>>)
<1>1. TreeTyped /\ ServerTyped /\ ListTyped /\ DevicesTyped /\ CallsTyped /\ BoundsTyped
  BY TypeInvParts
<1>2. h \in Handler /\ h.stage = "ended"
  BY FailedIsChange DEF Doing, Handler
<1>3. handler' = [handler EXCEPT ![s] = h] /\ handler[s].stage = "idle" /\ out' = out
  BY DEF EndSession
<1> HIDE DEF h
<1>4. ServerTyped' /\ handler'[s] = h /\ \A t \in Sessions : t # s => handler'[t] = handler[t]
  BY <1>1, <1>2, <1>3, HandlerTyped
<1>5. TreeTyped' /\ DevicesTyped' /\ BoundsTyped'
  BY <1>1, SameTree DEF DevicesTyped, BoundsTyped, clients, history, EndSession
<1>6. CallsTyped'
  BY <1>1, <1>2, <1>3, <1>4 DEF CallsTyped, clients, Given, EndSession
<1>7. ListTyped'
  <2>1. \E i \in 1..Len(registered) : registered[i] = s
    BY <1>1, <1>3 DEF ListTyped
  <2>2. registered' = Without(registered, s)
    BY DEF EndSession
  <2> DEFINE rest == Without(registered, s)
  <2>3. /\ rest \in Seq(Sessions)
        /\ \A i, j \in 1..Len(rest) : rest[i] = rest[j] => i = j
        /\ \A t \in Sessions :
             (\E i \in 1..Len(rest) : rest[i] = t) <=>
               t # s /\ (\E i \in 1..Len(registered) : registered[i] = t)
    BY <1>1, <2>1, WithoutIsRest DEF ListTyped
  <2> HIDE DEF rest
  <2>. QED
    BY <1>1, <1>2, <1>4, <2>2, <2>3 DEF ListTyped, rest
<1>. QED
  BY <1>4, <1>5, <1>6, <1>7, TypeInvPartsNext

LEMMA ConnectKeepsTypes ==
  ASSUME TypeInv, NEW d \in Devices, NEW s \in Sessions, Connect(d, s), UNCHANGED scope
  PROVE  TypeInv'
<1> DEFINE e == [id |-> s, device |-> d, state |-> "asked", op |-> "fetch",
                 node |-> Root, parent |-> Root, result |-> Failed]
<1>1. TreeTyped /\ ServerTyped /\ ListTyped /\ DevicesTyped /\ CallsTyped /\ BoundsTyped
  BY TypeInvParts
<1>2. handler[s].stage = "new" /\ handler' = [handler EXCEPT ![s] = Idle] /\ out' = out
  BY DEF Connect
<1>3. ServerTyped' /\ handler'[s] = Idle /\ \A t \in Sessions : t # s => handler'[t] = handler[t]
  BY <1>1, <1>2, IdleIsHandler, HandlerTyped
<1>4. TreeTyped'
  BY <1>1, SameTree DEF Connect
<1>5. BoundsTyped'
  BY <1>1 DEF BoundsTyped, Connect, history
<1>6. DevicesTyped'
  BY <1>1 DEF DevicesTyped, Connect
<1>7. ListTyped'
  <2>1. registered' = Append(registered, s) /\ registered \in Seq(Sessions)
    BY <1>1 DEF Connect, ListTyped
  <2>2. /\ registered' \in Seq(Sessions) /\ Len(registered') = Len(registered) + 1
        /\ Len(registered) \in Nat /\ registered'[Len(registered) + 1] = s
        /\ \A i \in 1..Len(registered) : registered'[i] = registered[i]
    BY <2>1
  <2>3. \A i \in 1..Len(registered) : registered[i] # s
    BY <1>1, <1>2 DEF ListTyped
  <2>4. \A i, j \in 1..Len(registered') : registered'[i] = registered'[j] => i = j
    BY <1>1, <2>2, <2>3 DEF ListTyped
  <2>5. ASSUME NEW t \in Sessions
        PROVE  (\E i \in 1..Len(registered') : registered'[i] = t)
                 <=> t = s \/ \E i \in 1..Len(registered) : registered[i] = t
    BY <2>2
  <2>. QED
    BY <1>1, <1>3, <2>2, <2>4, <2>5, IdleIsHandler DEF ListTyped
<1>8. CallsTyped'
  <2>1. e \in Call /\ e.id = s /\ e.op = "fetch"
    BY FailedIsChange DEF Call, Parents
  <2>2. \A c \in calls : c.id # s
    BY <1>1, <1>2 DEF CallsTyped, Given
  <2>3. calls' = calls \cup {e} /\ asked' = asked
    BY DEF Connect
  <2> HIDE DEF e
  <2>4. CallsOK(calls')
    BY <1>1, <2>1, <2>2, <2>3, CallAdded DEF CallsTyped
  <2>5. \A c \in calls' : Given(c.id)'
    BY <1>1, <1>3, <2>1, <2>3, IdleIsHandler DEF CallsTyped, Given
  <2>. QED
    BY <2>4, <2>5 DEF CallsTyped
<1>. QED
  BY <1>3, <1>4, <1>5, <1>6, <1>7, <1>8, TypeInvPartsNext

LEMMA AskKeepsTypes ==
  ASSUME TypeInv, NEW d \in Devices, NEW op \in {"create", "update", "delete"},
         NEW n \in Parents, NEW p \in Parents, Ask(d, op, n, p), UNCHANGED scope
  PROVE  TypeInv'
<1> DEFINE e == [id |-> asked + 1, device |-> d, state |-> "asked", op |-> op,
                 node |-> n, parent |-> p, result |-> Failed]
<1>1. TreeTyped /\ ServerTyped /\ ListTyped /\ DevicesTyped /\ CallsTyped /\ BoundsTyped
  BY TypeInvParts
<1>2. TreeTyped' /\ ServerTyped' /\ ListTyped' /\ DevicesTyped'
  BY <1>1, SameTree DEF Ask, server, history, ServerTyped, ListTyped, DevicesTyped
<1>3. asked \in Nat /\ scope.changes \in Nat /\ MaxChanges \in Nat /\ scope.changes <= MaxChanges
      /\ asked < scope.changes /\ asked' = asked + 1
  BY <1>1, ConstantsOK DEF BoundsTyped, Scenario, Ask
<1>4. BoundsTyped'
  BY <1>1, <1>3 DEF BoundsTyped, Ask, history
<1>5. e \in Call /\ e.id = asked + 1 /\ e.op # "fetch" /\ e.id \notin Sessions
  BY <1>3, FailedIsChange, ConstantsOK DEF Call
<1>6. \A c \in calls : c.id \in Ids /\ c.id # asked + 1
  BY <1>1, <1>3, <1>5 DEF CallsTyped, CallsOK, Call, Ids, Given
<1>7. calls' = calls \cup {e}
  BY DEF Ask
<1> HIDE DEF e
<1>8. CallsOK(calls')
  BY <1>1, <1>5, <1>6, <1>7, CallAdded DEF CallsTyped
<1>9. \A c \in calls : Given(c.id)'
  <2>1. \A c \in calls : Given(c.id)
    BY <1>1 DEF CallsTyped
  <2>2. handler' = handler /\ \A k \in Ids : k \in Sessions \/ k \in Nat
    BY <1>3 DEF Ask, server, Ids
  <2>. QED
    BY <1>3, <1>6, <2>1, <2>2 DEF Given
<1>10. CallsTyped'
  BY <1>3, <1>5, <1>7, <1>8, <1>9 DEF CallsTyped, Given
<1>. QED
  BY <1>2, <1>4, <1>10, TypeInvPartsNext

\* What a caller leaves behind that gives up
LEMMA AbandonedIs ==
  ASSUME NEW c \in Call, NEW e \in Abandoned(c)
  PROVE  e \in Call /\ e.id = c.id /\ e.op = c.op /\ e.device = c.device
         /\ e.state = "unclaimed" /\ c.op # "fetch" /\ c.state \in {"asked", "unclaimed"}
<1>1. c.op # "fetch" /\ c.state \in {"asked", "unclaimed"} /\ e = [c EXCEPT !.state = "unclaimed"]
  BY DEF Abandoned
<1>. QED
  BY <1>1 DEF Call

LEMMA AbandonedIsOne ==
  ASSUME NEW c, NEW e1 \in Abandoned(c), NEW e2 \in Abandoned(c)
  PROVE  e1 = e2
BY DEF Abandoned

\* A step of a device that changes its calls and what it holds, or what comes to it
LEMMA DeviceStepKeepsTypes ==
  ASSUME TypeInv, UNCHANGED <<database, registered, handler, asked, scope>>,
         CallsOK(calls'), \A e \in calls' : \E c \in calls : e.id = c.id,
         out' \in [Sessions -> Seq(Message)], DevicesTyped',
         faults' \in 0..scope.faults, raced' \in SUBSET Devices
  PROVE  TypeInv'
<1>1. TreeTyped /\ ServerTyped /\ ListTyped /\ DevicesTyped /\ CallsTyped /\ BoundsTyped
  BY TypeInvParts
<1>2. TreeTyped' /\ ServerTyped' /\ ListTyped' /\ BoundsTyped'
  BY <1>1, SameTree DEF ServerTyped, ListTyped, BoundsTyped
<1>3. CallsTyped'
  BY <1>1 DEF CallsTyped, Given
<1>. QED
  BY <1>2, <1>3, TypeInvPartsNext

LEMMA FaultTyped ==
  ASSUME TypeInv, faults < scope.faults, faults' = faults + 1
  PROVE  faults' \in 0..scope.faults
BY TypeInvParts DEF BoundsTyped, Scenario

LEMMA TimeOutKeepsTypes ==
  ASSUME TypeInv, NEW c \in calls, TimeOut(c), UNCHANGED scope
  PROVE  TypeInv'
<1>1. TreeTyped /\ ServerTyped /\ ListTyped /\ DevicesTyped /\ CallsTyped /\ BoundsTyped
  BY TypeInvParts
<1>2. c \in Call /\ c.device \in Devices
  BY CallTyped
<1>3. calls' = (calls \ {c}) \cup Abandoned(c)
  BY DEF TimeOut
<1>4. CallsOK(calls')
  <2>1. \A e \in Abandoned(c) : e \in Call /\ \E k \in {c} : e.id = k.id /\ e.op = k.op
    BY <1>2, AbandonedIs
  <2>2. \A e1, e2 \in Abandoned(c) : e1 = e2
    BY AbandonedIsOne
  <2>. QED
    BY <1>1, <1>3, <2>1, <2>2, CallsReplaced DEF CallsTyped
<1>5. \A e \in calls' : \E k \in calls : e.id = k.id
  BY <1>2, <1>3, AbandonedIs
<1>6. DevicesTyped' /\ out' \in [Sessions -> Seq(Message)]
  BY <1>1 DEF DevicesTyped, TimeOut, server, ServerTyped
<1>7. faults' \in 0..scope.faults /\ raced' \in SUBSET Devices
  BY <1>1, <1>2, FaultTyped DEF TimeOut, BoundsTyped
<1>. QED
  BY <1>4, <1>5, <1>6, <1>7, DeviceStepKeepsTypes DEF TimeOut, server

\* What a disconnected device does with its calls: some are gone, or left behind
LEMMA DisconnectCalls ==
  ASSUME TypeInv, NEW d \in Devices, Disconnect(d)
  PROVE  /\ CallsOK(calls')
         /\ \A e \in calls' : \E c \in calls :
              /\ e.id = c.id /\ e.op = c.op /\ e.device = c.device
              /\ \/ e = c /\ (c.device # d \/ c.state = "answered")
                 \/ /\ e.state = "unclaimed" /\ c.device = d
                    /\ c.op # "fetch" /\ c.state \in {"asked", "unclaimed"}
         /\ \A c \in calls : c.device # d \/ c.state = "answered" => c \in calls'
<1> DEFINE mine == {c \in calls : c.device = d /\ c.state # "answered"}
<1>1. PICK lost \in SUBSET mine :
        calls' = (calls \ mine) \cup UNION {Abandoned(c) : c \in mine \ lost}
  BY DEF Disconnect
<1> DEFINE come == UNION {Abandoned(c) : c \in mine \ lost}
<1>2. CallsOK(calls) /\ calls \subseteq Call
  BY TypeInvParts DEF CallsTyped, CallsOK
<1>3. ASSUME NEW e \in come
      PROVE  \E c \in mine : e \in Abandoned(c) /\ e \in Call /\ e.id = c.id /\ e.op = c.op
                /\ e.device = c.device /\ e.state = "unclaimed" /\ c.op # "fetch"
                /\ c.state \in {"asked", "unclaimed"}
  <2>1. PICK c \in mine \ lost : e \in Abandoned(c)
    OBVIOUS
  <2>. QED
    BY <1>2, <2>1, AbandonedIs
<1>4. ASSUME NEW e1 \in come, NEW e2 \in come, e1.id = e2.id  PROVE e1 = e2
  <2>1. PICK c1 \in mine : e1 \in Abandoned(c1) /\ e1.id = c1.id
    BY <1>3
  <2>2. PICK c2 \in mine : e2 \in Abandoned(c2) /\ e2.id = c2.id
    BY <1>3
  <2>3. c1 = c2
    BY <1>2, <1>4, <2>1, <2>2 DEF CallsOK
  <2>. QED
    BY <2>1, <2>2, <2>3, AbandonedIsOne
<1>5. calls' = (calls \ mine) \cup come
  BY <1>1
<1>6. mine \in SUBSET calls
  OBVIOUS
<1>7. \A e \in come : e \in Call /\ \E c \in mine : e.id = c.id /\ e.op = c.op
  BY <1>3
<1> HIDE DEF come
<1>8. CallsOK(calls')
  <2> HIDE DEF mine
  <2>. QED
    BY <1>2, <1>4, <1>5, <1>6, <1>7, CallsReplaced
<1>. QED
  BY <1>3, <1>5, <1>8

LEMMA DisconnectKeepsTypes ==
  ASSUME TypeInv, NEW d \in Devices, Disconnect(d), UNCHANGED scope
  PROVE  TypeInv'
<1>1. TreeTyped /\ ServerTyped /\ ListTyped /\ DevicesTyped /\ CallsTyped /\ BoundsTyped
  BY TypeInvParts
<1>2. link[d] \in Sessions /\ out' = [out EXCEPT ![link[d]] = <<>>]
  BY <1>1 DEF Disconnect, DevicesTyped
<1>3. out' \in [Sessions -> Seq(Message)]
  BY <1>1, <1>2 DEF ServerTyped
<1>4. DevicesTyped'
  BY <1>1 DEF DevicesTyped, Disconnect
<1>5. faults' \in 0..scope.faults /\ raced' \in SUBSET Devices
  BY <1>1, FaultTyped DEF Disconnect, BoundsTyped
<1>. QED
  <2>1. CallsOK(calls') /\ \A e \in calls' : \E c \in calls : e.id = c.id
    BY DisconnectCalls
  <2>2. UNCHANGED <<database, registered, handler, asked>>
    BY DEF Disconnect
  <2>. QED
    BY <1>3, <1>4, <1>5, <2>1, <2>2, DeviceStepKeepsTypes

\* What is received is a message, and the rest stays on its way.
LEMMA ReceivedTyped ==
  ASSUME TypeInv, NEW d \in Devices, link[d] # NoSession, out[link[d]] # <<>>,
         out' = [out EXCEPT ![link[d]] = Tail(out[link[d]])]
  PROVE  /\ link[d] \in Sessions /\ out[link[d]] \in Seq(Message)
         /\ Head(out[link[d]]) \in Message /\ Head(out[link[d]]) = out[link[d]][1]
         /\ out' \in [Sessions -> Seq(Message)]
         /\ Len(out[link[d]]) \in Nat /\ 1 \in 1..Len(out[link[d]])
         /\ \A i \in 1..Len(out'[link[d]]) :
              i + 1 \in 1..Len(out[link[d]]) /\ out'[link[d]][i] = out[link[d]][i + 1]
         /\ \A i \in 1..Len(out[link[d]]) :
              i # 1 => i - 1 \in 1..Len(out'[link[d]]) /\ out[link[d]][i] = out'[link[d]][i - 1]
         /\ \A s \in Sessions : s # link[d] => out'[s] = out[s]
<1>1. link[d] \in Sessions /\ out \in [Sessions -> Seq(Message)]
  BY TypeInvParts DEF DevicesTyped, ServerTyped
<1> DEFINE q == out[link[d]]
<1>2. q \in Seq(Message) /\ q # <<>>
  BY <1>1
<1>3. out' = [out EXCEPT ![link[d]] = Tail(q)]
  OBVIOUS
<1> HIDE DEF q
<1>4. /\ Head(q) \in Message /\ Head(q) = q[1] /\ Tail(q) \in Seq(Message)
      /\ Len(q) \in Nat /\ Len(q) > 0 /\ Len(Tail(q)) = Len(q) - 1
      /\ \A i \in 1..Len(q) - 1 : Tail(q)[i] = q[i + 1]
  BY <1>2
<1>5. out'[link[d]] = Tail(q) /\ out' \in [Sessions -> Seq(Message)]
      /\ \A s \in Sessions : s # link[d] => out'[s] = out[s]
  BY <1>1, <1>3, <1>4
<1>6. \A i \in 1..Len(Tail(q)) : i + 1 \in 1..Len(q) /\ Tail(q)[i] = q[i + 1]
  BY <1>4
<1>7. \A i \in 1..Len(q) : i # 1 => i - 1 \in 1..Len(Tail(q)) /\ q[i] = Tail(q)[i - 1]
  BY <1>4
<1>8. 1 \in 1..Len(q)
  BY <1>4
<1>. QED
  BY <1>1, <1>2, <1>4, <1>5, <1>6, <1>7, <1>8 DEF q

LEMMA MessageParts ==
  ASSUME NEW m \in Message
  PROVE  m.call \in Ids \cup {NoCall} /\ m.origin \in Devices /\ m.change \in Change
BY DEF Message, Ids

LEMMA ReceiveNotificationKeepsTypes ==
  ASSUME TypeInv, NEW d \in Devices, ReceiveNotification(d), UNCHANGED scope
  PROVE  TypeInv'
<1>1. TreeTyped /\ ServerTyped /\ ListTyped /\ DevicesTyped /\ CallsTyped /\ BoundsTyped
  BY TypeInvParts
<1> DEFINE m == Head(out[link[d]])
<1>2. m \in Message /\ out' \in [Sessions -> Seq(Message)]
  BY ReceivedTyped DEF ReceiveNotification
<1>3. local' = local \/ local' = [local EXCEPT ![d] = Applied(local[d], m.change)]
  BY DEF ReceiveNotification
<1> HIDE DEF m
<1>4. local' \in [Devices -> Rows]
  BY <1>1, <1>2, <1>3, MessageParts, AppliedIsRows DEF DevicesTyped
<1>5. DevicesTyped'
  BY <1>1, <1>4 DEF DevicesTyped, ReceiveNotification
<1>. QED
  BY <1>1, <1>2, <1>5, DeviceStepKeepsTypes
  DEF ReceiveNotification, history, CallsTyped, BoundsTyped

\* A response wakes at most the one thread that waits for it.
LEMMA ResponseCalls ==
  ASSUME TypeInv, NEW d \in Devices, ReceiveResponse(d), NEW m, m = Head(out[link[d]])
  PROVE  /\ CallsOK(calls') /\ m \in Message
         /\ \A e \in calls' : \E c \in calls :
              /\ e.id = c.id /\ e.op = c.op /\ e.device = c.device
              /\ \/ e = c /\ (c.id # m.call \/ c.state # "taken")
                 \/ /\ c.id = m.call /\ c.state = "taken"
                    /\ e.state = "answered" /\ e.result = m.change
         /\ \A c \in calls :
              IF c.id = m.call /\ c.state = "taken"
                THEN \E e \in calls' : e.device = c.device /\ e.op = c.op /\ e.id = c.id
                                       /\ e.state = "answered" /\ e.result = m.change
                ELSE c \in calls'
<1> DEFINE waiting == {c \in calls : c.id = m.call /\ c.state = "taken"}
           Woken(c) == [c EXCEPT !.state = "answered", !.result = m.change]
           come == {Woken(c) : c \in waiting}
<1>1. calls' = (calls \ waiting) \cup come
  BY DEF ReceiveResponse
<1>2. CallsOK(calls) /\ calls \subseteq Call
  BY TypeInvParts DEF CallsTyped, CallsOK
<1>3. m \in Message /\ m.change \in Change
  BY ReceivedTyped, MessageParts DEF ReceiveResponse
<1>4. ASSUME NEW c \in waiting
      PROVE  Woken(c) \in Call /\ Woken(c).id = c.id /\ Woken(c).op = c.op
             /\ Woken(c).device = c.device /\ Woken(c).state = "answered"
             /\ Woken(c).result = m.change
  BY <1>2, <1>3 DEF Call
<1> HIDE DEF Woken
<1>5. CallsOK(calls')
  <2>1. waiting \in SUBSET calls
    OBVIOUS
  <2>2. \A e \in come : e \in Call /\ \E c \in waiting : e.id = c.id /\ e.op = c.op
    BY <1>4
  <2>3. \A e1, e2 \in come : e1.id = e2.id => e1 = e2
    BY <1>2, <1>4 DEF CallsOK
  <2> HIDE DEF waiting, come
  <2>. QED
    BY <1>1, <1>2, <2>1, <2>2, <2>3, CallsReplaced
<1>6. \A c \in calls : c \in waiting \/ c \in calls'
  BY <1>1
<1>7. \A c \in waiting : Woken(c) \in calls'
  BY <1>1
<1>. QED
  BY <1>1, <1>3, <1>4, <1>5, <1>6, <1>7

LEMMA ReceiveResponseKeepsTypes ==
  ASSUME TypeInv, NEW d \in Devices, ReceiveResponse(d), UNCHANGED scope
  PROVE  TypeInv'
<1>1. TreeTyped /\ ServerTyped /\ ListTyped /\ DevicesTyped /\ CallsTyped /\ BoundsTyped
  BY TypeInvParts
<1>2. out' \in [Sessions -> Seq(Message)]
  BY ReceivedTyped DEF ReceiveResponse
<1>3. CallsOK(calls') /\ \A e \in calls' : \E c \in calls : e.id = c.id
  BY ResponseCalls
<1>4. DevicesTyped'
  BY <1>1 DEF DevicesTyped, ReceiveResponse
<1>. QED
  BY <1>1, <1>2, <1>3, <1>4, DeviceStepKeepsTypes DEF ReceiveResponse, history, BoundsTyped

LEMMA PostKeepsTypes ==
  ASSUME TypeInv, NEW c \in calls, Post(c), UNCHANGED scope
  PROVE  TypeInv'
<1>1. TreeTyped /\ ServerTyped /\ ListTyped /\ DevicesTyped /\ CallsTyped /\ BoundsTyped
  BY TypeInvParts
<1>2. c.device \in Devices /\ c.result \in Change
  BY CallTyped
<1>3. local[c.device] \in Rows /\ Applied(local[c.device], c.result) \in Rows
  BY <1>1, <1>2, AppliedIsRows DEF DevicesTyped
<1>4. DevicesTyped'
  BY <1>1, <1>2, <1>3 DEF DevicesTyped, Post
<1>5. calls' = calls \ {c} /\ CallsOK(calls')
  BY <1>1 DEF Post, CallsTyped, CallsOK
<1>. QED
  BY <1>1, <1>4, <1>5, DeviceStepKeepsTypes DEF Post, history, server, ServerTyped, BoundsTyped

-----------------------------------------------------------------------------
(* The steps, as the proofs take them                                        *)

\* All requests of the user are alike to what follows.
LEMMA UserAsks ==
  ASSUME TypeInv, NEW d \in Devices,
         \/ \E p \in Parents : AddFolder(d, p)
         \/ \E n \in Nodes : ConfigureNode(d, n) \/ DeleteNode(d, n)
         \/ \E n \in Nodes, p \in Parents : MoveNode(d, n, p)
  PROVE  \E op \in {"create", "update", "delete"}, n \in Parents, p \in Parents : Ask(d, op, n, p)
<1>1. Root \in Parents /\ \A n \in Nodes : n \in Parents
  BY DEF Parents
<1>2. ASSUME NEW p \in Parents, AddFolder(d, p)  PROVE Ask(d, "create", Root, p)
  BY <1>2 DEF AddFolder
<1>3. ASSUME NEW n \in Nodes, DeleteNode(d, n)  PROVE Ask(d, "delete", n, Root)
  BY <1>3 DEF DeleteNode
<1>4. ASSUME NEW n \in Nodes, NEW p \in Parents, MoveNode(d, n, p)  PROVE Ask(d, "update", n, p)
  BY <1>4 DEF MoveNode
<1>5. ASSUME NEW n \in Nodes, ConfigureNode(d, n)
      PROVE  Ask(d, "update", n, local[d][n]) /\ local[d][n] \in Parents
  <2>1. local[d] \in Rows /\ n \in DOMAIN local[d]
    BY <1>5, TypeInvParts DEF ConfigureNode, Shown, Below, DevicesTyped
  <2>. QED
    BY <1>5, <2>1, RowsAre DEF ConfigureNode
<1>. QED
  BY <1>1, <1>2, <1>3, <1>4, <1>5

LEMMA Steps ==
  ASSUME TypeInv, Step
  PROVE  \/ \E d \in Devices, s \in Sessions : Connect(d, s)
         \/ \E d \in Devices, op \in {"create", "update", "delete"}, n \in Parents, p \in Parents :
              Ask(d, op, n, p)
         \/ \E d \in Devices : Disconnect(d) \/ ReceiveNotification(d) \/ ReceiveResponse(d)
         \/ \E c \in calls : TimeOut(c) \/ Post(c)
         \/ \E s \in Sessions, c \in calls :
              \/ HandleCreate(s, c) \/ HandleUpdate(s, c) \/ HandleDelete(s, c)
              \/ HandleRefused(s, c) \/ HandleFetchTree(s, c)
         \/ \E s \in Sessions : CopyTargets(s) \/ Notify(s) \/ Respond(s) \/ EndSession(s)
BY UserAsks DEF Step

LEMMA TypeInvHolds ==
  ASSUME TypeInv, [Next]_vars
  PROVE  TypeInv'
<1>1. CASE Step /\ UNCHANGED scope
  <2>1. ASSUME NEW d \in Devices, NEW s \in Sessions, Connect(d, s)  PROVE TypeInv'
    BY <1>1, <2>1, ConnectKeepsTypes
  <2>2. ASSUME NEW d \in Devices, NEW op \in {"create", "update", "delete"}, NEW n \in Parents,
               NEW p \in Parents, Ask(d, op, n, p)
        PROVE  TypeInv'
    BY <1>1, <2>2, AskKeepsTypes
  <2>3. ASSUME NEW d \in Devices, Disconnect(d) \/ ReceiveNotification(d) \/ ReceiveResponse(d)
        PROVE  TypeInv'
    BY <1>1, <2>3, DisconnectKeepsTypes, ReceiveNotificationKeepsTypes, ReceiveResponseKeepsTypes
  <2>4. ASSUME NEW c \in calls, TimeOut(c) \/ Post(c)  PROVE TypeInv'
    BY <1>1, <2>4, TimeOutKeepsTypes, PostKeepsTypes
  <2>5. ASSUME NEW s \in Sessions, NEW c \in calls,
               \/ HandleCreate(s, c) \/ HandleUpdate(s, c) \/ HandleDelete(s, c)
               \/ HandleRefused(s, c) \/ HandleFetchTree(s, c)
        PROVE  TypeInv'
    BY <1>1, <2>5, HandleCreateKeepsTypes, HandleUpdateKeepsTypes, HandleDeleteKeepsTypes,
       HandleRefusedKeepsTypes, HandleFetchTreeKeepsTypes
  <2>6. ASSUME NEW s \in Sessions, CopyTargets(s) \/ Notify(s) \/ Respond(s) \/ EndSession(s)
        PROVE  TypeInv'
    BY <1>1, <2>6, CopyTargetsKeepsTypes, NotifyKeepsTypes, RespondKeepsTypes, EndSessionKeepsTypes
  <2>. QED
    BY <1>1, <2>1, <2>2, <2>3, <2>4, <2>5, <2>6, Steps
<1>2. CASE UNCHANGED vars
  <2>1. TreeTyped /\ ServerTyped /\ ListTyped /\ DevicesTyped /\ CallsTyped /\ BoundsTyped
    BY TypeInvParts
  <2>2. TreeTyped' /\ ServerTyped' /\ ListTyped' /\ DevicesTyped' /\ CallsTyped' /\ BoundsTyped'
    BY <1>2, <2>1, SameTree DEF vars, server, clients, history, ServerTyped, ListTyped,
       DevicesTyped, CallsTyped, Given, BoundsTyped
  <2>. QED
    BY <2>2, TypeInvPartsNext
<1>. QED
  BY <1>1, <1>2 DEF Next

LEMMA TypeInvInit == Init => TypeInv
<1> SUFFICES ASSUME Init  PROVE TypeInv
  OBVIOUS
<1>1. scope \in Scenario /\ scope.changes \in Nat /\ scope.faults \in Nat
  BY ScenariosOK, ConstantsOK DEF Init, Scenario
<1>2. TreeTyped
  BY DEF Init, TreeTyped, Forest!Row
<1>3. ServerTyped
  BY FailedIsChange DEF Init, ServerTyped, Doing, Handler
<1>4. ListTyped
  BY DEF Init, ListTyped, Doing
<1>5. DevicesTyped
  <2>1. [n \in {} |-> Root] \in Rows
    BY RowsAre
  <2>. QED
    BY <2>1 DEF Init, DevicesTyped
<1>6. CallsTyped
  BY DEF Init, CallsTyped, CallsOK
<1>7. BoundsTyped
  BY <1>1 DEF Init, BoundsTyped
<1>. QED
  BY <1>2, <1>3, <1>4, <1>5, <1>6, <1>7, TypeInvParts

\* TypeOK: the variables keep their types, request ids are not used twice, and
\* registerSession and unregisterSession keep sessions_by_user_ to the sessions
\* that are served, each once.
THEOREM TypeCorrect == Spec => []TypeOK
<1>1. TypeInv => TypeOK
  BY DEF TypeInv
<1>. QED
  BY <1>1, TypeInvInit, TypeInvHolds, PTL DEF Spec

-----------------------------------------------------------------------------
(* Requests and their answers                                                *)

LEMMA NothingIsForgotten ==
  ASSUME TypeInv, Step
  PROVE  asked' >= asked /\ \A s \in Sessions : handler'[s].stage = "new" => handler[s].stage = "new"
<1>1. asked \in Nat /\ handler \in [Sessions -> Handler]
  BY TypeInvParts, ConstantsOK DEF BoundsTyped, Scenario, ServerTyped
<1>2. ASSUME NEW d \in Devices, NEW s \in Sessions, Connect(d, s)
      PROVE  asked' = asked /\ \A t \in Sessions : handler'[t].stage = "new" => handler[t].stage = "new"
  BY <1>1, <1>2 DEF Connect
<1>3. ASSUME NEW d \in Devices, NEW op, NEW n, NEW p, Ask(d, op, n, p)
      PROVE  asked' >= asked /\ handler' = handler
  BY <1>1, <1>3 DEF Ask, server
<1>4. ASSUME NEW d \in Devices, Disconnect(d) \/ ReceiveNotification(d) \/ ReceiveResponse(d)
      PROVE  asked' = asked /\ handler' = handler
  BY <1>4 DEF Disconnect, ReceiveNotification, ReceiveResponse
<1>5. ASSUME NEW c \in calls, TimeOut(c) \/ Post(c)
      PROVE  asked' = asked /\ handler' = handler
  BY <1>5 DEF TimeOut, Post, server
<1>6. ASSUME NEW s \in Sessions, NEW c \in calls,
             \/ HandleCreate(s, c) \/ HandleUpdate(s, c) \/ HandleDelete(s, c)
             \/ HandleRefused(s, c) \/ HandleFetchTree(s, c)
      PROVE  asked' = asked /\ \A t \in Sessions : handler'[t].stage = "new" => handler[t].stage = "new"
  BY <1>1, <1>6 DEF HandleCreate, HandleUpdate, HandleDelete, Commits, HandleRefused,
     HandleFetchTree, Doing
<1>7. ASSUME NEW s \in Sessions, CopyTargets(s) \/ Notify(s) \/ Respond(s) \/ EndSession(s)
      PROVE  asked' = asked /\ \A t \in Sessions : handler'[t].stage = "new" => handler[t].stage = "new"
  BY <1>1, <1>7 DEF CopyTargets, Notify, Respond, EndSession, Doing, Idle, clients
<1>. QED
  BY <1>1, <1>2, <1>3, <1>4, <1>5, <1>6, <1>7, Steps

\* Steps that answer nothing
NoNewAnswers == \A k \in Ids : \A x \in Change : Answer(k, x)' => Answer(k, x)

NothingNew == \A x \in Change : OnItsWay(x)' => OnItsWay(x) \/ x = Failed

\* Who waits for the server to read a request has waited before, or has just asked.
Waiting(c)   == c.state \in {"asked", "unclaimed"}
StillWaiting ==
  \A e \in calls' : Waiting(e) => ~Given(e.id) \/ \E c \in calls : c.id = e.id /\ Waiting(c)

LEMMA AnswersStayOne ==
  ASSUME TypeInv, TypeInv', Step, AnswersAreOne, NoNewAnswers, StillWaiting
  PROVE  AnswersAreOne'
<1> SUFFICES ASSUME NEW k \in Ids, NEW x \in Change, Answer(k, x)'
             PROVE  /\ Given(k)'
                    /\ k \in Sessions => x.op = "load"
                    /\ \A y \in Change : Answer(k, y)' => x = y
                    /\ \A c \in calls' : c.id = k => c.state \notin {"asked", "unclaimed"}
  BY DEF AnswersAreOne, Ids
<1>1. Answer(k, x)
  BY DEF NoNewAnswers
<1>2. /\ Given(k) /\ (k \in Sessions => x.op = "load")
      /\ \A y \in Change : Answer(k, y) => x = y
      /\ \A c \in calls : c.id = k => ~Waiting(c)
  BY <1>1 DEF AnswersAreOne, Waiting
<1>3. Given(k)'
  BY <1>2, NothingIsForgotten, StaysGiven, TypeInvParts, TypeInvPartsNext
<1>4. \A y \in Change : Answer(k, y)' => x = y
  BY <1>2 DEF NoNewAnswers
<1>5. \A c \in calls' : c.id = k => ~Waiting(c)
  BY <1>2 DEF StillWaiting
<1>. QED
  BY <1>2, <1>3, <1>4, <1>5 DEF Waiting

\* The handlers and what is on its way to devices are as they were, or some of it
\* has arrived.
Delivering ==
  /\ UNCHANGED handler
  /\ \A s \in Sessions : \A i \in 1..Len(out'[s]) : \E j \in 1..Len(out[s]) : out'[s][i] = out[s][j]

LEMMA DeliveringAnswersNothing == Delivering => NoNewAnswers
BY DEF Delivering, NoNewAnswers, Answer

LEMMA Deliveries ==
  ASSUME TypeInv
  PROVE  /\ \A d \in Devices : \A op, n, p : Ask(d, op, n, p) => Delivering
         /\ \A d \in Devices : Disconnect(d) \/ ReceiveNotification(d) \/ ReceiveResponse(d) => Delivering
         /\ \A c : TimeOut(c) \/ Post(c) => Delivering
<1>1. out \in [Sessions -> Seq(Message)] /\ link \in [Devices -> Sessions \cup {NoSession}]
  BY TypeInvParts DEF ServerTyped, DevicesTyped
<1>2. ASSUME NEW d \in Devices, ReceiveNotification(d) \/ ReceiveResponse(d)
      PROVE  Delivering
  <2>1. link[d] # NoSession /\ out[link[d]] # <<>> /\ handler' = handler
        /\ out' = [out EXCEPT ![link[d]] = Tail(out[link[d]])]
    BY <1>2 DEF ReceiveNotification, ReceiveResponse
  <2>2. /\ \A i \in 1..Len(out'[link[d]]) :
             i + 1 \in 1..Len(out[link[d]]) /\ out'[link[d]][i] = out[link[d]][i + 1]
        /\ \A s \in Sessions : s # link[d] => out'[s] = out[s]
    BY <2>1, ReceivedTyped
  <2>. QED
    BY <2>1, <2>2 DEF Delivering
<1>3. ASSUME NEW d \in Devices, Disconnect(d)  PROVE Delivering
  <2>1. link[d] \in Sessions /\ out' = [out EXCEPT ![link[d]] = <<>>] /\ handler' = handler
    BY <1>1, <1>3 DEF Disconnect
  <2>2. out'[link[d]] = <<>> /\ \A s \in Sessions : s # link[d] => out'[s] = out[s]
    BY <1>1, <2>1
  <2>. QED
    BY <2>1, <2>2 DEF Delivering
<1>4. ASSUME UNCHANGED <<handler, out>>  PROVE Delivering
  BY <1>4 DEF Delivering
<1>. QED
  BY <1>2, <1>3, <1>4 DEF Ask, TimeOut, Post, server

\* What is sent was said by a handler, and what a handler says it has said before.
LEMMA SayingAnswersNothing ==
  ASSUME TypeInv, NEW s \in Sessions, NEW m, UNCHANGED calls,
         \A t \in Sessions :
           \/ handler'[t].call = handler[t].call /\ handler'[t].change = handler[t].change
           \/ handler'[t].call = NoCall /\ handler'[t].change = Failed,
         \A t \in Sessions : \A i \in 1..Len(out'[t]) :
           out'[t][i] = m \/ \E j \in 1..Len(out[t]) : out'[t][i] = out[t][j],
         m.call \in {NoCall, handler[s].call}, m.change = handler[s].change
  PROVE  NoNewAnswers /\ NothingNew
<1>1. NoCall \notin Ids
  BY ConstantsOK DEF Ids
<1>2. ASSUME NEW k \in Ids, NEW x \in Change, Answer(k, x)'  PROVE Answer(k, x)
  <2>1. CASE \E t \in Sessions : handler'[t].call = k /\ handler'[t].change = x
    BY <1>1, <2>1 DEF Answer
  <2>2. ASSUME NEW t \in Sessions, NEW i \in 1..Len(out'[t]), out'[t][i].call = k, out'[t][i].change = x
        PROVE  Answer(k, x)
    <3>1. CASE out'[t][i] = m
      BY <1>1, <2>2, <3>1 DEF Answer
    <3>2. CASE \E j \in 1..Len(out[t]) : out'[t][i] = out[t][j]
      BY <2>2, <3>2 DEF Answer
    <3>. QED
      BY <3>1, <3>2
  <2>. QED
    BY <1>2, <2>1, <2>2 DEF Answer
<1>3. ASSUME NEW x \in Change, OnItsWay(x)'  PROVE OnItsWay(x) \/ x = Failed
  <2>1. CASE \E t \in Sessions : handler'[t].change = x
    BY <2>1 DEF OnItsWay
  <2>2. ASSUME NEW t \in Sessions, NEW i \in 1..Len(out'[t]), out'[t][i].change = x
        PROVE  OnItsWay(x)
    <3>1. CASE out'[t][i] = m
      BY <2>2, <3>1 DEF OnItsWay
    <3>2. CASE \E j \in 1..Len(out[t]) : out'[t][i] = out[t][j]
      BY <2>2, <3>2 DEF OnItsWay
    <3>. QED
      BY <2>2, <3>1, <3>2
  <2>3. CASE \E c \in calls' : c.state = "answered" /\ c.result = x
    BY <2>3 DEF OnItsWay
  <2>. QED
    BY <1>3, <2>1, <2>2, <2>3 DEF OnItsWay
<1>. QED
  BY <1>2, <1>3 DEF NoNewAnswers, NothingNew

\* Steps of a session other than reading a request: what it says is what it was told.
LEMMA TellingAnswersNothing ==
  ASSUME TypeInv, NEW s \in Sessions, CopyTargets(s) \/ Notify(s) \/ Respond(s) \/ EndSession(s)
  PROVE  NoNewAnswers /\ NothingNew
<1>1. ServerTyped /\ DevicesTyped
  BY TypeInvParts
<1>2. NoCall \notin Ids /\ handler \in [Sessions -> Handler]
  BY <1>1, ConstantsOK DEF Ids, ServerTyped
<1>3. CASE CopyTargets(s)
  <2>1. \A t \in Sessions : handler'[t].call = handler[t].call /\ handler'[t].change = handler[t].change
    BY <1>2, <1>3 DEF CopyTargets, Doing
  <2>. QED
    BY <1>3, <2>1 DEF CopyTargets, clients, NoNewAnswers, NothingNew, Answer, OnItsWay
<1>4. CASE EndSession(s)
  <2>1. \A t \in Sessions : \/ handler'[t] = handler[t]
                            \/ handler'[t].call = NoCall /\ handler'[t].change = Failed
    BY <1>2, <1>4 DEF EndSession, Doing
  <2>. QED
    BY <1>2, <1>4, <2>1 DEF EndSession, clients, NoNewAnswers, NothingNew, Answer, OnItsWay
<1>5. ASSUME NEW t \in Sessions, NEW m \in Message, out' = Pushed(t, m)
      PROVE  \A u \in Sessions : \A i \in 1..Len(out'[u]) :
               out'[u][i] = m \/ \E j \in 1..Len(out[u]) : out'[u][i] = out[u][j]
  <2>1. /\ \A u \in Sessions : u # t => out'[u] = out[u]
        /\ out'[t] = Append(out[t], m) \/ out'[t] = out[t]
    BY <1>1, <1>5, PushedTyped
  <2>2. out[t] \in Seq(Message)
    BY <1>1 DEF ServerTyped
  <2>. QED
    BY <2>1, <2>2
<1>6. CASE Notify(s)
  <2> DEFINE m == [call |-> NoCall, origin |-> DeviceOf[s], change |-> handler[s].change]
             t == Head(handler[s].todo)
  <2>1. m \in Message /\ m.call = NoCall /\ m.change = handler[s].change
    BY <1>1, HandlerParts, ConstantsOK DEF Message, Ids
  <2>2. t \in Sessions
    <3>1. handler[s].todo \in Seq(Sessions) /\ handler[s].todo # <<>>
      BY <1>1, <1>6, HandlerParts DEF ServerTyped, Notify
    <3>. QED
      BY <3>1
  <2>3. out' = Pushed(t, m)
    BY <1>6 DEF Notify
  <2>4. \A u \in Sessions : handler'[u].call = handler[u].call /\ handler'[u].change = handler[u].change
    BY <1>2, <1>6 DEF Notify, Doing
  <2> HIDE DEF m, t
  <2>5. \A u \in Sessions : \A i \in 1..Len(out'[u]) :
          out'[u][i] = m \/ \E j \in 1..Len(out[u]) : out'[u][i] = out[u][j]
    BY <1>5, <2>1, <2>2, <2>3
  <2>6. calls' = calls
    BY <1>6 DEF Notify, clients
  <2>. QED
    BY <2>1, <2>4, <2>5, <2>6, SayingAnswersNothing
<1>7. CASE Respond(s)
  <2> DEFINE m == [call |-> handler[s].call, origin |-> DeviceOf[s], change |-> handler[s].change]
  <2>1. m \in Message /\ m.call = handler[s].call /\ m.change = handler[s].change
    BY <1>1, HandlerParts, ConstantsOK DEF Message, Ids
  <2>2. out' = Pushed(s, m)
    BY <1>7 DEF Respond
  <2>3. \A u \in Sessions : \/ handler'[u] = handler[u]
                            \/ handler'[u].call = NoCall /\ handler'[u].change = Failed
    BY <1>2, <1>7, IdleIsHandler DEF Respond
  <2> HIDE DEF m
  <2>4. \A u \in Sessions : \A i \in 1..Len(out'[u]) :
          out'[u][i] = m \/ \E j \in 1..Len(out[u]) : out'[u][i] = out[u][j]
    BY <1>5, <2>1, <2>2
  <2>5. calls' = calls
    BY <1>7 DEF Respond, clients
  <2>. QED
    BY <2>1, <2>3, <2>4, <2>5, SayingAnswersNothing
<1>. QED
  BY <1>3, <1>4, <1>6, <1>7

LEMMA ConnectingAnswersNothing ==
  ASSUME TypeInv, NEW d \in Devices, NEW s \in Sessions, Connect(d, s)
  PROVE  NoNewAnswers /\ NothingNew
<1>1. handler \in [Sessions -> Handler] /\ NoCall \notin Ids
  BY TypeInvParts, ConstantsOK DEF ServerTyped, Ids
<1>2. \A t \in Sessions : \/ handler'[t] = handler[t]
                          \/ handler'[t].call = NoCall /\ handler'[t].change = Failed
  BY <1>1, IdleIsHandler DEF Connect
<1>3. out' = out /\ \A c \in calls' : c.state = "answered" => c \in calls
  BY DEF Connect
<1>. QED
  BY <1>1, <1>2, <1>3 DEF NoNewAnswers, NothingNew, Answer, OnItsWay

\* What a device gets is what was on its way to it.
LEMMA DeliveriesAreNothingNew ==
  ASSUME TypeInv
  PROVE  /\ \A d \in Devices : \A op, n, p : Ask(d, op, n, p) => NothingNew
         /\ \A d \in Devices : Disconnect(d) \/ ReceiveNotification(d) \/ ReceiveResponse(d) => NothingNew
         /\ \A c \in calls : TimeOut(c) \/ Post(c) => NothingNew
<1>1. ASSUME Delivering, \A c \in calls' : c.state = "answered" => c \in calls
      PROVE  NothingNew
  BY <1>1 DEF Delivering, NothingNew, OnItsWay
<1>2. ASSUME NEW d \in Devices, NEW op, NEW n, NEW p, Ask(d, op, n, p)  PROVE NothingNew
  <2>1. \A c \in calls' : c.state = "answered" => c \in calls
    BY <1>2 DEF Ask
  <2>. QED
    BY <1>1, <1>2, <2>1, Deliveries
<1>3. ASSUME NEW d \in Devices, Disconnect(d)  PROVE NothingNew
  <2>1. \A c \in calls' : c.state = "answered" => c \in calls
    BY <1>3, DisconnectCalls
  <2>. QED
    BY <1>1, <1>3, <2>1, Deliveries
<1>4. ASSUME NEW d \in Devices, ReceiveNotification(d)  PROVE NothingNew
  <2>1. calls' = calls
    BY <1>4 DEF ReceiveNotification
  <2>. QED
    BY <1>1, <1>4, <2>1, Deliveries
<1>5. ASSUME NEW d \in Devices, ReceiveResponse(d)  PROVE NothingNew
  <2> DEFINE m == Head(out[link[d]])
  <2>1. \A e \in calls' : e.state = "answered" => e \in calls \/ e.result = m.change
    BY <1>5, ResponseCalls
  <2>2. link[d] \in Sessions /\ m = out[link[d]][1] /\ 1 \in 1..Len(out[link[d]])
    BY <1>5, ReceivedTyped DEF ReceiveResponse
  <2>3. Delivering
    BY <1>5, Deliveries
  <2> HIDE DEF m
  <2> SUFFICES ASSUME NEW x \in Change, OnItsWay(x)'  PROVE OnItsWay(x)
    BY DEF NothingNew
  <2>4. CASE \E e \in calls' : e.state = "answered" /\ e.result = x
    <3>1. OnItsWay(m.change)
      BY <2>2 DEF OnItsWay
    <3>. QED
      BY <2>1, <2>4, <3>1 DEF OnItsWay
  <2>5. CASE \E s \in Sessions : handler'[s].change = x
    BY <2>3, <2>5 DEF Delivering, OnItsWay
  <2>6. CASE \E s \in Sessions : \E i \in 1..Len(out'[s]) : out'[s][i].change = x
    BY <2>3, <2>6 DEF Delivering, OnItsWay
  <2>. QED
    BY <2>4, <2>5, <2>6 DEF OnItsWay
<1>6. ASSUME NEW c \in calls, TimeOut(c)  PROVE NothingNew
  <2>1. \A e \in calls' : e.state = "answered" => e \in calls
    BY <1>6, CallTyped, AbandonedIs DEF TimeOut
  <2>. QED
    BY <1>1, <1>6, <2>1, Deliveries
<1>7. ASSUME NEW c \in calls, Post(c)  PROVE NothingNew
  <2>1. \A e \in calls' : e.state = "answered" => e \in calls
    BY <1>7 DEF Post
  <2>. QED
    BY <1>1, <1>7, <2>1, Deliveries
<1>. QED
  BY <1>2, <1>3, <1>4, <1>5, <1>6, <1>7

\* A session that reads a request has one thing to say about it.
LEMMA HandlingAnswersOne ==
  ASSUME TypeInv, NEW s \in Sessions, NEW c \in calls, Takes(s, c), NEW x \in Change, NEW stage,
         handler' = [handler EXCEPT ![s] = Doing(stage, x, c.id, <<>>)], UNCHANGED out
  PROVE  /\ \A k \in Ids, y \in Change : Answer(k, y)' => Answer(k, y) \/ (k = c.id /\ y = x)
         /\ \A y \in Change : OnItsWay(y)' => OnItsWay(y) \/ y = x
<1>1. handler \in [Sessions -> Handler]
  BY TypeInvParts DEF ServerTyped
<1>2. handler'[s].call = c.id /\ handler'[s].change = x /\ \A t \in Sessions : t # s => handler'[t] = handler[t]
  BY <1>1 DEF Doing
<1>3. \A e \in calls' : e.state = "answered" => e \in calls
  <2>1. [c EXCEPT !.state = "taken"].state = "taken"
    BY CallTyped DEF Call
  <2>. QED
    BY <2>1 DEF Takes
<1>. QED
  BY <1>2, <1>3 DEF Answer, OnItsWay

\* A session reads request c, and goes on to say x of it.
Handles(s, c, stage, x) ==
  /\ Takes(s, c)
  /\ handler' = [handler EXCEPT ![s] = Doing(stage, x, c.id, <<>>)]
  /\ UNCHANGED <<registered, out, link, online, local, asked, faults>>

LEMMA Handlings ==
  ASSUME TypeInv, NEW s \in Sessions, NEW c \in calls,
         \/ HandleCreate(s, c) \/ HandleUpdate(s, c) \/ HandleDelete(s, c)
         \/ HandleRefused(s, c) \/ HandleFetchTree(s, c)
  PROVE  \E stage \in {"copy", "reply"} : \E x \in Change :
           Handles(s, c, stage, x) /\ (c.op = "fetch" => x.op = "load")
<1>1. ASSUME NEW n \in Nodes, NEW p \in Parents
      PROVE  /\ [op |-> "upsert", node |-> n, parent |-> p] \in Change
             /\ [op |-> "remove", node |-> n] \in Change
  BY ChangesAreTyped
<1>2. c.parent \in Parents /\ Failed \in Change /\ [op |-> "load", rows |-> Stored] \in Change
  BY CallTyped, FailedIsChange, LoadIsChange
<1>3. ASSUME NEW x \in Change, Commits(s, c, x)  PROVE Handles(s, c, "copy", x)
  BY <1>3 DEF Commits, Handles
<1>4. CASE HandleCreate(s, c)
  BY <1>1, <1>2, <1>3, <1>4 DEF HandleCreate
<1>5. ASSUME Forest!Holds(User, c.node)  PROVE c.node \in Nodes
  BY <1>5, TypeInvParts DEF Forest!Holds, TreeTyped
<1>6. CASE HandleUpdate(s, c)
  <2>1. c.node \in Nodes
    BY <1>5, <1>6 DEF HandleUpdate, Forest!Update
  <2>. QED
    BY <1>1, <1>2, <1>3, <1>6, <2>1 DEF HandleUpdate
<1>7. CASE HandleDelete(s, c)
  <2>1. c.node \in Nodes /\ Root \in Parents
    BY <1>5, <1>7 DEF HandleDelete, Forest!Delete, Parents
  <2>2. [op |-> "remove", node |-> c.node] \in Change
    BY <1>1, <2>1
  <2>. QED
    BY <1>3, <1>7, <2>2 DEF HandleDelete
<1>8. CASE HandleRefused(s, c)
  <2>1. c.op # "fetch" /\ Handles(s, c, "reply", Failed)
    BY <1>8 DEF HandleRefused, Refused, Handles, history
  <2>. QED
    BY <1>2, <2>1
<1>9. CASE HandleFetchTree(s, c)
  BY <1>2, <1>9 DEF HandleFetchTree, Handles
<1>. QED
  BY <1>4, <1>6, <1>7, <1>8, <1>9

\* The step of a session that reads a request, on the calls
LEMMA TakenCalls ==
  ASSUME TypeInv, NEW s \in Sessions, NEW c \in calls, Takes(s, c)
  PROVE  /\ Waiting(c)
         /\ \A e \in calls' :
              \/ e \in calls /\ e.id # c.id
              \/ /\ c.state = "asked" /\ e.state = "taken"
                 /\ e.id = c.id /\ e.op = c.op /\ e.device = c.device
         /\ \A e \in calls : e.id # c.id => e \in calls'
         /\ c.state = "asked" =>
              \E e \in calls' : e.state = "taken" /\ e.id = c.id /\ e.op = c.op /\ e.device = c.device
<1> DEFINE e == [c EXCEPT !.state = "taken"]
<1>1. e.state = "taken" /\ e.id = c.id /\ e.op = c.op /\ e.device = c.device
  BY CallTyped DEF Call
<1>2. \A k \in calls : k # c => k.id # c.id
  BY TypeInvParts DEF CallsTyped, CallsOK
<1>3. calls' = (calls \ {c}) \cup {k \in {e} : c.state = "asked"}
  BY DEF Takes
<1> HIDE DEF e
<1>. QED
  BY <1>1, <1>2, <1>3 DEF Waiting, Takes

\* Steps that read no request
LEMMA QuietSteps ==
  ASSUME TypeInv,
         \/ \E d \in Devices, s \in Sessions : Connect(d, s)
         \/ \E d \in Devices : \E op, n, p : Ask(d, op, n, p)
         \/ \E d \in Devices : Disconnect(d) \/ ReceiveNotification(d) \/ ReceiveResponse(d)
         \/ \E c \in calls : TimeOut(c) \/ Post(c)
         \/ \E s \in Sessions : CopyTargets(s) \/ Notify(s) \/ Respond(s) \/ EndSession(s)
  PROVE  NoNewAnswers /\ NothingNew /\ StillWaiting
<1>1. ASSUME NEW d \in Devices, NEW s \in Sessions, Connect(d, s)  PROVE StillWaiting
  <2> DEFINE e == [id |-> s, device |-> d, state |-> "asked", op |-> "fetch",
                   node |-> Root, parent |-> Root, result |-> Failed]
  <2>1. ~Given(e.id) /\ calls' = calls \cup {e}
    BY <1>1 DEF Connect, Given
  <2>. QED
    BY <2>1 DEF StillWaiting
<1>2. ASSUME NEW d \in Devices, NEW op, NEW n, NEW p, Ask(d, op, n, p)  PROVE StillWaiting
  <2> DEFINE e == [id |-> asked + 1, device |-> d, state |-> "asked", op |-> op,
                   node |-> n, parent |-> p, result |-> Failed]
  <2>1. asked \in Nat /\ asked + 1 \notin Sessions
    BY <1>2, TypeInvParts, ConstantsOK DEF Ask, BoundsTyped, Scenario
  <2>2. ~Given(e.id) /\ calls' = calls \cup {e}
    BY <1>2, <2>1 DEF Ask, Given
  <2>. QED
    BY <2>2 DEF StillWaiting
<1>3. ASSUME NEW d \in Devices, Disconnect(d)  PROVE StillWaiting
  BY <1>3, DisconnectCalls DEF StillWaiting, Waiting
<1>4. ASSUME NEW d \in Devices, ReceiveNotification(d)  PROVE StillWaiting
  BY <1>4 DEF ReceiveNotification, StillWaiting
<1>5. ASSUME NEW d \in Devices, ReceiveResponse(d)  PROVE StillWaiting
  BY <1>5, ResponseCalls DEF StillWaiting, Waiting
<1>6. ASSUME NEW c \in calls, TimeOut(c)  PROVE StillWaiting
  BY <1>6, CallTyped, AbandonedIs DEF TimeOut, StillWaiting, Waiting
<1>7. ASSUME NEW c \in calls, Post(c)  PROVE StillWaiting
  BY <1>7 DEF Post, StillWaiting
<1>8. ASSUME NEW s \in Sessions, CopyTargets(s) \/ Notify(s) \/ Respond(s) \/ EndSession(s)
      PROVE  StillWaiting
  BY <1>8 DEF CopyTargets, Notify, Respond, EndSession, clients, StillWaiting
<1>9. Delivering => NoNewAnswers
  BY DeliveringAnswersNothing
<1>. QED
  BY <1>1, <1>2, <1>3, <1>4, <1>5, <1>6, <1>7, <1>8, <1>9, ConnectingAnswersNothing,
     Deliveries, DeliveriesAreNothingNew, TellingAnswersNothing

LEMMA AnswersAreOneHolds ==
  ASSUME TypeInv, TypeInv', Step, AnswersAreOne
  PROVE  AnswersAreOne'
<1>1. CASE NoNewAnswers /\ StillWaiting
  BY <1>1, AnswersStayOne
<1>2. ASSUME NEW s \in Sessions, NEW c \in calls, NEW stage, NEW x \in Change,
             Handles(s, c, stage, x), c.op = "fetch" => x.op = "load"
      PROVE  AnswersAreOne'
  <2> SUFFICES ASSUME NEW k \in Ids, NEW y \in Change, Answer(k, y)'
               PROVE  /\ Given(k)'
                      /\ k \in Sessions => y.op = "load"
                      /\ \A z \in Change : Answer(k, z)' => y = z
                      /\ \A e \in calls' : e.id = k => ~Waiting(e)
    BY DEF AnswersAreOne, Ids, Waiting
  <2>1. /\ Waiting(c) /\ c.id \in Ids /\ Given(c.id) /\ (c.op = "fetch" <=> c.id \in Sessions)
        /\ \A e \in calls' : (e \in calls /\ e.id # c.id) \/ e.state = "taken"
    BY <1>2, CallTyped, TakenCalls DEF Handles
  <2>2. \A z \in Change : ~Answer(c.id, z)
    BY <2>1 DEF AnswersAreOne, Waiting
  <2>3. \A l \in Ids, z \in Change : Answer(l, z)' => Answer(l, z) \/ (l = c.id /\ z = x)
    BY <1>2, HandlingAnswersOne DEF Handles
  <2>4. Given(k)
    BY <2>1, <2>3 DEF AnswersAreOne
  <2>5. Given(k)'
    BY <2>4, NothingIsForgotten, StaysGiven, TypeInvParts, TypeInvPartsNext
  <2>6. CASE k = c.id
    BY <1>2, <2>1, <2>2, <2>3, <2>5, <2>6 DEF Waiting
  <2>7. CASE k # c.id
    <3>1. Answer(k, y) /\ \A z \in Change : Answer(k, z)' => Answer(k, z)
      BY <2>3, <2>7
    <3>2. \A e \in calls' : e.id = k => ~Waiting(e)
      BY <2>1, <3>1 DEF AnswersAreOne, Waiting
    <3>. QED
      BY <2>5, <3>1, <3>2 DEF AnswersAreOne
  <2>. QED
    BY <2>6, <2>7
<1>. QED
  BY <1>1, <1>2, Steps, QuietSteps, Handlings

LEMMA IdleIsBlankHolds ==
  ASSUME TypeInv, Step, IdleIsBlank
  PROVE  IdleIsBlank'
<1>1. handler \in [Sessions -> Handler]
  BY TypeInvParts DEF ServerTyped
<1>2. CASE UNCHANGED handler
  BY <1>2 DEF IdleIsBlank
<1>3. ASSUME NEW s \in Sessions, NEW h, handler' = [handler EXCEPT ![s] = h],
             h.stage \in {"new", "idle", "ended"} => h.call = NoCall /\ h.change = Failed
      PROVE  IdleIsBlank'
  BY <1>1, <1>3 DEF IdleIsBlank
<1>4. ASSUME NEW d \in Devices, NEW s \in Sessions, Connect(d, s)  PROVE IdleIsBlank'
  BY <1>3, <1>4, IdleIsHandler DEF Connect
<1>5. ASSUME NEW s \in Sessions, NEW c, NEW stage \in {"copy", "reply"}, NEW x, Handles(s, c, stage, x)
      PROVE  IdleIsBlank'
  BY <1>3, <1>5 DEF Handles, Doing
<1>6. ASSUME NEW s \in Sessions, CopyTargets(s) \/ Notify(s)  PROVE IdleIsBlank'
  BY <1>3, <1>6 DEF CopyTargets, Notify, Doing
<1>7. ASSUME NEW s \in Sessions, Respond(s) \/ EndSession(s)  PROVE IdleIsBlank'
  BY <1>3, <1>7, IdleIsHandler DEF Respond, EndSession, Doing
<1>. QED
  BY <1>2, <1>4, <1>5, <1>6, <1>7, Steps, Handlings, Deliveries DEF Delivering

\* A thread is only woken by a response.
LEMMA OnlyResponsesWake ==
  ASSUME TypeInv, Step, NEW e \in calls', e.state = "answered"
  PROVE  \/ e \in calls
         \/ \E d \in Devices : ReceiveResponse(d)
<1>1. ASSUME NEW d \in Devices, NEW s \in Sessions, Connect(d, s)  PROVE e \in calls
  BY <1>1 DEF Connect
<1>2. ASSUME NEW d \in Devices, NEW op, NEW n, NEW p, Ask(d, op, n, p)  PROVE e \in calls
  BY <1>2 DEF Ask
<1>3. ASSUME NEW d \in Devices, Disconnect(d) \/ ReceiveNotification(d)  PROVE e \in calls
  BY <1>3, DisconnectCalls DEF ReceiveNotification
<1>4. ASSUME NEW c \in calls, TimeOut(c) \/ Post(c)  PROVE e \in calls
  BY <1>4, CallTyped, AbandonedIs DEF TimeOut, Post
<1>5. ASSUME NEW s \in Sessions, NEW c \in calls, Takes(s, c)  PROVE e \in calls
  BY <1>5, TakenCalls
<1>6. ASSUME NEW s \in Sessions, CopyTargets(s) \/ Notify(s) \/ Respond(s) \/ EndSession(s)
      PROVE  e \in calls
  BY <1>6 DEF CopyTargets, Notify, Respond, EndSession, clients
<1>. QED
  BY <1>1, <1>2, <1>3, <1>4, <1>5, <1>6, Steps, Handlings DEF Handles

LEMMA TreesAreLoadedHolds ==
  ASSUME TypeInv, Step, AnswersSound
  PROVE  TreesAreLoaded'
<1> SUFFICES ASSUME NEW e \in calls', e.op = "fetch", e.state = "answered"
             PROVE  e.result.op = "load"
  BY DEF TreesAreLoaded
<1>1. CASE e \in calls
  BY <1>1 DEF AnswersSound, TreesAreLoaded
<1>2. ASSUME NEW d \in Devices, ReceiveResponse(d), e \notin calls
      PROVE  e.result.op = "load"
  <2> DEFINE m == Head(out[link[d]])
  <2>1. PICK c \in calls : c.id = m.call /\ c.op = "fetch" /\ e.result = m.change
    BY <1>2, ResponseCalls
  <2>2. m.call \in Ids /\ m.call \in Sessions
    BY <2>1, CallTyped
  <2>3. link[d] \in Sessions /\ m = out[link[d]][1] /\ 1 \in 1..Len(out[link[d]]) /\ m \in Message
    BY <1>2, ReceivedTyped DEF ReceiveResponse
  <2>4. m.change \in Change
    BY <2>3, MessageParts
  <2> HIDE DEF m
  <2>5. Answer(m.call, m.change)
    BY <2>3 DEF Answer
  <2>. QED
    BY <2>1, <2>2, <2>4, <2>5 DEF AnswersSound, AnswersAreOne
<1>. QED
  BY <1>1, <1>2, OnlyResponsesWake

\* A request for the tree stems from one that was under way before the step.
LEMMA FetchesStay ==
  ASSUME TypeInv, TypeInv', FetchesSound,
         \A e \in calls' : e.op = "fetch" =>
           /\ e.state # "unclaimed"
           /\ \E c \in calls : c.id = e.id /\ c.op = "fetch" /\ c.device = e.device
           /\ link'[e.device] # NoSession =>
                link[e.device] # NoSession /\ online'[e.device] = online[e.device]
  PROVE  FetchesSound'
<1>1. \A e1, e2 \in calls' : e1.id = e2.id => e1 = e2
  BY TypeInvPartsNext DEF CallsTyped, CallsOK
<1>. QED
  BY <1>1 DEF FetchesSound

LEMMA FetchesSoundHolds ==
  ASSUME TypeInv, TypeInv', Step, FetchesSound
  PROVE  FetchesSound'
<1>1. /\ link \in [Devices -> Sessions \cup {NoSession}] /\ online \in [Devices -> BOOLEAN]
      /\ \A c \in calls : c.device \in Devices
  BY TypeInvParts, CallTyped DEF DevicesTyped
<1>2. ASSUME NEW d \in Devices, NEW s \in Sessions, Connect(d, s)  PROVE FetchesSound'
  <2> DEFINE e == [id |-> s, device |-> d, state |-> "asked", op |-> "fetch",
                   node |-> Root, parent |-> Root, result |-> Failed]
  <2>1. e.device = d /\ e.state = "asked" /\ calls' = calls \cup {e} /\ online'[d] = FALSE
        /\ \A c \in calls : c.op = "fetch" => c.device # d
    BY <1>1, <1>2 DEF Connect
  <2>2. \A b \in Devices : b # d => link'[b] = link[b] /\ online'[b] = online[b]
    BY <1>1, <1>2 DEF Connect
  <2> HIDE DEF e
  <2>. QED
    BY <1>1, <2>1, <2>2 DEF FetchesSound
<1>3. ASSUME NEW d \in Devices, NEW op \in {"create", "update", "delete"}, NEW n, NEW p, Ask(d, op, n, p)
      PROVE  FetchesSound'
  <2>1. \A e \in calls' : e.op = "fetch" => e \in calls
    BY <1>3 DEF Ask
  <2>. QED
    BY <1>3, <2>1, FetchesStay DEF Ask, FetchesSound
<1>4. ASSUME NEW d \in Devices, Disconnect(d)  PROVE FetchesSound'
  <2>1. \A e \in calls' : e.op = "fetch" => e \in calls
    BY <1>4, DisconnectCalls
  <2>2. \A b \in Devices : link'[b] # NoSession => link'[b] = link[b] /\ online'[b] = online[b]
    BY <1>1, <1>4 DEF Disconnect
  <2>. QED
    BY <1>1, <2>1, <2>2, FetchesStay DEF FetchesSound
<1>5. ASSUME NEW d \in Devices, ReceiveNotification(d)  PROVE FetchesSound'
  BY <1>5, FetchesStay DEF ReceiveNotification, FetchesSound
<1>6. ASSUME NEW d \in Devices, ReceiveResponse(d)  PROVE FetchesSound'
  <2>1. \A e \in calls' : \/ e \in calls
                          \/ /\ e.state = "answered"
                             /\ \E c \in calls : e.id = c.id /\ e.op = c.op /\ e.device = c.device
    BY <1>6, ResponseCalls
  <2>2. \A e \in calls' : e.op = "fetch" =>
          e.state # "unclaimed" /\ \E c \in calls : c.id = e.id /\ c.op = "fetch" /\ c.device = e.device
    BY <2>1 DEF FetchesSound
  <2>3. link' = link /\ online' = online
    BY <1>6 DEF ReceiveResponse
  <2>. QED
    BY <2>2, <2>3, FetchesStay
<1>7. ASSUME NEW c \in calls, TimeOut(c)  PROVE FetchesSound'
  <2>1. \A e \in calls' : e.op = "fetch" => e \in calls
    BY <1>7, CallTyped, AbandonedIs DEF TimeOut
  <2>. QED
    BY <1>7, <2>1, FetchesStay DEF TimeOut, FetchesSound
<1>8. ASSUME NEW c \in calls, Post(c)  PROVE FetchesSound'
  <2>1. \A e \in calls' : e \in calls /\ e # c
    BY <1>8 DEF Post
  <2>2. \A e \in calls' : e.op = "fetch" => online'[e.device] = online[e.device]
    <3> SUFFICES ASSUME NEW e \in calls', e.op = "fetch"  PROVE online'[e.device] = online[e.device]
      OBVIOUS
    <3>1. CASE e.device = c.device
      <4>1. c.op # "fetch"
        BY <2>1, <3>1 DEF FetchesSound
      <4>2. online'[c.device] = (online[c.device] \/ c.op = "fetch")
        BY <1>1, <1>8 DEF Post
      <4>. QED
        BY <1>1, <3>1, <4>1, <4>2
    <3>2. CASE e.device # c.device
      BY <1>1, <1>8, <2>1, <3>2 DEF Post
    <3>. QED
      BY <3>1, <3>2
  <2>. QED
    BY <1>8, <2>1, <2>2, FetchesStay DEF Post, FetchesSound
<1>9. ASSUME NEW s \in Sessions, NEW c \in calls, NEW stage, NEW x, Handles(s, c, stage, x)
      PROVE  FetchesSound'
  <2>1. \A e \in calls' : e \in calls \/ (e.state = "taken" /\ e.id = c.id /\ e.op = c.op /\ e.device = c.device)
    BY <1>9, TakenCalls DEF Handles
  <2>. QED
    BY <1>9, <2>1, FetchesStay DEF Handles, FetchesSound
<1>10. ASSUME NEW s \in Sessions, CopyTargets(s) \/ Notify(s) \/ Respond(s) \/ EndSession(s)
       PROVE  FetchesSound'
  BY <1>10, FetchesStay DEF CopyTargets, Notify, Respond, EndSession, clients, FetchesSound
<1>. QED
  BY <1>2, <1>3, <1>4, <1>5, <1>6, <1>7, <1>8, <1>9, <1>10, Steps, Handlings

LEMMA LinkedServedHolds ==
  ASSUME TypeInv, Step, LinkedServed
  PROVE  LinkedServed'
<1>1. /\ link \in [Devices -> Sessions \cup {NoSession}] /\ handler \in [Sessions -> Handler]
      /\ \A d \in Devices : link[d] # NoSession => DeviceOf[link[d]] = d
  BY TypeInvParts DEF DevicesTyped, ServerTyped
<1>2. ASSUME \A d \in Devices : link'[d] # NoSession => link'[d] = link[d],
             \A d \in Devices : link[d] # NoSession /\ handler[link[d]].stage \notin {"new", "ended"}
               => handler'[link[d]].stage \notin {"new", "ended"}
      PROVE  LinkedServed'
  BY <1>2 DEF LinkedServed
<1>3. ASSUME NEW d \in Devices, NEW s \in Sessions, Connect(d, s)  PROVE LinkedServed'
  <2>1. link'[d] = s /\ handler'[s].stage = "idle" /\ DeviceOf[s] = d
    BY <1>1, <1>3, IdleIsHandler DEF Connect
  <2>2. \A b \in Devices : b # d => link'[b] = link[b]
    BY <1>1, <1>3 DEF Connect
  <2>3. \A t \in Sessions : t # s => handler'[t] = handler[t]
    BY <1>1, <1>3 DEF Connect
  <2>. QED
    BY <1>1, <2>1, <2>2, <2>3 DEF LinkedServed
<1>4. ASSUME NEW d \in Devices, Disconnect(d)  PROVE LinkedServed'
  <2>1. \A b \in Devices : link'[b] # NoSession => link'[b] = link[b]
    BY <1>1, <1>4 DEF Disconnect
  <2>2. handler' = handler
    BY <1>4 DEF Disconnect
  <2>. QED
    BY <1>2, <2>1, <2>2
<1>5. ASSUME UNCHANGED <<link, handler>>  PROVE LinkedServed'
  BY <1>2, <1>5
<1>6. ASSUME NEW s \in Sessions, NEW h, handler' = [handler EXCEPT ![s] = h], UNCHANGED link,
             h.stage \notin {"new", "ended"} \/ link[DeviceOf[s]] # s
      PROVE  LinkedServed'
  <2>1. \A t \in Sessions : handler'[t] = handler[t] \/ (t = s /\ handler'[t] = h)
    BY <1>1, <1>6
  <2>2. \A d \in Devices : link[d] # NoSession /\ handler[link[d]].stage \notin {"new", "ended"}
          => handler'[link[d]].stage \notin {"new", "ended"}
    BY <1>1, <1>6, <2>1
  <2>. QED
    BY <1>2, <1>6, <2>2
<1>7. ASSUME NEW s \in Sessions, NEW c \in calls, NEW stage \in {"copy", "reply"}, NEW x,
             Handles(s, c, stage, x)
      PROVE  LinkedServed'
  <2>1. Doing(stage, x, c.id, <<>>).stage = stage
    BY DEF Doing
  <2>. QED
    BY <1>6, <1>7, <2>1 DEF Handles
<1>8. ASSUME NEW s \in Sessions, CopyTargets(s)  PROVE LinkedServed'
  BY <1>6, <1>8 DEF CopyTargets, clients, Doing
<1>9. ASSUME NEW s \in Sessions, Notify(s)  PROVE LinkedServed'
  BY <1>6, <1>9 DEF Notify, clients, Doing
<1>10. ASSUME NEW s \in Sessions, Respond(s) \/ EndSession(s)  PROVE LinkedServed'
  BY <1>6, <1>10, IdleIsHandler DEF Respond, EndSession, clients
<1>. QED
  BY <1>3, <1>4, <1>5, <1>7, <1>8, <1>9, <1>10, Steps, Handlings
  DEF Ask, server, ReceiveNotification, ReceiveResponse, TimeOut, Post

\* What the requests do to the tree
LEMMA OnlyCommitsWrite ==
  ASSUME TypeInv, Step
  PROVE  \/ UNCHANGED database
         \/ \E s \in Sessions, c \in calls : HandleCreate(s, c) \/ HandleUpdate(s, c) \/ HandleDelete(s, c)
BY Steps DEF Connect, Ask, Disconnect, ReceiveNotification, ReceiveResponse, TimeOut, Post,
   HandleRefused, HandleFetchTree, CopyTargets, Notify, Respond, EndSession

LEMMA ParentsUsedHolds ==
  ASSUME TypeInv, Step, ParentsUsed
  PROVE  ParentsUsed'
<1>1. TreeTyped
  BY TypeInvParts
<1>2. CASE UNCHANGED database
  BY <1>2 DEF database, ParentsUsed
<1>3. ASSUME NEW p, p = Root \/ Forest!HoldsFolder(User, p)  PROVE p \in used \cup {Root}
  BY <1>1, <1>3 DEF TreeTyped, Forest!HoldsFolder, Forest!Holds
<1>4. ASSUME NEW s \in Sessions, NEW c \in calls, HandleCreate(s, c)  PROVE ParentsUsed'
  <2>1. PICK n \in Nodes : Forest!Create(User, n, "folder", c.parent)
    BY <1>4 DEF HandleCreate
  <2>. QED
    BY <1>3, <2>1 DEF Forest!Create, ParentsUsed
<1>5. ASSUME NEW s \in Sessions, NEW c \in calls, HandleUpdate(s, c)  PROVE ParentsUsed'
  <2>1. c.parent \in used \cup {Root} /\ Forest!Update(User, c.node, c.parent)
    BY <1>3, <1>5 DEF HandleUpdate, Forest!Update
  <2>2. c.node \in DOMAIN tree /\ tree[c.node] \in Forest!Row
    BY <1>1, <2>1 DEF TreeTyped, Forest!Update, Forest!Holds
  <2>. QED
    BY <2>1, <2>2 DEF Forest!Update, Forest!Row, ParentsUsed
<1>6. ASSUME NEW s \in Sessions, NEW c \in calls, HandleDelete(s, c)  PROVE ParentsUsed'
  BY <1>6 DEF HandleDelete, Forest!Delete, ParentsUsed
<1>. QED
  BY <1>2, <1>4, <1>5, <1>6, OnlyCommitsWrite

-----------------------------------------------------------------------------
(* What is on its way                                                        *)

LEMMA NothingInFlight ==
  ASSUME ~InFlight, NEW x \in Change, OnItsWay(x)
  PROVE  x = Failed
BY DEF InFlight, OnItsWay

LEMMA FailureIsCurrent == Current(Failed) /\ Current(Failed)' /\ ~IsChange(Failed)
BY DEF Failed, Current, IsChange

\* Steps that change nothing on the server
LEMMA OneChangeStays ==
  ASSUME TypeInv', OneChange, UNCHANGED database, NEW x \in Change, ~IsChange(x), Current(x)',
         \A y \in Change : OnItsWay(y)' => OnItsWay(y) \/ y = x \/ y = Failed,
         ~InFlight \/ raced \subseteq raced'
  PROVE  OneChange'
<1>1. raced' \in SUBSET Devices
  BY TypeInvPartsNext DEF BoundsTyped
<1>2. \A y \in Change : Current(y) => Current(y)'
  BY DEF Current, Stored, database
<1>3. CASE InFlight
  BY <1>1, <1>2, <1>3, FailureIsCurrent DEF OneChange
<1>4. CASE ~InFlight
  BY <1>4, NothingInFlight, FailureIsCurrent DEF OneChange
<1>. QED
  BY <1>3, <1>4

LEMMA RacedStays ==
  ASSUME TypeInv, Step
  PROVE  \/ raced \subseteq raced'
         \/ \E s \in Sessions, c \in calls : HandleFetchTree(s, c)
<1>1. raced \in SUBSET Devices
  BY TypeInvParts DEF BoundsTyped
<1>2. ASSUME NEW s \in Sessions, NEW c \in calls, NEW x, Commits(s, c, x)
      PROVE  raced \subseteq raced'
  BY <1>1, <1>2 DEF Commits
<1>. QED
  BY <1>1, <1>2, Steps DEF Connect, Ask, Disconnect, ReceiveNotification, ReceiveResponse, TimeOut,
     Post, HandleCreate, HandleUpdate, HandleDelete, HandleRefused, CopyTargets, Notify, Respond,
     EndSession, history

\* A change that is committed: what is stored then
LEMMA StoredNext ==
  ASSUME TypeInv
  PROVE  /\ \A n \in Nodes, p \in Parents : Forest!Create(User, n, "folder", p) =>
              /\ n \notin DOMAIN tree /\ n \notin used
              /\ Stored' = [m \in DOMAIN Stored \cup {n} |-> IF m = n THEN p ELSE Stored[m]]
              /\ n \in DOMAIN tree' /\ tree'[n].parent = p
         /\ \A n \in Nodes, p \in Parents : Forest!Update(User, n, p) =>
              /\ n \in DOMAIN tree
              /\ Stored' = [m \in DOMAIN Stored |-> IF m = n THEN p ELSE Stored[m]]
              /\ n \in DOMAIN tree' /\ tree'[n].parent = p
         /\ \A n \in Nodes : Forest!Delete(User, n) =>
              /\ Stored' = [m \in DOMAIN Stored \ {n} |-> Stored[m]]
              /\ n \notin DOMAIN tree'
<1>1. TreeTyped
  BY TypeInvParts
<1>2. ASSUME NEW n \in Nodes, NEW p \in Parents, Forest!Create(User, n, "folder", p)
      PROVE  /\ n \notin DOMAIN tree /\ n \notin used
             /\ Stored' = [m \in DOMAIN Stored \cup {n} |-> IF m = n THEN p ELSE Stored[m]]
             /\ n \in DOMAIN tree' /\ tree'[n].parent = p
  BY <1>1, <1>2 DEF Forest!Create, Stored, TreeTyped
<1>3. ASSUME NEW n \in Nodes, NEW p \in Parents, Forest!Update(User, n, p)
      PROVE  /\ n \in DOMAIN tree
             /\ Stored' = [m \in DOMAIN Stored |-> IF m = n THEN p ELSE Stored[m]]
             /\ n \in DOMAIN tree' /\ tree'[n].parent = p
  <2>1. n \in DOMAIN tree /\ tree' = [tree EXCEPT ![n].parent = p]
    BY <1>3 DEF Forest!Update, Forest!Holds
  <2>2. tree[n] \in Forest!Row
    BY <1>1, <2>1 DEF TreeTyped
  <2>3. DOMAIN tree' = DOMAIN tree /\ tree'[n].parent = p /\ \A m \in DOMAIN tree : m # n => tree'[m] = tree[m]
    BY <2>1, <2>2 DEF Forest!Row
  <2>4. Stored' = [m \in DOMAIN Stored |-> IF m = n THEN p ELSE Stored[m]]
    BY <2>1, <2>3 DEF Stored
  <2>. QED
    BY <2>1, <2>3, <2>4
<1>4. ASSUME NEW n \in Nodes, Forest!Delete(User, n)
      PROVE  /\ Stored' = [m \in DOMAIN Stored \ {n} |-> Stored[m]]
             /\ n \notin DOMAIN tree'
  BY <1>4 DEF Forest!Delete, Stored
<1>. QED
  BY <1>2, <1>3, <1>4

\* The steps that commit a change, as the copies see them: what they say is what
\* was made of the tree.
Makes(s, c, x) ==
  /\ Commits(s, c, x) /\ x \in Change /\ IsChange(x) /\ Current(x)' /\ c.op # "fetch"
  /\ \A rows : ~BringsBack(c) /\ Copies(rows, Stored) => Copies(Applied(rows, x), Stored')

LEMMA CommitsMake ==
  ASSUME TypeInv, ParentsUsed, NEW s \in Sessions, NEW c \in calls,
         HandleCreate(s, c) \/ HandleUpdate(s, c) \/ HandleDelete(s, c)
  PROVE  \E x \in Change : Makes(s, c, x)
<1>1. /\ Stored \in Rows /\ DOMAIN Stored = DOMAIN tree /\ Root \notin DOMAIN Stored
      /\ c.parent \in Parents /\ Root \notin Nodes /\ DOMAIN tree \in SUBSET Nodes
  BY StoredIsRows, TypeInvParts, CallTyped, ConstantsOK DEF TreeTyped
<1>2. CASE HandleCreate(s, c)
  <2>1. PICK n \in Nodes :
          /\ Forest!Create(User, n, "folder", c.parent)
          /\ Commits(s, c, [op |-> "upsert", node |-> n, parent |-> c.parent])
    BY <1>2 DEF HandleCreate
  <2> DEFINE x == [op |-> "upsert", node |-> n, parent |-> c.parent]
  <2>2. x \in Change /\ IsChange(x)
    BY <1>1, ChangesAreTyped DEF IsChange
  <2>3. /\ n \notin DOMAIN Stored /\ n # Root /\ n \notin used
        /\ Stored' = [m \in DOMAIN Stored \cup {n} |-> IF m = n THEN c.parent ELSE Stored[m]]
        /\ n \in DOMAIN tree' /\ tree'[n].parent = c.parent
    BY <1>1, <2>1, StoredNext
  <2>4. \A m \in DOMAIN Stored : Stored[m] # n
    BY <1>1, <2>3 DEF ParentsUsed, Stored
  <2>5. ASSUME NEW rows, Copies(rows, Stored)  PROVE Copies(Applied(rows, x), Stored')
    BY <1>1, <2>3, <2>4, <2>5, CopyFollowsCreate
  <2>6. Current(x)'
    BY <2>3 DEF Current
  <2>. QED
    BY <1>2, <2>1, <2>2, <2>5, <2>6 DEF Makes, HandleCreate
<1>3. CASE HandleUpdate(s, c)
  <2> DEFINE x == [op |-> "upsert", node |-> c.node, parent |-> c.parent]
  <2>1. c.node \in Nodes /\ Forest!Update(User, c.node, c.parent) /\ Commits(s, c, x)
    BY <1>1, <1>3 DEF HandleUpdate, Forest!Update, Forest!Holds
  <2>2. x \in Change /\ IsChange(x)
    BY <1>1, <2>1, ChangesAreTyped DEF IsChange
  <2>3. /\ c.node \in DOMAIN Stored
        /\ Stored' = [m \in DOMAIN Stored |-> IF m = c.node THEN c.parent ELSE Stored[m]]
        /\ c.node \in DOMAIN tree' /\ tree'[c.node].parent = c.parent
    BY <1>1, <2>1, StoredNext
  <2>4. ASSUME NEW rows, ~BringsBack(c), Copies(rows, Stored)
        PROVE  Copies(Applied(rows, x), Stored')
    <3>1. c.node \in Shown(Stored)
      BY <1>3, <2>4 DEF BringsBack, HandleUpdate
    <3>. QED
      BY <2>3, <2>4, <3>1, CopyFollowsMove
  <2>5. Current(x)'
    BY <2>3 DEF Current
  <2>. QED
    BY <1>3, <2>1, <2>2, <2>4, <2>5 DEF Makes, HandleUpdate
<1>4. CASE HandleDelete(s, c)
  <2> DEFINE x == [op |-> "remove", node |-> c.node]
  <2>1. c.node \in Nodes /\ Forest!Delete(User, c.node) /\ Commits(s, c, x)
    BY <1>1, <1>4 DEF HandleDelete, Forest!Delete, Forest!Holds
  <2>2. x \in Change /\ IsChange(x)
    BY <1>1, <2>1, ChangesAreTyped DEF IsChange, Parents
  <2>3. /\ Stored' = [m \in DOMAIN Stored \ {c.node} |-> Stored[m]]
        /\ c.node \notin DOMAIN tree' /\ c.node # Root
    BY <1>1, <2>1, StoredNext
  <2>4. ASSUME NEW rows, Copies(rows, Stored)  PROVE Copies(Applied(rows, x), Stored')
    BY <1>1, <2>3, <2>4, CopyFollowsDelete
  <2>5. Current(x)'
    BY <2>3 DEF Current
  <2>. QED
    BY <1>4, <2>1, <2>2, <2>4, <2>5 DEF Makes, HandleDelete
<1>. QED
  BY <1>2, <1>3, <1>4

LEMMA OneChangeHolds ==
  ASSUME TypeInv, TypeInv', Step, ParentsUsed, OneChange
  PROVE  OneChange'
<1>1. ASSUME NEW s \in Sessions, NEW c \in calls, NEW x \in Change, Makes(s, c, x)  PROVE OneChange'
  <2>1. /\ \A y \in Change : OnItsWay(y)' => OnItsWay(y) \/ y = x
        /\ Current(x)'
    BY <1>1, HandlingAnswersOne DEF Makes, Commits
  <2>2. raced' # Devices => ~InFlight
    BY <1>1 DEF Makes, Commits
  <2>. QED
    BY <2>1, <2>2, NothingInFlight, FailureIsCurrent DEF OneChange
<1>2. ASSUME NothingNew, UNCHANGED database, raced \subseteq raced'  PROVE OneChange'
  BY <1>2, FailedIsChange, FailureIsCurrent, OneChangeStays DEF NothingNew
<1>3. ASSUME NEW s \in Sessions, NEW c \in calls, HandleRefused(s, c)  PROVE OneChange'
  <2>1. NothingNew /\ raced' = raced /\ UNCHANGED database
    BY <1>3, FailedIsChange, HandlingAnswersOne DEF HandleRefused, NothingNew, history
  <2>. QED
    BY <1>2, <2>1
<1>4. ASSUME NEW s \in Sessions, NEW c \in calls, HandleFetchTree(s, c)  PROVE OneChange'
  <2>1. PICK x \in Change : x = [op |-> "load", rows |-> Stored]
    BY LoadIsChange
  <2>2. UNCHANGED database /\ (~InFlight \/ raced \subseteq raced')
    BY <1>4 DEF HandleFetchTree
  <2>3. Current(x)' /\ ~IsChange(x)
    BY <2>1, <2>2 DEF Current, IsChange, Stored, database
  <2>4. Takes(s, c) /\ out' = out /\ handler' = [handler EXCEPT ![s] = Doing("reply", x, c.id, <<>>)]
    BY <1>4, <2>1 DEF HandleFetchTree
  <2>5. \A y \in Change : OnItsWay(y)' => OnItsWay(y) \/ y = x
    BY <2>1, <2>4, HandlingAnswersOne
  <2>. QED
    BY <2>1, <2>2, <2>3, <2>5, OneChangeStays
<1>5. CASE /\ UNCHANGED database
           /\ \/ \E d \in Devices, s \in Sessions : Connect(d, s)
              \/ \E d \in Devices : \E op, n, p : Ask(d, op, n, p)
              \/ \E d \in Devices : Disconnect(d) \/ ReceiveNotification(d) \/ ReceiveResponse(d)
              \/ \E c \in calls : TimeOut(c) \/ Post(c)
              \/ \E s \in Sessions : CopyTargets(s) \/ Notify(s) \/ Respond(s) \/ EndSession(s)
           /\ raced \subseteq raced'
  BY <1>2, <1>5, QuietSteps
<1>6. CASE \E s \in Sessions, c \in calls : HandleCreate(s, c) \/ HandleUpdate(s, c) \/ HandleDelete(s, c)
  BY <1>1, <1>6, CommitsMake
<1>. QED
  BY <1>3, <1>4, <1>5, <1>6, Steps, OnlyCommitsWrite, RacedStays

-----------------------------------------------------------------------------
(* What the devices hold                                                     *)

\* A device that can be told from a connection
LEMMA LinksApart ==
  ASSUME TypeInv, NEW d \in Devices, link[d] # NoSession
  PROVE  /\ link[d] \in Sessions /\ DeviceOf[link[d]] = d
         /\ \A b \in Devices : b # d => link[b] # link[d]
BY TypeInvParts DEF DevicesTyped

LEMMA FaithfulStays ==
  ASSUME UNCHANGED database, NEW rows
  PROVE  Faithful(rows) <=> Faithful(rows)'
BY DEF Faithful, Copies, Shown, Stored, database, Below, Avoids

\* A device whose copy does not change follows as it did, if what it is to be told
\* is still on its way.
LEMMA StillFollows ==
  ASSUME NEW d \in Devices, UNCHANGED database, local'[d] = local[d], Follows(d),
         \A x \in Change : IsChange(x) /\ Notified(d, x) => Notified(d, x)',
         \A x \in Change : IsChange(x) /\ Answered(d, x) => Answered(d, x)'
  PROVE  Follows(d)'
<1>1. Stored' = Stored
  BY DEF Stored, database
<1>2. CASE Faithful(local[d])
  BY <1>1, <1>2 DEF Follows, Faithful
<1>3. ASSUME NEW x \in Change, IsChange(x), Notified(d, x) \/ Answered(d, x),
             Faithful(Applied(local[d], x))
      PROVE  Follows(d)'
  <2>1. (Notified(d, x) \/ Answered(d, x))'
    BY <1>3
  <2>2. Faithful(Applied(local[d], x))'
    BY <1>1, <1>3 DEF Faithful
  <2>. QED
    BY <1>3, <2>1, <2>2 DEF Follows
<1>. QED
  BY <1>2, <1>3 DEF Follows

\* A device that applies what is on its way to it follows, whatever that is.
LEMMA ApplyingFollows ==
  ASSUME TypeInv, OneChange, raced # Devices, NEW d \in Devices, link[d] # NoSession,
         UNCHANGED database,
         NEW y \in Change, OnItsWay(y), local'[d] = Applied(local[d], y),
         y.op = "load" \/ Follows(d),
         \A x \in Change : IsChange(x) /\ x # y /\ Notified(d, x) => Notified(d, x)',
         \A x \in Change : IsChange(x) /\ x # y /\ Answered(d, x) => Answered(d, x)'
  PROVE  Follows(d)'
<1>1. Stored' = Stored /\ DOMAIN Stored = DOMAIN tree /\ Root \notin DOMAIN Stored /\ Current(y)
  BY StoredIsRows, TypeInvParts DEF Stored, database, OneChange
<1>2. /\ y.op = "load" => y.rows = Stored
      /\ y.op = "upsert" => y.node \in DOMAIN Stored /\ Stored[y.node] = y.parent
      /\ y.op = "remove" => y.node \notin DOMAIN Stored
  BY <1>1 DEF Current, Stored
<1>3. CASE Faithful(Applied(local[d], y))
  BY <1>1, <1>3 DEF Follows, Faithful
<1>4. CASE Faithful(local[d])
  <2>1. Faithful(Applied(local[d], y))
    BY <1>1, <1>2, <1>4, CopyAbsorbs DEF Faithful
  <2>. QED
    BY <1>3, <2>1
<1>5. CASE y.op = "load"
  <2>1. Applied(local[d], y) = Stored
    BY <1>2, <1>5 DEF Applied
  <2>2. Faithful(Stored)
    BY DEF Faithful, Copies, Shown, Below
  <2>. QED
    BY <1>3, <2>1, <2>2
<1>6. ASSUME NEW x \in Change, IsChange(x), Notified(d, x) \/ Answered(d, x),
             Faithful(Applied(local[d], x)), y.op # "load"
      PROVE  Follows(d)'
  <2>1. OnItsWay(x)
    BY <1>6, LinksApart DEF Notified, Answered, OnItsWay
  <2>2. CASE IsChange(y)
    <3>1. x = y
      BY <1>6, <2>1, <2>2 DEF OneChange
    <3>. QED
      BY <1>3, <1>6, <3>1
  <2>3. CASE ~IsChange(y)
    <3>1. y.op = "error" /\ Applied(local[d], y) = local[d] /\ x # y
      BY <1>6, <2>3 DEF Change, IsChange, Applied
    <3>2. (Notified(d, x) \/ Answered(d, x))' /\ local'[d] = local[d]
      BY <1>6, <3>1
    <3>3. Faithful(Applied(local[d], x))'
      BY <1>1, <1>6, <3>2 DEF Faithful
    <3>. QED
      BY <1>6, <3>2, <3>3 DEF Follows
  <2>. QED
    BY <2>2, <2>3
<1>. QED
  BY <1>4, <1>5, <1>6 DEF Follows

LEMMA NotifiedStays ==
  ASSUME NEW d \in Devices, link'[d] = link[d], NEW x, Notified(d, x),
         \A s \in Sessions : handler[s].stage \in {"copy", "send"} => handler'[s] = handler[s],
         \A i \in 1..Len(out[link[d]]) : out[link[d]][i].call = NoCall /\ out[link[d]][i].origin # d
           => \E j \in 1..Len(out'[link[d]]) : out'[link[d]][j] = out[link[d]][i]
  PROVE  Notified(d, x)'
<1>1. CASE \E s \in Sessions :
             /\ handler[s].change = x /\ DeviceOf[s] # d
             /\ \/ handler[s].stage = "copy"
                \/ /\ handler[s].stage = "send"
                   /\ \E i \in 1..Len(handler[s].todo) : handler[s].todo[i] = link[d]
  BY <1>1 DEF Notified
<1>2. CASE \E i \in 1..Len(out[link[d]]) :
             out[link[d]][i].call = NoCall /\ out[link[d]][i].origin # d /\ out[link[d]][i].change = x
  BY <1>2 DEF Notified
<1>. QED
  BY <1>1, <1>2 DEF Notified

LEMMA AnsweredStays ==
  ASSUME TypeInv, NEW d \in Devices, link'[d] = link[d], NEW x, Answered(d, x),
         \A c \in calls : c.device = d /\ c.op # "fetch" /\ c.state \in {"taken", "answered"}
           => c \in calls',
         handler[link[d]].call \in Ids =>
           \/ /\ handler'[link[d]].call = handler[link[d]].call
              /\ handler'[link[d]].change = handler[link[d]].change
           \/ \E j \in 1..Len(out'[link[d]]) :
                /\ out'[link[d]][j].call = handler[link[d]].call
                /\ out'[link[d]][j].change = handler[link[d]].change,
         \A i \in 1..Len(out[link[d]]) : out[link[d]][i].call # NoCall
           => \E j \in 1..Len(out'[link[d]]) : out'[link[d]][j] = out[link[d]][i]
  PROVE  Answered(d, x)'
<1>1. NoCall \notin Ids
  BY ConstantsOK DEF Ids
<1>2. PICK c \in calls :
        /\ c.device = d /\ c.op # "fetch"
        /\ \/ c.state = "answered" /\ c.result = x
           \/ /\ c.state = "taken"
              /\ \/ handler[link[d]].call = c.id /\ handler[link[d]].change = x
                 \/ \E i \in 1..Len(out[link[d]]) :
                      out[link[d]][i].call = c.id /\ out[link[d]][i].change = x
  BY DEF Answered
<1>3. c.id \in Ids /\ c \in calls'
  BY <1>2, CallTyped
<1>4. CASE c.state = "answered"
  BY <1>2, <1>3, <1>4 DEF Answered
<1>5. CASE c.state = "taken"
  <2>1. CASE handler[link[d]].call = c.id /\ handler[link[d]].change = x
    BY <1>2, <1>3, <1>5, <2>1 DEF Answered
  <2>2. ASSUME NEW i \in 1..Len(out[link[d]]), out[link[d]][i].call = c.id, out[link[d]][i].change = x
        PROVE  Answered(d, x)'
    <3>1. PICK j \in 1..Len(out'[link[d]]) : out'[link[d]][j] = out[link[d]][i]
      BY <1>1, <1>3, <2>2
    <3>2. \E k \in 1..Len(out'[link'[d]]) : out'[link'[d]][k].call = c.id /\ out'[link'[d]][k].change = x
      BY <2>2, <3>1
    <3>. QED
      BY <1>2, <1>3, <1>5, <3>2 DEF Answered
  <2>. QED
    BY <1>2, <1>5, <2>1, <2>2
<1>. QED
  BY <1>2, <1>4, <1>5

\* Nothing that concerns the device has changed: sessions that did something had
\* nothing to say before.
LEMMA UntouchedFollows ==
  ASSUME TypeInv, IdleIsBlank, NEW d \in Devices, link[d] # NoSession, link'[d] = link[d],
         UNCHANGED database, local'[d] = local[d], Follows(d),
         \A s \in Sessions : handler'[s] = handler[s] \/ handler[s].stage \in {"new", "idle", "ended"},
         out'[link[d]] = out[link[d]],
         \A c \in calls : c.device = d /\ c.op # "fetch" /\ c.state \in {"taken", "answered"}
           => c \in calls'
  PROVE  Follows(d)'
<1>1. \A s \in Sessions : handler[s].stage \in {"copy", "send"} => handler'[s] = handler[s]
  OBVIOUS
<1>2. handler[link[d]].call \in Ids => handler'[link[d]] = handler[link[d]]
  BY LinksApart, ConstantsOK DEF IdleIsBlank, Ids
<1>3. \A x \in Change : IsChange(x) /\ Notified(d, x) => Notified(d, x)'
  BY <1>1, NotifiedStays
<1>4. \A x \in Change : IsChange(x) /\ Answered(d, x) => Answered(d, x)'
  BY <1>2, AnsweredStays
<1>. QED
  BY <1>3, <1>4, StillFollows

\* A device that has received the first of what is on its way to it: the rest of it
LEMMA ReceivedRest ==
  ASSUME TypeInv, NEW d \in Devices, link[d] # NoSession, out[link[d]] # <<>>,
         out' = [out EXCEPT ![link[d]] = Tail(out[link[d]])], UNCHANGED <<handler, link>>
  PROVE  LET m == Head(out[link[d]]) IN
         /\ m.call \in Ids \cup {NoCall} /\ m.change \in Change /\ OnItsWay(m.change)
         /\ m.call \in Ids => Answer(m.call, m.change)
         /\ \A i \in 1..Len(out[link[d]]) :
              \/ out[link[d]][i] = m
              \/ \E j \in 1..Len(out'[link[d]]) : out'[link[d]][j] = out[link[d]][i]
         /\ \A b \in Devices : b # d /\ link[b] # NoSession => out'[link[b]] = out[link[b]]
<1> DEFINE m == Head(out[link[d]])
<1>1. /\ link[d] \in Sessions /\ m \in Message /\ m = out[link[d]][1] /\ 1 \in 1..Len(out[link[d]])
      /\ \A i \in 1..Len(out[link[d]]) :
           i # 1 => i - 1 \in 1..Len(out'[link[d]]) /\ out[link[d]][i] = out'[link[d]][i - 1]
      /\ \A s \in Sessions : s # link[d] => out'[s] = out[s]
  BY ReceivedTyped
<1>2. m.call \in Ids \cup {NoCall} /\ m.change \in Change
  BY <1>1, MessageParts
<1>3. \A i \in 1..Len(out[link[d]]) :
        \/ out[link[d]][i] = m
        \/ \E j \in 1..Len(out'[link[d]]) : out'[link[d]][j] = out[link[d]][i]
  BY <1>1
<1>4. \A b \in Devices : b # d /\ link[b] # NoSession => out'[link[b]] = out[link[b]]
  BY <1>1, LinksApart
<1> HIDE DEF m
<1>5. OnItsWay(m.change) /\ Answer(m.call, m.change)
  BY <1>1 DEF OnItsWay, Answer
<1>. QED
  BY <1>2, <1>3, <1>4, <1>5 DEF m

LEMMA ConnectFollows ==
  ASSUME Inv, NEW b \in Devices, NEW s \in Sessions, Connect(b, s), NEW d \in Devices, Following(d)'
  PROVE  Follows(d)'
<1>1. /\ link \in [Devices -> Sessions \cup {NoSession}] /\ online \in [Devices -> BOOLEAN]
      /\ handler \in [Sessions -> Handler]
  BY TypeInvParts DEF Inv, DevicesTyped, ServerTyped
<1>2. d # b
  BY <1>1 DEF Connect, Following
<1>3. link'[d] = link[d] /\ online'[d] = online[d] /\ raced' = raced /\ local' = local /\ out' = out
      /\ UNCHANGED database /\ \A c \in calls : c \in calls'
  BY <1>1, <1>2 DEF Connect, history
<1>4. \A t \in Sessions : handler'[t] = handler[t] \/ handler[t].stage \in {"new", "idle", "ended"}
  BY <1>1 DEF Connect
<1>5. Following(d) /\ link[d] # NoSession
  BY <1>3 DEF Following
<1>6. Follows(d)
  BY <1>5 DEF Inv, CopiesFollow
<1>. QED
  BY <1>3, <1>4, <1>5, <1>6, UntouchedFollows DEF Inv, AnswersSound

LEMMA AskFollows ==
  ASSUME Inv, NEW b \in Devices, NEW op, NEW n, NEW p, Ask(b, op, n, p), NEW d \in Devices, Following(d)'
  PROVE  Follows(d)'
<1>1. UNCHANGED <<database, link, online, local, raced, handler, out>> /\ \A c \in calls : c \in calls'
  BY DEF Ask, server, history
<1>2. Following(d) /\ link[d] # NoSession
  BY <1>1 DEF Following
<1>3. Follows(d)
  BY <1>2 DEF Inv, CopiesFollow
<1>. QED
  BY <1>1, <1>2, <1>3, UntouchedFollows DEF Inv, AnswersSound

LEMMA DisconnectFollows ==
  ASSUME Inv, NEW b \in Devices, Disconnect(b), NEW d \in Devices, Following(d)'
  PROVE  Follows(d)'
<1>1. link \in [Devices -> Sessions \cup {NoSession}] /\ online \in [Devices -> BOOLEAN]
  BY TypeInvParts DEF Inv, DevicesTyped
<1>2. d # b
  BY <1>1 DEF Disconnect, Following
<1>3. link'[d] = link[d] /\ online'[d] = online[d] /\ UNCHANGED <<database, handler, local>>
  BY <1>1, <1>2 DEF Disconnect
<1>4. d \notin raced
  BY DEF Disconnect, Following
<1>5. Following(d) /\ link[d] # NoSession
  BY <1>3, <1>4 DEF Following
<1>6. Follows(d)
  BY <1>5 DEF Inv, CopiesFollow
<1>7. out'[link[d]] = out[link[d]]
  <2>1. link[b] # link[d] /\ link[d] \in Sessions
    BY <1>2, <1>5, LinksApart DEF Inv
  <2>2. out \in [Sessions -> Seq(Message)] /\ out' = [out EXCEPT ![link[b]] = <<>>]
    BY TypeInvParts DEF Inv, ServerTyped, Disconnect
  <2>. QED
    BY <2>1, <2>2
<1>8. \A c \in calls : c.device = d => c \in calls'
  BY <1>2, DisconnectCalls DEF Inv
<1>. QED
  BY <1>3, <1>5, <1>6, <1>7, <1>8, UntouchedFollows DEF Inv, AnswersSound

LEMMA TimeOutFollows ==
  ASSUME Inv, NEW c \in calls, TimeOut(c), NEW d \in Devices, Following(d)'
  PROVE  Follows(d)'
<1>1. UNCHANGED <<database, handler, out, link, online, local>>
  BY DEF TimeOut, server
<1>2. d \notin raced /\ (c.state = "taken" /\ c.op # "fetch" => c.device # d)
  BY DEF TimeOut, Following
<1>3. Following(d) /\ link[d] # NoSession
  BY <1>1, <1>2 DEF Following
<1>4. Follows(d)
  BY <1>3 DEF Inv, CopiesFollow
<1>5. \A e \in calls : e.device = d /\ e.op # "fetch" /\ e.state \in {"taken", "answered"} => e \in calls'
  BY <1>2 DEF TimeOut
<1>. QED
  BY <1>1, <1>3, <1>4, <1>5, UntouchedFollows DEF Inv, AnswersSound

LEMMA ReceiveNotificationFollows ==
  ASSUME Inv, NEW b \in Devices, ReceiveNotification(b), NEW d \in Devices, Following(d)'
  PROVE  Follows(d)'
<1>1. /\ UNCHANGED <<database, handler, link, online, calls, raced>>
      /\ link[b] # NoSession /\ out[link[b]] # <<>> /\ Head(out[link[b]]).call = NoCall
      /\ out' = [out EXCEPT ![link[b]] = Tail(out[link[b]])]
  BY DEF ReceiveNotification, history
<1>2. Following(d) /\ link[d] # NoSession
  BY <1>1 DEF Following
<1>3. Follows(d)
  BY <1>2 DEF Inv, CopiesFollow
<1> DEFINE m == Head(out[link[b]])
<1>4. /\ m.change \in Change /\ OnItsWay(m.change)
      /\ \A i \in 1..Len(out[link[b]]) :
           \/ out[link[b]][i] = m
           \/ \E j \in 1..Len(out'[link[b]]) : out'[link[b]][j] = out[link[b]][i]
      /\ \A a \in Devices : a # b /\ link[a] # NoSession => out'[link[a]] = out[link[a]]
  BY <1>1, ReceivedRest DEF Inv
<1>5. local \in [Devices -> Rows]
  BY TypeInvParts DEF Inv, DevicesTyped
<1>6. CASE d # b
  <2>1. local'[d] = local[d]
    BY <1>5, <1>6 DEF ReceiveNotification
  <2>2. out'[link[d]] = out[link[d]]
    BY <1>2, <1>4, <1>6
  <2>. QED
    BY <1>1, <1>2, <1>3, <2>1, <2>2, UntouchedFollows DEF Inv, AnswersSound
<1>7. CASE d = b
  <2>1. m.call = NoCall
    BY <1>1
  <2>2. IF m.origin = d THEN local'[d] = local[d] ELSE local'[d] = Applied(local[d], m.change)
    BY <1>5, <1>7 DEF ReceiveNotification, Ignored
  <2> HIDE DEF m
  <2>3. ASSUME NEW x \in Change, Answered(d, x)  PROVE Answered(d, x)'
    BY <1>1, <1>4, <1>7, <2>1, <2>3, AnsweredStays DEF Inv
  <2>4. CASE m.origin = d
    <3>1. ASSUME NEW x \in Change, Notified(d, x)  PROVE Notified(d, x)'
      <4>1. \A i \in 1..Len(out[link[d]]) : out[link[d]][i].origin # d
              => \E j \in 1..Len(out'[link[d]]) : out'[link[d]][j] = out[link[d]][i]
        BY <1>4, <1>7, <2>4
      <4>2. handler' = handler /\ link'[d] = link[d]
        BY <1>1
      <4>. QED
        BY <3>1, <4>1, <4>2, NotifiedStays
    <3>. QED
      BY <1>1, <1>3, <2>2, <2>3, <2>4, <3>1, StillFollows
  <2>5. CASE m.origin # d
    <3>1. ASSUME NEW x \in Change, x # m.change, Notified(d, x)  PROVE Notified(d, x)'
      <4>1. CASE \E s \in Sessions :
                   /\ handler[s].change = x /\ DeviceOf[s] # d
                   /\ \/ handler[s].stage = "copy"
                      \/ /\ handler[s].stage = "send"
                         /\ \E i \in 1..Len(handler[s].todo) : handler[s].todo[i] = link[d]
        BY <1>1, <4>1 DEF Notified
      <4>2. ASSUME NEW i \in 1..Len(out[link[d]]), out[link[d]][i].call = NoCall,
                   out[link[d]][i].origin # d, out[link[d]][i].change = x
            PROVE  Notified(d, x)'
        <5>1. PICK j \in 1..Len(out'[link[d]]) : out'[link[d]][j] = out[link[d]][i]
          BY <1>4, <1>7, <3>1, <4>2
        <5>2. link' = link
          BY <1>1
        <5>. QED
          BY <4>2, <5>1, <5>2 DEF Notified
      <4>. QED
        BY <3>1, <4>1, <4>2 DEF Notified
    <3>2. raced # Devices
      BY <1>2 DEF Following
    <3>3. PICK y \in Change : y = m.change
      BY <1>4
    <3>. QED
      BY <1>1, <1>2, <1>3, <1>4, <2>2, <2>3, <2>5, <3>1, <3>2, <3>3, ApplyingFollows DEF Inv
  <2>. QED
    BY <2>4, <2>5
<1>. QED
  BY <1>6, <1>7

LEMMA ReceiveResponseFollows ==
  ASSUME Inv, NEW b \in Devices, ReceiveResponse(b), NEW d \in Devices, Following(d)'
  PROVE  Follows(d)'
<1>1. /\ UNCHANGED <<database, handler, link, online, local, raced>>
      /\ link[b] # NoSession /\ out[link[b]] # <<>> /\ Head(out[link[b]]).call # NoCall
      /\ out' = [out EXCEPT ![link[b]] = Tail(out[link[b]])]
  BY DEF ReceiveResponse, history
<1>2. Following(d) /\ link[d] # NoSession
  BY <1>1 DEF Following
<1>3. Follows(d)
  BY <1>2 DEF Inv, CopiesFollow
<1> DEFINE m == Head(out[link[b]])
<1>4. /\ m.change \in Change /\ m.call \in Ids /\ Answer(m.call, m.change)
      /\ \A i \in 1..Len(out[link[b]]) :
           \/ out[link[b]][i] = m
           \/ \E j \in 1..Len(out'[link[b]]) : out'[link[b]][j] = out[link[b]][i]
      /\ \A a \in Devices : a # b /\ link[a] # NoSession => out'[link[a]] = out[link[a]]
  BY <1>1, ReceivedRest DEF Inv
<1>5. \A c \in calls :
        IF c.id = m.call /\ c.state = "taken"
          THEN \E e \in calls' : e.device = c.device /\ e.op = c.op /\ e.id = c.id
                                 /\ e.state = "answered" /\ e.result = m.change
          ELSE c \in calls'
  BY ResponseCalls DEF Inv
<1>6. m.call \in Ids /\ NoCall \notin Ids
  BY <1>4, ConstantsOK DEF Ids
<1> HIDE DEF m
<1>7. \A i \in 1..Len(out[link[d]]) :
        \/ out[link[d]][i] = m
        \/ \E j \in 1..Len(out'[link[d]]) : out'[link[d]][j] = out[link[d]][i]
  <2>1. CASE d = b
    BY <1>4, <2>1
  <2>2. CASE d # b
    <3>1. out'[link[d]] = out[link[d]]
      BY <1>2, <1>4, <2>2
    <3>. QED
      BY <3>1
  <2>. QED
    BY <2>1, <2>2
<1>8. ASSUME NEW x \in Change, Notified(d, x)  PROVE Notified(d, x)'
  <2>1. \A i \in 1..Len(out[link[d]]) : out[link[d]][i].call = NoCall
          => \E j \in 1..Len(out'[link[d]]) : out'[link[d]][j] = out[link[d]][i]
    BY <1>6, <1>7
  <2>2. handler' = handler /\ link'[d] = link[d]
    BY <1>1
  <2>. QED
    BY <1>8, <2>1, <2>2, NotifiedStays
<1>9. ASSUME NEW x \in Change, Answered(d, x)  PROVE Answered(d, x)'
  <2>1. PICK c \in calls :
          /\ c.device = d /\ c.op # "fetch"
          /\ \/ c.state = "answered" /\ c.result = x
             \/ /\ c.state = "taken"
                /\ \/ handler[link[d]].call = c.id /\ handler[link[d]].change = x
                   \/ \E i \in 1..Len(out[link[d]]) :
                        out[link[d]][i].call = c.id /\ out[link[d]][i].change = x
    BY <1>9 DEF Answered
  <2>2. c.id \in Ids /\ link[d] \in Sessions /\ link' = link /\ handler' = handler
    BY <1>1, <1>2, <2>1, CallTyped, LinksApart DEF Inv
  <2>3. CASE c.state = "answered"
    BY <1>5, <2>1, <2>3 DEF Answered
  <2>4. CASE c.state = "taken" /\ c.id = m.call
    <3>1. Answer(c.id, x)
      BY <2>1, <2>2, <2>4 DEF Answer
    <3>2. m.change = x
      BY <1>4, <1>9, <2>4, <3>1 DEF Inv, AnswersSound, AnswersAreOne
    <3>3. PICK e \in calls' : e.device = c.device /\ e.op = c.op /\ e.state = "answered" /\ e.result = m.change
      BY <1>5, <2>4
    <3>. QED
      BY <2>1, <3>2, <3>3 DEF Answered
  <2>5. CASE c.state = "taken" /\ c.id # m.call
    <3>1. c \in calls'
      BY <1>5, <2>5
    <3>2. CASE handler[link[d]].call = c.id /\ handler[link[d]].change = x
      BY <2>1, <2>2, <2>5, <3>1, <3>2 DEF Answered
    <3>3. ASSUME NEW i \in 1..Len(out[link[d]]), out[link[d]][i].call = c.id, out[link[d]][i].change = x
          PROVE  Answered(d, x)'
      <4>1. PICK j \in 1..Len(out'[link[d]]) : out'[link[d]][j] = out[link[d]][i]
        BY <1>7, <2>5, <3>3
      <4>2. \E k \in 1..Len(out'[link'[d]]) : out'[link'[d]][k].call = c.id /\ out'[link'[d]][k].change = x
        BY <2>2, <3>3, <4>1
      <4>. QED
        BY <2>1, <2>5, <3>1, <4>2 DEF Answered
    <3>. QED
      BY <2>1, <2>5, <3>2, <3>3
  <2>. QED
    BY <2>1, <2>3, <2>4, <2>5
<1>10. local'[d] = local[d]
  BY <1>1
<1>. QED
  BY <1>1, <1>3, <1>8, <1>9, <1>10, StillFollows

LEMMA PostFollows ==
  ASSUME Inv, NEW c \in calls, Post(c), NEW d \in Devices, Following(d)'
  PROVE  Follows(d)'
<1>1. /\ UNCHANGED <<database, handler, out, link, raced>>
      /\ c.state = "answered" /\ calls' = calls \ {c}
  BY DEF Post, server, history
<1>2. /\ local \in [Devices -> Rows] /\ online \in [Devices -> BOOLEAN]
      /\ c.device \in Devices /\ c.result \in Change
  BY TypeInvParts, CallTyped DEF Inv, DevicesTyped
<1>3. link[d] # NoSession /\ d \notin raced /\ raced # Devices
  BY <1>1 DEF Following
<1>4. CASE d # c.device
  <2>1. local'[d] = local[d] /\ online'[d] = online[d]
    BY <1>2, <1>4 DEF Post
  <2>2. Following(d)
    BY <1>1, <2>1 DEF Following
  <2>3. Follows(d)
    BY <2>2 DEF Inv, CopiesFollow
  <2>4. \A e \in calls : e.device = d => e \in calls'
    BY <1>1, <1>4
  <2>. QED
    BY <1>1, <1>3, <2>1, <2>3, <2>4, UntouchedFollows DEF Inv, AnswersSound
<1>5. CASE d = c.device
  <2>1. local'[d] = Applied(local[d], c.result) /\ online'[d] = (online[d] \/ c.op = "fetch")
    BY <1>2, <1>5 DEF Post
  <2>2. c.result.op = "load" \/ Follows(d)
    <3>1. CASE c.op = "fetch"
      BY <1>1, <3>1 DEF Inv, AnswersSound, TreesAreLoaded
    <3>2. CASE c.op # "fetch"
      <4>1. online[d]
        BY <2>1, <3>2 DEF Following
      <4>. QED
        BY <1>3, <4>1 DEF Inv, CopiesFollow, Following
    <3>. QED
      BY <3>1, <3>2
  <2>3. PICK y \in Change : y = c.result
    BY <1>2
  <2>4. OnItsWay(y)
    BY <1>1, <2>3 DEF OnItsWay
  <2>5. ASSUME NEW x \in Change, Notified(d, x)  PROVE Notified(d, x)'
    BY <1>1, <2>5 DEF Notified
  <2>6. ASSUME NEW x \in Change, x # y, Answered(d, x)  PROVE Answered(d, x)'
    BY <1>1, <2>3, <2>6 DEF Answered
  <2>. QED
    BY <1>1, <1>3, <2>1, <2>2, <2>3, <2>4, <2>5, <2>6, ApplyingFollows DEF Inv
<1>. QED
  BY <1>4, <1>5

\* A session reads a request that changes nothing.
LEMMA ReadingFollows ==
  ASSUME Inv, NEW s \in Sessions, NEW c \in calls, HandleRefused(s, c) \/ HandleFetchTree(s, c),
         NEW d \in Devices, Following(d)'
  PROVE  Follows(d)'
<1>1. /\ UNCHANGED <<database, out, link, online, local>>
      /\ Takes(s, c) /\ handler[s].stage = "idle"
      /\ \A t \in Sessions : handler'[t] = handler[t] \/ handler[t].stage = "idle"
  <2>1. handler \in [Sessions -> Handler]
    BY TypeInvParts DEF Inv, ServerTyped
  <2>. QED
    BY <2>1 DEF HandleRefused, HandleFetchTree, Takes
<1>2. d \notin raced
  <2>1. CASE HandleRefused(s, c)
    BY <2>1 DEF HandleRefused, history, Following
  <2>2. CASE HandleFetchTree(s, c)
    <3>1. c.device = d => ~online[d]
      BY <1>1, <2>2 DEF HandleFetchTree, Following, Inv, FetchesSound
    <3>. QED
      BY <1>1, <2>2, <3>1 DEF HandleFetchTree, Following
  <2>. QED
    BY <2>1, <2>2
<1>3. Following(d) /\ link[d] # NoSession
  BY <1>1, <1>2 DEF Following
<1>4. Follows(d)
  BY <1>3 DEF Inv, CopiesFollow
<1>5. \A e \in calls : e.state \in {"taken", "answered"} => e \in calls'
  BY <1>1 DEF Takes
<1>. QED
  BY <1>1, <1>3, <1>4, <1>5, UntouchedFollows DEF Inv, AnswersSound

\* A session commits a change: nothing was on its way to a device that did not
\* race, and the change is now.
LEMMA CommitFollows ==
  ASSUME Inv, NEW s \in Sessions, NEW c \in calls, NEW x \in Change, Makes(s, c, x),
         NEW d \in Devices, Following(d)'
  PROVE  Follows(d)'
<1>1. /\ Takes(s, c) /\ handler' = [handler EXCEPT ![s] = Doing("copy", x, c.id, <<>>)]
      /\ UNCHANGED <<out, link, online, local>> /\ c.op # "fetch" /\ IsChange(x)
  BY DEF Makes, Commits
<1>2. /\ ~InFlight /\ ~BringsBack(c) /\ d \notin raced
      /\ c.state = "unclaimed" => c.device # d
  BY DEF Makes, Commits, Following
<1>3. Following(d) /\ link[d] # NoSession
  BY <1>1, <1>2 DEF Following
<1>4. Follows(d)
  BY <1>3 DEF Inv, CopiesFollow
<1>5. \A y \in Change : IsChange(y) => ~OnItsWay(y)
  BY <1>2, NothingInFlight, FailureIsCurrent
<1>6. Faithful(local[d])
  <2>1. \A y \in Change : Notified(d, y) \/ Answered(d, y) => OnItsWay(y)
    BY <1>3, LinksApart DEF Inv, Notified, Answered, OnItsWay
  <2>. QED
    BY <1>4, <1>5, <2>1 DEF Follows
<1>7. Faithful(Applied(local[d], x))'
  BY <1>1, <1>2, <1>6 DEF Makes, Faithful
<1>8. handler'[s].stage = "copy" /\ handler'[s].change = x /\ handler'[s].call = c.id
  BY <1>1, TypeInvParts DEF Inv, ServerTyped, Doing
<1>9. CASE DeviceOf[s] # d
  <2>1. Notified(d, x)'
    BY <1>8, <1>9 DEF Notified
  <2>. QED
    BY <1>1, <1>7, <2>1 DEF Follows
<1>10. CASE DeviceOf[s] = d
  <2>1. c.device = d /\ c.state = "asked" /\ link[d] = s
    BY <1>1, <1>2, <1>10 DEF Takes
  <2>2. PICK e \in calls' : e.state = "taken" /\ e.id = c.id /\ e.op = c.op /\ e.device = d
    BY <1>1, <2>1, TakenCalls DEF Inv
  <2>3. Answered(d, x)'
    BY <1>1, <1>8, <2>1, <2>2 DEF Answered
  <2>. QED
    BY <1>1, <1>7, <2>3 DEF Follows
<1>. QED
  BY <1>9, <1>10

LEMMA CopyTargetsFollows ==
  ASSUME Inv, NEW s \in Sessions, CopyTargets(s), NEW d \in Devices, Following(d)'
  PROVE  Follows(d)'
<1>1. UNCHANGED <<database, out, link, online, local, calls, raced>> /\ handler[s].stage = "copy"
  BY DEF CopyTargets, clients, history
<1>2. Following(d) /\ link[d] # NoSession
  BY <1>1 DEF Following
<1>3. Follows(d)
  BY <1>2 DEF Inv, CopiesFollow
<1>4. /\ handler'[s].change = handler[s].change /\ handler'[s].call = handler[s].call
      /\ handler'[s].stage = IF Targets = <<>> THEN "reply" ELSE "send"
      /\ handler'[s].todo = Targets
      /\ \A t \in Sessions : t # s => handler'[t] = handler[t]
  BY TypeInvParts DEF Inv, ServerTyped, CopyTargets, Doing
<1>5. \E i \in 1..Len(Targets) : Targets[i] = link[d]
  BY <1>2, LinksApart, TypeInvParts DEF Inv, LinkedServed, ListTyped, Targets
<1>6. Targets # <<>>
  BY <1>5
<1>7. ASSUME NEW x \in Change, Notified(d, x)  PROVE Notified(d, x)'
  <2>1. CASE \E i \in 1..Len(out[link[d]]) :
               out[link[d]][i].call = NoCall /\ out[link[d]][i].origin # d /\ out[link[d]][i].change = x
    BY <1>1, <2>1 DEF Notified
  <2>2. ASSUME NEW t \in Sessions, handler[t].change = x, DeviceOf[t] # d,
               \/ handler[t].stage = "copy"
               \/ /\ handler[t].stage = "send"
                  /\ \E i \in 1..Len(handler[t].todo) : handler[t].todo[i] = link[d]
        PROVE  Notified(d, x)'
    <3>1. CASE t = s
      BY <1>1, <1>4, <1>5, <1>6, <2>2, <3>1 DEF Notified
    <3>2. CASE t # s
      BY <1>1, <1>4, <2>2, <3>2 DEF Notified
    <3>. QED
      BY <3>1, <3>2
  <2>. QED
    BY <1>7, <2>1, <2>2 DEF Notified
<1>8. ASSUME NEW x \in Change, Answered(d, x)  PROVE Answered(d, x)'
  <2>1. handler'[link[d]].call = handler[link[d]].call /\ handler'[link[d]].change = handler[link[d]].change
    BY <1>2, <1>4, LinksApart DEF Inv
  <2>. QED
    BY <1>1, <1>8, <2>1 DEF Answered
<1>. QED
  BY <1>1, <1>3, <1>7, <1>8, StillFollows

\* What was on its way on a connection stays so when something joins it.
LEMMA PushedKeeps ==
  ASSUME TypeInv, NEW s \in Sessions, NEW m \in Message, out' = Pushed(s, m)
  PROVE  /\ \A t \in Sessions : \A i \in 1..Len(out[t]) : \E j \in 1..Len(out'[t]) : out'[t][j] = out[t][i]
         /\ link[DeviceOf[s]] = s => \E j \in 1..Len(out'[s]) : out'[s][j] = m
<1>1. ServerTyped /\ DevicesTyped
  BY TypeInvParts
<1>2. /\ \A t \in Sessions : t # s => out'[t] = out[t]
      /\ link[DeviceOf[s]] = s => out'[s] = Append(out[s], m)
      /\ link[DeviceOf[s]] # s => out'[s] = out[s]
  BY <1>1, PushedTyped
<1>3. out[s] \in Seq(Message)
  BY <1>1 DEF ServerTyped
<1>4. \A i \in 1..Len(out[s]) : \E j \in 1..Len(out'[s]) : out'[s][j] = out[s][i]
  BY <1>2, <1>3
<1>5. ASSUME link[DeviceOf[s]] = s  PROVE \E j \in 1..Len(out'[s]) : out'[s][j] = m
  <2>1. out'[s] = Append(out[s], m)
    BY <1>2, <1>5
  <2>2. Len(out[s]) + 1 \in 1..Len(out'[s]) /\ out'[s][Len(out[s]) + 1] = m
    BY <1>3, <2>1
  <2>. QED
    BY <2>2
<1>. QED
  BY <1>2, <1>4, <1>5

LEMMA NotifyFollows ==
  ASSUME Inv, NEW s \in Sessions, Notify(s), NEW d \in Devices, Following(d)'
  PROVE  Follows(d)'
<1>1. UNCHANGED <<database, link, online, local, calls, raced>> /\ handler[s].stage = "send"
  BY DEF Notify, clients, history
<1>2. Following(d) /\ link[d] # NoSession
  BY <1>1 DEF Following
<1>3. Follows(d)
  BY <1>2 DEF Inv, CopiesFollow
<1> DEFINE todo == handler[s].todo
           m    == [call |-> NoCall, origin |-> DeviceOf[s], change |-> handler[s].change]
<1>4. todo \in Seq(Sessions) /\ todo # <<>> /\ handler[s].change \in Change
  BY <1>1, HandlerParts, TypeInvParts DEF Inv, ServerTyped
<1>5. m \in Message /\ m.call = NoCall /\ m.origin = DeviceOf[s] /\ m.change = handler[s].change
  BY <1>4, ConstantsOK DEF Message
<1>6. /\ handler'[s].change = handler[s].change /\ handler'[s].call = handler[s].call
      /\ handler'[s].stage = IF Tail(todo) = <<>> THEN "reply" ELSE "send"
      /\ handler'[s].todo = Tail(todo)
      /\ \A t \in Sessions : t # s => handler'[t] = handler[t]
  BY TypeInvParts DEF Inv, ServerTyped, Notify, Doing
<1>7. out' = Pushed(Head(todo), m)
  BY DEF Notify
<1> HIDE DEF todo, m
<1>8. Head(todo) \in Sessions /\ Head(todo) = todo[1]
      /\ \A i \in 1..Len(todo) : i # 1 => i - 1 \in 1..Len(Tail(todo)) /\ Tail(todo)[i - 1] = todo[i]
  BY <1>4
<1>9. /\ \A t \in Sessions : \A i \in 1..Len(out[t]) : \E j \in 1..Len(out'[t]) : out'[t][j] = out[t][i]
      /\ link[DeviceOf[Head(todo)]] = Head(todo) =>
           \E j \in 1..Len(out'[Head(todo)]) : out'[Head(todo)][j] = m
  BY <1>5, <1>7, <1>8, PushedKeeps DEF Inv
<1>10. link[d] \in Sessions /\ DeviceOf[link[d]] = d
  BY <1>2, LinksApart DEF Inv
<1>11. ASSUME NEW x \in Change, Notified(d, x)  PROVE Notified(d, x)'
  <2>1. ASSUME NEW i \in 1..Len(out[link[d]]), out[link[d]][i].call = NoCall,
               out[link[d]][i].origin # d, out[link[d]][i].change = x
        PROVE  Notified(d, x)'
    <3>1. PICK j \in 1..Len(out'[link[d]]) : out'[link[d]][j] = out[link[d]][i]
      BY <1>9, <1>10
    <3>2. link' = link
      BY <1>1
    <3>. QED
      BY <2>1, <3>1, <3>2 DEF Notified
  <2>2. ASSUME NEW t \in Sessions, t # s, handler[t].change = x, DeviceOf[t] # d,
               \/ handler[t].stage = "copy"
               \/ /\ handler[t].stage = "send"
                  /\ \E i \in 1..Len(handler[t].todo) : handler[t].todo[i] = link[d]
        PROVE  Notified(d, x)'
    BY <1>1, <1>6, <2>2 DEF Notified
  <2>3. ASSUME handler[s].change = x, DeviceOf[s] # d, NEW i \in 1..Len(todo), todo[i] = link[d]
        PROVE  Notified(d, x)'
    <3>1. CASE i = 1
      <4>1. PICK j \in 1..Len(out'[link[d]]) : out'[link[d]][j] = m
        BY <1>8, <1>9, <1>10, <2>3, <3>1
      <4>2. link' = link
        BY <1>1
      <4>. QED
        BY <1>5, <2>3, <4>1, <4>2 DEF Notified
    <3>2. CASE i # 1
      <4>1. i - 1 \in 1..Len(handler'[s].todo) /\ handler'[s].todo[i - 1] = link[d]
        BY <1>6, <1>8, <2>3, <3>2
      <4>2. handler'[s].stage = "send"
        <5>1. i - 1 \in 1..Len(Tail(todo)) /\ i \in Nat
          BY <1>8, <3>2
        <5>2. Tail(todo) # <<>>
          <6> DEFINE rest == Tail(todo)
          <6>1. i - 1 \in 1..Len(rest)
            BY <5>1
          <6> HIDE DEF rest
          <6>2. rest # <<>>
            BY <5>1, <6>1
          <6>. QED
            BY <6>2 DEF rest
        <5>. QED
          BY <1>6, <5>2
      <4>. QED
        BY <1>1, <1>6, <2>3, <4>1, <4>2 DEF Notified
    <3>. QED
      BY <3>1, <3>2
  <2>. QED
    BY <1>1, <1>11, <2>1, <2>2, <2>3 DEF Notified, todo
<1>12. ASSUME NEW x \in Change, Answered(d, x)  PROVE Answered(d, x)'
  <2>1. handler'[link[d]].call = handler[link[d]].call /\ handler'[link[d]].change = handler[link[d]].change
    BY <1>6, <1>10
  <2>2. \A i \in 1..Len(out[link[d]]) : \E j \in 1..Len(out'[link[d]]) : out'[link[d]][j] = out[link[d]][i]
    BY <1>9, <1>10
  <2>. QED
    BY <1>1, <1>12, <2>1, <2>2, AnsweredStays DEF Inv
<1>. QED
  BY <1>1, <1>3, <1>11, <1>12, StillFollows

LEMMA RespondFollows ==
  ASSUME Inv, NEW s \in Sessions, Respond(s), NEW d \in Devices, Following(d)'
  PROVE  Follows(d)'
<1>1. UNCHANGED <<database, link, online, local, calls, raced>> /\ handler[s].stage = "reply"
  BY DEF Respond, clients, history
<1>2. Following(d) /\ link[d] # NoSession
  BY <1>1 DEF Following
<1>3. Follows(d)
  BY <1>2 DEF Inv, CopiesFollow
<1> DEFINE m == [call |-> handler[s].call, origin |-> DeviceOf[s], change |-> handler[s].change]
<1>4. m \in Message /\ m.call = handler[s].call /\ m.change = handler[s].change
  BY HandlerParts, TypeInvParts, ConstantsOK DEF Inv, Message, Ids
<1>5. out' = Pushed(s, m) /\ \A t \in Sessions : t # s => handler'[t] = handler[t]
  BY TypeInvParts DEF Inv, ServerTyped, Respond
<1> HIDE DEF m
<1>6. /\ \A t \in Sessions : \A i \in 1..Len(out[t]) : \E j \in 1..Len(out'[t]) : out'[t][j] = out[t][i]
      /\ link[DeviceOf[s]] = s => \E j \in 1..Len(out'[s]) : out'[s][j] = m
  BY <1>4, <1>5, PushedKeeps DEF Inv
<1>7. link[d] \in Sessions /\ DeviceOf[link[d]] = d /\ link'[d] = link[d]
  BY <1>1, <1>2, LinksApart DEF Inv
<1>8. \A i \in 1..Len(out[link[d]]) : \E j \in 1..Len(out'[link[d]]) : out'[link[d]][j] = out[link[d]][i]
  BY <1>6, <1>7
<1>9. ASSUME NEW x \in Change, Notified(d, x)  PROVE Notified(d, x)'
  <2>1. \A t \in Sessions : handler[t].stage \in {"copy", "send"} => handler'[t] = handler[t]
    BY <1>1, <1>5
  <2>. QED
    BY <1>7, <1>8, <1>9, <2>1, NotifiedStays
<1>10. ASSUME NEW x \in Change, Answered(d, x)  PROVE Answered(d, x)'
  <2>1. \/ handler'[link[d]] = handler[link[d]]
        \/ \E j \in 1..Len(out'[link[d]]) :
             out'[link[d]][j].call = handler[link[d]].call /\ out'[link[d]][j].change = handler[link[d]].change
    BY <1>4, <1>5, <1>6, <1>7
  <2>. QED
    BY <1>1, <1>7, <1>8, <1>10, <2>1, AnsweredStays DEF Inv
<1>. QED
  BY <1>1, <1>3, <1>9, <1>10, StillFollows

LEMMA EndSessionFollows ==
  ASSUME Inv, NEW s \in Sessions, EndSession(s), NEW d \in Devices, Following(d)'
  PROVE  Follows(d)'
<1>1. UNCHANGED <<database, out, link, online, local, calls, raced>> /\ handler[s].stage = "idle"
  BY DEF EndSession, clients, history
<1>2. \A t \in Sessions : handler'[t] = handler[t] \/ handler[t].stage = "idle"
  BY <1>1, TypeInvParts DEF Inv, ServerTyped, EndSession
<1>3. Following(d) /\ link[d] # NoSession
  BY <1>1 DEF Following
<1>4. Follows(d)
  BY <1>3 DEF Inv, CopiesFollow
<1>. QED
  BY <1>1, <1>2, <1>3, <1>4, UntouchedFollows DEF Inv, AnswersSound

LEMMA CopiesFollowHolds ==
  ASSUME Inv, TypeInv', Step
  PROVE  CopiesFollow'
<1> SUFFICES ASSUME NEW d \in Devices, Following(d)'  PROVE Follows(d)'
  BY DEF CopiesFollow
<1>1. ASSUME NEW b \in Devices, NEW s \in Sessions, Connect(b, s)  PROVE Follows(d)'
  BY <1>1, ConnectFollows
<1>2. ASSUME NEW b \in Devices, NEW op, NEW n, NEW p, Ask(b, op, n, p)  PROVE Follows(d)'
  BY <1>2, AskFollows
<1>3. ASSUME NEW b \in Devices, Disconnect(b) \/ ReceiveNotification(b) \/ ReceiveResponse(b)
      PROVE  Follows(d)'
  BY <1>3, DisconnectFollows, ReceiveNotificationFollows, ReceiveResponseFollows
<1>4. ASSUME NEW c \in calls, TimeOut(c) \/ Post(c)  PROVE Follows(d)'
  BY <1>4, TimeOutFollows, PostFollows
<1>5. ASSUME NEW s \in Sessions, NEW c \in calls, HandleRefused(s, c) \/ HandleFetchTree(s, c)
      PROVE  Follows(d)'
  BY <1>5, ReadingFollows
<1>6. ASSUME NEW s \in Sessions, NEW c \in calls,
             HandleCreate(s, c) \/ HandleUpdate(s, c) \/ HandleDelete(s, c)
      PROVE  Follows(d)'
  <2>1. PICK x \in Change : Makes(s, c, x)
    BY <1>6, CommitsMake DEF Inv
  <2>. QED
    BY <2>1, CommitFollows
<1>7. ASSUME NEW s \in Sessions, CopyTargets(s) \/ Notify(s) \/ Respond(s) \/ EndSession(s)
      PROVE  Follows(d)'
  BY <1>7, CopyTargetsFollows, NotifyFollows, RespondFollows, EndSessionFollows
<1>. QED
  BY <1>1, <1>2, <1>3, <1>4, <1>5, <1>6, <1>7, Steps DEF Inv

-----------------------------------------------------------------------------
(* The theorems                                                              *)

LEMMA InvInit == Init => Inv
<1> SUFFICES ASSUME Init  PROVE Inv
  OBVIOUS
<1>1. \A s \in Sessions : /\ handler[s].stage = "new" /\ handler[s].call = NoCall
                          /\ handler[s].change = Failed /\ out[s] = <<>>
  BY DEF Init, Doing
<1>2. NoCall \notin Ids /\ calls = {} /\ \A d \in Devices : link[d] = NoSession
  BY ConstantsOK DEF Init, Ids
<1>3. TypeInv
  BY TypeInvInit
<1>4. ParentsUsed
  <2>1. \A n \in DOMAIN tree : tree[n] \in [owner : {User}, type : {"folder"}, parent : used \cup {Root}]
    BY DEF Init
  <2>. QED
    BY <2>1 DEF ParentsUsed
<1>5. LinkedServed /\ FetchesSound /\ CopiesFollow
  BY <1>2 DEF LinkedServed, FetchesSound, CopiesFollow, Following
<1>6. AnswersSound
  BY <1>1, <1>2 DEF AnswersSound, AnswersAreOne, Answer, IdleIsBlank, TreesAreLoaded
<1>7. OneChange
  <2>1. \A x \in Change : OnItsWay(x) => x = Failed
    BY <1>1, <1>2 DEF OnItsWay
  <2>. QED
    BY <2>1, FailureIsCurrent DEF OneChange
<1>. QED
  BY <1>3, <1>4, <1>5, <1>6, <1>7 DEF Inv

LEMMA InvStep == Inv /\ [Next]_vars => Inv'
<1> SUFFICES ASSUME Inv, [Next]_vars  PROVE Inv'
  OBVIOUS
<1>1. TypeInv'
  BY TypeInvHolds DEF Inv
<1>2. CASE Step
  <2>1. ParentsUsed' /\ LinkedServed'
    BY <1>2, ParentsUsedHolds, LinkedServedHolds DEF Inv
  <2>2. AnswersSound'
    BY <1>1, <1>2, AnswersAreOneHolds, IdleIsBlankHolds, TreesAreLoadedHolds DEF Inv, AnswersSound
  <2>3. FetchesSound'
    BY <1>1, <1>2, FetchesSoundHolds DEF Inv
  <2>4. OneChange'
    BY <1>1, <1>2, OneChangeHolds DEF Inv
  <2>5. CopiesFollow'
    BY <1>1, <1>2, CopiesFollowHolds
  <2>. QED
    BY <1>1, <2>1, <2>2, <2>3, <2>4, <2>5 DEF Inv
<1>3. CASE UNCHANGED vars
  <2>1. UNCHANGED <<tree, used, handler, out, link, online, local, calls, asked, raced>>
    BY <1>3 DEF vars, database, server, clients, history
  <2>2. ParentsUsed' /\ LinkedServed' /\ FetchesSound'
    BY <2>1 DEF Inv, ParentsUsed, LinkedServed, FetchesSound
  <2>3. AnswersSound'
    BY <2>1 DEF Inv, AnswersSound, AnswersAreOne, Answer, Given, IdleIsBlank, TreesAreLoaded
  <2>4. Stored' = Stored /\ \A x \in Change : (OnItsWay(x)' <=> OnItsWay(x)) /\ (Current(x)' <=> Current(x))
    BY <2>1 DEF Stored, OnItsWay, Current
  <2>5. OneChange'
    BY <2>1, <2>4 DEF Inv, OneChange
  <2>6. CopiesFollow'
    <3> SUFFICES ASSUME NEW d \in Devices, Following(d)'  PROVE Follows(d)'
      BY DEF CopiesFollow
    <3>1. Follows(d)
      BY <2>1 DEF Inv, CopiesFollow, Following
    <3>2. \A x \in Change : (Notified(d, x) => Notified(d, x)') /\ (Answered(d, x) => Answered(d, x)')
      BY <2>1 DEF Notified, Answered
    <3>. QED
      BY <2>1, <3>1, <3>2, StillFollows DEF database
  <2>. QED
    BY <1>1, <2>2, <2>3, <2>5, <2>6 DEF Inv
<1>. QED
  BY <1>2, <1>3 DEF Next

LEMMA InvHolds == Spec => []Inv
BY InvInit, InvStep, PTL DEF Spec

\* Nothing is on its way to a device that the server has nothing to tell.
LEMMA SettledHasAll ==
  ASSUME Inv, NEW d \in Devices, Settled(d), NEW x \in Change
  PROVE  ~Notified(d, x) /\ ~Answered(d, x)
<1>1. out[link[d]] = <<>> /\ \A c \in calls : c.device = d => c.state \notin {"taken", "answered"}
  BY DEF Settled
<1>2. ~Notified(d, x)
  BY <1>1 DEF Settled, Notified
<1>3. ~Answered(d, x)
  BY <1>1 DEF Answered
<1>. QED
  BY <1>2, <1>3

\* AgreeUnlessRaced: a connected device that has received everything shows the
\* server's tree, unless changes raced: what the notifications, the responses and
\* the first tree of a connection make of a copy is what the requests made of the
\* table, however they are interleaved.
THEOREM DevicesFollow == Spec => []AgreeUnlessRaced
<1>1. ASSUME Inv  PROVE AgreeUnlessRaced
  <2> SUFFICES ASSUME NEW d \in Devices, Settled(d), d \notin raced  PROVE Agrees(d)
    BY DEF AgreeUnlessRaced
  <2>1. Follows(d)
    BY <1>1 DEF Settled, Inv, CopiesFollow, Following
  <2>2. Copies(local[d], Stored)
    BY <1>1, <2>1, SettledHasAll DEF Follows, Faithful
  <2>3. Root \notin DOMAIN Stored
    BY <1>1, StoredIsRows, TypeInvParts DEF Inv
  <2>. QED
    BY <2>2, <2>3, CopiesAgree DEF Agrees
<1>. QED
  BY <1>1, InvHolds, PTL

-----------------------------------------------------------------------------
(* Removals end                                                              *)

\* Going up from a row ends.
NoLoops(rows) == \A S \in SUBSET DOMAIN rows : S # {} => \E n \in S : rows[n] \notin S

LEMMA CopiesHaveNoLoops ==
  ASSUME NEW rows, NEW all, Copies(rows, all), NoLoops(all)
  PROVE  NoLoops(rows)
BY DEF Copies, NoLoops

\* removeDescendants goes down to each row once.
LEMMA RemovalEnds ==
  ASSUME NEW rows, NoLoops(rows), NEW n \in DOMAIN rows
  PROVE  rows[n] \notin Below(rows, n)
<1> SUFFICES ASSUME rows[n] \in Below(rows, n)  PROVE FALSE
  OBVIOUS
<1> DEFINE S == Below(rows, n) \cup {n}
<1>1. S \in SUBSET DOMAIN rows /\ S # {}
  BY DEF Below
<1>2. \A k \in S : rows[k] \in S
  BY BelowStepsUp
<1>. QED
  BY <1>1, <1>2 DEF NoLoops

\* The changes keep the table a forest: what FeedForest promises.
LEMMA ForestStays ==
  ASSUME TypeInv, ParentsUsed, Step, Forest!Acyclic
  PROVE  Forest!Acyclic'
<1>1. TreeTyped /\ Root \notin Nodes
  BY TypeInvParts, ConstantsOK
<1>2. CASE UNCHANGED database
  BY <1>2 DEF database, Forest!Acyclic
<1>3. ASSUME NEW s \in Sessions, NEW c \in calls, HandleCreate(s, c)  PROVE Forest!Acyclic'
  <2>1. PICK n \in Nodes : Forest!Create(User, n, "folder", c.parent)
    BY <1>3 DEF HandleCreate
  <2>2. n \notin DOMAIN tree /\ (c.parent = Root \/ c.parent \in DOMAIN tree) /\ DOMAIN tree \subseteq Nodes
    BY <1>1, <2>1 DEF Forest!Create, Forest!HoldsFolder, Forest!Holds, TreeTyped
  <2>3. DOMAIN tree' = DOMAIN tree \cup {n} /\ tree'[n].parent = c.parent
        /\ \A m \in DOMAIN tree : tree'[m] = tree[m] /\ tree[m].parent # n
    BY <1>1, <2>1, <2>2 DEF Forest!Create, ParentsUsed, TreeTyped
  <2> SUFFICES ASSUME NEW S \in SUBSET DOMAIN tree', S # {}, \A m \in S : tree'[m].parent \in S
               PROVE  FALSE
    BY DEF Forest!Acyclic
  <2> DEFINE T == S \ {n}
  <2>4. T \in SUBSET DOMAIN tree /\ \A m \in T : tree[m].parent \in T
    BY <2>3
  <2>5. T = {}
    BY <2>4 DEF Forest!Acyclic
  <2>6. n \in S /\ tree'[n].parent = n
    BY <2>5
  <2>. QED
    BY <1>1, <2>2, <2>3, <2>6
<1>4. ASSUME NEW s \in Sessions, NEW c \in calls, HandleUpdate(s, c)  PROVE Forest!Acyclic'
  <2>1. Forest!Update(User, c.node, c.parent)
    BY <1>4 DEF HandleUpdate
  <2>2. c.node \in DOMAIN tree /\ tree[c.node] \in Forest!Row /\ tree' = [tree EXCEPT ![c.node].parent = c.parent]
    BY <1>1, <2>1 DEF Forest!Update, Forest!Holds, TreeTyped
  <2>3. DOMAIN tree' = DOMAIN tree /\ tree'[c.node].parent = c.parent
        /\ \A m \in DOMAIN tree : m # c.node => tree'[m] = tree[m]
    BY <2>2 DEF Forest!Row
  <2>4. DOMAIN tree \subseteq Nodes
    BY <1>1 DEF TreeTyped
  <2> SUFFICES ASSUME NEW S \in SUBSET DOMAIN tree, S # {}, \A m \in S : tree'[m].parent \in S
               PROVE  FALSE
    BY <2>3 DEF Forest!Acyclic
  <2>5. c.node \in S
    BY <2>3 DEF Forest!Acyclic
  <2>6. c.parent \in S /\ c.parent # Root
    BY <1>1, <2>3, <2>4, <2>5
  <2>7. PICK G \in SUBSET DOMAIN tree : c.parent \in G /\ c.node \notin G /\ Forest!Grounded(G)
    BY <2>1, <2>6 DEF Forest!Update, Forest!Apart
  <2> DEFINE T == S \cap G
  <2>8. T \in SUBSET DOMAIN tree /\ T # {}
    BY <2>6, <2>7
  <2>9. \A m \in T : tree[m].parent \in T
    BY <1>1, <2>3, <2>4, <2>7 DEF Forest!Grounded
  <2>. QED
    BY <2>8, <2>9 DEF Forest!Acyclic
<1>5. ASSUME NEW s \in Sessions, NEW c \in calls, HandleDelete(s, c)  PROVE Forest!Acyclic'
  BY <1>5 DEF HandleDelete, Forest!Delete, Forest!Acyclic
<1>. QED
  BY <1>2, <1>3, <1>4, <1>5, OnlyCommitsWrite

LoopFree == \A d \in Devices : Following(d) => NoLoops(local[d])

LEMMA StoredHasNoLoops == Forest!Acyclic => NoLoops(Stored)
BY DEF Forest!Acyclic, NoLoops, Stored

\* What a copy becomes by what is on its way to it
LEMMA ApplyingKeepsLoopFree ==
  ASSUME TypeInv, OneChange, raced # Devices, Forest!Acyclic, NEW d \in Devices, link[d] # NoSession,
         NEW y \in Change, OnItsWay(y), y.op # "load" => Follows(d) /\ NoLoops(local[d])
  PROVE  NoLoops(Applied(local[d], y))
<1>1. NoLoops(Stored) /\ Current(y) /\ Root \notin DOMAIN Stored /\ DOMAIN Stored = DOMAIN tree
  BY StoredHasNoLoops, StoredIsRows, TypeInvParts DEF OneChange
<1>2. CASE y.op = "load"
  BY <1>1, <1>2 DEF Applied, Current
<1>3. CASE y.op = "error"
  BY <1>3 DEF Applied
<1>4. CASE y.op = "remove"
  BY <1>4 DEF Applied, NoLoops
<1>5. CASE y.op = "upsert"
  <2>1. CASE Faithful(local[d])
    <3>1. y.node \in DOMAIN Stored /\ Stored[y.node] = y.parent
      BY <1>1, <1>5 DEF Current, Stored
    <3>2. Copies(Applied(local[d], y), Stored)
      BY <1>1, <1>5, <2>1, <3>1, CopyAbsorbs DEF Faithful
    <3>. QED
      BY <1>1, <3>2, CopiesHaveNoLoops
  <2>2. ASSUME NEW x \in Change, IsChange(x), Notified(d, x) \/ Answered(d, x),
               Faithful(Applied(local[d], x))
        PROVE  NoLoops(Applied(local[d], y))
    <3>1. OnItsWay(x)
      BY <2>2, LinksApart DEF Notified, Answered, OnItsWay
    <3>2. x = y
      BY <1>5, <2>2, <3>1 DEF OneChange, IsChange
    <3>. QED
      BY <1>1, <2>2, <3>2, CopiesHaveNoLoops DEF Faithful
  <2>. QED
    BY <1>5, <2>1, <2>2 DEF Follows
<1>. QED
  BY <1>2, <1>3, <1>4, <1>5 DEF Change

\* A device that follows has followed, or has just got the tree.
LEMMA FollowedBefore ==
  ASSUME Inv, Step, NEW d \in Devices, Following(d)'
  PROVE  \/ Following(d) /\ local'[d] = local[d]
         \/ /\ raced # Devices /\ link[d] # NoSession
            /\ \E y \in Change :
                 /\ OnItsWay(y) /\ local'[d] = Applied(local[d], y)
                 /\ y.op = "load" \/ Following(d)
<1>1. /\ link \in [Devices -> Sessions \cup {NoSession}] /\ online \in [Devices -> BOOLEAN]
      /\ local \in [Devices -> Rows]
  BY TypeInvParts DEF Inv, DevicesTyped
<1>2. ASSUME UNCHANGED <<link, online, local>>, d \notin raced
      PROVE  Following(d) /\ local'[d] = local[d]
  BY <1>2 DEF Following
<1>3. ASSUME NEW b \in Devices, NEW s \in Sessions, Connect(b, s)
      PROVE  Following(d) /\ local'[d] = local[d]
  BY <1>1, <1>3 DEF Connect, Following, history
<1>4. ASSUME NEW b \in Devices, NEW op, NEW n, NEW p, Ask(b, op, n, p)
      PROVE  Following(d) /\ local'[d] = local[d]
  BY <1>2, <1>4 DEF Ask, Following, history
<1>5. ASSUME NEW b \in Devices, Disconnect(b)
      PROVE  Following(d) /\ local'[d] = local[d]
  BY <1>1, <1>5 DEF Disconnect, Following
<1>6. ASSUME NEW b \in Devices, ReceiveResponse(b)
      PROVE  Following(d) /\ local'[d] = local[d]
  BY <1>2, <1>6 DEF ReceiveResponse, Following, history
<1>7. ASSUME NEW c \in calls, TimeOut(c)
      PROVE  Following(d) /\ local'[d] = local[d]
  BY <1>2, <1>7 DEF TimeOut, Following
<1>8. ASSUME NEW s \in Sessions, NEW c \in calls, NEW x, Commits(s, c, x)
      PROVE  Following(d) /\ local'[d] = local[d]
  BY <1>2, <1>8 DEF Commits, Following
<1>9. ASSUME NEW s \in Sessions, NEW c \in calls, HandleRefused(s, c)
      PROVE  Following(d) /\ local'[d] = local[d]
  BY <1>2, <1>9 DEF HandleRefused, Following, history
<1>10. ASSUME NEW s \in Sessions, NEW c \in calls, HandleFetchTree(s, c)
       PROVE  Following(d) /\ local'[d] = local[d]
  <2>1. UNCHANGED <<link, online, local>>
    BY <1>10 DEF HandleFetchTree
  <2>2. c.device # d
    BY <1>10, <2>1 DEF HandleFetchTree, Following, Inv, FetchesSound
  <2>. QED
    BY <1>2, <1>10, <2>1, <2>2 DEF HandleFetchTree, Following
<1>11. ASSUME NEW s \in Sessions, CopyTargets(s) \/ Notify(s) \/ Respond(s) \/ EndSession(s)
       PROVE  Following(d) /\ local'[d] = local[d]
  BY <1>2, <1>11 DEF CopyTargets, Notify, Respond, EndSession, clients, history, Following
<1>12. ASSUME NEW b \in Devices, ReceiveNotification(b)
       PROVE  /\ Following(d)
              /\ \/ local'[d] = local[d]
                 \/ \E y \in Change : OnItsWay(y) /\ local'[d] = Applied(local[d], y)
  <2> DEFINE m == Head(out[link[b]])
  <2>1. m.change \in Change /\ OnItsWay(m.change)
    BY <1>12, ReceivedRest DEF ReceiveNotification, Inv
  <2>2. local' = local \/ local' = [local EXCEPT ![b] = Applied(local[b], m.change)]
    BY <1>12 DEF ReceiveNotification
  <2>3. Following(d)
    BY <1>12 DEF ReceiveNotification, Following, history
  <2> HIDE DEF m
  <2>. QED
    BY <1>1, <2>1, <2>2, <2>3
<1>13. ASSUME NEW c \in calls, Post(c)
       PROVE  \/ Following(d) /\ local'[d] = local[d]
              \/ \E y \in Change :
                   /\ OnItsWay(y) /\ local'[d] = Applied(local[d], y)
                   /\ y.op = "load" \/ Following(d)
  <2>1. c.device \in Devices /\ c.result \in Change /\ OnItsWay(c.result)
    BY <1>13, CallTyped DEF Inv, Post, OnItsWay
  <2>2. link' = link /\ raced' = raced
    BY <1>13 DEF Post, history
  <2>3. CASE d # c.device
    BY <1>1, <1>13, <2>2, <2>3 DEF Post, Following
  <2>4. CASE d = c.device
    <3>1. local'[d] = Applied(local[d], c.result) /\ online'[d] = (online[d] \/ c.op = "fetch")
      BY <1>1, <1>13, <2>1, <2>4 DEF Post
    <3>2. CASE c.op = "fetch"
      <4>1. c.result.op = "load"
        BY <1>13, <3>2 DEF Post, Inv, AnswersSound, TreesAreLoaded
      <4>. QED
        BY <2>1, <3>1, <4>1
    <3>3. CASE c.op # "fetch"
      <4>1. Following(d)
        BY <2>2, <3>1, <3>3 DEF Following
      <4>. QED
        BY <2>1, <3>1, <4>1
    <3>. QED
      BY <3>2, <3>3
  <2>. QED
    BY <2>3, <2>4
<1>14. ASSUME UNCHANGED <<link, raced>>  PROVE link[d] # NoSession /\ raced # Devices
  BY <1>14 DEF Following
<1>15. ASSUME NEW s \in Sessions, NEW c \in calls,
              HandleCreate(s, c) \/ HandleUpdate(s, c) \/ HandleDelete(s, c)
       PROVE  \E x : Commits(s, c, x)
  BY <1>15 DEF HandleCreate, HandleUpdate, HandleDelete
<1>16. /\ \A b \in Devices : ReceiveNotification(b) => UNCHANGED <<link, raced>>
       /\ \A c \in calls : Post(c) => UNCHANGED <<link, raced>>
  BY DEF ReceiveNotification, Post, history
<1>. QED
  BY <1>3, <1>4, <1>5, <1>6, <1>7, <1>8, <1>9, <1>10, <1>11, <1>12, <1>13, <1>14, <1>15, <1>16, Steps DEF Inv

\* A device that may go on: it holds no row that is its own ancestor.
RemovalsEnd ==
  \A d \in Devices : d \notin raced /\ online[d] /\ link[d] # NoSession =>
    \A n \in DOMAIN local[d] : local[d][n] \notin Below(local[d], n)

\* RemovalsEnd: removeDescendants, which goes down from a node without looking for
\* loops, ends on every device, whatever it is told to remove, unless changes raced.
THEOREM RemovalsAlwaysEnd == Spec => []RemovalsEnd
<1> DEFINE Whole == Inv /\ Forest!Acyclic /\ LoopFree
<1>1. Init => Whole
  BY InvInit DEF Init, LoopFree, Following
<1>2. Whole /\ [Next]_vars => Whole'
  <2> SUFFICES ASSUME Whole, [Next]_vars  PROVE Whole'
    OBVIOUS
  <2>1. Inv'
    BY InvStep
  <2>2. CASE Step
    <3>1. Forest!Acyclic'
      BY <2>2, ForestStays DEF Inv
    <3>2. LoopFree'
      <4> SUFFICES ASSUME NEW d \in Devices, Following(d)'  PROVE NoLoops(local'[d])
        BY DEF LoopFree
      <4>1. CASE Following(d) /\ local'[d] = local[d]
        BY <4>1 DEF LoopFree
      <4>2. ASSUME raced # Devices, link[d] # NoSession, NEW y \in Change, OnItsWay(y),
                   local'[d] = Applied(local[d], y), y.op = "load" \/ Following(d)
            PROVE  NoLoops(local'[d])
        <5>1. y.op # "load" => Follows(d) /\ NoLoops(local[d])
          BY <4>2 DEF Inv, CopiesFollow, LoopFree
        <5>. QED
          BY <4>2, <5>1, ApplyingKeepsLoopFree DEF Inv
      <4>. QED
        BY <2>2, <4>1, <4>2, FollowedBefore
    <3>. QED
      BY <2>1, <3>1, <3>2
  <2>3. CASE UNCHANGED vars
    BY <2>1, <2>3 DEF vars, database, clients, history, Forest!Acyclic, LoopFree, Following
  <2>. QED
    BY <2>2, <2>3 DEF Next
<1>3. Whole => RemovalsEnd
  BY RemovalEnds DEF LoopFree, Following, RemovalsEnd
<1> HIDE DEF Whole
<1>. QED
  BY <1>1, <1>2, <1>3, PTL DEF Spec
=============================================================================
