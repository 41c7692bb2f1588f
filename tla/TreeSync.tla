------------------------------ MODULE TreeSync ------------------------------
(***************************************************************************)
(* How the devices of one user keep a copy of the user's tree: the app     *)
(* sessions of the server (backend/src/app_server.cpp), the client that    *)
(* sends requests and receives notifications (desktop/src/app_client.cpp)  *)
(* and the view model that changes the copy (main_view_model.cpp,          *)
(* feed_tree_model.cpp).                                                   *)
(*                                                                         *)
(* A request is handled by the reader thread of its session: it commits    *)
(* the change (FeedForest), copies the list of sessions, pushes a          *)
(* notification to each, then the response. Every session has its own      *)
(* thread, so the notifications of two sessions mix in any order. A device *)
(* applies the notifications of others as they arrive, and the responses   *)
(* to its own requests whenever the thread that waits for each gets to     *)
(* post it to the GUI thread.                                              *)
(*                                                                         *)
(* All nodes are folders: a feed is a folder that TreeRepository lets      *)
(* nobody move into. The GUI applies a change when it is posted: a GUI     *)
(* that lags cannot be told from a slow network.                           *)
(***************************************************************************)
EXTENDS Naturals, Sequences, FiniteSets

CONSTANTS
  Nodes, Root, User,
  Devices,     \* devices of the user
  Sessions,    \* bound: connections that are ever made
  DeviceOf,    \* the device that makes each connection
  NoSession,   \* a device that is not connected
  NoCall,      \* the request_id of a notification: empty
  MaxChanges,  \* bound: changes that are ever asked for
  Scenarios    \* bounds on one behaviour; see Scenario

ASSUME ConstantsOK ==
  /\ Root \notin Nodes
  /\ DeviceOf \in [Sessions -> Devices]
  /\ NoSession \notin Sessions
  /\ MaxChanges \in Nat
  /\ Sessions \cap 1..MaxChanges = {}
  /\ NoCall \notin Sessions \cup 1..MaxChanges

\* How many nodes are in the database when the server starts, the connections that
\* can be made, the changes, and how many timeouts and lost connections there are.
Scenario ==
  [stored : 0..Cardinality(Nodes), sessions : SUBSET Sessions, changes : 0..MaxChanges,
   faults : Nat]

ASSUME ScenariosOK == Scenarios \subseteq Scenario

VARIABLES
  tree, used,  \* table tree_nodes and the ids it has used: see FeedForest
  registered,  \* sessions_by_user_, for the user
  handler,     \* what the reader thread of each session is doing
  out,         \* a session's outgoing_ and what is on the wire behind it
  link,        \* the session app_client_ of each device is connected to
  online,      \* connection_status_ is "Connected"
  local,       \* nodes_ of each device: the parent of each node
  calls,       \* requests under way; see Call
  asked,       \* how many changes were asked for
  faults,      \* how many timeouts and lost connections there were
  raced,       \* history: see AgreeUnlessRaced
  scope        \* the scenario

database == <<tree, used>>
server   == <<registered, handler, out>>
clients  == <<link, online, local, calls, asked>>
history  == <<faults, raced>>
vars     == <<database, server, clients, history, scope>>

Forest == INSTANCE FeedForest WITH Users <- {User}

Parents == Nodes \cup {Root}
Rows    == UNION {[S -> Parents] : S \in SUBSET Nodes}

Change ==
  [op : {"error"}] \cup [op : {"remove"}, node : Nodes] \cup
  [op : {"upsert"}, node : Nodes, parent : Parents] \cup [op : {"load"}, rows : Rows]

Failed == [op |-> "error"]

\* A call waits in request() from "asked" to "answered". A request that its
\* caller has given up on, but that can still reach the server, is "unclaimed".
Call ==
  [id : Sessions \cup 1..MaxChanges, device : Devices,
   state : {"asked", "unclaimed", "taken", "answered"},
   op : {"fetch", "create", "update", "delete"},
   node : Parents, parent : Parents, result : Change]

Handler ==
  [stage : {"new", "idle", "copy", "send", "reply", "ended"},
   change : Change, call : Sessions \cup (1..MaxChanges) \cup {NoCall}, todo : Seq(Sessions)]

Doing(stage, change, call, todo) ==
  [stage |-> stage, change |-> change, call |-> call, todo |-> todo]

Idle == Doing("idle", Failed, NoCall, <<>>)

-----------------------------------------------------------------------------
(* The copy of a device                                                      *)

\* The way up from a row of S stays in S, or ends at a row that is missing: it
\* does not come to n.
Avoids(rows, S, n) ==
  n \notin S /\ \A k \in S : rows[k] \in S \/ rows[k] \notin DOMAIN rows \cup {n}

\* removeDescendants and the node itself, be it a row or not
Below(rows, n) ==
  {m \in DOMAIN rows : \A S \in SUBSET DOMAIN rows : m \in S => ~Avoids(rows, S, n)}

\* Rows that the view reaches from the root
Shown(rows) == Below(rows, Root)

\* What a posted change makes of the copy.
Applied(rows, change) ==
  CASE change.op = "load"   -> change.rows
    [] change.op = "upsert" ->
         [m \in DOMAIN rows \cup {change.node} |->
            IF m = change.node THEN change.parent ELSE rows[m]]
    [] change.op = "remove" ->
         [m \in DOMAIN rows \ Below(rows, change.node) |-> rows[m]]
    [] change.op = "error"  -> rows

\* removeDescendants recurses for ever on a node that is its own ancestor.
Returns(rows, change) ==
  change.op = "remove" /\ change.node \in DOMAIN rows =>
    rows[change.node] \notin Below(rows, change.node)

\* canReparent, for the nodes and targets the view offers
CanReparent(rows, n, p) == rows[n] # p /\ p \notin Below(rows, n)

-----------------------------------------------------------------------------
\* The server starts on a database with any forest of its nodes; no device is
\* connected.
Init ==
  /\ scope \in Scenarios
  /\ used \in {S \in SUBSET Nodes : Cardinality(S) = scope.stored}
  /\ tree \in [used -> [owner : {User}, type : {"folder"}, parent : used \cup {Root}]]
  /\ Forest!Acyclic
  /\ registered = <<>>
  /\ handler = [s \in Sessions |-> Doing("new", Failed, NoCall, <<>>)]
  /\ out = [s \in Sessions |-> <<>>]
  /\ link = [d \in Devices |-> NoSession]
  /\ online = [d \in Devices |-> FALSE]
  /\ local = [d \in Devices |-> [n \in {} |-> Root]]
  /\ calls = {}
  /\ asked = 0
  /\ faults = 0
  /\ raced = {}

-----------------------------------------------------------------------------
(* The device: requests                                                      *)

\* reconnect(), once the handshake is done on both sides and the session is
\* registered: fetchTree is asked for.
Connect(d, s) ==
  /\ link[d] = NoSession
  /\ s \in scope.sessions /\ DeviceOf[s] = d /\ handler[s].stage = "new"
  /\ \A c \in calls : ~(c.device = d /\ c.op = "fetch")
  /\ link' = [link EXCEPT ![d] = s]
  /\ online' = [online EXCEPT ![d] = FALSE]
  /\ registered' = Append(registered, s)
  /\ handler' = [handler EXCEPT ![s] = Idle]
  /\ calls' = calls \cup
       {[id |-> s, device |-> d, state |-> "asked", op |-> "fetch",
         node |-> Root, parent |-> Root, result |-> Failed]}
  /\ UNCHANGED <<database, out, local, asked, history>>

\* A thread of runAsync calls request() on a connection.
Ask(d, op, n, p) ==
  /\ link[d] # NoSession
  /\ asked < scope.changes
  /\ asked' = asked + 1
  /\ calls' = calls \cup
       {[id |-> asked + 1, device |-> d, state |-> "asked", op |-> op,
         node |-> n, parent |-> p, result |-> Failed]}
  /\ UNCHANGED <<database, server, link, online, local, history>>

AddFolder(d, p) ==
  /\ p \in Shown(local[d]) \cup {Root}
  /\ used # Nodes
  /\ Ask(d, "create", Root, p)

\* Any change of the other columns sends the parent the device knows of.
ConfigureNode(d, n) ==
  /\ n \in Shown(local[d])
  /\ Ask(d, "update", n, local[d][n])

MoveNode(d, n, p) ==
  /\ n \in Shown(local[d])
  /\ p \in Shown(local[d]) \cup {Root}
  /\ CanReparent(local[d], n, p)
  /\ Ask(d, "update", n, p)

DeleteNode(d, n) ==
  /\ n \in Shown(local[d])
  /\ Ask(d, "delete", n, Root)

\* A caller that gives up: the request is taken off pending_, not off the wire.
Abandoned(c) ==
  IF c.op # "fetch" /\ c.state \in {"asked", "unclaimed"}
    THEN {[c EXCEPT !.state = "unclaimed"]} ELSE {}

\* "request timed out".
TimeOut(c) ==
  /\ c.state \in {"asked", "taken"}
  /\ faults < scope.faults
  /\ faults' = faults + 1
  /\ calls' = (calls \ {c}) \cup Abandoned(c)
  /\ raced' = IF c.state = "taken" /\ c.op # "fetch" THEN raced \cup {c.device} ELSE raced
  /\ UNCHANGED <<database, server, link, online, local, asked>>

\* ioLoop fails, or stop(): every pending request fails. One that was not sent
\* stays in outgoing_ for the next connection, one on the wire may arrive or
\* not. (Bound: a device that could not connect again is of no interest.)
Disconnect(d) ==
  LET mine == {c \in calls : c.device = d /\ c.state # "answered"} IN
    /\ link[d] # NoSession
    /\ \E s \in scope.sessions : DeviceOf[s] = d /\ handler[s].stage = "new"
    /\ faults < scope.faults
    /\ faults' = faults + 1
    /\ \E lost \in SUBSET mine :
         calls' = (calls \ mine) \cup UNION {Abandoned(c) : c \in mine \ lost}
    /\ raced' = IF \E c \in mine : c.state = "taken" /\ c.op # "fetch"
                THEN raced \cup {d} ELSE raced
    /\ link' = [link EXCEPT ![d] = NoSession]
    /\ online' = [online EXCEPT ![d] = FALSE]
    /\ out' = [out EXCEPT ![link[d]] = <<>>]
    /\ UNCHANGED <<database, registered, handler, local, asked>>

-----------------------------------------------------------------------------
(* The device: what arrives                                                  *)

\* A notification. Its own are ignored.
Ignored(d, m) == m.origin = d

ReceiveNotification(d) ==
  /\ link[d] # NoSession
  /\ out[link[d]] # <<>>
  /\ LET m == Head(out[link[d]]) IN
       /\ m.call = NoCall
       /\ IF Ignored(d, m) THEN UNCHANGED local
          ELSE /\ Returns(local[d], m.change)
               /\ local' = [local EXCEPT ![d] = Applied(local[d], m.change)]
  /\ out' = [out EXCEPT ![link[d]] = Tail(out[link[d]])]
  /\ UNCHANGED <<database, registered, handler, link, online, calls, asked, history>>

\* A response wakes the thread that waits for it, if one still does.
ReceiveResponse(d) ==
  /\ link[d] # NoSession
  /\ out[link[d]] # <<>>
  /\ LET m == Head(out[link[d]])
         waiting == {c \in calls : c.id = m.call /\ c.state = "taken"}
     IN /\ m.call # NoCall
        /\ calls' = (calls \ waiting) \cup
             {[c EXCEPT !.state = "answered", !.result = m.change] : c \in waiting}
  /\ out' = [out EXCEPT ![link[d]] = Tail(out[link[d]])]
  /\ UNCHANGED <<database, registered, handler, link, online, local, asked, history>>

\* That thread posts what it got to the GUI thread.
Post(c) ==
  /\ c.state = "answered"
  /\ Returns(local[c.device], c.result)
  /\ local' = [local EXCEPT ![c.device] = Applied(local[c.device], c.result)]
  /\ online' = [online EXCEPT ![c.device] = @ \/ c.op = "fetch"]
  /\ calls' = calls \ {c}
  /\ UNCHANGED <<database, server, link, asked, history>>

-----------------------------------------------------------------------------
(* The server: a session's reader thread                                     *)

\* History only: something is on its way to a device.
InFlight ==
  \/ \E s \in Sessions : handler[s].change # Failed
  \/ \E s \in Sessions : \E i \in 1..Len(out[s]) : out[s][i].change # Failed
  \/ \E c \in calls : c.state = "answered" /\ c.result # Failed

\* The parent of each node, as a session lists them
Stored == [n \in DOMAIN tree |-> tree[n].parent]

\* History only: the change puts a row whose folder is gone under one that is
\* there. What is below that row has been removed from the devices.
BringsBack(c) == c.op = "update" /\ c.node \notin Shown(Stored)

\* It reads a request, from its own connection or left over on the wire.
Takes(s, c) ==
  /\ handler[s].stage = "idle"
  /\ c.device = DeviceOf[s]
  /\ c.state = "unclaimed" \/ (c.state = "asked" /\ link[c.device] = s)
  /\ calls' = (calls \ {c}) \cup
       {[k EXCEPT !.state = "taken"] : k \in {k \in {c} : k.state = "asked"}}

Commits(s, c, change) ==
  /\ Takes(s, c)
  /\ handler' = [handler EXCEPT ![s] = Doing("copy", change, c.id, <<>>)]
  /\ raced' = IF InFlight \/ BringsBack(c) THEN Devices
              ELSE IF c.state = "unclaimed" THEN raced \cup {c.device} ELSE raced
  /\ UNCHANGED <<faults, registered, out, link, online, local, asked>>

HandleCreate(s, c) ==
  /\ c.op = "create"
  /\ \E n \in Nodes :
       /\ Forest!Create(User, n, "folder", c.parent)
       /\ Commits(s, c, [op |-> "upsert", node |-> n, parent |-> c.parent])

HandleUpdate(s, c) ==
  /\ c.op = "update"
  /\ c.node # c.parent
  /\ Forest!Update(User, c.node, c.parent)
  /\ Commits(s, c, [op |-> "upsert", node |-> c.node, parent |-> c.parent])

HandleDelete(s, c) ==
  /\ c.op = "delete"
  /\ Forest!Delete(User, c.node)
  /\ Commits(s, c, [op |-> "remove", node |-> c.node])

\* The repository throws: an error is the response.
Refused(c) ==
  \/ c.op = "create" /\ c.parent # Root /\ ~Forest!HoldsFolder(User, c.parent)
  \/ c.op = "delete" /\ ~Forest!Holds(User, c.node)
  \/ /\ c.op = "update"
     /\ \/ c.node = c.parent
        \/ ~Forest!Holds(User, c.node)
        \/ /\ c.parent # Root
           /\ ~(Forest!HoldsFolder(User, c.parent) /\ Forest!Apart(c.node, c.parent))

HandleRefused(s, c) ==
  /\ Refused(c)
  /\ Takes(s, c)
  /\ handler' = [handler EXCEPT ![s] = Doing("reply", Failed, c.id, <<>>)]
  /\ UNCHANGED <<database, registered, out, link, online, local, asked, history>>

HandleFetchTree(s, c) ==
  /\ c.op = "fetch"
  /\ Takes(s, c)
  /\ handler' = [handler EXCEPT ![s] =
       Doing("reply", [op |-> "load", rows |-> Stored], c.id, <<>>)]
  /\ raced' = IF InFlight THEN raced ELSE raced \ {c.device}
  /\ UNCHANGED <<database, registered, out, link, online, local, asked, faults>>

\* broadcast...: the list is copied under sessions_mutex_. (Mutation: all but the
\* session that connected last.)
TargetsButLast == SubSeq(registered, 1, Len(registered) - 1)

Targets == registered

CopyTargets(s) ==
  /\ handler[s].stage = "copy"
  /\ handler' = [handler EXCEPT ![s] =
       Doing(IF Targets = <<>> THEN "reply" ELSE "send", handler[s].change,
             handler[s].call, Targets)]
  /\ UNCHANGED <<database, registered, out, clients, history>>

\* push(): what is pushed to a session whose device is gone is never read.
Pushed(s, m) ==
  IF link[DeviceOf[s]] = s THEN [out EXCEPT ![s] = Append(@, m)] ELSE out

Notify(s) ==
  /\ handler[s].stage = "send"
  /\ LET rest == Tail(handler[s].todo) IN
       handler' = [handler EXCEPT ![s] =
         Doing(IF rest = <<>> THEN "reply" ELSE "send", handler[s].change,
               handler[s].call, rest)]
  /\ out' = Pushed(Head(handler[s].todo),
                   [call |-> NoCall, origin |-> DeviceOf[s], change |-> handler[s].change])
  /\ UNCHANGED <<database, registered, clients, history>>

Respond(s) ==
  /\ handler[s].stage = "reply"
  /\ out' = Pushed(s, [call |-> handler[s].call, origin |-> DeviceOf[s],
                       change |-> handler[s].change])
  /\ handler' = [handler EXCEPT ![s] = Idle]
  /\ UNCHANGED <<database, registered, clients, history>>

\* The reader finds the connection gone: unregisterSession. (Mutation: the
\* session stays on the list.)
EndSessionOnly(s) ==
  /\ handler[s].stage = "idle"
  /\ link[DeviceOf[s]] # s
  /\ handler' = [handler EXCEPT ![s] = Doing("ended", Failed, NoCall, <<>>)]
  /\ UNCHANGED <<database, registered, out, clients, history>>

Without(list, s) ==
  LET at == CHOOSE i \in DOMAIN list : list[i] = s
  IN [i \in 1..Len(list) - 1 |-> list[IF i < at THEN i ELSE i + 1]]

EndSession(s) ==
  /\ handler[s].stage = "idle"
  /\ link[DeviceOf[s]] # s
  /\ handler' = [handler EXCEPT ![s] = Doing("ended", Failed, NoCall, <<>>)]
  /\ registered' = Without(registered, s)
  /\ UNCHANGED <<database, out, clients, history>>

-----------------------------------------------------------------------------
Step ==
  \/ \E d \in Devices :
       \/ \E s \in Sessions : Connect(d, s)
       \/ \E p \in Parents : AddFolder(d, p)
       \/ \E n \in Nodes : ConfigureNode(d, n) \/ DeleteNode(d, n)
       \/ \E n \in Nodes, p \in Parents : MoveNode(d, n, p)
       \/ Disconnect(d) \/ ReceiveNotification(d) \/ ReceiveResponse(d)
  \/ \E c \in calls : TimeOut(c)
  \/ \E c \in calls : Post(c)
  \/ \E s \in Sessions :
       \/ \E c \in calls : HandleCreate(s, c)
       \/ \E c \in calls : HandleUpdate(s, c)
       \/ \E c \in calls : HandleDelete(s, c)
       \/ \E c \in calls : HandleRefused(s, c)
       \/ \E c \in calls : HandleFetchTree(s, c)
       \/ CopyTargets(s) \/ Notify(s) \/ Respond(s) \/ EndSession(s)

Next == Step /\ UNCHANGED scope

Spec == Init /\ [][Next]_vars
-----------------------------------------------------------------------------
(* Properties                                                                *)

Message ==
  [call : Sessions \cup (1..MaxChanges) \cup {NoCall}, origin : Devices, change : Change]

\* The variables keep their types; request ids are not used twice, and a
\* session is on the list exactly from registration to its end.
TypeOK ==
  /\ used \in SUBSET Nodes
  /\ DOMAIN tree \in SUBSET used
  /\ \A n \in DOMAIN tree : tree[n] \in Forest!Row
  /\ handler \in [Sessions -> Handler]
  /\ out \in [Sessions -> Seq(Message)]
  /\ \A s \in Sessions :
       (\E i \in 1..Len(registered) : registered[i] = s)
         <=> handler[s].stage \notin {"new", "ended"}
  /\ \A i, j \in 1..Len(registered) : registered[i] = registered[j] => i = j
  /\ link \in [Devices -> Sessions \cup {NoSession}]
  /\ \A d \in Devices : link[d] # NoSession => DeviceOf[link[d]] = d
  /\ online \in [Devices -> BOOLEAN]
  /\ local \in [Devices -> Rows]
  /\ calls \subseteq Call
  /\ \A c1, c2 \in calls : c1.id = c2.id => c1 = c2
  /\ scope \in Scenario
  /\ asked \in 0..scope.changes
  /\ faults \in 0..scope.faults
  /\ raced \in SUBSET Devices

\* Nothing that the server has committed is still on its way to device d.
Settled(d) ==
  /\ link[d] # NoSession /\ online[d]
  /\ out[link[d]] = <<>>
  /\ \A c \in calls : c.device = d => c.state \notin {"taken", "answered"}
  /\ \A s \in Sessions :
       /\ handler[s].stage # "copy"
       /\ \A i \in 1..Len(handler[s].todo) : handler[s].todo[i] # link[d]

\* The device shows the nodes the server has, each where the server has it.
Agrees(d) ==
  /\ Shown(local[d]) = Shown(Stored)
  /\ \A n \in Shown(Stored) : local[d][n] = Stored[n]

\* A connected device that has received everything shows the server's tree,
\* through any connections, disconnections and late sessions, unless changes
\* raced: one was committed while an earlier one, or a tree, was still on its
\* way to some device, or its own device had given up on it, or it moved a node
\* out of a folder that had been deleted since it was asked for. A tree that is
\* read while nothing is on its way mends that.
AgreeUnlessRaced == \A d \in Devices : Settled(d) /\ d \notin raced => Agrees(d)

\* README.md: "Changes are synchronized between all connected devices in real
\* time." A connected device that has received everything shows the server's
\* tree. The code does not keep this: nothing orders the notifications of two
\* sessions, the responses, and the first tree.
DevicesAgree == \A d \in Devices : Settled(d) => Agrees(d)
=============================================================================
