------------------------------- MODULE Accounts -------------------------------
(***************************************************************************)
(* Accounts, devices and the certificates they rest on: the store of the   *)
(* backend (backend/src/user_store.cpp) with its start-up, the server that *)
(* takes signups (backend/src/signup_server.cpp), the device that asks for *)
(* one and stores what it got (desktop/src/signup_view_model.cpp,          *)
(* signup_client.cpp, secret_store.cpp), and the connection it makes with  *)
(* it (MainViewModel::reconnect, AppSession::authenticate).                *)
(*                                                                         *)
(* Every statement commits by itself, and every secret is stored by itself: *)
(* what is written together can be cut short by a failure, or by the end   *)
(* of the process, and is written again by a later attempt. A device reads  *)
(* its secrets in one thread while another stores new ones.                *)
(***************************************************************************)
EXTENDS Integers, FiniteSets

CONSTANTS
  Clients, Logins, Passwords,
  NoClient,         \* nobody waits for the answer
  MaxAuthorities,   \* bound: authorities that are ever generated
  MaxDevices,       \* bound: devices that are ever enrolled
  Budgets           \* bounds: how many signups each client asks for, and how many
                    \* faults there are: statements that fail, lost answers, crashes

ASSUME AccountsAssumption ==
  /\ NoClient \notin Clients
  /\ MaxAuthorities \in Nat /\ MaxDevices \in Nat
  /\ Budgets \subseteq [asks : [Clients -> Nat], faults : Nat]

\* The rows of the authority, in the order they are written.
CaCertificate     == 1
CaKey             == 2
ServerCertificate == 3
Keys              == 1..4

\* What StoredPeer::isValid() asks for, in the order it is stored and read. (The
\* user's id and login are only shown, and the ports have defaults.)
DeviceId    == 1
Ca          == 2
Certificate == 3
Key         == 4
Secrets     == 1..5

Numbers == 0..MaxDevices  \* devices; 0 is none

VARIABLES
  kv,          \* table system_kv: the authority that each row is of, 0 for no row
  server,      \* "down", "writing" its authority, or "up"
  authority,   \* authority_
  writing,     \* the row to be written next
  made,        \* authorities generated so far
  users,       \* table users: the password of each login that has an account
  devices,     \* table devices
  issued,      \* devices so far: a device is named by its number
  serving,     \* the signup that is handled
  worker,      \* the thread of SignupViewModel of each client
  vault,       \* the secrets of each client: the device each is of, 0 for none
  link,        \* the connection of each client, and the attempt to make one
  budget,      \* what is left of the signups asked for, and of the faults
  lapses       \* history: see Lapses

store   == <<kv, users, devices, issued>>
process == <<server, authority, writing, made, serving>>
device  == <<worker, vault, link>>
vars    == <<store, process, device, budget, lapses>>

Accounts    == DOMAIN users
Request     == [create : BOOLEAN, login : Logins, password : Passwords]
NoRequest   == [create |-> FALSE]

\* A row, with the keys its certificate was made with, and (history) the password
\* that was given for it.
Device ==
  [device : Numbers \ {0}, login : Logins, given : Passwords,
   ca : 0..MaxAuthorities, signer : 0..MaxAuthorities]

Row(n) == CHOOSE d \in devices : d.device = n

\* stage: what is to be done next
Serving ==
  [stage : {"idle"}] \cup
  [stage : {"user", "device"}, client : Clients \cup {NoClient}, request : Request] \cup
  [stage : {"reply"}, client : Clients \cup {NoClient}, device : Numbers]

Worker ==
  [stage : {"idle"}] \cup [stage : {"asking"}, request : Request] \cup
  [stage : {"storing"}, device : Numbers, next : 1..6]

\* session: the device the server takes the client for; known: the one the client
\* takes itself for; next: the secret that loadPeer reads next, 0 if no attempt is
\* under way; peer: what it has read.
Link ==
  [session : Numbers, known : Numbers, next : 0..6, peer : [Secrets -> Numbers]]

\* History. cut: a read of the authority ended early. interrupted: logins whose
\* signup ended after the account was made. partial: clients that stored a part of
\* an enrolment last. torn: those whose attempt read secrets that were partial, or
\* while they were stored. mixed: those whose session is of such an attempt.
\* behind: those whose reconnect was refused after they had stored an enrolment.
Lapses ==
  [cut : BOOLEAN, interrupted : SUBSET Logins, partial : SUBSET Clients,
   torn : SUBSET Clients, mixed : SUBSET Clients, behind : SUBSET Clients]

Idle   == [stage |-> "idle"]
NoPeer == [s \in Secrets |-> 0]

Fault == budget.faults > 0 /\ budget' = [budget EXCEPT !.faults = @ - 1]

-----------------------------------------------------------------------------
Init ==
  /\ kv = [k \in Keys |-> 0] /\ authority = [k \in Keys |-> 0]
  /\ server = "down" /\ writing = 0 /\ made = 0
  /\ users = [l \in {} |-> 0] /\ devices = {} /\ issued = 0
  /\ serving = Idle
  /\ worker = [c \in Clients |-> Idle]
  /\ vault = [c \in Clients |-> NoPeer]
  /\ link = [c \in Clients |-> [session |-> 0, known |-> 0, next |-> 0, peer |-> NoPeer]]
  /\ budget \in Budgets
  /\ lapses = [cut |-> FALSE, interrupted |-> {}, partial |-> {},
                torn |-> {}, mixed |-> {}, behind |-> {}]

-----------------------------------------------------------------------------
(* The backend starts: ensureAuthority                                      *)

\* Mutation: the server's key is not asked for.
CompleteButKey(rows) == \A k \in Keys \ {4} : rows[k] # 0

Complete(rows) == \A k \in Keys : rows[k] # 0

\* An error ends the loop over the rows like the end of the table does. (Which rows
\* come first is left open: any row that is missed has the same effect.)
Reads(rows) ==
  {[k \in Keys |-> IF k \in seen THEN rows[k] ELSE 0] : seen \in SUBSET Keys}

Start ==
  /\ server = "down"
  /\ \E rows \in Reads(kv) :
       /\ IF rows = kv THEN UNCHANGED <<budget, lapses>>
          ELSE Fault /\ lapses' = [lapses EXCEPT !.cut = TRUE]
       /\ IF Complete(rows)
            THEN /\ authority' = rows /\ server' = "up"
                 /\ UNCHANGED <<writing, made>>
            ELSE /\ made < MaxAuthorities
                 /\ made' = made + 1
                 /\ authority' = [k \in Keys |-> made + 1]
                 /\ server' = "writing" /\ writing' = 1
  /\ UNCHANGED <<store, serving, device>>

\* INSERT OR REPLACE. (Mutation: INSERT OR IGNORE.)
KeptRow(k)    == IF kv[k] = 0 THEN authority[k] ELSE kv[k]

WrittenRow(k) == authority[k]

WriteRow ==
  /\ server = "writing"
  /\ kv' = [kv EXCEPT ![writing] = WrittenRow(writing)]
  /\ IF writing + 1 \in Keys THEN writing' = writing + 1 /\ UNCHANGED server
     ELSE writing' = 0 /\ server' = "up"
  /\ UNCHANGED <<authority, made, users, devices, issued, serving, device, budget, lapses>>

\* The signup that is handled ends; for good, if the account was made for it.
Interrupted ==
  IF serving.stage = "device" /\ serving.request.create
    THEN lapses.interrupted \cup {serving.request.login} ELSE lapses.interrupted

\* The process ends, at any step, or because a row could not be written.
Crash ==
  /\ server # "down"
  /\ Fault
  /\ server' = "down" /\ writing' = 0
  /\ authority' = [k \in Keys |-> 0]
  /\ serving' = Idle
  /\ link' = [c \in Clients |-> [link[c] EXCEPT !.session = 0]]
  /\ worker' = [c \in Clients |-> IF worker[c].stage = "asking" THEN Idle ELSE worker[c]]
  /\ lapses' = [lapses EXCEPT !.interrupted = Interrupted]
  /\ UNCHANGED <<store, made, vault>>

-----------------------------------------------------------------------------
(* The device asks: SignupViewModel::startRequest                           *)

StartRequest(c, request) ==
  /\ worker[c] = Idle
  /\ budget.asks[c] > 0
  /\ budget' = [budget EXCEPT !.asks[c] = @ - 1]
  /\ worker' = [worker EXCEPT ![c] = [stage |-> "asking", request |-> request]]
  /\ UNCHANGED <<store, process, vault, link, lapses>>

Unserved(c) ==
  IF serving # Idle /\ serving.client = c THEN [serving EXCEPT !.client = NoClient] ELSE serving

\* The connection fails or nobody answers in time; the server goes on.
GiveUp(c) ==
  /\ worker[c].stage = "asking"
  /\ Fault
  /\ worker' = [worker EXCEPT ![c] = Idle]
  /\ serving' = Unserved(c)
  /\ UNCHANGED <<store, server, authority, writing, made, vault, link, lapses>>

-----------------------------------------------------------------------------
(* The server handles it: handleClient, signupOrPair. One at a time.         *)

\* Mutation: the password is asked for only to pair.
NextStageUnchecked(request) ==
  IF request.login \notin Accounts
    THEN IF request.create THEN "user" ELSE "refused"
    ELSE IF users[request.login] = request.password \/ request.create THEN "device" ELSE "refused"

NextStage(request) ==
  IF request.login \notin Accounts
    THEN IF request.create THEN "user" ELSE "refused"
    ELSE IF users[request.login] = request.password /\ ~request.create THEN "device" ELSE "refused"

Refuse(c) == worker' = [d \in Clients |-> IF d = c THEN Idle ELSE worker[d]]

Accept(c) ==
  /\ server = "up" /\ serving = Idle
  /\ worker[c].stage = "asking"
  /\ LET request == worker[c].request
         stage   == NextStage(request)
     IN IF stage = "refused"
          THEN Refuse(c) /\ UNCHANGED serving
          ELSE /\ serving' = [stage |-> stage, client |-> c, request |-> request]
               /\ UNCHANGED worker
  /\ UNCHANGED <<store, server, authority, writing, made, vault, link, budget, lapses>>

InsertUser ==
  /\ serving.stage = "user"
  /\ users' = [l \in Accounts \cup {serving.request.login} |->
                 IF l = serving.request.login THEN serving.request.password ELSE users[l]]
  /\ serving' = [serving EXCEPT !.stage = "device"]
  /\ UNCHANGED <<kv, devices, issued, server, authority, writing, made, device, budget, lapses>>

\* Mutation: an account has one device.
OneOfAccount(row) == devices \cup (IF \E d \in devices : d.login = row.login THEN {} ELSE {row})

\* INSERT INTO devices
Inserted(row) == devices \cup {row}

\* issueClientCertificate, and the row.
InsertDevice ==
  /\ serving.stage = "device"
  /\ issued < MaxDevices
  /\ issued' = issued + 1
  /\ devices' = Inserted(
       [device |-> issued + 1, login |-> serving.request.login, given |-> serving.request.password,
        ca |-> authority[CaCertificate], signer |-> authority[CaKey]])
  /\ serving' = [stage |-> "reply", client |-> serving.client, device |-> issued + 1]
  /\ UNCHANGED <<kv, users, server, authority, writing, made, device, budget, lapses>>

\* A statement, or the certificate, fails: an error is the answer.
FailSignup ==
  /\ serving.stage \in {"user", "device"}
  /\ Fault
  /\ Refuse(serving.client)
  /\ serving' = Idle
  /\ lapses' = [lapses EXCEPT !.interrupted = Interrupted]
  /\ UNCHANGED <<store, server, authority, writing, made, vault, link>>

Reply ==
  /\ serving.stage = "reply"
  /\ worker' = [c \in Clients |->
       IF c = serving.client THEN [stage |-> "storing", device |-> serving.device, next |-> 1]
       ELSE worker[c]]
  /\ serving' = Idle
  /\ UNCHANGED <<store, server, authority, writing, made, vault, link, budget, lapses>>

-----------------------------------------------------------------------------
(* The device stores what it got: storeSignupMaterial                        *)

StoreSecret(c) ==
  /\ worker[c].stage = "storing" /\ worker[c].next \in Secrets
  /\ vault' = [vault EXCEPT ![c][worker[c].next] = worker[c].device]
  /\ worker' = [worker EXCEPT ![c].next = @ + 1]
  /\ lapses' = [lapses EXCEPT
       !.partial = @ \cup {c},
       !.torn = IF link[c].next \in Secrets THEN @ \cup {c} ELSE @]
  /\ UNCHANGED <<store, process, link, budget>>

\* Mutation: a secret that cannot be stored is left as it was.
SkipSecret(c) ==
  /\ worker' = [worker EXCEPT ![c].next = @ + 1]

StopStoring(c) ==
  /\ worker' = [worker EXCEPT ![c] = Idle]

FailStoring(c) ==
  /\ worker[c].stage = "storing" /\ worker[c].next \in Secrets
  /\ Fault
  /\ StopStoring(c)
  /\ UNCHANGED <<store, process, vault, link, lapses>>

\* An attempt to connect begins.
Attempt(c, history) ==
  /\ link' = [link EXCEPT ![c].next = 1, ![c].peer = NoPeer]
  /\ lapses' = [history EXCEPT
       !.torn = IF c \in history.partial THEN @ \cup {c} ELSE @ \ {c},
       !.behind = @ \ {c}]

\* The status is "Success", and onPeerMaterialStored reconnects; nothing is done
\* while an attempt is under way.
Stored(c) ==
  /\ worker[c].stage = "storing" /\ worker[c].next \notin Secrets
  /\ worker' = [worker EXCEPT ![c] = Idle]
  /\ LET history == [lapses EXCEPT !.partial = @ \ {c}] IN
       IF link[c].next = 0 THEN Attempt(c, history)
       ELSE lapses' = [history EXCEPT !.behind = @ \cup {c}] /\ UNCHANGED link
  /\ UNCHANGED <<store, process, vault, budget>>

\* The desktop's process ends, and starts again.
Restart(c) ==
  /\ Fault
  /\ worker' = [worker EXCEPT ![c] = Idle]
  /\ serving' = Unserved(c)
  /\ link' = [link EXCEPT ![c] = [session |-> 0, known |-> 0, next |-> 0, peer |-> NoPeer]]
  /\ UNCHANGED <<store, server, authority, writing, made, vault, lapses>>

-----------------------------------------------------------------------------
(* The device connects                                                      *)

\* At its start, by a timer, after a change of the network.
Reconnect(c) ==
  /\ link[c].next = 0
  /\ Attempt(c, lapses)
  /\ UNCHANGED <<store, process, worker, vault, budget>>

\* loadPeer, one secret at a time
ReadSecret(c) ==
  /\ link[c].next \in Secrets
  /\ link' = [link EXCEPT ![c].peer[link[c].next] = vault[c][link[c].next], ![c].next = @ + 1]
  /\ UNCHANGED <<store, process, worker, vault, budget, lapses>>

IsValid(peer) == \A s \in Secrets : peer[s] # 0

\* The handshake: the client's key is that of its certificate, each side takes the
\* other's certificate for one of the CA it knows, and the certificate is that of a
\* device.
Accepted(peer) ==
  /\ server = "up"
  /\ peer[Key] = peer[Certificate]
  /\ \E d, e \in devices :
       /\ d.device = peer[Certificate] /\ d.signer = authority[CaCertificate]
       /\ e.device = peer[Ca] /\ e.ca = authority[ServerCertificate]

\* The old connection is closed first. Any attempt may fail.
Connect(c) ==
  /\ link[c].next # 0 /\ link[c].next \notin Secrets
  /\ LET peer == link[c].peer IN
       IF ~IsValid(peer)
         THEN link' = [link EXCEPT ![c].next = 0] /\ UNCHANGED lapses
         ELSE /\ lapses' = [lapses EXCEPT
                   !.mixed = IF c \in lapses.torn THEN @ \cup {c} ELSE @ \ {c}]
              /\ \E session \in {0} \cup (IF Accepted(peer) THEN {peer[Certificate]} ELSE {}) :
                   link' = [link EXCEPT ![c] =
                     [session |-> session, known |-> peer[DeviceId], next |-> 0, peer |-> NoPeer]]
  /\ UNCHANGED <<store, process, worker, vault, budget>>

-----------------------------------------------------------------------------
Next ==
  \/ Start \/ WriteRow \/ Crash
  \/ InsertUser \/ InsertDevice \/ FailSignup \/ Reply
  \/ \E c \in Clients :
       \/ \E request \in Request : StartRequest(c, request)
       \/ GiveUp(c) \/ Accept(c) \/ StoreSecret(c) \/ FailStoring(c) \/ Stored(c) \/ Restart(c)
       \/ Reconnect(c) \/ ReadSecret(c) \/ Connect(c)

Spec == Init /\ [][Next]_vars
-----------------------------------------------------------------------------
(* Properties                                                               *)

\* The variables keep their types, and every device that was issued has its row.
TypeOK ==
  /\ kv \in [Keys -> 0..MaxAuthorities] /\ authority \in [Keys -> 0..MaxAuthorities]
  /\ server \in {"down", "writing", "up"}
  /\ writing \in 0..4 /\ (server = "writing" <=> writing \in Keys)
  /\ made \in 0..MaxAuthorities
  /\ Accounts \subseteq Logins /\ users \in [Accounts -> Passwords]
  /\ devices \subseteq Device
  /\ issued \in Numbers /\ {d.device : d \in devices} = 1..issued
  /\ serving \in Serving
  /\ worker \in [Clients -> Worker]
  /\ vault \in [Clients -> [Secrets -> Numbers]]
  /\ link \in [Clients -> Link]
  /\ budget \in [asks : [Clients -> Nat], faults : Nat]
  /\ lapses \in Lapses

\* However often the start is cut short between two rows, an authority that is
\* served, or would be by the next start, is of one piece: its certificates and
\* its keys belong together. The exception is a read of the table that failed and
\* was taken for its end.
OneAuthorityUnlessCut ==
  ~lapses.cut =>
    /\ server = "up" => \A j, k \in Keys : authority[j] = authority[k]
    /\ Complete(kv) => \A j, k \in Keys : kv[j] = kv[k]

Whole(c) == \A s, t \in Secrets : vault[c][s] = vault[c][t]

\* A device that has stored an enrolment is accepted whenever the backend is up:
\* its rows were committed before it was answered, and no restart replaces the
\* authority, unless a read of that was cut short.
EnrolledAreAccepted ==
  \A c \in Clients :
    Whole(c) /\ IsValid(vault[c]) /\ server = "up" /\ ~lapses.cut => Accepted(vault[c])

\* A device belongs to an account whose password was given for it, and devices do
\* not share a number. An account has a device, unless its signup is being handled,
\* or ended between the two rows: to ask for it again is refused then, and it takes
\* a pairing to get in.
AccountsAccounted ==
  /\ \A d \in devices : d.login \in Accounts /\ users[d.login] = d.given
  /\ \A d, e \in devices : d.device = e.device => d = e
  /\ \A l \in Accounts :
       \/ \E d \in devices : d.login = l
       \/ serving.stage = "device" /\ serving.request.login = l
       \/ l \in lapses.interrupted

\* A client is the device it takes itself for, by which it tells its own
\* notifications, unless its secrets were stored while they were read, or only in
\* part. It is the device it was paired as last, unless it was told to reconnect
\* while an older attempt was under way.
ConnectedAsPaired ==
  \A c \in Clients : link[c].session # 0 =>
    /\ c \in lapses.mixed \/ link[c].known = link[c].session
    /\ \/ link[c].next # 0
       \/ c \in lapses.partial \cup lapses.behind \cup lapses.mixed
       \/ link[c].session = vault[c][Certificate]
=============================================================================
