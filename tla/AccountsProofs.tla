--------------------------- MODULE AccountsProofs ---------------------------
(* Proofs about Accounts, for any clients, logins, passwords and bounds:     *)
(* every property that the run of Accounts checks.                           *)
EXTENDS Accounts, TLAPS

\* A signup is handled by a backend that is up, and what it found of the account
\* holds until it is over: there is one signup at a time.
ServingSound ==
  /\ serving # Idle => server = "up"
  /\ serving.stage = "user" =>
       serving.request.create /\ serving.request.login \notin Accounts
  /\ serving.stage = "device" =>
       /\ serving.request.login \in Accounts
       /\ users[serving.request.login] = serving.request.password
       /\ ~serving.request.create =>
            \/ \E d \in devices : d.login = serving.request.login
            \/ serving.request.login \in lapses.interrupted

\* Whoever has the number of a device got it after its row was committed.
NumbersIssued ==
  /\ serving.stage = "reply" => serving.device \in 1..issued
  /\ \A c \in Clients : worker[c].stage = "storing" => worker[c].device \in 1..issued
  /\ \A c \in Clients, s \in Secrets : vault[c][s] \in 0..issued

\* The last row is written last, so unless a read was cut short it is only there
\* with the others, all of one authority, and no other is made.
AuthoritySound ==
  /\ server = "writing" =>
       /\ \A k \in Keys : authority[k] = authority[1] /\ authority[k] # 0
       /\ \A k \in 1..(writing - 1) : kv[k] = authority[k]
  /\ ~lapses.cut =>
       /\ server = "writing" => kv[4] = 0
       /\ kv[4] # 0 => \A k \in Keys : kv[k] = kv[4]
       /\ server = "up" => kv[4] # 0 /\ \A k \in Keys : authority[k] = kv[k]

\* Every certificate that was issued is of the authority of the table.
CertificatesSound ==
  ~lapses.cut => \A d \in devices : kv[4] # 0 /\ d.ca = kv[4] /\ d.signer = kv[4]

\* What a client stores next to what it has stored is of the same device, and a
\* vault is of one piece unless its client is one that stored in part.
VaultSound ==
  \A c \in Clients :
    /\ c \notin lapses.partial => \A s \in Secrets : vault[c][s] = vault[c][1]
    /\ worker[c].stage = "storing" =>
         /\ \A s \in Secrets : s < worker[c].next => vault[c][s] = worker[c].device
         /\ worker[c].next > 1 => c \in lapses.partial

\* What an attempt has read: it is what is stored, while it is read, and of one
\* piece, unless the attempt is torn; when all is read it is what was paired last,
\* until more is stored. A client with a session has every secret, so it reads
\* every secret.
PeerSound ==
  \A c \in Clients :
    /\ link[c].next \in Secrets /\ c \notin lapses.torn =>
         /\ c \notin lapses.partial
         /\ \A s \in Secrets : s < link[c].next => link[c].peer[s] = vault[c][s]
    /\ link[c].next = 6 /\ c \notin lapses.torn =>
         /\ \A s \in Secrets : link[c].peer[s] = link[c].peer[1]
         /\ c \notin lapses.partial \cup lapses.behind => link[c].peer[1] = vault[c][1]
    /\ link[c].next = 0 /\ link[c].session # 0
         /\ c \notin lapses.mixed \cup lapses.partial \cup lapses.behind => link[c].session = vault[c][1]
    /\ link[c].session # 0 =>
         /\ c \notin lapses.mixed => link[c].known = link[c].session
         /\ \A s \in Secrets : vault[c][s] # 0
         /\ \A s \in Secrets : s < link[c].next => link[c].peer[s] # 0
    /\ \A s \in Secrets : s < link[c].next /\ link[c].peer[s] # 0 => vault[c][s] # 0

Inv ==
  /\ TypeOK
  /\ ServingSound
  /\ NumbersIssued
  /\ AuthoritySound
  /\ CertificatesSound
  /\ AccountsAccounted
  /\ VaultSound
  /\ PeerSound

-----------------------------------------------------------------------------
(* Which steps change what                                                   *)

LEMMA StoreSteps ==
  ASSUME [Next]_vars
  PROVE  UNCHANGED store \/ WriteRow \/ InsertUser \/ InsertDevice
  BY DEF Next, vars, store, process, device, Start, Crash, FailSignup, Reply, StartRequest,
         GiveUp, Accept, StoreSecret, FailStoring, Stored, Restart, Reconnect, ReadSecret, Connect

LEMMA ServerSteps ==
  ASSUME [Next]_vars
  PROVE  UNCHANGED <<server, authority, writing, made>> \/ Start \/ WriteRow \/ Crash
  BY DEF Next, vars, store, process, device, InsertUser, InsertDevice, FailSignup, Reply,
         StartRequest, GiveUp, Accept, StoreSecret, FailStoring, Stored, Restart, Reconnect,
         ReadSecret, Connect

LEMMA ServingSteps ==
  ASSUME [Next]_vars
  PROVE  \/ UNCHANGED serving
         \/ Crash \/ InsertUser \/ InsertDevice \/ FailSignup \/ Reply
         \/ \E c \in Clients : GiveUp(c) \/ Accept(c) \/ Restart(c)
  BY DEF Next, vars, store, process, device, Start, WriteRow, StartRequest, StoreSecret,
         FailStoring, Stored, Reconnect, ReadSecret, Connect

LEMMA WorkerSteps ==
  ASSUME [Next]_vars
  PROVE  \/ UNCHANGED worker
         \/ Crash \/ FailSignup \/ Reply
         \/ \E c \in Clients :
              \/ \E request \in Request : StartRequest(c, request)
              \/ GiveUp(c) \/ Accept(c) \/ StoreSecret(c) \/ FailStoring(c) \/ Stored(c) \/ Restart(c)
  BY DEF Next, vars, store, process, device, Start, WriteRow, InsertUser, InsertDevice,
         Reconnect, ReadSecret, Connect

LEMMA VaultSteps ==
  ASSUME [Next]_vars
  PROVE  UNCHANGED vault \/ \E c \in Clients : StoreSecret(c)
  BY DEF Next, vars, store, process, device, Start, WriteRow, Crash, InsertUser, InsertDevice,
         FailSignup, Reply, StartRequest, GiveUp, Accept, FailStoring, Stored, Restart,
         Reconnect, ReadSecret, Connect

LEMMA LinkSteps ==
  ASSUME [Next]_vars
  PROVE  \/ UNCHANGED link
         \/ Crash
         \/ \E c \in Clients :
              Stored(c) \/ Restart(c) \/ Reconnect(c) \/ ReadSecret(c) \/ Connect(c)
  BY DEF Next, vars, store, process, device, Start, WriteRow, InsertUser, InsertDevice,
         FailSignup, Reply, StartRequest, GiveUp, Accept, StoreSecret, FailStoring

LEMMA BudgetSteps ==
  ASSUME [Next]_vars
  PROVE  \/ UNCHANGED budget
         \/ Fault
         \/ \E c \in Clients : \E request \in Request : StartRequest(c, request)
  BY DEF Next, vars, store, process, device, Start, WriteRow, Crash, InsertUser, InsertDevice,
         FailSignup, Reply, GiveUp, Accept, StoreSecret, FailStoring, Stored, Restart,
         Reconnect, ReadSecret, Connect

LEMMA LapsesSteps ==
  ASSUME [Next]_vars
  PROVE  \/ UNCHANGED lapses
         \/ Start \/ Crash \/ FailSignup
         \/ \E c \in Clients : StoreSecret(c) \/ Stored(c) \/ Reconnect(c) \/ Connect(c)
  BY DEF Next, vars, store, process, device, WriteRow, InsertUser, InsertDevice, Reply,
         StartRequest, GiveUp, Accept, FailStoring, Restart, ReadSecret

-----------------------------------------------------------------------------
(* Types                                                                     *)

LEMMA StoreTyped ==
  ASSUME TypeOK, UNCHANGED store \/ WriteRow \/ InsertUser \/ InsertDevice
  PROVE  /\ kv' \in [Keys -> 0..MaxAuthorities]
         /\ Accounts' \subseteq Logins /\ users' \in [Accounts' -> Passwords]
         /\ devices' \subseteq Device
         /\ issued' \in Numbers /\ {d.device : d \in devices'} = 1..issued'
<1>1. CASE UNCHANGED store
  BY <1>1 DEF TypeOK, store, Accounts
<1>2. CASE WriteRow
  BY <1>2 DEF TypeOK, WriteRow, WrittenRow, Keys, Accounts
<1>3. CASE InsertUser
  <2>1. serving.request \in Request
    BY <1>3 DEF TypeOK, InsertUser, Serving, Idle
  <2> QED
    BY <1>3, <2>1 DEF TypeOK, InsertUser, Accounts, Request
<1>4. CASE InsertDevice
  <2>1. serving.request \in Request
    BY <1>4 DEF TypeOK, InsertDevice, Serving, Idle
  <2> DEFINE row ==
        [device |-> issued + 1, login |-> serving.request.login, given |-> serving.request.password,
         ca |-> authority[CaCertificate], signer |-> authority[CaKey]]
  <2>2. devices' = devices \cup {row} /\ issued' = issued + 1 /\ issued < MaxDevices
    BY <1>4 DEF InsertDevice, Inserted
  <2>3. issued \in Nat /\ issued' \in Numbers
    BY <2>2, AccountsAssumption DEF TypeOK, Numbers
  <2>4. row \in Device
    BY <2>1, <2>2, <2>3 DEF TypeOK, Device, Request, Numbers, Keys, CaCertificate, CaKey
  <2>5. row.device = issued + 1
    OBVIOUS
  <2> HIDE DEF row
  <2>6. {d.device : d \in devices'} = {d.device : d \in devices} \cup {issued + 1}
    BY <2>2, <2>5
  <2>7. {d.device : d \in devices'} = 1..issued'
    <3>1. 1..(issued + 1) = 1..issued \cup {issued + 1}
      BY <2>3
    <3> QED
      BY <2>2, <2>6, <3>1 DEF TypeOK
  <2> QED
    BY <1>4, <2>2, <2>3, <2>4, <2>7 DEF TypeOK, InsertDevice, Accounts
<1> QED
  BY <1>1, <1>2, <1>3, <1>4

LEMMA ServerTyped ==
  ASSUME TypeOK, UNCHANGED <<server, authority, writing, made>> \/ Start \/ WriteRow \/ Crash
  PROVE  /\ authority' \in [Keys -> 0..MaxAuthorities]
         /\ server' \in {"down", "writing", "up"}
         /\ writing' \in 0..4 /\ (server' = "writing" <=> writing' \in Keys)
         /\ made' \in 0..MaxAuthorities
<1>1. CASE UNCHANGED <<server, authority, writing, made>>
  BY <1>1 DEF TypeOK
<1>2. CASE Start
  <2>1. PICK rows \in Reads(kv) :
          IF Complete(rows) THEN authority' = rows /\ server' = "up" /\ UNCHANGED <<writing, made>>
          ELSE /\ made < MaxAuthorities /\ made' = made + 1
               /\ authority' = [k \in Keys |-> made + 1]
               /\ server' = "writing" /\ writing' = 1
    BY <1>2 DEF Start
  <2>2. rows \in [Keys -> 0..MaxAuthorities]
    BY AccountsAssumption DEF Reads, TypeOK
  <2>3. server = "down"
    BY <1>2 DEF Start
  <2> QED
    BY <2>1, <2>2, <2>3, AccountsAssumption DEF TypeOK, Keys
<1>3. CASE WriteRow
  BY <1>3 DEF WriteRow, TypeOK, Keys
<1>4. CASE Crash
  BY <1>4, AccountsAssumption DEF Crash, TypeOK, Keys
<1> QED
  BY <1>1, <1>2, <1>3, <1>4

\* What a signup is handled with.
LEMMA ServingParts ==
  ASSUME TypeOK
  PROVE  /\ serving.stage \in {"user", "device"} =>
              /\ serving.client \in Clients \cup {NoClient} /\ serving.request \in Request
              /\ serving = [stage |-> serving.stage, client |-> serving.client, request |-> serving.request]
         /\ serving.stage = "reply" =>
              /\ serving.client \in Clients \cup {NoClient} /\ serving.device \in Numbers
              /\ serving = [stage |-> "reply", client |-> serving.client, device |-> serving.device]
         /\ serving.stage \in {"idle", "user", "device", "reply"}
         /\ serving.stage = "idle" <=> serving = Idle
  BY DEF TypeOK, Serving, Idle

LEMMA WorkerParts ==
  ASSUME TypeOK, NEW c \in Clients
  PROVE  /\ worker[c].stage = "asking" =>
              /\ worker[c].request \in Request
              /\ worker[c] = [stage |-> "asking", request |-> worker[c].request]
         /\ worker[c].stage = "storing" =>
              /\ worker[c].device \in Numbers /\ worker[c].next \in 1..6
              /\ worker[c] = [stage |-> "storing", device |-> worker[c].device, next |-> worker[c].next]
         /\ worker[c].stage \in {"idle", "asking", "storing"}
         /\ worker[c].stage = "idle" <=> worker[c] = Idle
<1>1. worker[c] \in Worker
  BY DEF TypeOK
<1> QED
  BY <1>1 DEF Worker, Idle

LEMMA ServingTyped ==
  ASSUME TypeOK, [Next]_vars
  PROVE  serving' \in Serving
<1> USE ServingParts, WorkerParts
<1>1. CASE UNCHANGED serving
  BY <1>1 DEF TypeOK
<1>2. CASE Crash \/ FailSignup \/ Reply
  BY <1>2 DEF Crash, FailSignup, Reply, Idle, Serving
<1>3. CASE InsertUser
  <2>1. serving' = [stage |-> "device", client |-> serving.client, request |-> serving.request]
    BY <1>3 DEF InsertUser
  <2> QED
    BY <1>3, <2>1 DEF InsertUser, Serving
<1>4. CASE InsertDevice
  BY <1>4, AccountsAssumption DEF InsertDevice, Serving, Numbers, TypeOK
<1>5. ASSUME NEW c \in Clients, serving' = Unserved(c)
      PROVE  serving' \in Serving
  <2>1. CASE serving # Idle /\ serving.client = c /\ serving.stage = "reply"
    <3>1. serving' = [stage |-> "reply", client |-> NoClient, device |-> serving.device]
      BY <1>5, <2>1 DEF Unserved
    <3> QED
      BY <2>1, <3>1 DEF Serving
  <2>2. CASE serving # Idle /\ serving.client = c /\ serving.stage \in {"user", "device"}
    <3>1. serving' = [stage |-> serving.stage, client |-> NoClient, request |-> serving.request]
      BY <1>5, <2>2 DEF Unserved
    <3> QED
      BY <2>2, <3>1 DEF Serving
  <2>3. CASE ~(serving # Idle /\ serving.client = c)
    BY <1>5, <2>3 DEF Unserved, TypeOK
  <2> QED
    BY <2>1, <2>2, <2>3
<1>6. ASSUME NEW c \in Clients, Accept(c)
      PROVE  serving' \in Serving
  BY <1>6 DEF Accept, NextStage, Serving, TypeOK
<1> QED
  BY <1>1, <1>2, <1>3, <1>4, <1>5, <1>6, ServingSteps DEF GiveUp, Restart

LEMMA WorkerTyped ==
  ASSUME TypeOK, [Next]_vars
  PROVE  worker' \in [Clients -> Worker]
<1> USE ServingParts, WorkerParts
<1>0. Idle \in Worker /\ worker \in [Clients -> Worker]
  BY DEF Idle, Worker, TypeOK
<1>1. CASE UNCHANGED worker
  BY <1>0, <1>1
<1>2. CASE Crash
  BY <1>0, <1>2 DEF Crash
<1>3. ASSUME NEW c, Refuse(c)
      PROVE  worker' \in [Clients -> Worker]
  BY <1>0, <1>3 DEF Refuse
<1>4. CASE Reply
  <2>1. [stage |-> "storing", device |-> serving.device, next |-> 1] \in Worker
    BY <1>4 DEF Reply, Worker
  <2> QED
    BY <1>0, <1>4, <2>1 DEF Reply
<1>5. ASSUME NEW c \in Clients, NEW request \in Request, StartRequest(c, request)
      PROVE  worker' \in [Clients -> Worker]
  <2>1. [stage |-> "asking", request |-> request] \in Worker
    BY DEF Worker
  <2> QED
    BY <1>0, <1>5, <2>1 DEF StartRequest
<1>6. ASSUME NEW c \in Clients, worker' = [worker EXCEPT ![c] = Idle]
      PROVE  worker' \in [Clients -> Worker]
  BY <1>0, <1>6
<1>7. ASSUME NEW c \in Clients, StoreSecret(c)
      PROVE  worker' \in [Clients -> Worker]
  <2>1. /\ worker[c].next \in 1..5 /\ worker[c].device \in Numbers
        /\ worker[c] = [stage |-> "storing", device |-> worker[c].device, next |-> worker[c].next]
    BY <1>7, WorkerParts DEF StoreSecret, Secrets
  <2> DEFINE w == [stage |-> "storing", device |-> worker[c].device, next |-> worker[c].next + 1]
  <2>2. w \in Worker
    BY <2>1 DEF Worker
  <2>3. worker' = [worker EXCEPT ![c] = [worker[c] EXCEPT !.next = worker[c].next + 1]]
    BY <1>7 DEF StoreSecret
  <2>4. [worker[c] EXCEPT !.next = worker[c].next + 1] = w
    BY <2>1
  <2> HIDE DEF w
  <2> QED
    BY <1>0, <2>2, <2>3, <2>4
<1> QED
  BY <1>0, <1>1, <1>2, <1>3, <1>4, <1>5, <1>6, <1>7, WorkerSteps
     DEF FailSignup, GiveUp, Accept, FailStoring, StopStoring, Stored, Restart

LEMMA VaultTyped ==
  ASSUME TypeOK, [Next]_vars
  PROVE  vault' \in [Clients -> [Secrets -> Numbers]]
<1>1. ASSUME NEW c \in Clients, StoreSecret(c)
      PROVE  vault' \in [Clients -> [Secrets -> Numbers]]
  BY <1>1, WorkerParts DEF StoreSecret, TypeOK
<1> QED
  BY <1>1, VaultSteps DEF TypeOK

LEMMA LinkParts ==
  ASSUME TypeOK, NEW c \in Clients
  PROVE  /\ link[c] \in Link
         /\ link[c].session \in Numbers /\ link[c].known \in Numbers
         /\ link[c].next \in 0..6 /\ link[c].peer \in [Secrets -> Numbers]
  BY DEF TypeOK, Link

\* Each step sets the connection of one client, or ends every session.
LEMMA LinkTyped ==
  ASSUME TypeOK, [Next]_vars
  PROVE  link' \in [Clients -> Link]
<1>0. 0 \in Numbers /\ NoPeer \in [Secrets -> Numbers]
  BY AccountsAssumption DEF Numbers, NoPeer
<1>1. CASE UNCHANGED link
  BY <1>1 DEF TypeOK
<1>2. CASE Crash
  <2>1. \A c \in Clients : [link[c] EXCEPT !.session = 0] \in Link
    BY <1>0, LinkParts DEF Link
  <2> QED
    BY <1>2, <2>1 DEF Crash
<1>3. ASSUME NEW c \in Clients, NEW history, Attempt(c, history)
      PROVE  link' \in [Clients -> Link]
  <2>1. link' = [link EXCEPT ![c] = [link[c] EXCEPT !.peer = NoPeer, !.next = 1]]
    BY <1>3 DEF Attempt, TypeOK
  <2>2. [link[c] EXCEPT !.peer = NoPeer, !.next = 1] \in Link
    <3>1. 1 \in 0..6
      OBVIOUS
    <3> QED
      BY <1>0, <3>1, LinkParts DEF Link
  <2> QED
    BY <2>1, <2>2 DEF TypeOK
<1>4. ASSUME NEW c \in Clients, Restart(c)
      PROVE  link' \in [Clients -> Link]
  BY <1>0, <1>4 DEF Restart, Link, TypeOK
<1>5. ASSUME NEW c \in Clients, ReadSecret(c)
      PROVE  link' \in [Clients -> Link]
  <2> DEFINE peer == [link[c].peer EXCEPT ![link[c].next] = vault[c][link[c].next]]
             read == [link[c] EXCEPT !.peer = peer, !.next = link[c].next + 1]
  <2>1. link[c].next \in Secrets
    BY <1>5 DEF ReadSecret
  <2>2. vault[c][link[c].next] \in Numbers
    BY <2>1 DEF TypeOK
  <2>3. peer \in [Secrets -> Numbers]
    BY <2>1, <2>2, LinkParts
  <2>4. link[c].next + 1 \in 0..6
    BY <2>1 DEF Secrets
  <2> HIDE DEF peer
  <2>5. read \in Link
    BY <2>3, <2>4, LinkParts DEF Link
  <2>6. link' = [link EXCEPT ![c] = read]
    BY <1>5, LinkParts DEF ReadSecret, TypeOK, Link, peer
  <2> QED
    BY <2>5, <2>6 DEF TypeOK
<1>6. ASSUME NEW c \in Clients, Connect(c)
      PROVE  link' \in [Clients -> Link]
  <2>1. CASE link' = [link EXCEPT ![c].next = 0]
    <3>1. link' = [link EXCEPT ![c] = [link[c] EXCEPT !.next = 0]]
      BY <2>1
    <3>2. [link[c] EXCEPT !.next = 0] \in Link
      BY LinkParts DEF Link
    <3> QED
      BY <3>1, <3>2 DEF TypeOK
  <2>2. ASSUME NEW session \in {0, link[c].peer[Certificate]},
               link' = [link EXCEPT ![c] =
                 [session |-> session, known |-> link[c].peer[DeviceId], next |-> 0, peer |-> NoPeer]]
        PROVE  link' \in [Clients -> Link]
    <3>1. session \in Numbers /\ link[c].peer[DeviceId] \in Numbers
      BY <1>0, LinkParts DEF Secrets, Certificate, DeviceId
    <3>2. [session |-> session, known |-> link[c].peer[DeviceId], next |-> 0, peer |-> NoPeer] \in Link
      BY <1>0, <3>1 DEF Link
    <3> QED
      BY <2>2, <3>2 DEF TypeOK
  <2> QED
    BY <1>6, <2>1, <2>2 DEF Connect
<1> QED
  BY <1>1, <1>2, <1>3, <1>4, <1>5, <1>6, LinkSteps DEF Stored, Reconnect

LEMMA BudgetTyped ==
  ASSUME TypeOK, [Next]_vars
  PROVE  budget' \in [asks : [Clients -> Nat], faults : Nat]
<1>1. CASE Fault
  BY <1>1 DEF Fault, TypeOK
<1>2. ASSUME NEW c \in Clients, NEW request \in Request, StartRequest(c, request)
      PROVE  budget' \in [asks : [Clients -> Nat], faults : Nat]
  <2>1. budget.asks[c] - 1 \in Nat /\ budget.asks \in [Clients -> Nat]
    BY <1>2 DEF StartRequest, TypeOK
  <2>2. budget' = [budget EXCEPT !.asks = [budget.asks EXCEPT ![c] = budget.asks[c] - 1]]
    BY <1>2 DEF StartRequest, TypeOK
  <2> QED
    BY <2>1, <2>2 DEF TypeOK
<1> QED
  BY <1>1, <1>2, BudgetSteps DEF TypeOK

LEMMA LapsesTyped ==
  ASSUME TypeOK, [Next]_vars
  PROVE  lapses' \in Lapses
<1>1. CASE Start
  BY <1>1 DEF Start, TypeOK, Lapses
<1>2. CASE Crash \/ FailSignup
  <2>1. Interrupted \in SUBSET Logins
    BY ServingParts DEF Interrupted, TypeOK, Lapses, Request
  <2> QED
    BY <1>2, <2>1 DEF Crash, FailSignup, TypeOK, Lapses
<1>3. ASSUME NEW c \in Clients, NEW history \in Lapses, Attempt(c, history)
      PROVE  lapses' \in Lapses
  BY <1>3 DEF Attempt, Lapses
<1>4. ASSUME NEW c \in Clients, StoreSecret(c) \/ Stored(c) \/ Reconnect(c) \/ Connect(c)
      PROVE  lapses' \in Lapses
  <2>1. CASE StoreSecret(c)
    BY <2>1 DEF StoreSecret, TypeOK, Lapses
  <2>2. CASE Stored(c)
    <3> DEFINE history == [lapses EXCEPT !.partial = @ \ {c}]
    <3>1. history \in Lapses
      BY DEF TypeOK, Lapses
    <3>2. Attempt(c, history) \/ lapses' = [history EXCEPT !.behind = @ \cup {c}]
      BY <2>2 DEF Stored
    <3> HIDE DEF history
    <3> QED
      BY <1>3, <3>1, <3>2 DEF Lapses
  <2>3. CASE Reconnect(c)
    BY <1>3, <2>3 DEF Reconnect, TypeOK
  <2>4. CASE Connect(c)
    <3>1. \E S \in SUBSET Clients : lapses' = lapses \/ lapses' = [lapses EXCEPT !.mixed = S]
      <4>1. lapses.mixed \cup {c} \in SUBSET Clients /\ lapses.mixed \ {c} \in SUBSET Clients
        BY DEF TypeOK, Lapses
      <4> QED
        BY <2>4, <4>1 DEF Connect
    <3> QED
      BY <3>1 DEF TypeOK, Lapses
  <2> QED
    BY <1>4, <2>1, <2>2, <2>3, <2>4
<1> QED
  BY <1>1, <1>2, <1>4, LapsesSteps DEF TypeOK

LEMMA TypeStep ==
  ASSUME TypeOK, [Next]_vars
  PROVE  TypeOK'
  BY StoreTyped, StoreSteps, ServerTyped, ServerSteps, ServingTyped, WorkerTyped, VaultTyped,
     LinkTyped, BudgetTyped, LapsesTyped DEF TypeOK

-----------------------------------------------------------------------------
(* The rest of the invariant                                                 *)

LEMMA ServingStep ==
  ASSUME TypeOK, ServingSound, AccountsAccounted, [Next]_vars
  PROVE  ServingSound'
<1> USE ServingParts DEF ServingSound
<1>1. CASE UNCHANGED <<serving, server, store>> /\ lapses'.interrupted = lapses.interrupted
  BY <1>1 DEF store, Accounts
<1>2. CASE Start \/ WriteRow
  <2>1. serving = Idle /\ serving' = serving
    BY <1>2 DEF Start, WriteRow, device
  <2> QED
    BY <2>1 DEF Idle
<1>3. CASE Crash \/ FailSignup \/ Reply
  BY <1>3 DEF Crash, FailSignup, Reply, Idle
<1>4. CASE InsertUser
  BY <1>4 DEF InsertUser, TypeOK, Accounts
<1>5. CASE InsertDevice
  BY <1>5 DEF InsertDevice
<1>6. ASSUME NEW c \in Clients, serving' = Unserved(c), UNCHANGED <<server, store, lapses>>
      PROVE  ServingSound'
  BY <1>6 DEF Unserved, store, Accounts
<1>7. ASSUME NEW c \in Clients, Accept(c)
      PROVE  ServingSound'
  <2> DEFINE request == worker[c].request
  <2>1. CASE UNCHANGED serving
    BY <1>7, <2>1 DEF Accept, store, Accounts
  <2>2. CASE /\ NextStage(request) # "refused"
             /\ serving' = [stage |-> NextStage(request), client |-> c, request |-> request]
    <3>1. server' = "up" /\ UNCHANGED <<users, devices, lapses>> /\ serving = Idle
      BY <1>7 DEF Accept, store
    <3>2. CASE request.login \notin Accounts
      BY <2>2, <3>1, <3>2 DEF NextStage, Accounts
    <3>3. CASE request.login \in Accounts
      <4>1. NextStage(request) = "device" /\ users[request.login] = request.password
        BY <2>2, <3>3 DEF NextStage
      <4>2. \/ \E d \in devices : d.login = request.login
            \/ request.login \in lapses.interrupted
        BY <3>1, <3>3 DEF AccountsAccounted, Idle
      <4> QED
        BY <2>2, <3>1, <3>3, <4>1, <4>2 DEF Accounts
    <3> QED
      BY <3>2, <3>3
  <2> QED
    BY <1>7, <2>1, <2>2 DEF Accept
<1>8. ASSUME NEW c \in Clients,
             \/ \E request \in Request : StartRequest(c, request)
             \/ StoreSecret(c) \/ FailStoring(c) \/ Stored(c) \/ Reconnect(c) \/ ReadSecret(c) \/ Connect(c)
      PROVE  UNCHANGED <<serving, server, store>> /\ lapses'.interrupted = lapses.interrupted
  BY <1>8 DEF StartRequest, StoreSecret, FailStoring, Stored, Attempt, Reconnect, ReadSecret,
              Connect, process, TypeOK, Lapses
<1>9. ASSUME NEW c \in Clients, GiveUp(c) \/ Restart(c)
      PROVE  ServingSound'
  BY <1>6, <1>9 DEF GiveUp, Restart
<1> QED
  BY <1>1, <1>2, <1>3, <1>4, <1>5, <1>7, <1>8, <1>9 DEF Next, vars, process

LEMMA NumbersStep ==
  ASSUME TypeOK, ServingSound, NumbersIssued, [Next]_vars
  PROVE  NumbersIssued'
<1> USE DEF NumbersIssued
<1>0. issued \in Nat /\ issued' \in issued..(issued + 1)
  BY StoreSteps, AccountsAssumption
     DEF store, WriteRow, InsertUser, InsertDevice, TypeOK, Numbers
<1>1. serving'.stage = "reply" => serving'.device \in 1..issued'
  <2>1. CASE UNCHANGED serving
    BY <1>0, <2>1
  <2>2. CASE Crash \/ InsertUser \/ FailSignup \/ Reply
    BY <2>2, ServingParts DEF Crash, InsertUser, FailSignup, Reply, Idle
  <2>3. CASE InsertDevice
    BY <1>0, <2>3 DEF InsertDevice
  <2>4. ASSUME NEW c \in Clients, GiveUp(c) \/ Restart(c)
        PROVE  serving'.stage = "reply" => serving'.device \in 1..issued'
    BY <1>0, <2>4, ServingParts DEF GiveUp, Restart, Unserved
  <2>5. ASSUME NEW c \in Clients, Accept(c)
        PROVE  serving'.stage = "reply" => serving'.device \in 1..issued'
    BY <1>0, <2>5 DEF Accept, NextStage
  <2> QED
    BY <2>1, <2>2, <2>3, <2>4, <2>5, ServingSteps
<1>2. \A d \in Clients : worker'[d].stage = "storing" => worker'[d].device \in 1..issued'
  <2>1. CASE UNCHANGED worker
    BY <1>0, <2>1
  <2>2. CASE Crash \/ FailSignup
    BY <1>0, <2>2 DEF Crash, FailSignup, Refuse, Idle
  <2>3. CASE Reply
    BY <1>0, <2>3 DEF Reply
  <2>4. ASSUME NEW c \in Clients, NEW request \in Request, StartRequest(c, request)
        PROVE  \A d \in Clients : worker'[d].stage = "storing" => worker'[d].device \in 1..issued'
    BY <1>0, <2>4 DEF StartRequest, TypeOK
  <2>5. ASSUME NEW c \in Clients,
               GiveUp(c) \/ Accept(c) \/ FailStoring(c) \/ Stored(c) \/ Restart(c)
        PROVE  \A d \in Clients : worker'[d].stage = "storing" => worker'[d].device \in 1..issued'
    BY <1>0, <2>5
       DEF GiveUp, Accept, Refuse, FailStoring, StopStoring, Stored, Restart, Idle, TypeOK
  <2>6. ASSUME NEW c \in Clients, StoreSecret(c)
        PROVE  \A d \in Clients : worker'[d].stage = "storing" => worker'[d].device \in 1..issued'
    <3>1. worker' = [worker EXCEPT ![c] = [worker[c] EXCEPT !.next = worker[c].next + 1]]
      BY <2>6 DEF StoreSecret
    <3>2. worker'[c].device = worker[c].device /\ worker[c].stage = "storing"
      BY <2>6, <3>1, WorkerParts DEF StoreSecret, TypeOK
    <3>3. \A d \in Clients \ {c} : worker'[d] = worker[d]
      BY <3>1 DEF TypeOK
    <3> QED
      BY <1>0, <3>2, <3>3
  <2> QED
    BY <2>1, <2>2, <2>3, <2>4, <2>5, <2>6, WorkerSteps
<1>3. \A c \in Clients, s \in Secrets : vault'[c][s] \in 0..issued'
  <2>1. CASE UNCHANGED vault
    BY <1>0, <2>1
  <2>2. ASSUME NEW c \in Clients, StoreSecret(c)
        PROVE  \A d \in Clients, s \in Secrets : vault'[d][s] \in 0..issued'
    BY <1>0, <2>2 DEF StoreSecret, TypeOK
  <2> QED
    BY <2>1, <2>2, VaultSteps
<1> QED
  BY <1>1, <1>2, <1>3

LEMMA AuthorityStep ==
  ASSUME TypeOK, AuthoritySound, [Next]_vars
  PROVE  AuthoritySound'
<1> USE DEF AuthoritySound, Keys
<1>1. CASE UNCHANGED <<kv, server, authority, writing>> /\ lapses'.cut = lapses.cut
  BY <1>1
<1>2. CASE Start
  <2>1. PICK rows \in Reads(kv) :
          /\ IF rows = kv THEN UNCHANGED lapses ELSE lapses' = [lapses EXCEPT !.cut = TRUE]
          /\ IF Complete(rows) THEN authority' = rows /\ server' = "up" /\ UNCHANGED <<writing, made>>
             ELSE /\ made < MaxAuthorities /\ made' = made + 1
                  /\ authority' = [k \in Keys |-> made + 1]
                  /\ server' = "writing" /\ writing' = 1
    BY <1>2 DEF Start
  <2>2. UNCHANGED kv /\ server = "down" /\ kv \in [Keys -> 0..MaxAuthorities] /\ made \in Nat
    BY <1>2, AccountsAssumption DEF Start, store, TypeOK
  <2>3. CASE rows = kv /\ Complete(rows)
    BY <2>1, <2>2, <2>3 DEF Complete
  <2>4. CASE rows = kv /\ ~Complete(rows)
    <3>1. ~lapses.cut => kv[4] = 0
      BY <2>2, <2>4 DEF Complete
    <3> QED
      BY <2>1, <2>2, <2>4, <3>1
  <2>5. CASE rows # kv
    <3>1. lapses'.cut
      BY <2>1, <2>5 DEF TypeOK, Lapses
    <3>2. server' = "writing" => writing' = 1 /\ \A k \in Keys : authority'[k] = made + 1
      BY <2>1
    <3> QED
      BY <2>2, <3>1, <3>2
  <2> QED
    BY <2>3, <2>4, <2>5
<1>3. CASE WriteRow
  <2>1. /\ kv' = [kv EXCEPT ![writing] = authority[writing]] /\ server = "writing"
        /\ UNCHANGED <<authority, lapses>> /\ writing \in 1..4
        /\ kv \in [Keys -> 0..MaxAuthorities] /\ authority \in [Keys -> 0..MaxAuthorities]
    BY <1>3 DEF WriteRow, WrittenRow, TypeOK
  <2>2. CASE writing = 4
    BY <1>3, <2>1, <2>2 DEF WriteRow
  <2>3. CASE writing \in 1..3
    BY <1>3, <2>1, <2>3 DEF WriteRow
  <2> QED
    BY <2>1, <2>2, <2>3
<1>4. CASE Crash
  BY <1>4 DEF Crash, store, TypeOK, Lapses
<1>5. CASE InsertUser \/ InsertDevice \/ FailSignup
  BY <1>1, <1>5 DEF InsertUser, InsertDevice, FailSignup, store, TypeOK, Lapses
<1>6. ASSUME NEW c \in Clients, StoreSecret(c) \/ Stored(c) \/ Reconnect(c) \/ Connect(c)
      PROVE  lapses'.cut = lapses.cut
  BY <1>6 DEF StoreSecret, Stored, Reconnect, Connect, Attempt, TypeOK, Lapses
<1>7. CASE UNCHANGED <<kv, server, authority, writing>>
  BY <1>1, <1>2, <1>4, <1>5, <1>6, <1>7, LapsesSteps
<1> QED
  BY <1>2, <1>3, <1>4, <1>5, <1>7, ServerSteps, StoreSteps DEF store

LEMMA CutStays ==
  ASSUME TypeOK, [Next]_vars
  PROVE  lapses.cut => lapses'.cut
<1>1. CASE Start
  BY <1>1 DEF Start, TypeOK, Lapses
<1>2. CASE Crash \/ FailSignup
  BY <1>2 DEF Crash, FailSignup, TypeOK, Lapses
<1>3. ASSUME NEW c \in Clients, StoreSecret(c) \/ Stored(c) \/ Reconnect(c) \/ Connect(c)
      PROVE  lapses'.cut = lapses.cut
  BY <1>3 DEF StoreSecret, Stored, Reconnect, Connect, Attempt, TypeOK, Lapses
<1> QED
  BY <1>1, <1>2, <1>3, LapsesSteps

LEMMA CertificatesStep ==
  ASSUME TypeOK, ServingSound, AuthoritySound, CertificatesSound, [Next]_vars
  PROVE  CertificatesSound'
<1> SUFFICES ASSUME ~lapses'.cut
             PROVE  \A d \in devices' : kv'[4] # 0 /\ d.ca = kv'[4] /\ d.signer = kv'[4]
  BY DEF CertificatesSound
<1>0. ~lapses.cut
  BY CutStays
<1>1. CASE UNCHANGED store \/ InsertUser
  BY <1>0, <1>1 DEF CertificatesSound, InsertUser, store
<1>2. CASE WriteRow
  BY <1>0, <1>2 DEF CertificatesSound, AuthoritySound, WriteRow
<1>3. CASE InsertDevice
  <2>1. server = "up"
    BY <1>3, ServingParts DEF InsertDevice, ServingSound, Idle
  <2>2. kv[4] # 0 /\ authority[CaCertificate] = kv[4] /\ authority[CaKey] = kv[4]
    BY <1>0, <2>1 DEF AuthoritySound, CaCertificate, CaKey, Keys
  <2> QED
    BY <1>0, <1>3, <2>2 DEF CertificatesSound, InsertDevice, Inserted
<1> QED
  BY <1>1, <1>2, <1>3, StoreSteps

\* Signups that were interrupted are remembered, and one that goes on goes on for
\* the same account.
LEMMA AccountKept ==
  ASSUME TypeOK, ServingSound, AccountsAccounted, [Next]_vars,
         NEW l \in Accounts
  PROVE  \/ \E d \in devices' : d.login = l
         \/ serving'.stage = "device" /\ serving'.request.login = l
         \/ l \in lapses'.interrupted
<1>1. devices \subseteq devices'
  BY StoreSteps DEF store, WriteRow, InsertUser, InsertDevice, Inserted
<1>2. lapses.interrupted \subseteq lapses'.interrupted
  <2>1. CASE Crash \/ FailSignup
    BY <2>1 DEF Crash, FailSignup, Interrupted, TypeOK, Lapses
  <2>2. CASE Start
    BY <2>2 DEF Start, TypeOK, Lapses
  <2>3. ASSUME NEW c \in Clients, StoreSecret(c) \/ Stored(c) \/ Reconnect(c) \/ Connect(c)
        PROVE  lapses'.interrupted = lapses.interrupted
    BY <2>3 DEF StoreSecret, Stored, Reconnect, Connect, Attempt, TypeOK, Lapses
  <2> QED
    BY <2>1, <2>2, <2>3, LapsesSteps
<1>3. CASE (\E d \in devices : d.login = l) \/ l \in lapses.interrupted
  BY <1>1, <1>2, <1>3
<1>4. CASE serving.stage = "device" /\ serving.request.login = l
  <2>1. CASE UNCHANGED serving
    BY <1>4, <2>1
  <2>2. CASE Crash \/ FailSignup
    <3>1. CASE serving.request.create
      BY <1>4, <2>2, <3>1 DEF Crash, FailSignup, Interrupted, TypeOK, Lapses
    <3>2. CASE ~serving.request.create
      BY <1>1, <1>2, <1>4, <3>2 DEF ServingSound
    <3> QED
      BY <3>1, <3>2
  <2>3. CASE InsertUser \/ Reply
    BY <1>4, <2>3 DEF InsertUser, Reply
  <2>4. CASE InsertDevice
    <3> DEFINE row ==
          [device |-> issued + 1, login |-> serving.request.login,
           given |-> serving.request.password,
           ca |-> authority[CaCertificate], signer |-> authority[CaKey]]
    <3>1. row \in devices' /\ row.login = l
      BY <1>4, <2>4 DEF InsertDevice, Inserted
    <3> QED
      BY <3>1
  <2>5. ASSUME NEW c \in Clients, GiveUp(c) \/ Restart(c)
        PROVE  serving'.stage = serving.stage /\ serving'.request = serving.request
    BY <1>4, <2>5, ServingParts DEF GiveUp, Restart, Unserved
  <2>6. ASSUME NEW c \in Clients, Accept(c)
        PROVE  FALSE
    BY <1>4, <2>6 DEF Accept, Idle
  <2> QED
    BY <1>4, <2>1, <2>2, <2>3, <2>4, <2>5, <2>6, ServingSteps
<1> QED
  BY <1>3, <1>4 DEF AccountsAccounted

LEMMA AccountsStep ==
  ASSUME TypeOK, ServingSound, AccountsAccounted, [Next]_vars
  PROVE  AccountsAccounted'
<1>1. CASE UNCHANGED <<users, devices>>
  BY <1>1, AccountKept DEF AccountsAccounted, Accounts
<1>2. CASE InsertUser
  <2>1. /\ serving.request.login \notin Accounts
        /\ Accounts' = Accounts \cup {serving.request.login}
        /\ \A l \in Accounts : users'[l] = users[l]
        /\ devices' = devices
        /\ serving'.stage = "device" /\ serving'.request = serving.request
    BY <1>2, ServingParts DEF InsertUser, ServingSound, Accounts
  <2> QED
    BY <2>1, AccountKept DEF AccountsAccounted
<1>3. CASE InsertDevice
  <2> DEFINE row ==
        [device |-> issued + 1, login |-> serving.request.login, given |-> serving.request.password,
         ca |-> authority[CaCertificate], signer |-> authority[CaKey]]
  <2>1. devices' = devices \cup {row} /\ UNCHANGED users
    BY <1>3 DEF InsertDevice, Inserted
  <2>2. row.login \in Accounts /\ users[row.login] = row.given
    BY <1>3 DEF InsertDevice, ServingSound
  <2>3. \A d \in devices : d.device # row.device
    <3>1. \A d \in devices : d.device \in 1..issued
      BY DEF TypeOK
    <3>2. row.device = issued + 1 /\ issued \in Nat
      BY AccountsAssumption DEF TypeOK, Numbers
    <3> QED
      BY <3>1, <3>2
  <2> HIDE DEF row
  <2> QED
    BY <2>1, <2>2, <2>3, AccountKept DEF AccountsAccounted, Accounts
<1> QED
  BY <1>1, <1>2, <1>3, StoreSteps DEF store, WriteRow

\* What is recorded of a client's secrets stays.
SameRecord(c) ==
  /\ c \in lapses'.partial <=> c \in lapses.partial
  /\ c \in lapses'.torn <=> c \in lapses.torn
  /\ c \in lapses'.mixed <=> c \in lapses.mixed
  /\ c \in lapses'.behind <=> c \in lapses.behind

\* What one client does leaves the others alone.
LEMMA OthersKept ==
  ASSUME TypeOK, NEW b \in Clients, NEW c \in Clients, b # c,
         StoreSecret(b) \/ Stored(b) \/ Restart(b) \/ Reconnect(b) \/ ReadSecret(b) \/ Connect(b)
  PROVE  vault'[c] = vault[c] /\ link'[c] = link[c] /\ worker'[c] = worker[c] /\ SameRecord(c)
<1>1. CASE StoreSecret(b)
  BY <1>1 DEF StoreSecret, SameRecord, TypeOK, Lapses
<1>2. ASSUME NEW history \in Lapses, Attempt(b, history)
      PROVE  /\ link'[c] = link[c]
             /\ c \in lapses'.partial <=> c \in history.partial
             /\ c \in lapses'.torn <=> c \in history.torn
             /\ c \in lapses'.mixed <=> c \in history.mixed
             /\ c \in lapses'.behind <=> c \in history.behind
  BY <1>2 DEF Attempt, TypeOK, Lapses
<1>3. CASE Stored(b)
  <2> DEFINE history == [lapses EXCEPT !.partial = @ \ {b}]
  <2>1. /\ history \in Lapses
        /\ c \in history.partial <=> c \in lapses.partial
        /\ history.torn = lapses.torn /\ history.mixed = lapses.mixed
        /\ history.behind = lapses.behind
    BY DEF TypeOK, Lapses
  <2>2. \/ Attempt(b, history)
        \/ lapses' = [history EXCEPT !.behind = @ \cup {b}] /\ UNCHANGED link
    BY <1>3 DEF Stored
  <2>3. vault'[c] = vault[c] /\ worker'[c] = worker[c]
    BY <1>3 DEF Stored, TypeOK
  <2> HIDE DEF history
  <2>4. CASE Attempt(b, history)
    BY <1>2, <2>1, <2>3, <2>4 DEF SameRecord
  <2>5. CASE lapses' = [history EXCEPT !.behind = @ \cup {b}] /\ UNCHANGED link
    BY <2>1, <2>3, <2>5 DEF SameRecord, Lapses
  <2> QED
    BY <2>2, <2>4, <2>5
<1>4. CASE Restart(b)
  BY <1>4 DEF Restart, SameRecord, TypeOK
<1>5. CASE Reconnect(b)
  BY <1>2, <1>5 DEF Reconnect, SameRecord, TypeOK
<1>6. CASE ReadSecret(b)
  BY <1>6 DEF ReadSecret, SameRecord, TypeOK
<1>7. CASE Connect(b)
  <2>1. link'[c] = link[c]
    BY <1>7 DEF Connect, TypeOK
  <2>2. \/ lapses' = lapses
        \/ \E S \in SUBSET Clients :
             (c \in S <=> c \in lapses.mixed) /\ lapses' = [lapses EXCEPT !.mixed = S]
    <3>1. lapses.mixed \cup {b} \in SUBSET Clients /\ lapses.mixed \ {b} \in SUBSET Clients
      BY DEF TypeOK, Lapses
    <3> QED
      BY <1>7, <3>1 DEF Connect
  <2> QED
    BY <1>7, <2>1, <2>2 DEF Connect, SameRecord, TypeOK, Lapses
<1> QED
  BY <1>1, <1>3, <1>4, <1>5, <1>6, <1>7

LEMMA ClientSteps ==
  ASSUME TypeOK, [Next]_vars, NEW c \in Clients
  PROVE  \/ StoreSecret(c) \/ Stored(c) \/ Restart(c) \/ Reconnect(c) \/ ReadSecret(c) \/ Connect(c)
         \/ Crash
         \/ vault'[c] = vault[c] /\ link'[c] = link[c] /\ SameRecord(c)
<1>1. CASE \E b \in Clients : StoreSecret(b) \/ Stored(b) \/ Restart(b) \/ Reconnect(b)
                              \/ ReadSecret(b) \/ Connect(b)
  BY <1>1, OthersKept
<1>2. CASE Start \/ FailSignup
  BY <1>2 DEF Start, FailSignup, device, SameRecord, TypeOK, Lapses
<1>3. CASE UNCHANGED <<vault, link, lapses>>
  BY <1>3 DEF SameRecord
<1> QED
  BY <1>1, <1>2, <1>3, VaultSteps, LinkSteps, LapsesSteps

\* A client that does not store a secret leaves its storing as it is, begins one,
\* or is done with it.
LEMMA WorkerKept ==
  ASSUME TypeOK, [Next]_vars, NEW c \in Clients
  PROVE  \/ StoreSecret(c)
         \/ worker'[c] = worker[c]
         \/ worker'[c].stage # "storing"
         \/ worker'[c].next = 1
<1>1. CASE Crash \/ FailSignup \/ Reply
  BY <1>1 DEF Crash, FailSignup, Refuse, Reply, Idle, TypeOK
<1>2. ASSUME NEW b \in Clients,
             \/ \E request \in Request : StartRequest(b, request)
             \/ GiveUp(b) \/ Accept(b) \/ FailStoring(b) \/ Stored(b) \/ Restart(b)
      PROVE  worker'[c] = worker[c] \/ worker'[c].stage # "storing"
  BY <1>2 DEF StartRequest, GiveUp, Accept, Refuse, FailStoring, StopStoring, Stored, Restart,
              Idle, TypeOK
<1>3. ASSUME NEW b \in Clients, StoreSecret(b), b # c
      PROVE  worker'[c] = worker[c]
  BY <1>3, OthersKept
<1> QED
  BY <1>1, <1>2, <1>3, WorkerSteps

LEMMA VaultStep ==
  ASSUME TypeOK, VaultSound, [Next]_vars
  PROVE  VaultSound'
<1> SUFFICES ASSUME NEW c \in Clients
             PROVE  /\ c \notin lapses'.partial => \A s \in Secrets : vault'[c][s] = vault'[c][1]
                    /\ worker'[c].stage = "storing" =>
                         /\ \A s \in Secrets :
                              s < worker'[c].next => vault'[c][s] = worker'[c].device
                         /\ worker'[c].next > 1 => c \in lapses'.partial
  BY DEF VaultSound
<1>1. CASE StoreSecret(c)
  <2> DEFINE i == worker[c].next
  <2>1. i \in Secrets /\ worker[c].stage = "storing"
    BY <1>1 DEF StoreSecret
  <2>2. c \in lapses'.partial
    BY <1>1 DEF StoreSecret, TypeOK, Lapses
  <2>3. vault'[c][i] = worker[c].device /\ \A s \in Secrets \ {i} : vault'[c][s] = vault[c][s]
    BY <1>1, <2>1 DEF StoreSecret, TypeOK
  <2>4. worker'[c].next = i + 1 /\ worker'[c].device = worker[c].device
    <3>1. worker' = [worker EXCEPT ![c] = [worker[c] EXCEPT !.next = worker[c].next + 1]]
      BY <1>1 DEF StoreSecret
    <3> QED
      BY <2>1, <3>1, WorkerParts DEF TypeOK
  <2> QED
    BY <2>1, <2>2, <2>3, <2>4 DEF VaultSound, Secrets
<1>2. CASE Stored(c)
  <2>1. worker'[c].stage = "idle" /\ vault' = vault
    BY <1>2 DEF Stored, Idle, TypeOK
  <2>2. \A s \in Secrets : vault[c][s] = worker[c].device
    <3>1. worker[c].next = 6 /\ worker[c].stage = "storing"
      <4>1. worker[c].stage = "storing" /\ worker[c].next \notin 1..5
        BY <1>2 DEF Stored, Secrets
      <4>2. worker[c].next \in 1..6
        BY <4>1, WorkerParts
      <4> QED
        BY <4>1, <4>2
    <3> QED
      BY <3>1 DEF VaultSound, Secrets
  <2> QED
    BY <2>1, <2>2 DEF Secrets
<1>3. CASE ~StoreSecret(c) /\ ~Stored(c)
  <2>1. vault'[c] = vault[c] /\ (c \in lapses'.partial <=> c \in lapses.partial)
    <3>1. CASE Restart(c) \/ ReadSecret(c)
      BY <3>1 DEF Restart, ReadSecret, store, process
    <3>2. CASE Reconnect(c)
      BY <3>2 DEF Reconnect, Attempt, TypeOK, Lapses
    <3>3. CASE Connect(c)
      BY <3>3 DEF Connect, TypeOK, Lapses
    <3>4. CASE Crash
      BY <3>4 DEF Crash, TypeOK, Lapses
    <3> QED
      BY <1>3, <3>1, <3>2, <3>3, <3>4, ClientSteps DEF SameRecord
  <2> QED
    BY <1>3, <2>1, WorkerKept, WorkerParts DEF VaultSound, Secrets
<1> QED
  BY <1>1, <1>2, <1>3

\* What PeerSound says of one client.
LEMMA PeerStep ==
  ASSUME TypeOK, NumbersIssued, VaultSound, PeerSound, [Next]_vars
  PROVE  PeerSound'
<1> USE DEF Secrets
<1> DEFINE
      Reading(c)   == link[c].next \in Secrets /\ c \notin lapses.torn =>
                        /\ c \notin lapses.partial
                        /\ \A s \in Secrets : s < link[c].next => link[c].peer[s] = vault[c][s]
      Read(c)      == link[c].next = 6 /\ c \notin lapses.torn =>
                        /\ \A s \in Secrets : link[c].peer[s] = link[c].peer[1]
                        /\ c \notin lapses.partial \cup lapses.behind =>
                             link[c].peer[1] = vault[c][1]
      Connected(c) == link[c].next = 0 /\ link[c].session # 0
                      /\ c \notin lapses.mixed \cup lapses.partial \cup lapses.behind =>
                        link[c].session = vault[c][1]
      Known(c)     == link[c].session # 0 =>
                        /\ c \notin lapses.mixed => link[c].known = link[c].session
                        /\ \A s \in Secrets : vault[c][s] # 0
                        /\ \A s \in Secrets : s < link[c].next => link[c].peer[s] # 0
      Filled(c)    == \A s \in Secrets :
                        s < link[c].next /\ link[c].peer[s] # 0 => vault[c][s] # 0
      Sound(c)     == Reading(c) /\ Read(c) /\ Connected(c) /\ Known(c) /\ Filled(c)
<1>0. ASSUME NEW c \in Clients
      PROVE  Sound(c) /\ link[c].next \in 0..6 /\ vault[c] \in [Secrets -> Nat]
  BY <1>0, LinkParts DEF PeerSound, TypeOK, Numbers
<1> SUFFICES ASSUME NEW c \in Clients
             PROVE  Sound(c)'
  BY DEF PeerSound
<1>1. CASE StoreSecret(c)
  <2> DEFINE i == worker[c].next
  <2>1. i \in Secrets /\ vault'[c][i] # 0 /\ \A s \in Secrets \ {i} : vault'[c][s] = vault[c][s]
    BY <1>1 DEF StoreSecret, NumbersIssued, TypeOK
  <2>2. UNCHANGED link
    BY <1>1 DEF StoreSecret
  <2>3. /\ c \in lapses'.partial
        /\ c \in lapses'.torn <=> c \in lapses.torn \/ link[c].next \in Secrets
        /\ lapses'.mixed = lapses.mixed
    BY <1>1 DEF StoreSecret, TypeOK, Lapses
  <2> QED
    BY <1>0, <2>1, <2>2, <2>3
<1>2. ASSUME NEW history \in Lapses, Attempt(c, history), vault'[c] = vault[c],
             c \in history.mixed <=> c \in lapses.mixed
      PROVE  Sound(c)'
  <2>1. link'[c].next = 1 /\ link'[c].session = link[c].session /\ link'[c].known = link[c].known
    BY <1>2 DEF Attempt, TypeOK, Link
  <2>2. /\ c \in lapses'.torn <=> c \in history.partial
        /\ lapses'.partial = history.partial /\ lapses'.mixed = history.mixed
    BY <1>2 DEF Attempt, Lapses
  <2> QED
    BY <1>0, <1>2, <2>1, <2>2
<1>3. CASE Stored(c)
  <2> DEFINE history == [lapses EXCEPT !.partial = @ \ {c}]
  <2>1. /\ history \in Lapses /\ c \notin history.partial
        /\ history.torn = lapses.torn /\ history.mixed = lapses.mixed
    BY DEF TypeOK, Lapses
  <2>2. \/ link[c].next = 0 /\ Attempt(c, history)
        \/ link[c].next # 0 /\ lapses' = [history EXCEPT !.behind = @ \cup {c}] /\ UNCHANGED link
    BY <1>3 DEF Stored
  <2>3. vault' = vault
    BY <1>3 DEF Stored
  <2> HIDE DEF history
  <2>4. CASE Attempt(c, history)
    BY <1>2, <2>1, <2>3, <2>4
  <2>5. CASE link[c].next # 0 /\ lapses' = [history EXCEPT !.behind = @ \cup {c}] /\ UNCHANGED link
    <3>1. /\ c \notin lapses'.partial /\ c \in lapses'.behind
          /\ lapses'.torn = lapses.torn /\ lapses'.mixed = lapses.mixed
      BY <2>1, <2>5 DEF Lapses
    <3> QED
      BY <1>0, <2>3, <2>5, <3>1
  <2> QED
    BY <2>2, <2>4, <2>5
<1>4. CASE Restart(c)
  <2>1. link'[c] = [session |-> 0, known |-> 0, next |-> 0, peer |-> NoPeer]
    BY <1>4 DEF Restart, TypeOK
  <2> QED
    BY <2>1
<1>5. CASE Reconnect(c)
  BY <1>2, <1>5 DEF Reconnect, TypeOK
<1>6. CASE ReadSecret(c)
  <2> DEFINE i == link[c].next
  <2>1. i \in Secrets /\ UNCHANGED <<vault, lapses>>
    BY <1>6 DEF ReadSecret
  <2>2. /\ link'[c].next = i + 1 /\ link'[c].peer[i] = vault[c][i]
        /\ \A s \in Secrets \ {i} : link'[c].peer[s] = link[c].peer[s]
        /\ link'[c].session = link[c].session /\ link'[c].known = link[c].known
    BY <1>6, <2>1, LinkParts DEF ReadSecret, TypeOK, Link
  <2>3. c \notin lapses.partial => \A s \in Secrets : vault[c][s] = vault[c][1]
    BY DEF VaultSound
  <2> QED
    BY <1>0, <2>1, <2>2, <2>3
<1>7. CASE Connect(c)
  <2> DEFINE peer == link[c].peer
  <2>1. link[c].next = 6 /\ UNCHANGED vault
    BY <1>0, <1>7 DEF Connect
  <2>2. CASE ~IsValid(peer)
    <3>1. /\ link'[c].next = 0 /\ link'[c].session = link[c].session
          /\ UNCHANGED lapses
      BY <1>7, <2>2 DEF Connect, TypeOK, Link
    <3>2. link[c].session = 0
      BY <1>0, <2>1, <2>2 DEF IsValid
    <3> QED
      BY <3>1, <3>2
  <2>3. CASE IsValid(peer)
    <3>1. PICK session \in {0, peer[Certificate]} :
            link' = [link EXCEPT ![c] =
              [session |-> session, known |-> peer[DeviceId], next |-> 0, peer |-> NoPeer]]
      BY <1>7, <2>3 DEF Connect
    <3>2. link'[c] = [session |-> session, known |-> peer[DeviceId], next |-> 0, peer |-> NoPeer]
      BY <3>1 DEF TypeOK
    <3>3. /\ c \in lapses'.mixed <=> c \in lapses.torn
          /\ lapses'.partial = lapses.partial /\ lapses'.behind = lapses.behind
      BY <1>7, <2>3 DEF Connect, TypeOK, Lapses
    <3>4. \A s \in Secrets : vault[c][s] # 0
      BY <1>0, <2>1, <2>3 DEF IsValid
    <3> QED
      BY <1>0, <2>1, <3>2, <3>3, <3>4 DEF Certificate, DeviceId
  <2> QED
    BY <2>2, <2>3
<1>8. CASE Crash
  <2>1. /\ link'[c].session = 0 /\ link'[c].next = link[c].next /\ link'[c].peer = link[c].peer
        /\ UNCHANGED vault
        /\ lapses'.partial = lapses.partial /\ lapses'.torn = lapses.torn
        /\ lapses'.behind = lapses.behind
    BY <1>8 DEF Crash, TypeOK, Link, Lapses
  <2> QED
    BY <1>0, <2>1
<1>9. CASE vault'[c] = vault[c] /\ link'[c] = link[c] /\ SameRecord(c)
  BY <1>0, <1>9 DEF SameRecord
<1> QED
  BY <1>1, <1>3, <1>4, <1>5, <1>6, <1>7, <1>8, <1>9, ClientSteps

-----------------------------------------------------------------------------
(* The theorems                                                              *)

LEMMA InitInv == Init => Inv
<1> SUFFICES ASSUME Init PROVE Inv
  OBVIOUS
<1>1. TypeOK
  <2>1. {d.device : d \in devices} = 1..issued
    BY DEF Init
  <2>2. lapses \in Lapses /\ serving \in Serving /\ Idle \in Worker
    BY DEF Init, Lapses, Serving, Idle, Worker
  <2>3. link \in [Clients -> Link] /\ vault \in [Clients -> [Secrets -> Numbers]]
    BY AccountsAssumption DEF Init, Link, NoPeer, Numbers
  <2> QED
    BY <2>1, <2>2, <2>3, AccountsAssumption
       DEF Init, TypeOK, Keys, Accounts, Numbers
<1>2. ServingSound /\ NumbersIssued /\ VaultSound
  BY DEF Init, ServingSound, NumbersIssued, VaultSound, Idle, NoPeer, Secrets
<1>3. AuthoritySound /\ CertificatesSound /\ AccountsAccounted
  BY DEF Init, AuthoritySound, CertificatesSound, AccountsAccounted, Accounts, Keys
<1>4. PeerSound
  BY DEF Init, PeerSound, Secrets
<1> QED
  BY <1>1, <1>2, <1>3, <1>4 DEF Inv

LEMMA StepInv == Inv /\ [Next]_vars => Inv'
  BY TypeStep, ServingStep, NumbersStep, AuthorityStep, CertificatesStep, AccountsStep, VaultStep,
     PeerStep DEF Inv

\* The inductive invariant holds in every run.
THEOREM Invariance == Spec => []Inv
  BY InitInv, StepInv, PTL DEF Spec

\* The variables keep their types, and every device that was issued has its row.
THEOREM TypeCorrect == Spec => []TypeOK
<1>1. Inv => TypeOK
  BY DEF Inv
<1> QED
  BY <1>1, Invariance, PTL

\* However often the start is cut short between two rows, the authority that is
\* served, or stored, is of one piece.
THEOREM AuthorityIsOne == Spec => []OneAuthorityUnlessCut
<1>1. Inv => OneAuthorityUnlessCut
  BY DEF Inv, AuthoritySound, OneAuthorityUnlessCut, Complete, Keys
<1> QED
  BY <1>1, Invariance, PTL

\* A device that has stored an enrolment is accepted whenever the backend is up.
THEOREM EnrolledStayAccepted == Spec => []EnrolledAreAccepted
<1>1. Inv => EnrolledAreAccepted
  <2> SUFFICES ASSUME Inv, NEW c \in Clients, Whole(c), IsValid(vault[c]), server = "up", ~lapses.cut
               PROVE  Accepted(vault[c])
    BY DEF EnrolledAreAccepted
  <2> DEFINE n == vault[c][Certificate]
  <2>1. \A s \in Secrets : vault[c][s] = n
    BY DEF Whole, Secrets, Certificate
  <2>2. n \in 1..issued
    BY AccountsAssumption DEF Inv, NumbersIssued, IsValid, Secrets, Certificate, TypeOK, Numbers
  <2>3. PICK d \in devices : d.device = n
    BY <2>2 DEF Inv, TypeOK
  <2>4. d.signer = authority[CaCertificate] /\ d.ca = authority[ServerCertificate]
    BY DEF Inv, CertificatesSound, AuthoritySound, CaCertificate, ServerCertificate, Keys
  <2> QED
    BY <2>1, <2>3, <2>4 DEF Accepted, Secrets, Key, Certificate, Ca
<1> QED
  BY <1>1, Invariance, PTL

\* Devices belong to accounts whose password was given for them, and an account
\* without one is being set up, or was interrupted.
THEOREM AccountsStayAccounted == Spec => []AccountsAccounted
<1>1. Inv => AccountsAccounted
  BY DEF Inv
<1> QED
  BY <1>1, Invariance, PTL

\* A client is connected as the device it takes itself for, and as the one it was
\* paired as last, but for the interleavings that the property names.
THEOREM ConnectedStayAsPaired == Spec => []ConnectedAsPaired
<1>1. Inv => ConnectedAsPaired
  <2> SUFFICES ASSUME Inv, NEW c \in Clients, link[c].session # 0
               PROVE  /\ c \in lapses.mixed \/ link[c].known = link[c].session
                      /\ \/ link[c].next # 0
                         \/ c \in lapses.partial \cup lapses.behind \cup lapses.mixed
                         \/ link[c].session = vault[c][Certificate]
    BY DEF ConnectedAsPaired
  <2>1. c \notin lapses.partial => vault[c][Certificate] = vault[c][1]
    BY DEF Inv, VaultSound, Secrets, Certificate
  <2> QED
    BY <2>1 DEF Inv, PeerSound
<1> QED
  BY <1>1, Invariance, PTL

=============================================================================
