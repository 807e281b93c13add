--------------------------- MODULE IdentityProofs ---------------------------
(***************************************************************************)
(* Proofs about Identity, for any ids, executables, rules and number of    *)
(* processes.                                                              *)
(***************************************************************************)
EXTENDS Identity, TLAPS

Handlers ==
  [step : Steps, front : {"pipe", "proxy"}, pid : Pids \cup {NoPid}, created : Births,
   name : Secrets \cup {ListName}, chain : Seq(Exes \cup {Unknown}), at : Pids \cup {NoPid},
   judged : Births, since : Births, by : {"none", "refusal", "grant", "nothing", "list"},
   ok : BOOLEAN]

\* Processes are born in the order of their creation times.
ProcsInv == /\ procs \in [Pids -> Processes \cup {Gone}]
            /\ births \in Births
            /\ \A i \in Pids : procs[i].born <= births

\* The registry knows the child of run only, and nobody before there is one.
LaunchInv == /\ launch \in [step : {"none", "created", "granted", "waited", "done"},
                            pid : Pids \cup {NoPid}, born : Births]
             /\ registry \subseteq {Key}
             /\ launch.step = "none" => registry = {}
             /\ launch.step # "none" => launch.pid \in Pids

\* A walk begins at the client, with an empty chain.
WalkInv == /\ h \in Handlers
           /\ h.since <= births
           /\ h.step # "off" => h.pid \in Pids
           /\ Len(h.chain) <= Levels
           /\ h.step \in {"accept", "verify", "lookup", "find"} => h.chain = <<>>
           /\ h.step = "exe" => /\ h.at \in Pids /\ Len(h.chain) < Levels
                                /\ h.chain = <<>> => h.at = h.pid
           /\ h.step = "parent" => h.at \in Pids
           /\ h.step \in {"parent", "decide"} => h.chain # <<>>
           /\ h.step \in {"accept", "wait", "verify", "lookup"} => h.front = "pipe"
           /\ h.step = "find" => h.front = "proxy"
           /\ h.front = "pipe" /\ h.step \notin {"off", "accept"} => h.created # 0
           /\ h.ok \/ h.by # "none" => h.step \in {"off", "wait"}

\* The process that was recorded, or one born after the request was verified.
RightOne(b) == b \in {0, h.created} \/ b > h.since

\* Who has the id of the client while its request is in hand, and who is judged.
RecordInv ==
  h.front = "pipe" =>
    /\ h.step \in {"lookup", "exe", "parent", "decide"} => RightOne(procs[h.pid].born)
    /\ (h.ok \/ h.step \in {"parent", "decide"} \/ (h.step = "exe" /\ h.chain # <<>>)) =>
         RightOne(h.judged)

GrantInv == h.by = "grant" => launch.step # "none" /\ h.judged = launch.born

IdentityInv == ProcsInv /\ LaunchInv /\ WalkInv /\ RecordInv /\ GrantInv
-----------------------------------------------------------------------------
(* The kernel *)

LEMMA NatFacts == Births \subseteq Nat /\ 0 \in Births /\ 1 \in Births
BY IdentityAssumption DEF Births

LEMMA GoneIsNoProcess ==
  /\ Gone.born = 0
  /\ \A p \in Processes : p.born \in Births /\ p.born # 0 /\ p # Gone
BY NatFacts DEF Processes, Gone, Births

\* What the kernel says of an id is of the process that has it, or nothing.
LEMMA SeenIsThere ==
  ASSUME ProcsInv, NEW i \in Pids, NEW p \in Seen(i)
  PROVE  /\ p \in Processes \cup {Gone}
         /\ p = Gone \/ p = procs[i]
         /\ p.born \in Births
         /\ p = Gone <=> p.born = 0
BY NatFacts, GoneIsNoProcess DEF ProcsInv, Seen

\* An id is kept, is free, or is given to a younger process than there has been.
Younger == /\ births' \in Births /\ births <= births'
           /\ \A i \in Pids : \/ procs'[i].born \in {0, procs[i].born}
                              \/ procs'[i].born > births

LEMMA BornIsYounger ==
  ASSUME ProcsInv, NEW i \in Pids, NEW exe \in Exes, NEW parent \in Pids \cup {NoPid},
         Born(i, exe, parent)
  PROVE  ProcsInv' /\ Younger
<1>. DEFINE new == [born |-> births + 1, exe |-> exe, parent |-> parent,
                    of |-> IF parent = NoPid THEN 0 ELSE procs[parent].born, running |-> TRUE]
<1>1. births \in Nat /\ births + 1 \in Births /\ births + 1 # 0
  BY IdentityAssumption DEF ProcsInv, Born, Births
<1>2. new.of \in Births
  BY NatFacts, GoneIsNoProcess DEF ProcsInv
<1>3. new \in Processes
  BY <1>1, <1>2 DEF Processes
<1>4. procs' = [procs EXCEPT ![i] = new] /\ births' = births + 1
  BY DEF Born
<1>5. \A j \in Pids : procs[j].born \in Nat
  BY NatFacts, GoneIsNoProcess DEF ProcsInv
<1>6. new.born = births + 1
  OBVIOUS
<1>. HIDE DEF new
<1>7. \A j \in Pids : procs'[j].born <= births'
  BY <1>1, <1>4, <1>5, <1>6 DEF ProcsInv
<1>8. Younger
  BY <1>1, <1>4, <1>5, <1>6 DEF ProcsInv, Younger
<1>. QED BY <1>1, <1>3, <1>4, <1>7, <1>8 DEF ProcsInv

\* A process that exits or is forgotten was born when it was.
LEMMA EndIsYounger ==
  ASSUME ProcsInv, NEW i \in Pids, procs[i] \in Processes, UNCHANGED births,
         procs' = [procs EXCEPT ![i] = Gone] \/ procs' = [procs EXCEPT ![i].running = FALSE]
  PROVE  ProcsInv' /\ Younger
<1>1. [procs[i] EXCEPT !.running = FALSE] \in Processes
  BY DEF Processes
<1>2. [procs[i] EXCEPT !.running = FALSE].born = procs[i].born
  BY DEF Processes
<1>3. \/ procs' = [procs EXCEPT ![i] = Gone]
      \/ procs' = [procs EXCEPT ![i] = [procs[i] EXCEPT !.running = FALSE]]
  OBVIOUS
<1>4. \A j \in Pids : procs'[j] \in Processes \cup {Gone} /\ procs'[j].born \in {0, procs[j].born}
  BY <1>1, <1>2, <1>3, GoneIsNoProcess DEF ProcsInv
<1>5. \A j \in Pids : procs[j].born \in Nat
  BY NatFacts, GoneIsNoProcess DEF ProcsInv
<1>6. procs' \in [Pids -> Processes \cup {Gone}]
  BY <1>1, <1>3 DEF ProcsInv
<1>7. \A j \in Pids : procs'[j].born <= births' /\ births \in Nat
  BY <1>4, <1>5, NatFacts DEF ProcsInv
<1>. QED BY <1>4, <1>6, <1>7 DEF ProcsInv, Younger
-----------------------------------------------------------------------------
(* The machine and the child of run *)

MachineStep ==
  \/ \E i \in Pids : \/ Exit(i) \/ Forget(i) \/ CreateChild(i)
                     \/ \E parent \in Pids \cup {NoPid} : Spawn(i, parent)
  \/ RegisterGrant \/ ChildWaited \/ WaitFails \/ Revoke \/ LaunchFails

HandlerStep ==
  \/ Connect \/ Record \/ Disconnect \/ Receive \/ Verify \/ Lookup
  \/ ProxyRequest \/ ProxyResolve \/ ReadExe \/ ReadParent \/ Decide

LEMMA ExistsIsProcess ==
  ASSUME ProcsInv, NEW i \in Pids
  PROVE  procs[i] # Gone <=> procs[i] \in Processes
BY GoneIsNoProcess DEF ProcsInv


\* Every step of the machine keeps an id, frees it, or gives it to a younger process.
LEMMA MachineIsYounger ==
  ASSUME ProcsInv, LaunchInv, MachineStep
  PROVE  ProcsInv' /\ Younger
<1>1. ASSUME NEW i \in Pids, Exit(i)
      PROVE  ProcsInv' /\ Younger
  BY <1>1, EndIsYounger, ExistsIsProcess DEF Exit, Running
<1>2. ASSUME NEW i \in Pids, Forget(i)
      PROVE  ProcsInv' /\ Younger
  BY <1>2, EndIsYounger, ExistsIsProcess DEF Forget
<1>3. ASSUME NEW i \in Pids, CreateChild(i)
      PROVE  ProcsInv' /\ Younger
  BY <1>3, BornIsYounger, IdentityAssumption DEF CreateChild
<1>4. ASSUME NEW i \in Pids, NEW parent \in Pids \cup {NoPid}, Spawn(i, parent)
      PROVE  ProcsInv' /\ Younger
  BY <1>4, BornIsYounger DEF Spawn
<1>5. ASSUME UNCHANGED <<procs, births>>
      PROVE  ProcsInv' /\ Younger
  BY <1>5, NatFacts, GoneIsNoProcess DEF ProcsInv, Younger
<1>6. CASE RegisterGrant \/ ChildWaited \/ WaitFails \/ Revoke
  BY <1>5, <1>6 DEF RegisterGrant, ChildWaited, WaitFails, Revoke
<1>7. CASE LaunchFails
  <2>1. launch.pid \in Pids /\ procs[launch.pid] \in Processes
    BY <1>7, ExistsIsProcess DEF LaunchFails, LaunchInv, Running
  <2>. QED BY <1>7, <2>1, EndIsYounger DEF LaunchFails
<1>. QED BY <1>1, <1>2, <1>3, <1>4, <1>6, <1>7 DEF MachineStep

Launches == [step : {"none", "created", "granted", "waited", "done"},
             pid : Pids \cup {NoPid}, born : Births]

LEMMA LaunchStep ==
  ASSUME NEW l \in Launches, NEW k \in Launches,
         k = [l EXCEPT !.step = "granted"] \/ k = [l EXCEPT !.step = "waited"]
           \/ k = [l EXCEPT !.step = "done"]
  PROVE  k.pid = l.pid /\ k.born = l.born /\ k.step \in {"granted", "waited", "done"}
BY DEF Launches

\* The registry holds the child's key or nothing; the key is not changed once there is one.
KeepsLaunch ==
  /\ LaunchInv'
  /\ launch.step # "none" => launch'.step # "none" /\ launch'.born = launch.born

\* No step of the machine gives the launched child another creation time.
LEMMA MachineKeepsLaunch ==
  ASSUME ProcsInv, LaunchInv, MachineStep
  PROVE  KeepsLaunch
<1>0. launch \in Launches
  BY DEF LaunchInv, Launches
<1>1. ASSUME UNCHANGED <<registry, launch>>
      PROVE  KeepsLaunch
  BY <1>1 DEF KeepsLaunch, LaunchInv, Key
<1>2. ASSUME NEW i \in Pids, CreateChild(i)
      PROVE  KeepsLaunch
  <2>1. births + 1 \in Births
    BY <1>2, IdentityAssumption DEF CreateChild, Born, ProcsInv, Births
  <2>. QED BY <1>2, <2>1 DEF KeepsLaunch, CreateChild, LaunchInv, Key
<1>3. CASE RegisterGrant
  <2>1. launch' \in Launches /\ launch' = [launch EXCEPT !.step = "granted"]
    BY <1>0, <1>3 DEF RegisterGrant, Launches
  <2>2. Key' = Key /\ launch'.step # "none" /\ launch'.pid = launch.pid /\ launch.step # "none"
    BY <1>0, <1>3, <2>1, LaunchStep DEF Key, RegisterGrant
  <2>3. launch'.born = launch.born
    BY <1>0, <2>1, LaunchStep
  <2>. QED BY <1>3, <2>1, <2>2, <2>3 DEF KeepsLaunch, RegisterGrant, LaunchInv, Launches
<1>4. CASE ChildWaited \/ WaitFails
  <2>1. launch' \in Launches /\ launch' = [launch EXCEPT !.step = "waited"]
    BY <1>0, <1>4 DEF ChildWaited, WaitFails, Launches
  <2>2. Key' = Key /\ launch'.step # "none" /\ launch'.pid = launch.pid /\ launch.step # "none"
    BY <1>0, <1>4, <2>1, LaunchStep DEF Key, ChildWaited, WaitFails
  <2>3. launch'.born = launch.born
    BY <1>0, <2>1, LaunchStep
  <2>. QED BY <1>4, <2>1, <2>2, <2>3 DEF KeepsLaunch, ChildWaited, WaitFails, LaunchInv, Launches
<1>5. CASE Revoke \/ LaunchFails
  <2>1. launch' \in Launches /\ launch' = [launch EXCEPT !.step = "done"]
    BY <1>0, <1>5 DEF Revoke, LaunchFails, Launches
  <2>2. Key' = Key /\ launch'.step # "none" /\ launch'.pid = launch.pid /\ launch.step # "none"
    BY <1>0, <1>5, <2>1, LaunchStep DEF Key, Revoke, LaunchFails
  <2>3. launch'.born = launch.born /\ registry' = registry \ {Key}
    BY <1>0, <1>5, <2>1, LaunchStep DEF Revoke, LaunchFails
  <2>. QED BY <2>1, <2>2, <2>3 DEF KeepsLaunch, LaunchInv, Launches
<1>6. ASSUME NEW i \in Pids, Exit(i) \/ Forget(i) \/ \E parent \in Pids \cup {NoPid} : Spawn(i, parent)
      PROVE  KeepsLaunch
  BY <1>1, <1>6 DEF Exit, Forget, Spawn
<1>7. CASE ChildWaited \/ WaitFails \/ RegisterGrant \/ Revoke \/ LaunchFails
  BY <1>3, <1>4, <1>5, <1>7
<1>8. CASE \E i \in Pids : \/ Exit(i) \/ Forget(i) \/ CreateChild(i)
                           \/ \E parent \in Pids \cup {NoPid} : Spawn(i, parent)
  <2>1. PICK i \in Pids : \/ Exit(i) \/ Forget(i) \/ CreateChild(i)
                          \/ \E parent \in Pids \cup {NoPid} : Spawn(i, parent)
    BY <1>8
  <2>2. CASE CreateChild(i)
    BY <1>2, <2>2
  <2>3. CASE Exit(i) \/ Forget(i) \/ \E parent \in Pids \cup {NoPid} : Spawn(i, parent)
    BY <1>6, <2>3
  <2>. QED BY <2>1, <2>2, <2>3
<1>. QED BY <1>7, <1>8 DEF MachineStep

\* No handler is in the machine's steps.
LEMMA MachineLeavesHandler ==
  ASSUME MachineStep
  PROVE  h' = h
BY DEF MachineStep, Exit, Forget, CreateChild, Spawn, RegisterGrant, ChildWaited,
       WaitFails, Revoke, LaunchFails

\* What the handler knows is as true after a step of the machine: whoever has the
\* client's id now had it before, or was born after the request was verified.
LEMMA MachineStepKeeps ==
  ASSUME IdentityInv, MachineStep
  PROVE  IdentityInv'
<1>1. ProcsInv' /\ Younger /\ LaunchInv' /\ h' = h
  BY MachineIsYounger, MachineKeepsLaunch, MachineLeavesHandler DEF IdentityInv, KeepsLaunch
<1>2. births \in Nat /\ births' \in Nat /\ births <= births' /\ h.since \in Nat
  BY <1>1, NatFacts DEF Younger, IdentityInv, ProcsInv, WalkInv, Handlers
<1>3. WalkInv'
  BY <1>1, <1>2 DEF IdentityInv, WalkInv
<1>4. \A i \in Pids : procs[i].born \in Nat /\ procs'[i].born \in Nat
  BY <1>1, NatFacts, GoneIsNoProcess DEF IdentityInv, ProcsInv
<1>5. ASSUME h.pid \in Pids, RightOne(procs[h.pid].born)
      PROVE  RightOne(procs[h.pid].born)'
  BY <1>1, <1>2, <1>4, <1>5 DEF RightOne, Younger, IdentityInv, WalkInv
<1>6. RecordInv'
  <2>1. \A b \in Nat : RightOne(b)' <=> RightOne(b)
    BY <1>1 DEF RightOne
  <2>2. h.judged \in Nat
    BY NatFacts DEF IdentityInv, WalkInv, Handlers
  <2>. QED BY <1>1, <1>5, <2>1, <2>2 DEF IdentityInv, RecordInv, WalkInv, RightOne
<1>7. GrantInv'
  BY <1>1, MachineKeepsLaunch DEF IdentityInv, GrantInv, KeepsLaunch
<1>. QED BY <1>1, <1>3, <1>6, <1>7 DEF IdentityInv
-----------------------------------------------------------------------------
(* The handler *)

\* What the parts of the invariant that are about the handler say of another one.
HandlerInv == WalkInv /\ RecordInv /\ GrantInv

LEMMA HandlerLeavesMachine ==
  ASSUME HandlerStep
  PROVE  UNCHANGED <<procs, births, registry, launch>>
BY DEF HandlerStep, Connect, Record, Disconnect, Receive, Verify, Lookup, ProxyRequest,
       ProxyResolve, ReadExe, ReadParent, Decide, Machine

LEMMA IdleIsHandler ==
  /\ Idle \in Handlers /\ Idle.chain = <<>> /\ Idle.front = "pipe" /\ ~Idle.ok
  /\ Idle.by = "none" /\ Idle.since = 0
BY NatFacts DEF Idle, Handlers, Steps

LEMMA IdleInv ==
  ASSUME ProcsInv, h' = Idle, Machine
  PROVE  HandlerInv'
<1>1. Idle \in Handlers /\ Len(Idle.chain) <= Levels
  BY NatFacts, IdentityAssumption DEF Idle, Handlers, Steps
<1>2. births' = births /\ births \in Nat /\ Levels \in Nat
  BY NatFacts, IdentityAssumption DEF Machine, ProcsInv
<1>3. /\ Idle.step = "off" /\ Idle.by = "none" /\ ~Idle.ok /\ Idle.since = 0
  BY DEF Idle
<1>4. WalkInv'
  BY <1>1, <1>2, <1>3 DEF WalkInv
<1>5. RecordInv' /\ GrantInv'
  BY <1>3 DEF RecordInv, GrantInv
<1>. QED BY <1>4, <1>5 DEF HandlerInv

LEMMA ConnectKeeps ==
  ASSUME IdentityInv, Connect
  PROVE  HandlerInv'
<1>1. PICK i \in Pids : h' = [Idle EXCEPT !.step = "accept", !.pid = i]
  BY DEF Connect
<1>2. /\ h' \in Handlers /\ h'.step = "accept" /\ h'.pid = i /\ h'.chain = <<>>
      /\ h'.front = "pipe" /\ ~h'.ok /\ h'.by = "none" /\ h'.since = 0
  BY <1>1, IdleIsHandler DEF Handlers, Steps
<1>3. births' \in Nat /\ Levels \in Nat
  BY NatFacts, IdentityAssumption DEF Connect, Machine, IdentityInv, ProcsInv
<1>. QED BY <1>2, <1>3 DEF HandlerInv, WalkInv, RecordInv, GrantInv

LEMMA RecordKeeps ==
  ASSUME IdentityInv, Record
  PROVE  HandlerInv'
<1>1. PICK p \in Seen(h.pid) :
        h' = IF p = Gone THEN Idle ELSE [h EXCEPT !.step = "wait", !.created = p.born]
  BY DEF Record
<1>2. h \in Handlers /\ h.step = "accept" /\ h.pid \in Pids
  BY DEF Record, IdentityInv, WalkInv
<1>3. CASE p = Gone
  BY <1>1, <1>3, IdleInv DEF Record, IdentityInv
<1>4. CASE p # Gone
  <2>1. p.born \in Births /\ p.born # 0
    BY <1>2, <1>4, SeenIsThere DEF IdentityInv
  <2>2. /\ h' \in Handlers /\ h'.step = "wait" /\ h'.created = p.born /\ h'.pid = h.pid
        /\ h'.front = h.front /\ h'.chain = h.chain /\ h'.since = h.since /\ h'.ok = h.ok
        /\ h'.by = h.by
    BY <1>1, <1>2, <1>4, <2>1 DEF Handlers, Steps
  <2>3. births' = births /\ launch' = launch
    BY DEF Record, Machine
  <2>4. ~h.ok /\ h.by = "none"
    BY <1>2 DEF IdentityInv, WalkInv, Handlers
  <2>. QED BY <1>2, <2>1, <2>2, <2>3, <2>4 DEF IdentityInv, HandlerInv, WalkInv, RecordInv, GrantInv
<1>. QED BY <1>3, <1>4

LEMMA ReceiveKeeps ==
  ASSUME IdentityInv, Receive
  PROVE  HandlerInv'
<1>1. PICK name \in Secrets \cup {ListName} :
        h' = [Idle EXCEPT !.step = "verify", !.pid = h.pid, !.created = h.created, !.name = name]
  BY DEF Receive
<1>2. h \in Handlers /\ h.pid \in Pids /\ h.created # 0
  BY DEF Receive, IdentityInv, WalkInv
<1>3. /\ h' \in Handlers /\ h'.step = "verify" /\ h'.pid = h.pid /\ h'.created = h.created
      /\ h'.front = "pipe" /\ h'.chain = <<>> /\ h'.since = 0 /\ ~h'.ok /\ h'.by = "none"
  BY <1>1, <1>2, IdleIsHandler DEF Handlers, Steps
<1>4. births' \in Nat /\ Levels \in Nat
  BY NatFacts, IdentityAssumption DEF Receive, Machine, IdentityInv, ProcsInv
<1>. QED BY <1>2, <1>3, <1>4 DEF HandlerInv, WalkInv, RecordInv, GrantInv

\* The row that the proxy asks for is its own.
LEMMA ProxyFindsServer ==
  ASSUME NEW i
  PROVE  FindConnectionPid(i) = Server
<1>. DEFINE row == [local |-> ProxyPort, remote |-> ClientPort, owner |-> Server]
            Asked(r) == r.local = ProxyPort /\ r.remote = ClientPort
<1>1. row \in Rows(i) /\ Asked(row)
  BY DEF Rows
<1>2. \A r \in Rows(i) : Asked(r) => r.owner = Server
  BY DEF Rows, ProxyPort, ClientPort
<1>3. FindConnectionPid(i) = (CHOOSE r \in Rows(i) : Asked(r)).owner
  BY DEF FindConnectionPid
<1>. HIDE DEF row, Asked
<1>4. (CHOOSE r \in Rows(i) : Asked(r)) \in Rows(i) /\ Asked(CHOOSE r \in Rows(i) : Asked(r))
  BY <1>1
<1>. QED BY <1>2, <1>3, <1>4

LEMMA ProxyRequestKeeps ==
  ASSUME IdentityInv, ProxyRequest
  PROVE  HandlerInv'
<1>1. \A i : FindConnectionPid(i) = Server
  BY ProxyFindsServer
<1>2. PICK i \in Pids \ {Server}, name \in Secrets \cup {ListName} :
        h' = [Idle EXCEPT !.front = "proxy", !.pid = FindConnectionPid(i), !.name = name,
                          !.step = "find"]
  BY DEF ProxyRequest
<1>3. /\ h' \in Handlers /\ h'.step = "find" /\ h'.pid = Server /\ h'.front = "proxy"
      /\ h'.chain = <<>> /\ h'.since = 0 /\ ~h'.ok /\ h'.by = "none"
  BY <1>1, <1>2, IdleIsHandler, IdentityAssumption DEF Handlers, Steps
<1>4. births' \in Nat /\ Levels \in Nat
  BY NatFacts, IdentityAssumption DEF ProxyRequest, Machine, IdentityInv, ProcsInv
<1>. QED BY <1>3, <1>4, IdentityAssumption DEF HandlerInv, WalkInv, RecordInv, GrantInv

\* An answer that is given on the right process, by a grant only for the child.
LEMMA AnswerKeeps ==
  ASSUME IdentityInv, Machine, h.step \notin {"off", "accept", "wait"},
         NEW by \in {"refusal", "grant", "nothing", "list"}, NEW judged \in Births,
         NEW ok \in BOOLEAN, Answer(by, judged, ok),
         h.front = "pipe" /\ ok => RightOne(judged),
         by = "grant" => launch.step # "none" /\ judged = launch.born
  PROVE  HandlerInv'
<1>1. h \in Handlers /\ h.pid \in Pids
  BY DEF IdentityInv, WalkInv
<1>2. /\ h' \in Handlers /\ h'.step \in {"off", "wait"}
      /\ h'.step = "wait" => h.front = "pipe"
      /\ h'.front = h.front /\ h'.pid = h.pid /\ h'.created = h.created /\ h'.chain = h.chain
      /\ h'.since = h.since /\ h'.by = by /\ h'.judged = judged /\ h'.ok = ok
  BY <1>1 DEF Answer, Handlers, Steps
<1>3. births' = births /\ launch' = launch
  BY DEF Machine
<1>4. WalkInv'
  <2>1. /\ h.since <= births /\ Len(h.chain) <= Levels
        /\ h.front = "pipe" => h.created # 0
    BY <1>1 DEF IdentityInv, WalkInv
  <2>2. h'.step \notin {"accept", "verify", "lookup", "find", "exe", "parent"}
    BY <1>2
  <2>. QED BY <1>1, <1>2, <1>3, <2>1, <2>2 DEF WalkInv
<1>5. RecordInv'
  BY <1>2 DEF RecordInv, RightOne
<1>6. GrantInv'
  BY <1>2, <1>3 DEF GrantInv
<1>. QED BY <1>4, <1>5, <1>6 DEF HandlerInv

\* Nothing decides before the walk when an identity is required.
LEMMA WalkKeeps ==
  ASSUME IdentityInv, Machine, Walk, h.step \in {"lookup", "find"}
  PROVE  HandlerInv'
<1>1. h \in Handlers /\ h.pid \in Pids /\ h.chain = <<>>
  BY DEF IdentityInv, WalkInv
<1>2. CASE RequireIdentity
  <2>1. /\ h' \in Handlers /\ h'.step = "exe" /\ h'.at = h.pid
        /\ h'.front = h.front /\ h'.pid = h.pid /\ h'.created = h.created /\ h'.chain = h.chain
        /\ h'.since = h.since /\ h'.by = h.by /\ h'.judged = h.judged /\ h'.ok = h.ok
    BY <1>1, <1>2 DEF Walk, Handlers, Steps
  <2>2. births' = births /\ launch' = launch /\ procs' = procs
    BY DEF Machine
  <2>3. ~h.ok /\ h.by = "none"
    BY <1>1 DEF IdentityInv, WalkInv, Handlers
  <2>4. Len(<<>>) < Levels
    BY IdentityAssumption
  <2>5. WalkInv'
    BY <1>1, <2>1, <2>2, <2>3, <2>4 DEF IdentityInv, WalkInv
  <2>6. RecordInv'
    <3>1. h.front = "pipe" => RightOne(procs[h.pid].born)
      BY DEF IdentityInv, RecordInv, WalkInv
    <3>. QED BY <1>1, <2>1, <2>2, <2>3, <3>1 DEF RecordInv, RightOne
  <2>. QED BY <2>1, <2>3, <2>5, <2>6 DEF HandlerInv, GrantInv
<1>3. CASE ~RequireIdentity
  <2>1. Answer("nothing", h.created, TRUE) /\ h.created \in Births
    BY <1>1, <1>3 DEF Walk, Handlers
  <2>. QED BY <2>1, AnswerKeeps DEF RightOne
<1>. QED BY <1>2, <1>3

LEMMA DisconnectKeeps ==
  ASSUME IdentityInv, Disconnect
  PROVE  HandlerInv'
BY IdleInv DEF Disconnect, IdentityInv

\* A request goes on when the process that has the id now is the recorded one.
LEMMA VerifyKeeps ==
  ASSUME IdentityInv, Verify
  PROVE  HandlerInv'
<1>1. PICK p \in Seen(h.pid) :
        \/ p.born # h.created /\ Answer("refusal", 0, FALSE)
        \/ p.born = h.created /\ h' = [h EXCEPT !.step = "lookup", !.since = births]
  BY DEF Verify
<1>2. /\ h \in Handlers /\ h.step = "verify" /\ h.pid \in Pids /\ h.front = "pipe"
      /\ h.created # 0 /\ h.chain = <<>>
  BY DEF Verify, IdentityInv, WalkInv
<1>3. CASE Answer("refusal", 0, FALSE)
  BY <1>2, <1>3, AnswerKeeps, NatFacts DEF Verify
<1>4. CASE p.born = h.created /\ h' = [h EXCEPT !.step = "lookup", !.since = births]
  <2>1. procs[h.pid].born = h.created
    BY <1>2, <1>4, SeenIsThere DEF IdentityInv
  <2>2. births \in Births
    BY DEF IdentityInv, ProcsInv
  <2>3. /\ h' \in Handlers /\ h'.step = "lookup" /\ h'.since = births /\ h'.pid = h.pid
        /\ h'.front = h.front /\ h'.created = h.created /\ h'.chain = h.chain /\ h'.ok = h.ok
        /\ h'.by = h.by
    BY <1>2, <1>4, <2>2 DEF Handlers, Steps
  <2>4. births' = births /\ births \in Nat /\ procs' = procs
    BY <2>2, NatFacts DEF Verify, Machine
  <2>5. ~h.ok /\ h.by = "none" /\ Len(h.chain) <= Levels
    BY <1>2 DEF IdentityInv, WalkInv, Handlers
  <2>6. WalkInv'
    BY <1>2, <2>3, <2>4, <2>5 DEF WalkInv
  <2>. QED BY <2>1, <2>3, <2>4, <2>5, <2>6 DEF HandlerInv, RecordInv, GrantInv, RightOne
<1>. QED BY <1>1, <1>3, <1>4

\* A grant that is found is the launched child's.
LEMMA LookupKeeps ==
  ASSUME IdentityInv, Lookup
  PROVE  HandlerInv'
<1>1. PICK p \in Seen(h.pid) :
        IF h.name # ListName /\ p # Gone /\ Found(p)
          THEN Answer("grant", p.born, GrantAllows(h.name)) ELSE Walk
  BY DEF Lookup
<1>2. h.step = "lookup" /\ h.pid \in Pids /\ h.front = "pipe"
  BY DEF Lookup, IdentityInv, WalkInv
<1>3. CASE Walk
  BY <1>2, <1>3, WalkKeeps DEF Lookup
<1>4. CASE p # Gone /\ Found(p) /\ Answer("grant", p.born, GrantAllows(h.name))
  <2>1. p = procs[h.pid] /\ p.born \in Births
    BY <1>2, <1>4, SeenIsThere DEF IdentityInv
  <2>2. RightOne(p.born)
    BY <1>2, <2>1 DEF IdentityInv, RecordInv
  <2>3. launch.step # "none" /\ p.born = launch.born
    BY <1>4 DEF Found, IdentityInv, LaunchInv, Key
  <2>4. GrantAllows(h.name) \in BOOLEAN
    BY DEF GrantAllows
  <2>. QED BY <1>2, <1>4, <2>1, <2>2, <2>3, <2>4, AnswerKeeps DEF Lookup
<1>. QED BY <1>1, <1>3, <1>4

\* The first executable is read of who has the client's id, and who has it is judged.
LEMMA ReadExeKeeps ==
  ASSUME IdentityInv, ReadExe
  PROVE  HandlerInv'
<1>1. PICK p \in Seen(h.at) :
        h' = [h EXCEPT !.chain = Append(@, IF p = Gone THEN Unknown ELSE p.exe),
                       !.judged = IF h.chain = <<>> THEN p.born ELSE @,
                       !.step = "parent"]
  BY DEF ReadExe
<1>2. /\ h \in Handlers /\ h.step = "exe" /\ h.pid \in Pids /\ h.at \in Pids
      /\ Len(h.chain) < Levels /\ (h.chain = <<>> => h.at = h.pid)
      /\ h.front = "pipe" => h.created # 0
  BY DEF ReadExe, IdentityInv, WalkInv
<1>3. p \in Processes \cup {Gone} /\ p.born \in Births /\ (p = Gone \/ p = procs[h.at])
  BY <1>2, SeenIsThere DEF IdentityInv
<1>. DEFINE exe == IF p = Gone THEN Unknown ELSE p.exe
            judged == IF h.chain = <<>> THEN p.born ELSE h.judged
<1>4. exe \in Exes \cup {Unknown}
  BY <1>3 DEF Processes
<1>5. h.chain \in Seq(Exes \cup {Unknown}) /\ h.judged \in Births
  BY <1>2 DEF Handlers
<1>6. judged \in Births
  BY <1>3, <1>5
<1>7. h' = [h EXCEPT !.chain = Append(h.chain, exe), !.judged = judged, !.step = "parent"]
  BY <1>1
<1>8. h.front = "pipe" => RightOne(judged)
  BY <1>2, <1>3, GoneIsNoProcess DEF IdentityInv, RecordInv, RightOne
<1>. HIDE DEF exe, judged
<1>9. Append(h.chain, exe) \in Seq(Exes \cup {Unknown}) /\ Append(h.chain, exe) # <<>>
      /\ Len(Append(h.chain, exe)) = Len(h.chain) + 1
  BY <1>4, <1>5
<1>10. /\ h' \in Handlers /\ h'.step = "parent" /\ h'.at = h.at /\ h'.judged = judged
       /\ h'.pid = h.pid /\ h'.front = h.front /\ h'.created = h.created /\ h'.ok = h.ok
       /\ h'.by = h.by /\ h'.since = h.since /\ h'.chain = Append(h.chain, exe)
  BY <1>2, <1>6, <1>7, <1>9 DEF Handlers, Steps
<1>11. ~h.ok /\ h.by = "none" /\ h.since <= births
  BY <1>2 DEF IdentityInv, WalkInv, Handlers
<1>12. births' = births /\ procs' = procs /\ Levels \in Nat /\ Len(h.chain) \in Nat
  BY <1>5, IdentityAssumption DEF ReadExe, Machine
<1>13. Len(h'.chain) <= Levels
  BY <1>2, <1>9, <1>10, <1>12
<1>14. WalkInv'
  BY <1>2, <1>9, <1>10, <1>11, <1>12, <1>13 DEF WalkInv
<1>15. h.front = "pipe" => RightOne(procs[h.pid].born)
  BY <1>2 DEF IdentityInv, RecordInv
<1>. QED BY <1>8, <1>10, <1>11, <1>12, <1>14, <1>15 DEF HandlerInv, RecordInv, GrantInv, RightOne

\* Going on to a parent changes nobody who is judged.
LEMMA ReadParentKeeps ==
  ASSUME IdentityInv, ReadParent
  PROVE  HandlerInv'
<1>1. PICK p \in Seen(h.at) :
        h' = IF p = Gone \/ p.parent = NoPid \/ Len(h.chain) = Levels
               THEN [h EXCEPT !.step = "decide"]
               ELSE [h EXCEPT !.step = "exe", !.at = p.parent]
  BY DEF ReadParent
<1>2. /\ h \in Handlers /\ h.step = "parent" /\ h.pid \in Pids /\ h.at \in Pids
      /\ h.chain # <<>> /\ Len(h.chain) <= Levels
      /\ h.front = "pipe" => h.created # 0
  BY DEF ReadParent, IdentityInv, WalkInv
<1>3. ~h.ok /\ h.by = "none" /\ h.since <= births
  BY <1>2 DEF IdentityInv, WalkInv, Handlers
<1>4. births' = births /\ procs' = procs /\ Levels \in Nat /\ Len(h.chain) \in Nat
  BY <1>2, IdentityAssumption DEF ReadParent, Machine, Handlers
<1>5. h.front = "pipe" => RightOne(procs[h.pid].born) /\ RightOne(h.judged)
  BY <1>2 DEF IdentityInv, RecordInv
<1>6. /\ h' \in Handlers /\ h'.step \in {"exe", "decide"} /\ h'.pid = h.pid
      /\ h'.front = h.front /\ h'.created = h.created /\ h'.ok = h.ok /\ h'.by = h.by
      /\ h'.since = h.since /\ h'.chain = h.chain /\ h'.judged = h.judged
      /\ h'.step = "exe" => h'.at \in Pids /\ Len(h.chain) # Levels
  <2>1. CASE p = Gone \/ p.parent = NoPid \/ Len(h.chain) = Levels
    BY <1>1, <1>2, <2>1 DEF Handlers, Steps
  <2>2. CASE ~(p = Gone \/ p.parent = NoPid \/ Len(h.chain) = Levels)
    <3>1. p.parent \in Pids
      BY <1>2, <2>2, SeenIsThere DEF IdentityInv, Processes
    <3>. QED BY <1>1, <1>2, <2>2, <3>1 DEF Handlers, Steps
  <2>. QED BY <2>1, <2>2
<1>7. WalkInv'
  BY <1>2, <1>3, <1>4, <1>6 DEF WalkInv
<1>. QED BY <1>2, <1>3, <1>4, <1>5, <1>6, <1>7 DEF HandlerInv, RecordInv, GrantInv, RightOne

LEMMA DecideKeeps ==
  ASSUME IdentityInv, Decide
  PROVE  HandlerInv'
<1>1. h \in Handlers /\ h.step = "decide"
  BY DEF Decide, IdentityInv, WalkInv
<1>2. h.judged \in Births /\ CheckAccess(h.chain, h.name) \in BOOLEAN
  BY <1>1 DEF Handlers, CheckAccess
<1>3. h.front = "pipe" => RightOne(h.judged)
  BY <1>1 DEF IdentityInv, RecordInv
<1>4. Answer("list", h.judged, CheckAccess(h.chain, h.name)) /\ Machine
  BY DEF Decide
<1>. QED BY <1>1, <1>2, <1>3, <1>4, AnswerKeeps

LEMMA ProxyResolveKeeps ==
  ASSUME IdentityInv, ProxyResolve
  PROVE  HandlerInv'
BY WalkKeeps DEF ProxyResolve

LEMMA HandlerStepKeeps ==
  ASSUME IdentityInv, HandlerStep
  PROVE  IdentityInv'
<1>1. HandlerInv'
  BY ConnectKeeps, RecordKeeps, DisconnectKeeps, ReceiveKeeps, VerifyKeeps, LookupKeeps,
     ProxyRequestKeeps, ProxyResolveKeeps, ReadExeKeeps, ReadParentKeeps, DecideKeeps
  DEF HandlerStep
<1>2. UNCHANGED <<procs, births, registry, launch>>
  BY HandlerLeavesMachine
<1>3. ProcsInv' /\ LaunchInv'
  BY <1>2 DEF IdentityInv, ProcsInv, LaunchInv, Key
<1>. QED BY <1>1, <1>3 DEF IdentityInv, HandlerInv
-----------------------------------------------------------------------------
(* The theorems *)

LEMMA InitInv == Init => IdentityInv
<1>. SUFFICES ASSUME Init PROVE IdentityInv
  OBVIOUS
<1>. DEFINE server == [born |-> 1, exe |-> Mevault, parent |-> NoPid, of |-> 0, running |-> TRUE]
<1>1. server \in Processes
  BY NatFacts, IdentityAssumption DEF Processes
<1>2. server.born = 1
  OBVIOUS
<1>3. procs = [i \in Pids |-> IF i = Server THEN server ELSE Gone] /\ births = 1
  BY DEF Init
<1>. HIDE DEF server
<1>4. ProcsInv
  BY <1>1, <1>2, <1>3, NatFacts, GoneIsNoProcess DEF ProcsInv
<1>5. LaunchInv
  BY NatFacts DEF Init, LaunchInv
<1>6. h = Idle /\ births \in Nat /\ Levels \in Nat
  BY <1>3, IdentityAssumption DEF Init
<1>7. Idle.step = "off" /\ Len(Idle.chain) = 0
  BY DEF Idle
<1>8. WalkInv /\ RecordInv /\ GrantInv
  BY <1>3, <1>6, <1>7, IdleIsHandler DEF WalkInv, RecordInv, GrantInv
<1>. QED BY <1>4, <1>5, <1>8 DEF IdentityInv

LEMMA StepInv == IdentityInv /\ [Next]_vars => IdentityInv'
<1>1. IdentityInv /\ Next => IdentityInv'
  <2>1. Next => MachineStep \/ HandlerStep
    BY DEF Next, MachineStep, HandlerStep
  <2>. QED BY <2>1, MachineStepKeeps, HandlerStepKeeps
<1>2. IdentityInv /\ UNCHANGED vars => IdentityInv'
  BY DEF vars, IdentityInv, ProcsInv, LaunchInv, Key, WalkInv, RecordInv, RightOne, GrantInv
<1>. QED BY <1>1, <1>2

\* The inductive invariant.  A handler knows of the client's id only what the kernel said
\* at some step, so the invariant follows who has the id since: the recorded process or
\* one born after the request was verified (identity/mod.rs, verify_grant).
THEOREM IdentityInvariant == Spec => []IdentityInv
BY InitInv, StepInv, PTL DEF Spec

\* Every variable has its type and the walk of build_process_chain is within its limit.
THEOREM IdentityTypeCorrect == Spec => []IdentityTypeOK
<1>1. IdentityInv => IdentityTypeOK
  BY DEF IdentityInv, IdentityTypeOK, ProcsInv, LaunchInv, WalkInv, Handlers, Key
<1>. QED BY <1>1, IdentityInvariant, PTL

\* A launch grant decides for the process that spawn_in_job made, and for no other.
THEOREM GrantOfTheChild == Spec => []GrantIsTheChilds
<1>1. IdentityInv => GrantIsTheChilds
  BY DEF IdentityInv, GrantInv, GrantIsTheChilds
<1>. QED BY <1>1, IdentityInvariant, PTL
-----------------------------------------------------------------------------
(* The walk and the true parents *)

\* No two processes have one creation time.  Whoever was born when the parent of
\* a process was born is that parent, and has the id its child knows it by.
FamilyInv ==
  /\ \A i, j \in Pids : procs[i] # Gone /\ procs[j].born = procs[i].born => i = j
  /\ \A i \in Pids : procs[i] # Gone =>
       /\ procs[i].of <= births
       /\ procs[i].parent = NoPid => procs[i].of = 0
       /\ \A j \in Pids : procs[j] # Gone /\ procs[j].born = procs[i].of => procs[i].parent = j

\* The walk has read the executables of the line so far, and stands at its next process.
Follows(line) ==
  LET done == Len(h.chain)
  IN /\ done <= Len(line)
     /\ \A k \in 1..done : h.chain[k] = procs[line[k]].exe
     /\ h.step = "exe" => done < Len(line) /\ h.at = line[done + 1]
     /\ h.step = "parent" => h.at = line[done]
     /\ h.step = "decide" => done = Len(line)

Walking == h.step \in {"exe", "parent", "decide"} /\ h.chain # <<>>

\* As long as the process that is judged and all its parents run, the walk is on their
\* line, and what it has decided is what they are entitled to.
LineInv ==
  /\ h.created <= births /\ h.judged <= births
  /\ \A line \in Lines : IsLineOf(line, h.judged) =>
       /\ Walking => Follows(line)
       /\ h.by = "list" => h.ok = Entitled(ExesOf(line), h.name)

LEMMA LineFacts ==
  ASSUME NEW line \in Lines
  PROVE  /\ Len(line) \in 1..Levels /\ DOMAIN line = 1..Len(line)
         /\ 1 \in DOMAIN line /\ Len(line) \in DOMAIN line
         /\ \A k \in DOMAIN line : line[k] \in Pids
<1>1. PICK n \in 1..Levels : line \in [1..n -> Pids]
  BY DEF Lines
<1>2. n \in Nat /\ n >= 1 /\ Levels \in Nat
  BY IdentityAssumption
<1>3. DOMAIN line = 1..n /\ line \in Seq(Pids)
  BY <1>1, <1>2
<1>4. Len(line) = n
  BY <1>2, <1>3
<1>. QED BY <1>1, <1>2, <1>3, <1>4

\* check_access grants what the allow-list says of the line of a chain.
LEMMA CheckedIsEntitled ==
  ASSUME NEW chain \in Seq(Exes \cup {Unknown}), chain # <<>>, NEW name
  PROVE  CheckAccess(chain, name) = Entitled(chain, name)
<1>1. Len(chain) \in Nat /\ Len(chain) >= 1 /\ DOMAIN chain = 1..Len(chain)
  OBVIOUS
<1>2. {chain[i] : i \in DOMAIN chain} = {chain[1]} \cup {chain[i] : i \in 2..Len(chain)}
  BY <1>1
<1>3. (\A i \in DOMAIN chain : chain[i] \notin Denied)
        <=> ({chain[1]} \cup {chain[i] : i \in 2..Len(chain)}) \cap Denied = {}
  BY <1>2
<1>4. ASSUME NEW r \in AllowRules
      PROVE  RuleMatches(r, chain, name) <=>
               /\ chain[1] \in r.exes
               /\ {Star, name} \cap r.secrets # {}
               /\ RequireParent => {chain[i] : i \in 2..Len(chain)} \cap r.parentNot = {}
  BY DEF RuleMatches
<1>5. CheckAccess(chain, name) <=> Entitled(chain, name)
  BY <1>3, <1>4 DEF CheckAccess, Entitled
<1>6. CheckAccess(chain, name) \in BOOLEAN /\ Entitled(chain, name) \in BOOLEAN
  BY DEF CheckAccess, Entitled
<1>. QED BY <1>5, <1>6

\* What a step of the machine does to the processes there are: nothing but ends.
Fades ==
  /\ births' = births
  /\ \A j \in Pids : \/ procs'[j] \in {procs[j], Gone}
                     \/ procs[j] # Gone /\ procs'[j] = [procs[j] EXCEPT !.running = FALSE]

LEMMA MachineEndsOrBears ==
  ASSUME ProcsInv, LaunchInv, MachineStep
  PROVE  \/ Fades
         \/ \E i \in Pids, exe \in Exes, parent \in Pids \cup {NoPid} : Born(i, exe, parent)
<1>1. ASSUME NEW i \in Pids, Exit(i) \/ Forget(i)
      PROVE  Fades
  BY <1>1 DEF Fades, Exit, Forget, Running, ProcsInv
<1>2. ASSUME NEW i \in Pids, CreateChild(i)
      PROVE  \E exe \in Exes, parent \in Pids \cup {NoPid} : Born(i, exe, parent)
  BY <1>2, IdentityAssumption DEF CreateChild
<1>3. ASSUME NEW i \in Pids, NEW parent \in Pids \cup {NoPid}, Spawn(i, parent)
      PROVE  \E exe \in Exes : Born(i, exe, parent)
  BY <1>3 DEF Spawn
<1>4. CASE RegisterGrant \/ ChildWaited \/ WaitFails \/ Revoke
  BY <1>4 DEF Fades, RegisterGrant, ChildWaited, WaitFails, Revoke
<1>5. CASE LaunchFails
  <2>1. launch.pid \in Pids /\ procs[launch.pid] # Gone
    BY <1>5 DEF LaunchFails, LaunchInv, Running
  <2>. QED BY <1>5, <2>1 DEF Fades, LaunchFails, ProcsInv
<1>. QED BY <1>1, <1>2, <1>3, <1>4, <1>5 DEF MachineStep

\* A process that only fades keeps everything but its being there and running.
LEMMA FadesKeeps ==
  ASSUME ProcsInv, Fades, NEW j \in Pids, procs'[j] # Gone
  PROVE  /\ procs[j] # Gone
         /\ procs'[j].born = procs[j].born /\ procs'[j].of = procs[j].of
         /\ procs'[j].parent = procs[j].parent
         /\ procs'[j].running => procs'[j] = procs[j]
<1>1. CASE procs'[j] = procs[j]
  BY <1>1
<1>2. CASE procs[j] # Gone /\ procs'[j] = [procs[j] EXCEPT !.running = FALSE]
  BY <1>2, ExistsIsProcess DEF Processes
<1>. QED BY <1>1, <1>2 DEF Fades

\* A process that is born is younger than any, and its parent is there.
LEMMA BornKeeps ==
  ASSUME ProcsInv, NEW i \in Pids, NEW exe \in Exes, NEW parent \in Pids \cup {NoPid},
         Born(i, exe, parent)
  PROVE  /\ births \in Nat /\ births' = births + 1
         /\ \A j \in Pids \ {i} : procs'[j] = procs[j]
         /\ procs[i] = Gone /\ procs'[i] # Gone /\ procs'[i].born = births + 1
         /\ procs'[i].parent = parent
         /\ procs'[i].of = IF parent = NoPid THEN 0 ELSE procs[parent].born
<1>. DEFINE new == [born |-> births + 1, exe |-> exe, parent |-> parent,
                    of |-> IF parent = NoPid THEN 0 ELSE procs[parent].born, running |-> TRUE]
<1>1. procs' = [procs EXCEPT ![i] = new] /\ births' = births + 1 /\ procs[i] = Gone
  BY DEF Born
<1>2. births \in Nat
  BY NatFacts DEF ProcsInv
<1>3. new.born = births + 1 /\ new.parent = parent
      /\ new.of = IF parent = NoPid THEN 0 ELSE procs[parent].born
  OBVIOUS
<1>. HIDE DEF new
<1>4. procs'[i] = new /\ \A j \in Pids \ {i} : procs'[j] = procs[j]
  BY <1>1 DEF ProcsInv
<1>5. new # Gone
  BY <1>2, <1>3, GoneIsNoProcess
<1>. QED BY <1>1, <1>2, <1>3, <1>4, <1>5

\* No step of the machine makes a process a parent that it is not, or of a process not yet born.
LEMMA MachineKeepsFamily ==
  ASSUME ProcsInv, LaunchInv, FamilyInv, MachineStep
  PROVE  FamilyInv' /\ \A i \in Pids : procs'[i] # Gone => procs'[i].of <= births
<1>0. /\ \A j \in Pids : procs[j].born \in Nat /\ procs[j].born <= births
      /\ \A j \in Pids : procs[j].born = 0 <=> procs[j] = Gone
      /\ births \in Nat
  BY NatFacts, GoneIsNoProcess DEF ProcsInv
<1>1. CASE Fades
  <2>1. births' = births
    BY <1>1 DEF Fades
  <2>. QED BY <1>1, <2>1, FadesKeeps, GoneIsNoProcess, <1>0 DEF FamilyInv
<1>2. ASSUME NEW i \in Pids, NEW exe \in Exes, NEW parent \in Pids \cup {NoPid},
             Born(i, exe, parent)
      PROVE  FamilyInv' /\ \A j \in Pids : procs'[j] # Gone => procs'[j].of <= births
  <2>1. /\ births' = births + 1
        /\ \A j \in Pids \ {i} : procs'[j] = procs[j]
        /\ procs[i] = Gone /\ procs'[i] # Gone /\ procs'[i].born = births + 1
        /\ procs'[i].parent = parent
        /\ procs'[i].of = IF parent = NoPid THEN 0 ELSE procs[parent].born
    BY <1>2, BornKeeps
  <2>2. procs'[i].of \in Nat /\ procs'[i].of <= births
    BY <1>0, <2>1
  <2>3. \A j \in Pids : procs'[j] # Gone => procs'[j].of <= births
    BY <2>1, <2>2 DEF FamilyInv
  <2>4. \A j, k \in Pids : procs'[j] # Gone /\ procs'[k].born = procs'[j].born => j = k
    BY <1>0, <2>1 DEF FamilyInv
  <2>5. \A j \in Pids : procs'[j] # Gone /\ procs'[j].parent = NoPid => procs'[j].of = 0
    BY <2>1 DEF FamilyInv
  <2>6. ASSUME NEW j \in Pids, NEW k \in Pids, procs'[j] # Gone, procs'[k] # Gone,
               procs'[k].born = procs'[j].of
        PROVE  procs'[j].parent = k
    <3>1. k # i
      BY <1>0, <2>1, <2>3, <2>6
    <3>2. CASE j # i
      BY <2>1, <2>6, <3>1, <3>2 DEF FamilyInv
    <3>3. CASE j = i
      <4>1. procs'[k] = procs[k] /\ procs[k] # Gone
        BY <2>1, <2>6, <3>1
      <4>2. parent # NoPid /\ procs[parent].born = procs[k].born
        BY <1>0, <2>1, <2>6, <3>3, <4>1
      <4>. QED BY <2>1, <3>3, <4>1, <4>2 DEF FamilyInv
    <3>. QED BY <3>2, <3>3
  <2>7. \A j \in Pids : procs'[j] # Gone => procs'[j].of <= births'
    <3>1. \A j \in Pids : procs'[j] # Gone => procs'[j].of \in Nat
      BY <2>1, <2>2, ExistsIsProcess, NatFacts DEF Processes
    <3>. QED BY <1>0, <2>1, <2>3, <3>1
  <2>. QED BY <2>3, <2>4, <2>5, <2>6, <2>7 DEF FamilyInv
<1>. QED BY <1>1, <1>2, MachineEndsOrBears

\* Who runs after a step of the machine and is not newly born was there, the same, before.
LEMMA RunsSince ==
  ASSUME ProcsInv, LaunchInv, MachineStep, NEW j \in Pids, Running(j)', procs'[j].born <= births
  PROVE  procs'[j] = procs[j]
<1>1. CASE Fades
  BY <1>1, FadesKeeps DEF Running
<1>2. ASSUME NEW i \in Pids, NEW exe \in Exes, NEW parent \in Pids \cup {NoPid},
             Born(i, exe, parent)
      PROVE  procs'[j] = procs[j]
  BY <1>2, BornKeeps
<1>. QED BY <1>1, <1>2, MachineEndsOrBears

\* A line of running processes is none that a step of the machine has made.
LEMMA LineWasThere ==
  ASSUME ProcsInv, LaunchInv, FamilyInv, MachineStep, NEW line \in Lines, NEW b \in Nat,
         b <= births, IsLineOf(line, b)'
  PROVE  IsLineOf(line, b) /\ \A k \in DOMAIN line : procs'[line[k]] = procs[line[k]]
<1>0. /\ Len(line) \in 1..Levels /\ DOMAIN line = 1..Len(line)
      /\ 1 \in DOMAIN line /\ Len(line) \in DOMAIN line /\ Levels \in Nat
      /\ \A k \in DOMAIN line : line[k] \in Pids
  BY LineFacts, IdentityAssumption
<1>1. /\ \A k \in DOMAIN line : Running(line[k])'
      /\ procs'[line[1]].born = b
      /\ \A k \in 2..Len(line) : procs'[line[k]].born = procs'[line[k - 1]].of
      /\ Len(line) = Levels \/ procs'[line[Len(line)]].parent = NoPid
  BY DEF IsLineOf
<1>2. ASSUME NEW k \in DOMAIN line
      PROVE  procs'[line[k]].born <= births
  <2>1. CASE k = 1
    BY <1>1, <2>1
  <2>2. CASE k # 1
    <3>1. k \in 2..Len(line) /\ k - 1 \in DOMAIN line
      BY <1>0, <1>2, <2>2
    <3>2. procs'[line[k - 1]] # Gone /\ line[k - 1] \in Pids
      BY <1>0, <1>1, <3>1 DEF Running
    <3>. QED BY <1>1, <3>1, <3>2, MachineKeepsFamily
  <2>. QED BY <2>1, <2>2
<1>3. \A k \in DOMAIN line : procs'[line[k]] = procs[line[k]]
  BY <1>0, <1>1, <1>2, RunsSince
<1>4. \A k \in DOMAIN line : Running(line[k])
  BY <1>0, <1>1, <1>3 DEF Running
<1>5. \A k \in 2..Len(line) : k \in DOMAIN line /\ k - 1 \in DOMAIN line
  BY <1>0
<1>. QED BY <1>0, <1>1, <1>3, <1>4, <1>5 DEF IsLineOf

LEMMA MachineKeepsLine ==
  ASSUME IdentityInv, FamilyInv, LineInv, MachineStep
  PROVE  LineInv'
<1>1. h' = h /\ births <= births' /\ births \in Nat /\ births' \in Nat
  BY MachineIsYounger, MachineLeavesHandler, NatFacts DEF IdentityInv, Younger, ProcsInv
<1>2. h.judged \in Nat /\ h.created \in Nat /\ h.judged <= births /\ h.created <= births
  BY NatFacts DEF LineInv, IdentityInv, WalkInv, Handlers
<1>3. ASSUME NEW line \in Lines, IsLineOf(line, h.judged)'
      PROVE  /\ Walking' => Follows(line)'
             /\ h'.by = "list" => h'.ok = Entitled(ExesOf(line)', h'.name)
  <2>1. IsLineOf(line, h.judged) /\ \A k \in DOMAIN line : procs'[line[k]] = procs[line[k]]
    BY <1>1, <1>2, <1>3, LineWasThere DEF IdentityInv, IsLineOf
  <2>2. DOMAIN line = 1..Len(line) /\ Len(line) \in Nat
    BY LineFacts, IdentityAssumption
  <2>3. Walking => Follows(line)
    BY <2>1 DEF LineInv
  <2>4. ExesOf(line)' = ExesOf(line)
    BY <2>1 DEF ExesOf
  <2>5. Walking' => Follows(line)'
    <3>1. Len(h.chain) \in Nat
      BY DEF IdentityInv, WalkInv, Handlers
    <3>. QED BY <1>1, <2>1, <2>2, <2>3, <3>1 DEF Walking, Follows
  <2>. QED BY <1>1, <2>1, <2>4, <2>5 DEF LineInv
<1>. QED BY <1>1, <1>2, <1>3 DEF LineInv

\* A handler that neither walks nor has asked the allow-list says nothing of a line.
LEMMA QuietKeeps ==
  ASSUME h'.by # "list", ~Walking', h'.created <= births', h'.judged <= births'
  PROVE  LineInv'
BY DEF LineInv

LEMMA AnswerIsQuiet ==
  ASSUME IdentityInv, LineInv, Machine, NEW by \in {"refusal", "grant", "nothing"},
         NEW judged, judged <= births, NEW ok, Answer(by, judged, ok)
  PROVE  LineInv'
<1>1. /\ h'.step \in {"wait", "off"} /\ h'.by = by /\ h'.judged = judged
      /\ h'.created = h.created
  BY DEF Answer, IdentityInv, WalkInv, Handlers
<1>2. births' = births /\ h.created <= births
  BY DEF Machine, LineInv
<1>. QED BY <1>1, <1>2, QuietKeeps DEF Walking

LEMMA WalkIsQuiet ==
  ASSUME IdentityInv, LineInv, Machine, Walk, h.step \in {"lookup", "find"}
  PROVE  LineInv'
<1>1. h \in Handlers /\ h.chain = <<>> /\ h.by = "none" /\ h.created <= births /\ h.judged <= births
  BY DEF IdentityInv, WalkInv, LineInv, Handlers
<1>2. CASE RequireIdentity
  <2>1. h'.chain = <<>> /\ h'.by = "none" /\ h'.created = h.created /\ h'.judged = h.judged
    BY <1>1, <1>2 DEF Walk, Handlers
  <2>. QED BY <1>1, <2>1, QuietKeeps DEF Walking, Machine
<1>3. CASE ~RequireIdentity
  BY <1>1, <1>3, AnswerIsQuiet DEF Walk
<1>. QED BY <1>2, <1>3

\* Before the walk, and after an answer that is not the allow-list's, nothing is claimed.
LEMMA RequestKeepsLine ==
  ASSUME IdentityInv, LineInv,
         \/ Connect \/ Record \/ Disconnect \/ Receive \/ Verify \/ Lookup
         \/ ProxyRequest \/ ProxyResolve
  PROVE  LineInv'
<1>0. /\ h \in Handlers /\ births' = births /\ births \in Nat /\ 0 <= births
      /\ h.created <= births /\ h.judged <= births
      /\ \A i \in Pids : \A p \in Seen(i) : p.born <= births
  <2>1. h \in Handlers /\ h.created <= births /\ h.judged <= births
    BY DEF IdentityInv, WalkInv, LineInv
  <2>2. births' = births
    BY HandlerLeavesMachine DEF HandlerStep
  <2>3. births \in Nat /\ 0 <= births
    BY NatFacts DEF IdentityInv, ProcsInv
  <2>4. \A i \in Pids : \A p \in Seen(i) : p.born <= births
    BY <2>3, SeenIsThere, GoneIsNoProcess DEF IdentityInv, ProcsInv
  <2>. QED BY <2>1, <2>2, <2>3, <2>4
<1>1. Idle.by = "none" /\ Idle.chain = <<>> /\ Idle.created = 0 /\ Idle.judged = 0
  BY DEF Idle
<1>2. ASSUME h' = Idle PROVE LineInv'
  BY <1>0, <1>1, <1>2, QuietKeeps DEF Walking
<1>3. CASE Connect
  <2>1. h'.by = "none" /\ h'.chain = <<>> /\ h'.created = 0 /\ h'.judged = 0
    BY <1>3 DEF Connect, Idle
  <2>. QED BY <1>0, <2>1, QuietKeeps DEF Walking
<1>4. CASE Record
  <2>1. PICK p \in Seen(h.pid) :
          h' = IF p = Gone THEN Idle ELSE [h EXCEPT !.step = "wait", !.created = p.born]
    BY <1>4 DEF Record
  <2>2. h.step = "accept" /\ h.pid \in Pids /\ h.by = "none"
    BY <1>4 DEF Record, IdentityInv, WalkInv
  <2>3. CASE p = Gone
    BY <1>2, <2>1, <2>3
  <2>4. CASE p # Gone
    <3>1. h'.by = "none" /\ h'.step = "wait" /\ h'.created = p.born /\ h'.judged = h.judged
      BY <1>0, <2>1, <2>2, <2>4 DEF Handlers
    <3>. QED BY <1>0, <2>2, <3>1, QuietKeeps DEF Walking
  <2>. QED BY <2>3, <2>4
<1>5. CASE Disconnect
  BY <1>2, <1>5 DEF Disconnect
<1>6. CASE Receive
  <2>1. h'.by = "none" /\ h'.chain = <<>> /\ h'.created = h.created /\ h'.judged = 0
    BY <1>0, <1>6 DEF Receive, Idle
  <2>. QED BY <1>0, <2>1, QuietKeeps DEF Walking
<1>7. CASE Verify
  <2>1. h.step = "verify" /\ h.by = "none"
    BY <1>7 DEF Verify, IdentityInv, WalkInv
  <2>2. CASE Answer("refusal", 0, FALSE)
    BY <1>0, <1>7, <2>2, AnswerIsQuiet DEF Verify
  <2>3. CASE h' = [h EXCEPT !.step = "lookup", !.since = births]
    <3>1. /\ h'.by = "none" /\ h'.step = "lookup" /\ h'.created = h.created
          /\ h'.judged = h.judged
      BY <1>0, <2>1, <2>3 DEF Handlers
    <3>. QED BY <1>0, <3>1, QuietKeeps DEF Walking
  <2>. QED BY <1>7, <2>2, <2>3 DEF Verify
<1>8. CASE Lookup
  <2>1. PICK p \in Seen(h.pid) :
          \/ Answer("grant", p.born, GrantAllows(h.name))
          \/ Walk
    BY <1>8 DEF Lookup
  <2>2. h.step = "lookup" /\ h.pid \in Pids
    BY <1>8 DEF Lookup, IdentityInv, WalkInv
  <2>3. CASE Walk
    BY <1>8, <2>2, <2>3, WalkIsQuiet DEF Lookup
  <2>4. CASE Answer("grant", p.born, GrantAllows(h.name))
    BY <1>0, <1>8, <2>2, <2>4, AnswerIsQuiet DEF Lookup
  <2>. QED BY <2>1, <2>3, <2>4
<1>9. CASE ProxyRequest
  <2>1. h'.by = "none" /\ h'.chain = <<>> /\ h'.created = 0 /\ h'.judged = 0
    BY <1>9 DEF ProxyRequest, Idle
  <2>. QED BY <1>0, <2>1, QuietKeeps DEF Walking
<1>10. CASE ProxyResolve
  BY <1>10, WalkIsQuiet DEF ProxyResolve
<1>. QED BY <1>3, <1>4, <1>5, <1>6, <1>7, <1>8, <1>9, <1>10

\* The process the walk asks for, when it stands on a line: a process that runs is
\* answered for, and by no other.
LEMMA SeenOnLine ==
  ASSUME NEW line \in Lines, NEW b, IsLineOf(line, b), NEW k \in DOMAIN line,
         NEW p \in Seen(line[k])
  PROVE  p = procs[line[k]] /\ p # Gone
BY DEF IsLineOf, Running, Seen

LEMMA ReadExeKeepsLine ==
  ASSUME IdentityInv, FamilyInv, LineInv, ReadExe
  PROVE  LineInv'
<1>1. PICK p \in Seen(h.at) :
        h' = [h EXCEPT !.chain = Append(@, IF p = Gone THEN Unknown ELSE p.exe),
                       !.judged = IF h.chain = <<>> THEN p.born ELSE @,
                       !.step = "parent"]
  BY DEF ReadExe
<1>2. /\ h \in Handlers /\ h.step = "exe" /\ h.at \in Pids /\ h.by # "list"
      /\ h.created <= births /\ h.judged <= births
  BY DEF ReadExe, IdentityInv, WalkInv, LineInv
<1>3. p.born <= births
  BY <1>2, SeenIsThere, GoneIsNoProcess, NatFacts DEF IdentityInv, ProcsInv
<1>4. births' = births /\ procs' = procs
  BY DEF ReadExe, Machine
<1>5. h.chain \in Seq(Exes \cup {Unknown})
  BY <1>2 DEF Handlers
<1>. DEFINE exe == IF p = Gone THEN Unknown ELSE p.exe
<1>6. /\ h'.chain = Append(h.chain, exe) /\ h'.step = "parent" /\ h'.at = h.at
      /\ h'.created = h.created /\ h'.by = h.by
      /\ h'.judged = IF h.chain = <<>> THEN p.born ELSE h.judged
  BY <1>1, <1>2 DEF Handlers
<1>7. ASSUME NEW line \in Lines, IsLineOf(line, h'.judged)
      PROVE  /\ Len(h.chain) + 1 \in DOMAIN line
             /\ h.at = line[Len(h.chain) + 1]
             /\ \A k \in 1..Len(h.chain) : h.chain[k] = procs[line[k]].exe
  <2>0. /\ DOMAIN line = 1..Len(line) /\ Len(line) \in Nat /\ 1 \in DOMAIN line
        /\ line[1] \in Pids
    BY LineFacts, IdentityAssumption
  <2>1. CASE h.chain = <<>>
    <3>1. procs[line[1]].born = p.born /\ procs[line[1]] # Gone
      BY <1>6, <1>7, <2>0, <2>1 DEF IsLineOf, Running
    <3>2. procs[h.at].born = procs[line[1]].born
      BY <1>2, <2>0, <3>1, SeenIsThere, ExistsIsProcess, GoneIsNoProcess DEF IdentityInv
    <3>3. line[1] = h.at
      BY <1>2, <2>0, <3>1, <3>2 DEF FamilyInv
    <3>. QED BY <2>0, <2>1, <3>3
  <2>2. CASE h.chain # <<>>
    <3>1. Follows(line)
      BY <1>2, <1>6, <1>7, <2>2 DEF LineInv, Walking
    <3>. QED BY <1>2, <1>5, <2>0, <3>1 DEF Follows
  <2>. QED BY <2>1, <2>2
<1>8. ASSUME NEW line \in Lines, IsLineOf(line, h'.judged)
      PROVE  Follows(line)'
  <2>1. p = procs[h.at] /\ p # Gone
    BY <1>7, <1>8, SeenOnLine
  <2>2. Len(h'.chain) = Len(h.chain) + 1 /\ Len(h.chain) \in Nat
    BY <1>5, <1>6
  <2>3. h'.chain[Len(h.chain) + 1] = p.exe
    BY <1>5, <1>6, <2>1
  <2>4. \A k \in 1..Len(h.chain) : h'.chain[k] = h.chain[k]
    BY <1>5, <1>6
  <2>5. \A k \in 1..Len(h'.chain) : h'.chain[k] = procs[line[k]].exe
    BY <1>7, <1>8, <2>1, <2>2, <2>3, <2>4
  <2>6. Len(h'.chain) <= Len(line) /\ h'.at = line[Len(h'.chain)]
    BY <1>6, <1>7, <1>8, <2>2, LineFacts, IdentityAssumption
  <2>. QED BY <1>4, <1>6, <2>5, <2>6 DEF Follows
<1>9. ASSUME NEW line \in Lines, IsLineOf(line, h.judged)'
      PROVE  Follows(line)'
  BY <1>4, <1>8, <1>9 DEF IsLineOf, Running
<1>. QED BY <1>2, <1>3, <1>4, <1>6, <1>9 DEF LineInv

\* The id of the parent, on a line, is the true parent's; the line ends where the walk does.
LEMMA ReadParentKeepsLine ==
  ASSUME IdentityInv, FamilyInv, LineInv, ReadParent
  PROVE  LineInv'
<1>1. PICK p \in Seen(h.at) :
        h' = IF p = Gone \/ p.parent = NoPid \/ Len(h.chain) = Levels
               THEN [h EXCEPT !.step = "decide"]
               ELSE [h EXCEPT !.step = "exe", !.at = p.parent]
  BY DEF ReadParent
<1>2. /\ h \in Handlers /\ h.step = "parent" /\ h.at \in Pids /\ h.chain # <<>>
      /\ h.by # "list" /\ h.created <= births /\ h.judged <= births
  BY DEF ReadParent, IdentityInv, WalkInv, LineInv
<1>3. births' = births /\ procs' = procs
  BY DEF ReadParent, Machine
<1>4. Len(h.chain) \in Nat /\ Len(h.chain) >= 1
  BY <1>2 DEF Handlers
<1>5. /\ h'.chain = h.chain /\ h'.judged = h.judged /\ h'.created = h.created /\ h'.by = h.by
      /\ IF p = Gone \/ p.parent = NoPid \/ Len(h.chain) = Levels
           THEN h'.step = "decide" ELSE h'.step = "exe" /\ h'.at = p.parent
  BY <1>1, <1>2 DEF Handlers
<1>6. ASSUME NEW line \in Lines, IsLineOf(line, h.judged)
      PROVE  Follows(line)'
  <2>0. /\ DOMAIN line = 1..Len(line) /\ Len(line) \in Nat /\ Len(line) <= Levels
        /\ Levels \in Nat /\ \A k \in DOMAIN line : line[k] \in Pids
    BY LineFacts, IdentityAssumption
  <2>1. /\ Len(h.chain) <= Len(line) /\ h.at = line[Len(h.chain)]
        /\ \A k \in 1..Len(h.chain) : h.chain[k] = procs[line[k]].exe
    BY <1>2, <1>6 DEF LineInv, Walking, Follows
  <2>2. Len(h.chain) \in DOMAIN line
    BY <1>4, <2>0, <2>1
  <2>3. p = procs[h.at] /\ p # Gone
    BY <1>6, <2>1, <2>2, SeenOnLine
  <2>4. ASSUME Len(h.chain) < Len(line)
        PROVE  p.parent # NoPid /\ p.parent = line[Len(h.chain) + 1]
    <3>1. Len(h.chain) + 1 \in 2..Len(line) /\ Len(h.chain) + 1 \in DOMAIN line
      BY <1>4, <2>0, <2>4
    <3>. DEFINE i == line[Len(h.chain) + 1]
    <3>2. i \in Pids /\ procs[i] # Gone /\ procs[i].born = procs[h.at].of
      <4>1. (Len(h.chain) + 1) - 1 = Len(h.chain)
        BY <1>4
      <4>. QED BY <1>6, <2>0, <2>1, <3>1, <4>1 DEF IsLineOf, Running
    <3>. HIDE DEF i
    <3>3. procs[h.at].parent = i
      BY <1>2, <2>3, <3>2 DEF FamilyInv
    <3>4. procs[h.at].of # 0
      BY <3>2, ExistsIsProcess, GoneIsNoProcess DEF IdentityInv
    <3>. QED BY <1>2, <2>3, <3>3, <3>4 DEF FamilyInv, i
  <2>5. CASE Len(h.chain) = Len(line)
    <3>1. p.parent = NoPid \/ Len(h.chain) = Levels
      BY <1>6, <2>1, <2>3, <2>5 DEF IsLineOf
    <3>. QED BY <1>3, <1>5, <2>1, <2>5, <3>1 DEF Follows
  <2>6. CASE Len(h.chain) < Len(line)
    <3>1. h'.step = "exe" /\ h'.at = line[Len(h.chain) + 1]
      BY <1>4, <1>5, <2>0, <2>3, <2>4, <2>6
    <3>. QED BY <1>3, <1>5, <2>1, <2>6, <3>1 DEF Follows
  <2>. QED BY <1>4, <2>0, <2>1, <2>5, <2>6
<1>7. ASSUME NEW line \in Lines, IsLineOf(line, h.judged)'
      PROVE  Follows(line)'
  BY <1>3, <1>5, <1>6, <1>7 DEF IsLineOf, Running
<1>. QED BY <1>2, <1>3, <1>5, <1>7 DEF LineInv

\* What is decided on a chain that is the line's is decided on the line.
LEMMA DecideKeepsLine ==
  ASSUME IdentityInv, LineInv, Decide
  PROVE  LineInv'
<1>1. /\ h \in Handlers /\ h.step = "decide" /\ h.created <= births /\ h.judged <= births
  BY DEF Decide, IdentityInv, WalkInv, LineInv
<1>2. births' = births /\ procs' = procs
  BY DEF Decide, Machine
<1>3. /\ h'.step \in {"wait", "off"} /\ h'.by = "list" /\ h'.judged = h.judged
      /\ h'.created = h.created /\ h'.name = h.name /\ h'.ok = CheckAccess(h.chain, h.name)
  BY <1>1 DEF Decide, Answer, Handlers
<1>4. ASSUME NEW line \in Lines, IsLineOf(line, h.judged)
      PROVE  CheckAccess(h.chain, h.name) = Entitled(ExesOf(line), h.name)
  <2>1. h.chain \in Seq(Exes \cup {Unknown})
    BY <1>1 DEF Handlers
  <2>2. h.chain # <<>>
    BY <1>1 DEF IdentityInv, WalkInv
  <2>3. Follows(line)
    BY <1>1, <1>4, <2>2 DEF LineInv, Walking
  <2>4. Len(h.chain) = Len(line) /\ \A k \in 1..Len(h.chain) : h.chain[k] = procs[line[k]].exe
    BY <1>1, <2>3 DEF Follows
  <2>5. h.chain = [k \in 1..Len(h.chain) |-> h.chain[k]]
    BY <2>1
  <2>6. DOMAIN line = 1..Len(h.chain)
    BY <2>4, LineFacts
  <2>7. h.chain = ExesOf(line)
    BY <2>4, <2>5, <2>6 DEF ExesOf
  <2>. QED BY <2>1, <2>2, <2>7, CheckedIsEntitled
<1>5. ASSUME NEW line \in Lines, IsLineOf(line, h.judged)'
      PROVE  h'.ok = Entitled(ExesOf(line)', h'.name)
  BY <1>2, <1>3, <1>4, <1>5 DEF IsLineOf, Running, ExesOf
<1>. QED BY <1>1, <1>2, <1>3, <1>5 DEF LineInv, Walking

LEMMA HandlerKeepsLine ==
  ASSUME IdentityInv, FamilyInv, LineInv, HandlerStep
  PROVE  FamilyInv' /\ LineInv'
<1>1. FamilyInv'
  BY HandlerLeavesMachine DEF FamilyInv
<1>2. LineInv'
  BY RequestKeepsLine, ReadExeKeepsLine, ReadParentKeepsLine, DecideKeepsLine DEF HandlerStep
<1>. QED BY <1>1, <1>2

LEMMA InitLine == Init => FamilyInv /\ LineInv
<1>. SUFFICES ASSUME Init PROVE FamilyInv /\ LineInv
  OBVIOUS
<1>. DEFINE server == [born |-> 1, exe |-> Mevault, parent |-> NoPid, of |-> 0, running |-> TRUE]
<1>1. procs = [i \in Pids |-> IF i = Server THEN server ELSE Gone] /\ births = 1
  BY DEF Init
<1>2. server.born = 1 /\ server.of = 0 /\ server # Gone
  BY DEF Gone
<1>. HIDE DEF server
<1>3. FamilyInv
  BY <1>1, <1>2, GoneIsNoProcess DEF FamilyInv
<1>4. h.created = 0 /\ h.judged = 0 /\ h.chain = <<>> /\ h.by = "none"
  BY DEF Init, Idle
<1>. QED BY <1>1, <1>3, <1>4 DEF LineInv, Walking

LEMMA StepLine == IdentityInv /\ FamilyInv /\ LineInv /\ [Next]_vars => FamilyInv' /\ LineInv'
<1>1. IdentityInv /\ FamilyInv /\ LineInv /\ Next => FamilyInv' /\ LineInv'
  <2>1. Next => MachineStep \/ HandlerStep
    BY DEF Next, MachineStep, HandlerStep
  <2>2. ASSUME IdentityInv, FamilyInv, LineInv, MachineStep
        PROVE  FamilyInv' /\ LineInv'
    BY <2>2, MachineKeepsFamily, MachineKeepsLine DEF IdentityInv
  <2>. QED BY <2>1, <2>2, HandlerKeepsLine
<1>2. FamilyInv /\ LineInv /\ UNCHANGED vars => FamilyInv' /\ LineInv'
  BY DEF vars, FamilyInv, LineInv, IsLineOf, Running, Walking, Follows, ExesOf
<1>. QED BY <1>1, <1>2

\* As long as the process that asks and all its parents run, whatever else starts, exits
\* and takes ids during the walk: the chain that build_process_chain puts together is
\* theirs, and check_access decides what the allow-list says of them.
THEOREM DecisionOfTheLine == Spec => []DecisionIsOfTheLine
<1>1. Spec => [](FamilyInv /\ LineInv)
  BY IdentityInvariant, InitLine, StepLine, PTL DEF Spec
<1>2. LineInv => DecisionIsOfTheLine
  BY DEF LineInv, DecisionIsOfTheLine
<1>. QED BY <1>1, <1>2, PTL
-----------------------------------------------------------------------------
(* The client *)

\* The handler knows by now on which process it decides.
Judged == \/ h.ok \/ h.step \in {"parent", "decide"}
          \/ h.step = "exe" /\ h.chain # <<>>

\* As long as the recorded process runs, nobody else is judged.
ClientInv ==
  h.front = "pipe" => /\ h.ok => h.step = "wait"
                      /\ Judged /\ h.pid \in Pids /\ ClientRuns => h.judged = h.created

\* A process that is born is none that was recorded.
LEMMA MachineKeepsClient ==
  ASSUME IdentityInv, LineInv, ClientInv, MachineStep
  PROVE  ClientInv'
<1>1. h' = h
  BY MachineLeavesHandler
<1>2. ASSUME h.pid \in Pids, ClientRuns'
      PROVE  ClientRuns
  <2>1. procs'[h.pid].born <= births
    BY <1>1, <1>2 DEF ClientRuns, LineInv
  <2>2. procs'[h.pid] = procs[h.pid]
    BY <1>1, <1>2, <2>1, RunsSince DEF IdentityInv, ClientRuns, Running
  <2>. QED BY <1>1, <1>2, <2>2 DEF ClientRuns, Running
<1>. QED BY <1>1, <1>2 DEF ClientInv, Judged

\* An answer is on the client while that runs, or it is a refusal.
LEMMA AnswerOnClient ==
  ASSUME IdentityInv, NEW by, NEW judged, NEW ok, Answer(by, judged, ok), Machine,
         h.step \notin {"off", "accept", "wait"},
         h.front = "pipe" /\ ok /\ ClientRuns => judged = h.created
  PROVE  ClientInv'
<1>1. h \in Handlers
  BY DEF IdentityInv, WalkInv
<1>2. /\ h'.step = (IF h.front = "pipe" THEN "wait" ELSE "off")
      /\ h'.judged = judged /\ h'.ok = ok
      /\ h'.front = h.front /\ h'.pid = h.pid /\ h'.created = h.created
  BY <1>1 DEF Answer, Handlers
<1>3. ClientRuns' <=> ClientRuns
  BY <1>2 DEF ClientRuns, Running, Machine
<1>. QED BY <1>2, <1>3 DEF ClientInv, Judged

\* Before the walk nobody is judged.
LEMMA WalkOnClient ==
  ASSUME IdentityInv, Walk, Machine, h.step \in {"lookup", "find"}
  PROVE  ClientInv'
<1>1. h \in Handlers /\ h.chain = <<>> /\ ~h.ok
  BY DEF IdentityInv, WalkInv, Handlers
<1>2. CASE RequireIdentity
  <2>1. h'.step = "exe" /\ h'.chain = <<>> /\ ~h'.ok
    BY <1>1, <1>2 DEF Walk, Handlers
  <2>. QED BY <2>1 DEF ClientInv, Judged
<1>3. CASE ~RequireIdentity
  BY <1>1, <1>3, AnswerOnClient DEF Walk
<1>. QED BY <1>2, <1>3

\* What is asked of the client's id while the client runs is answered of the client.
LEMMA HandlerKeepsClient ==
  ASSUME IdentityInv, ClientInv, HandlerStep
  PROVE  ClientInv'
<1>0. h \in Handlers /\ (h.step # "off" => h.pid \in Pids) /\ procs' = procs
  BY HandlerLeavesMachine DEF IdentityInv, WalkInv
<1>1. ASSUME h' = Idle PROVE ClientInv'
  BY <1>1 DEF ClientInv, Judged, Idle
<1>2. CASE Connect \/ Disconnect \/ Receive \/ ProxyRequest
  <2>1. ~h'.ok /\ h'.step \in {"off", "accept", "verify", "find"}
    <3>1. CASE Connect
      BY <3>1 DEF Connect, Idle
    <3>2. CASE Disconnect
      BY <3>2 DEF Disconnect, Idle
    <3>3. CASE Receive
      BY <3>3 DEF Receive, Idle
    <3>4. CASE ProxyRequest
      BY <3>4 DEF ProxyRequest, Idle
    <3>. QED BY <1>2, <3>1, <3>2, <3>3, <3>4
  <2>. QED BY <2>1 DEF ClientInv, Judged
<1>3. CASE Record
  <2>1. PICK p \in Seen(h.pid) :
          h' = IF p = Gone THEN Idle ELSE [h EXCEPT !.step = "wait", !.created = p.born]
    BY <1>3 DEF Record
  <2>2. ~h.ok
    BY <1>3 DEF Record, IdentityInv, WalkInv, Handlers
  <2>3. CASE p # Gone
    <3>1. h'.step = "wait" /\ ~h'.ok
      BY <1>0, <2>1, <2>2, <2>3 DEF Handlers
    <3>. QED BY <3>1 DEF ClientInv, Judged
  <2>. QED BY <1>1, <2>1, <2>3
<1>4. CASE Verify
  <2>1. CASE Answer("refusal", 0, FALSE)
    BY <1>4, <2>1, AnswerOnClient DEF Verify
  <2>2. CASE h' = [h EXCEPT !.step = "lookup", !.since = births]
    <3>1. ~h.ok
      BY <1>4 DEF Verify, IdentityInv, WalkInv, Handlers
    <3>2. h'.step = "lookup" /\ ~h'.ok
      BY <1>0, <2>2, <3>1 DEF Handlers
    <3>. QED BY <3>2 DEF ClientInv, Judged
  <2>. QED BY <1>4, <2>1, <2>2 DEF Verify
<1>5. CASE Lookup
  <2>1. PICK p \in Seen(h.pid) :
          \/ p # Gone /\ Answer("grant", p.born, GrantAllows(h.name))
          \/ Walk
    BY <1>5 DEF Lookup
  <2>2. h.pid \in Pids
    BY <1>0, <1>5 DEF Lookup
  <2>3. ClientRuns /\ p # Gone => p.born = h.created
    BY <2>1, <2>2, SeenIsThere DEF IdentityInv, ClientRuns
  <2>4. CASE Walk
    BY <1>5, <2>4, WalkOnClient DEF Lookup
  <2>5. CASE p # Gone /\ Answer("grant", p.born, GrantAllows(h.name))
    BY <1>5, <2>3, <2>5, AnswerOnClient DEF Lookup
  <2>. QED BY <2>1, <2>4, <2>5
<1>6. CASE ProxyResolve
  BY <1>6, WalkOnClient DEF ProxyResolve
<1>7. CASE ReadExe
  <2>1. PICK p \in Seen(h.at) :
          h' = [h EXCEPT !.chain = Append(@, IF p = Gone THEN Unknown ELSE p.exe),
                         !.judged = IF h.chain = <<>> THEN p.born ELSE @,
                         !.step = "parent"]
    BY <1>7 DEF ReadExe
  <2>2. h.step = "exe" /\ h.pid \in Pids /\ ~h.ok /\ (h.chain = <<>> => h.at = h.pid)
    BY <1>0, <1>7 DEF ReadExe, IdentityInv, WalkInv, Handlers
  <2>3. /\ h'.ok = h.ok /\ h'.front = h.front /\ h'.pid = h.pid /\ h'.created = h.created
        /\ h'.judged = IF h.chain = <<>> THEN p.born ELSE h.judged
    BY <1>0, <2>1 DEF Handlers
  <2>4. ClientRuns /\ h.chain = <<>> => p.born = h.created
    BY <2>1, <2>2 DEF ClientRuns, Running, Seen
  <2>5. ClientRuns' <=> ClientRuns
    BY <1>0, <2>3 DEF ClientRuns, Running
  <2>. QED BY <2>2, <2>3, <2>4, <2>5 DEF ClientInv, Judged
<1>8. CASE ReadParent
  <2>1. h.step = "parent" /\ ~h.ok
    BY <1>8 DEF ReadParent, IdentityInv, WalkInv, Handlers
  <2>2. /\ h'.ok = h.ok /\ h'.front = h.front /\ h'.pid = h.pid /\ h'.created = h.created
        /\ h'.judged = h.judged
    BY <1>0, <1>8 DEF ReadParent, Handlers
  <2>3. ClientRuns' <=> ClientRuns
    BY <1>0, <2>2 DEF ClientRuns, Running
  <2>. QED BY <2>1, <2>2, <2>3 DEF ClientInv, Judged
<1>9. CASE Decide
  <2>1. h.step = "decide" /\ h.pid \in Pids
    BY <1>0, <1>9 DEF Decide
  <2>2. h.front = "pipe" /\ ClientRuns => h.judged = h.created
    BY <2>1 DEF ClientInv, Judged
  <2>. QED BY <1>9, <2>1, <2>2, AnswerOnClient DEF Decide
<1>. QED BY <1>2, <1>3, <1>4, <1>5, <1>6, <1>7, <1>8, <1>9 DEF HandlerStep

LEMMA StepClient == IdentityInv /\ LineInv /\ ClientInv /\ [Next]_vars => ClientInv'
<1>1. Next => MachineStep \/ HandlerStep
  BY DEF Next, MachineStep, HandlerStep
<1>2. ClientInv /\ UNCHANGED vars => ClientInv'
  BY DEF vars, ClientInv, Judged, ClientRuns, Running
<1>. QED BY <1>1, <1>2, MachineKeepsClient, HandlerKeepsClient

\* Whatever ids are given again while a request is in hand, what a client of the pipe is
\* let read is decided on the process of the record as long as that runs; once it has
\* exited, on what is known of it still or on one born after the request was verified.
THEOREM RecycledDetected == Spec => []RecycledIsDetected
<1>1. Spec => []LineInv
  BY IdentityInvariant, InitLine, StepLine, PTL DEF Spec
<1>2. Init => ClientInv
  BY DEF Init, ClientInv, Judged, Idle
<1>3. IdentityInv /\ ClientInv => RecycledIsDetected
  <2>1. ASSUME IdentityInv, ClientInv, h.front = "pipe", h.ok
        PROVE  /\ h.judged \in {0, h.created} \/ h.judged > h.since
               /\ ClientRuns => h.judged = h.created
    <3>1. RightOne(h.judged)
      BY <2>1 DEF IdentityInv, RecordInv
    <3>2. h.pid \in Pids
      BY <2>1 DEF ClientInv, IdentityInv, WalkInv
    <3>. QED BY <2>1, <3>1, <3>2 DEF RightOne, ClientInv, Judged
  <2>. QED BY <2>1 DEF RecycledIsDetected
<1>. QED BY <1>1, <1>2, <1>3, IdentityInvariant, StepClient, PTL DEF Spec
=============================================================================
