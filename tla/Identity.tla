------------------------------ MODULE Identity ------------------------------
(***************************************************************************)
(* Who asks: the processes of the machine, whose ids are given again when  *)
(* they have exited, and what the server makes of the id the kernel gives  *)
(* it for a connection.  A handler of the runtime pipe (ipc/mod.rs)        *)
(* records the process when it accepts, verifies it again on each request, *)
(* looks for the grant of a launched process (grants/mod.rs), else walks   *)
(* from the process to its parents (identity/win32.rs) and asks the        *)
(* allow-list (allowlist/mod.rs).  The proxy (proxy/mod.rs) finds a        *)
(* process for a TCP connection and goes on the same way.                  *)
(*                                                                         *)
(* Each question to the kernel is a step of its own: processes start and   *)
(* exit between any two of them.                                           *)
(***************************************************************************)
EXTENDS Naturals, Sequences, FiniteSets

CONSTANTS
  Pids,             \* process ids
  Server,           \* the id of the process that serves
  NoPid,            \* the ids 0 and 4, of no process a walk looks at
  Exes,             \* executables
  Mevault,          \* that of the server
  Denied,           \* ALWAYS_DENY
  Signed,           \* those with a valid signature
  Unknown,          \* "<unknown>", the executable of a process that cannot be asked
  Secrets, Star,    \* names of secrets, and "*"
  ListName,         \* "", the name that ListSecrets is checked with
  AllowRules,       \* the allow-list
  RequireIdentity, RequireSignature, RequireParent,  \* [security]
  Granted,          \* the secrets of the launched process, as run resolved them
  Levels,           \* the walk's limit, 6 in the code
  MaxBirths         \* bound: processes in a behaviour

ASSUME IdentityAssumption ==
  /\ Server \in Pids /\ NoPid \notin Pids
  /\ Mevault \in Exes /\ Unknown \notin Exes
  /\ Denied \subseteq Exes /\ Signed \subseteq Exes
  /\ Star \notin Secrets /\ ListName \notin Secrets \cup {Star}
  /\ AllowRules \subseteq [exes : SUBSET (Exes \cup {Unknown}), parentNot : SUBSET Exes,
                           secrets : SUBSET (Secrets \cup {Star})]
  /\ {RequireIdentity, RequireSignature, RequireParent} \subseteq BOOLEAN
  /\ Granted \subseteq Secrets \cup {Star}
  /\ Levels \in Nat \ {0} /\ MaxBirths \in Nat \ {0}

VARIABLES
  procs,     \* procs[i] : the process with the id i, or Gone
  births,    \* the processes there have been; orders their creation times
  registry,  \* the keys of the launch grants: id and creation time
  launch,    \* spawn_in_job
  h          \* the handler of a connection

vars == <<procs, births, registry, launch, h>>

Births == 0..MaxBirths
Gone == [born |-> 0]
\* of is history: which process had the parent's id when this one was made
Processes == [born : Births \ {0}, exe : Exes, parent : Pids \cup {NoPid}, of : Births,
              running : BOOLEAN]

Running(i) == procs[i] # Gone /\ procs[i].running

\* What the kernel may answer to who has the id i.  Of a process that has exited it
\* knows for as long as someone has a handle on it, though not everything.  Of one
\* that runs it answers everything: the server may ask every process.
Seen(i) == IF procs[i] = Gone THEN {Gone}
           ELSE IF procs[i].running THEN {procs[i]} ELSE {procs[i], Gone}
-----------------------------------------------------------------------------
(* allowlist::check_access *)

\* "*" is every name; ListSecrets asks for the name ""
RuleMatches(r, chain, name) ==
  /\ chain[1] \in r.exes
  /\ RequireParent => \A i \in 2..Len(chain) : chain[i] \notin r.parentNot
  /\ Star \in r.secrets \/ name \in r.secrets

CheckAccess(chain, name) ==
  /\ chain # <<>>
  /\ \A i \in DOMAIN chain : chain[i] \notin Denied
  /\ RequireSignature => chain[1] \in Signed
  /\ \E r \in AllowRules : RuleMatches(r, chain, name)

GrantAllows(name) == Star \in Granted \/ name \in Granted
-----------------------------------------------------------------------------
\* A handler.  judged and since are history: the process whose executable or whose
\* grant decided, and the processes there had been when the request was verified.
Idle == [step |-> "off", front |-> "pipe", pid |-> NoPid, created |-> 0, name |-> ListName,
         chain |-> <<>>, at |-> NoPid, judged |-> 0, since |-> 0, by |-> "none", ok |-> FALSE]

Init ==
  /\ procs = [i \in Pids |-> IF i = Server THEN [born |-> 1, exe |-> Mevault, parent |-> NoPid,
                                                 of |-> 0, running |-> TRUE]
                             ELSE Gone]
  /\ births = 1
  /\ registry = {}
  /\ launch = [step |-> "none", pid |-> NoPid, born |-> 0]
  /\ h = Idle

(* The machine *)

Born(i, exe, parent) ==
  /\ procs[i] = Gone /\ births < MaxBirths
  /\ births' = births + 1
  /\ procs' = [procs EXCEPT ![i] = [born |-> births + 1, exe |-> exe, parent |-> parent,
                                    of |-> IF parent = NoPid THEN 0 ELSE procs[parent].born,
                                    running |-> TRUE]]

Spawn(i, parent) ==
  /\ parent # NoPid => parent # Server /\ Running(parent)
  /\ \E exe \in Exes : Born(i, exe, parent)
  /\ UNCHANGED <<registry, launch, h>>

\* spawn_in_job has a handle on its child until it has waited for it
Held(i) == launch.pid = i /\ launch.step \in {"created", "granted"}

\* a process exits; someone may have a handle on it for a while
Exit(i) ==
  /\ i # Server /\ Running(i)
  /\ \/ procs' = [procs EXCEPT ![i].running = FALSE]
     \/ ~Held(i) /\ procs' = [procs EXCEPT ![i] = Gone]
  /\ UNCHANGED <<births, registry, launch, h>>

Forget(i) ==
  /\ procs[i] # Gone /\ ~Running(i) /\ ~Held(i)
  /\ procs' = [procs EXCEPT ![i] = Gone]
  /\ UNCHANGED <<births, registry, launch, h>>
-----------------------------------------------------------------------------
(* spawn_in_job: the child of run, its handle and its grant *)

CreateChild(i) ==
  /\ launch.step = "none"
  /\ \E exe \in Exes : Born(i, exe, Server)
  /\ launch' = [step |-> "created", pid |-> i, born |-> births + 1]
  /\ UNCHANGED <<registry, h>>

Key == <<launch.pid, launch.born>>

RegisterGrant ==
  /\ launch.step = "created"
  /\ registry' = registry \cup {Key}
  /\ launch' = [launch EXCEPT !.step = "granted"]
  /\ UNCHANGED <<procs, births, h>>

\* the handle is closed with the wait, the grant is revoked after it
ChildWaited ==
  /\ launch.step = "granted" /\ ~Running(launch.pid)
  /\ launch' = [launch EXCEPT !.step = "waited"]
  /\ UNCHANGED <<procs, births, registry, h>>

\* so it is when the wait fails; the job, which kills the child, is closed last
WaitFails ==
  /\ launch.step = "granted" /\ Running(launch.pid)
  /\ launch' = [launch EXCEPT !.step = "waited"]
  /\ UNCHANGED <<procs, births, registry, h>>

Revoke ==
  /\ launch.step = "waited"
  /\ registry' = registry \ {Key}
  /\ launch' = [launch EXCEPT !.step = "done"]
  /\ UNCHANGED <<procs, births, h>>

\* an error before the child has been resumed: the guards revoke and terminate
LaunchFails ==
  /\ launch.step \in {"created", "granted"} /\ Running(launch.pid)
  /\ registry' = registry \ {Key}
  /\ procs' = [procs EXCEPT ![launch.pid].running = FALSE]
  /\ launch' = [launch EXCEPT !.step = "done"]
  /\ UNCHANGED <<births, h>>
-----------------------------------------------------------------------------
(* The runtime pipe *)

Machine == UNCHANGED <<procs, births, registry, launch>>

\* the kernel keeps the id of the process that opened the pipe
Connect ==
  /\ h.step = "off"
  /\ \E i \in Pids \ {Server} : Running(i) /\ h' = [Idle EXCEPT !.step = "accept", !.pid = i]
  /\ Machine

\* record_grant; without an answer the connection is dropped
Record ==
  /\ h.step = "accept"
  /\ \E p \in Seen(h.pid) :
       h' = IF p = Gone THEN Idle ELSE [h EXCEPT !.step = "wait", !.created = p.born]
  /\ Machine

Disconnect == h.step = "wait" /\ h' = Idle /\ Machine

\* A request may have been sent by a process that has exited since, or by one that
\* has the client's end from it.
Receive ==
  /\ h.step = "wait"
  /\ \E name \in Secrets \cup {ListName} :
       h' = [Idle EXCEPT !.step = "verify", !.pid = h.pid, !.created = h.created, !.name = name]
  /\ Machine

\* the answer is given; the handler waits for the next request
Answer(by, judged, ok) ==
  h' = [h EXCEPT !.step = IF h.front = "pipe" THEN "wait" ELSE "off",
                 !.by = by, !.judged = judged, !.ok = ok]

Walk == IF RequireIdentity THEN h' = [h EXCEPT !.step = "exe", !.at = h.pid]
                           ELSE Answer("nothing", h.created, TRUE)

\* Seeded fault: a request is verified by the process being there.
VerifyThere ==
  /\ h.step = "verify"
  /\ \E p \in Seen(h.pid) :
       \/ p = Gone /\ Answer("refusal", 0, FALSE)
       \/ p # Gone /\ h' = [h EXCEPT !.step = "lookup", !.since = births]
  /\ Machine

\* verify_grant: the creation time is the one of the record
Verify ==
  /\ h.step = "verify"
  /\ \E p \in Seen(h.pid) :
       \/ p.born # h.created /\ Answer("refusal", 0, FALSE)
       \/ p.born = h.created /\ h' = [h EXCEPT !.step = "lookup", !.since = births]
  /\ Machine

\* Seeded fault: a grant is found by the id alone.
FoundById(p) == \E k \in registry : k[1] = h.pid

Found(p) == <<h.pid, p.born>> \in registry

\* GetSecret asks for the creation time again, and for the grant with it; ListSecrets does not
Lookup ==
  /\ h.step = "lookup"
  /\ \E p \in Seen(h.pid) :
       IF h.name # ListName /\ p # Gone /\ Found(p)
         THEN Answer("grant", p.born, GrantAllows(h.name))
         ELSE Walk
  /\ Machine
-----------------------------------------------------------------------------
(* The proxy: resolve_and_check *)

ProxyPort == "proxy"
ClientPort == "client"

\* the rows of the TCP table for a connection of the process i: both its ends
Rows(i) == {[local |-> ProxyPort, remote |-> ClientPort, owner |-> Server],
            [local |-> ClientPort, remote |-> ProxyPort, owner |-> i]}

\* find_connection_pid, asked with the proxy's port and the peer's
FindConnectionPid(i) ==
  (CHOOSE r \in Rows(i) : r.local = ProxyPort /\ r.remote = ClientPort).owner

ProxyRequest ==
  /\ h.step = "off"
  /\ \E i \in Pids \ {Server}, name \in Secrets \cup {ListName} :
       /\ Running(i)
       /\ h' = [Idle EXCEPT !.front = "proxy", !.pid = FindConnectionPid(i), !.name = name,
                            !.step = "find"]
  /\ Machine

ProxyResolve == h.step = "find" /\ Walk /\ Machine
-----------------------------------------------------------------------------
(* build_process_chain *)

\* the executable of the process that has the id now
ReadExe ==
  /\ h.step = "exe"
  /\ \E p \in Seen(h.at) :
       h' = [h EXCEPT !.chain = Append(@, IF p = Gone THEN Unknown ELSE p.exe),
                      !.judged = IF h.chain = <<>> THEN p.born ELSE @,
                      !.step = "parent"]
  /\ Machine

\* Seeded fault: the walk stops a level short.
ReadParentShort ==
  /\ h.step = "parent"
  /\ \E p \in Seen(h.at) :
       h' = IF p = Gone \/ p.parent = NoPid \/ Len(h.chain) + 1 >= Levels
              THEN [h EXCEPT !.step = "decide"]
              ELSE [h EXCEPT !.step = "exe", !.at = p.parent]
  /\ Machine

\* Seeded fault: the walk has no limit.
ReadParentUnlimited ==
  /\ h.step = "parent"
  /\ \E p \in Seen(h.at) :
       h' = IF p = Gone \/ p.parent = NoPid THEN [h EXCEPT !.step = "decide"]
              ELSE [h EXCEPT !.step = "exe", !.at = p.parent]
  /\ Machine

\* its parent's id, from a new snapshot; the process of that id need not be the parent
ReadParent ==
  /\ h.step = "parent"
  /\ \E p \in Seen(h.at) :
       h' = IF p = Gone \/ p.parent = NoPid \/ Len(h.chain) = Levels
              THEN [h EXCEPT !.step = "decide"]
              ELSE [h EXCEPT !.step = "exe", !.at = p.parent]
  /\ Machine

Decide == h.step = "decide" /\ Answer("list", h.judged, CheckAccess(h.chain, h.name)) /\ Machine

Next ==
  \/ \E i \in Pids : \/ Exit(i) \/ Forget(i) \/ CreateChild(i)
                     \/ \E parent \in Pids \cup {NoPid} : Spawn(i, parent)
  \/ RegisterGrant \/ ChildWaited \/ WaitFails \/ Revoke \/ LaunchFails
  \/ Connect \/ Record \/ Disconnect \/ Receive \/ Verify \/ Lookup
  \/ ProxyRequest \/ ProxyResolve \/ ReadExe \/ ReadParent \/ Decide

Spec == Init /\ [][Next]_vars
-----------------------------------------------------------------------------
(* Properties *)

Steps == {"off", "accept", "wait", "verify", "lookup", "find", "exe", "parent", "decide"}

\* Every variable has its type, and a walk is no longer than its limit.
IdentityTypeOK ==
  /\ procs \in [Pids -> Processes \cup {Gone}]
  /\ births \in Births
  /\ registry \subseteq Pids \X Births
  /\ launch \in [step : {"none", "created", "granted", "waited", "done"},
                 pid : Pids \cup {NoPid}, born : Births]
  /\ h.step \in Steps /\ h.front \in {"pipe", "proxy"}
  /\ h.pid \in Pids \cup {NoPid} /\ h.at \in Pids \cup {NoPid}
  /\ {h.created, h.judged, h.since} \subseteq Births
  /\ h.chain \in Seq(Exes \cup {Unknown}) /\ Len(h.chain) <= Levels
  /\ h.step = "exe" => h.at \in Pids /\ Len(h.chain) < Levels

\* The process that was recorded for the connection has not exited.
ClientRuns == Running(h.pid) /\ procs[h.pid].born = h.created

\* What a client of the pipe is let read is decided on the process that was recorded for
\* its connection for as long as that runs, whatever other ids are given again meanwhile.
\* If it has exited, the decision is on what the kernel knows of it still, or on a process
\* that took its id after this very request was verified: verify_grant compares creation
\* times, and what comes after it goes by the id (ipc/mod.rs, dispatch).  Never is it on a
\* process that had the id at the verification and was not the one recorded: "a
\* PID-recycled process cannot impersonate the original caller" (identity/mod.rs:3) is
\* true of what was there then.
RecycledIsDetected ==
  h.front = "pipe" /\ h.ok =>
    /\ h.judged \in {0, h.created} \/ h.judged > h.since
    /\ ClientRuns => h.judged = h.created

\* A launch grant speaks for the process that run launched, and for no other that has
\* its id: not in the time between the closing of the child's handle and the
\* revocation either (run.rs, spawn_in_job; grants/mod.rs, the registry's key).
GrantIsTheChilds == h.by = "grant" => h.judged = launch.born

\* The lines of processes a walk may follow, as the ids they have.
Lines == UNION {[1..n -> Pids] : n \in 1..Levels}

\* line is the process born at b with its true parents, as far as the walk goes, and
\* every one of them runs.
IsLineOf(line, b) ==
  /\ \A k \in DOMAIN line : Running(line[k])
  /\ procs[line[1]].born = b
  /\ \A k \in 2..Len(line) : procs[line[k]].born = procs[line[k - 1]].of
  /\ Len(line) = Levels \/ procs[line[Len(line)]].parent = NoPid

ExesOf(line) == [k \in DOMAIN line |-> procs[line[k]].exe]

\* What the allow-list says of a process and its parents: none of them is denied, the
\* process is signed, and a rule names it, the secret, and none of the parents.
Entitled(exes, name) ==
  LET parents == {exes[i] : i \in 2..Len(exes)}
  IN /\ ({exes[1]} \cup parents) \cap Denied = {}
     /\ RequireSignature => exes[1] \in Signed
     /\ \E r \in AllowRules : /\ exes[1] \in r.exes
                              /\ {Star, name} \cap r.secrets # {}
                              /\ RequireParent => parents \cap r.parentNot = {}

\* When a process and all its parents run at the decision, the decision is the one for
\* them: the walk, whose steps the kernel answers at different times and by ids that
\* are given again, has taken no other process for one of them.
DecisionIsOfTheLine ==
  h.by = "list" =>
    \A line \in Lines : IsLineOf(line, h.judged) => h.ok = Entitled(ExesOf(line), h.name)
=============================================================================
