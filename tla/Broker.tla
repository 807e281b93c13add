------------------------------- MODULE Broker -------------------------------
(***************************************************************************)
(* The process that serves an unlocked vault: the command `mevault unlock` *)
(* (commands/unlock.rs) or `mevault run` without a session to join         *)
(* (commands/run.rs), its session slot, its two pipe servers and the       *)
(* handlers they spawn (ipc/mod.rs), the launch grant of the child `run`   *)
(* starts (grants/mod.rs), and the audit writes the handlers spawn.        *)
(*                                                                         *)
(* A step is what one task does between two awaits, so that handlers, the  *)
(* expiry task, the audit tasks, the shutdown task and the command         *)
(* interleave as the runtime may schedule them.                            *)
(***************************************************************************)
EXTENDS SessionManager, FiniteSets

CONSTANTS
  Command,      \* "unlock" or "run"
  Main,         \* the command's own task, one of Holders
  Clients,      \* connections to the runtime pipe, the other Holders
  Child,        \* the client that is the process `run` launched; `unlock` has none
  Admins,       \* connections to the control pipe
  Secrets,      \* the secrets of the vault
  All,          \* in place of a secret's name: a ListSecrets request
  Malformed,    \* in place of a name: a request that does not parse
  Rules,        \* <<c, s>> : the allow-list lets c read s
  Listers,      \* the clients an allow-list rule lets read any secret
  GrantSecrets, \* what the launch grant lets Child read
  MaxRequests   \* bound: requests in a behaviour

ASSUME BrokerAssumption ==
  /\ Command \in {"unlock", "run"}
  /\ Holders = Clients \cup {Main} /\ Main \notin Clients
  /\ Child \in Clients
  /\ Rules \subseteq Clients \X Secrets
  /\ Listers \subseteq Clients
  /\ GrantSecrets \subseteq Secrets
  /\ {All, Malformed} \cap Secrets = {} /\ All # Malformed
  /\ MaxRequests \in Nat

VARIABLES
  main,    \* where the command stands
  server,  \* server[v] : the pipe server v
  killed,  \* the mpsc channel, of capacity 1, holds a message
  stop,    \* the servers have been told to stop
  child,   \* the launched process
  grant,   \* the registry holds the grant of Child
  pc,      \* pc[c]  : where the handler of c stands
  req,     \* req[c] : the request it is serving
  ctl,     \* ctl[a] : where the handler of a control connection stands
  pending, \* the audit writes that are spawned and not done
  log,     \* the audit log
  lost,    \* audit writes that failed
  asked,   \* what MaxRequests bounds; numbers the requests
  told     \* history: the requests that were answered, with their answers

serverVars == <<server, killed, stop>>
auditVars == <<pending, log, lost>>
handlerVars == <<pc, req, asked, told>>
vars == <<sessionVars, main, serverVars, child, grant, handlerVars, ctl, auditVars>>

Servers == {"runtime", "control"}
Names == Secrets \cup {All, Malformed}
NoRequest == [num |-> 0]

\* A process a client is: only the child's life is followed.
Alive(c) == c = Child => child = "running"

\* What the kernel says of a client: nothing certain of one that has exited,
\* whose id stays valid while someone has a handle on it.
SeenAlive(c) == IF Alive(c) THEN {TRUE} ELSE {TRUE, FALSE}

At(c, step) == pc[c] = step
Goto(c, step) == pc' = [pc EXCEPT ![c] = step]

\* the handler of c has its answer ready
Answer(c, a) == /\ Goto(c, "reply")
                /\ req' = [req EXCEPT ![c].answer = a]

Audit(c, type) ==
  pending' = pending \cup {[num |-> req[c].num, type |-> type, name |-> req[c].name]}
-----------------------------------------------------------------------------
Init ==
  /\ InitSession
  /\ main = "unlock"
  /\ server = [v \in Servers |-> "new"]
  /\ killed = FALSE /\ stop = FALSE
  /\ child = "none" /\ grant = FALSE
  /\ pc = [c \in Clients |-> "off"]
  /\ req = [c \in Clients |-> NoRequest]
  /\ ctl = [a \in Admins |-> "off"]
  /\ pending = {} /\ log = {} /\ lost = {}
  /\ asked = 0 /\ told = {}

(* The command, up to the servers *)

\* VaultStore::unlock and Session::new; the command keeps an Arc of its own
UnlockVault ==
  /\ main = "unlock" /\ now <= MaxTime
  /\ \E i \in Ids : New(i, Main)
  /\ main' = "start"
  /\ UNCHANGED <<serverVars, child, grant, handlerVars, ctl, auditVars>>

StartSession ==
  /\ main = "start"
  /\ \E s \in made : Start(s)
  /\ main' = IF Command = "run" THEN "launch" ELSE "join"
  /\ UNCHANGED <<serverVars, child, grant, handlerVars, ctl, auditVars>>

Serving == main \notin {"unlock", "start", "exited"}

\* run_pipe_server and run_control_server bind their pipe, or fail to, or fail
\* later in accepting a client
OpenServer(v) ==
  /\ Serving /\ server[v] = "new"
  /\ server' = [server EXCEPT ![v] = "open"]
  /\ UNCHANGED <<sessionVars, main, killed, stop, child, grant, handlerVars, ctl, auditVars>>

ServerFails(v) ==
  /\ Serving /\ server[v] \in {"new", "open"}
  /\ server' = [server EXCEPT ![v] = "closed"]
  /\ UNCHANGED <<sessionVars, main, killed, stop, child, grant, handlerVars, ctl, auditVars>>
-----------------------------------------------------------------------------
(* spawn_in_job: the child of `run` *)

Launch(next, life, granted) ==
  /\ main' = next /\ child' = life /\ grant' = granted
  /\ UNCHANGED <<sessionVars, serverVars, handlerVars, ctl, auditVars>>

\* Seeded fault: the child runs before its grant is registered.
CreateRunning ==
  /\ main = "launch"
  /\ Launch("register", "running", grant) \/ Launch("kill", child, grant)

\* CreateProcessW, suspended, and its assignment to the job
CreateChild ==
  /\ main = "launch"
  /\ Launch("register", "suspended", grant) \/ Launch("kill", child, grant)

RegisterGrant ==
  /\ main = "register"
  /\ Launch("resume", child, TRUE) \/ Launch("kill", "exited", grant)

\* a child that cannot be resumed is terminated and its grant revoked
ResumeChild ==
  /\ main = "resume"
  /\ Launch("wait", "running", grant) \/ Launch("kill", "exited", FALSE)

ChildExits == child = "running" /\ Launch(main, "exited", grant)

ChildWaited == main = "wait" /\ child = "exited" /\ Launch("kill", child, FALSE)

\* the wait fails, or the task that waits does: grant_guard is dropped, and with it
\* the grant of a child that may be running
WaitFails == main = "wait" /\ Launch("abandon", child, FALSE)

\* then _job_guard is, and the kernel kills what is left in the job
CloseJob == main = "abandon" /\ Launch("kill", "exited", FALSE)
-----------------------------------------------------------------------------
(* handle_client and dispatch *)

Connect(c) ==
  /\ server["runtime"] = "open" /\ At(c, "off") /\ Alive(c)
  /\ Goto(c, "wait")
  /\ UNCHANGED <<sessionVars, main, serverVars, child, grant, req, asked, told, ctl, auditVars>>

\* end of file, the read timeout, or a line over MAX_REQUEST_BYTES
Disconnect(c) ==
  /\ At(c, "wait")
  /\ Goto(c, "off")
  /\ UNCHANGED <<sessionVars, main, serverVars, child, grant, req, asked, told, ctl, auditVars>>

\* a request is read, maybe after its client has exited; one that does not parse,
\* or of a later protocol, is refused before dispatch
Receive(c) ==
  /\ At(c, "wait") /\ asked < MaxRequests
  /\ asked' = asked + 1
  /\ \E n \in Names :
       /\ req' = [req EXCEPT ![c] = [num |-> asked + 1, name |-> n, live |-> Active,
                                     answer |-> IF n = Malformed THEN "refused" ELSE "none"]]
       /\ Goto(c, IF n = Malformed THEN "reply" ELSE "verify")
  /\ UNCHANGED <<sessionVars, main, serverVars, child, grant, told, ctl, auditVars>>

HandlerStep(c) ==
  UNCHANGED <<now, slot, made, timers, main, serverVars, child, grant, asked, ctl, log, lost>>

VerifyGrant(c) ==
  /\ At(c, "verify")
  /\ \E seen \in SeenAlive(c) :
       IF seen THEN Goto(c, IF req[c].name = All THEN "list" ELSE "lookup") /\ UNCHANGED req
               ELSE Answer(c, "refused")
  /\ UNCHANGED <<arcs, pending, told>>
  /\ HandlerStep(c)

\* a client that a grant is registered for is judged by the grant alone
LookupGrant(c) ==
  /\ At(c, "lookup")
  /\ \E seen \in SeenAlive(c) :
       IF c = Child /\ grant /\ seen
         THEN \/ req[c].name \in GrantSecrets /\ Goto(c, "granted") /\ UNCHANGED req
              \/ req[c].name \notin GrantSecrets /\ Answer(c, "denied")
         ELSE Goto(c, "session") /\ UNCHANGED req
  /\ UNCHANGED <<arcs, pending, told>>
  /\ HandlerStep(c)

\* Seeded fault: a handler waits for the slot to be filled again.
NoVaultWaits(c) ==
  slot # NoSession /\ Expired(slot) /\ Answer(c, "refused") /\ UNCHANGED <<arcs, pending>>

\* the session is locked or expired
NoVault(c) == ~Active /\ Answer(c, "refused") /\ UNCHANGED <<arcs, pending>>

\* Seeded fault: a session that is in the slot is taken to be active.
ReadVaultUnchecked(c) ==
  /\ slot # NoSession
  /\ arcs' = [arcs EXCEPT ![c] = slot.id]
  /\ Goto(c, "read") /\ UNCHANGED <<req, pending>>

\* the handler clones the Arc of the vault and leaves the lock
ReadVault(c) ==
  /\ Borrow(c)
  /\ Goto(c, "read") /\ UNCHANGED <<req, pending>>

GrantedSession(c) ==
  /\ At(c, "granted")
  /\ NoVault(c) \/ ReadVault(c)
  /\ UNCHANGED told
  /\ HandlerStep(c)

\* the allow-list decides under the lock, of a client that has exited by a chain
\* that may match no rule; a chain that cannot be built refuses
Session(c) ==
  /\ At(c, "session")
  /\ \/ NoVault(c)
     \/ Active /\ Answer(c, "refused") /\ UNCHANGED <<arcs, pending>>
     \/ <<c, req[c].name>> \in Rules /\ ReadVault(c)
     \/ /\ Active
        /\ <<c, req[c].name>> \notin Rules \/ FALSE \in SeenAlive(c)
        /\ Audit(c, "denied")
        /\ Answer(c, "denied")
        /\ UNCHANGED arcs
  /\ UNCHANGED told
  /\ HandlerStep(c)

\* Seeded fault: the handler keeps the vault it cloned.
ReadSecretKeeping(c) ==
  /\ At(c, "read")
  /\ \/ Audit(c, "allowed") /\ Answer(c, "value")
     \/ Answer(c, "refused") /\ UNCHANGED pending
  /\ UNCHANGED <<arcs, told>>
  /\ HandlerStep(c)

\* Seeded fault: the read is answered and not audited.
ReadSecretSilently(c) ==
  /\ At(c, "read")
  /\ GiveBack(c)
  /\ Answer(c, "value") /\ UNCHANGED pending
  /\ UNCHANGED told
  /\ HandlerStep(c)

\* the blocking read of the vault file, which may fail, then the audit write
\* of a success; the clone of the Arc goes with the closure
ReadSecret(c) ==
  /\ At(c, "read")
  /\ GiveBack(c)
  /\ \/ Audit(c, "allowed") /\ Answer(c, "value")
     \/ Answer(c, "refused") /\ UNCHANGED pending
  /\ UNCHANGED told
  /\ HandlerStep(c)

\* Seeded fault: the names are given to any client.
ListSecretsToAll(c) ==
  /\ At(c, "list")
  /\ Active
  /\ Answer(c, "names")
  /\ UNCHANGED <<arcs, pending, told>>
  /\ HandlerStep(c)

\* ListSecrets holds the lock from the check to the last name
ListSecrets(c) ==
  /\ At(c, "list")
  /\ \/ ~Active /\ Answer(c, "refused")
     \/ Active /\ c \in Listers /\ Answer(c, "names")
     \/ Active /\ Answer(c, "refused")
  /\ UNCHANGED <<arcs, pending, told>>
  /\ HandlerStep(c)

\* the answer is written, which has no deadline and waits for a client that does not
\* read; if the client is gone or the answer is over MAX_RESPONSE_BYTES, the
\* connection is dropped
Reply(c) ==
  /\ At(c, "reply")
  /\ \/ /\ Alive(c)
        /\ told' = told \cup {[client |-> c, request |-> req[c]]}
        /\ Goto(c, "wait")
     \/ Goto(c, "off") /\ UNCHANGED told
  /\ req' = [req EXCEPT ![c] = NoRequest]
  /\ UNCHANGED <<arcs, pending>>
  /\ HandlerStep(c)

\* What a handler does until it has the answer needs nothing of its client.
Decide(c) == \/ VerifyGrant(c) \/ LookupGrant(c) \/ GrantedSession(c) \/ Session(c)
             \/ ReadSecret(c) \/ ListSecrets(c)

Handle(c) == Decide(c) \/ Reply(c)
-----------------------------------------------------------------------------
(* write_audit: each record is written by a task of its own *)

AuditWrite(r) ==
  /\ r \in pending
  /\ pending' = pending \ {r}
  /\ \/ log' = log \cup {r} /\ UNCHANGED lost
     \/ lost' = lost \cup {r} /\ UNCHANGED log
  /\ UNCHANGED <<sessionVars, main, serverVars, child, grant, handlerVars, ctl>>

(* The session's expiry task, and time *)

Expire == /\ \E s \in timers : TimerWake(s)
          /\ UNCHANGED <<main, serverVars, child, grant, handlerVars, ctl, auditVars>>

Time == /\ Tick
        /\ UNCHANGED <<main, serverVars, child, grant, handlerVars, ctl, auditVars>>
-----------------------------------------------------------------------------
(* Shutting down *)

Ctl(a, step) == ctl' = [ctl EXCEPT ![a] = step]

\* mevault lock: connect to the control pipe and send Lock
AdminLock(a) ==
  /\ server["control"] = "open" /\ ctl[a] = "off"
  /\ Ctl(a, "lock")
  /\ UNCHANGED <<sessionVars, main, serverVars, child, grant, handlerVars, auditVars>>

\* sending waits while the channel is full; once its receiver is gone, the
\* error is ignored
SendKill == \/ ~stop /\ ~killed /\ killed' = TRUE
            \/ stop /\ UNCHANGED killed

AdminSend(a) ==
  /\ ctl[a] = "lock"
  /\ SendKill
  /\ Ctl(a, "ack")
  /\ UNCHANGED <<sessionVars, main, server, stop, child, grant, handlerVars, auditVars>>

\* the client is told "Vault locked."
AdminAck(a) ==
  /\ ctl[a] = "ack"
  /\ Ctl(a, "acked")
  /\ UNCHANGED <<sessionVars, main, serverVars, child, grant, handlerVars, auditVars>>

CtrlC ==
  /\ Command = "unlock" /\ Serving
  /\ SendKill
  /\ UNCHANGED <<sessionVars, main, server, stop, child, grant, handlerVars, ctl, auditVars>>

\* `run` asks its servers to stop once its child is done
KillAfterChild ==
  /\ main = "kill"
  /\ SendKill
  /\ main' = "join"
  /\ UNCHANGED <<sessionVars, server, stop, child, grant, handlerVars, ctl, auditVars>>

\* the task that waits for the first message tells both servers, and ends
PassKill ==
  /\ killed /\ ~stop
  /\ killed' = FALSE /\ stop' = TRUE
  /\ UNCHANGED <<sessionVars, main, server, child, grant, handlerVars, ctl, auditVars>>

\* Seeded fault: only the runtime server listens to the message.
StopRuntime(v) ==
  /\ v = "runtime" /\ stop /\ server[v] = "open"
  /\ server' = [server EXCEPT ![v] = "closed"]
  /\ UNCHANGED <<sessionVars, main, killed, stop, child, grant, handlerVars, ctl, auditVars>>

\* a server that stops leaves its handlers running
StopServer(v) ==
  /\ stop /\ server[v] = "open"
  /\ server' = [server EXCEPT ![v] = "closed"]
  /\ UNCHANGED <<sessionVars, main, killed, stop, child, grant, handlerVars, ctl, auditVars>>

\* Seeded fault: the command goes on when the first of its servers is done.
EndSessionEarly ==
  /\ main = "join" /\ \E v \in Servers : server[v] = "closed"
  /\ End
  /\ main' = "ended"
  /\ UNCHANGED <<serverVars, child, grant, handlerVars, ctl, auditVars>>

\* both servers are done: session.json is removed and manager.end() runs
EndSession ==
  /\ main = "join" /\ \A v \in Servers : server[v] = "closed"
  /\ End
  /\ main' = "ended"
  /\ UNCHANGED <<serverVars, child, grant, handlerVars, ctl, auditVars>>

\* the process is gone, with its tasks and its memory
Gone ==
  /\ main' = "exited"
  /\ slot' = NoSession /\ made' = {} /\ timers' = {}
  /\ arcs' = [h \in Holders |-> NoSession]
  /\ pc' = [c \in Clients |-> "off"] /\ req' = [c \in Clients |-> NoRequest]
  /\ ctl' = [a \in Admins |-> IF ctl[a] \in {"lock", "ack"} THEN "broken" ELSE ctl[a]]
  /\ pending' = {}
  /\ UNCHANGED <<now, serverVars, child, grant, asked, told, log, lost>>

\* the vault does not open, or session.json or the audit log cannot be written
FailStart == main \in {"unlock", "start"} /\ Gone

\* SessionEnded is written and the command returns
Exit == main = "ended" /\ Gone
-----------------------------------------------------------------------------
CommandStep == \/ UnlockVault \/ StartSession \/ FailStart
               \/ CreateChild \/ RegisterGrant \/ ResumeChild \/ ChildWaited \/ CloseJob
               \/ KillAfterChild \/ EndSession \/ Exit

Next ==
  /\ main # "exited"
  /\ \/ CommandStep
     \/ ChildExits \/ WaitFails \/ Expire \/ Time \/ PassKill \/ CtrlC
     \/ \E v \in Servers : OpenServer(v) \/ ServerFails(v) \/ StopServer(v)
     \/ \E c \in Clients : Connect(c) \/ Disconnect(c) \/ Receive(c) \/ Handle(c)
     \/ \E r \in pending : AuditWrite(r)
     \/ \E a \in Admins : AdminLock(a) \/ AdminSend(a) \/ AdminAck(a)

Spec == Init /\ [][Next]_vars

\* The runtime schedules every task that can go on and time passes.  Nothing is
\* assumed of the clients, which may never read an answer (Reply and AdminAck are not
\* fair), of the user, or of the child, which may run forever.
FairSpec ==
  /\ Spec
  /\ WF_vars(main # "exited" /\ CommandStep)
  /\ WF_vars(main # "exited" /\ Expire) /\ WF_vars(main # "exited" /\ Time)
  /\ WF_vars(main # "exited" /\ PassKill)
  /\ \A v \in Servers :
       WF_vars(main # "exited" /\ OpenServer(v)) /\ WF_vars(main # "exited" /\ StopServer(v))
  /\ \A c \in Clients : WF_vars(main # "exited" /\ Decide(c))
  /\ \A a \in Admins : WF_vars(main # "exited" /\ AdminSend(a))
-----------------------------------------------------------------------------
(* Properties *)

Answers == {"none", "refused", "denied", "names", "value"}
Requests == [num : 1..MaxRequests, name : Names, live : BOOLEAN, answer : Answers]
Records == [num : 1..MaxRequests, type : {"allowed", "denied"}, name : Secrets]

\* Every variable has its type, and a handler holds the vault exactly while it
\* reads a secret.
BrokerTypeOK ==
  /\ SessionTypeOK
  /\ main \in {"unlock", "start", "launch", "register", "resume", "wait", "abandon",
               "kill", "join", "ended", "exited"}
  /\ server \in [Servers -> {"new", "open", "closed"}]
  /\ killed \in BOOLEAN /\ stop \in BOOLEAN
  /\ child \in {"none", "suspended", "running", "exited"} /\ grant \in BOOLEAN
  /\ pc \in [Clients -> {"off", "wait", "verify", "list", "lookup", "granted", "session",
                         "read", "reply"}]
  /\ req \in [Clients -> Requests \cup {NoRequest}]
  /\ ctl \in [Admins -> {"off", "lock", "ack", "acked", "broken"}]
  /\ pending \subseteq Records /\ log \subseteq Records /\ lost \subseteq Records
  /\ asked \in 0..MaxRequests
  /\ told \subseteq [client : Clients, request : Requests]
  /\ \A c \in Clients : arcs[c] # NoSession <=> pc[c] = "read"

Told(a) == {t \in told : t.request.answer = a}

\* No answer to a request that came after the session was ended or had expired
\* holds a value or a name: the check and the clone of the Arc are under one
\* lock, and a session that has gone never comes back (dispatch).
ServedOnlyWhileActive ==
  \A t \in Told("value") \cup Told("names") : t.request.live

\* The launched process gets no secret but those of its grant, whatever the allow-list
\* would let it read: the grant is there before the child runs and until it has exited,
\* or the wait for it has failed.  Then, until the job is closed and kills it, it is
\* judged as any other client is (spawn_in_job).
ChildServedUnderGrant ==
  [][\A t \in told' \ told :
       t.client = Child /\ t.request.answer = "value" =>
         \/ t.request.name \in GrantSecrets
         \/ main = "abandon" /\ <<Child, t.request.name>> \in Rules]_vars

\* Whoever got a value is in the audit log or will be, unless the write failed;
\* no one is recorded as allowed who was answered otherwise (write_audit).
AuditMatchesAnswers ==
  \A t \in told :
    LET records == {r \in pending \cup log \cup lost : r.num = t.request.num}
    IN /\ (\E r \in records : r.type = "allowed") => t.request.answer = "value"
       /\ t.request.answer = "value" /\ main # "exited" =>
            \E r \in records : r.type = "allowed" /\ r.name = t.request.name

\* A session that has not expired leaves the slot in one way only, at the end of the
\* command and with both its servers closed: whichever of them fails, whatever the child
\* and the handlers do and however often the vault is locked, no server is left to accept
\* clients for a session that has gone (run, SessionManager).
LiveSessionEndsLast ==
  [][Active /\ slot' # slot => main = "join" /\ \A v \in Servers : server[v] = "closed"]_vars

(* The promise this module implements.  A request is permitted from the step that  *)
(* clones the Arc of the vault, or collects the names, under the session's lock.   *)
(* One of a process that has exited is none: there is nobody to tell.              *)

AbstractSession == IF main \in {"unlock", "start"} THEN "none"
                   ELSE IF Active THEN "active" ELSE "over"

\* `run` has not given up the grant of its child, which it may still have to register
GrantStands == /\ Command = "run"
               /\ main \in {"unlock", "start", "launch", "register", "resume", "wait"}

Permitted(c) == At(c, "read") \/ (At(c, "reply") /\ req[c].answer \in {"names", "value"})

AbstractRequest ==
  [c \in Clients |->
     IF \/ pc[c] \in {"off", "wait"} \/ req[c].answer \in {"refused", "denied"}
        \/ ~Alive(c)
       THEN NoRequest
       ELSE [num |-> req[c].num, name |-> req[c].name,
             stage |-> IF Permitted(c) THEN "permitted" ELSE "asked"]]

Disclosure == INSTANCE DisclosureSpec WITH
  Names <- Secrets \cup {All},
  session <- AbstractSession,
  granted <- GrantStands,
  request <- AbstractRequest,
  told <- {[client |-> t.client, num |-> t.request.num, name |-> t.request.name] :
             t \in Told("value") \cup Told("names")}

\* Every value and every list of names that a client gets was permitted in one step
\* between its request and the answer, in which the session was active and the client
\* was entitled to it, the launched process by its grant for as long as that stands and
\* any other by the allow-list; no request is answered twice (handle_client, dispatch).
ImplementsDisclosure == Disclosure!Spec

\* A request that was read has its answer ready to be written, or the process exits,
\* whatever expires, locks or ends the session meanwhile (handle_client, dispatch).
\* That it is then written is the client's to decide: a write has no deadline.
RequestsAreDecided ==
  \A c \in Clients : pc[c] \notin {"off", "wait", "reply"} ~> pc[c] \in {"off", "reply"}

\* Lock ends the process: "Gracefully lock the vault ... zeroizes the session,
\* and exits" (README, `mevault lock`).
LockEnds == \A a \in Admins : ctl[a] # "off" ~> main = "exited"
=============================================================================
