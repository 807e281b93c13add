------------------------------- MODULE Machine -------------------------------
(***************************************************************************)
(* The processes of one machine that meet at the two pipes and at          *)
(* session.json: `mevault unlock` (commands/unlock.rs), `mevault run`,     *)
(* which joins an active session or serves one of its own until its child  *)
(* has exited (commands/run.rs), `mevault lock`, `status` and `list`       *)
(* (commands/), and the programs that ask through the SDK                  *)
(* (mevault-sdk/src/lib.rs).                                               *)
(*                                                                         *)
(* Here the pipes are names that the kernel looks after; what a handler    *)
(* does with a request inside one process is the module Broker.            *)
(***************************************************************************)
EXTENDS Naturals, FiniteSets

CONSTANTS
  Unlockers,  \* processes of `mevault unlock`
  Runners,    \* processes of `mevault run`
  Children,   \* the programs they launch
  LaunchedBy, \* LaunchedBy[c] : the runner that launches c
  Callers,    \* the other processes: lock, status, list and programs with the SDK
  Former,     \* a process that died before and left its session.json
  None

Servers == Unlockers \cup Runners
Clients == Servers \cup Children \cup Callers
Pipes == {"runtime", "control"}

ASSUME MachineAssumption ==
  /\ Unlockers \cap Runners = {} /\ Servers \cap (Children \cup Callers) = {}
  /\ Children \cap Callers = {}
  /\ LaunchedBy \in [Children -> Runners]
  /\ \A c, d \in Children : LaunchedBy[c] = LaunchedBy[d] => c = d
  /\ {None, Former} \cap Clients = {} /\ None # Former

VARIABLES
  main,   \* main[p] : where the command of p stands
  sess,   \* sess[p] : the session slot of p
  pipe,   \* pipe[p][v] : the instance of the pipe v that the server in p listens on
  kill,   \* kill[p] : the servers of p have been told to stop
  child,  \* child[c] : the life of a launched program
  grants, \* grants[p] : the registry of p, by child
  file,   \* session.json : the process it names, or None
  call    \* call[x] : what x asks over a pipe, and what it was told

vars == <<main, sess, pipe, kill, child, grants, file, call>>

NoCall == [op |-> "none", step |-> "idle", to |-> None, told |-> "nothing"]

PipeOf(op) == IF op \in {"lock", "status"} THEN "control" ELSE "runtime"

Init ==
  /\ main = [p \in Servers |-> "new"]
  /\ sess = [p \in Servers |-> "none"]
  /\ pipe = [p \in Servers |-> [v \in Pipes |-> "none"]]
  /\ kill = [p \in Servers |-> FALSE]
  /\ child = [c \in Children |-> "none"]
  /\ grants = [p \in Servers |-> {}]
  /\ file = Former
  /\ call = [x \in Clients |-> NoCall]

\* x has opened an instance that p made, which a handler of p may have by now
Connected(x, p, v) == /\ call[x].step \in {"taken", "handled"}
                      /\ call[x].to = p /\ PipeOf(call[x].op) = v

\* the servers do not wait for their handlers
Holds(p, v) == \/ pipe[p][v] \in {"listen", "taken"}
               \/ \E x \in Clients : Connected(x, p, v)

Calling == {x \in Clients : call[x].step \in {"open", "taken", "handled"}}

Exists(v) == \E p \in Servers : Holds(p, v)
-----------------------------------------------------------------------------
(* A call: open the pipe, write the request, read the answer *)

Ask(x, op) == call' = [call EXCEPT ![x] = [NoCall EXCEPT !.op = op, !.step = "open"]]

Done(c, t) == [c EXCEPT !.step = "done", !.to = None, !.told = t]

Told(x, t) == call' = [call EXCEPT ![x] = Done(@, t)]

\* The instance that is listened on is taken; until the server accepts there is none.
OpenPipe(x) ==
  /\ call[x].step = "open"
  /\ \E p \in Servers :
       /\ pipe[p][PipeOf(call[x].op)] = "listen"
       /\ pipe' = [pipe EXCEPT ![p][PipeOf(call[x].op)] = "taken"]
       /\ call' = [call EXCEPT ![x].step = "taken", ![x].to = p]
  /\ UNCHANGED <<main, sess, kill, child, grants, file>>

NoneListens(v) == \A p \in Servers : pipe[p][v] # "listen"

\* Seeded fault: the SDK waits for an instance without a deadline.
OpenFailsUnlessBusy(x) ==
  /\ call[x].step = "open" /\ NoneListens(PipeOf(call[x].op))
  /\ call[x].op = "get" => ~Exists(PipeOf(call[x].op))
  /\ Told(x, "error")
  /\ UNCHANGED <<main, sess, pipe, kill, child, grants, file>>

\* The pipe does not exist, or each of its instances is taken: send_control and
\* try_ipc_list give up; the SDK tries again when it is busy, for five seconds, which
\* may pass before this step or in it.
OpenFails(x) ==
  /\ call[x].step = "open" /\ NoneListens(PipeOf(call[x].op))
  /\ Told(x, "error")
  /\ UNCHANGED <<main, sess, pipe, kill, child, grants, file>>

\* the answer of handle_control_client and of dispatch
Answer(x, t) ==
  /\ Told(x, t)
  /\ UNCHANGED <<main, sess, pipe, child, grants, file>>

AnswerStatus(x) ==
  /\ call[x].step = "handled" /\ call[x].op = "status"
  /\ Answer(x, IF sess[call[x].to] = "active" THEN "active" ELSE "inactive")
  /\ UNCHANGED kill

AnswerLock(x) ==
  /\ call[x].step = "handled" /\ call[x].op = "lock"
  /\ kill' = [kill EXCEPT ![call[x].to] = TRUE]
  /\ Answer(x, "ok")

\* a launched program is judged by its grant where that is, and else by the allow-list
AnswerGet(x) ==
  /\ call[x].step = "handled" /\ call[x].op = "get"
  /\ \/ sess[call[x].to] # "active" /\ Answer(x, "refused")
     \/ /\ sess[call[x].to] = "active"
        /\ Answer(x, IF x \in grants[call[x].to] THEN "by grant" ELSE "by list")
  /\ UNCHANGED kill

\* the handler returns without an answer, or a client that stays goes at last
HandlerEnds(x) == /\ call[x].step = "handled"
                  /\ Answer(x, "error") /\ UNCHANGED kill
-----------------------------------------------------------------------------
(* run_pipe_server and run_control_server *)

\* Seeded fault: the pipe is not asked to be the first instance of its name.
BindAny(p, v) ==
  /\ main[p] \in {"serve", "launched", "abandoning", "closing"} /\ pipe[p][v] = "none"
  /\ pipe' = [pipe EXCEPT ![p][v] = "listen"]
  /\ UNCHANGED <<main, sess, kill, child, grants, file, call>>

\* first_pipe_instance(true): an error if there is an instance of the name anywhere
Bind(p, v) ==
  /\ main[p] \in {"serve", "launched", "abandoning", "closing"} /\ pipe[p][v] = "none"
  /\ pipe' = [pipe EXCEPT ![p][v] = IF Exists(v) THEN "closed" ELSE "listen"]
  /\ UNCHANGED <<main, sess, kill, child, grants, file, call>>

\* the client whose connection waits to be accepted
Waiting(p, v) == {x \in Clients : Connected(x, p, v) /\ call[x].step = "taken"}

\* Seeded fault: an instance is not closed with the one who has it.
DropNone(S) == UNCHANGED call

\* those whose instance is closed read the end of the file
Drop(S) == call' = [x \in Clients |-> IF x \in S THEN Done(call[x], "error") ELSE call[x]]

\* the next instance is made before the connection goes to its handler
Accept(p, v) ==
  /\ pipe[p][v] = "taken"
  /\ pipe' = [pipe EXCEPT ![p][v] = "listen"]
  /\ call' = [x \in Clients |-> IF x \in Waiting(p, v) THEN [call[x] EXCEPT !.step = "handled"]
                                 ELSE call[x]]
  /\ UNCHANGED <<main, sess, kill, child, grants, file>>

\* the server is told to stop, or an error of connect or of the next instance ends it
CloseServer(p, v) ==
  /\ pipe[p][v] \in {"listen", "taken"}
  /\ pipe' = [pipe EXCEPT ![p][v] = "closed"]
  /\ Drop(Waiting(p, v))
  /\ UNCHANGED <<main, sess, kill, child, grants, file>>

Stop(p, v) == kill[p] /\ CloseServer(p, v)
ServerFails(p, v) == ~kill[p] /\ CloseServer(p, v)

Closed(p) == \A v \in Pipes : pipe[p][v] = "closed"
-----------------------------------------------------------------------------
(* The commands that serve *)

Go(p, next) == main' = [main EXCEPT ![p] = next]

\* is_vault_active
Check(p) ==
  /\ main[p] = "new"
  /\ Go(p, "check") /\ Ask(p, "status")
  /\ UNCHANGED <<sess, pipe, kill, child, grants, file>>

\* run --inject-env does not ask: it has to open the vault itself
InjectEnv(p) ==
  /\ p \in Runners /\ main[p] = "new"
  /\ Go(p, "password")
  /\ UNCHANGED <<sess, pipe, kill, child, grants, file, call>>

\* unlock refuses, run joins; else both go on to ask for the password
Checked(p) ==
  /\ main[p] = "check" /\ call[p].step = "done"
  /\ Go(p, CASE call[p].told # "active" -> "password"
             [] call[p].told = "active" /\ p \in Unlockers -> "ended"
             [] OTHER -> "join")
  /\ call' = [call EXCEPT ![p] = NoCall]
  /\ UNCHANGED <<sess, pipe, kill, child, grants, file>>

\* the session starts; unlock writes session.json
StartSession(p) ==
  /\ main[p] = "password"
  /\ Go(p, "serve")
  /\ sess' = [sess EXCEPT ![p] = "active"]
  /\ file' = IF p \in Unlockers THEN p ELSE file
  /\ UNCHANGED <<pipe, kill, child, grants, call>>

\* Seeded fault: the child runs without its grant.
LaunchUngranted(c) ==
  LET p == LaunchedBy[c] IN
  /\ main[p] \in {"join", "serve"}
  /\ Go(p, IF main[p] = "join" THEN "joined" ELSE "launched")
  /\ child' = [child EXCEPT ![c] = "running"]
  /\ UNCHANGED <<sess, pipe, kill, grants, file, call>>

\* spawn_in_job: of a run that joins, the grant is in its own process too; a run
\* that serves gives its servers a moment to bind and does not look whether they have
Launch(c) ==
  LET p == LaunchedBy[c] IN
  /\ main[p] \in {"join", "serve"}
  /\ Go(p, IF main[p] = "join" THEN "joined" ELSE "launched")
  /\ child' = [child EXCEPT ![c] = "running"]
  /\ grants' = [grants EXCEPT ![p] = @ \cup {c}]
  /\ UNCHANGED <<sess, pipe, kill, file, call>>

\* What has opened the pipe is with the server: its handler finds out that the client
\* has gone when it writes the answer.
Opening == {x \in Clients : call[x].step = "open"}

Dies(c) ==
  /\ child' = [child EXCEPT ![c] = "exited"]
  /\ call' = [call EXCEPT ![c] = IF c \in Calling \ Opening THEN @ ELSE NoCall]

ChildExits(c) ==
  /\ child[c] = "running"
  /\ Dies(c)
  /\ UNCHANGED <<main, sess, pipe, kill, grants, file>>

\* the grant is revoked; run shuts its servers down
ChildWaited(c) ==
  LET p == LaunchedBy[c] IN
  /\ main[p] \in {"joined", "launched"} /\ child[c] = "exited"
  /\ grants' = [grants EXCEPT ![p] = @ \ {c}]
  /\ kill' = [kill EXCEPT ![p] = TRUE]
  /\ Go(p, IF main[p] = "joined" THEN "ending" ELSE "closing")
  /\ UNCHANGED <<sess, pipe, child, file, call>>

\* the wait fails, or the task that waits does: grant_guard is dropped, and with it the
\* grant of a child that may be running
WaitFails(c) ==
  LET p == LaunchedBy[c] IN
  /\ main[p] \in {"joined", "launched"}
  /\ grants' = [grants EXCEPT ![p] = @ \ {c}]
  /\ Go(p, IF main[p] = "joined" THEN "leaving" ELSE "abandoning")
  /\ UNCHANGED <<sess, pipe, kill, child, file, call>>

\* then _job_guard is, and the kernel kills the child
CloseJob(c) ==
  LET p == LaunchedBy[c] IN
  /\ main[p] \in {"leaving", "abandoning"}
  /\ Dies(c)
  /\ kill' = [kill EXCEPT ![p] = TRUE]
  /\ Go(p, IF main[p] = "leaving" THEN "ending" ELSE "closing")
  /\ UNCHANGED <<sess, pipe, grants, file>>

CtrlC(p) ==
  /\ p \in Unlockers /\ main[p] = "serve" /\ ~kill[p]
  /\ kill' = [kill EXCEPT ![p] = TRUE]
  /\ UNCHANGED <<main, sess, pipe, child, grants, file, call>>

\* Seeded fault: an error of a server returns before the file is removed.
EndSessionOnly(p) ==
  /\ main[p] = (IF p \in Unlockers THEN "serve" ELSE "closing") /\ Closed(p)
  /\ sess' = [sess EXCEPT ![p] = "none"]
  /\ file' = IF p \in Unlockers /\ kill[p] THEN None ELSE file
  /\ Go(p, "ending")
  /\ UNCHANGED <<pipe, kill, child, grants, call>>

\* both servers have returned: unlock removes session.json, whoever wrote it last
EndSession(p) ==
  /\ main[p] = (IF p \in Unlockers THEN "serve" ELSE "closing") /\ Closed(p)
  /\ sess' = [sess EXCEPT ![p] = "none"]
  /\ file' = IF p \in Unlockers THEN None ELSE file
  /\ Go(p, "ending")
  /\ UNCHANGED <<pipe, kill, child, grants, call>>

\* the process goes, with the handlers that are left
Gone(p, how) ==
  /\ Go(p, how)
  /\ pipe' = [pipe EXCEPT ![p] = [v \in Pipes |-> "closed"]]
  /\ sess' = [sess EXCEPT ![p] = "none"]
  /\ grants' = [grants EXCEPT ![p] = {}]
  /\ kill' = [kill EXCEPT ![p] = FALSE]
  /\ LET own == {c \in Children : LaunchedBy[c] = p}
     IN /\ Drop((Opening \cap ({p} \cup own)) \cup {x \in Calling : call[x].to = p})
        /\ child' = [c \in Children |-> IF c \in own /\ child[c] = "running" THEN "exited"
                                        ELSE child[c]]
  /\ UNCHANGED file

Exit(p) == main[p] = "ending" /\ Gone(p, "ended")

\* an error, or the death of the process, whose job takes the child with it
Crash(p) == main[p] \notin {"new", "ended", "crashed"} /\ Gone(p, "crashed")

Expire(p) ==
  /\ sess[p] = "active"
  /\ sess' = [sess EXCEPT ![p] = "expired"]
  /\ UNCHANGED <<main, pipe, kill, child, grants, file, call>>
-----------------------------------------------------------------------------
(* The other processes *)

\* lock, status, a program that gets a secret, or one that stays connected; list asks
\* like such a program, once, and then for the password
CallerAsks(x) ==
  /\ call[x].step = "idle"
  /\ \E op \in {"lock", "status", "get", "stay"} : Ask(x, op)
  /\ UNCHANGED <<main, sess, pipe, kill, child, grants, file>>

ChildAsks(c) ==
  /\ child[c] = "running" /\ call[c].step \in {"idle", "done"}
  /\ Ask(c, "get")
  /\ UNCHANGED <<main, sess, pipe, kill, child, grants, file>>

\* status takes every answer but "active", and every error, for a vault that is locked
StatusCleansUp(x) ==
  /\ call[x].step = "done" /\ call[x].op = "status" /\ call[x].told # "active"
  /\ file' = None
  /\ call' = [call EXCEPT ![x].told = "cleaned"]
  /\ UNCHANGED <<main, sess, pipe, kill, child, grants>>
-----------------------------------------------------------------------------
Next ==
  \/ \E p \in Servers :
       \/ Check(p) \/ InjectEnv(p) \/ Checked(p) \/ StartSession(p) \/ CtrlC(p)
       \/ EndSession(p) \/ Exit(p) \/ Crash(p) \/ Expire(p)
       \/ \E v \in Pipes : Bind(p, v) \/ Accept(p, v) \/ Stop(p, v) \/ ServerFails(p, v)
  \/ \E c \in Children : \/ Launch(c) \/ ChildExits(c) \/ ChildWaited(c) \/ ChildAsks(c)
                         \/ WaitFails(c) \/ CloseJob(c)
  \/ \E x \in Callers : CallerAsks(x) \/ StatusCleansUp(x)
  \/ \E x \in Clients :
       \/ OpenPipe(x) \/ OpenFails(x) \/ AnswerStatus(x) \/ AnswerLock(x) \/ AnswerGet(x)
       \/ HandlerEnds(x)

\* A caller goes on, and the runtime runs the tasks of a server; nobody has to ask, to
\* type a password, to exit or to let a connection go.
Fairness ==
  /\ \A x \in Callers : WF_vars(\/ OpenPipe(x) \/ OpenFails(x)
                                \/ AnswerStatus(x) \/ AnswerLock(x) \/ AnswerGet(x))
  /\ \A p \in Servers, v \in Pipes : WF_vars(Accept(p, v) \/ Stop(p, v))

Spec == Init /\ [][Next]_vars /\ Fairness
-----------------------------------------------------------------------------
(* Properties *)

\* Every variable has its type; a process that has gone has nothing left.
MachineTypeOK ==
  /\ main \in [Servers -> {"new", "check", "password", "serve", "join", "joined", "leaving",
                           "launched", "abandoning", "closing", "ending", "ended", "crashed"}]
  /\ sess \in [Servers -> {"none", "active", "expired"}]
  /\ pipe \in [Servers -> [Pipes -> {"none", "listen", "taken", "closed"}]]
  /\ kill \in [Servers -> BOOLEAN]
  /\ child \in [Children -> {"none", "running", "exited"}]
  /\ grants \in [Servers -> SUBSET Children]
  /\ file \in Unlockers \cup {None, Former}
  /\ \A x \in Clients : /\ call[x].step \in {"idle", "open", "taken", "handled", "done"}
                        /\ call[x].to \in Servers \cup {None}
                        /\ call[x].step \in {"taken", "handled"} => call[x].to # None
  /\ \A p \in Servers, v \in Pipes : main[p] \in {"ended", "crashed"} => ~Holds(p, v)

\* No pipe is served by two processes, the handlers that nobody waits for included:
\* however many commands found no active session (a pipe that is busy reads as none),
\* the programs of the machine ask one process (ipc/mod.rs, first_pipe_instance).
OneServesEachPipe ==
  \A v \in Pipes, p, q \in Servers : Holds(p, v) /\ Holds(q, v) => p = q

\* session.json names no process that has ended in order, though any unlock that
\* ends and any status that meets a busy pipe removes it, and others write it.
FileNamesNoneThatEnded == \A p \in Unlockers : file = p => main[p] # "ended"

\* Who has opened a pipe is not forgotten by it: each connection that is not with a
\* handler yet has its instance, whose server will accept it or close it, and each
\* instance that is taken has one such connection, whichever server stops, process dies
\* or client goes meanwhile (run_pipe_server, run_control_server_on).
NoConnectionForgotten ==
  /\ \A x \in Clients :
       call[x].step = "taken" => pipe[call[x].to][PipeOf(call[x].op)] = "taken"
  /\ \A p \in Servers, v \in Pipes :
       pipe[p][v] = "taken" => \E x \in Clients : Waiting(p, v) = {x}

\* A launched program is judged by the grant of run if run serves it itself, as long as
\* the program lives and the wait for it has not failed, and by the allow-list if another
\* process does: the registry is "process-global" (grants/mod.rs:82), the grants of a run
\* that joined too.  After a failed wait it is judged by the allow-list everywhere, until
\* the job is closed and kills it.
JudgedNow(c) == child[c] = "running" /\ call'[c] # call[c] /\ call'[c].told \in {"by grant", "by list"}

GrantsStayHome ==
  [][\A c \in Children :
       JudgedNow(c) =>
         (call'[c].told = "by grant" <=> /\ call[c].to = LaunchedBy[c]
                                         /\ main[LaunchedBy[c]] # "abandoning")]_vars

\* Every call of lock, status and list and of a program with the SDK returns, also when
\* the pipe has no instance that is listened on, when its server stops and when the
\* process dies; only a client that stays decides itself (sdk, open_pipe; ipc/mod.rs,
\* send_control).
CallsReturn ==
  \A x \in Callers : x \in Calling /\ call[x].op # "stay" ~> x \notin Calling
=============================================================================
