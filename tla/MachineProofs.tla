---------------------------- MODULE MachineProofs ----------------------------
(***************************************************************************)
(* Proofs about Machine, for any number of unlocks, runs with their        *)
(* children, and other clients.                                            *)
(***************************************************************************)
EXTENDS Machine, TLAPS

Ops == {"none", "lock", "status", "get", "stay"}
Answers == {"nothing", "error", "ok", "active", "inactive", "refused", "by grant", "by list",
            "cleaned"}

Types ==
  /\ main \in [Servers -> {"new", "check", "password", "serve", "join", "joined", "leaving",
                           "launched", "abandoning", "closing", "ending", "ended", "crashed"}]
  /\ sess \in [Servers -> {"none", "active", "expired"}]
  /\ pipe \in [Servers -> [Pipes -> {"none", "listen", "taken", "closed"}]]
  /\ kill \in [Servers -> BOOLEAN]
  /\ child \in [Children -> {"none", "running", "exited"}]
  /\ grants \in [Servers -> SUBSET Children]
  /\ file \in Unlockers \cup {None, Former}

\* A call that waits for its answer has none yet, and one that is connected is so
\* with a server.
Calls == {c \in [op : Ops, step : {"idle", "open", "taken", "handled", "done"},
                 to : Servers \cup {None}, told : Answers] :
            /\ c.step \in {"open", "taken", "handled"} => c.told = "nothing"
            /\ c.step \in {"taken", "handled"} => c.to # None}

CallInv == call \in [Clients -> Calls]

Busy == {"serve", "launched", "abandoning", "closing", "ending"}

\* A process has pipes only while it serves and until it has gone.
QuietInv ==
  \A p \in Servers, v \in Pipes :
    Holds(p, v) => main[p] \in Busy

\* The file names an unlock that serves, or one that died: the file is removed before
\* the process ends.
FileInv == \A p \in Unlockers : file = p => main[p] \in {"serve", "crashed"}

\* The wait for c has failed, and its job is open still.
LeftAlone(c) == main[LaunchedBy[c]] \in {"leaving", "abandoning"}

\* The grant of a child is in the registry of its run and nowhere else, while the child
\* runs and until the wait for it fails.
GrantInv == \A c \in Children :
  /\ \A p \in Servers : c \in grants[p] => p = LaunchedBy[c]
  /\ child[c] = "running" => c \in grants[LaunchedBy[c]] \/ LeftAlone(c)
  /\ LeftAlone(c) => c \notin grants[LaunchedBy[c]]

MachineInv == Types /\ CallInv /\ QuietInv /\ OneServesEachPipe /\ FileInv /\ GrantInv
-----------------------------------------------------------------------------
(* The calls *)

\* What the actions make of a call is a call.
LEMMA CallParts ==
  /\ NoCall \in Calls
  /\ \A c \in Calls, t \in Answers : Done(c, t) \in Calls
  /\ \A c \in Calls, t \in Answers : Done(c, t).step = "done" /\ Done(c, t).told = t
  /\ \A op \in Ops : [NoCall EXCEPT !.op = op, !.step = "open"] \in Calls
  /\ \A c \in Calls, p \in Servers :
       c.step = "open" => [c EXCEPT !.step = "taken", !.to = p] \in Calls
  /\ \A c \in Calls, p \in Servers : [c EXCEPT !.step = "taken", !.to = p].told = c.told
  /\ \A c \in Calls : c.step = "taken" => [c EXCEPT !.step = "handled"] \in Calls
  /\ \A c \in Calls : c.step = "done" => [c EXCEPT !.told = "cleaned"] \in Calls
BY MachineAssumption DEF Calls, NoCall, Done, Ops, Answers, Servers, Clients

\* A call that is answered or cut off is done, the others go on.
LEMMA DropEnds ==
  ASSUME CallInv, NEW S, Drop(S)
  PROVE  \A y \in Clients :
           call'[y] = call[y] \/ (call'[y].step = "done" /\ call'[y].told = "error")
<1>1. "error" \in Answers
  BY DEF Answers
<1>2. ASSUME NEW y \in Clients
      PROVE  call'[y] = call[y] \/ (call'[y].step = "done" /\ call'[y].told = "error")
  <2>1. call[y] \in Calls
    BY DEF CallInv
  <2>2. Done(call[y], "error").step = "done" /\ Done(call[y], "error").told = "error"
    BY <1>1, <2>1, CallParts
  <2>3. call'[y] = call[y] \/ call'[y] = Done(call[y], "error")
    BY DEF Drop
  <2>. QED BY <2>2, <2>3
<1>. QED BY <1>2

LEMMA ToldEnds ==
  ASSUME CallInv, NEW x \in Clients, NEW t \in Answers, Told(x, t)
  PROVE  /\ \A y \in Clients : y # x => call'[y] = call[y]
         /\ call'[x].step = "done" /\ call'[x].told = t
BY CallParts DEF CallInv, Told

LEMMA OpeningTellsNothing ==
  ASSUME CallInv, NEW x \in Clients, OpenPipe(x)
  PROVE  \A y \in Clients : call'[y].told = call[y].told
<1>1. PICK p \in Servers :
        call' = [call EXCEPT ![x] = [call[x] EXCEPT !.step = "taken", !.to = p]]
  BY DEF OpenPipe
<1>2. call[x] \in Calls
  BY DEF CallInv
<1>3. [call[x] EXCEPT !.step = "taken", !.to = p].told = call[x].told
  BY <1>2, CallParts
<1>4. call'[x] = [call[x] EXCEPT !.step = "taken", !.to = p]
  BY <1>1 DEF CallInv
<1>5. \A y \in Clients : y # x => call'[y] = call[y]
  BY <1>1 DEF CallInv
<1>. QED BY <1>3, <1>4, <1>5

\* No one comes to have an instance of a pipe.
NoneComes == \A q \in Servers, w \in Pipes : Holds(q, w)' => Holds(q, w)

\* No command that serves leaves off.
NoneLeaves == \A q \in Servers : main[q] \in Busy => main'[q] \in Busy

\* The calls stay calls.
LEMMA CallKeeps ==
  ASSUME MachineInv, [Next]_vars
  PROVE  CallInv'
<1>. USE MachineAssumption DEF MachineInv, CallInv, Servers, Clients
<1>0. ASSUME NEW p \in Servers, InjectEnv(p) PROVE CallInv'
  BY <1>0 DEF InjectEnv, Go
<1>1. ASSUME NEW p \in Servers, Check(p) PROVE CallInv'
  BY <1>1, CallParts DEF Check, Ask, Go, Ops, Answers
<1>2. ASSUME NEW p \in Servers, Checked(p) PROVE CallInv'
  BY <1>2, CallParts DEF Checked, Go, Ops, Answers
<1>3. ASSUME NEW p \in Servers, StartSession(p) PROVE CallInv'
  BY <1>3 DEF StartSession, Go
<1>4. ASSUME NEW p \in Servers, CtrlC(p) PROVE CallInv'
  BY <1>4 DEF CtrlC
<1>5. ASSUME NEW p \in Servers, EndSession(p) PROVE CallInv'
  BY <1>5 DEF EndSession, Go
<1>6. ASSUME NEW p \in Servers, Exit(p) PROVE CallInv'
  BY <1>6, CallParts DEF Exit, Gone, Drop, Answers
<1>7. ASSUME NEW p \in Servers, Crash(p) PROVE CallInv'
  BY <1>7, CallParts DEF Crash, Gone, Drop, Answers
<1>8. ASSUME NEW p \in Servers, Expire(p) PROVE CallInv'
  BY <1>8 DEF Expire
<1>9. ASSUME NEW p \in Servers, NEW v \in Pipes, Bind(p, v) PROVE CallInv'
  BY <1>9 DEF Bind
<1>10. ASSUME NEW p \in Servers, NEW v \in Pipes, Accept(p, v) PROVE CallInv'
  BY <1>10, CallParts DEF Accept, Waiting, Connected
<1>11. ASSUME NEW p \in Servers, NEW v \in Pipes, Stop(p, v) PROVE CallInv'
  BY <1>11, CallParts DEF Stop, CloseServer, Drop, Answers
<1>12. ASSUME NEW p \in Servers, NEW v \in Pipes, ServerFails(p, v) PROVE CallInv'
  BY <1>12, CallParts DEF ServerFails, CloseServer, Drop, Answers
<1>13. ASSUME NEW c \in Children, Launch(c) PROVE CallInv'
  BY <1>13 DEF Launch, Go
<1>14. ASSUME NEW c \in Children, ChildExits(c) PROVE CallInv'
  BY <1>14, CallParts DEF ChildExits, Dies, Ops, Answers
<1>15. ASSUME NEW c \in Children, ChildWaited(c) PROVE CallInv'
  BY <1>15 DEF ChildWaited, Go
<1>16. ASSUME NEW c \in Children, ChildAsks(c) PROVE CallInv'
  BY <1>16, CallParts DEF ChildAsks, Ask, Ops, Answers
<1>17. ASSUME NEW x \in Callers, CallerAsks(x) PROVE CallInv'
  <2>1. PICK op \in Ops : Ask(x, op)
    BY <1>17 DEF CallerAsks, Ops
  <2>. QED BY <2>1, CallParts DEF Ask
<1>18. ASSUME NEW x \in Callers, StatusCleansUp(x) PROVE CallInv'
  BY <1>18, CallParts DEF StatusCleansUp, Ops, Answers
<1>19. ASSUME NEW x \in Clients, OpenPipe(x) PROVE CallInv'
  <2>1. PICK p \in Servers :
          call' = [call EXCEPT ![x] = [call[x] EXCEPT !.step = "taken", !.to = p]]
    BY <1>19 DEF OpenPipe
  <2>2. call[x].step = "open"
    BY <1>19 DEF OpenPipe
  <2>3. [call[x] EXCEPT !.step = "taken", !.to = p] \in Calls
    BY <2>2, CallParts
  <2>. QED BY <2>1, <2>3
<1>20. ASSUME NEW x \in Clients, OpenFails(x) PROVE CallInv'
  BY <1>20, CallParts DEF OpenFails, Told, Ops, Answers
<1>21. ASSUME NEW x \in Clients, AnswerStatus(x) PROVE CallInv'
  BY <1>21, CallParts DEF AnswerStatus, Answer, Told, Ops, Answers
<1>22. ASSUME NEW x \in Clients, AnswerLock(x) PROVE CallInv'
  BY <1>22, CallParts DEF AnswerLock, Answer, Told, Ops, Answers
<1>23. ASSUME NEW x \in Clients, AnswerGet(x) PROVE CallInv'
  <2>1. PICK t \in Answers : Told(x, t)
    BY <1>23 DEF AnswerGet, Answer, Answers
  <2>. QED BY <2>1, CallParts DEF Told
<1>24. ASSUME NEW x \in Clients, HandlerEnds(x) PROVE CallInv'
  BY <1>24, CallParts DEF HandlerEnds, Answer, Told, Ops, Answers
<1>26. ASSUME NEW c \in Children, WaitFails(c) PROVE CallInv'
  BY <1>26 DEF WaitFails, Go
<1>27. ASSUME NEW c \in Children, CloseJob(c) PROVE CallInv'
  BY <1>27, CallParts DEF CloseJob, Dies, Ops, Answers, Go
<1>25. CASE UNCHANGED vars
  BY <1>25 DEF vars
<1>. QED BY <1>0, <1>1, <1>2, <1>3, <1>4, <1>5, <1>6, <1>7, <1>8, <1>9, <1>10, <1>11, <1>12,
  <1>13, <1>14, <1>15, <1>16, <1>17, <1>18, <1>19, <1>20, <1>21, <1>22, <1>23, <1>24,
  <1>25, <1>26, <1>27 DEF Next

\* The other variables keep their types.
LEMMA TypesKeep ==
  ASSUME MachineInv, [Next]_vars
  PROVE  Types'
<1>. USE MachineAssumption DEF MachineInv, Types, Servers
<1>0. ASSUME NEW p \in Servers, InjectEnv(p) PROVE Types'
  BY <1>0 DEF InjectEnv, Go
<1>1. ASSUME NEW p \in Servers, Check(p) PROVE Types'
  BY <1>1 DEF Check, Ask, Go
<1>2. ASSUME NEW p \in Servers, Checked(p) PROVE Types'
  BY <1>2 DEF Checked, Go
<1>3. ASSUME NEW p \in Servers, StartSession(p) PROVE Types'
  BY <1>3 DEF StartSession, Go
<1>4. ASSUME NEW p \in Servers, CtrlC(p) PROVE Types'
  BY <1>4 DEF CtrlC
<1>5. ASSUME NEW p \in Servers, EndSession(p) PROVE Types'
  BY <1>5 DEF EndSession, Go
<1>6. ASSUME NEW p \in Servers, Exit(p) PROVE Types'
  BY <1>6 DEF Exit, Gone, Go
<1>7. ASSUME NEW p \in Servers, Crash(p) PROVE Types'
  BY <1>7 DEF Crash, Gone, Go
<1>8. ASSUME NEW p \in Servers, Expire(p) PROVE Types'
  BY <1>8 DEF Expire
<1>9. ASSUME NEW p \in Servers, NEW v \in Pipes, Bind(p, v) PROVE Types'
  BY <1>9 DEF Bind
<1>10. ASSUME NEW p \in Servers, NEW v \in Pipes, Accept(p, v) PROVE Types'
  BY <1>10 DEF Accept
<1>11. ASSUME NEW p \in Servers, NEW v \in Pipes, Stop(p, v) PROVE Types'
  BY <1>11 DEF Stop, CloseServer, Drop
<1>12. ASSUME NEW p \in Servers, NEW v \in Pipes, ServerFails(p, v) PROVE Types'
  BY <1>12 DEF ServerFails, CloseServer, Drop
<1>13. ASSUME NEW c \in Children, Launch(c) PROVE Types'
  BY <1>13 DEF Launch, Go
<1>14. ASSUME NEW c \in Children, ChildExits(c) PROVE Types'
  BY <1>14 DEF ChildExits, Dies
<1>15. ASSUME NEW c \in Children, ChildWaited(c) PROVE Types'
  BY <1>15 DEF ChildWaited, Go
<1>16. ASSUME NEW c \in Children, ChildAsks(c) PROVE Types'
  BY <1>16 DEF ChildAsks, Ask
<1>17. ASSUME NEW x \in Callers, CallerAsks(x) PROVE Types'
  BY <1>17 DEF CallerAsks, Ask
<1>18. ASSUME NEW x \in Callers, StatusCleansUp(x) PROVE Types'
  BY <1>18 DEF StatusCleansUp
<1>19. ASSUME NEW x \in Clients, OpenPipe(x) PROVE Types'
  <2>1. PICK p \in Servers, v \in Pipes : pipe' = [pipe EXCEPT ![p][v] = "taken"]
    BY <1>19 DEF OpenPipe, PipeOf, Pipes
  <2>. QED BY <1>19, <2>1 DEF OpenPipe
<1>20. ASSUME NEW x \in Clients, OpenFails(x) PROVE Types'
  BY <1>20 DEF OpenFails, Told
<1>21. ASSUME NEW x \in Clients, AnswerStatus(x) PROVE Types'
  BY <1>21 DEF AnswerStatus, Answer, Told
<1>22. ASSUME NEW x \in Clients, AnswerLock(x) PROVE Types'
  BY <1>22 DEF AnswerLock, Answer, Told
<1>23. ASSUME NEW x \in Clients, AnswerGet(x) PROVE Types'
  BY <1>23 DEF AnswerGet, Answer, Told
<1>24. ASSUME NEW x \in Clients, HandlerEnds(x) PROVE Types'
  BY <1>24 DEF HandlerEnds, Answer, Told
<1>26. ASSUME NEW c \in Children, WaitFails(c) PROVE Types'
  BY <1>26 DEF WaitFails, Go
<1>27. ASSUME NEW c \in Children, CloseJob(c) PROVE Types'
  BY <1>27 DEF CloseJob, Dies, Go
<1>25. CASE UNCHANGED vars
  BY <1>25 DEF vars
<1>. QED BY <1>0, <1>1, <1>2, <1>3, <1>4, <1>5, <1>6, <1>7, <1>8, <1>9, <1>10, <1>11, <1>12,
  <1>13, <1>14, <1>15, <1>16, <1>17, <1>18, <1>19, <1>20, <1>21, <1>22, <1>23, <1>24,
  <1>25, <1>26, <1>27 DEF Next

\* But for the one who binds, nobody comes to have an instance of a pipe.
LEMMA HoldsShrinks ==
  ASSUME MachineInv, [Next]_vars, \A b \in Servers, w \in Pipes : ~Bind(b, w)
  PROVE  NoneComes
<1>. USE MachineAssumption
       DEF MachineInv, Types, CallInv, Calls, NoneComes, Holds, Connected, PipeOf, Servers, Clients
<1>0. ASSUME NEW p \in Servers, InjectEnv(p) PROVE NoneComes
  BY <1>0 DEF InjectEnv, Go
<1>1. ASSUME NEW p \in Servers, Check(p) PROVE NoneComes
  BY <1>1 DEF Check, Ask, Go, NoCall
<1>2. ASSUME NEW p \in Servers, Checked(p) PROVE NoneComes
  BY <1>2 DEF Checked, Go, NoCall
<1>3. ASSUME NEW p \in Servers, StartSession(p) PROVE NoneComes
  BY <1>3 DEF StartSession, Go
<1>4. ASSUME NEW p \in Servers, CtrlC(p) PROVE NoneComes
  BY <1>4 DEF CtrlC
<1>5. ASSUME NEW p \in Servers, EndSession(p) PROVE NoneComes
  BY <1>5 DEF EndSession, Go
<1>6. ASSUME NEW p \in Servers, Exit(p) PROVE NoneComes
  <2>1. \A q \in Servers, w \in Pipes :
          pipe'[q][w] \in {"listen", "taken"} => pipe[q][w] \in {"listen", "taken"}
    BY <1>6 DEF Exit, Gone
  <2>2. \A y \in Clients : call'[y] = call[y] \/ call'[y].step = "done"
    BY <1>6, DropEnds DEF Exit, Gone
  <2>. QED BY <2>1, <2>2
<1>7. ASSUME NEW p \in Servers, Crash(p) PROVE NoneComes
  <2>1. \A q \in Servers, w \in Pipes :
          pipe'[q][w] \in {"listen", "taken"} => pipe[q][w] \in {"listen", "taken"}
    BY <1>7 DEF Crash, Gone
  <2>2. \A y \in Clients : call'[y] = call[y] \/ call'[y].step = "done"
    BY <1>7, DropEnds DEF Crash, Gone
  <2>. QED BY <2>1, <2>2
<1>8. ASSUME NEW p \in Servers, Expire(p) PROVE NoneComes
  BY <1>8 DEF Expire
<1>9. ASSUME NEW p \in Servers, NEW v \in Pipes, Accept(p, v) PROVE NoneComes
  <2>1. \A q \in Servers, w \in Pipes :
          pipe'[q][w] \in {"listen", "taken"} => pipe[q][w] \in {"listen", "taken"}
    BY <1>9 DEF Accept
  <2>2. \A y \in Clients : \/ call'[y] = call[y]
                            \/ /\ call[y].step = "taken" /\ call'[y].to = call[y].to
                               /\ call'[y].op = call[y].op
    BY <1>9 DEF Accept, Waiting
  <2>3. \A y \in Clients, q \in Servers, w \in Pipes : Connected(y, q, w)' => Connected(y, q, w)
    BY <2>2
  <2>. QED BY <2>1, <2>3
<1>10. ASSUME NEW p \in Servers, NEW v \in Pipes, Stop(p, v) PROVE NoneComes
  <2>1. \A q \in Servers, w \in Pipes :
          pipe'[q][w] \in {"listen", "taken"} => pipe[q][w] \in {"listen", "taken"}
    BY <1>10 DEF Stop, CloseServer
  <2>2. \A y \in Clients : call'[y] = call[y] \/ call'[y].step = "done"
    BY <1>10, DropEnds DEF Stop, CloseServer
  <2>. QED BY <2>1, <2>2
<1>11. ASSUME NEW p \in Servers, NEW v \in Pipes, ServerFails(p, v) PROVE NoneComes
  <2>1. \A q \in Servers, w \in Pipes :
          pipe'[q][w] \in {"listen", "taken"} => pipe[q][w] \in {"listen", "taken"}
    BY <1>11 DEF ServerFails, CloseServer
  <2>2. \A y \in Clients : call'[y] = call[y] \/ call'[y].step = "done"
    BY <1>11, DropEnds DEF ServerFails, CloseServer
  <2>. QED BY <2>1, <2>2
<1>12. ASSUME NEW c \in Children, Launch(c) PROVE NoneComes
  BY <1>12 DEF Launch, Go
<1>13. ASSUME NEW c \in Children, ChildExits(c) PROVE NoneComes
  BY <1>13 DEF ChildExits, Dies, NoCall, Calling, Opening
<1>14. ASSUME NEW c \in Children, ChildWaited(c) PROVE NoneComes
  BY <1>14 DEF ChildWaited, Go
<1>15. ASSUME NEW c \in Children, ChildAsks(c) PROVE NoneComes
  BY <1>15 DEF ChildAsks, Ask, NoCall
<1>16. ASSUME NEW x \in Callers, CallerAsks(x) PROVE NoneComes
  BY <1>16 DEF CallerAsks, Ask, NoCall
<1>17. ASSUME NEW x \in Callers, StatusCleansUp(x) PROVE NoneComes
  BY <1>17 DEF StatusCleansUp
<1>18. ASSUME NEW x \in Clients, OpenPipe(x) PROVE NoneComes
  <2>1. PICK p \in Servers :
          /\ pipe[p][PipeOf(call[x].op)] = "listen"
          /\ pipe' = [pipe EXCEPT ![p][PipeOf(call[x].op)] = "taken"]
          /\ call' = [call EXCEPT ![x].step = "taken", ![x].to = p]
    BY <1>18 DEF OpenPipe
  <2>2. PipeOf(call[x].op) \in Pipes
    BY DEF PipeOf, Pipes
  <2>3. \A q \in Servers, w \in Pipes :
          pipe'[q][w] \in {"listen", "taken"} => pipe[q][w] \in {"listen", "taken"}
    BY <2>1, <2>2
  <2>4. /\ \A y \in Clients : y # x => call'[y] = call[y]
        /\ call'[x].op = call[x].op /\ call'[x].to = p
    BY <2>1
  <2>5. \A y \in Clients, q \in Servers, w \in Pipes :
          Connected(y, q, w)' => Connected(y, q, w) \/ pipe[q][w] = "listen"
    BY <2>1, <2>4
  <2>. QED BY <2>3, <2>5
<1>19. ASSUME NEW x \in Clients, OpenFails(x) PROVE NoneComes
  BY <1>19 DEF OpenFails, Told, Done
<1>20. ASSUME NEW x \in Clients, AnswerStatus(x) PROVE NoneComes
  BY <1>20 DEF AnswerStatus, Answer, Told, Done
<1>21. ASSUME NEW x \in Clients, AnswerLock(x) PROVE NoneComes
  BY <1>21 DEF AnswerLock, Answer, Told, Done
<1>22. ASSUME NEW x \in Clients, AnswerGet(x) PROVE NoneComes
  <2>1. PICK t \in Answers : Told(x, t)
    BY <1>22 DEF AnswerGet, Answer, Answers
  <2>2. \A y \in Clients : call'[y] = call[y] \/ call'[y].step = "done"
    BY <2>1, ToldEnds
  <2>. QED BY <1>22, <2>2 DEF AnswerGet, Answer
<1>23. ASSUME NEW x \in Clients, HandlerEnds(x) PROVE NoneComes
  BY <1>23 DEF HandlerEnds, Answer, Told, Done
<1>25. ASSUME NEW c \in Children, WaitFails(c) PROVE NoneComes
  BY <1>25 DEF WaitFails, Go
<1>26. ASSUME NEW c \in Children, CloseJob(c) PROVE NoneComes
  BY <1>26 DEF CloseJob, Dies, NoCall, Calling, Opening, Go
<1>24. CASE UNCHANGED vars
  BY <1>24 DEF vars
<1>. QED BY <1>0, <1>1, <1>2, <1>3, <1>4, <1>5, <1>6, <1>7, <1>8, <1>9, <1>10, <1>11, <1>12,
  <1>13, <1>14, <1>15, <1>16, <1>17, <1>18, <1>19, <1>20, <1>21, <1>22, <1>23, <1>24,
  <1>25, <1>26 DEF Next

\* A command that serves goes on to do so until the process goes.
LEMMA BusyStays ==
  ASSUME MachineInv, [Next]_vars, \A b \in Servers : ~Exit(b) /\ ~Crash(b)
  PROVE  NoneLeaves
<1>. USE MachineAssumption DEF MachineInv, Types, Servers, Clients, Busy, NoneLeaves
<1>0. ASSUME NEW p \in Servers, InjectEnv(p) PROVE NoneLeaves
  BY <1>0 DEF InjectEnv, Go
<1>1. ASSUME NEW p \in Servers, Check(p) PROVE NoneLeaves
  BY <1>1 DEF Check, Ask, Go
<1>2. ASSUME NEW p \in Servers, Checked(p) PROVE NoneLeaves
  BY <1>2 DEF Checked, Go
<1>3. ASSUME NEW p \in Servers, StartSession(p) PROVE NoneLeaves
  BY <1>3 DEF StartSession, Go
<1>4. ASSUME NEW p \in Servers, CtrlC(p) PROVE NoneLeaves
  BY <1>4 DEF CtrlC
<1>5. ASSUME NEW p \in Servers, EndSession(p) PROVE NoneLeaves
  BY <1>5 DEF EndSession, Go
<1>6. ASSUME NEW p \in Servers, Expire(p) PROVE NoneLeaves
  BY <1>6 DEF Expire
<1>7. ASSUME NEW p \in Servers, NEW v \in Pipes, Bind(p, v) PROVE NoneLeaves
  BY <1>7 DEF Bind
<1>8. ASSUME NEW p \in Servers, NEW v \in Pipes, Accept(p, v) PROVE NoneLeaves
  BY <1>8 DEF Accept
<1>9. ASSUME NEW p \in Servers, NEW v \in Pipes, Stop(p, v) PROVE NoneLeaves
  BY <1>9 DEF Stop, CloseServer, Drop
<1>10. ASSUME NEW p \in Servers, NEW v \in Pipes, ServerFails(p, v) PROVE NoneLeaves
  BY <1>10 DEF ServerFails, CloseServer, Drop
<1>11. ASSUME NEW c \in Children, Launch(c) PROVE NoneLeaves
  BY <1>11 DEF Launch, Go
<1>12. ASSUME NEW c \in Children, ChildExits(c) PROVE NoneLeaves
  BY <1>12 DEF ChildExits, Dies
<1>13. ASSUME NEW c \in Children, ChildWaited(c) PROVE NoneLeaves
  BY <1>13 DEF ChildWaited, Go
<1>14. ASSUME NEW c \in Children, ChildAsks(c) PROVE NoneLeaves
  BY <1>14 DEF ChildAsks, Ask
<1>15. ASSUME NEW x \in Callers, CallerAsks(x) PROVE NoneLeaves
  BY <1>15 DEF CallerAsks, Ask
<1>16. ASSUME NEW x \in Callers, StatusCleansUp(x) PROVE NoneLeaves
  BY <1>16 DEF StatusCleansUp
<1>17. ASSUME NEW x \in Clients, OpenPipe(x) PROVE NoneLeaves
  BY <1>17 DEF OpenPipe
<1>18. ASSUME NEW x \in Clients, OpenFails(x) PROVE NoneLeaves
  BY <1>18 DEF OpenFails, Told
<1>19. ASSUME NEW x \in Clients, AnswerStatus(x) PROVE NoneLeaves
  BY <1>19 DEF AnswerStatus, Answer, Told
<1>20. ASSUME NEW x \in Clients, AnswerLock(x) PROVE NoneLeaves
  BY <1>20 DEF AnswerLock, Answer, Told
<1>21. ASSUME NEW x \in Clients, AnswerGet(x) PROVE NoneLeaves
  BY <1>21 DEF AnswerGet, Answer, Told
<1>22. ASSUME NEW x \in Clients, HandlerEnds(x) PROVE NoneLeaves
  BY <1>22 DEF HandlerEnds, Answer, Told
<1>24. ASSUME NEW c \in Children, WaitFails(c) PROVE NoneLeaves
  BY <1>24 DEF WaitFails, Go
<1>25. ASSUME NEW c \in Children, CloseJob(c) PROVE NoneLeaves
  BY <1>25 DEF CloseJob, Dies, Go
<1>23. CASE UNCHANGED vars
  BY <1>23 DEF vars
<1>. QED BY <1>0, <1>1, <1>2, <1>3, <1>4, <1>5, <1>6, <1>7, <1>8, <1>9, <1>10, <1>11, <1>12,
  <1>13, <1>14, <1>15, <1>16, <1>17, <1>18, <1>19, <1>20, <1>21, <1>22, <1>23,
  <1>24, <1>25 DEF Next

\* Who goes takes its pipes and its handlers with it.
LEMMA GoneHoldsNone ==
  ASSUME MachineInv, NEW p \in Servers, NEW how, Gone(p, how)
  PROVE  \A v \in Pipes : ~Holds(p, v)'
<1>. USE DEF MachineInv, Types
<1>1. \A v \in Pipes : pipe'[p][v] = "closed"
  BY DEF Gone
<1>2. ASSUME NEW x \in Clients, call'[x].step \in {"taken", "handled"}, call'[x].to = p
      PROVE  FALSE
  <2>1. call'[x] = call[x]
    BY <1>2, DropEnds DEF Gone
  <2>2. x \in Calling /\ call[x].to = p
    BY <1>2, <2>1 DEF Calling
  <2>3. call'[x] = Done(call[x], "error")
    BY <2>2 DEF Gone, Drop
  <2>4. call[x] \in Calls /\ "error" \in Answers
    BY DEF CallInv, Answers
  <2>5. Done(call[x], "error").step = "done"
    BY <2>4, CallParts
  <2>. QED BY <1>2, <2>3, <2>5
<1>. QED BY <1>1, <1>2 DEF Holds, Connected

\* Only a command that serves binds, and then has the one instance there is.
LEMMA QuietKeeps ==
  ASSUME MachineInv, [Next]_vars
  PROVE  QuietInv'
<1>. USE MachineAssumption DEF MachineInv, QuietInv, Busy, NoneComes, NoneLeaves
<1>1. ASSUME NEW b \in Servers, NEW w \in Pipes, Bind(b, w) PROVE QuietInv'
  BY <1>1 DEF Bind, Holds, Connected, PipeOf, Types
<1>2. ASSUME NEW b \in Servers, Exit(b) \/ Crash(b), \A d \in Servers, w \in Pipes : ~Bind(d, w)
      PROVE  QuietInv'
  <2>1. PICK how : Gone(b, how)
    BY <1>2 DEF Exit, Crash
  <2>2. \A v \in Pipes : ~Holds(b, v)'
    BY <2>1, GoneHoldsNone
  <2>3. \A q \in Servers \ {b} : main'[q] = main[q]
    BY <2>1 DEF Gone, Go, Types
  <2>. QED BY <1>2, <2>2, <2>3, HoldsShrinks
<1>3. CASE /\ \A b \in Servers : ~Exit(b) /\ ~Crash(b)
           /\ \A b \in Servers, w \in Pipes : ~Bind(b, w)
  BY <1>3, HoldsShrinks, BusyStays
<1>. QED BY <1>1, <1>2, <1>3

\* Whoever binds finds no instance of the pipe; nobody else comes to have one.
LEMMA OneKeeps ==
  ASSUME MachineInv, [Next]_vars
  PROVE  OneServesEachPipe'
<1>. USE DEF MachineInv, OneServesEachPipe, NoneComes
<1>1. ASSUME NEW b \in Servers, NEW w \in Pipes, Bind(b, w) PROVE OneServesEachPipe'
  <2>1. \A q \in Servers, v \in Pipes : Holds(q, v)' =>
          Holds(q, v) \/ (q = b /\ v = w /\ ~Exists(w))
    BY <1>1 DEF Bind, Holds, Connected, PipeOf, Types
  <2>. QED BY <2>1 DEF Exists
<1>2. CASE \A b \in Servers, w \in Pipes : ~Bind(b, w)
  BY <1>2, HoldsShrinks
<1>. QED BY <1>1, <1>2
-----------------------------------------------------------------------------
(* session.json and the grants *)

\* An unlock removes the file before it returns.
LEMMA FileKeeps ==
  ASSUME MachineInv, [Next]_vars
  PROVE  FileInv'
<1>. USE MachineAssumption DEF MachineInv, Types, Servers, Clients, FileInv
<1>0. ASSUME NEW p \in Servers, InjectEnv(p) PROVE FileInv'
  BY <1>0 DEF InjectEnv, Go
<1>1. ASSUME NEW p \in Servers, Check(p) PROVE FileInv'
  BY <1>1 DEF Check, Ask, Go
<1>2. ASSUME NEW p \in Servers, Checked(p) PROVE FileInv'
  BY <1>2 DEF Checked, Go
<1>3. ASSUME NEW p \in Servers, StartSession(p) PROVE FileInv'
  BY <1>3 DEF StartSession, Go
<1>4. ASSUME NEW p \in Servers, CtrlC(p) PROVE FileInv'
  BY <1>4 DEF CtrlC
<1>5. ASSUME NEW p \in Servers, EndSession(p) PROVE FileInv'
  BY <1>5 DEF EndSession, Go
<1>6. ASSUME NEW p \in Servers, Exit(p) PROVE FileInv'
  BY <1>6 DEF Exit, Gone, Go
<1>7. ASSUME NEW p \in Servers, Crash(p) PROVE FileInv'
  BY <1>7 DEF Crash, Gone, Go
<1>8. ASSUME NEW p \in Servers, Expire(p) PROVE FileInv'
  BY <1>8 DEF Expire
<1>9. ASSUME NEW p \in Servers, NEW v \in Pipes, Bind(p, v) PROVE FileInv'
  BY <1>9 DEF Bind
<1>10. ASSUME NEW p \in Servers, NEW v \in Pipes, Accept(p, v) PROVE FileInv'
  BY <1>10 DEF Accept
<1>11. ASSUME NEW p \in Servers, NEW v \in Pipes, Stop(p, v) PROVE FileInv'
  BY <1>11 DEF Stop, CloseServer, Drop
<1>12. ASSUME NEW p \in Servers, NEW v \in Pipes, ServerFails(p, v) PROVE FileInv'
  BY <1>12 DEF ServerFails, CloseServer, Drop
<1>13. ASSUME NEW c \in Children, Launch(c) PROVE FileInv'
  BY <1>13 DEF Launch, Go
<1>14. ASSUME NEW c \in Children, ChildExits(c) PROVE FileInv'
  BY <1>14 DEF ChildExits, Dies
<1>15. ASSUME NEW c \in Children, ChildWaited(c) PROVE FileInv'
  BY <1>15 DEF ChildWaited, Go
<1>16. ASSUME NEW c \in Children, ChildAsks(c) PROVE FileInv'
  BY <1>16 DEF ChildAsks, Ask
<1>17. ASSUME NEW x \in Callers, CallerAsks(x) PROVE FileInv'
  BY <1>17 DEF CallerAsks, Ask
<1>18. ASSUME NEW x \in Callers, StatusCleansUp(x) PROVE FileInv'
  BY <1>18 DEF StatusCleansUp
<1>19. ASSUME NEW x \in Clients, OpenPipe(x) PROVE FileInv'
  BY <1>19 DEF OpenPipe
<1>20. ASSUME NEW x \in Clients, OpenFails(x) PROVE FileInv'
  BY <1>20 DEF OpenFails, Told
<1>21. ASSUME NEW x \in Clients, AnswerStatus(x) PROVE FileInv'
  BY <1>21 DEF AnswerStatus, Answer, Told
<1>22. ASSUME NEW x \in Clients, AnswerLock(x) PROVE FileInv'
  BY <1>22 DEF AnswerLock, Answer, Told
<1>23. ASSUME NEW x \in Clients, AnswerGet(x) PROVE FileInv'
  BY <1>23 DEF AnswerGet, Answer, Told
<1>24. ASSUME NEW x \in Clients, HandlerEnds(x) PROVE FileInv'
  BY <1>24 DEF HandlerEnds, Answer, Told
<1>26. ASSUME NEW c \in Children, WaitFails(c) PROVE FileInv'
  BY <1>26 DEF WaitFails, Go
<1>27. ASSUME NEW c \in Children, CloseJob(c) PROVE FileInv'
  BY <1>27 DEF CloseJob, Dies, Go
<1>25. CASE UNCHANGED vars
  BY <1>25 DEF vars
<1>. QED BY <1>0, <1>1, <1>2, <1>3, <1>4, <1>5, <1>6, <1>7, <1>8, <1>9, <1>10, <1>11, <1>12,
  <1>13, <1>14, <1>15, <1>16, <1>17, <1>18, <1>19, <1>20, <1>21, <1>22, <1>23, <1>24,
  <1>25, <1>26, <1>27 DEF Next

\* A grant is made with the child's first step; it goes after its last, or with the wait.
LEMMA GrantKeeps ==
  ASSUME MachineInv, [Next]_vars
  PROVE  GrantInv'
<1>. USE MachineAssumption DEF MachineInv, Types, Servers, Clients, GrantInv, LeftAlone
<1>0. ASSUME NEW p \in Servers, InjectEnv(p) PROVE GrantInv'
  BY <1>0 DEF InjectEnv, Go
<1>1. ASSUME NEW p \in Servers, Check(p) PROVE GrantInv'
  BY <1>1 DEF Check, Ask, Go
<1>2. ASSUME NEW p \in Servers, Checked(p) PROVE GrantInv'
  BY <1>2 DEF Checked, Go
<1>3. ASSUME NEW p \in Servers, StartSession(p) PROVE GrantInv'
  BY <1>3 DEF StartSession, Go
<1>4. ASSUME NEW p \in Servers, CtrlC(p) PROVE GrantInv'
  BY <1>4 DEF CtrlC
<1>5. ASSUME NEW p \in Servers, EndSession(p) PROVE GrantInv'
  BY <1>5 DEF EndSession, Go
<1>6. ASSUME NEW p \in Servers, Exit(p) PROVE GrantInv'
  BY <1>6 DEF Exit, Gone, Go
<1>7. ASSUME NEW p \in Servers, Crash(p) PROVE GrantInv'
  BY <1>7 DEF Crash, Gone, Go
<1>8. ASSUME NEW p \in Servers, Expire(p) PROVE GrantInv'
  BY <1>8 DEF Expire
<1>9. ASSUME NEW p \in Servers, NEW v \in Pipes, Bind(p, v) PROVE GrantInv'
  BY <1>9 DEF Bind
<1>10. ASSUME NEW p \in Servers, NEW v \in Pipes, Accept(p, v) PROVE GrantInv'
  BY <1>10 DEF Accept
<1>11. ASSUME NEW p \in Servers, NEW v \in Pipes, Stop(p, v) PROVE GrantInv'
  BY <1>11 DEF Stop, CloseServer, Drop
<1>12. ASSUME NEW p \in Servers, NEW v \in Pipes, ServerFails(p, v) PROVE GrantInv'
  BY <1>12 DEF ServerFails, CloseServer, Drop
<1>13. ASSUME NEW c \in Children, Launch(c) PROVE GrantInv'
  BY <1>13 DEF Launch, Go
<1>14. ASSUME NEW c \in Children, ChildExits(c) PROVE GrantInv'
  BY <1>14 DEF ChildExits, Dies
<1>15. ASSUME NEW c \in Children, ChildWaited(c) PROVE GrantInv'
  BY <1>15 DEF ChildWaited, Go
<1>16. ASSUME NEW c \in Children, ChildAsks(c) PROVE GrantInv'
  BY <1>16 DEF ChildAsks, Ask
<1>17. ASSUME NEW x \in Callers, CallerAsks(x) PROVE GrantInv'
  BY <1>17 DEF CallerAsks, Ask
<1>18. ASSUME NEW x \in Callers, StatusCleansUp(x) PROVE GrantInv'
  BY <1>18 DEF StatusCleansUp
<1>19. ASSUME NEW x \in Clients, OpenPipe(x) PROVE GrantInv'
  BY <1>19 DEF OpenPipe
<1>20. ASSUME NEW x \in Clients, OpenFails(x) PROVE GrantInv'
  BY <1>20 DEF OpenFails, Told
<1>21. ASSUME NEW x \in Clients, AnswerStatus(x) PROVE GrantInv'
  BY <1>21 DEF AnswerStatus, Answer, Told
<1>22. ASSUME NEW x \in Clients, AnswerLock(x) PROVE GrantInv'
  BY <1>22 DEF AnswerLock, Answer, Told
<1>23. ASSUME NEW x \in Clients, AnswerGet(x) PROVE GrantInv'
  BY <1>23 DEF AnswerGet, Answer, Told
<1>24. ASSUME NEW x \in Clients, HandlerEnds(x) PROVE GrantInv'
  BY <1>24 DEF HandlerEnds, Answer, Told
<1>26. ASSUME NEW c \in Children, WaitFails(c) PROVE GrantInv'
  BY <1>26 DEF WaitFails, Go
<1>27. ASSUME NEW c \in Children, CloseJob(c) PROVE GrantInv'
  BY <1>27 DEF CloseJob, Dies, Go
<1>25. CASE UNCHANGED vars
  BY <1>25 DEF vars
<1>. QED BY <1>0, <1>1, <1>2, <1>3, <1>4, <1>5, <1>6, <1>7, <1>8, <1>9, <1>10, <1>11, <1>12,
  <1>13, <1>14, <1>15, <1>16, <1>17, <1>18, <1>19, <1>20, <1>21, <1>22, <1>23, <1>24,
  <1>25, <1>26, <1>27 DEF Next

\* A call that is not answered by AnswerGet is told nothing of grants.
LEMMA OnlyGetJudges ==
  ASSUME MachineInv, [Next]_vars, NEW d \in Children, JudgedNow(d)
  PROVE  AnswerGet(d)
<1>. USE MachineAssumption DEF MachineInv, JudgedNow, CallInv, Calls, Clients
<1>0. ASSUME NEW p \in Servers, InjectEnv(p) PROVE AnswerGet(d)
  BY <1>0 DEF InjectEnv, Go
<1>1. ASSUME NEW p \in Servers, Check(p) PROVE AnswerGet(d)
  BY <1>1 DEF Check, Ask, Go, NoCall
<1>2. ASSUME NEW p \in Servers, Checked(p) PROVE AnswerGet(d)
  BY <1>2 DEF Checked, Go, NoCall
<1>3. ASSUME NEW p \in Servers, StartSession(p) PROVE AnswerGet(d)
  BY <1>3 DEF StartSession, Go
<1>4. ASSUME NEW p \in Servers, CtrlC(p) PROVE AnswerGet(d)
  BY <1>4 DEF CtrlC
<1>5. ASSUME NEW p \in Servers, EndSession(p) PROVE AnswerGet(d)
  BY <1>5 DEF EndSession, Go
<1>6. ASSUME NEW p \in Servers, Exit(p) PROVE AnswerGet(d)
  BY <1>6, DropEnds DEF Exit, Gone
<1>7. ASSUME NEW p \in Servers, Crash(p) PROVE AnswerGet(d)
  BY <1>7, DropEnds DEF Crash, Gone
<1>8. ASSUME NEW p \in Servers, Expire(p) PROVE AnswerGet(d)
  BY <1>8 DEF Expire
<1>9. ASSUME NEW p \in Servers, NEW v \in Pipes, Bind(p, v) PROVE AnswerGet(d)
  BY <1>9 DEF Bind
<1>10. ASSUME NEW p \in Servers, NEW v \in Pipes, Accept(p, v) PROVE AnswerGet(d)
  BY <1>10 DEF Accept, Waiting
<1>11. ASSUME NEW p \in Servers, NEW v \in Pipes, Stop(p, v) PROVE AnswerGet(d)
  BY <1>11, DropEnds DEF Stop, CloseServer
<1>12. ASSUME NEW p \in Servers, NEW v \in Pipes, ServerFails(p, v) PROVE AnswerGet(d)
  BY <1>12, DropEnds DEF ServerFails, CloseServer
<1>13. ASSUME NEW c \in Children, Launch(c) PROVE AnswerGet(d)
  BY <1>13 DEF Launch, Go
<1>14. ASSUME NEW c \in Children, ChildExits(c) PROVE AnswerGet(d)
  BY <1>14 DEF ChildExits, Dies, NoCall
<1>15. ASSUME NEW c \in Children, ChildWaited(c) PROVE AnswerGet(d)
  BY <1>15 DEF ChildWaited, Go
<1>16. ASSUME NEW c \in Children, ChildAsks(c) PROVE AnswerGet(d)
  BY <1>16 DEF ChildAsks, Ask, NoCall
<1>17. ASSUME NEW x \in Callers, CallerAsks(x) PROVE AnswerGet(d)
  <2>1. PICK op : Ask(x, op)
    BY <1>17 DEF CallerAsks
  <2>. QED BY <2>1 DEF Ask
<1>18. ASSUME NEW x \in Callers, StatusCleansUp(x) PROVE AnswerGet(d)
  BY <1>18 DEF StatusCleansUp
<1>19. ASSUME NEW x \in Clients, OpenPipe(x) PROVE AnswerGet(d)
  <2>1. PICK p \in Servers :
          call' = [call EXCEPT ![x] = [call[x] EXCEPT !.step = "taken", !.to = p]]
    BY <1>19 DEF OpenPipe
  <2>2. call[x].step = "open"
    BY <1>19 DEF OpenPipe
  <2>3. call'[d].told = call[d].told
    BY <1>19, OpeningTellsNothing DEF Clients
  <2>. QED BY <2>1, <2>2, <2>3
<1>20. ASSUME NEW x \in Clients, OpenFails(x) PROVE AnswerGet(d)
  <2>1. PICK t \in Answers : Told(x, t) /\ t \notin {"by grant", "by list"}
    BY <1>20 DEF OpenFails, Answers
  <2>. QED BY <2>1, ToldEnds
<1>21. ASSUME NEW x \in Clients, AnswerStatus(x) PROVE AnswerGet(d)
  <2>1. PICK t \in Answers : Told(x, t) /\ t \notin {"by grant", "by list"}
    BY <1>21 DEF AnswerStatus, Answer, Answers
  <2>. QED BY <2>1, ToldEnds
<1>22. ASSUME NEW x \in Clients, AnswerLock(x) PROVE AnswerGet(d)
  <2>1. PICK t \in Answers : Told(x, t) /\ t \notin {"by grant", "by list"}
    BY <1>22 DEF AnswerLock, Answer, Answers
  <2>. QED BY <2>1, ToldEnds
<1>23. ASSUME NEW x \in Clients, AnswerGet(x) PROVE AnswerGet(d)
  <2>1. PICK t \in Answers : Told(x, t)
    BY <1>23 DEF AnswerGet, Answer, Answers
  <2>. QED BY <1>23, <2>1, ToldEnds
<1>24. ASSUME NEW x \in Clients, HandlerEnds(x) PROVE AnswerGet(d)
  <2>1. PICK t \in Answers : Told(x, t) /\ t \notin {"by grant", "by list"}
    BY <1>24 DEF HandlerEnds, Answer, Answers
  <2>. QED BY <2>1, ToldEnds
<1>26. ASSUME NEW c \in Children, WaitFails(c) PROVE AnswerGet(d)
  BY <1>26 DEF WaitFails, Go
<1>27. ASSUME NEW c \in Children, CloseJob(c) PROVE AnswerGet(d)
  BY <1>27 DEF CloseJob, Dies, NoCall, Go
<1>25. CASE UNCHANGED vars
  BY <1>25 DEF vars
<1>. QED BY <1>0, <1>1, <1>2, <1>3, <1>4, <1>5, <1>6, <1>7, <1>8, <1>9, <1>10, <1>11, <1>12,
  <1>13, <1>14, <1>15, <1>16, <1>17, <1>18, <1>19, <1>20, <1>21, <1>22, <1>23, <1>24,
  <1>25, <1>26, <1>27 DEF Next
-----------------------------------------------------------------------------
LEMMA InitMachineInv == Init => MachineInv
<1>. SUFFICES ASSUME Init PROVE MachineInv
  OBVIOUS
<1>1. Types
  BY MachineAssumption DEF Init, Types, Servers, Clients
<1>2. CallInv
  BY CallParts DEF Init, CallInv
<1>3. \A p \in Servers, v \in Pipes : ~Holds(p, v)
  BY DEF Init, Holds, Connected, NoCall
<1>4. QuietInv /\ OneServesEachPipe
  BY <1>3 DEF QuietInv, OneServesEachPipe
<1>5. FileInv
  BY MachineAssumption DEF Init, FileInv, Servers, Clients
<1>6. GrantInv
  BY MachineAssumption DEF Init, GrantInv, LeftAlone, Servers
<1>. QED BY <1>1, <1>2, <1>4, <1>5, <1>6 DEF MachineInv

LEMMA NextMachineInv == MachineInv /\ [Next]_vars => MachineInv'
BY TypesKeep, CallKeeps, QuietKeeps, OneKeeps, FileKeeps, GrantKeeps DEF MachineInv

THEOREM MachineInvariant == Spec => []MachineInv
BY InitMachineInv, NextMachineInv, PTL DEF Spec

\* Every variable keeps its type, and a process that has gone has no pipe and no client.
THEOREM MachineTypeCorrect == Spec => []MachineTypeOK
<1>1. ASSUME MachineInv PROVE MachineTypeOK
  <2>1. \A x \in Clients : /\ call[x].step \in {"idle", "open", "taken", "handled", "done"}
                           /\ call[x].to \in Servers \cup {None}
                           /\ call[x].step \in {"taken", "handled"} => call[x].to # None
    BY <1>1 DEF MachineInv, CallInv, Calls
  <2>2. \A p \in Servers, v \in Pipes : main[p] \in {"ended", "crashed"} => ~Holds(p, v)
    BY <1>1 DEF MachineInv, QuietInv, Busy
  <2>3. Types
    BY <1>1 DEF MachineInv
  <2>. QED BY <2>1, <2>2, <2>3 DEF MachineTypeOK, Types
<1>. QED BY <1>1, MachineInvariant, PTL

\* However many commands find no session, no pipe is served by two processes.
THEOREM OneServes == Spec => []OneServesEachPipe
<1>1. MachineInv => OneServesEachPipe
  BY DEF MachineInv
<1>. QED BY <1>1, MachineInvariant, PTL

\* However many unlocks write and remove session.json, it names none that has ended.
THEOREM FileIsOfTheLiving == Spec => []FileNamesNoneThatEnded
<1>1. MachineInv => FileNamesNoneThatEnded
  BY DEF MachineInv, FileInv, FileNamesNoneThatEnded
<1>. QED BY <1>1, MachineInvariant, PTL

\* A child is judged by its grant exactly where run itself serves it, until the wait for
\* the child fails.
THEOREM GrantsAreHome == Spec => GrantsStayHome
<1>. DEFINE AtHome(c) == /\ call[c].to = LaunchedBy[c]
                         /\ main[LaunchedBy[c]] # "abandoning"
<1>1. ASSUME MachineInv, [Next]_vars, NEW c \in Children, JudgedNow(c)
      PROVE  call'[c].told = "by grant" <=> AtHome(c)
  <2>1. AnswerGet(c)
    BY <1>1, OnlyGetJudges
  <2>2. call[c] \in Calls /\ call[c].to \in Servers
    BY <1>1, <2>1, MachineAssumption DEF MachineInv, CallInv, Calls, AnswerGet, Clients, Servers
  <2>3. PICK t \in Answers :
          /\ Told(c, t)
          /\ t \in {"by grant", "by list"} => (t = "by grant" <=> c \in grants[call[c].to])
    BY <2>1 DEF AnswerGet, Answer, Answers
  <2>4. call'[c].told = t
    BY <1>1, <2>3, ToldEnds DEF MachineInv, Clients
  <2>5. call[c].to = LaunchedBy[c] => main[LaunchedBy[c]] \in Busy
    \* a run that joined has no pipe, so that no handler of it can be left alone
    <3>1. Connected(c, call[c].to, PipeOf(call[c].op)) /\ PipeOf(call[c].op) \in Pipes
      BY <2>1 DEF AnswerGet, Connected, PipeOf, Pipes
    <3>. QED BY <1>1, <2>2, <3>1 DEF MachineInv, QuietInv, Holds, Clients
  <2>6. c \in grants[call[c].to] <=> AtHome(c)
    BY <1>1, <2>2, <2>5 DEF MachineInv, GrantInv, LeftAlone, JudgedNow, Busy
  <2>. QED BY <1>1, <2>3, <2>4, <2>6 DEF JudgedNow
<1>2. MachineInv /\ [Next]_vars =>
        \A c \in Children : JudgedNow(c) => (call'[c].told = "by grant" <=> AtHome(c))
  BY <1>1
<1>. QED BY <1>2, MachineInvariant, PTL DEF Spec, GrantsStayHome
-----------------------------------------------------------------------------
(* Connections that wait to be accepted *)

Pending(x, p, v) ==
  call[x].step = "taken" /\ call[x].to = p /\ PipeOf(call[x].op) = v

\* A connection that waits and a taken instance are each other's.
PairInv ==
  /\ \A x \in Clients, p \in Servers, v \in Pipes : Pending(x, p, v) => pipe[p][v] = "taken"
  /\ \A p \in Servers, v \in Pipes :
       pipe[p][v] = "taken" => \E x \in Clients : Pending(x, p, v)
  /\ \A p \in Servers, v \in Pipes, x, y \in Clients :
       Pending(x, p, v) /\ Pending(y, p, v) => x = y

LEMMA CallsAreDone ==
  ASSUME CallInv, NEW t \in Answers
  PROVE  \A y \in Clients : Done(call[y], t).step = "done"
BY CallParts DEF CallInv

LEMMA PipesOfCalls == \A op : PipeOf(op) \in Pipes
BY DEF PipeOf, Pipes

LEMMA WaitingIsPending ==
  \A p \in Servers, v \in Pipes : Waiting(p, v) = {x \in Clients : Pending(x, p, v)}
BY DEF Waiting, Connected, Pending

\* A step that keeps the instances of each pipe, and of the calls those that wait.
LEMMA PairStays ==
  ASSUME PairInv,
         \A p \in Servers, v \in Pipes :
           pipe'[p][v] = "taken" <=> pipe[p][v] = "taken",
         \A x \in Clients, p \in Servers, v \in Pipes : Pending(x, p, v)' <=> Pending(x, p, v)
  PROVE  PairInv'
BY DEF PairInv

\* What happens to calls that do not wait is nothing to those that do.
LEMMA OthersStay ==
  ASSUME PairInv, UNCHANGED pipe,
         \A x \in Clients :
           call'[x] = call[x] \/ (call[x].step # "taken" /\ call'[x].step # "taken")
  PROVE  PairInv'
<1>1. \A x \in Clients, p \in Servers, v \in Pipes : Pending(x, p, v)' <=> Pending(x, p, v)
  BY DEF Pending
<1>. QED BY <1>1, PairStays

\* An instance that no client has taken, or that is closed with its client, is let go.
LEMMA PairGoes ==
  ASSUME PairInv, NEW G,
         \A p \in Servers, v \in Pipes :
           pipe'[p][v] = "taken" <=> pipe[p][v] = "taken" /\ <<p, v>> \notin G,
         \A x \in Clients, p \in Servers, v \in Pipes :
           Pending(x, p, v)' <=> Pending(x, p, v) /\ <<p, v>> \notin G
  PROVE  PairInv'
BY DEF PairInv

LEMMA OpenPairs ==
  ASSUME MachineInv, PairInv, NEW x \in Clients, OpenPipe(x)
  PROVE  PairInv'
<1>1. PICK p \in Servers :
        /\ pipe[p][PipeOf(call[x].op)] = "listen"
        /\ pipe' = [pipe EXCEPT ![p][PipeOf(call[x].op)] = "taken"]
        /\ call' = [call EXCEPT ![x] = [call[x] EXCEPT !.step = "taken", !.to = p]]
  BY DEF OpenPipe
<1>. DEFINE v == PipeOf(call[x].op)
<1>2. v \in Pipes /\ call[x].step = "open"
  BY PipesOfCalls DEF OpenPipe
<1>3. call[x] \in Calls
  BY DEF MachineInv, CallInv
<1>4. call'[x] = [call[x] EXCEPT !.step = "taken", !.to = p]
  BY <1>1 DEF MachineInv, CallInv
<1>5. call'[x].step = "taken" /\ call'[x].to = p /\ call'[x].op = call[x].op
  BY <1>3, <1>4 DEF Calls
<1>6. \A y \in Clients : y # x => call'[y] = call[y]
  BY <1>1 DEF MachineInv, CallInv
<1>7. \A q \in Servers, w \in Pipes :
        Pending(x, q, w)' <=> q = p /\ w = v
  BY <1>5 DEF Pending
<1>8. \A y \in Clients, q \in Servers, w \in Pipes :
        y # x => (Pending(y, q, w)' <=> Pending(y, q, w))
  BY <1>6 DEF Pending
<1>9. \A q \in Servers, w \in Pipes :
        pipe'[q][w] = "taken" <=> pipe[q][w] = "taken" \/ (q = p /\ w = v)
  BY <1>1, <1>2 DEF MachineInv, Types
<1>10. \A q \in Servers, w \in Pipes : ~Pending(x, q, w)
  BY <1>2 DEF Pending
<1>11. \A y \in Clients : ~Pending(y, p, v)
  BY <1>1, <1>2 DEF PairInv
<1>. HIDE DEF v
<1>. QED BY <1>2, <1>7, <1>8, <1>9, <1>10, <1>11 DEF PairInv

LEMMA AcceptPairs ==
  ASSUME MachineInv, PairInv, NEW p \in Servers, NEW v \in Pipes, Accept(p, v)
  PROVE  PairInv'
<1>1. \A q \in Servers, w \in Pipes :
        pipe'[q][w] = "taken" <=> pipe[q][w] = "taken" /\ <<q, w>> \notin {<<p, v>>}
  BY DEF Accept, MachineInv, Types
<1>2. \A y \in Clients : IF Pending(y, p, v) THEN call'[y] = [call[y] EXCEPT !.step = "handled"]
                          ELSE call'[y] = call[y]
  BY WaitingIsPending DEF Accept
<1>3. \A y \in Clients : call[y] \in Calls
  BY DEF MachineInv, CallInv
<1>4. \A y \in Clients : Pending(y, p, v) => call'[y].step = "handled"
  BY <1>2, <1>3 DEF Calls
<1>5. \A y \in Clients, q \in Servers, w \in Pipes :
        Pending(y, q, w)' <=> Pending(y, q, w) /\ <<q, w>> \notin {<<p, v>>}
  BY <1>2, <1>4 DEF Pending
<1>. QED BY <1>1, <1>5, PairGoes

LEMMA ClosePairs ==
  ASSUME MachineInv, PairInv, NEW p \in Servers, NEW v \in Pipes, CloseServer(p, v)
  PROVE  PairInv'
<1>1. \A q \in Servers, w \in Pipes :
        pipe'[q][w] = "taken" <=> pipe[q][w] = "taken" /\ <<q, w>> \notin {<<p, v>>}
  BY DEF CloseServer, MachineInv, Types
<1>2. \A y \in Clients : call'[y] = IF Pending(y, p, v) THEN Done(call[y], "error") ELSE call[y]
  BY WaitingIsPending DEF CloseServer, Drop
<1>3. \A y \in Clients : Done(call[y], "error").step = "done"
  BY CallsAreDone DEF MachineInv, Answers
<1>4. \A y \in Clients, q \in Servers, w \in Pipes :
        Pending(y, q, w)' <=> Pending(y, q, w) /\ <<q, w>> \notin {<<p, v>>}
  <2>1. ASSUME NEW y \in Clients, Pending(y, p, v), NEW q \in Servers, NEW w \in Pipes
        PROVE  /\ ~Pending(y, q, w)'
               /\ Pending(y, q, w) => q = p /\ w = v
    BY <1>2, <1>3, <2>1 DEF Pending
  <2>2. ASSUME NEW y \in Clients, ~Pending(y, p, v), NEW q \in Servers, NEW w \in Pipes
        PROVE  /\ Pending(y, q, w)' <=> Pending(y, q, w)
               /\ Pending(y, q, w) => <<q, w>> # <<p, v>>
    BY <1>2, <2>2 DEF Pending
  <2>. QED BY <2>1, <2>2
<1>. QED BY <1>1, <1>4, PairGoes

LEMMA GonePairs ==
  ASSUME MachineInv, PairInv, NEW p \in Servers, NEW how, Gone(p, how)
  PROVE  PairInv'
<1>. DEFINE G == {p} \X Pipes
<1>1. \A q \in Servers, w \in Pipes :
        pipe'[q][w] = "taken" <=> pipe[q][w] = "taken" /\ <<q, w>> \notin G
  BY DEF Gone, MachineInv, Types
<1>2. \A y \in Clients :
        \/ /\ call'[y] = Done(call[y], "error")
           /\ call[y].step = "open" \/ call[y].to = p
        \/ /\ call'[y] = call[y]
           /\ ~(call[y].step = "taken" /\ call[y].to = p)
  BY DEF Gone, Drop, Opening, Calling
<1>3. \A y \in Clients : Done(call[y], "error").step = "done"
  BY CallsAreDone DEF MachineInv, Answers
<1>4. \A y \in Clients, q \in Servers, w \in Pipes :
        Pending(y, q, w)' <=> Pending(y, q, w) /\ <<q, w>> \notin G
  <2>1. ASSUME NEW y \in Clients, NEW q \in Servers, NEW w \in Pipes
        PROVE  Pending(y, q, w)' <=> Pending(y, q, w) /\ q # p
    <3>1. CASE call'[y] = Done(call[y], "error")
      BY <1>2, <1>3, <3>1 DEF Pending
    <3>2. CASE call'[y] # Done(call[y], "error")
      BY <1>2, <3>2 DEF Pending
    <3>. QED BY <3>1, <3>2
  <2>. QED BY <2>1
<1>. HIDE DEF G
<1>. QED BY <1>1, <1>4, PairGoes

LEMMA CallStarts ==
  ASSUME MachineInv, PairInv, UNCHANGED pipe,
         NEW x \in Clients, NEW op, Ask(x, op), call[x].step # "taken"
  PROVE  PairInv'
<1>1. call' = [call EXCEPT ![x] = [NoCall EXCEPT !.op = op, !.step = "open"]]
  BY DEF Ask
<1>2. [NoCall EXCEPT !.op = op, !.step = "open"].step = "open"
  BY DEF NoCall
<1>3. call'[x].step = "open" /\ \A y \in Clients : y # x => call'[y] = call[y]
  BY <1>1, <1>2 DEF MachineInv, CallInv
<1>. QED BY <1>3, OthersStay

LEMMA CallCleared ==
  ASSUME MachineInv, PairInv, UNCHANGED pipe, NEW x \in Clients,
         \/ call' = call
         \/ call' = [call EXCEPT ![x] = NoCall] /\ call[x].step # "taken"
  PROVE  PairInv'
BY OthersStay DEF NoCall, MachineInv, CallInv

LEMMA CallEnds ==
  ASSUME MachineInv, PairInv, UNCHANGED pipe, NEW x \in Clients, NEW t \in Answers,
         Told(x, t), call[x].step # "taken"
  PROVE  PairInv'
BY OthersStay, ToldEnds DEF MachineInv

\* Before it begins a command has asked nobody.
NewInv == \A p \in Servers : main[p] = "new" => call[p].step = "idle"

LEMMA NewKeeps ==
  ASSUME MachineInv, NewInv, [Next]_vars
  PROVE  NewInv'
<1>. SUFFICES ASSUME NEW b \in Servers PROVE main'[b] = "new" => call'[b].step = "idle"
  BY DEF NewInv
<1>. DEFINE Idle == main'[b] = "new" => call'[b].step = "idle"
<1>. USE MachineAssumption DEF MachineInv, Types, CallInv, Servers, Clients, NewInv
<1>0. ASSUME NEW p \in Servers, Check(p) PROVE Idle
  BY <1>0 DEF Check, Go, Ask
<1>1. ASSUME NEW p \in Servers, InjectEnv(p) PROVE Idle
  BY <1>1 DEF InjectEnv, Go
<1>2. ASSUME NEW p \in Servers, Checked(p) PROVE Idle
  BY <1>2 DEF Checked, Go
<1>3. ASSUME NEW p \in Servers, StartSession(p) PROVE Idle
  BY <1>3 DEF StartSession, Go
<1>4. ASSUME NEW p \in Servers, CtrlC(p) PROVE Idle
  BY <1>4 DEF CtrlC
<1>5. ASSUME NEW p \in Servers, EndSession(p) PROVE Idle
  BY <1>5 DEF EndSession, Go
<1>6. ASSUME NEW p \in Servers, Exit(p) PROVE Idle
  BY <1>6 DEF Exit, Gone, Go, Drop, Opening, Calling
<1>7. ASSUME NEW p \in Servers, Crash(p) PROVE Idle
  BY <1>7 DEF Crash, Gone, Go, Drop, Opening, Calling
<1>8. ASSUME NEW p \in Servers, Expire(p) PROVE Idle
  BY <1>8 DEF Expire
<1>9. ASSUME NEW p \in Servers, NEW v \in Pipes, Bind(p, v) PROVE Idle
  BY <1>9 DEF Bind
<1>10. ASSUME NEW p \in Servers, NEW v \in Pipes, Accept(p, v) PROVE Idle
  BY <1>10 DEF Accept, Waiting
<1>11. ASSUME NEW p \in Servers, NEW v \in Pipes, Stop(p, v) PROVE Idle
  BY <1>11 DEF Stop, CloseServer, Drop, Waiting
<1>12. ASSUME NEW p \in Servers, NEW v \in Pipes, ServerFails(p, v) PROVE Idle
  BY <1>12 DEF ServerFails, CloseServer, Drop, Waiting
<1>13. ASSUME NEW c \in Children, Launch(c) PROVE Idle
  BY <1>13 DEF Launch, Go
<1>14. ASSUME NEW c \in Children, ChildExits(c) PROVE Idle
  BY <1>14 DEF ChildExits, Dies
<1>15. ASSUME NEW c \in Children, ChildWaited(c) PROVE Idle
  BY <1>15 DEF ChildWaited, Go
<1>16. ASSUME NEW c \in Children, ChildAsks(c) PROVE Idle
  BY <1>16 DEF ChildAsks, Ask
<1>17. ASSUME NEW x \in Callers, CallerAsks(x) PROVE Idle
  BY <1>17 DEF CallerAsks, Ask
<1>18. ASSUME NEW x \in Callers, StatusCleansUp(x) PROVE Idle
  BY <1>18 DEF StatusCleansUp
<1>19. ASSUME NEW x \in Clients, OpenPipe(x) PROVE Idle
  BY <1>19 DEF OpenPipe
<1>20. ASSUME NEW x \in Clients, OpenFails(x) PROVE Idle
  BY <1>20 DEF OpenFails, Told
<1>21. ASSUME NEW x \in Clients, AnswerStatus(x) PROVE Idle
  BY <1>21 DEF AnswerStatus, Answer, Told
<1>22. ASSUME NEW x \in Clients, AnswerLock(x) PROVE Idle
  BY <1>22 DEF AnswerLock, Answer, Told
<1>23. ASSUME NEW x \in Clients, AnswerGet(x) PROVE Idle
  BY <1>23 DEF AnswerGet, Answer, Told
<1>24. ASSUME NEW x \in Clients, HandlerEnds(x) PROVE Idle
  BY <1>24 DEF HandlerEnds, Answer, Told
<1>26. ASSUME NEW c \in Children, WaitFails(c) PROVE Idle
  BY <1>26 DEF WaitFails, Go
<1>27. ASSUME NEW c \in Children, CloseJob(c) PROVE Idle
  BY <1>27 DEF CloseJob, Dies, Go
<1>25. CASE UNCHANGED vars
  BY <1>25 DEF vars
<1>. QED BY <1>0, <1>1, <1>2, <1>3, <1>4, <1>5, <1>6, <1>7, <1>8, <1>9, <1>10, <1>11,
  <1>12, <1>13, <1>14, <1>15, <1>16, <1>17, <1>18, <1>19, <1>20, <1>21, <1>22,
  <1>23, <1>24, <1>25, <1>26, <1>27 DEF Next

LEMMA PairKeeps ==
  ASSUME MachineInv, NewInv, PairInv, [Next]_vars
  PROVE  PairInv'
<1>. USE MachineAssumption DEF MachineInv, CallInv, Servers, Clients
<1>0. ASSUME NEW p \in Servers, InjectEnv(p) PROVE PairInv'
  BY <1>0, OthersStay DEF InjectEnv
<1>1. ASSUME NEW p \in Servers, Check(p) PROVE PairInv'
  <2>1. main[p] = "new"
    BY <1>1 DEF Check
  <2>2. call[p].step # "taken"
    BY <2>1 DEF NewInv
  <2>. QED BY <1>1, <2>2, CallStarts DEF Check
<1>2. ASSUME NEW p \in Servers, Checked(p) PROVE PairInv'
  BY <1>2, CallCleared DEF Checked
<1>3. ASSUME NEW p \in Servers, StartSession(p) PROVE PairInv'
  BY <1>3, OthersStay DEF StartSession
<1>4. ASSUME NEW p \in Servers, CtrlC(p) PROVE PairInv'
  BY <1>4, OthersStay DEF CtrlC
<1>5. ASSUME NEW p \in Servers, EndSession(p) PROVE PairInv'
  BY <1>5, OthersStay DEF EndSession
<1>6. ASSUME NEW p \in Servers, Exit(p) PROVE PairInv'
  BY <1>6, GonePairs DEF Exit
<1>7. ASSUME NEW p \in Servers, Crash(p) PROVE PairInv'
  BY <1>7, GonePairs DEF Crash
<1>8. ASSUME NEW p \in Servers, Expire(p) PROVE PairInv'
  BY <1>8, OthersStay DEF Expire
<1>9. ASSUME NEW p \in Servers, NEW v \in Pipes, Bind(p, v) PROVE PairInv'
  <2>1. \A q \in Servers, w \in Pipes : pipe'[q][w] = "taken" <=> pipe[q][w] = "taken"
    BY <1>9 DEF Bind, Types
  <2>2. \A x \in Clients, q \in Servers, w \in Pipes : Pending(x, q, w)' <=> Pending(x, q, w)
    BY <1>9 DEF Bind, Pending
  <2>. QED BY <2>1, <2>2, PairStays
<1>10. ASSUME NEW p \in Servers, NEW v \in Pipes, Accept(p, v) PROVE PairInv'
  BY <1>10, AcceptPairs
<1>11. ASSUME NEW p \in Servers, NEW v \in Pipes, Stop(p, v) PROVE PairInv'
  BY <1>11, ClosePairs DEF Stop
<1>12. ASSUME NEW p \in Servers, NEW v \in Pipes, ServerFails(p, v) PROVE PairInv'
  BY <1>12, ClosePairs DEF ServerFails
<1>13. ASSUME NEW c \in Children, Launch(c) PROVE PairInv'
  BY <1>13, OthersStay DEF Launch
<1>14. ASSUME NEW c \in Children, ChildExits(c) PROVE PairInv'
  BY <1>14, CallCleared DEF ChildExits, Dies, Calling, Opening
<1>15. ASSUME NEW c \in Children, ChildWaited(c) PROVE PairInv'
  BY <1>15, OthersStay DEF ChildWaited
<1>16. ASSUME NEW c \in Children, ChildAsks(c) PROVE PairInv'
  BY <1>16, CallStarts DEF ChildAsks
<1>17. ASSUME NEW x \in Callers, CallerAsks(x) PROVE PairInv'
  BY <1>17, CallStarts DEF CallerAsks
<1>18. ASSUME NEW x \in Callers, StatusCleansUp(x) PROVE PairInv'
  BY <1>18, OthersStay DEF StatusCleansUp, Calls
<1>19. ASSUME NEW x \in Clients, OpenPipe(x) PROVE PairInv'
  BY <1>19, OpenPairs
<1>20. ASSUME NEW x \in Clients, OpenFails(x) PROVE PairInv'
  BY <1>20, CallEnds DEF OpenFails, Answers
<1>21. ASSUME NEW x \in Clients, AnswerStatus(x) PROVE PairInv'
  BY <1>21, CallEnds DEF AnswerStatus, Answer, Answers
<1>22. ASSUME NEW x \in Clients, AnswerLock(x) PROVE PairInv'
  BY <1>22, CallEnds DEF AnswerLock, Answer, Answers
<1>23. ASSUME NEW x \in Clients, AnswerGet(x) PROVE PairInv'
  BY <1>23, CallEnds DEF AnswerGet, Answer, Answers
<1>24. ASSUME NEW x \in Clients, HandlerEnds(x) PROVE PairInv'
  BY <1>24, CallEnds DEF HandlerEnds, Answer, Answers
<1>26. ASSUME NEW c \in Children, WaitFails(c) PROVE PairInv'
  BY <1>26, OthersStay DEF WaitFails
<1>27. ASSUME NEW c \in Children, CloseJob(c) PROVE PairInv'
  BY <1>27, CallCleared DEF CloseJob, Dies, Calling, Opening
<1>25. CASE UNCHANGED vars
  BY <1>25, OthersStay DEF vars
<1>. QED BY <1>0, <1>1, <1>2, <1>3, <1>4, <1>5, <1>6, <1>7, <1>8, <1>9, <1>10, <1>11,
  <1>12, <1>13, <1>14, <1>15, <1>16, <1>17, <1>18, <1>19, <1>20, <1>21, <1>22,
  <1>23, <1>24, <1>25, <1>26, <1>27 DEF Next

LEMMA PairInvHolds == Spec => [](NewInv /\ PairInv)
<1>1. Init => NewInv /\ PairInv
  BY MachineAssumption DEF Init, NewInv, PairInv, Pending, NoCall, Clients
<1>2. MachineInv /\ NewInv /\ PairInv /\ [Next]_vars => (NewInv /\ PairInv)'
  BY NewKeeps, PairKeeps
<1>. QED BY <1>1, <1>2, MachineInvariant, PTL DEF Spec

\* However many commands and programs call, and whatever stops or dies, each connection
\* that waits has its instance, and each instance that is taken its one connection.
THEOREM NoneForgotten == Spec => []NoConnectionForgotten
<1>1. ASSUME MachineInv, PairInv PROVE NoConnectionForgotten
  <2>1. ASSUME NEW x \in Clients, call[x].step = "taken"
        PROVE  pipe[call[x].to][PipeOf(call[x].op)] = "taken"
    <3>1. call[x].to \in Servers
      BY <1>1, <2>1 DEF MachineInv, CallInv, Calls
    <3>2. Pending(x, call[x].to, PipeOf(call[x].op)) /\ PipeOf(call[x].op) \in Pipes
      BY <2>1, PipesOfCalls DEF Pending
    <3>. QED BY <1>1, <3>1, <3>2 DEF PairInv
  <2>2. ASSUME NEW p \in Servers, NEW v \in Pipes, pipe[p][v] = "taken"
        PROVE  \E x \in Clients : Waiting(p, v) = {x}
    <3>1. PICK x \in Clients : Pending(x, p, v)
      BY <1>1, <2>2 DEF PairInv
    <3>2. {y \in Clients : Pending(y, p, v)} = {x}
      BY <1>1, <3>1 DEF PairInv
    <3>. QED BY <3>2, WaitingIsPending
  <2>. QED BY <2>1, <2>2 DEF NoConnectionForgotten
<1>. QED BY <1>1, MachineInvariant, PairInvHolds, PTL
=============================================================================
