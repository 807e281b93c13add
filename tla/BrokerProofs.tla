---------------------------- MODULE BrokerProofs ----------------------------
(***************************************************************************)
(* Proofs about Broker, for any clients, control connections, secrets,     *)
(* rules, grants and bounds, and for both commands.                        *)
(***************************************************************************)
EXTENDS Broker, SessionManagerProofs

Starting == {"unlock", "start"}
NoneInHand == {"off", "wait"}

\* What is known of a request by the step its handler stands at.
RequestInv ==
  \A c \in Clients :
    /\ At(c, "off") \/ At(c, "wait") => req[c] = NoRequest
    /\ pc[c] \notin NoneInHand => req[c] \in Requests
    /\ At(c, "verify") => req[c].name \in Secrets \cup {All}
    /\ pc[c] \in {"lookup", "granted", "session", "read"} => req[c].name \in Secrets
    /\ pc[c] \notin NoneInHand \cup {"reply"} => req[c].answer = "none"
    /\ At(c, "list") \/ (At(c, "reply") /\ req[c].answer = "names") => req[c].name = All
    /\ At(c, "granted") => c = Child

TypeInv == BrokerTypeOK /\ OneSessionPerId /\ RequestInv
-----------------------------------------------------------------------------
(* Types *)

LEMMA InitTypeInv == Init => TypeInv
<1>. SUFFICES ASSUME Init PROVE TypeInv
  OBVIOUS
<1>1. SessionInv
  BY InitSessionInv DEF Init
<1>2. \A h \in Holders : arcs[h] = NoSession
  BY DEF Init, InitSession
<1>3. BrokerTypeOK
  <2>1. asked \in 0..MaxRequests
    BY BrokerAssumption DEF Init
  <2>2. \A c \in Clients : arcs[c] # NoSession <=> pc[c] = "read"
    BY <1>2, BrokerAssumption DEF Init
  <2>. QED BY <1>1, <2>1, <2>2 DEF Init, BrokerTypeOK, SessionInv
<1>4. RequestInv
  BY DEF Init, RequestInv, At, NoneInHand
<1>. QED BY <1>1, <1>3, <1>4 DEF TypeInv, SessionInv

\* The session's variables change as SessionManager says, or the process goes.
LEMMA SessionSteps == Next => [NextSession]_sessionVars \/ Gone
<1>. SUFFICES ASSUME Next PROVE [NextSession]_sessionVars \/ Gone
  OBVIOUS
<1>. USE BrokerAssumption
<1>1. CASE UnlockVault
  BY <1>1 DEF UnlockVault, NextSession
<1>2. CASE StartSession
  BY <1>2 DEF StartSession, NextSession
<1>3. CASE FailStart \/ Exit
  BY <1>3 DEF FailStart, Exit
<1>4. CASE EndSession
  BY <1>4 DEF EndSession, NextSession
<1>5. CASE Expire \/ Time
  BY <1>5 DEF Expire, Time, NextSession
<1>6. CASE \E c \in Clients : GrantedSession(c) \/ Session(c) \/ ReadSecret(c)
  <2>1. PICK c \in Clients : GrantedSession(c) \/ Session(c) \/ ReadSecret(c)
    BY <1>6
  <2>2. Borrow(c) \/ GiveBack(c) \/ UNCHANGED sessionVars
    BY <2>1 DEF GrantedSession, Session, ReadSecret, ReadVault, NoVault, HandlerStep,
                sessionVars
  <2>. QED BY <2>2 DEF NextSession
<1>7. CASE \/ CreateChild \/ RegisterGrant \/ ResumeChild \/ ChildWaited \/ CloseJob
           \/ ChildExits \/ WaitFails
           \/ KillAfterChild \/ PassKill \/ CtrlC
           \/ \E v \in Servers : OpenServer(v) \/ ServerFails(v) \/ StopServer(v)
           \/ \E r \in pending : AuditWrite(r)
           \/ \E a \in Admins : AdminLock(a) \/ AdminSend(a) \/ AdminAck(a)
  <2>1. UNCHANGED sessionVars
    BY <1>7 DEF CreateChild, RegisterGrant, ResumeChild, ChildWaited, CloseJob, ChildExits, WaitFails,
                Launch,
                KillAfterChild, PassKill, CtrlC, OpenServer, ServerFails, StopServer,
                AuditWrite, AdminLock, AdminSend, AdminAck
  <2>. QED BY <2>1
<1>8. CASE \E c \in Clients : \/ Connect(c) \/ Disconnect(c) \/ Receive(c)
                              \/ VerifyGrant(c) \/ LookupGrant(c) \/ ListSecrets(c) \/ Reply(c)
  <2>1. UNCHANGED sessionVars
    BY <1>8 DEF Connect, Disconnect, Receive, VerifyGrant, LookupGrant, ListSecrets, Reply,
                HandlerStep, sessionVars
  <2>. QED BY <2>1
<1>. QED
  BY <1>1, <1>2, <1>3, <1>4, <1>5, <1>6, <1>7, <1>8 DEF Next, CommandStep, Handle, Decide

LEMMA SessionStep ==
  ASSUME TypeInv, [Next]_vars
  PROVE  SessionTypeOK' /\ OneSessionPerId'
<1>1. SessionInv
  BY DEF TypeInv, BrokerTypeOK, SessionInv
<1>2. CASE [NextSession]_sessionVars
  BY <1>1, <1>2, StepKeepsInv DEF SessionInv
<1>3. CASE Gone
  BY <1>1, <1>3 DEF Gone, SessionInv, SessionTypeOK, OneSessionPerId, Known
<1>4. CASE UNCHANGED vars
  <2>1. UNCHANGED sessionVars
    BY <1>4 DEF vars
  <2>. QED BY <1>2, <2>1
<1>. QED BY <1>2, <1>3, <1>4, SessionSteps

\* Steps that leave the handlers and what they have answered as they are.
HandlersStay == /\ UNCHANGED <<handlerVars, auditVars>>
                /\ \A c \in Clients : arcs'[c] = arcs[c]

LEMMA CommandType ==
  ASSUME TypeInv, SessionTypeOK',
         \/ (CommandStep /\ ~Gone) \/ ChildExits \/ WaitFails \/ Expire \/ Time \/ PassKill \/ CtrlC
         \/ \E v \in Servers : OpenServer(v) \/ ServerFails(v) \/ StopServer(v)
  PROVE  BrokerTypeOK' /\ HandlersStay
<1>. USE DEF TypeInv
<1>1. CASE UnlockVault
  <2>1. \A c \in Clients : arcs'[c] = arcs[c]
    BY <1>1, BrokerAssumption DEF UnlockVault, New, BrokerTypeOK, SessionTypeOK
  <2>. QED
    BY <1>1, <2>1 DEF UnlockVault, BrokerTypeOK, HandlersStay, serverVars, handlerVars,
                      auditVars
<1>2. CASE StartSession
  BY <1>2 DEF StartSession, Start, BrokerTypeOK, HandlersStay, serverVars, handlerVars,
              auditVars
<1>3. CASE \/ CreateChild \/ RegisterGrant \/ ResumeChild \/ ChildWaited \/ CloseJob
           \/ ChildExits \/ WaitFails
  BY <1>3 DEF CreateChild, RegisterGrant, ResumeChild, ChildWaited, CloseJob, ChildExits, WaitFails,
              Launch,
              BrokerTypeOK, HandlersStay, serverVars, handlerVars, auditVars, sessionVars
<1>4. CASE KillAfterChild \/ PassKill \/ CtrlC
  BY <1>4 DEF KillAfterChild, PassKill, CtrlC, SendKill,
              BrokerTypeOK, HandlersStay, serverVars, handlerVars, auditVars, sessionVars
<1>5. CASE EndSession
  BY <1>5 DEF EndSession, End, BrokerTypeOK, HandlersStay, serverVars, handlerVars, auditVars
<1>6. CASE Expire \/ Time
  BY <1>6 DEF Expire, TimerWake, Time, Tick, BrokerTypeOK, HandlersStay, serverVars,
              handlerVars, auditVars
<1>7. CASE \E v \in Servers : OpenServer(v) \/ ServerFails(v) \/ StopServer(v)
  BY <1>7 DEF OpenServer, ServerFails, StopServer,
              BrokerTypeOK, HandlersStay, serverVars, handlerVars, auditVars, sessionVars
<1>. QED
  BY <1>1, <1>2, <1>3, <1>4, <1>5, <1>6, <1>7 DEF CommandStep, FailStart, Exit

LEMMA GoneType ==
  ASSUME TypeInv, SessionTypeOK', Gone
  PROVE  BrokerTypeOK' /\ RequestInv'
<1>1. BrokerTypeOK'
  BY BrokerAssumption DEF TypeInv, BrokerTypeOK, Gone, serverVars
<1>2. RequestInv'
  BY DEF Gone, RequestInv, At, NoneInHand
<1>. QED BY <1>1, <1>2

LEMMA AdminType ==
  ASSUME TypeInv, SessionTypeOK', NEW a \in Admins, AdminLock(a) \/ AdminSend(a) \/ AdminAck(a)
  PROVE  BrokerTypeOK' /\ HandlersStay
BY DEF AdminLock, AdminSend, AdminAck, Ctl, SendKill, TypeInv,
       BrokerTypeOK, HandlersStay, serverVars, handlerVars, auditVars, sessionVars

\* A record is written or lost: it stays a record.
LEMMA AuditType ==
  ASSUME TypeInv, SessionTypeOK', NEW r \in pending, AuditWrite(r)
  PROVE  BrokerTypeOK' /\ UNCHANGED handlerVars
BY DEF AuditWrite, TypeInv, BrokerTypeOK, serverVars, handlerVars, sessionVars

LEMMA ConnectionType ==
  ASSUME TypeInv, SessionTypeOK', NEW c \in Clients, Connect(c) \/ Disconnect(c) \/ Receive(c)
  PROVE  BrokerTypeOK' /\ RequestInv'
<1>. USE DEF TypeInv
<1>1. CASE Connect(c) \/ Disconnect(c)
  BY <1>1 DEF Connect, Disconnect, Goto, At, BrokerTypeOK, RequestInv, NoneInHand,
              serverVars, auditVars, sessionVars
<1>2. CASE Receive(c)
  <2>1. PICK n \in Names :
          /\ req' = [req EXCEPT ![c] = [num |-> asked + 1, name |-> n, live |-> Active,
                                        answer |-> IF n = Malformed THEN "refused" ELSE "none"]]
          /\ Goto(c, IF n = Malformed THEN "reply" ELSE "verify")
    BY <1>2 DEF Receive
  <2>2. asked + 1 \in 1..MaxRequests
    BY <1>2, BrokerAssumption DEF Receive, BrokerTypeOK
  <2>3. req'[c] \in Requests
    BY <2>1, <2>2 DEF BrokerTypeOK, Requests, Answers, Active
  <2>4. BrokerTypeOK'
    BY <1>2, <2>1, <2>2, <2>3 DEF Receive, Goto, At, BrokerTypeOK, serverVars, auditVars, sessionVars
  <2>5. RequestInv'
    BY <1>2, <2>1, <2>3 DEF Receive, Goto, At, Names, BrokerTypeOK, RequestInv, NoneInHand
  <2>. QED BY <2>4, <2>5
<1>. QED BY <1>1, <1>2

\* A handler that has its answer keeps the rest of its request.
LEMMA AnswerKeeps ==
  ASSUME TypeInv, NEW c \in Clients, pc[c] \notin NoneInHand, NEW a \in Answers, Answer(c, a)
  PROVE  /\ pc' = [pc EXCEPT ![c] = "reply"] /\ req' = [req EXCEPT ![c] = req'[c]]
         /\ req'[c] \in Requests
         /\ req'[c].num = req[c].num /\ req'[c].name = req[c].name
         /\ req'[c].live = req[c].live /\ req'[c].answer = a
BY DEF Answer, Goto, TypeInv, BrokerTypeOK, RequestInv, Requests

LEMMA AuditRecords ==
  ASSUME TypeInv, NEW c \in Clients, pc[c] \in {"session", "read"},
         NEW type \in {"allowed", "denied"}, Audit(c, type)
  PROVE  pending' \subseteq Records
<1>1. req[c] \in Requests /\ req[c].name \in Secrets
  BY DEF TypeInv, RequestInv, NoneInHand
<1>2. [num |-> req[c].num, type |-> type, name |-> req[c].name] \in Records
  BY <1>1 DEF Requests, Records
<1>. QED BY <1>2 DEF Audit, TypeInv, BrokerTypeOK

\* What a step of a handler does to its own request, to its hold on the vault
\* and to the records: it goes on with the request, or has its answer ready.
Advance(c, step) ==
  /\ Goto(c, step) /\ UNCHANGED <<req, told, pending>>
  /\ step = "list" => At(c, "verify") /\ req[c].name = All
  /\ step = "lookup" => At(c, "verify") /\ req[c].name # All
  /\ step \in {"granted", "session"} => At(c, "lookup")
  /\ step = "granted" => c = Child /\ req[c].name \in GrantSecrets
  /\ step = "session" => c # Child \/ ~grant \/ child # "running"
  /\ step = "read" => /\ Borrow(c)
                      /\ At(c, "granted") \/ (At(c, "session") /\ <<c, req[c].name>> \in Rules)
  /\ step # "read" => UNCHANGED arcs

Conclude(c, a) ==
  /\ ~At(c, "reply") /\ Answer(c, a) /\ a # "none" /\ UNCHANGED told
  /\ a = "names" => Active /\ At(c, "list") /\ c \in Listers
  /\ IF At(c, "read") THEN GiveBack(c) ELSE UNCHANGED arcs
  /\ \/ UNCHANGED pending /\ a # "value"
     \/ Audit(c, "allowed") /\ At(c, "read") /\ a = "value"
     \/ Audit(c, "denied") /\ At(c, "session") /\ a # "value"

HandlerMoves(c) ==
  /\ HandlerStep(c)
  /\ \/ \E step \in {"list", "lookup", "granted", "session", "read"} : Advance(c, step)
     \/ \E a \in Answers : Conclude(c, a)
     \/ Reply(c)

LEMMA HandleMoves ==
  ASSUME TypeInv, NEW c \in Clients, Handle(c)
  PROVE  HandlerMoves(c) /\ pc[c] \notin NoneInHand
<1>. USE DEF HandlerMoves, Advance, Conclude, NoneInHand, Answers
<1>1. CASE VerifyGrant(c)
  BY <1>1 DEF VerifyGrant, At
<1>2. CASE LookupGrant(c)
  BY <1>2 DEF LookupGrant, At, SeenAlive, Alive
<1>3. CASE GrantedSession(c)
  BY <1>3 DEF GrantedSession, NoVault, ReadVault, At
<1>4. CASE Session(c)
  BY <1>4 DEF Session, NoVault, ReadVault, At
<1>5. CASE ReadSecret(c)
  BY <1>5 DEF ReadSecret, At
<1>6. CASE ListSecrets(c)
  BY <1>6 DEF ListSecrets, At
<1>7. CASE Reply(c)
  BY <1>7 DEF Reply, At
<1>. QED BY <1>1, <1>2, <1>3, <1>4, <1>5, <1>6, <1>7 DEF Handle, Decide

LEMMA HandlerType ==
  ASSUME TypeInv, SessionTypeOK', NEW c \in Clients, Handle(c)
  PROVE  BrokerTypeOK' /\ RequestInv'
<1>. USE BrokerAssumption DEF TypeInv, NoneInHand
<1>1. /\ HandlerMoves(c) /\ pc[c] \notin NoneInHand /\ HandlerStep(c)
      /\ pc \in [Clients -> {"off", "wait", "verify", "list", "lookup", "granted", "session",
                             "read", "reply"}]
      /\ req \in [Clients -> Requests \cup {NoRequest}]
      /\ told \subseteq [client : Clients, request : Requests]
      /\ arcs \in [Holders -> Ids \cup {NoSession}]
      /\ req[c] \in Requests
  BY HandleMoves DEF HandlerMoves, BrokerTypeOK, SessionTypeOK, RequestInv
<1>2. ASSUME NEW step \in {"list", "lookup", "granted", "session", "read"}, Advance(c, step)
      PROVE  BrokerTypeOK' /\ RequestInv'
  <2>2. /\ pc' = [pc EXCEPT ![c] = step]
        /\ step = "read" => slot.id # NoSession /\ arcs' = [arcs EXCEPT ![c] = slot.id]
    BY <1>2, SessionAssumption
       DEF Advance, Goto, Borrow, Active, BrokerTypeOK, SessionTypeOK, Sessions
  <2>3. \A d \in Clients : arcs'[d] # NoSession <=> pc'[d] = "read"
    BY <1>1, <1>2, <2>2 DEF Advance, BrokerTypeOK, At
  <2>4. BrokerTypeOK'
    BY <1>1, <1>2, <2>2, <2>3 DEF Advance, BrokerTypeOK, HandlerStep, serverVars
  <2>5. RequestInv'
    BY <1>1, <1>2, <2>2 DEF Advance, RequestInv, At
  <2>. QED BY <2>4, <2>5
<1>3. ASSUME NEW a \in Answers, Conclude(c, a)
      PROVE  BrokerTypeOK' /\ RequestInv'
  <2>1. /\ pc' = [pc EXCEPT ![c] = "reply"] /\ req' = [req EXCEPT ![c] = req'[c]]
        /\ req'[c] \in Requests /\ req'[c].name = req[c].name /\ req'[c].answer = a
    BY <1>1, <1>3, AnswerKeeps DEF Conclude
  <2>2. pending' \subseteq Records
    BY <1>3, AuditRecords DEF Conclude, BrokerTypeOK, At
  <2>3. \A d \in Clients : arcs'[d] # NoSession <=> pc'[d] = "read"
    BY <1>1, <1>3, <2>1 DEF Conclude, BrokerTypeOK, At, GiveBack
  <2>4. req' \in [Clients -> Requests \cup {NoRequest}]
    BY <1>1, <2>1
  <2>5. BrokerTypeOK'
    BY <1>1, <1>3, <2>1, <2>2, <2>3, <2>4 DEF Conclude, BrokerTypeOK, HandlerStep, serverVars
  <2>6. RequestInv'
    BY <1>1, <1>3, <2>1 DEF Conclude, RequestInv, At
  <2>. QED BY <2>5, <2>6
<1>4. CASE Reply(c)
  <2>1. /\ req' = [req EXCEPT ![c] = NoRequest]
        /\ pc' \in {[pc EXCEPT ![c] = "off"], [pc EXCEPT ![c] = "wait"]}
        /\ told' \subseteq [client : Clients, request : Requests]
        /\ At(c, "reply") /\ UNCHANGED <<arcs, pending>>
    BY <1>1, <1>4 DEF Reply, Goto
  <2>2. \A d \in Clients : arcs'[d] # NoSession <=> pc'[d] = "read"
    BY <1>1, <2>1 DEF BrokerTypeOK, At
  <2>3. BrokerTypeOK'
    BY <1>1, <2>1, <2>2 DEF BrokerTypeOK, HandlerStep, serverVars
  <2>4. RequestInv'
    BY <1>1, <2>1 DEF RequestInv, At
  <2>. QED BY <2>3, <2>4
<1>. QED BY <1>1, <1>2, <1>3, <1>4 DEF HandlerMoves

LEMMA TypeStep == TypeInv /\ [Next]_vars => TypeInv'
<1>. SUFFICES ASSUME TypeInv, [Next]_vars PROVE TypeInv'
  OBVIOUS
<1>. USE DEF TypeInv
<1>1. SessionTypeOK' /\ OneSessionPerId'
  BY SessionStep
<1>2. HandlersStay => RequestInv'
  BY DEF HandlersStay, handlerVars, RequestInv, At
<1>3. CASE CommandStep
  <2>1. CASE Gone
    BY <1>1, <2>1, GoneType
  <2>. QED BY <1>1, <1>2, <1>3, <2>1, CommandType
<1>4. CASE \/ ChildExits \/ WaitFails \/ Expire \/ Time \/ PassKill \/ CtrlC
           \/ \E v \in Servers : OpenServer(v) \/ ServerFails(v) \/ StopServer(v)
  BY <1>1, <1>2, <1>4, CommandType
<1>5. CASE \E c \in Clients : Connect(c) \/ Disconnect(c) \/ Receive(c)
  BY <1>1, <1>5, ConnectionType
<1>6. CASE \E c \in Clients : Handle(c)
  BY <1>1, <1>6, HandlerType
<1>7. CASE \E r \in pending : AuditWrite(r)
  <2>1. BrokerTypeOK' /\ UNCHANGED handlerVars
    BY <1>1, <1>7, AuditType
  <2>. QED BY <1>1, <2>1 DEF handlerVars, RequestInv, At
<1>8. CASE \E a \in Admins : AdminLock(a) \/ AdminSend(a) \/ AdminAck(a)
  BY <1>1, <1>2, <1>8, AdminType
<1>9. CASE UNCHANGED vars
  <2>1. BrokerTypeOK'
    BY <1>9, <1>1 DEF vars, sessionVars, serverVars, handlerVars, auditVars, BrokerTypeOK
  <2>2. RequestInv'
    BY <1>9 DEF vars, handlerVars, RequestInv, At
  <2>. QED BY <1>1, <2>1, <2>2
<1>. QED BY <1>3, <1>4, <1>5, <1>6, <1>7, <1>8, <1>9 DEF Next
-----------------------------------------------------------------------------
(* Requests and the session *)

\* Nobody is served before the session is in its slot.
GateInv == main \in Starting => /\ \A v \in Servers : server[v] = "new"
                               /\ \A c \in Clients : At(c, "off")

\* A request in hand that came to a live session, and one that is being served.
LiveInv ==
  \A c \in Clients : pc[c] \notin NoneInHand =>
    /\ Active => req[c].live
    /\ At(c, "read") => req[c].live
    /\ At(c, "reply") /\ req[c].answer \in {"value", "names"} => req[c].live

\* Nothing leads back to the command's first steps.
LEMMA StartsOnce ==
  ASSUME [Next]_vars, main' \in Starting
  PROVE  main \in Starting
BY DEF Next, CommandStep, UnlockVault, StartSession, FailStart, Exit, Gone, CreateChild,
       RegisterGrant, ResumeChild, ChildWaited, CloseJob, ChildExits, WaitFails,
       Launch, KillAfterChild,
       EndSession, PassKill, CtrlC, OpenServer, ServerFails, StopServer, Expire, Time,
       AuditWrite, AdminLock, AdminSend, AdminAck, Connect, Disconnect, Receive,
       Handle, Decide, VerifyGrant, LookupGrant, GrantedSession, Session, ReadSecret,
       ListSecrets, Reply, HandlerStep, vars, Starting

LEMMA GateStep == TypeInv /\ GateInv /\ [Next]_vars => GateInv'
<1>. SUFFICES ASSUME TypeInv, GateInv, [Next]_vars, main' \in Starting
              PROVE  /\ \A v \in Servers : server'[v] = "new"
                     /\ \A c \in Clients : pc'[c] = "off"
  BY DEF GateInv, At
<1>1. /\ main \in Starting
      /\ \A v \in Servers : server[v] = "new"
      /\ \A c \in Clients : pc[c] = "off"
  BY StartsOnce DEF GateInv, At
<1>2. ASSUME NEW c \in Clients
      PROVE  ~(Connect(c) \/ Disconnect(c) \/ Receive(c) \/ Handle(c))
  BY <1>1 DEF Connect, Disconnect, Receive, Handle, Decide, VerifyGrant,
              LookupGrant, GrantedSession,
              Session, ReadSecret, ListSecrets, Reply, At, Servers
<1>3. ~\E v \in Servers : OpenServer(v) \/ ServerFails(v) \/ StopServer(v)
  BY <1>1 DEF OpenServer, ServerFails, StopServer, Serving, Starting
<1>4. UNCHANGED <<server, pc>>
  BY <1>2, <1>3
     DEF Next, CommandStep, UnlockVault, StartSession, FailStart, Exit, Gone, CreateChild,
         RegisterGrant, ResumeChild, ChildWaited, CloseJob, ChildExits, WaitFails,
         Launch, KillAfterChild,
         EndSession, PassKill, CtrlC, Expire, Time, AuditWrite, AdminLock, AdminSend,
         AdminAck, vars, serverVars, handlerVars, Starting
<1>. QED BY <1>1, <1>4

\* Once it has started, a session that is not active never is again.
LEMMA Fades ==
  ASSUME TypeInv, [Next]_vars, main # "start", Active'
  PROVE  Active
<1>1. slot' \in {slot, NoSession} /\ now' \in {now, now + 1}
  <2>1. CASE Expire \/ Time \/ EndSession \/ UnlockVault \/ FailStart \/ Exit
    BY <2>1 DEF Expire, TimerWake, Time, Tick, EndSession, End, UnlockVault, New, FailStart,
                Exit, Gone
  <2>2. CASE \E c \in Clients : Handle(c)
    BY <2>2 DEF Handle, Decide, VerifyGrant, LookupGrant, GrantedSession, Session, ReadSecret,
                ListSecrets, Reply, HandlerStep
  <2>3. CASE UNCHANGED sessionVars
    BY <2>3 DEF sessionVars
  <2>. QED
    BY <2>1, <2>2, <2>3
       DEF Next, CommandStep, StartSession, CreateChild, RegisterGrant, ResumeChild,
           ChildWaited, CloseJob, ChildExits, WaitFails,
           Launch, KillAfterChild, PassKill, CtrlC, OpenServer,
           ServerFails, StopServer, Connect, Disconnect, Receive, AuditWrite, AdminLock,
           AdminSend, AdminAck, vars
<1>2. now \in Nat /\ (slot # NoSession => slot.expires = Never \/ slot.expires \in Nat)
  BY SessionAssumption DEF TypeInv, BrokerTypeOK, SessionTypeOK, Sessions
<1>. QED BY <1>1, <1>2 DEF Active, Expired

LEMMA LiveStep ==
  ASSUME TypeInv, GateInv, LiveInv, ServedOnlyWhileActive, [Next]_vars
  PROVE  LiveInv' /\ ServedOnlyWhileActive'
<1>. USE DEF TypeInv
<1>1. ASSUME UNCHANGED <<pc, req, told>> PROVE LiveInv' /\ ServedOnlyWhileActive'
  <2>1. CASE main = "start"
    BY <1>1, <2>1 DEF GateInv, Starting, LiveInv, ServedOnlyWhileActive, Told, At, NoneInHand
  <2>2. CASE main # "start"
    BY <1>1, <2>2, Fades DEF LiveInv, ServedOnlyWhileActive, Told, At
  <2>. QED BY <2>1, <2>2
<1>2. CASE Gone
  BY <1>2 DEF Gone, LiveInv, ServedOnlyWhileActive, Told, NoneInHand
<1>3. ASSUME NEW c \in Clients, Connect(c) \/ Disconnect(c) \/ Receive(c)
      PROVE  LiveInv' /\ ServedOnlyWhileActive'
  <2>1. Active' = Active /\ UNCHANGED told
    BY <1>3 DEF Connect, Disconnect, Receive, sessionVars, Active, Expired
  <2>2. \A d \in Clients \ {c} : pc'[d] = pc[d] /\ req'[d] = req[d]
    BY <1>3 DEF Connect, Disconnect, Receive, Goto, BrokerTypeOK
  <2>3. pc'[c] \in NoneInHand \/ (req'[c].live = Active /\ pc'[c] # "read"
                                  /\ req'[c].answer \in {"none", "refused"})
    BY <1>3 DEF Connect, Disconnect, Receive, Goto, BrokerTypeOK, NoneInHand
  <2>. QED BY <2>1, <2>2, <2>3 DEF LiveInv, ServedOnlyWhileActive, Told, At
<1>4. ASSUME NEW c \in Clients, Handle(c)
      PROVE  LiveInv' /\ ServedOnlyWhileActive'
  <2>1. /\ HandlerMoves(c) /\ pc[c] \notin NoneInHand /\ HandlerStep(c)
        /\ Active' = Active
    BY <1>4, HandleMoves DEF HandlerMoves, HandlerStep, Active, Expired
  <2>2. ASSUME NEW step \in {"list", "lookup", "granted", "session", "read"}, Advance(c, step)
        PROVE  LiveInv' /\ ServedOnlyWhileActive'
    BY <2>1, <2>2 DEF Advance, Goto, Borrow, LiveInv, ServedOnlyWhileActive, Told, At,
                      BrokerTypeOK, NoneInHand
  <2>3. ASSUME NEW a \in Answers, Conclude(c, a)
        PROVE  LiveInv' /\ ServedOnlyWhileActive'
    <3>1. /\ pc' = [pc EXCEPT ![c] = "reply"] /\ req' = [req EXCEPT ![c] = req'[c]]
          /\ req'[c].live = req[c].live /\ req'[c].answer = a
      BY <2>1, <2>3, AnswerKeeps DEF Conclude
    <3>2. a \in {"names", "value"} => req[c].live
      BY <2>1, <2>3 DEF Conclude, LiveInv
    <3>. QED
      BY <2>1, <2>3, <3>1, <3>2 DEF Conclude, LiveInv, ServedOnlyWhileActive, Told, At,
                                    BrokerTypeOK
  <2>4. CASE Reply(c)
    <3>1. /\ At(c, "reply") /\ pc'[c] \in NoneInHand
          /\ \A d \in Clients \ {c} : pc'[d] = pc[d] /\ req'[d] = req[d]
          /\ told' \subseteq told \cup {[client |-> c, request |-> req[c]]}
      BY <2>4 DEF Reply, Goto, BrokerTypeOK, NoneInHand
    <3>2. LiveInv'
      BY <2>1, <3>1 DEF LiveInv, At
    <3>3. req[c].answer \in {"value", "names"} => req[c].live
      BY <2>1, <3>1 DEF LiveInv
    <3>4. ASSUME NEW t \in told', t.request.answer \in {"value", "names"}
          PROVE  t.request.live
      <4>1. CASE t \in told
        BY <3>4, <4>1 DEF ServedOnlyWhileActive, Told
      <4>2. CASE t = [client |-> c, request |-> req[c]]
        <5>1. t.request = req[c]
          BY <4>2
        <5>. QED BY <3>3, <3>4, <5>1
      <4>3. t \in told \cup {[client |-> c, request |-> req[c]]}
        BY <3>1, <3>4
      <4>. QED BY <4>1, <4>2, <4>3
    <3>5. ServedOnlyWhileActive'
      BY <3>4 DEF ServedOnlyWhileActive, Told
    <3>. QED BY <3>2, <3>5
  <2>. QED BY <2>1, <2>2, <2>3, <2>4 DEF HandlerMoves
<1>. QED
  BY <1>1, <1>2, <1>3, <1>4
     DEF Next, CommandStep, UnlockVault, StartSession, FailStart, Exit, CreateChild,
         RegisterGrant, ResumeChild, ChildWaited, CloseJob, ChildExits, WaitFails,
         Launch, KillAfterChild,
         EndSession, PassKill, CtrlC, OpenServer, ServerFails, StopServer, Expire, Time,
         AuditWrite, AdminLock, AdminSend, AdminAck, vars, handlerVars
-----------------------------------------------------------------------------
(* The launched process and its grant *)

\* Where the child stands, and that its handler never takes it for a client
\* without a grant while it runs.
ChildInv ==
  /\ main \in Starting \cup {"launch"} => child = "none"
  /\ main \in {"register", "resume"} => child = "suspended"
  /\ main = "resume" => grant
  /\ child = "running" => (main = "wait" /\ grant) \/ main = "abandon"
  /\ ~At(Child, "off") => child \in {"running", "exited"}
  /\ At(Child, "session") => child = "exited" \/ main = "abandon"
  /\ At(Child, "granted") => req[Child].name \in GrantSecrets
  /\ At(Child, "read") \/ (At(Child, "reply") /\ req[Child].answer = "value") =>
       \/ child = "exited" \/ req[Child].name \in GrantSecrets
       \/ main = "abandon" /\ <<Child, req[Child].name>> \in Rules

LEMMA ChildStep ==
  ASSUME TypeInv, ChildInv, [Next]_vars
  PROVE  ChildInv'
<1>. USE BrokerAssumption DEF TypeInv, Starting
<1>1. CASE UNCHANGED <<main, child, grant, pc, req>>
  BY <1>1 DEF ChildInv, At
<1>2. CASE UnlockVault \/ StartSession \/ KillAfterChild \/ EndSession
  BY <1>2 DEF UnlockVault, StartSession, KillAfterChild, EndSession, handlerVars, ChildInv, At
<1>3. CASE CreateChild \/ RegisterGrant \/ ResumeChild
  BY <1>3 DEF CreateChild, RegisterGrant, ResumeChild, Launch, handlerVars, ChildInv, At
<1>4. CASE ChildExits \/ ChildWaited \/ WaitFails \/ CloseJob
  BY <1>4 DEF ChildExits, ChildWaited, WaitFails, CloseJob, Launch, handlerVars, ChildInv, At
<1>5. CASE FailStart \/ Exit
  BY <1>5 DEF FailStart, Exit, Gone, ChildInv, At
<1>6. ASSUME NEW c \in Clients, Connect(c) \/ Disconnect(c) \/ Receive(c)
      PROVE  ChildInv'
  <2>1. UNCHANGED <<main, child, grant>>
    BY <1>6 DEF Connect, Disconnect, Receive
  <2>2. c # Child => pc'[Child] = pc[Child] /\ req'[Child] = req[Child]
    BY <1>6 DEF Connect, Disconnect, Receive, Goto, BrokerTypeOK
  <2>3. c = Child => /\ ~At(Child, "off") \/ child = "running"
                     /\ \/ pc'[Child] \in {"off", "wait", "verify"}
                        \/ pc'[Child] = "reply" /\ req'[Child].answer = "refused"
    BY <1>6 DEF Connect, Disconnect, Receive, Goto, Alive, At, BrokerTypeOK
  <2>. QED BY <2>1, <2>2, <2>3 DEF ChildInv, At
<1>7. ASSUME NEW c \in Clients, Handle(c)
      PROVE  ChildInv'
  <2>1. /\ HandlerMoves(c) /\ pc[c] \notin NoneInHand
        /\ UNCHANGED <<main, child, grant>>
    BY <1>7, HandleMoves DEF HandlerMoves, HandlerStep
  <2>2. ASSUME NEW step \in {"list", "lookup", "granted", "session", "read"}, Advance(c, step)
        PROVE  ChildInv'
    BY <2>1, <2>2 DEF Advance, Goto, ChildInv, At, BrokerTypeOK, NoneInHand
  <2>3. ASSUME NEW a \in Answers, Conclude(c, a)
        PROVE  ChildInv'
    <3>1. /\ pc' = [pc EXCEPT ![c] = "reply"] /\ req' = [req EXCEPT ![c] = req'[c]]
          /\ req'[c].name = req[c].name /\ req'[c].answer = a
          /\ a = "value" => At(c, "read")
      BY <2>1, <2>3, AnswerKeeps DEF Conclude
    <3>. QED BY <2>1, <3>1 DEF ChildInv, At, BrokerTypeOK, NoneInHand
  <2>4. CASE Reply(c)
    <3>1. /\ pc'[c] \in NoneInHand /\ ~At(c, "off")
          /\ \A d \in Clients \ {c} : pc'[d] = pc[d] /\ req'[d] = req[d]
      BY <2>4 DEF Reply, Goto, At, BrokerTypeOK, NoneInHand
    <3>. QED BY <2>1, <3>1 DEF ChildInv, At, NoneInHand
  <2>. QED BY <2>1, <2>2, <2>3, <2>4 DEF HandlerMoves
<1>. QED
  BY <1>1, <1>2, <1>3, <1>4, <1>5, <1>6, <1>7
     DEF Next, CommandStep, PassKill, CtrlC, OpenServer, ServerFails, StopServer, Expire,
         Time, AuditWrite, AdminLock, AdminSend, AdminAck, vars, handlerVars

\* Only a handler that writes an answer tells anybody anything.
LEMMA ToldMoves ==
  ASSUME TypeInv, [Next]_vars, told' # told
  PROVE  \E c \in Clients : Reply(c)
<1>1. ASSUME NEW c \in Clients, Handle(c) PROVE told' = told \/ Reply(c)
  BY <1>1, HandleMoves DEF HandlerMoves, Advance, Conclude
<1>. QED
  BY <1>1
     DEF Next, CommandStep, UnlockVault, StartSession, FailStart, Exit, Gone, CreateChild,
         RegisterGrant, ResumeChild, ChildWaited, CloseJob, ChildExits, WaitFails, Launch,
         KillAfterChild, EndSession, PassKill, CtrlC, OpenServer, ServerFails, StopServer,
         Expire, Time, AuditWrite, AdminLock, AdminSend, AdminAck, Connect, Disconnect,
         Receive, vars, handlerVars
-----------------------------------------------------------------------------
(* Requests and the audit records *)

Noted == pending \cup log \cup lost
Allowed(n) == {r \in Noted : r.num = n /\ r.type = "allowed"}
InHand == {c \in Clients : pc[c] \notin NoneInHand}

\* A request in hand has a number of its own, and a record that it was allowed
\* exactly if its answer is ready and is a value.
RecordInv ==
  /\ \A r \in Noted : r.num <= asked
  /\ \A t \in told : t.request.num <= asked
  /\ \A c \in InHand : req[c].num <= asked
  /\ \A c, d \in InHand : req[c].num = req[d].num => c = d
  /\ \A c \in InHand, t \in told : req[c].num # t.request.num
  /\ \A c \in InHand :
       IF At(c, "reply") /\ req[c].answer = "value"
         THEN \E r \in Allowed(req[c].num) : r.name = req[c].name
         ELSE Allowed(req[c].num) = {}

LEMMA RecordStep ==
  ASSUME TypeInv, RecordInv, AuditMatchesAnswers, [Next]_vars
  PROVE  RecordInv' /\ AuditMatchesAnswers'
<1>. USE DEF TypeInv
<1>1. ASSUME UNCHANGED <<pc, req, told, asked, pending, log, lost>>,
             main = "exited" => main' = "exited"
      PROVE  RecordInv' /\ AuditMatchesAnswers'
  BY <1>1 DEF RecordInv, AuditMatchesAnswers, Noted, Allowed, InHand, At
<1>2. ASSUME NEW r \in pending, AuditWrite(r)
      PROVE  RecordInv' /\ AuditMatchesAnswers'
  <2>1. Noted' = Noted /\ UNCHANGED <<main, pc, req, told, asked>>
    BY <1>2 DEF AuditWrite, Noted, handlerVars
  <2>. QED BY <2>1 DEF RecordInv, AuditMatchesAnswers, Noted, Allowed, InHand, At
<1>3. CASE Gone
  <2>1. Noted' \subseteq Noted /\ main' = "exited" /\ InHand' = {}
        /\ UNCHANGED <<told, asked>>
    BY <1>3 DEF Gone, Noted, InHand, NoneInHand
  <2>2. RecordInv'
    BY <2>1 DEF RecordInv
  <2>3. AuditMatchesAnswers'
    BY <2>1 DEF AuditMatchesAnswers, Noted
  <2>. QED BY <2>2, <2>3
<1>4. ASSUME NEW c \in Clients, Connect(c) \/ Disconnect(c)
      PROVE  RecordInv' /\ AuditMatchesAnswers'
  <2>1. /\ InHand' = InHand /\ Noted' = Noted
        /\ UNCHANGED <<main, req, told, asked>>
        /\ \A d \in InHand : pc'[d] = pc[d]
    BY <1>4 DEF Connect, Disconnect, Goto, At, BrokerTypeOK, InHand, NoneInHand, Noted,
                auditVars
  <2>. QED BY <2>1 DEF RecordInv, AuditMatchesAnswers, Noted, Allowed, At
<1>5. ASSUME NEW c \in Clients, Receive(c)
      PROVE  RecordInv' /\ AuditMatchesAnswers'
  <2>1. /\ InHand' = InHand \cup {c} /\ c \notin InHand /\ Noted' = Noted
        /\ UNCHANGED <<main, told>> /\ asked' = asked + 1 /\ asked \in Nat
        /\ req'[c].num = asked + 1 /\ req'[c].answer \in {"none", "refused"}
        /\ \A d \in InHand : pc'[d] = pc[d] /\ req'[d] = req[d]
    BY <1>5, BrokerAssumption
       DEF Receive, Goto, At, BrokerTypeOK, InHand, NoneInHand, Noted, auditVars
  <2>2. /\ \A r \in Noted : r.num \in Nat
        /\ \A t \in told : t.request.num \in Nat
        /\ \A d \in InHand : req[d].num \in Nat
    BY BrokerAssumption DEF BrokerTypeOK, RequestInv, InHand, Noted, Records, Requests
  <2>3. \A n : n = asked + 1 => Allowed(n)' = {}
    BY <2>1, <2>2 DEF RecordInv, Allowed, Noted
  <2>4. \A n : Allowed(n)' = Allowed(n)
    BY <2>1 DEF Allowed, Noted
  <2>5. RecordInv'
    <3>1. \A r \in Noted' : r.num <= asked'
      BY <2>1, <2>2 DEF RecordInv
    <3>2. \A t \in told' : t.request.num <= asked'
      BY <2>1, <2>2 DEF RecordInv
    <3>3. \A d \in InHand' : req'[d].num <= asked'
      BY <2>1, <2>2 DEF RecordInv
    <3>4. \A d, e \in InHand' : req'[d].num = req'[e].num => d = e
      BY <2>1, <2>2 DEF RecordInv
    <3>5. \A d \in InHand', t \in told' : req'[d].num # t.request.num
      BY <2>1, <2>2 DEF RecordInv
    <3>6. ASSUME NEW d \in InHand'
          PROVE  IF At(d, "reply")' /\ req'[d].answer = "value"
                   THEN \E r \in Allowed(req[d].num)' : r.name = req'[d].name
                   ELSE Allowed(req[d].num)' = {}
      <4>1. CASE d = c
        BY <2>1, <2>3, <4>1 DEF Allowed
      <4>2. CASE d \in InHand
        <5>1. Allowed(req[d].num)' = Allowed(req[d].num)
          BY <2>1, <4>2 DEF Allowed
        <5>. QED BY <2>1, <4>2, <5>1 DEF RecordInv, At
      <4>. QED BY <2>1, <4>1, <4>2
    <3>. QED BY <3>1, <3>2, <3>3, <3>4, <3>5, <3>6 DEF RecordInv
  <2>6. AuditMatchesAnswers'
    BY <2>1 DEF AuditMatchesAnswers, Noted
  <2>. QED BY <2>5, <2>6
<1>6. ASSUME NEW c \in Clients, Handle(c)
      PROVE  RecordInv' /\ AuditMatchesAnswers'
  <2>1. /\ HandlerMoves(c) /\ pc[c] \notin NoneInHand /\ c \in InHand
        /\ UNCHANGED <<main, asked, log, lost>>
    BY <1>6, HandleMoves DEF HandlerMoves, HandlerStep, InHand
  <2>2. ASSUME NEW step \in {"list", "lookup", "granted", "session", "read"}, Advance(c, step)
        PROVE  RecordInv' /\ AuditMatchesAnswers'
    <3>1. /\ InHand' = InHand /\ Noted' = Noted /\ UNCHANGED <<req, told>>
          /\ pc'[c] = step /\ \A d \in InHand \ {c} : pc'[d] = pc[d]
          /\ ~At(c, "reply")
      BY <2>1, <2>2 DEF Advance, Goto, At, BrokerTypeOK, InHand, NoneInHand, Noted
    <3>2. \A n : Allowed(n)' = Allowed(n)
      BY <3>1 DEF Allowed, Noted
    <3>3. RecordInv'
      BY <2>1, <3>1, <3>2 DEF RecordInv, At
    <3>4. AuditMatchesAnswers'
      BY <2>1, <3>1 DEF AuditMatchesAnswers, Noted
    <3>. QED BY <3>3, <3>4
  <2>3. ASSUME NEW a \in Answers, Conclude(c, a)
        PROVE  RecordInv' /\ AuditMatchesAnswers'
    <3>1. /\ InHand' = InHand /\ UNCHANGED told
          /\ pc'[c] = "reply" /\ req'[c].answer = a
          /\ req'[c].num = req[c].num /\ req'[c].name = req[c].name
          /\ \A d \in InHand \ {c} : pc'[d] = pc[d] /\ req'[d] = req[d]
      BY <2>1, <2>3, AnswerKeeps DEF Conclude, BrokerTypeOK, InHand, NoneInHand
    <3>. DEFINE Adds(new) == /\ Noted' = Noted \cup new
                             /\ \A r \in new : r.num = req[c].num /\ r.name = req[c].name
                             /\ (\E r \in new : r.type = "allowed") <=> a = "value"
    <3>2. \E new : Adds(new)
      <4>1. CASE UNCHANGED pending /\ a # "value"
        <5>1. Adds({})
          BY <2>1, <4>1 DEF Noted
        <5>. HIDE DEF Adds
        <5>. QED BY <5>1
      <4>2. ASSUME NEW type, Audit(c, type), a = "value" <=> type = "allowed"
            PROVE  \E new : Adds(new)
        <5>1. Adds({[num |-> req[c].num, type |-> type, name |-> req[c].name]})
          BY <2>1, <4>2 DEF Audit, Noted
        <5>. QED BY <5>1
      <4>3. \/ UNCHANGED pending /\ a # "value"
            \/ Audit(c, "allowed") /\ a = "value"
            \/ Audit(c, "denied") /\ a # "value"
        BY <2>3 DEF Conclude
      <4>. HIDE DEF Adds
      <4>. QED BY <4>1, <4>2, <4>3
    <3>3. \A n : n # req[c].num => Allowed(n)' = Allowed(n)
      BY <3>2 DEF Allowed
    <3>4. Allowed(req[c].num) = {}
      BY <2>1, <2>3 DEF RecordInv, Conclude, Answer, At
    <3>5. IF a = "value" THEN \E r \in Allowed(req[c].num)' : r.name = req[c].name
                         ELSE Allowed(req[c].num)' = {}
      BY <3>1, <3>2, <3>4 DEF Allowed
    <3>6. RecordInv'
      <4>1. \A r \in Noted' : r.num <= asked'
        BY <2>1, <3>2 DEF RecordInv
      <4>2. /\ \A t \in told' : t.request.num <= asked'
            /\ \A d \in InHand' : req'[d].num <= asked'
            /\ \A d, e \in InHand' : req'[d].num = req'[e].num => d = e
            /\ \A d \in InHand', t \in told' : req'[d].num # t.request.num
        BY <2>1, <3>1 DEF RecordInv
      <4>3. ASSUME NEW d \in InHand'
            PROVE  IF At(d, "reply")' /\ req'[d].answer = "value"
                     THEN \E r \in Allowed(req[d].num)' : r.name = req'[d].name
                     ELSE Allowed(req[d].num)' = {}
        <5>1. CASE d = c
          BY <3>1, <3>5, <5>1 DEF At, Allowed
        <5>2. CASE d # c
          <6>1. Allowed(req[d].num)' = Allowed(req[d].num)
            BY <2>1, <3>1, <3>3, <5>2 DEF RecordInv, Allowed
          <6>. QED BY <3>1, <5>2, <6>1 DEF RecordInv, At
        <5>. QED BY <5>1, <5>2
      <4>. QED BY <4>1, <4>2, <4>3 DEF RecordInv
    <3>7. AuditMatchesAnswers'
      BY <2>1, <3>1, <3>2 DEF AuditMatchesAnswers, RecordInv, Noted
    <3>. QED BY <3>6, <3>7
  <2>4. CASE Reply(c)
    <3>1. /\ At(c, "reply") /\ InHand' = InHand \ {c} /\ Noted' = Noted
          /\ \A d \in InHand \ {c} : pc'[d] = pc[d] /\ req'[d] = req[d]
          /\ told' \subseteq told \cup {[client |-> c, request |-> req[c]]}
      BY <2>1, <2>4 DEF Reply, Goto, BrokerTypeOK, InHand, NoneInHand, Noted
    <3>3. RecordInv'
      <4>1. /\ \A r \in Noted' : r.num <= asked'
            /\ \A d \in InHand' : req'[d].num <= asked'
            /\ \A d, e \in InHand' : req'[d].num = req'[e].num => d = e
        BY <2>1, <3>1 DEF RecordInv
      <4>2. ASSUME NEW t \in told'
            PROVE  /\ t.request.num <= asked'
                   /\ \A d \in InHand' : req'[d].num # t.request.num
        <5>1. CASE t \in told
          BY <2>1, <3>1, <5>1 DEF RecordInv
        <5>2. CASE t = [client |-> c, request |-> req[c]]
          <6>1. t.request = req[c]
            BY <5>2
          <6>. QED BY <2>1, <3>1, <6>1 DEF RecordInv
        <5>. QED BY <3>1, <5>1, <5>2
      <4>3. ASSUME NEW d \in InHand'
            PROVE  IF At(d, "reply")' /\ req'[d].answer = "value"
                     THEN \E r \in Allowed(req[d].num)' : r.name = req'[d].name
                     ELSE Allowed(req[d].num)' = {}
        <5>1. Allowed(req[d].num)' = Allowed(req[d].num)
          BY <3>1 DEF Allowed
        <5>. QED BY <3>1, <5>1 DEF RecordInv, At
      <4>. QED BY <4>1, <4>2, <4>3 DEF RecordInv
    <3>4. AuditMatchesAnswers'
      <4>. SUFFICES ASSUME NEW t \in told'
           PROVE  /\ Allowed(t.request.num)' # {} => t.request.answer = "value"
                  /\ t.request.answer = "value" /\ main' # "exited" =>
                       \E r \in Allowed(t.request.num)' : r.name = t.request.name
        BY DEF AuditMatchesAnswers, Allowed, Noted
      <4>1. Allowed(t.request.num)' = Allowed(t.request.num)
        BY <3>1 DEF Allowed
      <4>2. CASE t \in told
        BY <2>1, <4>1, <4>2 DEF AuditMatchesAnswers, Allowed, Noted
      <4>3. CASE t = [client |-> c, request |-> req[c]]
        <5>1. t.request = req[c]
          BY <4>3
        <5>. QED BY <2>1, <3>1, <4>1, <5>1 DEF RecordInv
      <4>. QED BY <3>1, <4>2, <4>3
    <3>. QED BY <3>3, <3>4
  <2>. QED BY <2>1, <2>2, <2>3, <2>4 DEF HandlerMoves
<1>. QED
  BY <1>1, <1>2, <1>3, <1>4, <1>5, <1>6
     DEF Next, CommandStep, UnlockVault, StartSession, FailStart, Exit, CreateChild,
         RegisterGrant, ResumeChild, ChildWaited, CloseJob, ChildExits, WaitFails,
         Launch, KillAfterChild,
         EndSession, PassKill, CtrlC, OpenServer, ServerFails, StopServer, Expire, Time,
         AdminLock, AdminSend, AdminAck, vars, handlerVars, auditVars
-----------------------------------------------------------------------------
(* The invariant, and what it says *)

BrokerInv == /\ TypeInv
             /\ GateInv /\ LiveInv /\ ServedOnlyWhileActive
             /\ ChildInv
             /\ RecordInv /\ AuditMatchesAnswers

LEMMA InitBrokerInv == Init => BrokerInv
<1>. SUFFICES ASSUME Init PROVE BrokerInv
  OBVIOUS
<1>1. \A c \in Clients : pc[c] = "off"
  BY DEF Init
<1>2. GateInv /\ LiveInv /\ ServedOnlyWhileActive
  BY <1>1 DEF Init, GateInv, LiveInv, ServedOnlyWhileActive, Told, At, NoneInHand
<1>3. ChildInv
  BY <1>1, BrokerAssumption DEF Init, ChildInv, At, Starting
<1>4. RecordInv /\ AuditMatchesAnswers
  BY <1>1 DEF Init, RecordInv, AuditMatchesAnswers, Noted, InHand, NoneInHand
<1>. QED BY <1>2, <1>3, <1>4, InitTypeInv DEF BrokerInv

LEMMA BrokerInvHolds == Spec => []BrokerInv
<1>1. BrokerInv /\ [Next]_vars => BrokerInv'
  BY TypeStep, GateStep, LiveStep, ChildStep, RecordStep DEF BrokerInv
<1>. QED BY <1>1, InitBrokerInv, PTL DEF Spec

\* Every variable has its type, and a handler holds a clone of the vault exactly
\* while it reads a secret, however many handlers there are (dispatch).
THEOREM BrokerTypeCorrect == Spec => []BrokerTypeOK
<1>1. BrokerInv => BrokerTypeOK
  BY DEF BrokerInv, TypeInv
<1>. QED BY <1>1, BrokerInvHolds, PTL

\* A request that came after the session was ended or had expired is answered
\* with no value and no name, whatever handlers, expiry task and shutdown do in
\* between (dispatch, SessionManager::with_session).
THEOREM ServedWhileActive == Spec => []ServedOnlyWhileActive
<1>1. BrokerInv => ServedOnlyWhileActive
  BY DEF BrokerInv
<1>. QED BY <1>1, BrokerInvHolds, PTL

\* Whatever value the launched process is told is of its grant, for any grant and any
\* allow-list, from its first instruction until it has exited or the wait for it has
\* failed; of what it is told after that, until the job is closed, a rule of the
\* allow-list lets it read what the grant does not (spawn_in_job, dispatch).
THEOREM ChildServed == Spec => ChildServedUnderGrant
<1>. DEFINE A == \A t \in told' \ told :
                   t.client = Child /\ t.request.answer = "value" =>
                     \/ t.request.name \in GrantSecrets
                     \/ main = "abandon" /\ <<Child, t.request.name>> \in Rules
<1>1. ASSUME BrokerInv, [Next]_vars PROVE A
  <2>. SUFFICES ASSUME NEW t \in told' \ told, t.client = Child, t.request.answer = "value"
                PROVE  \/ t.request.name \in GrantSecrets
                       \/ main = "abandon" /\ <<Child, t.request.name>> \in Rules
    OBVIOUS
  <2>1. PICK c \in Clients : Reply(c)
    BY <1>1, ToldMoves DEF BrokerInv
  <2>2. At(c, "reply") /\ Alive(c) /\ t = [client |-> c, request |-> req[c]]
    BY <2>1 DEF Reply
  <2>3. c = Child /\ t.request = req[Child] /\ child = "running"
    BY <2>2 DEF Alive
  <2>. QED BY <1>1, <2>2, <2>3 DEF BrokerInv, ChildInv
<1>2. BrokerInv /\ [Next]_vars => [A]_vars
  BY <1>1
<1>. QED BY <1>2, BrokerInvHolds, PTL DEF Spec, ChildServedUnderGrant

\* A value is answered with an audit record written, to be written or lost, and
\* a record of an allowed access is of a request that was answered so
\* (write_audit).
THEOREM AuditMatches == Spec => []AuditMatchesAnswers
<1>1. BrokerInv => AuditMatchesAnswers
  BY DEF BrokerInv
<1>. QED BY <1>1, BrokerInvHolds, PTL
-----------------------------------------------------------------------------
(* The promise: Broker implements DisclosureSpec *)

AbstractTold == {[client |-> t.client, num |-> t.request.num, name |-> t.request.name] :
                   t \in Told("value") \cup Told("names")}

LEMMA DisclosureInit == Init => Disclosure!Init
<1>. SUFFICES ASSUME Init PROVE Disclosure!Init
  OBVIOUS
<1>1. AbstractSession = "none"
  BY DEF Init, AbstractSession
<1>2. AbstractRequest = [c \in Clients |-> NoRequest]
  BY DEF Init, AbstractRequest
<1>3. Told("value") \cup Told("names") = {}
  BY DEF Init, Told
<1>4. GrantStands \in BOOLEAN
  BY DEF GrantStands
<1>. QED BY <1>1, <1>2, <1>3, <1>4 DEF Init, Disclosure!Init, Disclosure!NoRequest, NoRequest

\* A session begins, goes, or stays as it was; one that is over never comes back.
LEMMA SessionMoves ==
  ASSUME TypeInv, [Next]_vars
  PROVE  \/ AbstractSession' = AbstractSession
         \/ AbstractSession = "none" /\ AbstractSession' = "active"
         \/ AbstractSession' = "over"
<1>1. main' \in Starting => main \in Starting
  BY StartsOnce
<1>2. main # "start" /\ Active' => Active
  BY Fades
<1>. QED BY <1>1, <1>2 DEF AbstractSession, Starting

\* The grant stands until it is given up, in a step that begins no session.
LEMMA GrantMoves ==
  ASSUME TypeInv, ChildInv, [Next]_vars
  PROVE  \/ GrantStands' = GrantStands
         \/ /\ GrantStands /\ GrantStands' = FALSE
            /\ AbstractSession' \in {AbstractSession, "over"}
<1>. USE DEF GrantStands
<1>1. CASE UnlockVault \/ StartSession
  BY <1>1, BrokerAssumption DEF UnlockVault, StartSession
<1>2. CASE Gone
  BY <1>2 DEF Gone, AbstractSession, Active
<1>3. CASE CreateChild \/ RegisterGrant \/ ResumeChild \/ ChildWaited \/ WaitFails \/ CloseJob
  <2>1. AbstractSession' = AbstractSession
    BY <1>3 DEF CreateChild, RegisterGrant, ResumeChild, ChildWaited, WaitFails, CloseJob, Launch,
                AbstractSession, Active, Expired, sessionVars
  <2>. QED
    BY <1>3, <2>1
       DEF CreateChild, RegisterGrant, ResumeChild, ChildWaited, WaitFails, CloseJob, Launch
<1>4. CASE KillAfterChild \/ EndSession
  BY <1>4 DEF KillAfterChild, EndSession
<1>5. CASE main' = main
  BY <1>5
<1>. QED
  BY <1>1, <1>2, <1>3, <1>4, <1>5
     DEF Next, CommandStep, FailStart, Exit, ChildExits, Launch, PassKill, CtrlC, OpenServer,
         ServerFails, StopServer, Expire, Time, AuditWrite, AdminLock, AdminSend, AdminAck,
         Connect, Disconnect, Receive, Handle, Decide, VerifyGrant, LookupGrant,
         GrantedSession, Session, ReadSecret, ListSecrets, Reply, HandlerStep, vars

\* The launched process takes its request with it when it goes.
LEMMA ChildMoves ==
  ASSUME TypeInv, ChildInv, [Next]_vars, UNCHANGED handlerVars
  PROVE  \/ AbstractRequest' = AbstractRequest
         \/ /\ AbstractRequest[Child] # NoRequest
            /\ AbstractRequest' = [AbstractRequest EXCEPT ![Child] = NoRequest]
            /\ AbstractSession' = AbstractSession /\ GrantStands' = GrantStands
<1>. USE BrokerAssumption
<1>1. \A c \in Clients \ {Child} : AbstractRequest'[c] = AbstractRequest[c]
  BY DEF handlerVars, AbstractRequest, Permitted, At, Alive
<1>2. ASSUME AbstractRequest'[Child] = AbstractRequest[Child]
      PROVE  AbstractRequest' = AbstractRequest
  BY <1>1, <1>2 DEF AbstractRequest
<1>3. CASE ChildExits \/ CloseJob
  <2>1. AbstractRequest'[Child] = NoRequest
    BY <1>3 DEF ChildExits, CloseJob, Launch, AbstractRequest, Alive
  <2>2. AbstractSession' = AbstractSession /\ GrantStands' = GrantStands
    BY <1>3 DEF ChildExits, CloseJob, Launch, AbstractSession, Active, Expired, GrantStands,
                sessionVars, ChildInv
  <2>3. AbstractRequest' = [AbstractRequest EXCEPT ![Child] = NoRequest]
    BY <1>1, <2>1 DEF AbstractRequest
  <2>. QED BY <1>2, <2>1, <2>2, <2>3
<1>4. CASE CreateChild \/ RegisterGrant \/ ResumeChild
  <2>1. At(Child, "off") /\ At(Child, "off")'
    BY <1>4 DEF CreateChild, RegisterGrant, ResumeChild, Launch, ChildInv, At, handlerVars
  <2>. QED BY <1>2, <2>1 DEF AbstractRequest, At
<1>5. CASE child' = child
  <2>1. AbstractRequest'[Child] = AbstractRequest[Child]
    BY <1>5 DEF handlerVars, AbstractRequest, Permitted, At, Alive
  <2>. QED BY <1>2, <2>1
<1>. QED
  BY <1>3, <1>4, <1>5
     DEF Next, CommandStep, UnlockVault, StartSession, FailStart, Exit, Gone, ChildWaited,
         WaitFails, Launch, KillAfterChild, EndSession, PassKill, CtrlC, OpenServer, ServerFails,
         StopServer, Expire, Time, AuditWrite, AdminLock, AdminSend, AdminAck, Connect,
         Disconnect, Receive, Handle, Decide, VerifyGrant, LookupGrant, GrantedSession, Session,
         ReadSecret, ListSecrets, Reply, HandlerStep, vars

\* A step that leaves the handlers alone is one of the session's, of the grant's, or
\* the end of the launched process.
LEMMA DisclosureStays ==
  ASSUME TypeInv, ChildInv, [Next]_vars, UNCHANGED handlerVars
  PROVE  [Disclosure!Next]_(Disclosure!vars)
<1>1. (Told("value") \cup Told("names"))' = Told("value") \cup Told("names") /\ asked' = asked
  BY DEF handlerVars, Told
<1>2. AbstractTold' = AbstractTold
  BY <1>1 DEF AbstractTold
<1>3. CASE AbstractRequest' = AbstractRequest
  <2>1. CASE GrantStands' = GrantStands
    BY <1>1, <1>2, <1>3, <2>1, SessionMoves
       DEF Disclosure!Next, Disclosure!Begin, Disclosure!Close, Disclosure!vars, AbstractTold
  <2>2. CASE /\ GrantStands /\ GrantStands' = FALSE
             /\ AbstractSession' \in {AbstractSession, "over"}
    BY <1>1, <1>2, <1>3, <2>2
       DEF Disclosure!Next, Disclosure!Release, Disclosure!Close, AbstractTold
  <2>. QED BY <2>1, <2>2, GrantMoves
<1>4. CASE /\ AbstractRequest[Child] # NoRequest
           /\ AbstractRequest' = [AbstractRequest EXCEPT ![Child] = NoRequest]
           /\ AbstractSession' = AbstractSession /\ GrantStands' = GrantStands
  <2>1. Disclosure!Refuse(Child)
    BY <1>1, <1>2, <1>4 DEF Disclosure!Refuse, AbstractTold, NoRequest, Disclosure!NoRequest
  <2>. QED BY <2>1, BrokerAssumption DEF Disclosure!Next
<1>. QED BY <1>3, <1>4, ChildMoves

LEMMA DisclosureGone ==
  ASSUME TypeInv, Gone
  PROVE  Disclosure!Close
<1>1. AbstractSession' = "over"
  BY DEF Gone, AbstractSession, Active
<1>2. AbstractRequest' = [c \in Clients |-> NoRequest]
  BY DEF Gone, AbstractRequest
<1>3. (Told("value") \cup Told("names"))' = Told("value") \cup Told("names") /\ asked' = asked
  BY DEF Gone, Told
<1>4. AbstractTold' = AbstractTold
  BY <1>3 DEF AbstractTold
<1>5. GrantStands' = FALSE
  BY DEF Gone, GrantStands
<1>. QED
  BY <1>1, <1>2, <1>3, <1>4, <1>5
     DEF Disclosure!Close, AbstractTold, Disclosure!NoRequest, NoRequest

\* A handler's step changes its own request alone.
LEMMA OneRequest ==
  ASSUME NEW c \in Clients, NEW r, child' = child,
         \A d \in Clients \ {c} : pc'[d] = pc[d] /\ req'[d] = req[d],
         AbstractRequest'[c] = r
  PROVE  AbstractRequest' = [AbstractRequest EXCEPT ![c] = r]
<1>1. \A d \in Clients \ {c} : AbstractRequest'[d] = AbstractRequest[d]
  BY DEF AbstractRequest, Permitted, At, Alive
<1>. QED BY <1>1 DEF AbstractRequest

\* A step of the handler of c, with the session, the grant and the child as they were.
Quiet(c) ==
  /\ AbstractSession' = AbstractSession /\ GrantStands' = GrantStands /\ child' = child
  /\ \A d \in Clients \ {c} : pc'[d] = pc[d] /\ req'[d] = req[d]

LEMMA DisclosureConnection ==
  ASSUME TypeInv, GateInv, [Next]_vars, NEW c \in Clients,
         Connect(c) \/ Disconnect(c) \/ Receive(c)
  PROVE  [Disclosure!Next]_(Disclosure!vars)
<1>1. Quiet(c) /\ AbstractRequest[c] = NoRequest
  BY DEF Connect, Disconnect, Receive, At, Goto, TypeInv, BrokerTypeOK, AbstractSession,
         AbstractRequest, Active, Expired, sessionVars, GrantStands, Quiet
<1>2. AbstractTold' = AbstractTold
  <2>1. (Told("value") \cup Told("names"))' = Told("value") \cup Told("names")
    BY DEF Connect, Disconnect, Receive, Told
  <2>. QED BY <2>1 DEF AbstractTold
<1>3. CASE Connect(c) \/ Disconnect(c)
  <2>1. AbstractRequest'[c] = NoRequest /\ asked' = asked
    BY <1>3 DEF Connect, Disconnect, Goto, TypeInv, BrokerTypeOK, AbstractRequest
  <2>2. AbstractRequest' = [AbstractRequest EXCEPT ![c] = NoRequest]
    BY <1>1, <2>1, OneRequest DEF Quiet
  <2>3. AbstractRequest' = AbstractRequest
    BY <1>1, <2>2 DEF AbstractRequest
  <2>. QED BY <1>1, <1>2, <2>1, <2>3 DEF Disclosure!vars, AbstractTold, Quiet
<1>4. CASE Receive(c)
  <2>1. PICK n \in Names :
          /\ req'[c] = [num |-> asked + 1, name |-> n, live |-> Active,
                        answer |-> IF n = Malformed THEN "refused" ELSE "none"]
          /\ pc'[c] = IF n = Malformed THEN "reply" ELSE "verify"
    BY <1>4 DEF Receive, Goto, TypeInv, BrokerTypeOK
  <2>2. AbstractSession # "none" /\ asked' = asked + 1
    BY <1>4 DEF Receive, At, GateInv, AbstractSession, Starting
  <2>3. CASE n = Malformed \/ ~Alive(c)
    <3>1. AbstractRequest'[c] = NoRequest
      BY <1>1, <2>1, <2>3 DEF AbstractRequest, Alive, Quiet
    <3>2. AbstractRequest' = [AbstractRequest EXCEPT ![c] = NoRequest]
      BY <1>1, <3>1, OneRequest DEF Quiet
    <3>3. AbstractRequest' = AbstractRequest
      BY <1>1, <3>2 DEF AbstractRequest
    <3>4. Disclosure!Ask(c)
      BY <1>1, <1>2, <2>2, <3>3
         DEF Disclosure!Ask, AbstractTold, Quiet, NoRequest, Disclosure!NoRequest
    <3>. QED BY <3>4 DEF Disclosure!Next
  <2>4. CASE n # Malformed /\ Alive(c)
    <3>. DEFINE r == [num |-> asked + 1, name |-> n, stage |-> "asked"]
    <3>1. AbstractRequest'[c] = r
      <4>1. /\ pc'[c] = "verify" /\ req'[c].answer = "none"
            /\ req'[c].num = asked + 1 /\ req'[c].name = n
        BY <2>1, <2>4
      <4>2. Permitted(c)' = FALSE
        BY <4>1 DEF Permitted, At
      <4>3. Alive(c)'
        BY <1>1, <2>4 DEF Alive, Quiet
      <4>. QED BY <4>1, <4>2, <4>3 DEF AbstractRequest
    <3>2. AbstractRequest' = [AbstractRequest EXCEPT ![c] = r]
      BY <1>1, <3>1, OneRequest DEF Quiet
    <3>3. n \in Secrets \cup {All}
      BY <2>4 DEF Names
    <3>4. Disclosure!Ask(c)
      BY <1>1, <1>2, <2>2, <3>2, <3>3
         DEF Disclosure!Ask, AbstractTold, Quiet, NoRequest, Disclosure!NoRequest
    <3>. QED BY <3>4 DEF Disclosure!Next
  <2>. QED BY <2>3, <2>4
<1>. QED BY <1>3, <1>4

\* A request that is being served is one of the promise's, under the same number.
LEMMA InHandAsked ==
  ASSUME TypeInv, NEW c \in Clients, Alive(c), pc[c] \notin NoneInHand \cup {"reply"}
  PROVE  /\ AbstractRequest[c] = [num |-> req[c].num, name |-> req[c].name,
                                  stage |-> IF Permitted(c) THEN "permitted" ELSE "asked"]
         /\ AbstractRequest[c] # NoRequest
<1>1. req[c].answer = "none"
  BY DEF TypeInv, RequestInv
<1>2. AbstractRequest[c] = [num |-> req[c].num, name |-> req[c].name,
                            stage |-> IF Permitted(c) THEN "permitted" ELSE "asked"]
  BY <1>1 DEF AbstractRequest, NoneInHand
<1>. QED BY <1>2 DEF NoRequest

LEMMA Permitting ==
  ASSUME NEW n, NEW name
  PROVE  [[num |-> n, name |-> name, stage |-> "asked"] EXCEPT !.stage = "permitted"]
           = [num |-> n, name |-> name, stage |-> "permitted"]
<1>. DEFINE r == [num |-> n, name |-> name, stage |-> "asked"]
            q == [num |-> n, name |-> name, stage |-> "permitted"]
            Fields == {"num", "name", "stage"}
<1>1. q = [f \in Fields |-> q[f]]
  OBVIOUS
<1>2. [r EXCEPT !.stage = "permitted"]
        = [f \in Fields |-> IF f = "stage" THEN "permitted" ELSE r[f]]
  OBVIOUS
<1>3. \A f \in Fields : q[f] = IF f = "stage" THEN "permitted" ELSE r[f]
  OBVIOUS
<1>. HIDE DEF r, q
<1>4. [f \in Fields |-> q[f]] = [f \in Fields |-> IF f = "stage" THEN "permitted" ELSE r[f]]
  BY <1>3
<1>. QED BY <1>1, <1>2, <1>4 DEF r, q

\* The session permits what c asks for.
LEMMA PermitStep ==
  ASSUME TypeInv, GateInv, NEW c \in Clients, Alive(c), Quiet(c), UNCHANGED <<asked, told>>,
         pc[c] \notin NoneInHand \cup {"read", "reply"}, Active,
         Permitted(c)', pc'[c] \in {"read", "reply"}, req'[c].answer \notin {"refused", "denied"},
         req'[c].num = req[c].num, req'[c].name = req[c].name,
         Disclosure!Entitled(c, req[c].name)
  PROVE  Disclosure!Permit(c)
<1>1. /\ AbstractRequest[c] = [num |-> req[c].num, name |-> req[c].name, stage |-> "asked"]
      /\ AbstractRequest[c] # NoRequest
  BY InHandAsked DEF Permitted, At
<1>2. AbstractRequest'[c] = [num |-> req[c].num, name |-> req[c].name, stage |-> "permitted"]
  BY DEF AbstractRequest, Alive, Quiet
<1>. DEFINE r == [AbstractRequest[c] EXCEPT !.stage = "permitted"]
<1>3. AbstractRequest'[c] = r
  BY <1>1, <1>2, Permitting
<1>4. AbstractRequest' = [AbstractRequest EXCEPT ![c] = r]
  BY <1>3, OneRequest DEF Quiet
<1>5. AbstractSession = "active"
  BY DEF AbstractSession, GateInv, Starting, At, NoneInHand
<1>6. AbstractTold' = AbstractTold
  BY DEF AbstractTold, Told
<1>. QED
  BY <1>1, <1>4, <1>5, <1>6
     DEF Disclosure!Permit, Quiet, AbstractTold, NoRequest, Disclosure!NoRequest

\* Nothing of it shows, or the request is refused.
LEMMA RefuseStep ==
  ASSUME NEW c \in Clients, Quiet(c), UNCHANGED <<asked, told>>,
         AbstractRequest'[c] \in {AbstractRequest[c], NoRequest}
  PROVE  [Disclosure!Refuse(c)]_(Disclosure!vars)
<1>1. AbstractTold' = AbstractTold
  BY DEF AbstractTold, Told
<1>2. CASE AbstractRequest'[c] = AbstractRequest[c]
  <2>1. AbstractRequest' = [AbstractRequest EXCEPT ![c] = AbstractRequest[c]]
    BY <1>2, OneRequest DEF Quiet
  <2>2. AbstractRequest' = AbstractRequest
    BY <2>1 DEF AbstractRequest
  <2>. QED BY <1>1, <2>2 DEF Quiet, Disclosure!vars, AbstractTold
<1>3. CASE AbstractRequest'[c] = NoRequest /\ AbstractRequest[c] # NoRequest
  <2>1. AbstractRequest' = [AbstractRequest EXCEPT ![c] = NoRequest]
    BY <1>3, OneRequest DEF Quiet
  <2>2. Disclosure!Refuse(c)
    BY <1>1, <1>3, <2>1
       DEF Disclosure!Refuse, Quiet, AbstractTold, NoRequest, Disclosure!NoRequest
  <2>. QED BY <2>2
<1>. QED BY <1>2, <1>3

LEMMA DisclosureAdvance ==
  ASSUME TypeInv, GateInv, ChildInv, NEW c \in Clients, Alive(c), pc[c] \notin NoneInHand,
         HandlerStep(c), Quiet(c),
         NEW step \in {"list", "lookup", "granted", "session", "read"}, Advance(c, step)
  PROVE  [Disclosure!Next]_(Disclosure!vars)
<1>1. /\ pc[c] \notin NoneInHand \cup {"read", "reply"}
      /\ pc'[c] = step /\ req' = req /\ UNCHANGED <<asked, told>>
      /\ req[c].answer = "none"
  BY DEF Advance, Goto, HandlerStep, TypeInv, BrokerTypeOK, RequestInv, At, NoneInHand
<1>2. CASE Permitted(c)'
  <2>1. /\ step = "read" /\ Active
        /\ At(c, "granted") \/ (At(c, "session") /\ <<c, req[c].name>> \in Rules)
    BY <1>1, <1>2 DEF Permitted, At, Advance, Borrow
  <2>2. req[c].name \in Secrets /\ req[c].name # All
    BY <2>1, BrokerAssumption DEF TypeInv, RequestInv, At
  <2>3. At(c, "granted") => c = Child /\ req[c].name \in GrantSecrets
    BY DEF TypeInv, RequestInv, ChildInv
  <2>4. At(c, "session") /\ c = Child => ~GrantStands
    BY DEF ChildInv, Alive, GrantStands
  <2>5. Disclosure!Entitled(c, req[c].name)
    BY <2>1, <2>2, <2>3, <2>4 DEF Disclosure!Entitled
  <2>6. Disclosure!Permit(c)
    BY <1>1, <1>2, <2>1, <2>5, PermitStep
  <2>. QED BY <2>6 DEF Disclosure!Next
<1>3. CASE ~Permitted(c)'
  <2>1. AbstractRequest[c] = [num |-> req[c].num, name |-> req[c].name, stage |-> "asked"]
    BY <1>1, InHandAsked DEF Permitted, At
  <2>2. Permitted(c)' = FALSE
    BY <1>3 DEF Permitted, At
  <2>3. AbstractRequest'[c] = [num |-> req[c].num, name |-> req[c].name, stage |-> "asked"]
    BY <1>1, <2>2 DEF AbstractRequest, Alive, Quiet
  <2>. QED BY <1>1, <2>1, <2>3, RefuseStep DEF Disclosure!Next
<1>. QED BY <1>2, <1>3

LEMMA DisclosureConclude ==
  ASSUME TypeInv, GateInv, NEW c \in Clients, Alive(c), pc[c] \notin NoneInHand,
         HandlerStep(c), Quiet(c), NEW a \in Answers, Conclude(c, a)
  PROVE  [Disclosure!Next]_(Disclosure!vars)
<1>1. /\ pc[c] \notin NoneInHand \cup {"reply"}
      /\ pc'[c] = "reply" /\ UNCHANGED <<asked, told>>
      /\ req'[c].num = req[c].num /\ req'[c].name = req[c].name /\ req'[c].answer = a
  BY AnswerKeeps DEF Conclude, HandlerStep, TypeInv, BrokerTypeOK, At
<1>2. CASE a = "names"
  <2>1. /\ At(c, "list") /\ Active /\ c \in Listers /\ req[c].name = All
        /\ pc[c] \notin NoneInHand \cup {"read", "reply"}
    BY <1>1, <1>2 DEF Conclude, TypeInv, RequestInv, At
  <2>2. Permitted(c)'
    BY <1>1, <1>2, <2>1 DEF Permitted, At
  <2>3. Disclosure!Entitled(c, req[c].name)
    BY <2>1 DEF Disclosure!Entitled
  <2>4. Disclosure!Permit(c)
    BY <1>1, <1>2, <2>1, <2>2, <2>3, PermitStep
  <2>. QED BY <2>4 DEF Disclosure!Next
<1>3. CASE a = "value"
  <2>1. At(c, "read")
    BY <1>3 DEF Conclude
  <2>2. Permitted(c)' = Permitted(c)
    BY <1>1, <1>3, <2>1 DEF Permitted, At
  <2>3. AbstractRequest'[c] = [num |-> req[c].num, name |-> req[c].name,
                               stage |-> IF Permitted(c) THEN "permitted" ELSE "asked"]
    BY <1>1, <1>3, <2>2 DEF AbstractRequest, Alive, Quiet
  <2>4. AbstractRequest'[c] = AbstractRequest[c]
    BY <1>1, <2>3, InHandAsked
  <2>. QED BY <1>1, <2>4, RefuseStep DEF Disclosure!Next
<1>4. CASE a \in {"refused", "denied"}
  <2>1. AbstractRequest'[c] = NoRequest
    BY <1>1, <1>4 DEF AbstractRequest
  <2>. QED BY <1>1, <2>1, RefuseStep DEF Disclosure!Next
<1>. QED BY <1>2, <1>3, <1>4 DEF Answers, Conclude

\* Of a process that has exited nothing shows.
LEMMA DisclosureDead ==
  ASSUME NEW c \in Clients, ~Alive(c), Quiet(c), UNCHANGED <<asked, told>>
  PROVE  [Disclosure!Next]_(Disclosure!vars)
<1>1. AbstractRequest'[c] = NoRequest
  BY DEF AbstractRequest, Alive, Quiet
<1>. QED BY <1>1, RefuseStep DEF Disclosure!Next

LEMMA DisclosureReply ==
  ASSUME TypeInv, NEW c \in Clients, HandlerStep(c), Quiet(c), Reply(c)
  PROVE  [Disclosure!Next]_(Disclosure!vars)
<1>1. /\ At(c, "reply") /\ pc'[c] \in NoneInHand /\ UNCHANGED asked
      /\ \/ UNCHANGED told
         \/ Alive(c) /\ told' = told \cup {[client |-> c, request |-> req[c]]}
  BY DEF Reply, HandlerStep, Goto, TypeInv, BrokerTypeOK, NoneInHand
<1>2. AbstractRequest'[c] = NoRequest
  BY <1>1 DEF AbstractRequest, NoneInHand
<1>3. CASE UNCHANGED told
  BY <1>1, <1>2, <1>3, RefuseStep DEF Disclosure!Next
<1>. DEFINE t == [client |-> c, request |-> req[c]]
<1>4. ASSUME Alive(c), told' = told \cup {t}, req[c].answer \in {"value", "names"}
      PROVE  Disclosure!Tell(c)
  <2>1. Permitted(c)
    BY <1>1, <1>4 DEF Permitted
  <2>2. Permitted(c) = TRUE
    BY <2>1 DEF Permitted, At
  <2>3. AbstractRequest[c] = [num |-> req[c].num, name |-> req[c].name, stage |-> "permitted"]
    BY <1>1, <1>4, <2>2 DEF AbstractRequest, At, Alive
  <2>4. AbstractRequest' = [AbstractRequest EXCEPT ![c] = NoRequest]
    BY <1>2, OneRequest DEF Quiet
  <2>5. (Told("value") \cup Told("names"))' = Told("value") \cup Told("names") \cup {t}
    BY <1>4 DEF Told
  <2>6. AbstractTold' = AbstractTold
                          \cup {[client |-> c, num |-> req[c].num, name |-> req[c].name]}
    <3>. DEFINE F(x) == [client |-> x.client, num |-> x.request.num, name |-> x.request.name]
                T == Told("value") \cup Told("names")
    <3>1. F(t) = [client |-> c, num |-> req[c].num, name |-> req[c].name]
      OBVIOUS
    <3>2. AbstractTold = {F(x) : x \in T} /\ AbstractTold' = {F(x) : x \in T \cup {t}}
      BY <2>5 DEF AbstractTold
    <3>. HIDE DEF F, T
    <3>. QED BY <3>1, <3>2
  <2>7. /\ AbstractRequest[c] # NoRequest /\ AbstractRequest[c].stage = "permitted"
        /\ AbstractRequest[c].num = req[c].num /\ AbstractRequest[c].name = req[c].name
    BY <2>3 DEF NoRequest
  <2>. QED
    BY <1>1, <2>4, <2>6, <2>7
       DEF Disclosure!Tell, Quiet, AbstractTold, NoRequest, Disclosure!NoRequest
<1>5. ASSUME told' = told \cup {t}, req[c].answer \notin {"value", "names"}
      PROVE  [Disclosure!Next]_(Disclosure!vars)
  <2>1. (Told("value") \cup Told("names"))' = Told("value") \cup Told("names")
    BY <1>5 DEF Told
  <2>2. AbstractTold' = AbstractTold
    BY <2>1 DEF AbstractTold
  <2>3. AbstractRequest' = [AbstractRequest EXCEPT ![c] = NoRequest]
    BY <1>2, OneRequest DEF Quiet
  <2>4. CASE AbstractRequest[c] = NoRequest
    <3>1. AbstractRequest' = AbstractRequest
      BY <2>3, <2>4 DEF AbstractRequest
    <3>. QED BY <1>1, <2>2, <3>1 DEF Quiet, Disclosure!vars, AbstractTold
  <2>5. CASE AbstractRequest[c] # NoRequest
    <3>1. Disclosure!Refuse(c)
      BY <1>1, <2>2, <2>3, <2>5
         DEF Disclosure!Refuse, Quiet, AbstractTold, NoRequest, Disclosure!NoRequest
    <3>. QED BY <3>1 DEF Disclosure!Next
  <2>. QED BY <2>4, <2>5
<1>. QED BY <1>1, <1>3, <1>4, <1>5 DEF Disclosure!Next

LEMMA DisclosureStep ==
  ASSUME BrokerInv, [Next]_vars
  PROVE  [Disclosure!Next]_(Disclosure!vars)
<1>. USE DEF BrokerInv
<1>1. CASE UNCHANGED handlerVars
  BY <1>1, DisclosureStays
<1>2. CASE Gone
  BY <1>2, DisclosureGone DEF Disclosure!Next
<1>3. CASE \E c \in Clients : Connect(c) \/ Disconnect(c) \/ Receive(c)
  BY <1>3, DisclosureConnection
<1>4. ASSUME NEW c \in Clients, Handle(c)
      PROVE  [Disclosure!Next]_(Disclosure!vars)
  <2>1. HandlerMoves(c) /\ pc[c] \notin NoneInHand /\ HandlerStep(c)
    BY <1>4, HandleMoves DEF HandlerMoves
  <2>2. AbstractSession' = AbstractSession
    BY <2>1 DEF HandlerStep, AbstractSession, Active, Expired
  <2>3. GrantStands' = GrantStands /\ child' = child
    BY <2>1 DEF HandlerStep, GrantStands
  <2>4. Quiet(c)
    BY <2>1, <2>2, <2>3 DEF Quiet, HandlerMoves, Advance, Conclude, Reply, Answer, Goto, TypeInv,
                      BrokerTypeOK
  <2>5. CASE Alive(c)
    BY <2>1, <2>4, <2>5, DisclosureAdvance, DisclosureConclude, DisclosureReply DEF HandlerMoves
  <2>6. CASE ~Alive(c)
    <3>1. UNCHANGED <<asked, told>>
      BY <2>1, <2>6 DEF HandlerMoves, HandlerStep, Advance, Conclude, Reply
    <3>. QED BY <2>4, <2>6, <3>1, DisclosureDead
  <2>. QED BY <2>5, <2>6
<1>. QED
  BY <1>1, <1>2, <1>3, <1>4
     DEF Next, CommandStep, UnlockVault, StartSession, FailStart, Exit, CreateChild,
         RegisterGrant, ResumeChild, ChildWaited, CloseJob, ChildExits, WaitFails,
         Launch, KillAfterChild,
         EndSession, PassKill, CtrlC, OpenServer, ServerFails, StopServer, Expire, Time,
         AuditWrite, AdminLock, AdminSend, AdminAck, vars

\* Whatever is told to a client was permitted to it in one step between its request
\* and the answer, in an active session, by its grant or by the allow-list, and is
\* told once: for any clients, grant and allow-list, and whatever expiry task,
\* shutdown, the child's exit and the other handlers do in between (handle_client,
\* dispatch).
THEOREM BrokerImplementsDisclosure == Spec => ImplementsDisclosure
<1>1. Init => Disclosure!Init
  BY DisclosureInit
<1>2. BrokerInv /\ [Next]_vars => [Disclosure!Next]_(Disclosure!vars)
  BY DisclosureStep
<1>. QED
  BY <1>1, <1>2, BrokerInvHolds, PTL DEF Spec, ImplementsDisclosure, Disclosure!Spec

\* A value answers a request for a secret, a list of names a request for the names.
ToldInv ==
  /\ \A c \in Clients : At(c, "reply") /\ req[c].answer = "value" => req[c].name \in Secrets
  /\ \A t \in Told("value") : t.request.name \in Secrets
  /\ \A t \in Told("names") : t.request.name = All

LEMMA ToldStep ==
  ASSUME TypeInv, ToldInv, [Next]_vars
  PROVE  ToldInv'
<1>. USE DEF TypeInv, Told
<1>1. CASE UNCHANGED <<pc, req, told>>
  BY <1>1 DEF ToldInv, At
<1>2. CASE Gone
  BY <1>2 DEF Gone, ToldInv, At
<1>3. ASSUME NEW c \in Clients, Connect(c) \/ Disconnect(c) \/ Receive(c)
      PROVE  ToldInv'
  <2>1. UNCHANGED told /\ \A d \in Clients \ {c} : pc'[d] = pc[d] /\ req'[d] = req[d]
    BY <1>3 DEF Connect, Disconnect, Receive, Goto, BrokerTypeOK
  <2>2. pc'[c] \in NoneInHand \/ req'[c].answer \in {"none", "refused"}
    BY <1>3 DEF Connect, Disconnect, Receive, Goto, BrokerTypeOK, NoneInHand
  <2>. QED BY <2>1, <2>2 DEF ToldInv, At, NoneInHand
<1>4. ASSUME NEW c \in Clients, Handle(c)
      PROVE  ToldInv'
  <2>1. HandlerMoves(c) /\ pc[c] \notin NoneInHand
    BY <1>4, HandleMoves
  <2>2. ASSUME NEW step \in {"list", "lookup", "granted", "session", "read"}, Advance(c, step)
        PROVE  ToldInv'
    BY <2>1, <2>2 DEF Advance, Goto, ToldInv, At, BrokerTypeOK
  <2>3. ASSUME NEW a \in Answers, Conclude(c, a)
        PROVE  ToldInv'
    <3>1. /\ pc' = [pc EXCEPT ![c] = "reply"] /\ req' = [req EXCEPT ![c] = req'[c]]
          /\ req'[c].name = req[c].name /\ req'[c].answer = a
      BY <2>1, <2>3, AnswerKeeps DEF Conclude
    <3>2. a = "value" => req[c].name \in Secrets
      BY <2>3 DEF Conclude, RequestInv, At
    <3>. QED BY <2>3, <3>1, <3>2 DEF Conclude, ToldInv, At, BrokerTypeOK
  <2>4. CASE Reply(c)
    <3>1. /\ At(c, "reply") /\ pc'[c] \in NoneInHand
          /\ \A d \in Clients \ {c} : pc'[d] = pc[d] /\ req'[d] = req[d]
          /\ told' \subseteq told \cup {[client |-> c, request |-> req[c]]}
      BY <2>4 DEF Reply, Goto, BrokerTypeOK, NoneInHand
    <3>2. /\ req[c].answer = "value" => req[c].name \in Secrets
          /\ req[c].answer = "names" => req[c].name = All
      BY <3>1 DEF ToldInv, RequestInv
    <3>3. \A t \in told' : t \in told \/ t.request = req[c]
      BY <3>1
    <3>. QED BY <3>1, <3>2, <3>3 DEF ToldInv, At, NoneInHand
  <2>. QED BY <2>1, <2>2, <2>3, <2>4 DEF HandlerMoves
<1>. QED
  BY <1>1, <1>2, <1>3, <1>4
     DEF Next, CommandStep, UnlockVault, StartSession, FailStart, Exit, CreateChild,
         RegisterGrant, ResumeChild, ChildWaited, CloseJob, ChildExits, WaitFails,
         Launch, KillAfterChild,
         EndSession, PassKill, CtrlC, OpenServer, ServerFails, StopServer, Expire, Time,
         AuditWrite, AdminLock, AdminSend, AdminAck, vars, handlerVars

LEMMA ToldInvHolds == Spec => []ToldInv
<1>1. Init => ToldInv
  BY DEF Init, ToldInv, Told, At
<1>2. BrokerInv /\ ToldInv /\ [Next]_vars => ToldInv'
  BY ToldStep DEF BrokerInv
<1>. QED BY <1>1, <1>2, BrokerInvHolds, PTL DEF Spec

\* The promise in the terms of the code: a value goes to the launched process only by
\* its grant for as long as that stands, to any other client only by a rule of the
\* allow-list, and the names only to a client that a rule lets read (dispatch).
AnswersFollowRules ==
  /\ \A t \in Told("value") :
       \/ t.client = Child /\ t.request.name \in GrantSecrets
       \/ (t.client = Child => ~GrantStands) /\ <<t.client, t.request.name>> \in Rules
  /\ \A t \in Told("names") : t.client \in Listers

\* No two clients are answered to one request, and none is told two secrets for it.
OneAnswerEach ==
  \A t, u \in Told("value") \cup Told("names") :
    t.request.num = u.request.num => t.client = u.client /\ t.request.name = u.request.name

\* What DisclosureSpec promises of all that implement it, carried over to the process
\* that serves the vault: for any clients, grants, rules and interleaving, whoever is
\* told a secret or the names was entitled to them, and a request is answered once
\* (handle_client, dispatch).
THEOREM AnswersAreEntitled == Spec => [](AnswersFollowRules /\ OneAnswerEach)
<1>1. Spec => [](Disclosure!ToldAreEntitled /\ Disclosure!AnsweredOnce)
  BY BrokerImplementsDisclosure, Disclosure!PromiseIsKept, PTL DEF ImplementsDisclosure
<1>2. ASSUME ToldInv, Disclosure!ToldAreEntitled, Disclosure!AnsweredOnce
      PROVE  AnswersFollowRules /\ OneAnswerEach
  <2>1. ASSUME NEW t \in Told("value") \cup Told("names")
        PROVE  [client |-> t.client, num |-> t.request.num, name |-> t.request.name]
                 \in AbstractTold
    BY DEF AbstractTold
  <2>2. ASSUME NEW t \in Told("value") \cup Told("names")
        PROVE  Disclosure!Entitled(t.client, t.request.name)
    BY <1>2, <2>1 DEF Disclosure!ToldAreEntitled, AbstractTold
  <2>3. AnswersFollowRules
    BY <1>2, <2>2, BrokerAssumption DEF AnswersFollowRules, ToldInv, Disclosure!Entitled
  <2>4. ASSUME NEW t \in Told("value") \cup Told("names"),
               NEW u \in Told("value") \cup Told("names"), t.request.num = u.request.num
        PROVE  t.client = u.client /\ t.request.name = u.request.name
    <3>. DEFINE told_t == [client |-> t.client, num |-> t.request.num, name |-> t.request.name]
                told_u == [client |-> u.client, num |-> u.request.num, name |-> u.request.name]
    <3>1. told_t = told_u
      BY <1>2, <2>1, <2>4 DEF Disclosure!AnsweredOnce, AbstractTold
    <3>. QED BY <3>1
  <2>. QED BY <2>3, <2>4 DEF OneAnswerEach
<1>. QED BY <1>1, <1>2, ToldInvHolds, PTL
-----------------------------------------------------------------------------
(* The end of a session *)

\* There is a session in the slot only from StartSession to EndSession.
SlotInv == main \in Starting \cup {"ended", "exited"} => slot = NoSession

LEMMA SlotStep == TypeInv /\ SlotInv /\ [Next]_vars => SlotInv'
<1>. SUFFICES ASSUME TypeInv, SlotInv, [Next]_vars PROVE SlotInv'
  OBVIOUS
<1>1. CASE UnlockVault \/ StartSession
  BY <1>1, BrokerAssumption DEF UnlockVault, StartSession, New, SlotInv, Starting
<1>2. CASE EndSession \/ Gone
  BY <1>2 DEF EndSession, End, Gone, SlotInv
<1>3. CASE Expire
  BY <1>3 DEF Expire, TimerWake, SlotInv
<1>4. CASE \/ CreateChild \/ RegisterGrant \/ ResumeChild \/ ChildWaited \/ CloseJob
           \/ WaitFails \/ KillAfterChild
  BY <1>4 DEF CreateChild, RegisterGrant, ResumeChild, ChildWaited, CloseJob, WaitFails, Launch,
              KillAfterChild, SlotInv, Starting
<1>5. CASE UNCHANGED <<slot, main>>
  BY <1>5 DEF SlotInv
<1>. QED
  BY <1>1, <1>2, <1>3, <1>4, <1>5
     DEF Next, CommandStep, FailStart, Exit, ChildExits, Launch, PassKill, CtrlC, OpenServer,
         ServerFails, StopServer, Time, Tick, AuditWrite, AdminLock, AdminSend, AdminAck,
         Connect, Disconnect, Receive, Handle, Decide, VerifyGrant, LookupGrant, GrantedSession,
         Session, ReadSecret, ListSecrets, Reply, HandlerStep, vars, sessionVars

LEMMA SlotInvHolds == Spec => []SlotInv
<1>1. Init => SlotInv
  BY DEF Init, InitSession, SlotInv
<1>2. BrokerInv /\ SlotInv /\ [Next]_vars => SlotInv'
  BY SlotStep DEF BrokerInv
<1>. QED BY <1>1, <1>2, BrokerInvHolds, PTL DEF Spec

\* The session of an unlocked vault is taken from it only by time, or by the command
\* once both its servers are closed: no handler, no failing server, no exit of the
\* child and no `mevault lock` ends it under a server that still accepts clients
\* (commands/unlock.rs, commands/run.rs, SessionManager).
THEOREM SessionsEndLast == Spec => LiveSessionEndsLast
<1>1. ASSUME BrokerInv, SlotInv, [Next]_vars, Active, slot' # slot
      PROVE  main = "join" /\ \A v \in Servers : server[v] = "closed"
  <2>1. slot # NoSession
    BY <1>1 DEF Active
  <2>2. ~(StartSession \/ FailStart \/ Exit)
    BY <1>1, <2>1 DEF StartSession, FailStart, Exit, SlotInv, Starting
  <2>3. ~Expire
    <3>1. ASSUME NEW s \in timers, TimerWake(s) PROVE FALSE
      <4>1. slot.id = s.id
        BY <1>1, <3>1 DEF TimerWake
      <4>2. slot = s
        BY <1>1, <2>1, <4>1 DEF BrokerInv, TypeInv, OneSessionPerId, Known
      <4>. QED BY <1>1, <3>1, <4>2 DEF TimerWake, Active
    <3>. QED BY <3>1 DEF Expire
  <2>4. CASE EndSession
    BY <2>4 DEF EndSession
  <2>5. CASE UNCHANGED slot
    BY <1>1, <2>5
  <2>. QED
    BY <1>1, <2>2, <2>3, <2>4, <2>5
       DEF Next, CommandStep, UnlockVault, New, CreateChild, RegisterGrant, ResumeChild,
           ChildWaited, CloseJob, ChildExits, WaitFails,
           Launch, KillAfterChild, PassKill, CtrlC, OpenServer,
           ServerFails, StopServer, Time, Tick, AuditWrite, AdminLock, AdminSend, AdminAck,
           Connect, Disconnect, Receive, Handle, Decide, VerifyGrant, LookupGrant, GrantedSession,
           Session, ReadSecret, ListSecrets, Reply, HandlerStep, vars, sessionVars
<1>2. BrokerInv /\ SlotInv /\ [Next]_vars
        => [Active /\ slot' # slot
             => main = "join" /\ \A v \in Servers : server[v] = "closed"]_vars
  BY <1>1
<1>. QED BY <1>2, BrokerInvHolds, SlotInvHolds, PTL DEF Spec, LiveSessionEndsLast
=============================================================================
