--------------------------- MODULE DisclosureSpec ---------------------------
(***************************************************************************)
(* What a process that serves an unlocked vault promises: nothing is told  *)
(* to a client but in answer to a request of its own, once, and only if in *)
(* one step between the request and the answer the session was active and  *)
(* the client was entitled to what it asked for.  There are no handlers,   *)
(* no pipe, no expiry task and no shutdown here.  Broker, which models the *)
(* code of mevault-core/src/ipc/mod.rs, implements this module.            *)
(***************************************************************************)
EXTENDS Naturals, TLAPS

CONSTANTS
  Clients, Child,   \* who asks; Child is judged by its launch grant while that stands
  Names, All,       \* what is asked for: a secret, or in All the names of them
  Rules, Listers,   \* what the allow-list lets a client read
  GrantSecrets      \* what the launch grant lets Child read

VARIABLES
  session,  \* "none", "active" or "over"
  granted,  \* the launch grant stands; once it is given up it never does again
  request,  \* request[c] : what c has asked for and is not answered yet
  asked,    \* the requests there have been
  told      \* what has been told to whom, and in answer to which request

vars == <<session, granted, request, asked, told>>

NoRequest == [num |-> 0]

\* A request of Child may have been looked up in its grant before that was given up.
Entitled(c, name) ==
  \/ name = All /\ c \in Listers
  \/ name # All /\ c = Child /\ name \in GrantSecrets
  \/ name # All /\ (c = Child => ~granted) /\ <<c, name>> \in Rules
-----------------------------------------------------------------------------
Init == /\ session = "none"
        /\ granted \in BOOLEAN
        /\ request = [c \in Clients |-> NoRequest]
        /\ asked = 0
        /\ told = {}

Begin == session = "none" /\ session' = "active" /\ UNCHANGED <<granted, request, asked, told>>

\* The grant is given up, whether the launched process has exited or not.
Release == granted /\ granted' = FALSE /\ UNCHANGED <<session, request, asked, told>>

\* A session that is over stays so; the process may go with the requests it has, and
\* with the grant.
Close == /\ session' = "over"
         /\ granted' \in {granted, FALSE}
         /\ request' \in {request, [c \in Clients |-> NoRequest]}
         /\ UNCHANGED <<asked, told>>

\* A request that is not understood is refused there and then.
Ask(c) ==
  /\ asked' = asked + 1
  /\ session # "none"
  /\ request[c] = NoRequest
  /\ \/ \E name \in Names :
          request' = [request EXCEPT ![c] = [num |-> asked', name |-> name, stage |-> "asked"]]
     \/ UNCHANGED request
  /\ UNCHANGED <<session, granted, told>>

\* The one step in which the session, the client and what it asks for are looked at.
Permit(c) ==
  /\ session = "active"
  /\ request[c] # NoRequest /\ request[c].stage = "asked"
  /\ Entitled(c, request[c].name)
  /\ request' = [request EXCEPT ![c].stage = "permitted"]
  /\ UNCHANGED <<session, granted, asked, told>>

Tell(c) ==
  /\ request[c] # NoRequest /\ request[c].stage = "permitted"
  /\ told' = told \cup {[client |-> c, num |-> request[c].num, name |-> request[c].name]}
  /\ request' = [request EXCEPT ![c] = NoRequest]
  /\ UNCHANGED <<session, granted, asked>>

\* What was permitted may still fail.
Refuse(c) ==
  /\ request[c] # NoRequest
  /\ request' = [request EXCEPT ![c] = NoRequest]
  /\ UNCHANGED <<session, granted, asked, told>>

Next == \/ \E c \in Clients : Ask(c) \/ Permit(c) \/ Tell(c) \/ Refuse(c)
        \/ Begin \/ Release \/ Close

Spec == Init /\ [][Next]_vars
-----------------------------------------------------------------------------
(* What the promise comes to *)

Waiting(c) == request[c] # NoRequest
Requests == [num : Nat, name : Names, stage : {"asked", "permitted"}]

\* Nothing is told but to a client that is entitled to it.
ToldAreEntitled == \A t \in told : Entitled(t.client, t.name)

\* One request gets one answer.
AnsweredOnce == \A t, u \in told : t.num = u.num => t = u

TypeOK == /\ request \in [Clients -> Requests \cup {NoRequest}]
          /\ asked \in Nat
          /\ told \subseteq [client : Clients, num : Nat, name : Names]

\* Numbers are given out once, so no two requests, waiting or answered, share one.
Numbered ==
  /\ \A c \in Clients : Waiting(c) => request[c].num \leq asked
  /\ \A t \in told : t.num \leq asked
  /\ \A c, d \in Clients :
       Waiting(c) /\ Waiting(d) /\ request[c].num = request[d].num => c = d
  /\ \A c \in Clients, t \in told : Waiting(c) => t.num # request[c].num

PermittedAreEntitled ==
  \A c \in Clients : Waiting(c) /\ request[c].stage = "permitted" => Entitled(c, request[c].name)

Promise == TypeOK /\ Numbered /\ PermittedAreEntitled /\ ToldAreEntitled /\ AnsweredOnce

LEMMA InitPromise == Init => Promise
BY DEF Init, Promise, TypeOK, Numbered, PermittedAreEntitled, ToldAreEntitled, AnsweredOnce,
       Waiting

LEMMA AskPromise == ASSUME Promise, NEW c \in Clients, Ask(c) PROVE Promise'
<1>. USE DEF Promise, TypeOK
<1>1. CASE UNCHANGED request
  <2>1. asked' = asked + 1 /\ UNCHANGED <<granted, told>>
    BY DEF Ask
  <2>2. \A d \in Clients : Waiting(d) => request[d].num \in Nat
    BY DEF Waiting, Requests
  <2>3. Numbered'
    BY <1>1, <2>1, <2>2 DEF Numbered, Waiting
  <2>. QED
    BY <1>1, <2>1, <2>3 DEF PermittedAreEntitled, ToldAreEntitled, AnsweredOnce, Waiting, Entitled
<1>2. CASE \E name \in Names :
             request' = [request EXCEPT ![c] = [num |-> asked', name |-> name, stage |-> "asked"]]
  <2>1. PICK name \in Names :
          request' = [request EXCEPT ![c] = [num |-> asked', name |-> name, stage |-> "asked"]]
    BY <1>2
  <2>2. asked' = asked + 1 /\ UNCHANGED <<granted, told>> /\ ~Waiting(c)
    BY DEF Ask, Waiting
  <2>3. /\ request'[c] = [num |-> asked + 1, name |-> name, stage |-> "asked"]
        /\ \A d \in Clients : d # c => request'[d] = request[d]
    BY <2>1, <2>2
  <2>4. \A d \in Clients : Waiting(d) => request[d] \in Requests
    BY DEF Waiting
  <2>5. TypeOK'
    BY <2>1, <2>2 DEF Requests
  <2>6. Numbered'
    BY <2>2, <2>3, <2>4 DEF Numbered, Waiting, Requests
  <2>7. PermittedAreEntitled'
    BY <2>2, <2>3 DEF PermittedAreEntitled, Waiting, Entitled
  <2>. QED BY <2>2, <2>5, <2>6, <2>7 DEF ToldAreEntitled, AnsweredOnce, Entitled
<1>. QED BY <1>1, <1>2 DEF Ask

LEMMA PermitPromise == ASSUME Promise, NEW c \in Clients, Permit(c) PROVE Promise'
<1>. USE DEF Promise, TypeOK
<1>1. request[c] \in Requests /\ Entitled(c, request[c].name)
  BY DEF Permit
<1>2. /\ request'[c] = [request[c] EXCEPT !.stage = "permitted"]
      /\ \A d \in Clients : d # c => request'[d] = request[d]
      /\ UNCHANGED <<granted, asked, told>>
  BY DEF Permit
<1>3. request'[c] \in Requests /\ request'[c].num = request[c].num
      /\ request'[c].name = request[c].name
  BY <1>1, <1>2 DEF Requests
<1>4. TypeOK'
  BY <1>2, <1>3 DEF Permit
<1>5. \A d \in Clients : Waiting(d)' => Waiting(d) /\ request'[d].num = request[d].num
  BY <1>2, <1>3 DEF Permit, Waiting
<1>6. Numbered'
  BY <1>2, <1>5 DEF Numbered, Waiting
<1>7. PermittedAreEntitled'
  BY <1>1, <1>2, <1>3, <1>5 DEF PermittedAreEntitled, Waiting, Entitled
<1>. QED BY <1>2, <1>4, <1>6, <1>7 DEF ToldAreEntitled, AnsweredOnce, Entitled

LEMMA RequestsGo ==
  ASSUME Promise, UNCHANGED <<asked, told>>, granted' \in {granted, FALSE},
         request' \in [Clients -> Requests \cup {NoRequest}],
         \A c \in Clients : request'[c] \in {request[c], NoRequest}
  PROVE  Promise'
<1>. USE DEF Promise
<1>1. \A c \in Clients : Waiting(c)' => Waiting(c) /\ request'[c] = request[c]
  BY DEF Waiting
<1>2. \A c, name : Entitled(c, name) => Entitled(c, name)'
  BY DEF Entitled
<1>3. TypeOK' /\ Numbered'
  BY <1>1 DEF TypeOK, Numbered
<1>4. PermittedAreEntitled'
  BY <1>1, <1>2 DEF PermittedAreEntitled
<1>5. ToldAreEntitled' /\ AnsweredOnce'
  BY <1>2 DEF ToldAreEntitled, AnsweredOnce
<1>. QED BY <1>3, <1>4, <1>5

LEMMA TellPromise == ASSUME Promise, NEW c \in Clients, Tell(c) PROVE Promise'
<1>. USE DEF Promise, TypeOK
<1>. DEFINE t == [client |-> c, num |-> request[c].num, name |-> request[c].name]
<1>1. request[c] \in Requests /\ Waiting(c) /\ Entitled(c, request[c].name)
  BY DEF Tell, PermittedAreEntitled, Waiting
<1>2. /\ request'[c] = NoRequest
      /\ \A d \in Clients : d # c => request'[d] = request[d]
      /\ asked' = asked /\ told' = told \cup {t} /\ granted' = granted
  BY DEF Tell
<1>3. TypeOK'
  BY <1>1 DEF Tell, Requests
<1>4. Numbered'
  BY <1>1, <1>2 DEF Numbered, Waiting, Requests
<1>5. PermittedAreEntitled' /\ ToldAreEntitled'
  BY <1>1, <1>2 DEF PermittedAreEntitled, ToldAreEntitled, Waiting, Entitled
<1>6. \A u \in told : u.num # t.num
  BY <1>1 DEF Numbered
<1>7. AnsweredOnce'
  BY <1>2, <1>6 DEF AnsweredOnce
<1>. QED BY <1>3, <1>4, <1>5, <1>7

LEMMA NextPromise == Promise /\ [Next]_vars => Promise'
<1>. SUFFICES ASSUME Promise, [Next]_vars PROVE Promise'
  OBVIOUS
<1>1. CASE \E c \in Clients : Ask(c) \/ Permit(c) \/ Tell(c)
  BY <1>1, AskPromise, PermitPromise, TellPromise
<1>2. CASE \E c \in Clients : Refuse(c)
  BY <1>2, RequestsGo DEF Refuse, Promise, TypeOK
<1>3. CASE Begin \/ Release \/ Close \/ UNCHANGED vars
  BY <1>3, RequestsGo DEF Begin, Release, Close, vars, Promise, TypeOK
<1>. QED BY <1>1, <1>2, <1>3 DEF Next

\* Whatever keeps the promise tells nothing but to a client that is entitled to it,
\* and answers no request twice.
THEOREM PromiseIsKept == Spec => [](ToldAreEntitled /\ AnsweredOnce)
<1>1. Promise => ToldAreEntitled /\ AnsweredOnce
  BY DEF Promise
<1>. QED BY InitPromise, NextPromise, <1>1, PTL DEF Spec
=============================================================================
