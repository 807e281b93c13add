------------------------ MODULE SessionManagerProofs ------------------------
(***************************************************************************)
(* Proofs about SessionManager, for any sessions, holders, lifetime and    *)
(* time.                                                                   *)
(***************************************************************************)
EXTENDS SessionManager, TLAPS

\* The sessions an id may still name.
Known == made \cup timers \cup ({slot} \ {NoSession})

\* What makes the comparison of ids in the expiry task as good as one of
\* sessions.
OneSessionPerId == \A s, t \in Known : s.id = t.id => s = t

SessionInv == SessionTypeOK /\ OneSessionPerId
-----------------------------------------------------------------------------
LEMMA InitSessionInv == InitSession => SessionInv
BY SessionAssumption
   DEF InitSession, SessionInv, SessionTypeOK, OneSessionPerId, Known, Sessions

\* A session is made with an id that nothing names, and expires when the bound
\* on the clock allows.
LEMMA NewKeepsInv ==
  ASSUME SessionInv, now <= MaxTime, NEW i \in Ids, NEW h \in Holders, New(i, h)
  PROVE  SessionInv'
<1>. USE SessionAssumption DEF SessionInv
<1>1. PICK e \in {now + Lifetime, Never} : made' = made \cup {[id |-> i, expires |-> e]}
  BY DEF New
<1>2. [id |-> i, expires |-> e] \in Sessions
  BY DEF SessionTypeOK, Sessions
<1>3. SessionTypeOK'
  BY <1>1, <1>2 DEF New, SessionTypeOK
<1>4. \A s \in Known : s.id # i
  BY DEF New, Used, Known
<1>5. Known' = Known \cup {[id |-> i, expires |-> e]}
  BY <1>1 DEF New, Known
<1>6. OneSessionPerId'
  BY <1>4, <1>5 DEF OneSessionPerId
<1>. QED BY <1>3, <1>6

\* A session that starts was known when it was made.
LEMMA StartKeepsInv ==
  ASSUME SessionInv, NEW s \in made, Start(s)
  PROVE  SessionInv'
<1>1. SessionTypeOK'
  BY DEF SessionInv, SessionTypeOK, Start
<1>2. Known' \subseteq Known
  BY DEF Known, Start
<1>3. OneSessionPerId'
  BY <1>2 DEF SessionInv, OneSessionPerId
<1>. QED BY <1>1, <1>3 DEF SessionInv

\* A task that wakes leaves no timed session in the slot without a task: what
\* stays there has another id.
LEMMA TimerWakeKeepsInv ==
  ASSUME SessionInv, NEW s \in timers, TimerWake(s)
  PROVE  SessionInv'
<1>1. SessionTypeOK'
  BY DEF SessionInv, SessionTypeOK, TimerWake
<1>2. Known' \subseteq Known
  BY DEF Known, TimerWake
<1>3. OneSessionPerId'
  BY <1>2 DEF SessionInv, OneSessionPerId
<1>. QED BY <1>1, <1>3 DEF SessionInv

LEMMA StepKeepsInv == SessionInv /\ [NextSession]_sessionVars => SessionInv'
<1>. SUFFICES ASSUME SessionInv, [NextSession]_sessionVars PROVE SessionInv'
  OBVIOUS
<1>. USE SessionAssumption
<1>1. CASE \E i \in Ids, h \in Holders : now <= MaxTime /\ New(i, h)
  BY <1>1, NewKeepsInv
<1>2. CASE \E s \in made : Start(s)
  BY <1>2, StartKeepsInv
<1>3. CASE \E s \in timers : TimerWake(s)
  BY <1>3, TimerWakeKeepsInv
<1>4. CASE End \/ Purge
  BY <1>4 DEF End, Purge, SessionInv, SessionTypeOK, OneSessionPerId, Known
<1>5. CASE Tick
  BY <1>5 DEF Tick, SessionInv, SessionTypeOK, OneSessionPerId, Known
<1>6. CASE \E h \in Holders : Borrow(h)
  <2>1. PICK h \in Holders : Borrow(h)
    BY <1>6
  <2>2. slot.id \in Ids
    BY <2>1 DEF Borrow, Active, SessionInv, SessionTypeOK, Sessions
  <2>. QED
    BY <2>1, <2>2 DEF Borrow, SessionInv, SessionTypeOK, OneSessionPerId, Known
<1>7. CASE \E h \in Holders : GiveBack(h)
  BY <1>7 DEF GiveBack, SessionInv, SessionTypeOK, OneSessionPerId, Known
<1>8. CASE UNCHANGED sessionVars
  BY <1>8 DEF sessionVars, SessionInv, SessionTypeOK, OneSessionPerId, Known
<1>. QED BY <1>1, <1>2, <1>3, <1>4, <1>5, <1>6, <1>7, <1>8 DEF NextSession

LEMMA SessionInvHolds == SpecSession => []SessionInv
<1>. QED BY InitSessionInv, StepKeepsInv, PTL DEF SpecSession
-----------------------------------------------------------------------------
\* Every variable keeps its type, and whatever is started, ended or expired, a
\* timed session that is in the slot has a task that will end it
\* (SessionManager::start).
THEOREM SessionTypeCorrect == SpecSession => []SessionTypeOK
<1>1. SessionInv => SessionTypeOK
  BY DEF SessionInv
<1>. QED BY <1>1, SessionInvHolds, PTL

LEMMA LiveSessionKept ==
  ASSUME SessionInv, [NextSession]_sessionVars, Active, slot' # slot
  PROVE  End \/ \E s \in made : Start(s)
<1>1. ASSUME NEW s \in timers, TimerWake(s) PROVE FALSE
  <2>1. slot # NoSession /\ slot.id = s.id
    BY <1>1 DEF TimerWake
  <2>2. slot = s
    BY <2>1 DEF SessionInv, OneSessionPerId, Known
  <2>. QED BY <1>1, <2>2 DEF TimerWake, Active
<1>2. ~Purge
  BY DEF Purge, Active
<1>3. ~UNCHANGED slot
  OBVIOUS
<1>. QED
  BY <1>1, <1>2, <1>3 DEF NextSession, New, Tick, Borrow, GiveBack, sessionVars

\* No session that has not expired is evicted by a task or a reader: the slot
\* changes under it only when a command ends it or starts another, however many
\* sessions and tasks there are (SessionManager::start).
THEOREM LiveSessionsStay == SpecSession => LiveSessionStays
<1>1. SessionInv /\ [NextSession]_sessionVars
        => [Active /\ slot' # slot => End \/ \E s \in made : Start(s)]_sessionVars
  BY LiveSessionKept
<1>. QED BY <1>1, SessionInvHolds, PTL DEF SpecSession, LiveSessionStays
=============================================================================
