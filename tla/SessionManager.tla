--------------------------- MODULE SessionManager ---------------------------
(***************************************************************************)
(* The session slot of mevault-core/src/session/mod.rs: an                 *)
(* Arc<RwLock<Option<Session>>> that commands fill and empty, that pipe    *)
(* handlers read, and that one background task per timed session empties   *)
(* when the session expires.  A section run under the lock is one step: no *)
(* section awaits anything but the lock.                                   *)
(*                                                                         *)
(* An UnlockedVault, and with it the key, lives as long as something holds *)
(* an Arc of it: the session, the command that unlocked the vault, and the *)
(* handlers that cloned it to read a secret.                               *)
(***************************************************************************)
EXTENDS Naturals

CONSTANTS
  Ids,        \* session ids (Uuid::new_v4)
  Holders,    \* commands and handlers that may hold an Arc<UnlockedVault>
  NoSession,  \* the empty slot
  Never,      \* expires_at of a session that only its terminal ends
  Lifetime,   \* expiry_hours, in ticks of the clock
  MaxTime     \* bound: ticks of the clock

ASSUME SessionAssumption == /\ NoSession \notin Ids
                            /\ Never \notin Nat
                            /\ Lifetime \in Nat
                            /\ MaxTime \in Nat

VARIABLES
  now,     \* Utc::now()
  slot,    \* SessionManager.inner
  made,    \* the sessions constructed and not started yet
  timers,  \* the expiry tasks that are asleep, by their session
  arcs     \* arcs[h] : the session whose vault h holds, or NoSession

sessionVars == <<now, slot, made, timers, arcs>>

Sessions == [id : Ids, expires : 0..(MaxTime + Lifetime) \cup {Never}]

Expired(s) == s.expires # Never /\ now >= s.expires

\* is_active: there is a session and it has not expired
Active == slot # NoSession /\ ~Expired(slot)

Used == {s.id : s \in made \cup timers} \cup {arcs[h] : h \in Holders}
          \cup (IF slot = NoSession THEN {} ELSE {slot.id})

\* The key of session i is in memory.
KeyHeld(i) == i \in {s.id : s \in made} \cup {arcs[h] : h \in Holders}
                     \cup (IF slot = NoSession THEN {} ELSE {slot.id})
-----------------------------------------------------------------------------
InitSession ==
  /\ now = 0
  /\ slot = NoSession
  /\ made = {}
  /\ timers = {}
  /\ arcs = [h \in Holders |-> NoSession]

\* h has unlocked a vault and hands a clone of its Arc to Session::new
New(i, h) ==
  /\ i \notin Used
  /\ arcs[h] = NoSession
  /\ \E e \in {now + Lifetime, Never} : made' = made \cup {[id |-> i, expires |-> e]}
  /\ arcs' = [arcs EXCEPT ![h] = i]
  /\ UNCHANGED <<now, slot, timers>>

\* Seeded fault: the task is spawned for the session that is being replaced.
StartLate(s) ==
  /\ s \in made
  /\ made' = made \ {s}
  /\ slot' = s
  /\ timers' = timers \cup ({slot} \ {NoSession})
  /\ UNCHANGED <<now, arcs>>

\* start: the session takes the slot, whatever was in it, and a timed one gets
\* a task that sleeps until it expires; the task is spawned when the lock is
\* left, with nothing awaited in between
Start(s) ==
  /\ s \in made
  /\ made' = made \ {s}
  /\ slot' = s
  /\ timers' = IF s.expires = Never THEN timers ELSE timers \cup {s}
  /\ UNCHANGED <<now, arcs>>

\* Seeded fault: the task empties the slot whoever is in it.
TimerWakeAny(s) ==
  /\ s \in timers /\ Expired(s)
  /\ timers' = timers \ {s}
  /\ slot' = NoSession
  /\ UNCHANGED <<now, made, arcs>>

\* the expiry task of s wakes and drops s if it is still in the slot
TimerWake(s) ==
  /\ s \in timers /\ Expired(s)
  /\ timers' = timers \ {s}
  /\ slot' = IF slot # NoSession /\ slot.id = s.id THEN NoSession ELSE slot
  /\ UNCHANGED <<now, made, arcs>>

End == slot' = NoSession /\ UNCHANGED <<now, made, timers, arcs>>

\* is_active and with_session drop an expired session when they come upon it
Purge == /\ slot # NoSession /\ Expired(slot)
         /\ slot' = NoSession
         /\ UNCHANGED <<now, made, timers, arcs>>

\* Session::vault, called under the lock after the state was checked
Borrow(h) == /\ Active
             /\ arcs[h] = NoSession
             /\ arcs' = [arcs EXCEPT ![h] = slot.id]
             /\ UNCHANGED <<now, slot, made, timers>>

GiveBack(h) == /\ arcs[h] # NoSession
               /\ arcs' = [arcs EXCEPT ![h] = NoSession]
               /\ UNCHANGED <<now, slot, made, timers>>

Tick == /\ now < MaxTime + Lifetime
        /\ now' = now + 1
        /\ UNCHANGED <<slot, made, timers, arcs>>
-----------------------------------------------------------------------------
\* No session is made later than MaxTime, so that each one lives to expire.
NextSession ==
  \/ \E i \in Ids, h \in Holders : now <= MaxTime /\ New(i, h)
  \/ \E s \in made : Start(s)
  \/ \E s \in timers : TimerWake(s)
  \/ End \/ Purge \/ Tick
  \/ \E h \in Holders : Borrow(h) \/ GiveBack(h)

SpecSession == InitSession /\ [][NextSession]_sessionVars

\* Time passes, the runtime wakes the tasks whose time has come, a command
\* starts the session it made, and who holds a vault is done with it some day.
FairSession ==
  /\ SpecSession
  /\ WF_sessionVars(Tick)
  /\ \A s \in Sessions : WF_sessionVars(Start(s)) /\ WF_sessionVars(TimerWake(s))
  /\ \A h \in Holders : WF_sessionVars(GiveBack(h))
-----------------------------------------------------------------------------
(* Properties *)

\* Every variable has its type, and a timed session in the slot has a task
\* that will see to its end.
SessionTypeOK ==
  /\ now \in 0..(MaxTime + Lifetime)
  /\ slot \in Sessions \cup {NoSession}
  /\ made \in SUBSET Sessions
  /\ timers \in SUBSET Sessions
  /\ arcs \in [Holders -> Ids \cup {NoSession}]
  /\ slot # NoSession => slot.expires = Never \/ slot \in timers

\* A session that has not expired leaves the slot only because a command ends
\* it or starts another: no task of an older session, and no reader, evicts it
\* ("a newer session started after this one must not be evicted", start).
LiveSessionStays ==
  [][Active /\ slot' # slot => End \/ \E s \in made : Start(s)]_sessionVars

\* When its time has come, a session's key leaves memory, however late the
\* task is and whoever was reading a secret meanwhile ("drops it (and
\* therefore zeroizes the DEK) when the expiry fires", start).
ExpiredKeyIsDropped ==
  \A s \in Sessions : (slot = s /\ Expired(s)) ~> ~KeyHeld(s.id)
=============================================================================
