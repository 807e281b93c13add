-------------------------- MODULE VaultStoreProofs --------------------------
(***************************************************************************)
(* Proofs about VaultStore, for any number of threads, names, passwords,   *)
(* secrets and values, and any bounds.                                     *)
(***************************************************************************)
EXTENDS VaultStore, TLAPS

Writing == {"write", "promote"}
Migrating == {"backup", "bakwrite", "uniqwrite", "mwrite", "verify", "mpromote"}
BackedUp == {"mwrite", "verify", "mpromote"}

\* Who runs under the lock, or is about to release it, holds it.
LockInv ==
  \A p \in Procs : pc[p] \in UnderLock \cup {"unlock"} => lock = p

\* The two sections of a v2 file are sealed for the same file and fit together.
Sealed(f) == /\ f.kp.aad = <<f.vid, f.name>>
             /\ f.payload.aad = <<f.vid, f.name>>
             /\ f.payload.key = f.kp.body

FileInv == file.ver = 2 => Sealed(file)

\* What p has built is what its operation makes of the file that is there: the
\* file it read is still there, p having held the lock since.
StagedInv(p) ==
  /\ op[p].kind = "create" =>
       /\ file = NoFile
       /\ next[p] \in V2Files
       /\ next[p] = V2(op[p].name, next[p].vid, op[p].pw, next[p].vid, EmptyMap)
  /\ op[p].kind = "edit" =>
       /\ Held(handle[p]) /\ OpensPayload(handle[p], file)
       /\ next[p] = [file EXCEPT !.payload =
                       Seal(handle[p].dek, <<handle[p].vid, handle[p].name>>,
                            Edited(file.payload.body, op[p].edit))]
  /\ op[p].kind = "passwd" =>
       /\ OpensV2(file, op[p].name, op[p].pw)
       /\ next[p] = [file EXCEPT !.kp =
                       Seal(op[p].new, <<file.vid, op[p].name>>, file.kp.body)]
  /\ op[p].kind # "unlock"

MigrationInv(p) ==
  /\ op[p].kind \in {"unlock", "passwd"}
  /\ OpensV1(file, op[p].name, op[p].pw)
  /\ next[p] \in V2Files
  /\ next[p] = V2(op[p].name, next[p].vid, op[p].pw, next[p].vid, file.blob.body)
  /\ built[p] = Handle(op[p].name, next[p].vid, next[p].vid)

RewrapInv(p) ==
  /\ op[p].kind = "passwd"
  /\ OpensV2(file, op[p].name, op[p].pw)
  /\ built[p] = HandleOf(file)

\* Where p stands.
Stands(p) ==
  /\ pc[p] = "idle" <=> op[p] = Idle
  /\ pc[p] = "lookup" => op[p].kind = "unlock"
  /\ pc[p] \in Writing => StagedInv(p)
  /\ pc[p] \in Migrating => MigrationInv(p)
  /\ pc[p] = "rewrap" => RewrapInv(p)
  /\ pc[p] \in {"promote", "verify"} => tmp[p] \in Written(next[p])
  /\ pc[p] = "mpromote" => tmp[p] = next[p]
  /\ op[p].kind = "edit" => Held(handle[p])

ProcInv == \A p \in Procs : Stands(p)

IInv == TypeOK /\ LockInv /\ FileInv /\ ProcInv /\ HandleStaysValid
-----------------------------------------------------------------------------
(* Types *)

LEMMA EditedType ==
  ASSUME NEW m \in SecretMaps, NEW e \in Edits
  PROVE  Edited(m, e) \in SecretMaps
<1>1. ASSUME NEW s \in DOMAIN e PROVE e[s] \in Values \cup {NoValue}
  <2>1. ASSUME NEW S \in SUBSET Secrets, e \in [S -> Values]
        PROVE  e[s] \in Values
    <3>1. DOMAIN e = S
      BY <2>1
    <3>. QED
      BY <1>1, <2>1, <3>1
  <2>2. ASSUME NEW t \in Secrets, e \in [{t} -> {NoValue}]
        PROVE  e[s] = NoValue
    <3>1. DOMAIN e = {t}
      BY <2>2
    <3>. QED
      BY <1>1, <2>2, <3>1
  <2>3. \/ \E S \in SUBSET Secrets : e \in [S -> Values]
        \/ \E t \in Secrets : e \in [{t} -> {NoValue}]
    <3>1. CASE e \in Settings
      BY <3>1, Zenon DEF Settings
    <3>2. CASE e \in Removals
      BY <3>2, Zenon DEF Removals
    <3>. QED
      BY <3>1, <3>2 DEF Edits
  <2>. QED
    BY <2>1, <2>2, <2>3
<1>. QED
  BY <1>1 DEF Edited, SecretMaps

LEMMA OperationFields ==
  ASSUME NEW o \in Operations \cup {Idle}
  PROVE  /\ o.kind \in {"create", "unlock", "passwd"} => o.name \in Names /\ o.pw \in Passwords
         /\ o.kind = "passwd" => o.new \in Passwords
         /\ o.kind = "edit" => o.edit \in Edits
         /\ o.kind \in {"create", "unlock", "passwd", "edit", "idle"}
         /\ o.kind = "idle" <=> o = Idle
  BY DEF Operations, Idle

LEMMA V2Type ==
  ASSUME NEW n \in Names, NEW id \in Nat, NEW pw \in Passwords, NEW m \in SecretMaps
  PROVE  V2(n, id, pw, id, m) \in V2Files
  BY DEF V2, V2Files, Seal, BoxOf

LEMMA EmptyMapType == EmptyMap \in SecretMaps
  BY DEF EmptyMap, SecretMaps

LEMMA V1Fields ==
  ASSUME NEW f \in Files, f.ver = 1
  PROVE  /\ f \in V1Files
         /\ f.name \in Names
         /\ f.blob.key \in Passwords /\ f.blob.aad \in Names /\ f.blob.body \in SecretMaps
  BY DEF Files, V1Files, V2Files, NoFile, Unreadable, BoxOf

LEMMA V2Fields ==
  ASSUME NEW f \in Files, f.ver = 2
  PROVE  /\ f \in V2Files
         /\ f.name \in Names /\ f.vid \in Nat
         /\ f.kp \in BoxOf(Passwords, Nat \X Names, Nat)
         /\ f.payload \in BoxOf(Nat, Nat \X Names, SecretMaps)
         /\ f.kp.key \in Passwords /\ f.kp.body \in Nat
         /\ f.payload.key \in Nat /\ f.payload.body \in SecretMaps
  BY DEF Files, V1Files, V2Files, NoFile, Unreadable, BoxOf

\* The four shapes a file may have are told apart by its version.
LEMMA Versions ==
  ASSUME NEW f \in Files
  PROVE  /\ f.ver \in 0..3
         /\ f.ver = 0 <=> f = NoFile
         /\ f.ver = 3 <=> f = Unreadable
         /\ f.ver = 1 <=> f \in V1Files
         /\ f.ver = 2 <=> f \in V2Files
  BY DEF Files, V1Files, V2Files, NoFile, Unreadable
-----------------------------------------------------------------------------
\* What is staged is a well-formed v2 file.
LEMMA StagedV2 ==
  ASSUME IInv, NEW p \in Procs, pc[p] \in Writing \cup Migrating
  PROVE  next[p] \in V2Files
<1>. TypeOK /\ ProcInv
  BY DEF IInv
<1>1. CASE pc[p] \in Migrating
  BY <1>1 DEF ProcInv, Stands, MigrationInv
<1>2. CASE pc[p] \in Writing
  <2>1. StagedInv(p) /\ op[p] # Idle
    BY <1>2 DEF ProcInv, Stands, Writing
  <2>2. op[p].kind \in {"create", "edit", "passwd"}
    BY <2>1, OperationFields DEF StagedInv, TypeOK
  <2>3. op[p].kind # "create" => file \in V2Files
    BY <2>1, <2>2, V2Fields DEF StagedInv, OpensPayload, OpensV2, TypeOK
  <2>4. next[p].ver = 2
    BY <2>1, <2>2, <2>3 DEF StagedInv, V2, V2Files
  <2>. QED
    BY <2>4 DEF TypeOK, NoFile
<1>. QED
  BY <1>1, <1>2

\* Init and every step keep every variable in its type.
LEMMA InitType == Init => TypeOK
<1>. SUFFICES ASSUME Init PROVE TypeOK
  OBVIOUS
<1>1. /\ file \in {NoFile} \cup V1Files /\ file # Unreadable
      /\ bak \in {NoFile} \cup V1Files
  BY DEF Init, V1, V1Files, Seal, BoxOf, NoFile, Unreadable
<1>. QED
  BY <1>1 DEF Init, TypeOK, Files, Handles, Steps, disk

LEMMA StepType == IInv /\ [Next]_vars => TypeOK'
<1>. SUFFICES ASSUME IInv, [Next]_vars PROVE TypeOK'
  OBVIOUS
<1>0. CASE UNCHANGED vars
  BY <1>0 DEF IInv, vars, TypeOK, disk, history
<1>. SUFFICES ASSUME NEW p \in Procs,
                     \/ \E o \in Operations : Invoke(p, o)
                     \/ Step(p) \/ Fail(p) \/ Crash(p) \/ Drop(p)
              PROVE  TypeOK'
  BY <1>0 DEF Next
<1>. TypeOK /\ ProcInv
  BY DEF IInv
<1>. USE DEF Steps, UnderLock, Goto, At, disk, history
<1>1. CASE \E o \in Operations : Invoke(p, o)
  BY <1>1 DEF Invoke, TypeOK
<1>2. CASE Lookup(p)
  <2>1. OpensV2(file, op[p].name, op[p].pw) => HandleOf(file) \in Handles
    BY V2Fields DEF OpensV2, HandleOf, Handle, Handles, TypeOK
  <2>2. NoHandle \in Handles
    BY DEF Handles
  <2>3. handle' \in [Procs -> Handles]
    BY <1>2, <2>1 DEF Lookup, TypeOK
  <2>. QED
    BY <1>2, <2>2, <2>3 DEF Lookup, Return, TypeOK
<1>3. CASE Acquire(p)
  BY <1>3 DEF Acquire, TypeOK
<1>4. CASE Release(p)
  BY <1>4 DEF Release, Return, TypeOK, Handles
<1>5. CASE ReadForCreate(p)
  <2>1. V2(op[p].name, fresh, op[p].pw, fresh, EmptyMap) \in V2Files
    BY <1>5, V2Type, EmptyMapType, OperationFields DEF ReadForCreate, TypeOK
  <2>. QED
    BY <1>5, <2>1 DEF ReadForCreate, Stage, End, TypeOK
<1>6. CASE ReadForEdit(p)
  <2>1. ASSUME OpensPayload(handle[p], file)
        PROVE  [file EXCEPT !.payload = Seal(handle[p].dek, <<handle[p].vid, handle[p].name>>,
                                           Edited(file.payload.body, op[p].edit))] \in V2Files
    <3>1. handle[p] \in [kind : {"unlocked"}, name : Names, vid : Nat, dek : Nat]
      BY <1>6 DEF ReadForEdit, TypeOK, ProcInv, Stands, Handles, NoHandle, Held
    <3>2. file \in V2Files /\ file.payload.body \in SecretMaps
      BY <2>1, V2Fields DEF OpensPayload, TypeOK
    <3>3. Edited(file.payload.body, op[p].edit) \in SecretMaps
      BY <1>6, <3>2, EditedType, OperationFields DEF ReadForEdit, TypeOK
    <3>. QED
      BY <3>1, <3>2, <3>3 DEF V2Files, Seal, BoxOf
  <2>. QED
    BY <1>6, <2>1 DEF ReadForEdit, Stage, End, TypeOK
<1>7. ASSUME Migrate(p), UNCHANGED <<disk, lock, op, tmp, handle, started, crashed, orig>>,
             op[p].kind \in {"unlock", "passwd"}
      PROVE  TypeOK'
  <2>1. op[p].name \in Names /\ op[p].pw \in Passwords
    BY <1>7, OperationFields DEF TypeOK
  <2>2. ASSUME OpensV1(file, op[p].name, op[p].pw)
        PROVE  V2(op[p].name, fresh, op[p].pw, fresh, file.blob.body) \in V2Files
    BY <2>1, <2>2, V1Fields, V2Type DEF OpensV1, TypeOK
  <2>3. Handle(op[p].name, fresh, fresh) \in Handles
    BY <2>1 DEF Handle, Handles, TypeOK
  <2>. QED
    BY <1>7, <2>1, <2>2, <2>3 DEF Migrate, Stage, End, TypeOK
<1>8. CASE ReadForUnlock(p)
  BY <1>8, <1>7 DEF ReadForUnlock
<1>9. CASE ReadForPasswd(p)
  <2>1. CASE file.ver = 1 /\ Migrate(p)
    BY <1>7, <1>9, <2>1 DEF ReadForPasswd
  <2>2. CASE ~(file.ver = 1 /\ Migrate(p))
    <3>1. OpensV2(file, op[p].name, op[p].pw) => HandleOf(file) \in Handles
      BY V2Fields DEF OpensV2, HandleOf, Handle, Handles, TypeOK
    <3>. QED
      BY <1>9, <2>2, <3>1 DEF ReadForPasswd, End, TypeOK
  <2>. QED
    BY <2>1, <2>2
<1>10. CASE Rewrap(p)
  <2>1. [file EXCEPT !.kp = Seal(op[p].new, <<file.vid, op[p].name>>, built[p].dek)] \in V2Files
    <3>1. RewrapInv(p)
      BY <1>10 DEF Rewrap, ProcInv, Stands
    <3>2. op[p].new \in Passwords
      BY <3>1, OperationFields DEF RewrapInv, TypeOK
    <3>3. /\ file \in V2Files /\ file.vid \in Nat /\ file.name = op[p].name
          /\ file.name \in Names /\ file.kp.body \in Nat
      BY <3>1, V2Fields DEF RewrapInv, OpensV2, TypeOK
    <3>4. built[p].dek = file.kp.body
      BY <3>1 DEF RewrapInv, HandleOf, Handle
    <3>. QED
      BY <3>2, <3>3, <3>4 DEF V2Files, Seal, BoxOf
  <2>. QED
    BY <1>10, <2>1 DEF Rewrap, Stage, End, TypeOK
<1>11. CASE Backup(p)
  BY <1>11 DEF Backup, TypeOK
<1>12. CASE BackupWrite(p)
  <2>1. file \in V1Files
    BY <1>12, V1Fields DEF BackupWrite, ProcInv, Stands, Migrating, MigrationInv, OpensV1, TypeOK
  <2>. QED
    BY <1>12, <2>1 DEF BackupWrite, Written, TypeOK
<1>13. CASE WriteTmp(p)
  <2>1. next[p] \in V2Files
    BY <1>13, StagedV2 DEF WriteTmp, IInv, Writing, Migrating, ProcInv
  <2>. QED
    BY <1>13, <2>1 DEF WriteTmp, Written, TypeOK
<1>14. CASE VerifyTmp(p)
  BY <1>14 DEF VerifyTmp, End, TypeOK
<1>15. CASE Promote(p)
  <2>1. tmp[p] \in Written(next[p]) /\ next[p] \in V2Files
    BY <1>15, StagedV2 DEF Promote, ProcInv, Stands, Writing, IInv
  <2>2. tmp[p] \in Files /\ (tmp[p] = Unreadable => CorruptWrites)
    BY <2>1, Versions DEF Written, Files, V2Files, Unreadable
  <2>. QED
    BY <1>15, <2>2 DEF Promote, Rename, End, TypeOK
<1>16. CASE MigratePromote(p)
  <2>1. tmp[p] = next[p] /\ next[p] \in V2Files
    BY <1>16, StagedV2 DEF MigratePromote, ProcInv, Stands, Migrating, IInv
  <2>2. tmp[p] \in Files /\ tmp[p] # Unreadable
    BY <2>1 DEF Files, V2Files, Unreadable
  <2>. QED
    BY <1>16, <2>2 DEF MigratePromote, Rename, End, TypeOK
<1>17. CASE Fail(p)
  BY <1>17 DEF Fail, Return, End, TypeOK, Handles
<1>18. CASE Crash(p)
  BY <1>18 DEF Crash, Return, TypeOK, Handles
<1>19. CASE Drop(p)
  BY <1>19 DEF Drop, TypeOK, Handles
<1>. QED
  BY <1>1, <1>2, <1>3, <1>4, <1>5, <1>6, <1>8, <1>9, <1>10, <1>11, <1>12,
     <1>13, <1>14, <1>15, <1>16, <1>17, <1>18, <1>19 DEF Step
-----------------------------------------------------------------------------
(* What a step of p leaves alone *)

StepOf(p) == \/ \E o \in Operations : Invoke(p, o)
             \/ Step(p) \/ Fail(p) \/ Crash(p) \/ Drop(p)

\* A step of p changes the locals of no one else, changes the file only by a
\* rename, and takes or returns no lock but its own.
LEMMA Frame ==
  ASSUME TypeOK, LockInv, NEW p \in Procs, StepOf(p)
  PROVE  /\ \A q \in Procs \ {p} :
              /\ pc'[q] = pc[q] /\ op'[q] = op[q] /\ next'[q] = next[q]
              /\ tmp'[q] = tmp[q] /\ built'[q] = built[q] /\ handle'[q] = handle[q]
         /\ \/ file' = file
            \/ pc[p] \in {"promote", "mpromote"} /\ file' = tmp[p]
         /\ \/ lock' = lock /\ (pc'[p] \in UnderLock \cup {"unlock"} =>
                                  pc[p] \in UnderLock \cup {"unlock"})
            \/ lock = NoProc /\ lock' = p
            \/ lock = p /\ pc'[p] = "idle"
<1>. USE DEF TypeOK, Goto, At, disk, history, UnderLock
<1>1. CASE \E o \in Operations : Invoke(p, o)
  BY <1>1 DEF Invoke
<1>2. CASE Lookup(p)
  BY <1>2 DEF Lookup, Return
<1>3. CASE Acquire(p)
  BY <1>3 DEF Acquire
<1>4. CASE Release(p)
  BY <1>4 DEF Release, Return, LockInv
<1>5. CASE ReadForCreate(p)
  BY <1>5 DEF ReadForCreate, Stage, End
<1>6. CASE ReadForEdit(p)
  BY <1>6 DEF ReadForEdit, Stage, End
<1>7. CASE ReadForUnlock(p)
  BY <1>7 DEF ReadForUnlock, Migrate, Stage, End
<1>8. CASE ReadForPasswd(p)
  BY <1>8 DEF ReadForPasswd, Migrate, Stage, End
<1>9. CASE Rewrap(p)
  BY <1>9 DEF Rewrap, Stage, End
<1>10. CASE Backup(p) \/ BackupWrite(p)
  BY <1>10 DEF Backup, BackupWrite
<1>11. CASE WriteTmp(p)
  BY <1>11 DEF WriteTmp
<1>12. CASE VerifyTmp(p)
  BY <1>12 DEF VerifyTmp, End
<1>13. CASE Promote(p)
  BY <1>13 DEF Promote, Rename, End
<1>14. CASE MigratePromote(p)
  BY <1>14 DEF MigratePromote, Rename, End
<1>15. CASE Fail(p)
  BY <1>15 DEF Fail, Return, End
<1>16. CASE Crash(p)
  BY <1>16 DEF Crash, Return
<1>17. CASE Drop(p)
  BY <1>17 DEF Drop
<1>. QED
  BY <1>1, <1>2, <1>3, <1>4, <1>5, <1>6, <1>7, <1>8, <1>9, <1>10, <1>11,
     <1>12, <1>13, <1>14, <1>15, <1>16, <1>17 DEF StepOf, Step

LEMMA StepOfNext == [Next]_vars <=> (\E p \in Procs : StepOf(p)) \/ UNCHANGED vars
  BY DEF Next, StepOf

LEMMA LockStep == IInv /\ [Next]_vars => LockInv'
<1>. SUFFICES ASSUME IInv, [Next]_vars PROVE LockInv'
  OBVIOUS
<1>1. CASE UNCHANGED vars
  BY <1>1 DEF IInv, vars, LockInv
<1>2. ASSUME NEW p \in Procs, StepOf(p) PROVE LockInv'
  BY <1>2, Frame, StoreAssumption DEF IInv, LockInv, UnderLock
<1>. QED
  BY <1>1, <1>2, StepOfNext

\* A rename puts a well-sealed file in place that every handle opens, or an
\* unreadable one.
LEMMA StagedSealed ==
  ASSUME IInv, NEW p \in Procs, pc[p] \in {"promote", "mpromote"}, tmp[p] # Unreadable
  PROVE  /\ tmp[p] = next[p] /\ next[p].ver = 2 /\ Sealed(next[p])
         /\ \A q \in Procs : Held(handle[q]) => OpensPayload(handle[q], next[p])
<1>. TypeOK /\ ProcInv /\ HandleStaysValid /\ FileInv
  BY DEF IInv
<1>1. tmp[p] = next[p] /\ next[p] \in V2Files
  BY StagedV2 DEF ProcInv, Stands, Written, Writing, Migrating
<1>2. CASE pc[p] = "mpromote"
  <2>1. file.ver = 1 /\ next[p] = V2(op[p].name, next[p].vid, op[p].pw, next[p].vid, file.blob.body)
    BY <1>2 DEF ProcInv, Stands, Migrating, MigrationInv, OpensV1
  <2>2. Sealed(next[p])
    BY <2>1 DEF V2, Seal, Sealed
  <2>3. \A q \in Procs : ~Held(handle[q])
    BY <2>1 DEF HandleStaysValid, OpensPayload, Unreadable
  <2>. QED
    BY <1>1, <2>2, <2>3 DEF V2Files
<1>3. CASE pc[p] = "promote"
  <2>1. StagedInv(p) /\ op[p] # Idle
    BY <1>3 DEF ProcInv, Stands, Writing
  <2>2. CASE op[p].kind = "create"
    <3>1. file = NoFile /\ next[p] = V2(op[p].name, next[p].vid, op[p].pw, next[p].vid, EmptyMap)
      BY <2>1, <2>2 DEF StagedInv
    <3>2. Sealed(next[p])
      BY <3>1 DEF V2, Seal, Sealed
    <3>3. \A q \in Procs : ~Held(handle[q])
      BY <3>1 DEF HandleStaysValid, OpensPayload, Unreadable, NoFile
    <3>. QED
      BY <1>1, <3>2, <3>3 DEF V2Files
  <2>3. CASE op[p].kind = "edit"
    <3>1. /\ OpensPayload(handle[p], file)
          /\ next[p] = [file EXCEPT !.payload =
                          Seal(handle[p].dek, <<handle[p].vid, handle[p].name>>,
                               Edited(file.payload.body, op[p].edit))]
      BY <2>1, <2>3 DEF StagedInv
    <3>2. file \in V2Files /\ file # Unreadable /\ Sealed(file)
      BY <3>1, V2Fields DEF OpensPayload, TypeOK, Unreadable, FileInv
    <3>3. /\ next[p].kp = file.kp /\ next[p].name = file.name /\ next[p].vid = file.vid
          /\ next[p].payload.key = file.payload.key /\ next[p].payload.aad = file.payload.aad
      BY <3>1, <3>2 DEF V2Files, Seal, OpensPayload, CanOpen
    <3>. QED
      BY <1>1, <3>2, <3>3 DEF HandleStaysValid, OpensPayload, CanOpen, Sealed, V2Files
  <2>4. CASE op[p].kind = "passwd"
    <3>1. /\ OpensV2(file, op[p].name, op[p].pw)
          /\ next[p] = [file EXCEPT !.kp =
                          Seal(op[p].new, <<file.vid, op[p].name>>, file.kp.body)]
      BY <2>1, <2>4 DEF StagedInv
    <3>2. file \in V2Files /\ file # Unreadable /\ Sealed(file) /\ file.name = op[p].name
      BY <3>1, V2Fields DEF OpensV2, TypeOK, Unreadable, FileInv
    <3>3. /\ next[p].payload = file.payload /\ next[p].name = file.name /\ next[p].vid = file.vid
          /\ next[p].kp.body = file.kp.body /\ next[p].kp.aad = file.kp.aad
      BY <3>1, <3>2 DEF V2Files, Seal, Sealed
    <3>. QED
      BY <1>1, <3>2, <3>3 DEF HandleStaysValid, OpensPayload, CanOpen, Sealed, V2Files
  <2>. QED
    BY <2>1, <2>2, <2>3, <2>4, OperationFields DEF StagedInv, TypeOK
<1>. QED
  BY <1>2, <1>3

LEMMA FileStep == IInv /\ [Next]_vars => FileInv' /\ HandleStaysValid'
<1>. SUFFICES ASSUME IInv, [Next]_vars PROVE FileInv' /\ HandleStaysValid'
  OBVIOUS
<1>. TypeOK /\ LockInv /\ ProcInv /\ HandleStaysValid /\ FileInv
  BY DEF IInv
<1>1. CASE UNCHANGED vars
  BY <1>1 DEF vars, FileInv, HandleStaysValid, Sealed, OpensPayload, CanOpen
<1>2. ASSUME NEW p \in Procs, StepOf(p) PROVE FileInv' /\ HandleStaysValid'
  <2>1. CASE file' # file
    <3>1. pc[p] \in {"promote", "mpromote"} /\ file' = tmp[p]
      BY <1>2, <2>1, Frame
    <3>2. Promote(p) \/ MigratePromote(p)
      BY <1>2, <2>1 DEF StepOf, Step, Invoke, Lookup, Acquire, Release, ReadForCreate,
         ReadForEdit, ReadForUnlock, ReadForPasswd, Rewrap, Backup, BackupWrite, WriteTmp,
         VerifyTmp, Fail, Crash, Drop, disk
    <3>3. CASE tmp[p] = Unreadable
      BY <3>1, <3>3 DEF FileInv, HandleStaysValid, Unreadable
    <3>4. CASE tmp[p] # Unreadable
      <4>1. FileInv'
        BY <3>1, <3>4, StagedSealed DEF FileInv, Sealed
      <4>2. ASSUME NEW q \in Procs, Held(handle'[q]), handle'[q] = handle[q]
            PROVE  OpensPayload(handle'[q], file')
        BY <3>1, <3>4, <4>2, StagedSealed DEF Held
      <4>3. \/ handle' = handle
            \/ MigratePromote(p) /\ handle' = [handle EXCEPT ![p] = built[p]]
        BY <3>2 DEF Promote, MigratePromote
      <4>4. CASE handle' = handle
        BY <4>1, <4>2, <4>4 DEF HandleStaysValid
      <4>5. CASE MigratePromote(p) /\ handle' = [handle EXCEPT ![p] = built[p]]
        <5>1. MigrationInv(p) /\ handle'[p] = built[p]
          BY <4>5 DEF MigratePromote, At, ProcInv, Stands, Migrating, TypeOK
        <5>2. OpensPayload(handle'[p], file')
          BY <3>1, <3>4, <5>1, StagedSealed
             DEF MigrationInv, Handle, V2, Seal, OpensPayload, CanOpen
        <5>3. \A q \in Procs \ {p} : handle'[q] = handle[q]
          BY <4>5 DEF TypeOK
        <5>. QED
          BY <4>1, <4>2, <5>2, <5>3 DEF HandleStaysValid
      <4>. QED
        BY <4>3, <4>4, <4>5
    <3>. QED
      BY <3>3, <3>4
  <2>2. CASE file' = file
    <3>1. FileInv'
      BY <2>2 DEF FileInv, Sealed
    <3>2. ASSUME OpensV2(file, op[p].name, op[p].pw)
          PROVE  OpensPayload(HandleOf(file), file)
      BY <3>2 DEF FileInv, Sealed, OpensV2, OpensPayload, CanOpen, HandleOf, Handle
    <3>3. \/ handle'[p] = handle[p] \/ ~Held(handle'[p])
          \/ OpensV2(file, op[p].name, op[p].pw) /\ handle'[p] = HandleOf(file)
          \/ MigratePromote(p)
      BY <1>2 DEF StepOf, Step, Invoke, Lookup, Acquire, Release, ReadForCreate,
         ReadForEdit, ReadForUnlock, ReadForPasswd, Rewrap, Backup, BackupWrite, WriteTmp,
         VerifyTmp, Promote, Fail, Crash, Drop, TypeOK, NoHandle, Held, Migrate
    <3>4. ~MigratePromote(p)
      <4>1. ASSUME MigratePromote(p) PROVE FALSE
        <5>1. file.ver = 1 /\ next[p] \in V2Files /\ file' = next[p]
          BY <4>1 DEF MigratePromote, Rename, At, ProcInv, Stands, Migrating, MigrationInv, OpensV1
        <5>. QED
          BY <2>2, <5>1 DEF V2Files
      <4>. QED
        BY <4>1
    <3>5. ASSUME NEW q \in Procs, Held(handle'[q]), file' # Unreadable
          PROVE  OpensPayload(handle'[q], file')
      BY <1>2, <2>2, <3>2, <3>3, <3>4, <3>5, Frame DEF HandleStaysValid
    <3>. QED
      BY <3>1, <3>5 DEF HandleStaysValid
  <2>. QED
    BY <2>1, <2>2
<1>. QED
  BY <1>1, <1>2, StepOfNext

\* A step of p leaves every other process where it stands: what depends on the
\* file is claimed only by who holds the lock.
LEMMA OthersStand ==
  ASSUME IInv, NEW p \in Procs, StepOf(p), NEW q \in Procs \ {p}
  PROVE  Stands(q)'
<1>. TypeOK /\ LockInv /\ ProcInv
  BY DEF IInv
<1>. Stands(q)
  BY DEF ProcInv, Stands
<1>1. /\ pc'[q] = pc[q] /\ op'[q] = op[q] /\ next'[q] = next[q]
      /\ tmp'[q] = tmp[q] /\ built'[q] = built[q] /\ handle'[q] = handle[q]
  BY Frame
<1>2. CASE file' = file
  BY <1>1, <1>2 DEF Stands, StagedInv, MigrationInv, RewrapInv, Written, Held,
     OpensPayload, OpensV1, OpensV2, CanOpen, HandleOf
<1>3. CASE file' # file
  <2>1. pc[q] \notin UnderLock
    BY <1>3, Frame DEF LockInv, UnderLock
  <2>. QED
    BY <1>1, <2>1 DEF Stands, UnderLock, Writing, Migrating, Held
<1>. QED
  BY <1>2, <1>3

LEMMA SelfStands ==
  ASSUME IInv, NEW p \in Procs, StepOf(p)
  PROVE  Stands(p)'
<1>. TypeOK /\ LockInv /\ ProcInv /\ FileInv /\ HandleStaysValid
  BY DEF IInv
<1>. Stands(p)
  BY DEF ProcInv, Stands
<1>. USE DEF Goto, At, disk, history, UnderLock, Writing, Migrating
<1>1. CASE \E o \in Operations : Invoke(p, o)
  <2>1. PICK o \in Operations : Invoke(p, o)
    BY <1>1
  <2>2. o # Idle /\ op'[p] = o /\ handle' = handle /\ (o.kind = "edit" => Held(handle[p]))
    BY <2>1 DEF Invoke, TypeOK, Operations, Idle
  <2>3. pc'[p] = IF o.kind = "unlock" THEN "lookup" ELSE "lock"
    BY <2>1 DEF Invoke, TypeOK
  <2>. QED
    BY <2>2, <2>3 DEF Stands
<1>2. CASE Lookup(p)
  BY <1>2 DEF Lookup, Return, Stands, TypeOK, Idle
<1>3. CASE Acquire(p)
  BY <1>3 DEF Acquire, Stands, TypeOK
<1>4. CASE Release(p)
  BY <1>4 DEF Release, Return, Stands, TypeOK, Idle
<1>5. CASE ReadForCreate(p)
  <2>1. op' = op /\ handle' = handle /\ file' = file /\ op[p].kind = "create" /\ op[p] # Idle
    BY <1>5 DEF ReadForCreate, Stands
  <2>2. CASE pc'[p] = "unlock"
    BY <2>1, <2>2 DEF Stands
  <2>3. CASE pc'[p] = "write"
    <3>1. file = NoFile /\ next'[p] = V2(op[p].name, fresh, op[p].pw, fresh, EmptyMap)
      BY <1>5, <2>3 DEF ReadForCreate, Stage, End, TypeOK
    <3>2. next'[p] \in V2Files
      BY <2>1, <3>1, V2Type, EmptyMapType, OperationFields DEF TypeOK
    <3>3. next'[p].vid = fresh
      BY <3>1 DEF V2
    <3>4. StagedInv(p)'
      BY <2>1, <3>1, <3>2, <3>3 DEF StagedInv
    <3>. QED
      BY <2>1, <2>3, <3>4 DEF Stands
  <2>. QED
    BY <1>5, <2>2, <2>3 DEF ReadForCreate, Stage, End, TypeOK
<1>6. CASE ReadForEdit(p)
  BY <1>6 DEF ReadForEdit, Stage, End, Stands, TypeOK, StagedInv
<1>6a. ASSUME Migrate(p), UNCHANGED <<file, op, tmp, handle>>, pc[p] = "read",
              op[p].kind \in {"unlock", "passwd"}
       PROVE  Stands(p)'
  <2>1. op' = op /\ handle' = handle /\ file' = file /\ op[p] # Idle
    BY <1>6a DEF Stands
  <2>2. CASE pc'[p] = "unlock"
    BY <1>6a, <2>1, <2>2 DEF Stands
  <2>3. CASE pc'[p] = "backup"
    <3>1. /\ OpensV1(file, op[p].name, op[p].pw)
          /\ next'[p] = V2(op[p].name, fresh, op[p].pw, fresh, file.blob.body)
          /\ built'[p] = Handle(op[p].name, fresh, fresh)
      BY <1>6a, <2>3 DEF Migrate, Stage, End, TypeOK
    <3>2. op[p].name \in Names /\ op[p].pw \in Passwords
      BY <1>6a, OperationFields DEF TypeOK
    <3>3. next'[p] \in V2Files
      BY <3>1, <3>2, V2Type, V1Fields DEF OpensV1, TypeOK
    <3>4. next'[p].vid = fresh
      BY <3>1 DEF V2
    <3>5. MigrationInv(p)'
      BY <1>6a, <2>1, <3>1, <3>3, <3>4 DEF MigrationInv, OpensV1, CanOpen
    <3>. QED
      BY <1>6a, <2>1, <2>3, <3>5 DEF Stands
  <2>. QED
    BY <1>6a, <2>2, <2>3 DEF Migrate, Stage, End, TypeOK
<1>7. CASE ReadForUnlock(p)
  BY <1>6a, <1>7 DEF ReadForUnlock
<1>8. CASE ReadForPasswd(p)
  <2>1. CASE Migrate(p)
    BY <1>6a, <1>8, <2>1 DEF ReadForPasswd
  <2>2. CASE ~Migrate(p)
    <3>1. /\ op' = op /\ handle' = handle /\ file' = file
          /\ op[p] # Idle /\ op[p].kind = "passwd"
      BY <1>8 DEF ReadForPasswd, Stands
    <3>2. \/ pc'[p] = "unlock"
          \/ /\ pc'[p] = "rewrap" /\ OpensV2(file, op[p].name, op[p].pw)
             /\ built'[p] = HandleOf(file)
      BY <1>8, <2>2 DEF ReadForPasswd, End, TypeOK
    <3>. QED
      BY <3>1, <3>2 DEF Stands, RewrapInv, OpensV2, CanOpen, HandleOf
  <2>. QED
    BY <2>1, <2>2
<1>9. CASE Rewrap(p)
  <2>1. RewrapInv(p) /\ file.ver = 2
    BY <1>9 DEF Rewrap, Stands, RewrapInv, OpensV2
  <2>2. op' = op /\ handle' = handle /\ file' = file /\ op[p] # Idle /\ op[p].kind = "passwd"
    BY <1>9, <2>1 DEF Rewrap, Stands, RewrapInv
  <2>3. /\ pc'[p] = "write"
        /\ next'[p] = [file EXCEPT !.kp =
                         Seal(op[p].new, <<file.vid, op[p].name>>, built[p].dek)]
    BY <1>9, <2>1 DEF Rewrap, Stage, TypeOK
  <2>4. built[p].dek = file.kp.body
    BY <2>1 DEF RewrapInv, HandleOf, Handle
  <2>5. StagedInv(p)'
    BY <2>1, <2>2, <2>3, <2>4 DEF StagedInv, RewrapInv, OpensV2, CanOpen
  <2>. QED
    BY <2>2, <2>3, <2>5 DEF Stands
<1>10. CASE Backup(p) \/ BackupWrite(p)
  BY <1>10 DEF Backup, BackupWrite, Stands, TypeOK, MigrationInv
<1>11. CASE WriteTmp(p)
  BY <1>11 DEF WriteTmp, Stands, TypeOK, MigrationInv, StagedInv, Written
<1>12. CASE VerifyTmp(p)
  <2>1. /\ op' = op /\ handle' = handle /\ file' = file /\ next' = next /\ built' = built
        /\ op[p] # Idle /\ MigrationInv(p) /\ tmp[p] \in Written(next[p])
    BY <1>12 DEF VerifyTmp, Stands
  <2>2. CASE pc'[p] = "mpromote"
    <3>1. tmp' = tmp /\ tmp[p].ver = 2
      BY <1>12, <2>2 DEF VerifyTmp, End, Verified, OpensV2, TypeOK
    <3>2. tmp[p] = next[p]
      BY <2>1, <3>1 DEF Written, Unreadable
    <3>3. MigrationInv(p)'
      BY <2>1 DEF MigrationInv, OpensV1, CanOpen
    <3>. QED
      BY <2>1, <2>2, <3>1, <3>2, <3>3 DEF Stands
  <2>3. CASE pc'[p] = "unlock"
    BY <2>1, <2>3 DEF Stands
  <2>. QED
    BY <1>12, <2>2, <2>3 DEF VerifyTmp, End, TypeOK
<1>13. CASE Promote(p)
  BY <1>13 DEF Promote, Rename, End, Stands, TypeOK
<1>14. CASE MigratePromote(p)
  <2>1. /\ op' = op /\ next' = next /\ built' = built /\ op[p] # Idle
        /\ MigrationInv(p) /\ file' = next[p]
    BY <1>14 DEF MigratePromote, Rename, Stands
  <2>2. CASE op[p].kind = "unlock"
    <3>1. pc'[p] = "unlock"
      BY <1>14, <2>2 DEF MigratePromote, End, TypeOK
    <3>. QED
      BY <2>1, <2>2, <3>1 DEF Stands
  <2>3. CASE op[p].kind = "passwd"
    <3>1. pc'[p] = "rewrap" /\ handle' = handle
      BY <1>14, <2>3 DEF MigratePromote, TypeOK
    <3>2. RewrapInv(p)'
      BY <2>1, <2>3 DEF RewrapInv, MigrationInv, V2, Seal, OpensV2, CanOpen, HandleOf, Handle
    <3>. QED
      BY <2>1, <2>3, <3>1, <3>2 DEF Stands
  <2>. QED
    BY <1>14, <2>2, <2>3 DEF MigratePromote
<1>15. CASE Fail(p)
  BY <1>15 DEF Fail, Return, End, Stands, TypeOK, Idle
<1>16. CASE Crash(p)
  BY <1>16 DEF Crash, Return, Stands, TypeOK, Idle
<1>17. CASE Drop(p)
  BY <1>17 DEF Drop, Stands, TypeOK, Idle
<1>. QED
  BY <1>1, <1>2, <1>3, <1>4, <1>5, <1>6, <1>7, <1>8, <1>9, <1>10, <1>11,
     <1>12, <1>13, <1>14, <1>15, <1>16, <1>17 DEF StepOf, Step
-----------------------------------------------------------------------------
(* The inductive invariant, and what follows from it *)

LEMMA InitIInv == Init => IInv
<1>. SUFFICES ASSUME Init PROVE IInv
  OBVIOUS
<1>1. TypeOK
  BY InitType
<1>2. LockInv /\ HandleStaysValid
  BY DEF Init, LockInv, UnderLock, HandleStaysValid, Held, NoHandle
<1>3. FileInv
  BY DEF Init, FileInv, NoFile, V1
<1>4. ProcInv
  BY DEF Init, ProcInv, Stands, Writing, Migrating, Idle
<1>. QED
  BY <1>1, <1>2, <1>3, <1>4 DEF IInv

LEMMA StepIInv == IInv /\ [Next]_vars => IInv'
<1>. SUFFICES ASSUME IInv, [Next]_vars PROVE IInv'
  OBVIOUS
<1>1. ProcInv'
  <2>1. CASE UNCHANGED vars
    BY <2>1 DEF IInv, vars, ProcInv, Stands, StagedInv, MigrationInv, RewrapInv,
       Written, Held, OpensPayload, OpensV1, OpensV2, CanOpen, HandleOf
  <2>2. ASSUME NEW p \in Procs, StepOf(p) PROVE ProcInv'
    BY <2>2, OthersStand, SelfStands DEF ProcInv
  <2>. QED
    BY <2>1, <2>2, StepOfNext
<1>. QED
  BY <1>1, StepType, LockStep, FileStep DEF IInv

LEMMA Inductive == Spec => []IInv
  BY InitIInv, StepIInv, PTL DEF Spec

\* Every variable keeps its type: the vault file is never a half-written one
\* unless the disk itself loses what was written (all of vault/mod.rs).
THEOREM TypeCorrect == Spec => []TypeOK
<1>1. IInv => TypeOK
  BY DEF IInv
<1>. QED
  BY <1>1, Inductive, PTL

\* For any number of threads: an UnlockedVault keeps opening the file whatever
\* the others create, migrate, edit or rewrap (unlock, UnlockedVault::read_v2).
THEOREM HandlesStayValid == Spec => []HandleStaysValid
<1>1. IInv => HandleStaysValid
  BY DEF IInv
<1>. QED
  BY <1>1, Inductive, PTL

\* The password that opens the file always leads to the key of its payload
\* (encrypt_and_write, rewrap_dek_v2, build_new_v2).
THEOREM PasswordsOpenPayload == Spec => []PasswordOpensPayload
<1>1. IInv => PasswordOpensPayload
  BY DEF IInv, FileInv, Sealed, PasswordOpensPayload, OpensV2, OpensPayload,
     CanOpen, HandleOf, Handle
<1>. QED
  BY <1>1, Inductive, PTL
-----------------------------------------------------------------------------
(* The lock *)

Inside == UnderLock \cup {"unlock"}

HeldInv == \A p \in Procs : lock = p => pc[p] \in Inside

\* Whoever takes the lock goes inside, and whoever leaves gives it back.
LEMMA LockGoesWithIt ==
  ASSUME IInv, HeldInv, NEW p \in Procs, StepOf(p)
  PROVE  lock' \in {lock, p, NoProc} /\ (lock' = p => pc'[p] \in Inside)
<1>. USE DEF IInv, HeldInv, TypeOK, Goto, At, disk, history, UnderLock, Inside
<1>1. CASE \E o \in Operations : Invoke(p, o)
  BY <1>1 DEF Invoke
<1>2. CASE Lookup(p)
  BY <1>2 DEF Lookup, Return
<1>3. CASE Acquire(p)
  BY <1>3 DEF Acquire
<1>4. CASE Release(p)
  BY <1>4, StoreAssumption DEF Release, Return
<1>5. CASE ReadForCreate(p)
  BY <1>5 DEF ReadForCreate, Stage, End
<1>6. CASE ReadForEdit(p)
  BY <1>6 DEF ReadForEdit, Stage, End
<1>7. CASE ReadForUnlock(p)
  BY <1>7 DEF ReadForUnlock, Migrate, Stage, End
<1>8. CASE ReadForPasswd(p)
  BY <1>8 DEF ReadForPasswd, Migrate, Stage, End
<1>9. CASE Rewrap(p)
  BY <1>9 DEF Rewrap, Stage, End
<1>10. CASE Backup(p) \/ BackupWrite(p)
  BY <1>10 DEF Backup, BackupWrite
<1>11. CASE WriteTmp(p) \/ VerifyTmp(p)
  BY <1>11 DEF WriteTmp, VerifyTmp, End
<1>12. CASE Promote(p) \/ MigratePromote(p)
  BY <1>12 DEF Promote, MigratePromote, Rename, End
<1>13. CASE Fail(p)
  BY <1>13 DEF Fail, Return, End
<1>14. CASE Crash(p)
  BY <1>14, StoreAssumption DEF Crash, Return
<1>15. CASE Drop(p)
  BY <1>15 DEF Drop
<1>. QED
  BY <1>1, <1>2, <1>3, <1>4, <1>5, <1>6, <1>7, <1>8, <1>9, <1>10, <1>11, <1>12, <1>13, <1>14,
     <1>15 DEF StepOf, Step

LEMMA HeldStep == IInv /\ HeldInv /\ [Next]_vars => HeldInv'
<1>. SUFFICES ASSUME IInv, HeldInv, [Next]_vars PROVE HeldInv'
  OBVIOUS
<1>1. CASE UNCHANGED vars
  BY <1>1 DEF vars, HeldInv
<1>2. ASSUME NEW p \in Procs, StepOf(p), NEW q \in Procs, lock' = q PROVE pc'[q] \in Inside
  <2>1. lock' \in {lock, p, NoProc}
    BY <1>2, LockGoesWithIt
  <2>2. CASE q # p
    BY <1>2, <2>1, <2>2, Frame, StoreAssumption DEF HeldInv, IInv, Inside
  <2>3. CASE q = p
    BY <1>2, <2>3, LockGoesWithIt
  <2>. QED BY <2>2, <2>3
<1>. QED BY <1>1, <1>2, StepOfNext DEF HeldInv

\* For any number of threads, crashes and failures, the lock is with the one thread that
\* is under it (with_vault_lock, with_lock).
THEOREM LockIsUsed == Spec => []LockIsWithItsUser
<1>1. Init => HeldInv
  BY StoreAssumption DEF Init, HeldInv
<1>2. IInv /\ HeldInv /\ [Next]_vars => HeldInv'
  BY HeldStep
<1>3. IInv /\ HeldInv => LockIsWithItsUser
  BY DEF IInv, HeldInv, LockInv, Inside, LockIsWithItsUser
<1>. QED BY <1>1, <1>2, <1>3, Inductive, PTL DEF Spec
-----------------------------------------------------------------------------
(* What a migration leaves *)

\* The file that a step puts in the place of a v1 file is the one its migration
\* has verified, made from that very v1 file.
LEMMA StepMigrates ==
  ASSUME IInv, NEW p \in Procs, StepOf(p), file.ver = 1, file' # file
  PROVE  /\ OpensV2(file', file.name, file.blob.key)
         /\ OpensPayload(HandleOf(file'), file')
         /\ file'.payload.body = file.blob.body
<1>. TypeOK /\ LockInv /\ ProcInv
  BY DEF IInv
<1>1. pc[p] \in {"promote", "mpromote"} /\ file' = tmp[p]
  BY Frame
<1>2. pc[p] # "promote"
  <2>1. ASSUME pc[p] = "promote" PROVE FALSE
    <3>1. StagedInv(p) /\ op[p] # Idle
      BY <2>1 DEF ProcInv, Stands, Writing
    <3>. QED
      BY <3>1, OperationFields DEF StagedInv, NoFile, OpensPayload, OpensV2, TypeOK
  <2>. QED
    BY <2>1
<1>3. MigrationInv(p) /\ tmp[p] = next[p]
  BY <1>1, <1>2 DEF ProcInv, Stands, Migrating
<1>4. file' = V2(file.name, file'.vid, file.blob.key, file'.vid, file.blob.body)
  BY <1>1, <1>3 DEF MigrationInv, OpensV1, CanOpen
<1>. QED
  BY <1>4 DEF V2, Seal, OpensV2, OpensPayload, CanOpen, HandleOf, Handle

\* Whatever the disk makes of a write: a v1 file is replaced by a file that opens
\* with its name and password and holds its secrets (migrate_v1_to_v2, its
\* verification closure).
THEOREM MigrationKeeps == Spec => MigrationKeepsSecrets
<1>1. IInv /\ [Next]_vars =>
        [file.ver = 1 /\ file' # file =>
           /\ OpensV2(file', file.name, file.blob.key)
           /\ OpensPayload(HandleOf(file'), file')
           /\ file'.payload.body = file.blob.body]_vars
  BY StepMigrates, StepOfNext
<1>. QED
  BY <1>1, Inductive, PTL DEF Spec, MigrationKeepsSecrets
-----------------------------------------------------------------------------
(* The backup of the v1 file, on a disk that keeps what it was given *)

BackupInv ==
  /\ file.ver = 1 => file = orig
  /\ \A p \in Procs : pc[p] \in BackedUp => file \in {bak} \cup extraBaks
  /\ V1NeverLost

LEMMA InitBackupInv == Init => BackupInv
  BY DEF Init, BackupInv, V1NeverLost, BackedUp

LEMMA StepBackupInv ==
  ASSUME ~CorruptWrites
  PROVE  IInv /\ BackupInv /\ [Next]_vars => BackupInv'
<1>. SUFFICES ASSUME IInv, BackupInv, [Next]_vars PROVE BackupInv'
  OBVIOUS
<1>. TypeOK /\ LockInv /\ ProcInv
  BY DEF IInv
<1>1. CASE UNCHANGED vars
  BY <1>1 DEF vars, BackupInv, V1NeverLost
<1>2. ASSUME NEW p \in Procs, StepOf(p) PROVE BackupInv'
  <2>1. orig' = orig
    BY <1>2 DEF StepOf, Step, Invoke, Lookup, Acquire, Release, ReadForCreate,
       ReadForEdit, ReadForUnlock, ReadForPasswd, Rewrap, Backup, BackupWrite, WriteTmp,
       VerifyTmp, Promote, MigratePromote, Fail, Crash, Drop, history
  <2>2. CASE Backup(p) \/ BackupWrite(p)
    <3>1. file' = file /\ file.ver = 1 /\ file = orig
      BY <2>2 DEF Backup, BackupWrite, At, ProcInv, Stands, Migrating, MigrationInv,
         OpensV1, BackupInv
    <3>2. pc'[p] \in BackedUp => file \in {bak'} \cup extraBaks'
      BY <2>2 DEF Backup, BackupWrite, Goto, Written, BackedUp, TypeOK
    <3>3. \A q \in Procs \ {p} : pc'[q] \notin BackedUp
      BY <1>2, <2>2, Frame DEF Backup, BackupWrite, At, LockInv, UnderLock, BackedUp
    <3>. QED
      BY <2>1, <3>1, <3>2, <3>3 DEF BackupInv, V1NeverLost
  <2>3. CASE ~(Backup(p) \/ BackupWrite(p))
    <3>1. bak' = bak /\ extraBaks' = extraBaks
      BY <1>2, <2>3 DEF StepOf, Step, Invoke, Lookup, Acquire, Release, ReadForCreate,
         ReadForEdit, ReadForUnlock, ReadForPasswd, Rewrap, WriteTmp,
         VerifyTmp, Promote, MigratePromote, Fail, Crash, Drop, disk
    <3>2. pc'[p] \in BackedUp => pc[p] \in BackedUp
      BY <1>2, <2>3 DEF StepOf, Step, Invoke, Lookup, Acquire, Release, ReadForCreate,
         ReadForEdit, ReadForUnlock, ReadForPasswd, Migrate, Rewrap, WriteTmp,
         VerifyTmp, Promote, MigratePromote, Fail, Crash, Drop, Stage, End, Return, Goto,
         At, BackedUp, TypeOK
    <3>3. CASE file' = file
      BY <1>2, <2>1, <3>1, <3>2, <3>3, Frame DEF BackupInv, V1NeverLost
    <3>4. CASE file' # file
      <4>1. pc[p] \in {"promote", "mpromote"} /\ file' = tmp[p] /\ tmp[p] # Unreadable
        BY <1>2, <3>4, Frame, StagedV2
           DEF ProcInv, Stands, Written, Writing, Migrating, V2Files, Unreadable
      <4>2. file'.ver = 2
        BY <4>1, StagedSealed
      <4>3. file.ver = 1 => orig \in {bak} \cup extraBaks
        <5>1. pc[p] = "promote" => file.ver # 1
          <6>1. SUFFICES ASSUME pc[p] = "promote" PROVE file.ver # 1
            OBVIOUS
          <6>2. StagedInv(p) /\ op[p] # Idle
            BY <6>1 DEF ProcInv, Stands, Writing
          <6>3. op[p].kind \in {"create", "edit", "passwd"}
            BY <6>2, OperationFields DEF StagedInv, TypeOK
          <6>. QED
            BY <6>2, <6>3 DEF StagedInv, OpensPayload, OpensV2, NoFile
        <5>. QED
          BY <4>1, <5>1 DEF BackupInv, BackedUp
      <4>4. \A q \in Procs : pc'[q] \notin BackedUp
        <5>1. \A q \in Procs \ {p} : pc[q] \notin UnderLock
          BY <4>1 DEF LockInv, UnderLock
        <5>2. Promote(p) \/ MigratePromote(p)
          BY <1>2, <3>4 DEF StepOf, Step, Invoke, Lookup, Acquire, Release, ReadForCreate,
             ReadForEdit, ReadForUnlock, ReadForPasswd, Rewrap, Backup, BackupWrite, WriteTmp,
             VerifyTmp, Fail, Crash, Drop, disk
        <5>3. pc'[p] \notin BackedUp
          BY <5>2 DEF Promote, MigratePromote, End, Goto, BackedUp, TypeOK
        <5>. QED
          BY <1>2, <5>1, <5>3, Frame DEF BackedUp, UnderLock
      <4>. QED
        BY <2>1, <3>1, <4>2, <4>3, <4>4 DEF BackupInv, V1NeverLost
    <3>. QED
      BY <3>3, <3>4
  <2>. QED
    BY <2>2, <2>3
<1>. QED
  BY <1>1, <1>2, StepOfNext

\* Once a v1 file has been replaced, its bytes are in a backup, whatever failed
\* or died on the way (migrate_v1_to_v2), on a disk that keeps what it is given.
THEOREM V1IsKept == ASSUME ~CorruptWrites PROVE Spec => []V1NeverLost
<1>1. BackupInv => V1NeverLost
  BY DEF BackupInv
<1>. QED
  BY <1>1, Inductive, InitBackupInv, StepBackupInv, PTL DEF Spec
-----------------------------------------------------------------------------
(* VaultStore implements VaultSpec, on a disk that keeps what it was given *)

AccessSet == {p \in Procs : Held(handle[p])}

LEMMA AbstractOf ==
  ASSUME file \in Files
  PROVE  /\ file.ver \in {0, 3} => AbstractVault = [kind |-> "none"]
         /\ file.ver = 1 => AbstractVault = Abstract!Vault(file.name, file.blob.key, file.blob.body)
         /\ file.ver = 2 => AbstractVault = Abstract!Vault(file.name, file.kp.key, file.payload.body)
  BY Versions DEF AbstractVault, Abstract!Vault

\* The password and the name that open the file are the abstract vault's.
LEMMA OpensIsKnows ==
  ASSUME IInv, NEW p \in Procs, pc[p] \notin {"idle", "unlock"},
         \/ OpensV1(file, op[p].name, op[p].pw)
         \/ OpensV2(file, op[p].name, op[p].pw)
  PROVE  Abstract!Knows(p)
<1>1. AbstractRequest[p] = op[p]
  BY DEF AbstractRequest
<1>. QED
  BY <1>1, AbstractOf DEF Abstract!Knows, Abstract!Vault, OpensV1, OpensV2, CanOpen, IInv, TypeOK

LEMMA InitAbstract == Init => Abstract!Init
<1>. SUFFICES ASSUME Init PROVE Abstract!Init
  OBVIOUS
<1>1. \A p \in Procs : ~Held(handle[p]) /\ AbstractRequest[p] = Idle
  BY DEF Init, AbstractRequest, Held, NoHandle
<1>2. AbstractRequest = [p \in Procs |-> Idle]
  BY <1>1 DEF AbstractRequest
<1>3. file = NoFile => AbstractVault = Abstract!NoVault
  BY AbstractOf DEF Files, NoFile, Abstract!NoVault
<1>4. ASSUME NEW n \in Names, NEW pw \in Passwords, NEW m \in SecretMaps, file = V1(n, pw, m)
      PROVE  AbstractVault = Abstract!Vault(n, pw, m)
  BY <1>4 DEF AbstractVault, V1, Seal, Abstract!Vault
<1>5. \/ AbstractVault = Abstract!NoVault
      \/ \E n \in Names, pw \in Passwords, m \in SecretMaps :
           AbstractVault = Abstract!Vault(n, pw, m)
  BY <1>3, <1>4, AbstractOf DEF Init, AbstractVault, Abstract!NoVault, NoFile
<1>. QED
  BY <1>1, <1>2, <1>5 DEF Abstract!Init, Abstract!SecretMaps, SecretMaps, Abstract!Idle, Idle

\* The request and the access of everyone but p are left alone.
LEMMA AbstractFrame ==
  ASSUME TypeOK, LockInv, NEW p \in Procs, StepOf(p)
  PROVE  /\ AbstractRequest' = [AbstractRequest EXCEPT ![p] = AbstractRequest'[p]]
         /\ Held(handle'[p]) => AccessSet' = AccessSet \cup {p}
         /\ ~Held(handle'[p]) => AccessSet' = AccessSet \ {p}
         /\ handle'[p] = handle[p] => AccessSet' = AccessSet
<1>1. \A q \in Procs \ {p} : pc'[q] = pc[q] /\ op'[q] = op[q] /\ handle'[q] = handle[q]
  BY Frame
<1>2. AbstractRequest' = [AbstractRequest EXCEPT ![p] = AbstractRequest'[p]]
  BY <1>1 DEF AbstractRequest
<1>3. \A q \in Procs \ {p} : q \in AccessSet' <=> q \in AccessSet
  BY <1>1 DEF AccessSet, Held
<1>. QED
  BY <1>2, <1>3 DEF AccessSet, Held

\* A step that leaves the file, the UnlockedVault and the request of p alone
\* is no step of the abstract vault.
LEMMA Stutters ==
  ASSUME TypeOK, LockInv, NEW p \in Procs, StepOf(p),
         file' = file, handle'[p] = handle[p],
         AbstractRequest'[p] = AbstractRequest[p]
  PROVE  UNCHANGED Abstract!vars
<1>1. AbstractVault' = AbstractVault
  BY DEF AbstractVault
<1>2. AbstractRequest' = AbstractRequest
  BY AbstractFrame DEF AbstractRequest
<1>3. AccessSet' = AccessSet
  BY AbstractFrame
<1>. QED
  BY <1>1, <1>2, <1>3 DEF Abstract!vars, AccessSet

\* A step that ends p's operation without touching the file is a failure.
LEMMA Rejects ==
  ASSUME TypeOK, LockInv, NEW p \in Procs, StepOf(p),
         file' = file, handle'[p] = handle[p],
         pc[p] \notin {"idle", "unlock"}, op[p] # Idle, pc'[p] \in {"idle", "unlock"}
  PROVE  Abstract!Reject(p)
<1>1. AbstractVault' = AbstractVault
  BY DEF AbstractVault
<1>2. AbstractRequest[p] = op[p] /\ AbstractRequest'[p] = Idle
  BY DEF AbstractRequest
<1>3. AccessSet' = AccessSet
  BY AbstractFrame
<1>4. AbstractRequest' = [AbstractRequest EXCEPT ![p] = Idle]
  BY <1>2, AbstractFrame
<1>. QED
  BY <1>1, <1>2, <1>3, <1>4
     DEF Abstract!Reject, Abstract!Done, AccessSet, Abstract!Idle, Idle

\* What a rename makes of the abstract vault.
LEMMA PromotesAbstract ==
  ASSUME ~CorruptWrites, IInv, NEW p \in Procs,
         pc[p] \in {"promote", "mpromote"}, file' = tmp[p]
  PROVE  /\ op[p].kind = "create" =>
              /\ AbstractVault = Abstract!NoVault
              /\ AbstractVault' = Abstract!Vault(op[p].name, op[p].pw, EmptyMap)
         /\ op[p].kind = "edit" =>
              AbstractVault' = Abstract!Vault(AbstractVault.name, AbstractVault.pw,
                                              Edited(AbstractVault.secrets, op[p].edit))
         /\ op[p].kind = "passwd" /\ pc[p] = "promote" =>
              /\ Abstract!Knows(p)
              /\ AbstractVault' = Abstract!Vault(AbstractVault.name, op[p].new,
                                                 AbstractVault.secrets)
         /\ pc[p] = "mpromote" => Abstract!Knows(p) /\ AbstractVault' = AbstractVault
<1>. TypeOK /\ ProcInv
  BY DEF IInv
<1>0. tmp[p] = next[p] /\ next[p] \in V2Files
  BY StagedV2 DEF ProcInv, Stands, Written, Writing, Migrating
<1>1. file' = next[p] /\ next[p].ver = 2
  BY <1>0 DEF V2Files
<1>2. AbstractVault' = Abstract!Vault(next[p].name, next[p].kp.key, next[p].payload.body)
  BY <1>1 DEF AbstractVault, Abstract!Vault
<1>3. CASE pc[p] = "mpromote"
  <2>1. MigrationInv(p)
    BY <1>3 DEF ProcInv, Stands, Migrating
  <2>2. Abstract!Knows(p)
    BY <1>3, <2>1, OpensIsKnows DEF MigrationInv
  <2>3. AbstractVault = Abstract!Vault(file.name, file.blob.key, file.blob.body)
    BY <2>1, AbstractOf DEF MigrationInv, OpensV1, TypeOK
  <2>4. AbstractVault' = AbstractVault
    BY <1>2, <2>1, <2>3 DEF MigrationInv, OpensV1, CanOpen, V2, Seal
  <2>5. op[p].kind \notin {"create", "edit"}
    BY <2>1 DEF MigrationInv
  <2>. QED
    BY <1>3, <2>2, <2>4, <2>5
<1>4. CASE pc[p] = "promote"
  <2>1. StagedInv(p)
    BY <1>4 DEF ProcInv, Stands, Writing
  <2>2. CASE op[p].kind = "create"
    <3>1. AbstractVault = Abstract!NoVault
      BY <2>1, <2>2 DEF StagedInv, AbstractVault, NoFile, Abstract!NoVault
    <3>2. AbstractVault' = Abstract!Vault(op[p].name, op[p].pw, EmptyMap)
      BY <1>2, <2>1, <2>2 DEF StagedInv, V2, Seal
    <3>. QED
      BY <1>4, <2>2, <3>1, <3>2
  <2>3. CASE op[p].kind = "edit"
    <3>1. file \in V2Files /\ file.ver = 2
      BY <2>1, <2>3, V2Fields DEF StagedInv, OpensPayload, TypeOK
    <3>2. AbstractVault = Abstract!Vault(file.name, file.kp.key, file.payload.body)
      BY <3>1, AbstractOf DEF TypeOK
    <3>3. /\ next[p].name = file.name /\ next[p].kp = file.kp
          /\ next[p].payload.body = Edited(file.payload.body, op[p].edit)
      BY <2>1, <2>3, <3>1 DEF StagedInv, V2Files, Seal
    <3>4. AbstractVault' = Abstract!Vault(AbstractVault.name, AbstractVault.pw,
                                          Edited(AbstractVault.secrets, op[p].edit))
      BY <1>2, <3>2, <3>3 DEF Abstract!Vault
    <3>. QED
      BY <1>4, <2>3, <3>4
  <2>4. CASE op[p].kind = "passwd"
    <3>1. OpensV2(file, op[p].name, op[p].pw) /\ file \in V2Files
      BY <2>1, <2>4, V2Fields DEF StagedInv, OpensV2, TypeOK
    <3>2. AbstractVault = Abstract!Vault(file.name, file.kp.key, file.payload.body)
      BY <3>1, AbstractOf DEF TypeOK, OpensV2
    <3>3. /\ next[p].name = file.name /\ next[p].kp.key = op[p].new
          /\ next[p].payload = file.payload
      BY <2>1, <2>4, <3>1 DEF StagedInv, V2Files, Seal
    <3>4. AbstractVault' = Abstract!Vault(AbstractVault.name, op[p].new, AbstractVault.secrets)
      BY <1>2, <3>2, <3>3 DEF Abstract!Vault
    <3>5. Abstract!Knows(p)
      BY <1>4, <3>1, OpensIsKnows
    <3>. QED
      BY <1>4, <2>4, <3>4, <3>5
  <2>. QED
    BY <1>4, <2>2, <2>3, <2>4
<1>. QED
  BY <1>3, <1>4

\* Every step of the store is a step of the abstract vault, or none.
LEMMA StepAbstract ==
  ASSUME ~CorruptWrites
  PROVE  IInv /\ [Next]_vars => [Abstract!Next]_(Abstract!vars)
<1>. SUFFICES ASSUME IInv, [Next]_vars
              PROVE  Abstract!Next \/ UNCHANGED Abstract!vars
  OBVIOUS
<1>1. CASE UNCHANGED vars
  <2>1. AbstractVault' = AbstractVault
    BY <1>1 DEF vars, disk, AbstractVault
  <2>2. AbstractRequest' = AbstractRequest /\ AccessSet' = AccessSet
    BY <1>1 DEF vars, AbstractRequest, AccessSet, Held
  <2>. QED
    BY <2>1, <2>2 DEF Abstract!vars, AccessSet
<1>. SUFFICES ASSUME NEW p \in Procs, StepOf(p)
              PROVE  Abstract!Next \/ UNCHANGED Abstract!vars
  BY <1>1, StepOfNext
<1>. TypeOK /\ LockInv /\ ProcInv
  BY DEF IInv
<1>. Stands(p)
  BY DEF ProcInv
<1>2. /\ AbstractRequest[p] = IF pc[p] \in {"idle", "unlock"} THEN Idle ELSE op[p]
      /\ AbstractRequest'[p] = IF pc'[p] \in {"idle", "unlock"} THEN Idle ELSE op'[p]
  BY DEF AbstractRequest
\* Steps that are invisible, or end the operation without an effect.
<1>3. ASSUME file' = file, handle'[p] = handle[p], op'[p] = op[p],
             pc[p] \notin {"idle", "unlock"}, pc'[p] \notin {"idle", "unlock"}
      PROVE  UNCHANGED Abstract!vars
  BY <1>2, <1>3, Stutters
<1>4. ASSUME file' = file, handle'[p] = handle[p],
             pc[p] \notin {"idle", "unlock"}, pc'[p] \in {"idle", "unlock"}
      PROVE  Abstract!Next
  BY <1>4, Rejects, Zenon DEF Stands, Abstract!Next
<1>5. file' = file => AbstractVault' = AbstractVault
  BY DEF AbstractVault
<1>. USE DEF Goto, At, disk
<1>6. CASE \E o \in Operations : Invoke(p, o)
  <2>1. PICK o \in Operations : Invoke(p, o)
    BY <1>6
  <2>2. /\ AbstractRequest[p] = Idle /\ AbstractRequest'[p] = o
        /\ handle' = handle /\ file' = file
        /\ o.kind = "edit" => p \in AccessSet
    BY <1>2, <2>1 DEF Invoke, TypeOK, AccessSet
  <2>3. AbstractRequest' = [AbstractRequest EXCEPT ![p] = o] /\ AccessSet' = AccessSet
    BY <2>2, AbstractFrame
  <2>4. Abstract!Invoke(p, o)
    BY <1>5, <2>2, <2>3 DEF Abstract!Invoke, AccessSet, Abstract!Idle, Idle
  <2>. QED
    BY <2>4, Zenon DEF Abstract!Next, Abstract!Operations, Operations, Abstract!Edits, Edits,
       Abstract!Settings, Settings, Abstract!Removals, Removals
<1>7. CASE Lookup(p)
  <2>1. CASE file.ver = 1
    BY <1>3, <1>7, <2>1 DEF Lookup, OpensV2, TypeOK
  <2>2. CASE OpensV2(file, op[p].name, op[p].pw)
    <3>1. Abstract!Knows(p)
      BY <1>7, <2>2, OpensIsKnows DEF Lookup
    <3>2. /\ file' = file /\ pc[p] = "lookup" /\ pc'[p] = "idle"
          /\ handle'[p] = HandleOf(file)
      BY <1>7, <2>2 DEF Lookup, OpensV2, Return, TypeOK
    <3>3. AbstractRequest' = [AbstractRequest EXCEPT ![p] = Idle]
          /\ AccessSet' = AccessSet \cup {p}
      BY <1>2, <3>2, AbstractFrame DEF Held, HandleOf, Handle
    <3>4. AbstractRequest[p].kind = "unlock"
      BY <1>2, <3>2 DEF Stands
    <3>5. Abstract!CommitUnlock(p)
      BY <1>5, <3>1, <3>2, <3>3, <3>4
         DEF Abstract!CommitUnlock, Abstract!Done, AccessSet, Abstract!Idle, Idle
    <3>. QED
      BY <3>5, Zenon DEF Abstract!Next
  <2>3. CASE file.ver # 1 /\ ~OpensV2(file, op[p].name, op[p].pw)
    BY <1>4, <1>7, <2>3 DEF Lookup, Return, TypeOK
  <2>. QED
    BY <2>1, <2>2, <2>3
<1>8. CASE Acquire(p)
  BY <1>3, <1>8 DEF Acquire, TypeOK
<1>9. CASE Release(p)
  BY <1>2, <1>9, Stutters DEF Release, Return, TypeOK
<1>10. CASE ReadForCreate(p)
  <2>1. file' = file /\ handle' = handle /\ op' = op /\ pc[p] = "read" /\ op[p].kind = "create"
    BY <1>10 DEF ReadForCreate
  <2>2. CASE pc'[p] = "write"
    BY <1>3, <2>1, <2>2
  <2>3. CASE pc'[p] = "unlock"
    BY <1>4, <2>1, <2>3
  <2>. QED
    BY <1>10, <2>2, <2>3 DEF ReadForCreate, Stage, End, TypeOK
<1>11. CASE ReadForEdit(p) \/ Rewrap(p)
  <2>1. file' = file /\ handle' = handle /\ op' = op /\ pc[p] \in {"read", "rewrap"}
    BY <1>11 DEF ReadForEdit, Rewrap
  <2>2. pc'[p] \in {"write", "unlock"}
    BY <1>11 DEF ReadForEdit, Rewrap, Stage, End, TypeOK
  <2>. QED
    BY <1>3, <1>4, <2>1, <2>2
<1>12. CASE ReadForUnlock(p) \/ ReadForPasswd(p)
  <2>1. file' = file /\ handle' = handle /\ op' = op /\ pc[p] = "read"
    BY <1>12 DEF ReadForUnlock, ReadForPasswd
  <2>2. pc'[p] \in {"backup", "rewrap", "unlock"}
    BY <1>12 DEF ReadForUnlock, ReadForPasswd, Migrate, Stage, End, TypeOK
  <2>. QED
    BY <1>3, <1>4, <2>1, <2>2
<1>13. CASE Backup(p) \/ BackupWrite(p) \/ WriteTmp(p)
  <2>1. /\ file' = file /\ handle' = handle /\ op' = op
        /\ pc[p] \in {"backup", "bakwrite", "uniqwrite", "write", "mwrite"}
    BY <1>13 DEF Backup, BackupWrite, WriteTmp
  <2>2. pc'[p] \in {"bakwrite", "uniqwrite", "mwrite", "promote", "verify"}
    BY <1>13 DEF Backup, BackupWrite, WriteTmp, TypeOK
  <2>. QED
    BY <1>3, <2>1, <2>2
<1>14. CASE VerifyTmp(p)
  <2>1. file' = file /\ handle' = handle /\ op' = op /\ pc[p] = "verify"
    BY <1>14 DEF VerifyTmp
  <2>2. pc'[p] \in {"mpromote", "unlock"}
    BY <1>14 DEF VerifyTmp, End, TypeOK
  <2>. QED
    BY <1>3, <1>4, <2>1, <2>2
<1>15. CASE Promote(p)
  <2>1. /\ pc[p] = "promote" /\ pc'[p] = "unlock" /\ file' = tmp[p] /\ handle' = handle
        /\ op[p] # Idle
    BY <1>15 DEF Promote, Rename, End, TypeOK, Stands
  <2>2. AbstractRequest[p] = op[p] /\ AbstractRequest'[p] = Idle
    BY <1>2, <2>1
  <2>3. AbstractRequest' = [AbstractRequest EXCEPT ![p] = Idle] /\ AccessSet' = AccessSet
    BY <2>1, <2>2, AbstractFrame
  <2>. USE DEF Abstract!Done, Abstract!Idle, Idle
  <2>4. CASE op[p].kind = "create"
    <3>1. Abstract!CommitCreate(p)
      BY <2>1, <2>2, <2>3, <2>4, PromotesAbstract
         DEF Abstract!CommitCreate, AccessSet, Abstract!EmptyMap, EmptyMap
    <3>. QED
      BY <3>1, Zenon DEF Abstract!Next
  <2>5. CASE op[p].kind = "edit"
    <3>1. p \in AccessSet
      BY <2>5 DEF Stands, AccessSet
    <3>2. Abstract!CommitEdit(p)
      BY <2>1, <2>2, <2>3, <2>5, <3>1, PromotesAbstract
         DEF Abstract!CommitEdit, AccessSet, Abstract!Edited, Edited
    <3>. QED
      BY <3>2, Zenon DEF Abstract!Next
  <2>6. CASE op[p].kind = "passwd"
    <3>1. Abstract!CommitPasswd(p)
      BY <2>1, <2>2, <2>3, <2>6, PromotesAbstract
         DEF Abstract!CommitPasswd, AccessSet
    <3>. QED
      BY <3>1, Zenon DEF Abstract!Next
  <2>7. op[p].kind \in {"create", "edit", "passwd"}
    BY <2>1, OperationFields DEF Stands, Writing, StagedInv, TypeOK
  <2>. QED
    BY <2>4, <2>5, <2>6, <2>7
<1>16. CASE MigratePromote(p)
  <2>1. pc[p] = "mpromote" /\ file' = tmp[p]
    BY <1>16 DEF MigratePromote, Rename
  <2>2. Abstract!Knows(p) /\ AbstractVault' = AbstractVault
    BY <2>1, PromotesAbstract
  <2>3. CASE op[p].kind = "unlock"
    <3>1. /\ pc'[p] = "unlock" /\ Held(handle'[p])
      BY <1>16, <2>1, <2>3 DEF MigratePromote, End, TypeOK, Stands, Migrating,
         MigrationInv, Handle, Held
    <3>2. AbstractRequest' = [AbstractRequest EXCEPT ![p] = Idle]
          /\ AccessSet' = AccessSet \cup {p} /\ AbstractRequest[p] = op[p]
      BY <1>2, <2>1, <3>1, AbstractFrame
    <3>3. Abstract!CommitUnlock(p)
      BY <2>2, <2>3, <3>2
         DEF Abstract!CommitUnlock, Abstract!Done, AccessSet, Abstract!Idle, Idle
    <3>. QED
      BY <3>3, Zenon DEF Abstract!Next
  <2>4. CASE op[p].kind = "passwd"
    <3>1. pc'[p] = "rewrap" /\ handle' = handle /\ op' = op
      BY <1>16, <2>4 DEF MigratePromote, TypeOK
    <3>2. AbstractRequest' = AbstractRequest
      BY <1>2, <2>1, <3>1, AbstractFrame DEF AbstractRequest
    <3>. QED
      BY <2>2, <3>1, <3>2 DEF Abstract!vars
  <2>. QED
    BY <1>16, <2>3, <2>4 DEF MigratePromote
<1>17. CASE Fail(p)
  <2>1. /\ file' = file /\ handle' = handle
        /\ pc[p] \in UnderLock \cup {"lookup", "lock"} /\ pc'[p] \in {"idle", "unlock"}
    BY <1>17 DEF Fail, Return, End, TypeOK
  <2>. QED
    BY <1>4, <2>1 DEF UnderLock
<1>18. CASE Crash(p) \/ Drop(p)
  <2>1. file' = file /\ ~Held(handle'[p]) /\ pc'[p] = "idle"
    BY <1>18 DEF Crash, Drop, Return, TypeOK, Held, NoHandle
  <2>2. AbstractRequest' = [AbstractRequest EXCEPT ![p] = Idle] /\ AccessSet' = AccessSet \ {p}
    BY <1>2, <2>1, AbstractFrame
  <2>3. Abstract!Leave(p)
    BY <1>5, <2>1, <2>2 DEF Abstract!Leave, Abstract!Done, AccessSet, Abstract!Idle, Idle
  <2>. QED
    BY <2>3, Zenon DEF Abstract!Next
<1>. QED
  BY <1>6, <1>7, <1>8, <1>9, <1>10, <1>11, <1>12, <1>13, <1>14, <1>15, <1>16, <1>17, <1>18
     DEF StepOf, Step

\* For any number of threads and any data: every operation of the vault store
\* takes effect in one step between its call and its return, or not at all
\* (create_vault, unlock, change_password, the edits of UnlockedVault), on a
\* disk that keeps what it was given.
THEOREM StoreImplementsVault == ASSUME ~CorruptWrites PROVE Spec => ImplementsVaultSpec
<1>1. Spec => Abstract!Init /\ [][Abstract!Next]_(Abstract!vars)
  BY Inductive, InitAbstract, StepAbstract, PTL DEF Spec
<1>. QED
  BY <1>1 DEF ImplementsVaultSpec, Abstract!Spec
=============================================================================
