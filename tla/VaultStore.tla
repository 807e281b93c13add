----------------------------- MODULE VaultStore -----------------------------
(***************************************************************************)
(* The vault file of mevault-core/src/vault/mod.rs and the threads and     *)
(* processes that work on it: create_vault, unlock (with the migration of  *)
(* a version-1 file), change_password and the edits through an             *)
(* UnlockedVault.  A step is one access to the file system, or the         *)
(* computation that follows a read.  Between any two steps another thread  *)
(* may run, an I/O error may end the operation, or the process may die.    *)
(*                                                                         *)
(* One file is modelled.  Names holds the vault names that share it,       *)
(* sanitize_vault_name not being injective.  Encryption is modelled by     *)
(* what it promises: a box opens with the key and the associated data it   *)
(* was sealed with, and with no other.                                     *)
(***************************************************************************)
EXTENDS VaultData, Naturals

CONSTANTS
  NoProc,        \* nobody holds the lock
  MaxOps,        \* bound: operations called in a behaviour
  MaxCrashes,    \* bound: processes that die in a behaviour
  CorruptWrites  \* whether a write reported as done may leave unreadable bytes

ASSUME StoreAssumption == /\ NoProc \notin Procs
                          /\ MaxOps \in Nat
                          /\ MaxCrashes \in Nat
                          /\ CorruptWrites \in BOOLEAN

VARIABLES
  file,       \* <name>.mvault
  bak,        \* <name>.v1.bak
  extraBaks,  \* the complete <name>.v1.bak.<uuid> files
  lock,       \* who holds <name>.lock
  pc,         \* pc[p]     : the step p is about to take
  op,         \* op[p]     : the operation p is carrying out
  next,       \* next[p]   : the vault file p has built and not yet promoted
  tmp,        \* tmp[p]    : what p's temporary file holds
  built,      \* built[p]  : the UnlockedVault p's call has made, not returned yet
  handle,     \* handle[p] : the UnlockedVault p holds between calls
  res,        \* res[p]    : how p's operation has ended, at step "unlock"
  fresh,      \* the next vault id and key no one has used
  started, crashed,  \* what MaxOps and MaxCrashes bound
  orig        \* history: the file at the start

vars == <<file, bak, extraBaks, lock, pc, op, next, tmp, built, handle, res,
          fresh, started, crashed, orig>>
disk == <<file, bak, extraBaks>>
history == <<fresh, started, crashed, orig>>
-----------------------------------------------------------------------------
(* Boxes, files and handles *)

Seal(key, aad, body) == [key |-> key, aad |-> aad, body |-> body]
CanOpen(box, key, aad) == box.key = key /\ box.aad = aad

NoFile == [ver |-> 0]
Unreadable == [ver |-> 3]
V1(n, pw, m) == [ver |-> 1, name |-> n, blob |-> Seal(pw, n, m)]
V2(n, vid, pw, dek, m) ==
  [ver |-> 2, name |-> n, vid |-> vid,
   kp |-> Seal(pw, <<vid, n>>, dek), payload |-> Seal(dek, <<vid, n>>, m)]

Handle(n, vid, dek) == [kind |-> "unlocked", name |-> n, vid |-> vid, dek |-> dek]
NoHandle == [kind |-> "none"]
Held(h) == h.kind = "unlocked"

\* parsing a v1 file, comparing its name and decrypting its blob
OpensV1(f, n, pw) == f.ver = 1 /\ f.name = n /\ CanOpen(f.blob, pw, n)

\* Seeded fault: the name in the file is not compared with the one asked for.
OpensV2AnyName(f, n, pw) == f.ver = 2 /\ CanOpen(f.kp, pw, <<f.vid, f.name>>)

\* unlock_v2_from_json: unwrapping the key of a v2 file with the password
OpensV2(f, n, pw) == f.ver = 2 /\ f.name = n /\ CanOpen(f.kp, pw, <<f.vid, n>>)
HandleOf(f) == Handle(f.name, f.vid, f.kp.body)

\* read_v2 and decrypt_payload: what every operation on an UnlockedVault does
\* first, and all that get_secret, list_secrets and secret_names do
OpensPayload(h, f) ==
  /\ f.ver = 2
  /\ f.name = h.name
  /\ CanOpen(f.payload, h.dek, <<h.vid, h.name>>)
-----------------------------------------------------------------------------
(* Moving a process from step to step *)

At(p, step) == pc[p] = step
Goto(p, step) == pc' = [pc EXCEPT ![p] = step]

\* p's call returns: its locals are gone
Return(p) == /\ Goto(p, "idle")
             /\ op' = [op EXCEPT ![p] = Idle]
             /\ res' = [res EXCEPT ![p] = "none"]
             /\ next' = [next EXCEPT ![p] = NoFile]
             /\ built' = [built EXCEPT ![p] = NoHandle]

\* the closure run under the lock ends with outcome r
End(p, r) == Goto(p, "unlock") /\ res' = [res EXCEPT ![p] = r]

\* p has built f and goes on to write it
Stage(p, step, f) == Goto(p, step) /\ next' = [next EXCEPT ![p] = f]
-----------------------------------------------------------------------------
Init ==
  /\ \/ file = NoFile /\ bak = NoFile
     \/ \E n \in Names, pw \in Passwords, m \in SecretMaps : file = V1(n, pw, m)
        /\ \/ bak = NoFile
           \/ \E b \in SecretMaps : bak = V1(n, pw, b)
  /\ extraBaks = {}
  /\ lock = NoProc
  /\ pc = [p \in Procs |-> "idle"]
  /\ op = [p \in Procs |-> Idle]
  /\ next = [p \in Procs |-> NoFile]
  /\ tmp = [p \in Procs |-> NoFile]
  /\ built = [p \in Procs |-> NoHandle]
  /\ handle = [p \in Procs |-> NoHandle]
  /\ res = [p \in Procs |-> "none"]
  /\ fresh = 1
  /\ started = 0
  /\ crashed = 0
  /\ orig = file

\* p calls o; an edit is a method of the UnlockedVault p holds
Invoke(p, o) ==
  /\ At(p, "idle")
  /\ started < MaxOps
  /\ o.kind = "edit" => Held(handle[p])
  /\ op' = [op EXCEPT ![p] = o]
  /\ Goto(p, IF o.kind = "unlock" THEN "lookup" ELSE "lock")
  /\ started' = started + 1
  /\ UNCHANGED <<disk, lock, next, tmp, built, handle, res, fresh, crashed, orig>>

\* unlock reads the file without the lock.  A v2 file is unlocked from what was
\* read; only a v1 file makes unlock take the lock, to migrate it.
Lookup(p) ==
  /\ At(p, "lookup")
  /\ \/ /\ file.ver = 1
        /\ Goto(p, "lock")
        /\ UNCHANGED <<op, next, built, handle, res>>
     \/ /\ OpensV2(file, op[p].name, op[p].pw)
        /\ handle' = [handle EXCEPT ![p] = HandleOf(file)]
        /\ Return(p)
     \/ /\ file.ver # 1
        /\ ~OpensV2(file, op[p].name, op[p].pw)
        /\ Return(p)
        /\ UNCHANGED handle
  /\ UNCHANGED <<disk, lock, tmp, history>>

\* Seeded fault: a lock file that is there stops no one.
AcquireUnguarded(p) ==
  /\ At(p, "lock")
  /\ lock' = p
  /\ Goto(p, "read")
  /\ UNCHANGED <<disk, op, next, tmp, built, handle, res, history>>

Acquire(p) ==
  /\ At(p, "lock")
  /\ lock = NoProc
  /\ lock' = p
  /\ Goto(p, "read")
  /\ UNCHANGED <<disk, op, next, tmp, built, handle, res, history>>

\* Seeded fault: the lock is not given back.
ReleaseLeaking(p) ==
  /\ At(p, "unlock")
  /\ Return(p)
  /\ UNCHANGED <<disk, lock, tmp, handle, history>>

Release(p) ==
  /\ At(p, "unlock")
  /\ lock' = NoProc
  /\ Return(p)
  /\ UNCHANGED <<disk, tmp, handle, history>>
-----------------------------------------------------------------------------
(* Under the lock: reading the file and building the next one *)

\* verify_existing_vault accepts who knows the vault that is there
ReadForCreate(p) ==
  /\ At(p, "read") /\ op[p].kind = "create"
  /\ LET n == op[p].name
         pw == op[p].pw
     IN \/ /\ file = NoFile
           /\ Stage(p, "write", V2(n, fresh, pw, fresh, EmptyMap))
           /\ fresh' = fresh + 1
           /\ UNCHANGED res
        \/ /\ file # NoFile
           /\ End(p, IF OpensV1(file, n, pw) \/ OpensV2(file, n, pw)
                       THEN "ok" ELSE "error")
           /\ UNCHANGED <<next, fresh>>
  /\ UNCHANGED <<disk, lock, op, tmp, built, handle, started, crashed, orig>>

\* an edit decrypts, changes the map and encrypts again; the rest of the file,
\* the wrapped key among it, is written back as it was read
ReadForEdit(p) ==
  /\ At(p, "read") /\ op[p].kind = "edit"
  /\ LET h == handle[p]
     IN \/ /\ OpensPayload(h, file)
           /\ Stage(p, "write",
                [file EXCEPT !.payload = Seal(h.dek, <<h.vid, h.name>>,
                                           Edited(file.payload.body, op[p].edit))])
           /\ UNCHANGED res
        \/ /\ ~OpensPayload(h, file)
           /\ End(p, "corrupt")
           /\ UNCHANGED next
  /\ UNCHANGED <<disk, lock, op, tmp, built, handle, history>>

\* migrate_v1_to_v2, up to the backup: unlock comes here with what it believes
\* to be a v1 file, and a file that no longer parses as one is an error
Migrate(p) ==
  LET n == op[p].name
      pw == op[p].pw
  IN \/ /\ OpensV1(file, n, pw)
        /\ Stage(p, "backup", V2(n, fresh, pw, fresh, file.blob.body))
        /\ built' = [built EXCEPT ![p] = Handle(n, fresh, fresh)]
        /\ fresh' = fresh + 1
        /\ UNCHANGED res
     \/ /\ ~OpensV1(file, n, pw)
        /\ End(p, IF file.ver = 1 THEN "error" ELSE "corrupt")
        /\ UNCHANGED <<next, built, fresh>>

ReadForUnlock(p) ==
  /\ At(p, "read") /\ op[p].kind = "unlock"
  /\ Migrate(p)
  /\ UNCHANGED <<disk, lock, op, tmp, handle, started, crashed, orig>>

ReadForPasswd(p) ==
  /\ At(p, "read") /\ op[p].kind = "passwd"
  /\ \/ file.ver = 1 /\ Migrate(p)
     \/ /\ OpensV2(file, op[p].name, op[p].pw)
        /\ built' = [built EXCEPT ![p] = HandleOf(file)]
        /\ Goto(p, "rewrap")
        /\ UNCHANGED <<next, res, fresh>>
     \/ /\ file.ver # 1
        /\ ~OpensV2(file, op[p].name, op[p].pw)
        /\ End(p, "error")
        /\ UNCHANGED <<next, built, fresh>>
  /\ UNCHANGED <<disk, lock, op, tmp, handle, started, crashed, orig>>

\* Seeded fault: the new password gets a new key.
RewrapNewKey(p) ==
  /\ At(p, "rewrap")
  /\ file.ver = 2
  /\ Stage(p, "write",
       [file EXCEPT !.kp = Seal(op[p].new, <<file.vid, op[p].name>>, fresh)])
  /\ fresh' = fresh + 1
  /\ UNCHANGED <<disk, lock, op, tmp, built, handle, res, started, crashed, orig>>

\* rewrap_dek_v2 reads the file again and wraps the key it was given
Rewrap(p) ==
  /\ At(p, "rewrap")
  /\ \/ /\ file.ver = 2
        /\ Stage(p, "write",
             [file EXCEPT !.kp = Seal(op[p].new, <<file.vid, op[p].name>>, built[p].dek)])
        /\ UNCHANGED res
     \/ file.ver # 2 /\ End(p, "corrupt") /\ UNCHANGED next
  /\ UNCHANGED <<disk, lock, op, tmp, built, handle, history>>
-----------------------------------------------------------------------------
(* The backup of a v1 file, made before its successor is written *)

\* what a file may hold after f was written to it
Written(f) == {f} \cup (IF CorruptWrites THEN {Unreadable} ELSE {})

\* Seeded fault: any .v1.bak that is there will do.
BackupReusingAny(p) ==
  /\ At(p, "backup")
  /\ \/ bak = NoFile /\ bak' = Unreadable /\ Goto(p, "bakwrite")
     \/ bak # NoFile /\ UNCHANGED bak /\ Goto(p, "mwrite")
  /\ UNCHANGED <<file, extraBaks, lock, op, next, tmp, built, handle, res, history>>

\* A .v1.bak with these very bytes is reused, another is kept and the backup
\* gets a name of its own; creating the file and filling it are two steps
Backup(p) ==
  /\ At(p, "backup")
  /\ \/ bak = NoFile /\ bak' = Unreadable /\ Goto(p, "bakwrite")
     \/ bak = file /\ UNCHANGED bak /\ Goto(p, "mwrite")
     \/ bak \notin {NoFile, file} /\ UNCHANGED bak /\ Goto(p, "uniqwrite")
  /\ UNCHANGED <<file, extraBaks, lock, op, next, tmp, built, handle, res, history>>

BackupWrite(p) ==
  /\ \E bytes \in Written(file) :
       \/ At(p, "bakwrite") /\ bak' = bytes /\ UNCHANGED extraBaks
       \/ At(p, "uniqwrite") /\ extraBaks' = extraBaks \cup {bytes} /\ UNCHANGED bak
  /\ Goto(p, "mwrite")
  /\ UNCHANGED <<file, lock, op, next, tmp, built, handle, res, history>>
-----------------------------------------------------------------------------
(* atomic_write_verified: write a temporary file, verify it, rename it *)

WriteTmp(p) ==
  /\ \/ At(p, "write") /\ Goto(p, "promote")
     \/ At(p, "mwrite") /\ Goto(p, "verify")
  /\ \E bytes \in Written(next[p]) : tmp' = [tmp EXCEPT ![p] = bytes]
  /\ UNCHANGED <<disk, lock, op, next, built, handle, res, history>>

\* Seeded fault: what was written is not read back.
VerifiedBlindly(p) == TRUE

\* the closure a migration passes: the file just written must give back its
\* key and its payload to the password (atomic_write verifies nothing)
Verified(p) ==
  /\ OpensV2(tmp[p], op[p].name, op[p].pw)
  /\ OpensPayload(HandleOf(tmp[p]), tmp[p])

VerifyTmp(p) ==
  /\ At(p, "verify")
  /\ \/ Verified(p) /\ Goto(p, "mpromote") /\ UNCHANGED <<tmp, res>>
     \/ ~Verified(p) /\ End(p, "error") /\ tmp' = [tmp EXCEPT ![p] = NoFile]
  /\ UNCHANGED <<disk, lock, op, next, built, handle, history>>

Rename(p) == file' = tmp[p] /\ tmp' = [tmp EXCEPT ![p] = NoFile]

Promote(p) ==
  /\ At(p, "promote")
  /\ Rename(p)
  /\ End(p, "ok")
  /\ UNCHANGED <<bak, extraBaks, lock, op, next, built, handle, history>>

\* a migration ends an unlock, and is the first half of a password change
MigratePromote(p) ==
  /\ At(p, "mpromote")
  /\ Rename(p)
  /\ \/ /\ op[p].kind = "unlock"
        /\ handle' = [handle EXCEPT ![p] = built[p]]
        /\ End(p, "ok")
     \/ /\ op[p].kind = "passwd"
        /\ Goto(p, "rewrap")
        /\ UNCHANGED <<handle, res>>
  /\ UNCHANGED <<bak, extraBaks, lock, op, next, built, history>>
-----------------------------------------------------------------------------
(* What goes wrong around the code *)

UnderLock == {"read", "rewrap", "backup", "bakwrite", "uniqwrite", "write",
              "mwrite", "verify", "promote", "mpromote"}

\* an I/O error: TempFileGuard deletes the temporary file, with_lock releases
Fail(p) ==
  /\ \/ pc[p] \in {"lookup", "lock"} /\ Return(p) /\ UNCHANGED tmp
     \/ /\ pc[p] \in UnderLock
        /\ End(p, "error")
        /\ tmp' = [tmp EXCEPT ![p] = NoFile]
        /\ UNCHANGED <<op, next, built>>
  /\ UNCHANGED <<disk, lock, handle, history>>

\* p's process dies: the system gives its lock back, its temporary file stays
\* under a name no one uses again
Crash(p) ==
  /\ crashed < MaxCrashes
  /\ pc[p] # "idle" \/ Held(handle[p])
  /\ Return(p)
  /\ lock' = IF lock = p THEN NoProc ELSE lock
  /\ tmp' = [tmp EXCEPT ![p] = NoFile]
  /\ handle' = [handle EXCEPT ![p] = NoHandle]
  /\ crashed' = crashed + 1
  /\ UNCHANGED <<disk, fresh, started, orig>>

\* p drops its UnlockedVault, as a session that ends does
Drop(p) ==
  /\ At(p, "idle") /\ Held(handle[p])
  /\ handle' = [handle EXCEPT ![p] = NoHandle]
  /\ UNCHANGED <<disk, lock, pc, op, next, tmp, built, res, history>>
-----------------------------------------------------------------------------
\* the steps the code takes by itself once an operation is called
Step(p) ==
  \/ Lookup(p) \/ Acquire(p) \/ Release(p)
  \/ ReadForCreate(p) \/ ReadForEdit(p) \/ ReadForUnlock(p) \/ ReadForPasswd(p)
  \/ Rewrap(p) \/ Backup(p) \/ BackupWrite(p)
  \/ WriteTmp(p) \/ VerifyTmp(p) \/ Promote(p) \/ MigratePromote(p)

Next == \E p \in Procs :
  \/ \E o \in Operations : Invoke(p, o)
  \/ Step(p)
  \/ Fail(p) \/ Crash(p) \/ Drop(p)

Spec == Init /\ [][Next]_vars

\* An operation that is called goes on: the threads are scheduled and the
\* system grants a free lock to a thread that waits for it.
FairSpec == Spec /\ \A p \in Procs : WF_vars(Step(p))
-----------------------------------------------------------------------------
(* Properties *)

BoxOf(K, A, B) == [key : K, aad : A, body : B]
V1Files == [ver : {1}, name : Names, blob : BoxOf(Passwords, Names, SecretMaps)]
V2Files == [ver : {2}, name : Names, vid : Nat,
            kp : BoxOf(Passwords, Nat \X Names, Nat),
            payload : BoxOf(Nat, Nat \X Names, SecretMaps)]
Files == {NoFile, Unreadable} \cup V1Files \cup V2Files
Handles == {NoHandle} \cup [kind : {"unlocked"}, name : Names, vid : Nat, dek : Nat]
Steps == UnderLock \cup {"idle", "lookup", "lock", "unlock"}

\* Every variable has its type; the file is never a half-written one while
\* writes are what they report.
TypeOK ==
  /\ file \in Files /\ (file = Unreadable => CorruptWrites)
  /\ bak \in {NoFile, Unreadable} \cup V1Files
  /\ extraBaks \in SUBSET ({Unreadable} \cup V1Files)
  /\ lock \in Procs \cup {NoProc}
  /\ pc \in [Procs -> Steps]
  /\ op \in [Procs -> Operations \cup {Idle}]
  /\ next \in [Procs -> {NoFile} \cup V2Files]
  /\ tmp \in [Procs -> {NoFile, Unreadable} \cup V2Files]
  /\ built \in [Procs -> Handles] /\ handle \in [Procs -> Handles]
  /\ res \in [Procs -> {"none", "ok", "error", "corrupt"}]
  /\ fresh \in Nat \ {0}
  /\ started \in Nat /\ crashed \in Nat
  /\ orig \in {NoFile} \cup V1Files

\* An UnlockedVault caches the id and the key it was made with and never looks
\* at a password again: whatever other threads create, migrate, edit or rewrap
\* meanwhile, it keeps opening the file (UnlockedVault, read_v2, decrypt_payload).
HandleStaysValid ==
  \A p \in Procs :
    Held(handle[p]) /\ file # Unreadable => OpensPayload(handle[p], file)

\* The key a password unwraps from the file is the one the payload is sealed
\* with: no edit or rewrap that interleaves with another leaves a file whose
\* two sections disagree (encrypt_and_write and rewrap_dek_v2 each replace one).
PasswordOpensPayload ==
  \A n \in Names, pw \in Passwords :
    OpensV2(file, n, pw) => OpensPayload(HandleOf(file), file)

\* Once a v1 file has been replaced, an intact copy of it is kept under a
\* backup name, whatever failed or died on the way ("Migration requires a
\* verified backup", README; the mandatory backup of migrate_v1_to_v2).
V1NeverLost ==
  orig.ver = 1 /\ file # orig => orig \in {bak} \cup extraBaks

\* The file that takes a v1 file's place opens with its name and password and
\* holds its secrets, even when the disk does not keep what it was given
\* (the verification closure of migrate_v1_to_v2).
MigrationKeepsSecrets ==
  [][file.ver = 1 /\ file' # file =>
       /\ OpensV2(file', file.name, file.blob.key)
       /\ OpensPayload(HandleOf(file'), file')
       /\ file'.payload.body = file.blob.body]_vars

\* Only a migration turns the file back on who unlocks it with the right name:
\* "unlock() should migrate v1->v2 and return a working UnlockedVault"
\* (test v1_vault_auto_migrates_on_unlock): it never meets a file it cannot parse.
UnlockMeetsNoCorruptFile ==
  \A p \in Procs : At(p, "unlock") /\ op[p].kind = "unlock" => res[p] # "corrupt"

\* The lock is with who uses the vault file, and with nobody else: two threads are
\* never under it at once, and no error, return or death leaves it taken with nobody
\* to give it back (with_vault_lock, with_lock).
LockIsWithItsUser == \A p \in Procs : lock = p <=> pc[p] \in UnderLock \cup {"unlock"}

\* Every operation returns: the lock is always given back and no one waits for
\* a thread that waits for it (with_lock, with_vault_lock).
OperationsReturn == \A p \in Procs : ~At(p, "idle") ~> At(p, "idle")

(* The abstract vault this module implements.  An operation is pending from    *)
(* its call until its outcome is fixed: the lock it still holds is its own.    *)

AbstractVault ==
  CASE file.ver = 1 -> [kind |-> "vault", name |-> file.name,
                        pw |-> file.blob.key, secrets |-> file.blob.body]
    [] file.ver = 2 -> [kind |-> "vault", name |-> file.name,
                        pw |-> file.kp.key, secrets |-> file.payload.body]
    [] OTHER -> [kind |-> "none"]

AbstractRequest ==
  [p \in Procs |-> IF pc[p] \in {"idle", "unlock"} THEN Idle ELSE op[p]]

Abstract == INSTANCE VaultSpec WITH
  vault <- AbstractVault,
  request <- AbstractRequest,
  access <- {p \in Procs : Held(handle[p])}

\* Every operation takes effect once, in one step between its call and its
\* return, or fails and has none: no update is lost to another writer, a
\* password change sticks, and a migration or a crash changes no secret.
ImplementsVaultSpec == Abstract!Spec
=============================================================================
