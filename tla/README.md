# MeVault in TLA+

MeVault keeps secrets in an encrypted file and serves them over named pipes to
the processes of a project. This directory holds TLA+ models of its core, the
TLC configurations that check them on small instances, and proofs that TLAPS
checks. Paths below are relative to the repository; `vault`, `session`, `ipc`,
... stand for `mevault-core/src/<name>/mod.rs`.

## The system

| component | state | operations | who it works with |
|---|---|---|---|
| Vault store (`vault`) | one file per vault (v1 or v2), its lock file, `.v1.bak` backups, temporary files; in memory, `UnlockedVault` | create, unlock (and migrate v1), change password, set, set in bulk, remove, read | every command; several threads and processes share the file |
| Crypto (`crypto`) | none | seal and open with associated data, derive a key | vault store, export |
| Session manager (`session`) | one slot `Arc<RwLock<Option<Session>>>`, one sleeping task per timed session | start, end, expire, borrow the vault | the command that unlocked, the pipe handlers |
| Runtime pipe server (`ipc`) | the pipe, one handler per client | accept, read a request, verify, decide, read a secret, answer | session slot, grants, allow-list, audit log |
| Control pipe server (`ipc`) | the pipe, a channel of one place to the shutdown task | Lock, Status | `mevault lock`, `status`, `unlock`, `run` |
| `unlock`, `lock` (`mevault-cli/src/commands`) | `session.json`, the process | unlock, serve, end | all of the above |
| `run` | the launched child, in a job | join a session, or unlock, launch, serve, end | grants, session, servers |
| Launch grants (`grants`) | a registry by process id and creation time | register, get, revoke | `run`, the runtime handlers |
| Process identity (`identity`) | none (asks Windows, a question at a time) | record and verify a client, walk from it to its parents | runtime handlers, the kernel |
| Allow-list (`allowlist`) | the rules | may this chain read this secret | runtime handlers |
| Audit log (`audit`) | a SQLite table | write, query | handlers, commands |
| Configuration (`config`, `config.rs`, `init.rs`) | `mevault.toml`, the system policy | load, validate, migrate | every command |
| Export and import (`export`, `export.rs`, `import.rs`, `add.rs`) | a bundle file | export, import with read-back | vault store |
| SDK (`mevault-sdk`) | none | get, list, retrying while the pipe is busy | runtime server |
| Proxy (`proxy`) | none | find the process of a TCP connection, decide as the pipe does | identity, allow-list; no command calls it |
| `doctor`, `log`, `list`, `get`, `verify`, `main.rs` | none of note | display | |

What is hard here, and what it would be for the component to be correct:

- *Vault store.* Threads and processes interleave on one file, `unlock` reads
  it without the lock, any step can fail, a process can die between any two.
  No update may be lost, a handle must keep working, a password change must
  stick, and a v1 file must never be lost to its migration.
- *Session manager.* A task that was started for a session wakes, late, when
  another one may have taken the slot. It may end its own session only, and the
  key must leave memory when the time has come.
- *Runtime server and commands.* Handlers check the session, leave the lock and
  then read the vault; the session may expire, the client exit and the servers
  stop in between. Who is answered must fit the session, the grant and the audit
  log, and a shutdown must end the process.
- *Grants.* The child must have its grant before its first instruction and keep
  it until its last, or until the wait for it fails.
- *Process identity.* Processes exit and their ids are given again between any two
  questions a handler asks. The one that is judged must be the one that asked, the
  grant must be of the launched process, and the parents must be the parents.
- *Several processes.* The pipes are names of the machine, `session.json` is one file,
  and any number of `unlock`, `run`, `lock` and `status` find and write them. One process
  may serve a pipe, a client must get an answer or an error, and no dead session may be
  left on record.
- *Configuration.* Nothing locks `mevault.toml`; a migration holds what it has loaded
  while it waits at prompts. What it overwrites must be in the backup, and nobody may be
  granted every secret who has not been opted in.
- *Export and import.* Each command makes several calls to the vault, holds nothing
  between two of them, and others edit meanwhile. A read-back must not cry wolf, an
  export must be of a vault that was, and what went out must come back.

`PROJECT.json` lists each hazard at its line with the properties that cover it.

## Modules

| module | models | extends |
|---|---|---|
| `VaultData` | secret maps, edits, the operations clients call | |
| `VaultSpec` | what a vault promises: operations that take effect in one step or not at all; no files, locks or keys | `VaultData` |
| `VaultStore` | `vault`: the code's steps | `VaultData`, instantiates `VaultSpec` |
| `VaultStoreProofs` | proofs about `VaultStore` | `VaultStore` |
| `SessionManager` | `session` | |
| `SessionManagerProofs` | proofs about `SessionManager` | `SessionManager` |
| `DisclosureSpec` | what a serving process promises its clients: nothing is told but in answer to a request, once, and after one step in which the session, the client and the request were looked at together; no handlers, pipe, expiry task or shutdown. Its theorem is in the module | |
| `Broker` | `unlock.rs`, `run.rs`, `ipc`, `grants` and the audit writes, around one session slot | `SessionManager`, instantiates `DisclosureSpec` |
| `BrokerProofs` | proofs about `Broker` | `Broker`, `SessionManagerProofs` |
| `Transfer` | `add.rs`, `import.rs`, `export.rs` and `export`: commands of several calls to the vault, and bundle files | `VaultData`, instantiates `VaultSpec` |
| `TransferProofs` | proofs about `Transfer` | `Transfer` |
| `Config` | `config`, `config.rs`, `init.rs` and the part of `run.rs` that finds what a program may read | |
| `ConfigProofs` | proofs about `Config` | `Config` |
| `Identity` | `identity`, `allowlist`, the handler's way from a connection to a decision, `grants` by process id, `proxy`'s lookup | |
| `IdentityProofs` | proofs about `Identity` | `Identity` |
| `Machine` | several processes of `unlock.rs`, `run.rs`, `lock.rs`, `status.rs`, `list.rs` and of the SDK at the two pipes and `session.json` | |
| `MachineProofs` | proofs about `Machine` | `Machine` |
| `MCVaultStore`, `MCSessionManager`, `MCBroker`, `MCTransfer`, `MCConfig`, `MCIdentity`, `MCMachine` | instances for TLC | the module they name |

Three modules look at the serving process at three scales. `Broker` opens one process
up: its slot, its handlers, its channel. `Machine` closes it again and puts several
beside each other, with the kernel's pipes between them. `Identity` opens up the one
step that both take for granted, who it is that asks.

Definitions marked *Seeded fault* are not part of a model: each is a variant of
the definition that follows it, with a plausible bug that a property must catch.

### VaultStore

`file`, `bak`, `extraBaks` and `tmp` are the files; `lock` is the lock file,
which threads of one process and of several contend for alike; `handle[p]` is
the `UnlockedVault` thread `p` holds, `op`, `next`, `built` and `res` are the locals of
its call, and `pc` the step it is about to take. Each action is one access to
the file system with the computation that goes with it:

- `Invoke` calls an operation. `Lookup` is the read that `unlock` makes without
  the lock (346-353); `Acquire` and `Release` are `with_lock`.
- `ReadForCreate`, `ReadForEdit`, `ReadForUnlock` and `ReadForPasswd` read the
  file under the lock and build the next one. `Migrate` is `migrate_v1_to_v2` up to
  its backup, shared by the last two; `Rewrap` is `rewrap_dek_v2`.
- `Backup` and `BackupWrite` make the mandatory backup: the file is created, empty,
  before it is filled, so that a crash leaves a torn one.
- `WriteTmp`, `VerifyTmp`, `Promote` and `MigratePromote` are
  `atomic_write_verified`: write, verify, rename.
- `Fail` is an I/O error at any of these steps (the temporary file is removed
  and the lock released by their guards), `Crash` the death of the process, `Drop`
  the end of a handle.

Cryptography is modelled by what it promises: `CanOpen(box, key, aad)`. A key or
vault id that is drawn at random is one that nobody has used (`fresh`).
`sanitize_vault_name` is not injective: `Names` are the names that share one
file. Nothing is assumed of the file at the start but that it is absent or a v1
file with some secrets, with or without an older backup beside it.

### SessionManager and Broker

`SessionManager` has the `slot`, the sleeping `timers` and `arcs`: who holds an
`Arc<UnlockedVault>`. What the code does under the `RwLock` is one step, as nothing
else is awaited there. `made` holds a session between `Session::new` and `start`.

`Broker` adds the process around it, and a step is what a task does between two
awaits: `main` is where the command stands, `pc` and `req` the handlers of the
runtime pipe, `ctl` those of the control pipe, `pending` the audit writes that were
spawned. `told` is a history variable. The command goes through `UnlockVault`,
`StartSession`, for `run` the steps of `spawn_in_job` (`CreateChild`, `RegisterGrant`,
`ResumeChild`, `ChildWaited`, `KillAfterChild`), `EndSession` and `Exit`. If the wait for
the child fails (`WaitFails`), its grant is revoked by one guard before another closes the
job and kills it (`CloseJob`); `main` is `"abandon"` in between. A request
goes through `Receive`, `VerifyGrant`, `LookupGrant`, then `GrantedSession` or
`Session`, `ReadSecret` and `Reply`, or `ListSecrets`. `Decide` is all of it but the
`Reply`, which waits for the client to read. `SendKill`, `PassKill` and
`StopServer` are the channel with one place, the task that receives from it once,
and the servers it stops; a server may also fail (`ServerFails`). `SeenAlive` is all
that the kernel is assumed to say of a process: one that runs is seen, one that has
exited may or may not be. The allow-list's verdicts are the constants `Rules` and
`Listers`; an allow-list that is turned off is one that allows everything. Requests
that do not parse, too-long lines and too-long answers are choices of `Receive`,
`Disconnect` and `Reply`.

`Broker` is shown to implement `DisclosureSpec` (`ImplementsDisclosure`). A session is
abstractly none until `StartSession`, then active, then over. A request is permitted by
the step that clones the `Arc` of the vault under the session's lock (or collects the
names), and told by `Reply`. The launched process is entitled to what its grant lists
and, while that stands (`granted`, `GrantStands`), to nothing else, whatever the
allow-list says; `Release` gives the grant up, at its exit or a failed wait, and from then
on it is a client like any other. A denial is a refusal, and the requests of a client that
has exited are dropped, since nobody can be told.

### Transfer

The vault is `VaultSpec` itself, which `VaultStore` is proved to implement. `cmd[p]` is
the command of user `p`: its kind, the step it is at and its locals. A call to the vault
is `CallUnlock` and `Unlocked`, then one operation with the handle, which is dropped
when the call returns: `CallEdit`, `Edit` and `EditReturns`, or a read (`Verify`,
`ListNames`, `Fetch`). `ReadFile` reads a bundle (`Readings`, by the extension of its
name as `import_auto` does), `Truncate` and `Fill` write one, not in one step, and
`WriteAudit` writes one record. `Fail` is a wrong password, an error of any of these or
the death of the process. `StartAdd` and `StartRemove` also stand for programs that use
`SecretStoreBridge`, which are not held to one line per value.

What the line format does to a value is in two constants: `Trimmed` is what its first
line reads as, `More` the entries its further lines read as. The JSON formats keep
values as they are. Names are one word, without `=` and not starting with `#`. A file
of one format read as another does not parse, but for `.env`, which takes any text.

An example in the repository's own README (`README.md:435`) exports to a file named
`.mvx` and leaves the format at its default; such a file is one `import` refuses
(`StartExport` chooses format and name apart).

### Config

`toml` and `bak` are the two files, `Torn` between the truncation and the fill of a
write that is not atomic (`ProjectConfig::save`, `fs::copy`). `cmd[p]` is the command at
terminal `p` with what it has loaded. `StartInit`, `Validate`, `StartMigrate` and
`StartRun` are the commands' first reads; a migration goes on with `BackupTruncate` and
`BackupFill`, then a rule at a time with `ConvertRule`, or `Confirm` or `Decline` at the
prompt, then `SaveTruncate` and `SaveFill`, which `init` shares. `run` loads the file a
second time (`Resolve`). `UserEdits` is an editor, `Fail` an error or a death anywhere.
`AllowedSecrets`, `Matches`, `RuleFor` and `ValidRule` are the readers of a rule, each translated from its own function. `valid`, `opted` and the
fields `replaced`, `quiet` and `late` are history. The tables of a configuration that no
command looks into are one value, `Settings`.

### Identity

`procs[i]` is the process that has the id `i`, with its creation time and its parent's
id; it may have exited and still be there while someone has a handle on it. `Spawn`,
`Exit` and `Forget` are the machine; `CreateChild`, `RegisterGrant`, `ChildWaited`,
`WaitFails`, `Revoke` and `LaunchFails` are `spawn_in_job`. `h` is one handler: `Connect` and `Record`
(`record_grant`), `Receive`, `Verify` (`verify_grant`), `Lookup` (the registry), then
`ReadExe` and `ReadParent` in turn (`build_process_chain`, whose limit of six is
`Levels`) and `Decide` (`check_access`). `ProxyRequest` and `ProxyResolve` are the
proxy's way to the same walk. Every question to the kernel is a step of its own, answered
by `Seen`. One handler is enough: handlers share nothing but the registry, and write
none of it. It is taken for granted that every running process can be asked; a client's
end of the pipe may be in the hands of a process that inherited it.

### Machine

`main[p]` is where an `unlock` or `run` stands, `sess[p]` its slot, `pipe[p][v]` its
instance of each pipe, `kill[p]` that its servers were told to stop, `grants[p]` its own
registry. `file` is `session.json`. `call[x]` is a client's call: `OpenPipe` takes the
instance that is listened on, `Accept` makes the next one and hands the connection over,
`AnswerStatus`, `AnswerLock` and `AnswerGet` answer, `OpenFails` and `HandlerEnds` do
not. `Bind` is `first_pipe_instance(true)`, which fails while anyone has an instance, a
handler that nobody waits for included. `Check` and `Checked` are `is_vault_active`, a
Status call like any other, `InjectEnv` the run that does not ask; then
`StartSession`, `Launch`, `ChildExits`, `ChildWaited`, or `WaitFails` and `CloseJob` (the
run is `"abandoning"` its child, or `"leaving"` it if it had joined a session),
`CtrlC`, `EndSession`, `Exit`, or `Crash` at any step. `StatusCleansUp` is `status`
removing the file. `Gone` is what the kernel does with a process that ends: its
instances close, its clients read the end of the file, the job takes the child along.

## Runs

| run | checks | shows |
|---|---|---|
| `store` | `TypeOK`, `HandleStaysValid`, `PasswordOpensPayload`, `V1NeverLost`, `ImplementsVaultSpec` | two threads, two colliding names, I/O errors and a crash: the vault is linearizable and nothing is lost |
| `store_disk` | `LockIsWithItsUser`, `MigrationKeepsSecrets`, `OperationsReturn` | on a disk that loses writes, a migration promotes a good file only; the lock is never left behind; no operation hangs |
| `session` | `SessionTypeOK`, `LiveSessionStays`, `ExpiredKeyIsDropped` | late expiry tasks end their own session only; keys of expired sessions go |
| `broker` | `BrokerTypeOK`, `ServedOnlyWhileActive`, `ChildServedUnderGrant`, `AuditMatchesAnswers`, `LiveSessionEndsLast`, `ImplementsDisclosure` | under `run`, answers fit the session, the grant (until the child has exited or the wait for it has failed) and the audit; each answer was permitted in one step after its request; a live session outlasts both servers |
| `broker_lock` | `RequestsAreDecided`, `LockEnds` | under `unlock`, two Locks and a Ctrl+C end the process; every request that was read is decided |
| `transfer` | `TransferTypeOK`, `NoFalseAlarm`, `RecordsFollowEdit`, `QuietExportIsWhole`, `MvxRestores`, `PlainBackupRestores` | commands of several calls, interleaved and failing anywhere: no false alarm from a read-back, records follow the edit, an export that no edit met is whole, `.mvx` restores what was exported, and so does the default format if every value is one plain line |
| `config` | `ConfigTypeOK`, `BackupHoldsWhatIsReplaced`, `MigrationKeepsTheRest`, `WildcardIsOptedIn`, `ValidatedRulesGrant` | commands and edits side by side, failing anywhere: the backup has what a migration replaced, wildcards are opted in, `validate` and `run` agree |
| `identity` | `IdentityTypeOK`, `RecycledIsDetected`, `GrantIsTheChilds`, `DecisionIsOfTheLine` | processes come, go and reuse ids between any two questions: the decision is on the process recorded for the connection while that runs, and never on one that had its id at the verification without being it; a grant speaks for its child alone; the walk is of the parents |
| `machine` | `MachineTypeOK`, `OneServesEachPipe`, `FileNamesNoneThatEnded`, `NoConnectionForgotten`, `GrantsStayHome`, `CallsReturn` | an `unlock`, a `run` with its child and another client that crash, lock and expire: one process serves a pipe, the file is of no ended process, a connection that waits has its instance, a child is judged by its grant where the grant is, until the wait for it fails, every call returns |

Three runs look for, and find, a behaviour that a document or a comment rules
out:

| run | property | what happens |
|---|---|---|
| `store_race` | `UnlockMeetsNoCorruptFile` | of two first unlocks of a v1 vault, the one that gets the lock second fails to parse the v2 file it finds |
| `broker_expiry` | `ExpiredKeyIsDropped` | the command holds an `Arc` of the vault of its own, and the key outlives the session's expiry |
| `transfer_backup` | `BackupRestores` | a value with quotes, outer blanks or several lines, exported in the default format, comes back as another from an import that reports success |

`session` and `broker_expiry` check the same property. It holds of the session
manager by itself if whoever holds a vault is done with it some day
(`FairSession`); the commands do not meet that condition.

### Bounds

- Two threads are enough for every race on the file: the lock admits one, and
  what a third did before or after is one more operation of either.
  `MaxOps = 4` lets a vault be created or migrated, unlocked by both, edited and
  re-passworded; `MaxCrashes = 1` puts a death at any step, `Fail` any number of
  errors. Two passwords tell an old one from a new one. One secret with one value
  can be set and removed, so an update that is lost shows.
- Three sessions: one in the slot, one whose task is late, one being made.
  `Lifetime = 1` and `MaxTime = 2` let each of them expire while another is live.
- Two clients, the launched child and another, with opposite rights (the grant
  gives the child `s1`, the allow-list `s2`); two secrets; two requests, so that one
  can come before and one after the expiry. Two Lock requests and Ctrl+C are three
  senders for a channel with one place. One session per process is what both
  commands make.
- Two users and three commands: an export, an edit in between by either, an import.
  One vault and password, as a wrong one is `Fail`. Three values: one that a line
  keeps, one it trims, one of two lines whose second reads as an entry; two secrets, so
  that this entry hits another one. `transfer_backup` needs two commands only.
- `config`: two terminals and three commands or edits: a migration, what disturbs it,
  and the run or validation that reads the result. The drafts hold a wildcard with and
  without its opt-in, a rule to convert before one to ask about, and a bare name beside
  a path; one secret, since rules are told apart by `*` and by naming it or not.
- `identity`: four ids and four births after which none is left over, so that a client,
  its parent and the launched child can exit and each have its id taken by another.
  `Levels = 3` is less than the number of processes, so a walk meets its limit; six, as
  in the code, would need seven. One executable is denied, one is a forbidden parent.
- `machine`: one `unlock`, one `run` with its child, one other client. Two servers are
  what a race for a pipe takes; either may be there first, so that `run` joins, or serves
  and loses the race. `MachineProofs` covers two and more unlocks. No counter is
  bounded: processes go through their life once, and a client other than the child
  asks once.
- The clock stops at `MaxTime + Lifetime`, when every session has expired.

Deadlock is not checked: a system whose bounds are used up stops. That nothing
waits forever is what `OperationsReturn`, `RequestsAreDecided`, `LockEnds` and
`CallsReturn` say.

### Fairness

- `VaultStore`: weak fairness of each thread's steps. A thread that waits for the
  lock may be overtaken, but only by the at most `MaxOps` operations that are
  called, so weak fairness is enough to get it; the code's lock promises no more.
- `SessionManager`: time passes, the runtime wakes a task whose time has come, and a
  borrower returns what it borrowed.
- `Broker`: the tokio runtime polls every task that can go on. Nothing is assumed of
  the clients, of the user at the keyboard, or of the child, which may run forever;
  servers need not fail and audit writes need not be done before the end. Reads of a
  request have a deadline and writes of an answer have none (`ipc:202-205`), so a client
  that does not read blocks its handler until the process exits. Therefore `Reply` and
  `AdminAck` are not fair, only `Decide` is, and `RequestsAreDecided` says that an answer
  gets ready, not that it is delivered.
- `Machine`: a client's call goes on, as the SDK and `send_control` do nothing else
  meanwhile, and the runtime polls the tasks of a server. The answer is one of the call's
  steps. Nobody has to ask, to type a password, to exit or to let a connection go, which
  is why `CallsReturn` leaves out clients that stay connected (`"stay"`), and why it is of
  the callers: a run's child, or a command at its check, may die with its process.
- `Config`, `Identity`, `Transfer`: none; only safety is claimed of them.

## Proofs

All theorems are for any number of threads, names, passwords, secrets, sessions,
holders, clients, commands, processes and process ids, and any bounds.

| theorem | says |
|---|---|
| `TypeCorrect` | `Spec => []TypeOK` |
| `HandlesStayValid` | `Spec => []HandleStaysValid` |
| `PasswordsOpenPayload` | `Spec => []PasswordOpensPayload` |
| `LockIsUsed` | `Spec => []LockIsWithItsUser` |
| `MigrationKeeps` | `Spec => MigrationKeepsSecrets` |
| `V1IsKept` | `~CorruptWrites => (Spec => []V1NeverLost)` |
| `StoreImplementsVault` | `~CorruptWrites => (Spec => ImplementsVaultSpec)` |
| `SessionTypeCorrect` | `SpecSession => []SessionTypeOK` |
| `LiveSessionsStay` | `SpecSession => LiveSessionStays` |
| `BrokerTypeCorrect` | `Spec => []BrokerTypeOK` |
| `ServedWhileActive` | `Spec => []ServedOnlyWhileActive` |
| `ChildServed` | `Spec => ChildServedUnderGrant` |
| `AuditMatches` | `Spec => []AuditMatchesAnswers` |
| `SessionsEndLast` | `Spec => LiveSessionEndsLast` |
| `BrokerImplementsDisclosure` | `Spec => ImplementsDisclosure` |
| `PromiseIsKept` | of `DisclosureSpec`: `Spec => [](ToldAreEntitled /\ AnsweredOnce)` |
| `AnswersAreEntitled` | of `Broker`, through the refinement: `Spec => [](AnswersFollowRules /\ OneAnswerEach)` |
| `TransferTypeCorrect` | `Spec => []TransferTypeOK` |
| `AlarmsAreTrue` | `Spec => []NoFalseAlarm` |
| `RecordsAreOfTheEdit` | `Spec => []RecordsFollowEdit` |
| `QuietExportsAreWhole` | `Spec => []QuietExportIsWhole` |
| `MvxBringsBack` | `Spec => []MvxRestores` |
| `PlainBackupsComeBack` | `Spec => []PlainBackupRestores` |
| `CommandsAreClients` | `Spec => Store!Spec`: the commands use the vault as `VaultSpec` lets any client |
| `ConfigTypeCorrect` | `Spec => []ConfigTypeOK` |
| `BackupIsWhatWasReplaced` | `Spec => []BackupHoldsWhatIsReplaced` |
| `OnlyProcessRulesChange` | `Spec => []MigrationKeepsTheRest` |
| `OnlyOptedInAreWild` | `Spec => []WildcardIsOptedIn` |
| `ValidatedGrants` | `Spec => []ValidatedRulesGrant` |
| `IdentityTypeCorrect` | `Spec => []IdentityTypeOK` |
| `RecycledDetected` | `Spec => []RecycledIsDetected` |
| `GrantOfTheChild` | `Spec => []GrantIsTheChilds` |
| `DecisionOfTheLine` | `Spec => []DecisionIsOfTheLine` |
| `MachineTypeCorrect` | `Spec => []MachineTypeOK` |
| `OneServes` | `Spec => []OneServesEachPipe` |
| `FileIsOfTheLiving` | `Spec => []FileNamesNoneThatEnded` |
| `NoneForgotten` | `Spec => []NoConnectionForgotten` |
| `GrantsAreHome` | `Spec => GrantsStayHome` |

The type invariants of `Config`, `Identity`, `Machine` and `Transfer` are corollaries of
the inductive ones (`ConfigInvariant`, `IdentityInvariant`, `MachineInvariant`,
`TransferInvariant`).

`Spec` is the specification of the component's module. Those of `Broker` are for both
commands and any clients, rules and grants; those of `Transfer` for any line format.

`IInv` of `VaultStoreProofs` is the inductive invariant of the store. None of the
properties is inductive: that a rename leaves handles valid depends on what the
thread had staged, and that is right only because the file has not changed since
the thread read it. So `IInv` says, besides the types, that whoever is between
`Acquire` and `Release` holds the lock (`LockInv`); that the two sections of a v2
file are sealed with one key for one vault (`FileInv`); and, for each thread, that
what it has staged is what its operation makes of the file that is still there
(`ProcInv`, by the step it stands at). `StepIInv` proves each part in a lemma of
its own. `V1IsKept` adds that a backup is complete by the time the successor is
written (`BackupInv`). The refinement maps the file to the abstract vault and ends
an operation where its outcome is fixed, at the rename or at the read that refuses
it; `StepAbstract` shows, action by action, that each step is a step of `VaultSpec` or
a stutter.

Both `~CorruptWrites` theorems need their assumption: on a disk that loses
writes the backup itself may be lost, because it is written and synced but not
read back. `MigrationKeeps` does without it: `IInv` says of a migration that has passed
its verification that the temporary file is what was staged, and of what was staged that
it is the v1 file's secrets under its password. `LockIsUsed` has the converse of
`LockInv` beside it (`HeldInv`): whoever has the lock is between the two steps, so
nobody waits for a lock that nobody will give back.

The expiry task compares ids and not sessions; `OneSessionPerId` says that among
what is in the slot, asleep or being made, an id names one session, and
`LiveSessionsStay` follows from it.

`BrokerInv` of `BrokerProofs` is the broker's. `HandleMoves` first reduces the seven
steps of a handler to three: it goes on (`Advance`), has its answer (`Conclude`) or
gives it (`Reply`). What is told is right only because of what was known when the
request was in hand, so each property comes with the part that says so: `GateInv`
and `LiveInv` that nobody is served before the session is in its slot, and that a
handler that reads, or has a value to give, has a request that came to an active
session (`Fades`: a session that is not active never is again); `ChildInv` where the
child stands and that no step takes it for a client without a grant until it has exited or
the wait for it has failed; `RecordInv` that
requests in hand have numbers of their own and which of them have a record.

The refinement of `DisclosureSpec` adds nothing to `BrokerInv` but needs all of it: that
what is read is what the request named and, for the child, what its grant allows
(`RequestInv`, `ChildInv`), that a session is never active again (`SessionMoves`, from
`Fades`), and that numbers are given once. A step of a handler changes its own request
only (`OneRequest`), so `DisclosureAdvance`, `DisclosureConclude` and `DisclosureReply`
show that the three kinds of handler steps are a `Permit`, a `Refuse`, a `Tell` or a
stutter; `DisclosureConnection` does the connections, `DisclosureDead` the handler of a child that
has exited, `DisclosureGone` the exit of the process, which is a `Close`. The end of the
grant is a `Release` (`GrantMoves`), that of the child a `Refuse` of what it has asked
(`ChildMoves`), and the rest leaves the mapped state alone but for the session.
`PromiseIsKept` is proved of `DisclosureSpec` alone: a request that is permitted is one
its client is entitled to, and numbers are given out once. `AnswersAreEntitled` carries
it to the code's variables without another induction over `Broker`'s steps, but for
`ToldInv`, that a value answers a request for a secret. `SlotInv`, that the slot is
filled only between `StartSession` and `EndSession`, gives `SessionsEndLast`.

`TransferInv` ties a command's step to its call in `VaultSpec`: what a command has
asked for is of the step it is at (`CallInv`), its locals are of a kind with that step
(`StepInv`), the records it has written are of the entries before `at` (`NotedInv`), and,
as long as no other edit has met it, the vault is what the import has stored
(`ImportInv`) or agrees with what the export has fetched so far (`ExportInv`). The
entries of a file of several lines are the flattening of a sequence of sequences, a
recursive fold; that the result is a sequence of entries is proved by its least
counterexample, which needs no induction rule. `PlainBackupsComeBack` rests on one more
conjunct, that a `.env` bundle holds the entries of its origin, line by line, and on
`PlainLines`: each line of a plain value reads back as itself. `CommandsAreClients`,
from the steps of each command, composes with `StoreImplementsVault`: what `Transfer`
assumes of the vault is what `VaultStore` provides.

`ConfigInv` says what a file may hold, and that its wildcards were opted in
(`FilesInv`); and, for each command, that its step fits its kind and what it has left to
convert is there (`StepInv`), that the wildcards among the rules it has made and in its
grant were opted in (`OptInv`), that a grant is what the first matching rule of the file
it has loaded gives (`RunInv`), that the backup is what is in the file, or what was in it
at the truncation, as long as nobody else has written since the backup was begun (`LateInv`) or
since the load (`QuietInv`). A write makes every other command late, so the two meet
nobody else's step.

`IdentityInv` rests on one relation: from a step to the next, a process with an id stays
as it is, exits, or gives way to a younger one (`Younger`), as creation times only grow.
So a question about an id is answered by the process that was recorded or by one born
after the request was verified (`WalkInv`, `RecordInv`); and the key in the registry, with
its creation time, fits no other process, during the gap between the closing of the
child's handle and the revocation too (`LaunchInv`, `GrantInv`). `RecycledIsDetected` needs
one conjunct more, that while the recorded process runs nobody else is judged
(`ClientInv`).

`DecisionIsOfTheLine` defines what the decision should be by the line of a process: the
sequence of ids (`Lines`) that begins with it and goes from child to parent to the end
of the line or to `Levels`. It claims nothing where the line is broken by an exit, as
the code then decides on what it could still read. The proof is by steps and not by the
depth of the walk: `FamilyInv` says that whoever was born when a process's parent was
born is that parent, and `LineInv` that, while everybody on the line runs, the walk has
read the executables of its first processes and stands at the next (`Follows`). A line
that exists now existed at the step before, as nobody comes back; so the invariant looks
at one line at a time.

`MachineInv` adds to the types that a call which has an instance is with a server and
has no answer yet (`CallInv`), that a process has instances only while it serves and
until it has gone (`QuietInv`), that `session.json` names an unlock that still serves, or
one that died (`FileInv`), and that the grant of a child that runs is in the registry of
its run and nowhere else, until the wait for it fails, when it is gone (`GrantInv`). `OneServesEachPipe` is part of it: every
step that makes an instance either finds none (`Bind`) or replaces one of its own
(`Accept`). `NoneForgotten` needs two invariants more: a connection that waits and a taken
instance are each other's, one to one (`PairInv`), and a command that has not begun has
asked nobody (`NewInv`). Steps are sorted by what they do to such pairs: nothing
(`OthersStay`), one more (`OpenPairs`), or all of an instance gone (`PairGoes`).

Every safety property of the runs is proved. Model-checked only are the liveness
properties (`OperationsReturn`, `ExpiredKeyIsDropped`, `RequestsAreDecided`, `LockEnds`,
`CallsReturn`), since TLAPS proves nothing under fairness. For two of them a theorem has the part
that is safety: nobody waits for a lock without a user (`LockIsUsed`) or for an instance
without a server (`NoneForgotten`).

Assumed: the constants' `ASSUME`s, that sealed boxes open
with their key alone, and that a rename replaces a file in one step.

## Seen while modelling

No property claims the opposite of these; the models have them as the code does.

- Under `run`, `mevault lock` stops the servers, and the process keeps the session while
  its child runs (`run.rs:163`). Handlers are detached, and the process may exit under
  one (`ipc:90`); audit records may be lost with it (`ipc:439`). The README (`README.md:335`)
  and `protocol.rs:95` speak of draining and flushing. "Vault locked." is printed on the
  answer to Lock, before the servers have stopped.
- Two unlocks that both find no session can each get one pipe; the one that ends first
  removes the `session.json` of the other. An unlock after the expiry of a session that
  is still served fails to bind, and removes it too, and so does a `status` that meets a
  busy control pipe.
- A run that joins a session registers the grant in its own process, where the serving
  one does not look (`grants:82`): its child is judged by the allow-list. The 150 ms that
  `run` gives its servers to bind are no synchronisation.
- If the wait for the child fails, `grant_guard` revokes the grant (`run.rs:518`) before
  `_job_guard` kills the child (`run.rs:421`): one that still runs is judged by the
  allow-list in between.
- Answers are written without a deadline (`ipc:202-205`): a client that never reads keeps
  its handler until the process exits.
- After `verify_grant` the handler goes by the process id. If the client exits then, a
  younger process with its id may be judged in its place; that a recycled one "cannot
  impersonate the original caller" (`identity:3`) holds of what was there at the
  verification.
- `extra_deny_list` (`config:276`) is enforced by no code, and `ProcessRule::allows_secret`
  (`config:56`) is called by tests alone.
- A migration saves what it loaded before its prompts: process rules written by hand are
  replaced (`config.rs:154`; the comment at 151 speaks of the allow-list), edits made
  meanwhile are undone, and a second migration overwrites the backup. `init` looks for
  the file, prompts, and writes. `run` reads the file twice, so that its settings and its
  rules may be of different files.
- The configuration that `init` writes has no process rule, and a rule for `node.exe`
  does not match `mevault run node`.
- `SystemPolicy::apply_to` takes over any value that is set, `false` too.
- The check of the working directory (`README.md:108`) never refuses, because no chain
  has one.
- The row that `find_connection_pid` looks for, with the proxy's port as the local one, is
  the proxy's own (`win32.rs:77`): the proxy judges the serving process. No command
  starts the proxy.

## Not modelled

- Cryptographic primitives, key derivation and its parameters' bounds: their promise is
  `CanOpen`, and their correctness is not one of states and steps.
- Durability of the rename itself after a loss of power; temporary files left by a
  crash, which nothing reads.
- Jumps of the wall clock (there is one clock), and the Win32 calls behind identity and
  jobs, beyond what they answer.
- The JSON of requests and of `session.json`, sizes of requests and answers: a request
  fits and parses, or the connection is dropped or refused.
- The environment that `--inject-env` fills: it reads the secrets before anything runs
  beside it and goes on without those it cannot read. That it joins no session is
  `Machine`'s `InjectEnv`.
- The proxy's HTTP handlers beyond whom they judge: they hold the session's lock for the
  whole request and change nothing.
- The audit log's schema check, queries and export; `doctor`, `log`, `verify`, argument
  parsing, packaging: sequential, and they change no state that others look at.
- The system policy and the paths of configurations: `Settings` are one value.
- The names of programs that may use the control pipe: one that may not is `HandlerEnds`.

## Plan

Done: the vault store with its abstract specification, the session manager, one serving
process with its abstract specification, the commands that transfer secrets,
configurations, process identity, and several processes on one machine, each with its
proofs.

Left, should the code grow in these directions:

1. `Machine` composed with `Broker`: one refinement from several serving processes to
   `DisclosureSpec`, in place of the two scales that are modelled apart.
2. `Identity`'s decision in place of the constants `Rules` and `Listers` of `Broker`.
3. The audit log's reset of an old database, once it is reachable beside a writer.
