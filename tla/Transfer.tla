------------------------------ MODULE Transfer ------------------------------
(***************************************************************************)
(* The commands that carry secrets into a vault and out of it (add,        *)
(* import and export of mevault-cli/src/commands) and the bundles they     *)
(* read and write (mevault-core/src/export/mod.rs).  Each makes several    *)
(* calls to the vault, with a password in each, and holds no lock between  *)
(* two of them; other commands, and other programs that remove secrets,    *)
(* come in between.  The vault itself is VaultSpec.                        *)
(***************************************************************************)
EXTENDS VaultData, SequencesExt

CONSTANTS
  Trimmed,     \* Trimmed[v] : what is left of v, written to a line, when the line is read
  More,        \* More[v]    : the entries that the further lines of v read as
  Garbage,     \* the entries that the JSON of a bundle reads as, taken for text
  Texts,       \* what the user's .env file may hold: sequences of entries
  MaxCommands  \* bound: commands in a behaviour

Entries == [name : Secrets, value : Values]

ASSUME TransferAssumption ==
  /\ IsFiniteSet(Secrets)
  /\ Trimmed \in [Values -> Values]
  /\ More \in [Values -> Seq(Entries)]
  /\ Garbage \in Seq(Entries)
  /\ Texts \subseteq Seq(Entries)
  /\ MaxCommands \in Nat

VARIABLES
  vault, request, access,  \* the vault, as in VaultSpec
  files,                   \* files[x] : the file whose name ends with x
  cmd,                     \* cmd[p]   : the command that p runs or has run
  started                  \* what MaxCommands bounds

Store == INSTANCE VaultSpec

storeVars == <<vault, request, access>>
transferVars == <<storeVars, files, cmd, started>>

Extensions == {".env", ".env.mvenc", ".mvx"}
NoFile == [form |-> "none", entries |-> <<>>]
Torn == [form |-> "torn", entries |-> <<>>]

Ended == {"ok", "mismatch"}
Calls == {"set", "verify", "list", "fetch"}

\* A command at its start.  origin is the file an import has read; stored, noted
\* and quiet are history: its edit is made, the records it wrote, and whether no
\* one else has edited the vault since it began or made its own edit.
Command(kind, step) ==
  [kind |-> kind, step |-> step, at |-> 1, list |-> <<>>, names |-> <<>>, edit |-> <<>>,
   form |-> "none", ext |-> ".env", key |-> Idle, origin |-> NoFile,
   stored |-> FALSE, noted |-> {}, quiet |-> TRUE]

Free == Command("none", "ok")

At(p, step) == cmd[p].step = step
Goto(p, step) == cmd' = [cmd EXCEPT ![p].step = step, ![p].at = 1]
-----------------------------------------------------------------------------
(* Reading a bundle *)

\* Seeded fault: a last line that no line feed ends is not read.
LinesButLast(l) == FlattenSeq([i \in 1..(Len(l) - 1) |->
  <<[name |-> l[i].name, value |-> Trimmed[l[i].value]]>> \o More[l[i].value]])

\* parse_env_lines, of a text with one line for each entry, or more
Lines(l) == FlattenSeq([i \in DOMAIN l |->
  <<[name |-> l[i].name, value |-> Trimmed[l[i].value]]>> \o More[l[i].value]])

\* import_dotenv takes any file for text
AsText(f) == CASE f.form = "text" -> {Lines(f.entries)}
               [] f.form = "none" -> {}
               [] f.form = "torn" -> {<<>>, Garbage}
               [] OTHER -> {Garbage}

\* Seeded fault: a bundle is read line by line, as the other format is.
ReadingsAsLines(x) ==
  IF x = ".env" THEN AsText(files[x]) ELSE {Lines(files[x].entries)}

\* import_auto: the file's name decides how it is read; one of another form
\* does not parse, or does not decrypt
Readings(x) == CASE x = ".env" -> AsText(files[x])
                 [] x = ".env.mvenc" /\ files[x].form = "encrypt" -> {Lines(files[x].entries)}
                 [] x = ".mvx" /\ files[x].form = "mvx" -> {files[x].entries}
                 [] OTHER -> {}

\* the map that is made of the entries: the last of a name stays
AsEdit(l) == [s \in {l[i].name : i \in DOMAIN l} |->
                l[Max({i \in DOMAIN l : l[i].name = s})].value]
-----------------------------------------------------------------------------
Init == /\ Store!Init
        /\ \E t \in Texts :
             files = [x \in Extensions |-> IF x = ".env" THEN [form |-> "text", entries |-> t]
                                                         ELSE NoFile]
        /\ cmd = [p \in Procs |-> Free]
        /\ started = 0

\* The password is asked for once and used in every call.
Start(p, c) ==
  /\ cmd[p].step \in Ended /\ started < MaxCommands
  /\ started' = started + 1
  /\ \E n \in Names, w \in Passwords :
       cmd' = [cmd EXCEPT ![p] = [c EXCEPT !.key = [kind |-> "unlock", name |-> n, pw |-> w]]]
  /\ UNCHANGED <<storeVars, files>>

\* add, or another program that sets a secret: its value may have several lines
StartAdd(p) == \E e \in Entries :
  Start(p, [Command("add", "set") EXCEPT !.list = <<e>>, !.edit = AsEdit(<<e>>)])

\* add --from-env
StartAddAll(p) == Start(p, Command("addAll", "read"))

StartImport(p) == \E x \in Extensions :
  Start(p, [Command("import", "read") EXCEPT !.ext = x])

\* the format and the name of the output are chosen apart
StartExport(p) == \E f \in {"encrypt", "mvx"}, x \in Extensions :
  Start(p, [Command("export", "list") EXCEPT !.form = f, !.ext = x])

\* another program removes a secret, through SecretStoreBridge
StartRemove(p) == \E s \in Secrets :
  Start(p, [Command("remove", "set") EXCEPT !.edit = [t \in {s} |-> NoValue]])

ReadFile(p) ==
  /\ At(p, "read")
  /\ \E l \in IF cmd[p].kind = "import" THEN Readings(cmd[p].ext) ELSE AsText(files[".env"]) :
       cmd' = [cmd EXCEPT ![p].list = l, ![p].edit = AsEdit(l), ![p].origin = files[cmd[p].ext],
                          ![p].step = IF l = <<>> THEN "ok" ELSE "set"]
  /\ UNCHANGED <<storeVars, files, started>>
-----------------------------------------------------------------------------
(* A call to the vault: unlock, then one operation with the handle, which  *)
(* is dropped when the call returns                                        *)

CallUnlock(p) ==
  /\ cmd[p].step \in Calls /\ p \notin access
  /\ Store!Invoke(p, cmd[p].key)
  /\ UNCHANGED <<files, cmd, started>>

Unlocked(p) == Store!CommitUnlock(p) /\ UNCHANGED <<files, cmd, started>>

Open(p, step) == At(p, step) /\ p \in access /\ request[p] = Idle

\* Seeded fault: the bulk edit stops after the first entry.
CallEditOne(p) ==
  /\ Open(p, "set") /\ ~cmd[p].stored
  /\ LET one == [s \in {CHOOSE t \in DOMAIN cmd[p].edit : TRUE} |-> cmd[p].edit[s]]
     IN Store!Invoke(p, [kind |-> "edit", edit |-> one])
  /\ UNCHANGED <<files, cmd, started>>

CallEdit(p) ==
  /\ Open(p, "set") /\ ~cmd[p].stored
  /\ Store!Invoke(p, [kind |-> "edit", edit |-> cmd[p].edit])
  /\ UNCHANGED <<files, cmd, started>>

Edit(p) ==
  /\ Store!CommitEdit(p)
  /\ cmd' = [q \in Procs |-> [cmd[q] EXCEPT !.quiet = q = p, !.stored = q = p \/ @]]
  /\ UNCHANGED <<files, started>>

\* import reads back what it has stored, add goes on to its records
EditReturns(p) ==
  /\ Open(p, "set") /\ cmd[p].stored
  /\ Store!Leave(p)
  /\ Goto(p, CASE cmd[p].kind = "import" -> "verify"
               [] cmd[p].kind = "remove" -> "ok"
               [] OTHER -> "audit")
  /\ UNCHANGED <<files, started>>

\* what follows the i-th of n rounds of a loop
Advance(p, n, next) ==
  IF cmd[p].at < n THEN cmd' = [cmd EXCEPT ![p].at = @ + 1] ELSE Goto(p, next)

\* each entry is compared, those that a later one of its name has replaced too
Verify(p) ==
  /\ Open(p, "verify")
  /\ Store!Leave(p)
  /\ LET e == cmd[p].list[cmd[p].at]
     IN IF vault.secrets[e.name] = e.value THEN Advance(p, Len(cmd[p].list), "audit")
                                           ELSE Goto(p, "mismatch")
  /\ UNCHANGED <<files, started>>

ListNames(p) ==
  /\ Open(p, "list")
  /\ Store!Leave(p)
  /\ LET names == SetToSeq({s \in Secrets : vault.secrets[s] # NoValue})
     IN cmd' = [cmd EXCEPT ![p].names = names,
                           ![p].step = IF names = <<>> THEN "ok" ELSE "fetch"]
  /\ UNCHANGED <<files, started>>

Fetched(p) == [name |-> cmd[p].names[cmd[p].at],
               value |-> vault.secrets[cmd[p].names[cmd[p].at]]]

FetchTo(p, last) ==
  /\ Store!Leave(p)
  /\ LET l == Append(cmd[p].list, Fetched(p))
     IN cmd' = [cmd EXCEPT ![p].list = l, ![p].at = @ + 1,
                           ![p].step = IF cmd[p].at < last THEN @ ELSE "write"]
  /\ UNCHANGED <<files, started>>

\* Seeded fault: a secret that is gone is exported all the same.
FetchUnchecked(p) == Open(p, "fetch") /\ FetchTo(p, Len(cmd[p].names))

\* Seeded fault: the last name is left out.
FetchButLast(p) == /\ Open(p, "fetch") /\ Fetched(p).value # NoValue
                   /\ FetchTo(p, Len(cmd[p].names) - 1)

\* a secret that has gone since the names were listed fails the export
Fetch(p) == /\ Open(p, "fetch") /\ Fetched(p).value # NoValue
            /\ FetchTo(p, Len(cmd[p].names))
-----------------------------------------------------------------------------
(* Writing a bundle and the records *)

\* fs::write empties the file, whatever it held, and then fills it
Truncate(p) ==
  /\ At(p, "write")
  /\ files' = [files EXCEPT ![cmd[p].ext] = Torn]
  /\ Goto(p, "fill")
  /\ UNCHANGED <<storeVars, started>>

\* over what another export has written there in between, it may leave a mixture
Fill(p) ==
  /\ At(p, "fill")
  /\ \E f \in {[form |-> cmd[p].form, entries |-> cmd[p].list]}
             \cup IF files[cmd[p].ext] = Torn THEN {} ELSE {Torn} :
       files' = [files EXCEPT ![cmd[p].ext] = f]
  /\ Goto(p, "ok")
  /\ UNCHANGED <<storeVars, started>>

\* Seeded fault: the last entry has no record.
WriteAuditButLast(p) ==
  /\ At(p, "audit")
  /\ IF cmd[p].at < Len(cmd[p].list)
       THEN cmd' = [cmd EXCEPT ![p].at = @ + 1,
                               ![p].noted = @ \cup {cmd[p].list[cmd[p].at].name}]
       ELSE Goto(p, "ok")
  /\ UNCHANGED <<storeVars, files, started>>

\* a SecretAdded record for each entry, awaited one by one
WriteAudit(p) ==
  /\ At(p, "audit")
  /\ LET last == cmd[p].at = Len(cmd[p].list)
     IN cmd' = [cmd EXCEPT ![p].at = @ + 1,
                           ![p].noted = @ \cup {cmd[p].list[cmd[p].at].name},
                           ![p].step = IF last THEN "ok" ELSE @]
  /\ UNCHANGED <<storeVars, files, started>>

\* A wrong password, an error of any call, file or record, or the death of the
\* process: what the command holds goes, what it has done stays.
Fail(p) ==
  /\ cmd[p].step \notin Ended
  /\ Store!Leave(p)
  /\ cmd' = [cmd EXCEPT ![p] = Free]
  /\ UNCHANGED <<files, started>>
-----------------------------------------------------------------------------
Next == \E p \in Procs :
  \/ StartAdd(p) \/ StartAddAll(p) \/ StartImport(p) \/ StartExport(p) \/ StartRemove(p)
  \/ ReadFile(p)
  \/ CallUnlock(p) \/ Unlocked(p) \/ CallEdit(p) \/ Edit(p) \/ EditReturns(p)
  \/ Verify(p) \/ ListNames(p) \/ Fetch(p)
  \/ Truncate(p) \/ Fill(p) \/ WriteAudit(p) \/ Fail(p)

Spec == Init /\ [][Next]_transferVars
-----------------------------------------------------------------------------
(* Properties *)

Files == [form : {"none", "torn", "text", "encrypt", "mvx"}, entries : Seq(Entries)]

\* Every variable has its type; a command that is done holds nothing.
TransferTypeOK ==
  /\ vault = Store!NoVault
       \/ vault \in {Store!Vault(n, w, m) : n \in Names, w \in Passwords, m \in SecretMaps}
  /\ request \in [Procs -> Operations \cup {Idle}]
  /\ access \subseteq Procs
  /\ files \in [Extensions -> Files]
  /\ started \in 0..MaxCommands
  /\ \A p \in Procs :
       /\ cmd[p].step \in Calls \cup Ended \cup {"read", "audit", "write", "fill"}
       /\ cmd[p].list \in Seq(Entries) /\ cmd[p].names \in Seq(Secrets)
       /\ cmd[p].origin \in Files /\ cmd[p].noted \subseteq Secrets
       /\ cmd[p].step \in Ended => request[p] = Idle /\ p \notin access

\* An import reports that the vault may be corrupted only if someone else has
\* edited the vault since, or the file itself gives one name two values
\* (import.rs, the read-back).
NoFalseAlarm ==
  \A p \in Procs : At(p, "mismatch") /\ cmd[p].quiet =>
    \E i, j \in DOMAIN cmd[p].list :
      cmd[p].list[i].name = cmd[p].list[j].name /\ cmd[p].list[i].value # cmd[p].list[j].value

\* A SecretAdded record is of a secret that has been stored, and a command that
\* reports success has written all of its records (add.rs, import.rs).
RecordsFollowEdit ==
  \A p \in Procs :
    /\ cmd[p].noted # {} => cmd[p].stored
    /\ At(p, "ok") /\ cmd[p].kind \in {"add", "addAll", "import"} =>
         cmd[p].noted = {cmd[p].list[i].name : i \in DOMAIN cmd[p].list}

\* An export that no one else's edit met holds the vault as it is, though it reads
\* the names and each value on its own (export.rs).
QuietExportIsWhole ==
  \A p \in Procs : At(p, "ok") /\ cmd[p].kind = "export" /\ cmd[p].quiet =>
    vault.kind = "none" \/ vault.secrets = Edited(EmptyMap, AsEdit(cmd[p].list))

\* After p has imported a bundle with success, and until someone else's edit, the
\* vault has the secrets that were exported to it.
Restored(p) ==
  At(p, "ok") /\ cmd[p].kind = "import" /\ cmd[p].quiet =>
    \A i \in DOMAIN cmd[p].origin.entries :
      LET e == cmd[p].origin.entries[i] IN vault.secrets[e.name] = e.value

\* What was exported to an .mvx bundle comes back with an import of it, whatever
\* the values and whatever was edited in between (export_mvx, import_mvx).
MvxRestores == \A p \in Procs : cmd[p].origin.form = "mvx" /\ cmd[p].ext = ".mvx" => Restored(p)

\* What was exported comes back with an import: "Export secrets for backup or
\* migration" (README, `mevault export`, whose default is .env.mvenc).
BackupRestores ==
  \A p \in Procs :
    <<cmd[p].origin.form, cmd[p].ext>> \in {<<"mvx", ".mvx">>, <<"encrypt", ".env.mvenc">>} =>
      Restored(p)

\* A value that a line carries as it is: no quotes or blanks around it, no second line.
Plain(v) == Trimmed[v] = v /\ More[v] = <<>>

\* A bundle of the default format comes back if all of its values are such, whatever
\* others do to the vault and the file before and after (export_env, parse_env_lines).
PlainBackupRestores ==
  \A p \in Procs :
    /\ <<cmd[p].origin.form, cmd[p].ext>> = <<"encrypt", ".env.mvenc">>
    /\ \A i \in DOMAIN cmd[p].origin.entries : Plain(cmd[p].origin.entries[i].value)
    => Restored(p)
=============================================================================
