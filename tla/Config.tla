------------------------------- MODULE Config -------------------------------
(***************************************************************************)
(* The configuration of a project, mevault.toml, its backup, and the       *)
(* commands that write and read them: init (commands/init.rs), config      *)
(* validate and config migrate (commands/config.rs), and the part of run   *)
(* that finds what its program may read (commands/run.rs).  Nothing locks  *)
(* the files: users run commands side by side and edit by hand, and a      *)
(* command holds what it has loaded while it waits at a prompt.            *)
(***************************************************************************)
EXTENDS Sequences, FiniteSets, Naturals

CONSTANTS
  Procs,       \* users at their terminals
  Settings,    \* the tables [project], [session] and [security], as a whole
  Secrets,
  Star,        \* "*" in place of a secret's name
  Dirs, Files, \* an executable is a file in a directory
  Bare,        \* in place of a directory: a program's name alone
  Drafts,      \* what the user writes into mevault.toml in an editor
  Default,     \* what init writes
  Installed,   \* the executables that exist
  Patterns,    \* the directories of executables that hold a * or a ${...}
  Empty,       \* the empty string, as a rule's name or a file's name
  MaxCommands  \* bound: commands and edits in a behaviour

Executables == [dir : Dirs \cup {Bare}, file : Files]
AllowRules == [name : {"rule", Empty}, exe : Executables, secrets : SUBSET (Secrets \cup {Star})]
ProcessRules == [name : {"rule", Empty}, exe : Executables,
                 secrets : SUBSET (Secrets \cup {Star}), all : BOOLEAN]
Configs == [settings : Settings, allow : Seq(AllowRules), process : Seq(ProcessRules)]

\* a file that is not there, and one that has been emptied and not been filled
Absent == [none |-> "absent"]
Torn == [none |-> "torn"]

ASSUME ConfigAssumption ==
  /\ Star \notin Secrets /\ Bare \notin Dirs /\ Patterns \subseteq Dirs
  /\ Drafts \subseteq Configs /\ Default \in Configs
  /\ Installed \subseteq Executables
  /\ MaxCommands \in Nat

VARIABLES
  toml, bak,  \* mevault.toml and mevault.toml.bak
  cmd,        \* cmd[p] : the command p runs, or has run
  valid,      \* history: the configurations that validate has found valid
  opted,      \* history: the executables a user has given every secret to
  started     \* what MaxCommands bounds

vars == <<toml, bak, cmd, valid, opted, started>>
-----------------------------------------------------------------------------
(* What the rules say *)

Wild(r) == Star \in r.secrets

\* Seeded fault: a wildcard is taken at its word.
AllowedSecretsOfAny(r) == r.secrets

\* allowed_secrets_for_rule: a wildcard without its opt-in gives nothing
AllowedSecrets(r) == IF Wild(r) /\ ~r.all THEN {} ELSE r.secrets

\* executable_matches: a bare name is compared with the file's name, a path as a whole
Matches(program, exe) ==
  IF program.dir = Bare THEN program.file = exe.file ELSE program = exe

Matching(c, program) == {i \in DOMAIN c.process : Matches(program, c.process[i].exe)}

\* the first rule that matches
RuleFor(c, program) ==
  c.process[CHOOSE i \in Matching(c, program) : \A j \in Matching(c, program) : i <= j]

\* Seeded fault: validate takes a wildcard without its opt-in.
ValidRuleAnyWild(r) == /\ r.name # Empty /\ r.exe.file # Empty /\ r.secrets # {}
                       /\ r.exe.dir \in Patterns \/ r.exe \in Installed

ValidRule(r) == /\ r.name # Empty /\ r.exe.file # Empty /\ r.secrets # {}
                /\ Wild(r) => r.all
                /\ r.exe.dir \in Patterns \/ r.exe \in Installed

Valid(c) == /\ \A i \in DOMAIN c.process : ValidRule(c.process[i])
            /\ \A i \in DOMAIN c.allow : c.allow[i].name # Empty /\ c.allow[i].secrets # {}

\* the executables that a configuration gives every secret to
OptedIn(c) == {c.process[i].exe : i \in {j \in DOMAIN c.process :
                                           Wild(c.process[j]) /\ c.process[j].all}}
-----------------------------------------------------------------------------
\* A command at its start.  replaced, quiet and late are history: what its save has
\* overwritten, whether no one else has written since it loaded its configuration,
\* and whether someone has since it began its backup.
Command(kind, step) ==
  [kind |-> kind, step |-> step, cfg |-> Absent, at |-> 1, rules |-> <<>>,
   program |-> Absent, granted |-> {}, replaced |-> Absent, quiet |-> TRUE, late |-> FALSE]

Ended == {"ok", "failed"}

Init == /\ toml \in {Absent} \cup Drafts /\ bak = Absent
        /\ cmd = [p \in Procs |-> Command("none", "ok")]
        /\ valid = {}
        /\ opted = IF toml = Absent THEN {} ELSE OptedIn(toml)
        /\ started = 0

At(p, step) == cmd[p].step = step

\* p goes on, and every other command has been disturbed by what p wrote
Write(p, next) ==
  cmd' = [q \in Procs |-> IF q = p THEN next ELSE [cmd[q] EXCEPT !.quiet = FALSE, !.late = TRUE]]

Start(p, c) == /\ cmd[p].step \in Ended /\ started < MaxCommands
               /\ started' = started + 1
               /\ cmd' = [cmd EXCEPT ![p] = c]

\* The user saves mevault.toml from an editor.
UserEdits ==
  /\ started < MaxCommands
  /\ started' = started + 1
  /\ \E c \in Drafts : toml' = c /\ opted' = opted \cup OptedIn(c)
  /\ cmd' = [q \in Procs |-> [cmd[q] EXCEPT !.quiet = FALSE, !.late = TRUE]]
  /\ UNCHANGED <<bak, valid>>

\* init asks for a new vault's password, twice, after it has looked
StartInit(p) ==
  /\ Start(p, IF toml = Absent THEN [Command("init", "save") EXCEPT !.cfg = Default]
                               ELSE Command("init", "failed"))
  /\ UNCHANGED <<toml, bak, valid, opted>>

Validate(p) ==
  /\ LET ok == toml \in Configs /\ Valid(toml)
     IN /\ Start(p, [Command("validate", IF ok THEN "ok" ELSE "failed") EXCEPT !.cfg = toml])
        /\ valid' = IF ok THEN valid \cup {toml} ELSE valid
  /\ UNCHANGED <<toml, bak, opted>>
-----------------------------------------------------------------------------
(* config migrate *)

\* Seeded fault: a configuration with nothing to migrate is migrated.
StartMigrateAny(p) ==
  /\ toml \in Configs
  /\ Start(p, [Command("migrate", "backup") EXCEPT !.cfg = toml])
  /\ UNCHANGED <<toml, bak, valid, opted>>

\* Seeded fault: a backup that is there is left alone.
StartMigrateOnce(p) ==
  /\ toml \in Configs /\ toml.allow # <<>>
  /\ Start(p, [Command("migrate", IF bak = Absent THEN "backup" ELSE "convert") EXCEPT !.cfg = toml])
  /\ UNCHANGED <<toml, bak, valid, opted>>

StartMigrate(p) ==
  /\ Start(p, IF toml \in {Absent, Torn} THEN Command("migrate", "failed")
              ELSE [Command("migrate", IF toml.allow = <<>> THEN "ok" ELSE "backup")
                      EXCEPT !.cfg = toml])
  /\ UNCHANGED <<toml, bak, valid, opted>>

\* fs::copy empties the backup of an earlier migration, then fills it with what
\* mevault.toml holds by now
BackupTruncate(p) ==
  /\ At(p, "backup")
  /\ bak' = Torn
  /\ Write(p, [cmd[p] EXCEPT !.step = "copy", !.late = FALSE])
  /\ UNCHANGED <<toml, valid, opted, started>>

BackupFill(p) ==
  /\ At(p, "copy")
  /\ \E f \in {toml} \cup IF bak = Torn THEN {} ELSE {Torn} : bak' = f
  /\ Write(p, [cmd[p] EXCEPT !.step = "convert"])
  /\ UNCHANGED <<toml, valid, opted, started>>

Converted(r, all) == [name |-> r.name, exe |-> r.exe, secrets |-> r.secrets, all |-> all]

\* the rule that is next, and how the loop goes on with the rules that are made of it
ThisRule(p) == cmd[p].cfg.allow[cmd[p].at]

Convert(p, rules) ==
  /\ At(p, "convert")
  /\ cmd' = [cmd EXCEPT ![p].at = @ + 1, ![p].rules = @ \o rules,
                        ![p].step = IF cmd[p].at < Len(cmd[p].cfg.allow) THEN @ ELSE "save"]
  /\ UNCHANGED <<toml, bak, valid, started>>

ConvertRule(p) == /\ At(p, "convert") /\ ~Wild(ThisRule(p))
                  /\ Convert(p, <<Converted(ThisRule(p), FALSE)>>)
                  /\ UNCHANGED opted

\* "Allow all secrets? [y/N]"
Confirm(p) == /\ At(p, "convert") /\ Wild(ThisRule(p))
              /\ Convert(p, <<Converted(ThisRule(p), TRUE)>>)
              /\ opted' = opted \cup {ThisRule(p).exe}

\* Seeded fault: the answer is not looked at.
DeclineIgnored(p) == /\ At(p, "convert") /\ Wild(ThisRule(p))
                     /\ Convert(p, <<Converted(ThisRule(p), TRUE)>>)
                     /\ UNCHANGED opted

Decline(p) == /\ At(p, "convert") /\ Wild(ThisRule(p))
              /\ Convert(p, <<>>)
              /\ UNCHANGED opted
-----------------------------------------------------------------------------
(* ProjectConfig::save, of init and of migrate *)

\* Seeded fault: the rules that were converted are taken out of the allow-list.
NextConfigMoved(c) ==
  IF c.kind = "init" THEN c.cfg ELSE [c.cfg EXCEPT !.process = c.rules, !.allow = <<>>]

\* the configuration that was loaded, its process rules replaced by the new ones
NextConfig(c) == IF c.kind = "init" THEN c.cfg ELSE [c.cfg EXCEPT !.process = c.rules]

\* fs::write empties the file, whatever it holds by now
SaveTruncate(p) ==
  /\ At(p, "save")
  /\ toml' = Torn
  /\ Write(p, [cmd[p] EXCEPT !.step = "fill", !.replaced = toml])
  /\ UNCHANGED <<bak, valid, opted, started>>

\* over what another has written in between, it may leave a mixture
SaveFill(p) ==
  /\ At(p, "fill")
  /\ \E f \in {NextConfig(cmd[p])} \cup IF toml = Torn THEN {} ELSE {Torn} : toml' = f
  /\ opted' = opted \cup IF cmd[p].kind = "init" THEN OptedIn(cmd[p].cfg) ELSE {}
  /\ Write(p, [cmd[p] EXCEPT !.step = "ok"])
  /\ UNCHANGED <<bak, valid, started>>
-----------------------------------------------------------------------------
(* run, up to the secrets its program is granted *)

\* it loads the configuration for its settings
StartRun(p) ==
  /\ \E d \in Executables :
       Start(p, IF toml \in {Absent, Torn} THEN Command("run", "failed")
                ELSE [Command("run", "resolve") EXCEPT !.program = d])
  /\ UNCHANGED <<toml, bak, valid, opted>>

\* resolve_allowed_secrets loads it again, for its rules
Resolve(p) ==
  /\ At(p, "resolve")
  /\ cmd' = [cmd EXCEPT ![p] =
       IF toml \in {Absent, Torn} \/ Matching(toml, cmd[p].program) = {}
         THEN [@ EXCEPT !.step = "failed"]
         ELSE [@ EXCEPT !.step = "ok", !.cfg = toml,
                        !.granted = AllowedSecrets(RuleFor(toml, cmd[p].program))]]
  /\ UNCHANGED <<toml, bak, valid, opted, started>>

\* An error of any of these steps, or the death of the process, leaves the files as they are.
Fail(p) ==
  /\ cmd[p].step \notin Ended
  /\ cmd' = [cmd EXCEPT ![p].step = "failed"]
  /\ UNCHANGED <<toml, bak, valid, opted, started>>

Next ==
  \/ UserEdits
  \/ \E p \in Procs :
       \/ StartInit(p) \/ Validate(p) \/ StartMigrate(p) \/ StartRun(p)
       \/ BackupTruncate(p) \/ BackupFill(p) \/ ConvertRule(p) \/ Confirm(p) \/ Decline(p)
       \/ SaveTruncate(p) \/ SaveFill(p) \/ Resolve(p) \/ Fail(p)

Spec == Init /\ [][Next]_vars
-----------------------------------------------------------------------------
(* Properties *)

IsFile(f) == f \in {Absent, Torn} \/ f \in Configs

\* Every variable has its type; what a migration has left to convert is there.
ConfigTypeOK ==
  /\ IsFile(toml) /\ IsFile(bak)
  /\ valid \subseteq Configs /\ opted \subseteq Executables
  /\ started \in 0..MaxCommands
  /\ \A p \in Procs :
       /\ cmd[p].step \in Ended \cup {"backup", "copy", "convert", "save", "fill", "resolve"}
       /\ IsFile(cmd[p].cfg) /\ IsFile(cmd[p].replaced)
       /\ cmd[p].rules \in Seq(ProcessRules)
       /\ cmd[p].granted \subseteq Secrets \cup {Star}
       /\ At(p, "convert") => cmd[p].at \in DOMAIN cmd[p].cfg.allow

\* What a migration replaces is in its backup, wherever it fails and whatever was
\* edited before the backup was begun; only what others write after that is not
\* (config.rs, migrate: the backup, the prompts, the save).
BackupHoldsWhatIsReplaced ==
  \A p \in Procs :
    cmd[p].kind = "migrate" /\ cmd[p].replaced # Absent /\ ~cmd[p].late =>
      bak = cmd[p].replaced

\* A migration that nobody disturbs changes nothing but the process rules: "original
\* allow_list is preserved" (config.rs:151).
MigrationKeepsTheRest ==
  \A p \in Procs :
    cmd[p].kind = "migrate" /\ At(p, "ok") /\ cmd[p].quiet /\ cmd[p].replaced # Absent =>
      /\ toml.allow = bak.allow /\ toml.settings = bak.settings

\* A run grants every secret only where a user has opted in to that, in an editor or
\* at a migration's prompt: "Wildcard access requires explicit double opt-in"
\* (ProcessRule::allows_secret).
WildcardIsOptedIn ==
  \A p \in Procs : Star \in cmd[p].granted => \E e \in opted : Matches(cmd[p].program, e)

\* A program that run launches under a configuration that validate found valid is
\* granted something: what run makes of a rule and what validate makes of it agree.
ValidatedRulesGrant ==
  \A p \in Procs : cmd[p].kind = "run" /\ At(p, "ok") /\ cmd[p].cfg \in valid => cmd[p].granted # {}
=============================================================================
