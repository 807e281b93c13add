---------------------------- MODULE ConfigProofs ----------------------------
(***************************************************************************)
(* Proofs about Config, for any secrets, executables, drafts, users and    *)
(* number of commands.                                                     *)
(***************************************************************************)
EXTENDS Config, WellFoundedInduction, TLAPS

FileStates == {Absent, Torn} \cup Configs

Kinds == {"none", "init", "validate", "migrate", "run"}
Steps == Ended \cup {"backup", "copy", "convert", "save", "fill", "resolve"}

Commands ==
  [kind : Kinds, step : Steps, cfg : FileStates, at : Nat, rules : Seq(ProcessRules),
   program : Executables \cup {Absent}, granted : SUBSET (Secrets \cup {Star}),
   replaced : FileStates, quiet : BOOLEAN, late : BOOLEAN]

\* What each step of a command has in hand.
StepInv(c) ==
  /\ c \in Commands
  /\ c.step \in {"backup", "copy", "convert", "save", "fill"} => c.cfg \in Configs
  /\ c.step \in {"backup", "copy", "convert"} => c.kind = "migrate" /\ c.cfg.allow # <<>>
  /\ c.step \in {"backup", "copy"} => c.at = 1
  /\ c.step = "convert" => c.at \in 1..Len(c.cfg.allow)
  /\ c.step \in {"save", "fill"} => c.kind \in {"init", "migrate"}
  /\ c.step = "resolve" => c.kind = "run" /\ c.program \in Executables
  /\ c.step \in {"backup", "copy", "convert", "save"} => c.replaced = Absent

\* Every secret is given only to executables that a user has opted in, o.
OptInv(c, o) ==
  /\ \A i \in DOMAIN c.rules : Wild(c.rules[i]) /\ c.rules[i].all => c.rules[i].exe \in o
  /\ Star \in c.granted => \E e \in o : Matches(c.program, e)

\* What a run has granted is what the first rule that matches gives.
RunInv(c) ==
  c.kind = "run" /\ c.step = "ok" =>
    /\ c.cfg \in Configs /\ Matching(c.cfg, c.program) # {}
    /\ c.granted = AllowedSecrets(RuleFor(c.cfg, c.program))

\* Until another writes, the backup b is the file t, and then what was replaced.
LateInv(c, t, b) ==
  c.kind = "migrate" /\ ~c.late =>
    /\ c.step = "copy" => b = Torn
    /\ c.step \in {"convert", "save"} => b = t
    /\ c.replaced # Absent => b = c.replaced

\* Until another writes, the file is what was loaded, and then what was made of it.
QuietInv(c, t, b) ==
  c.kind = "migrate" /\ c.quiet =>
    /\ ~c.late
    /\ c.step \in {"backup", "copy", "convert", "save"} => t = c.cfg
    /\ c.step = "fill" => t = Torn /\ b = c.cfg
    /\ c.step = "ok" /\ c.replaced # Absent =>
         c.cfg \in Configs /\ t = [c.cfg EXCEPT !.process = c.rules] /\ b = c.cfg

Good(c, t, b, o) ==
  StepInv(c) /\ OptInv(c, o) /\ RunInv(c) /\ LateInv(c, t, b) /\ QuietInv(c, t, b)

FilesInv ==
  /\ toml \in FileStates /\ bak \in FileStates
  /\ toml \in Configs => OptedIn(toml) \subseteq opted
  /\ valid \subseteq {c \in Configs : Valid(c)}
  /\ opted \subseteq Executables
  /\ started \in 0..MaxCommands

ConfigInv ==
  /\ FilesInv
  /\ cmd \in [Procs -> Commands]
  /\ \A p \in Procs : Good(cmd[p], toml, bak, opted)
-----------------------------------------------------------------------------
(* The rules *)

LEMMA AbsentIsNoConfig == Absent \notin Configs /\ Torn \notin Configs /\ Absent # Torn
<1>1. DOMAIN Absent = {"none"} /\ DOMAIN Torn = {"none"}
  BY DEF Absent, Torn
<1>2. \A c \in Configs : "settings" \in DOMAIN c
  BY DEF Configs
<1>3. Absent.none # Torn.none
  BY DEF Absent, Torn
<1>. QED BY <1>1, <1>2, <1>3

LEMMA LeastExists ==
  ASSUME NEW T, T \subseteq Nat, T # {}
  PROVE  \E i \in T : \A j \in T : i <= j
<1>1. PICK i \in T : \A j \in T : <<j, i>> \notin OpToRel(<, Nat)
  BY NatLessThanWellFounded, WFMin
<1>2. \A j \in T : ~(j < i)
  BY <1>1 DEF OpToRel
<1>. QED BY <1>2

\* The rule that run takes is one of the configuration's, and it matches the program.
LEMMA RuleMatches ==
  ASSUME NEW c \in Configs, NEW pr, Matching(c, pr) # {}
  PROVE  /\ RuleFor(c, pr) \in ProcessRules
         /\ \E i \in DOMAIN c.process : /\ RuleFor(c, pr) = c.process[i]
                                        /\ Matches(pr, c.process[i].exe)
<1>. DEFINE M == Matching(c, pr)
            Least(i) == \A j \in M : i <= j
<1>1. M \subseteq DOMAIN c.process /\ \A i \in M : Matches(pr, c.process[i].exe)
  BY DEF Matching
<1>2. c.process \in Seq(ProcessRules)
  BY DEF Configs
<1>3. M \subseteq Nat /\ DOMAIN c.process \subseteq Nat
  BY <1>1, <1>2
<1>4. RuleFor(c, pr) = c.process[CHOOSE i \in M : Least(i)]
  BY DEF RuleFor
<1>5. \E i \in M : Least(i)
  BY <1>3, LeastExists
<1>. HIDE DEF M, Least
<1>6. (CHOOSE i \in M : Least(i)) \in M
  BY <1>5
<1>7. PICK k \in M : RuleFor(c, pr) = c.process[k]
  BY <1>4, <1>6
<1>8. k \in DOMAIN c.process /\ Matches(pr, c.process[k].exe)
  BY <1>1
<1>9. c.process[k] \in ProcessRules
  BY <1>2, <1>8
<1>. QED BY <1>7, <1>8, <1>9

LEMMA AllowedIsSecrets ==
  ASSUME NEW r \in ProcessRules
  PROVE  AllowedSecrets(r) \in SUBSET (Secrets \cup {Star})
BY DEF AllowedSecrets, ProcessRules

LEMMA WildGrantIsOptedIn ==
  ASSUME NEW c \in Configs, NEW pr, Matching(c, pr) # {},
         Star \in AllowedSecrets(RuleFor(c, pr))
  PROVE  \E e \in OptedIn(c) : Matches(pr, e)
<1>1. PICK i \in DOMAIN c.process : /\ RuleFor(c, pr) = c.process[i]
                                    /\ Matches(pr, c.process[i].exe)
  BY RuleMatches
<1>2. Wild(c.process[i]) /\ c.process[i].all
  BY <1>1, RuleMatches DEF AllowedSecrets, Wild
<1>3. c.process[i].exe \in OptedIn(c)
  BY <1>2 DEF OptedIn
<1>. QED BY <1>1, <1>3

LEMMA ValidGrantIsSome ==
  ASSUME NEW c \in Configs, NEW pr, Matching(c, pr) # {}, Valid(c)
  PROVE  AllowedSecrets(RuleFor(c, pr)) # {}
<1>1. PICK i \in DOMAIN c.process : RuleFor(c, pr) = c.process[i]
  BY RuleMatches
<1>2. ValidRule(c.process[i])
  BY DEF Valid
<1>. QED BY <1>1, <1>2 DEF ValidRule, AllowedSecrets
-----------------------------------------------------------------------------
(* Commands side by side *)

Disturbed(c) == [c EXCEPT !.quiet = FALSE, !.late = TRUE]

LEMMA DisturbedGood ==
  ASSUME NEW c, NEW t, NEW b, NEW o, NEW t2, NEW b2, NEW o2, Good(c, t, b, o), o \subseteq o2
  PROVE  Good(Disturbed(c), t2, b2, o2)
<1>1. c \in Commands
  BY DEF Good, StepInv
<1>2. /\ Disturbed(c) \in Commands /\ Disturbed(c).quiet = FALSE /\ Disturbed(c).late = TRUE
      /\ Disturbed(c).kind = c.kind /\ Disturbed(c).step = c.step /\ Disturbed(c).cfg = c.cfg
      /\ Disturbed(c).at = c.at /\ Disturbed(c).rules = c.rules
      /\ Disturbed(c).program = c.program /\ Disturbed(c).granted = c.granted
      /\ Disturbed(c).replaced = c.replaced
  BY <1>1 DEF Disturbed, Commands
<1>3. StepInv(Disturbed(c))
  BY <1>2 DEF Good, StepInv
<1>4. OptInv(Disturbed(c), o2) /\ RunInv(Disturbed(c))
  BY <1>2 DEF Good, OptInv, RunInv
<1>5. LateInv(Disturbed(c), t2, b2) /\ QuietInv(Disturbed(c), t2, b2)
  BY <1>2 DEF LateInv, QuietInv
<1>. QED BY <1>3, <1>4, <1>5 DEF Good

\* A user who opts in to more leaves every command as good as it was.
LEMMA MoreOptedIn ==
  ASSUME NEW c, NEW t, NEW b, NEW o, NEW o2, Good(c, t, b, o), o \subseteq o2
  PROVE  Good(c, t, b, o2)
BY DEF Good, OptInv

\* What a command at its start is: of a kind, at a step, with a configuration and a program.
Fresh(c, kind, step, f, d) ==
  /\ c \in Commands /\ c.kind = kind /\ c.step = step /\ c.cfg = f /\ c.program = d
  /\ c.at = 1 /\ c.rules = <<>> /\ c.granted = {} /\ c.replaced = Absent /\ c.quiet
  /\ ~c.late

LEMMA CommandIsFresh ==
  ASSUME NEW kind \in Kinds, NEW step \in Steps
  PROVE  Fresh(Command(kind, step), kind, step, Absent, Absent)
<1>1. Absent \in FileStates
  BY DEF FileStates
<1>2. Command(kind, step) \in Commands
  BY <1>1 DEF Command, Commands
<1>. QED BY <1>2 DEF Command, Fresh

LEMMA CommandOfIsFresh ==
  ASSUME NEW kind \in Kinds, NEW step \in Steps, NEW f \in FileStates
  PROVE  Fresh([Command(kind, step) EXCEPT !.cfg = f], kind, step, f, Absent)
BY CommandIsFresh DEF Fresh, Commands

LEMMA CommandForIsFresh ==
  ASSUME NEW kind \in Kinds, NEW step \in Steps, NEW d \in Executables
  PROVE  Fresh([Command(kind, step) EXCEPT !.program = d], kind, step, Absent, d)
BY CommandIsFresh DEF Fresh, Commands

\* A command at its start is good for any files.
LEMMA FreshGood ==
  ASSUME NEW kind \in Kinds, NEW step \in Ended \cup {"resolve", "save", "backup"},
         NEW f \in FileStates, NEW d \in Executables \cup {Absent}, NEW o,
         NEW t, NEW b,
         step = "resolve" => kind = "run" /\ d \in Executables,
         step = "save" => kind = "init" /\ f \in Configs,
         step = "backup" => kind = "migrate" /\ f \in Configs /\ f.allow # <<>> /\ t = f,
         kind = "run" => step # "ok",
         NEW c, Fresh(c, kind, step, f, d)
  PROVE  Good(c, t, b, o)
<1>2. /\ c \in Commands /\ c.kind = kind /\ c.step = step /\ c.cfg = f /\ c.program = d
      /\ c.at = 1 /\ c.rules = <<>> /\ c.granted = {} /\ c.replaced = Absent /\ c.quiet
      /\ ~c.late
  BY DEF Fresh
<1>3. StepInv(c)
  BY <1>2 DEF StepInv, Ended
<1>4. OptInv(c, o) /\ RunInv(c)
  BY <1>2 DEF OptInv, RunInv
<1>5. LateInv(c, t, b) /\ QuietInv(c, t, b)
  BY <1>2 DEF LateInv, QuietInv, Ended
<1>. QED BY <1>3, <1>4, <1>5 DEF Good

\* A step that writes a file disturbs every other command.
LEMMA WriteKeeps ==
  ASSUME ConfigInv, NEW p \in Procs, NEW c, Write(p, c), Good(c, toml', bak', opted'),
         opted \subseteq opted', FilesInv'
  PROVE  ConfigInv'
<1>1. cmd' = [q \in Procs |-> IF q = p THEN c ELSE Disturbed(cmd[q])]
  BY DEF Write, Disturbed
<1>2. ASSUME NEW q \in Procs
      PROVE  Good(cmd'[q], toml', bak', opted')
  <2>1. CASE q = p
    BY <1>1, <2>1
  <2>2. CASE q # p
    <3>1. Good(Disturbed(cmd[q]), toml', bak', opted')
      BY DisturbedGood DEF ConfigInv
    <3>. QED BY <1>1, <2>2, <3>1
  <2>. QED BY <2>1, <2>2
<1>3. cmd' \in [Procs -> Commands]
  <2>1. \A q \in Procs : cmd'[q] \in Commands
    BY <1>2 DEF Good, StepInv
  <2>. QED BY <1>1, <2>1
<1>. QED BY <1>2, <1>3 DEF ConfigInv

\* A step that writes none leaves them alone.
LEMMA OwnStepKeeps ==
  ASSUME ConfigInv, NEW p \in Procs, NEW c, cmd' = [cmd EXCEPT ![p] = c],
         Good(c, toml, bak, opted'), UNCHANGED <<toml, bak>>, opted \subseteq opted', FilesInv'
  PROVE  ConfigInv'
<1>1. ASSUME NEW q \in Procs
      PROVE  Good(cmd'[q], toml', bak', opted')
  <2>1. CASE q = p
    BY <2>1 DEF ConfigInv
  <2>2. CASE q # p
    <3>1. Good(cmd[q], toml, bak, opted')
      BY MoreOptedIn DEF ConfigInv
    <3>. QED BY <2>2, <3>1 DEF ConfigInv
  <2>. QED BY <2>1, <2>2
<1>2. cmd' \in [Procs -> Commands]
  BY DEF ConfigInv, Good, StepInv
<1>. QED BY <1>1, <1>2 DEF ConfigInv
-----------------------------------------------------------------------------
(* The commands' steps *)

LEMMA FilesSame ==
  ASSUME ConfigInv, UNCHANGED <<toml, bak, valid, opted>>, started' \in 0..MaxCommands
  PROVE  FilesInv'
BY DEF ConfigInv, FilesInv

LEMMA StartCounts ==
  ASSUME ConfigInv, NEW p \in Procs, NEW c, Start(p, c)
  PROVE  started' \in 0..MaxCommands /\ cmd' = [cmd EXCEPT ![p] = c]
BY ConfigAssumption DEF Start, ConfigInv, FilesInv

LEMMA OptedInTyped ==
  ASSUME NEW c \in Configs
  PROVE  OptedIn(c) \subseteq Executables
<1>1. c.process \in Seq(ProcessRules)
  BY DEF Configs
<1>2. \A i \in DOMAIN c.process : c.process[i] \in ProcessRules
  BY <1>1
<1>. QED BY <1>2 DEF OptedIn, ProcessRules

LEMMA UserEditsKeeps ==
  ASSUME ConfigInv, UserEdits
  PROVE  ConfigInv'
<1>1. cmd' = [q \in Procs |-> Disturbed(cmd[q])]
  BY DEF UserEdits, Disturbed
<1>2. opted \subseteq opted'
  BY DEF UserEdits
<1>3. \A q \in Procs : Good(cmd'[q], toml', bak', opted')
  BY <1>1, <1>2, DisturbedGood DEF ConfigInv
<1>4. cmd' \in [Procs -> Commands]
  <2>1. \A q \in Procs : cmd'[q] \in Commands
    BY <1>3 DEF Good, StepInv
  <2>. QED BY <1>1, <2>1
<1>5. FilesInv'
  <2>1. PICK c \in Drafts : toml' = c /\ opted' = opted \cup OptedIn(c)
    BY DEF UserEdits
  <2>2. c \in Configs
    BY ConfigAssumption
  <2>3. OptedIn(c) \subseteq Executables
    BY <2>2, OptedInTyped
  <2>4. started' \in 0..MaxCommands
    <3>1. started \in 0..MaxCommands /\ started < MaxCommands /\ started' = started + 1
      BY DEF UserEdits, ConfigInv, FilesInv
    <3>. QED BY <3>1, ConfigAssumption
  <2>. QED BY <2>1, <2>2, <2>3, <2>4 DEF UserEdits, ConfigInv, FilesInv, FileStates
<1>. QED BY <1>3, <1>4, <1>5 DEF ConfigInv

LEMMA StartInitKeeps ==
  ASSUME ConfigInv, NEW p \in Procs, StartInit(p)
  PROVE  ConfigInv'
<1>. DEFINE c == IF toml = Absent THEN [Command("init", "save") EXCEPT !.cfg = Default]
                 ELSE Command("init", "failed")
<1>1. Start(p, c) /\ UNCHANGED <<toml, bak, valid, opted>>
  BY DEF StartInit
<1>2. Default \in Configs /\ Default \in FileStates /\ Absent \in FileStates
  BY ConfigAssumption DEF FileStates
<1>3. Good(c, toml, bak, opted')
  <2>1. CASE toml = Absent
    <3>1. Fresh(c, "init", "save", Default, Absent)
      BY <1>2, <2>1, CommandOfIsFresh DEF Kinds, Steps
    <3>. HIDE DEF c
    <3>. QED BY <1>2, <3>1, FreshGood DEF Kinds, Ended
  <2>2. CASE toml # Absent
    <3>1. Fresh(c, "init", "failed", Absent, Absent)
      BY <2>2, CommandIsFresh DEF Kinds, Steps, Ended
    <3>. HIDE DEF c
    <3>. QED BY <1>2, <3>1, FreshGood DEF Kinds, Ended
  <2>. QED BY <2>1, <2>2
<1>. HIDE DEF c
<1>. QED BY <1>1, <1>3, StartCounts, FilesSame, OwnStepKeeps

LEMMA ValidateKeeps ==
  ASSUME ConfigInv, NEW p \in Procs, Validate(p)
  PROVE  ConfigInv'
<1>. DEFINE ok == toml \in Configs /\ Valid(toml)
            step == IF ok THEN "ok" ELSE "failed"
            c == [Command("validate", step) EXCEPT !.cfg = toml]
<1>1. Start(p, c) /\ UNCHANGED <<toml, bak, opted>> /\ valid' = IF ok THEN valid \cup {toml} ELSE valid
  BY DEF Validate
<1>2. toml \in FileStates /\ step \in Ended
  BY DEF ConfigInv, FilesInv, Ended
<1>3. Fresh(c, "validate", step, toml, Absent)
  BY <1>2, CommandOfIsFresh DEF Kinds, Steps
<1>4. valid' \subseteq {d \in Configs : Valid(d)}
  BY <1>1 DEF ConfigInv, FilesInv
<1>. HIDE DEF step, c
<1>5. Good(c, toml, bak, opted')
  BY <1>2, <1>3, FreshGood DEF Kinds, Ended
<1>6. FilesInv'
  BY <1>1, <1>4, StartCounts DEF ConfigInv, FilesInv
<1>. QED BY <1>1, <1>5, <1>6, StartCounts, OwnStepKeeps

LEMMA StartMigrateKeeps ==
  ASSUME ConfigInv, NEW p \in Procs, StartMigrate(p)
  PROVE  ConfigInv'
<1>. DEFINE gone == toml \in {Absent, Torn}
            step == IF gone THEN "failed" ELSE IF toml.allow = <<>> THEN "ok" ELSE "backup"
            f == IF gone THEN Absent ELSE toml
            c == IF gone THEN Command("migrate", "failed")
                 ELSE [Command("migrate", IF toml.allow = <<>> THEN "ok" ELSE "backup")
                         EXCEPT !.cfg = toml]
<1>1. Start(p, c) /\ UNCHANGED <<toml, bak, valid, opted>>
  BY DEF StartMigrate
<1>2. /\ f \in FileStates /\ step \in Ended \cup {"backup"}
      /\ step = "backup" => f \in Configs /\ f.allow # <<>> /\ f = toml
  BY DEF ConfigInv, FilesInv, FileStates, Ended
<1>3. Fresh(c, "migrate", step, f, Absent)
  <2>1. CASE gone
    BY <2>1, CommandIsFresh DEF Kinds, Steps, Ended
  <2>2. CASE ~gone
    <3>1. c = [Command("migrate", step) EXCEPT !.cfg = f]
      BY <2>2
    <3>. HIDE DEF c, step, f
    <3>. QED BY <1>2, <3>1, CommandOfIsFresh DEF Kinds, Steps
  <2>. QED BY <2>1, <2>2
<1>. HIDE DEF step, f, c
<1>4. Good(c, toml, bak, opted')
  BY <1>2, <1>3, FreshGood DEF Kinds, Ended
<1>. QED BY <1>1, <1>4, StartCounts, FilesSame, OwnStepKeeps

LEMMA StartRunKeeps ==
  ASSUME ConfigInv, NEW p \in Procs, StartRun(p)
  PROVE  ConfigInv'
<1>1. PICK d \in Executables :
        Start(p, IF toml \in {Absent, Torn} THEN Command("run", "failed")
                 ELSE [Command("run", "resolve") EXCEPT !.program = d])
  BY DEF StartRun
<1>2. UNCHANGED <<toml, bak, valid, opted>>
  BY DEF StartRun
<1>3. Absent \in FileStates
  BY DEF FileStates
<1>4. CASE Start(p, Command("run", "failed"))
  <2>1. Good(Command("run", "failed"), toml, bak, opted')
    <3>1. Fresh(Command("run", "failed"), "run", "failed", Absent, Absent)
      BY CommandIsFresh DEF Kinds, Steps, Ended
    <3>. QED BY <1>3, <3>1, FreshGood DEF Kinds, Ended
  <2>. QED BY <1>2, <1>4, <2>1, StartCounts, FilesSame, OwnStepKeeps
<1>5. CASE Start(p, [Command("run", "resolve") EXCEPT !.program = d])
  <2>. DEFINE c == [Command("run", "resolve") EXCEPT !.program = d]
  <2>1. Fresh(c, "run", "resolve", Absent, d)
    BY CommandForIsFresh DEF Kinds, Steps
  <2>2. Start(p, c)
    BY <1>5
  <2>. HIDE DEF c
  <2>3. Good(c, toml, bak, opted')
    BY <1>3, <2>1, FreshGood DEF Kinds, Ended
  <2>. QED BY <1>2, <2>2, <2>3, StartCounts, FilesSame, OwnStepKeeps
<1>. QED BY <1>1, <1>4, <1>5

\* What is known of the command p before its step.
LEMMA CommandIsGood ==
  ASSUME ConfigInv, NEW p \in Procs
  PROVE  /\ cmd[p] \in Commands /\ StepInv(cmd[p]) /\ OptInv(cmd[p], opted)
         /\ RunInv(cmd[p]) /\ LateInv(cmd[p], toml, bak) /\ QuietInv(cmd[p], toml, bak)
BY DEF ConfigInv, Good, StepInv

LEMMA BackupTruncateKeeps ==
  ASSUME ConfigInv, NEW p \in Procs, BackupTruncate(p)
  PROVE  ConfigInv'
<1>. DEFINE c == cmd[p]
            d == [c EXCEPT !.step = "copy", !.late = FALSE]
<1>1. /\ c.step = "backup" /\ bak' = Torn /\ UNCHANGED <<toml, valid, opted, started>>
      /\ Write(p, d)
  BY DEF BackupTruncate, At
<1>2. /\ c \in Commands /\ StepInv(c) /\ OptInv(c, opted) /\ RunInv(c)
      /\ LateInv(c, toml, bak) /\ QuietInv(c, toml, bak)
  BY CommandIsGood
<1>. HIDE DEF c
<1>3. /\ d \in Commands /\ d.kind = c.kind /\ d.step = "copy" /\ d.cfg = c.cfg /\ d.at = c.at
      /\ d.rules = c.rules /\ d.program = c.program /\ d.granted = c.granted
      /\ d.replaced = c.replaced /\ d.quiet = c.quiet /\ d.late = FALSE
  BY <1>2 DEF Commands, Steps
<1>. HIDE DEF d
<1>4. StepInv(d) /\ OptInv(d, opted') /\ RunInv(d)
  BY <1>1, <1>2, <1>3 DEF StepInv, OptInv, RunInv
<1>5. LateInv(d, toml', bak') /\ QuietInv(d, toml', bak')
  BY <1>1, <1>2, <1>3 DEF StepInv, LateInv, QuietInv
<1>6. FilesInv'
  BY <1>1 DEF ConfigInv, FilesInv, FileStates
<1>. QED BY <1>1, <1>4, <1>5, <1>6, WriteKeeps DEF Good

LEMMA BackupFillKeeps ==
  ASSUME ConfigInv, NEW p \in Procs, BackupFill(p)
  PROVE  ConfigInv'
<1>. DEFINE c == cmd[p]
            d == [c EXCEPT !.step = "convert"]
<1>1. /\ c.step = "copy" /\ UNCHANGED <<toml, valid, opted, started>> /\ Write(p, d)
      /\ bak' \in {toml, Torn} /\ (bak = Torn => bak' = toml)
  BY DEF BackupFill, At
<1>2. /\ c \in Commands /\ StepInv(c) /\ OptInv(c, opted) /\ RunInv(c)
      /\ LateInv(c, toml, bak) /\ QuietInv(c, toml, bak)
  BY CommandIsGood
<1>. HIDE DEF c
<1>3. /\ d \in Commands /\ d.kind = c.kind /\ d.step = "convert" /\ d.cfg = c.cfg /\ d.at = c.at
      /\ d.rules = c.rules /\ d.program = c.program /\ d.granted = c.granted
      /\ d.replaced = c.replaced /\ d.quiet = c.quiet /\ d.late = c.late
  BY <1>2 DEF Commands, Steps
<1>. HIDE DEF d
<1>4. c.cfg \in Configs /\ c.at = 1 /\ 1 \in 1..Len(c.cfg.allow)
  <2>1. c.cfg \in Configs /\ c.cfg.allow # <<>> /\ c.at = 1
    BY <1>1, <1>2 DEF StepInv
  <2>2. c.cfg.allow \in Seq(AllowRules)
    BY <2>1 DEF Configs
  <2>. QED BY <2>1, <2>2
<1>5. StepInv(d) /\ OptInv(d, opted') /\ RunInv(d)
  BY <1>1, <1>2, <1>3, <1>4 DEF StepInv, OptInv, RunInv
<1>6. LateInv(d, toml', bak') /\ QuietInv(d, toml', bak')
  BY <1>1, <1>2, <1>3 DEF StepInv, LateInv, QuietInv
<1>7. FilesInv'
  BY <1>1 DEF ConfigInv, FilesInv, FileStates
<1>. QED BY <1>1, <1>5, <1>6, <1>7, WriteKeeps DEF Good

\* One turn of migrate's loop: what it adds is opted in by the time it is added.
LEMMA ConvertKeeps ==
  ASSUME ConfigInv, NEW p \in Procs, NEW rules \in Seq(ProcessRules), Convert(p, rules),
         opted \subseteq opted', opted' \subseteq Executables,
         \A i \in DOMAIN rules : Wild(rules[i]) /\ rules[i].all => rules[i].exe \in opted'
  PROVE  ConfigInv'
<1>. DEFINE c == cmd[p]
            step == IF c.at < Len(c.cfg.allow) THEN c.step ELSE "save"
            d == [c EXCEPT !.at = c.at + 1, !.rules = c.rules \o rules, !.step = step]
<1>1. /\ c \in Commands /\ StepInv(c) /\ OptInv(c, opted) /\ RunInv(c)
      /\ LateInv(c, toml, bak) /\ QuietInv(c, toml, bak)
  BY CommandIsGood
<1>2. c.step = "convert" /\ UNCHANGED <<toml, bak, valid, started>> /\ cmd' = [cmd EXCEPT ![p] = d]
  BY DEF Convert, At, ConfigInv
<1>. HIDE DEF c
<1>3. /\ c.cfg \in Configs /\ c.at \in 1..Len(c.cfg.allow) /\ Len(c.cfg.allow) \in Nat
      /\ c.kind = "migrate" /\ c.cfg.allow # <<>> /\ c.replaced = Absent
  BY <1>1, <1>2 DEF StepInv, Configs
<1>4. c.at + 1 \in Nat /\ c.rules \in Seq(ProcessRules) /\ step \in {"convert", "save"}
  BY <1>1, <1>2, <1>3 DEF Commands
<1>5. step = "convert" => c.at + 1 \in 1..Len(c.cfg.allow)
  BY <1>3
<1>. HIDE DEF step
<1>6. c.rules \o rules \in Seq(ProcessRules)
  BY <1>4
<1>7. /\ d \in Commands /\ d.kind = c.kind /\ d.step = step /\ d.cfg = c.cfg /\ d.at = c.at + 1
      /\ d.rules = c.rules \o rules /\ d.program = c.program /\ d.granted = c.granted
      /\ d.replaced = c.replaced /\ d.quiet = c.quiet /\ d.late = c.late
  BY <1>1, <1>4, <1>6 DEF Commands, Steps
<1>. HIDE DEF d
<1>8. StepInv(d)
  BY <1>3, <1>4, <1>5, <1>7 DEF StepInv
<1>9. \A i \in DOMAIN d.rules : Wild(d.rules[i]) /\ d.rules[i].all => d.rules[i].exe \in opted'
  <2>1. ASSUME NEW i \in DOMAIN d.rules
        PROVE  \/ i \in DOMAIN c.rules /\ d.rules[i] = c.rules[i]
               \/ \E j \in DOMAIN rules : d.rules[i] = rules[j]
    <3>1. i \in 1..(Len(c.rules) + Len(rules)) /\ Len(c.rules) \in Nat /\ Len(rules) \in Nat
      BY <1>4, <1>7
    <3>2. CASE i <= Len(c.rules)
      BY <1>4, <1>7, <3>1, <3>2
    <3>3. CASE i > Len(c.rules)
      <4>1. i - Len(c.rules) \in DOMAIN rules
        BY <3>1, <3>3
      <4>2. d.rules[i] = rules[i - Len(c.rules)]
        BY <1>4, <1>7, <3>1, <3>3
      <4>. QED BY <4>1, <4>2
    <3>. QED BY <3>1, <3>2, <3>3
  <2>. QED BY <1>1, <2>1 DEF OptInv
<1>10. OptInv(d, opted')
  <2>1. Star \in d.granted => \E e \in opted' : Matches(d.program, e)
    BY <1>1, <1>7 DEF OptInv
  <2>. QED BY <1>9, <2>1 DEF OptInv
<1>11. RunInv(d)
  BY <1>3, <1>7 DEF RunInv
<1>12. LateInv(d, toml, bak) /\ QuietInv(d, toml, bak)
  BY <1>1, <1>2, <1>3, <1>4, <1>7 DEF LateInv, QuietInv
<1>13. FilesInv'
  BY <1>2 DEF ConfigInv, FilesInv
<1>. QED BY <1>2, <1>8, <1>10, <1>11, <1>12, <1>13, OwnStepKeeps DEF Good

LEMMA RuleIsTyped ==
  ASSUME ConfigInv, NEW p \in Procs, At(p, "convert")
  PROVE  ThisRule(p) \in AllowRules
<1>1. /\ cmd[p].cfg \in Configs /\ cmd[p].at \in 1..Len(cmd[p].cfg.allow)
  BY CommandIsGood DEF At, StepInv
<1>2. cmd[p].cfg.allow \in Seq(AllowRules)
  BY <1>1 DEF Configs
<1>. QED BY <1>1, <1>2 DEF ThisRule

LEMMA ConvertedIsTyped ==
  ASSUME NEW r \in AllowRules, NEW all \in BOOLEAN
  PROVE  /\ Converted(r, all) \in ProcessRules
         /\ Converted(r, all).all = all /\ Converted(r, all).exe = r.exe
         /\ Wild(Converted(r, all)) <=> Wild(r)
BY DEF Converted, AllowRules, ProcessRules, Wild

LEMMA OneRule ==
  ASSUME NEW r \in ProcessRules
  PROVE  <<r>> \in Seq(ProcessRules) /\ \A i \in DOMAIN <<r>> : <<r>>[i] = r
OBVIOUS

LEMMA LoopKeeps ==
  ASSUME ConfigInv, NEW p \in Procs, ConvertRule(p) \/ Confirm(p) \/ Decline(p)
  PROVE  ConfigInv'
<1>1. ThisRule(p) \in AllowRules
  BY RuleIsTyped DEF ConvertRule, Confirm, Decline
<1>2. opted \subseteq Executables /\ ThisRule(p).exe \in Executables
  BY <1>1 DEF ConfigInv, FilesInv, AllowRules
<1>3. CASE ConvertRule(p)
  <2>1. Converted(ThisRule(p), FALSE) \in ProcessRules /\ ~Wild(Converted(ThisRule(p), FALSE))
    BY <1>1, <1>3, ConvertedIsTyped DEF ConvertRule
  <2>2. Convert(p, <<Converted(ThisRule(p), FALSE)>>) /\ opted' = opted
    BY <1>3 DEF ConvertRule
  <2>. QED BY <1>2, <2>1, <2>2, OneRule, ConvertKeeps
<1>4. CASE Confirm(p)
  <2>1. /\ Converted(ThisRule(p), TRUE) \in ProcessRules
        /\ Converted(ThisRule(p), TRUE).exe = ThisRule(p).exe
    BY <1>1, ConvertedIsTyped
  <2>2. Convert(p, <<Converted(ThisRule(p), TRUE)>>) /\ opted' = opted \cup {ThisRule(p).exe}
    BY <1>4 DEF Confirm
  <2>. QED BY <1>2, <2>1, <2>2, OneRule, ConvertKeeps
<1>5. CASE Decline(p)
  <2>1. Convert(p, <<>>) /\ opted' = opted /\ <<>> \in Seq(ProcessRules) /\ DOMAIN <<>> = {}
    BY <1>5 DEF Decline
  <2>. QED BY <1>2, <2>1, ConvertKeeps
<1>. QED BY <1>3, <1>4, <1>5

LEMMA SaveTruncateKeeps ==
  ASSUME ConfigInv, NEW p \in Procs, SaveTruncate(p)
  PROVE  ConfigInv'
<1>. DEFINE c == cmd[p]
            d == [c EXCEPT !.step = "fill", !.replaced = toml]
<1>1. /\ c.step = "save" /\ toml' = Torn /\ UNCHANGED <<bak, valid, opted, started>>
      /\ Write(p, d)
  BY DEF SaveTruncate, At
<1>2. /\ c \in Commands /\ StepInv(c) /\ OptInv(c, opted) /\ RunInv(c)
      /\ LateInv(c, toml, bak) /\ QuietInv(c, toml, bak)
  BY CommandIsGood
<1>3. toml \in FileStates
  BY DEF ConfigInv, FilesInv
<1>. HIDE DEF c
<1>4. /\ d \in Commands /\ d.kind = c.kind /\ d.step = "fill" /\ d.cfg = c.cfg /\ d.at = c.at
      /\ d.rules = c.rules /\ d.program = c.program /\ d.granted = c.granted
      /\ d.replaced = toml /\ d.quiet = c.quiet /\ d.late = c.late
  BY <1>2, <1>3 DEF Commands, Steps
<1>. HIDE DEF d
<1>5. StepInv(d) /\ OptInv(d, opted') /\ RunInv(d)
  BY <1>1, <1>2, <1>4 DEF StepInv, OptInv, RunInv
<1>6. LateInv(d, toml', bak') /\ QuietInv(d, toml', bak')
  BY <1>1, <1>2, <1>4 DEF LateInv, QuietInv
<1>7. FilesInv'
  BY <1>1, AbsentIsNoConfig DEF ConfigInv, FilesInv, FileStates
<1>. QED BY <1>1, <1>5, <1>6, <1>7, WriteKeeps DEF Good

LEMMA NextConfigIs ==
  ASSUME NEW c \in Commands, c.cfg \in Configs, c.kind \in {"init", "migrate"}
  PROVE  /\ NextConfig(c) \in Configs
         /\ c.kind = "init" => NextConfig(c) = c.cfg
         /\ c.kind = "migrate" => /\ NextConfig(c) = [c.cfg EXCEPT !.process = c.rules]
                                  /\ NextConfig(c).process = c.rules
<1>1. c.rules \in Seq(ProcessRules)
  BY DEF Commands
<1>. QED BY <1>1 DEF NextConfig, Configs

LEMMA SaveFillKeeps ==
  ASSUME ConfigInv, NEW p \in Procs, SaveFill(p)
  PROVE  ConfigInv'
<1>. DEFINE c == cmd[p]
            d == [c EXCEPT !.step = "ok"]
<1>1. /\ c.step = "fill" /\ UNCHANGED <<bak, valid, started>> /\ Write(p, d)
      /\ toml' \in {NextConfig(c), Torn} /\ (toml = Torn => toml' = NextConfig(c))
      /\ opted' = opted \cup IF c.kind = "init" THEN OptedIn(c.cfg) ELSE {}
  BY DEF SaveFill, At
<1>2. /\ c \in Commands /\ StepInv(c) /\ OptInv(c, opted) /\ RunInv(c)
      /\ LateInv(c, toml, bak) /\ QuietInv(c, toml, bak)
  BY CommandIsGood
<1>. HIDE DEF c
<1>3. /\ d \in Commands /\ d.kind = c.kind /\ d.step = "ok" /\ d.cfg = c.cfg /\ d.at = c.at
      /\ d.rules = c.rules /\ d.program = c.program /\ d.granted = c.granted
      /\ d.replaced = c.replaced /\ d.quiet = c.quiet /\ d.late = c.late
  BY <1>2 DEF Commands, Steps, Ended
<1>. HIDE DEF d
<1>4. c.cfg \in Configs /\ c.kind \in {"init", "migrate"}
  BY <1>1, <1>2 DEF StepInv
<1>5. StepInv(d) /\ OptInv(d, opted') /\ RunInv(d)
  BY <1>1, <1>2, <1>3, <1>4 DEF StepInv, OptInv, RunInv
<1>6. LateInv(d, toml', bak') /\ QuietInv(d, toml', bak')
  BY <1>1, <1>2, <1>3, <1>4, NextConfigIs DEF LateInv, QuietInv
<1>7. FilesInv'
  <2>1. OptedIn(NextConfig(c)) \subseteq opted'
    <3>1. CASE c.kind = "init"
      BY <1>1, <1>2, <1>4, <3>1, NextConfigIs
    <3>2. CASE c.kind = "migrate"
      BY <1>1, <1>2, <1>4, <3>2, NextConfigIs DEF OptedIn, OptInv
    <3>. QED BY <1>4, <3>1, <3>2
  <2>2. NextConfig(c) \in Configs /\ OptedIn(c.cfg) \subseteq Executables
    BY <1>2, <1>4, NextConfigIs, OptedInTyped
  <2>. QED BY <1>1, <2>1, <2>2, AbsentIsNoConfig DEF ConfigInv, FilesInv, FileStates
<1>8. opted \subseteq opted'
  BY <1>1
<1>. QED BY <1>1, <1>5, <1>6, <1>7, <1>8, WriteKeeps DEF Good

LEMMA FailKeeps ==
  ASSUME ConfigInv, NEW p \in Procs, NEW d, d = [cmd[p] EXCEPT !.step = "failed"],
         cmd' = [cmd EXCEPT ![p] = d], UNCHANGED <<toml, bak, valid, opted, started>>
  PROVE  ConfigInv'
<1>. DEFINE c == cmd[p]
<1>1. /\ c \in Commands /\ StepInv(c) /\ OptInv(c, opted) /\ RunInv(c)
      /\ LateInv(c, toml, bak) /\ QuietInv(c, toml, bak)
  BY CommandIsGood
<1>2. d = [c EXCEPT !.step = "failed"]
  OBVIOUS
<1>. HIDE DEF c
<1>3. /\ d \in Commands /\ d.kind = c.kind /\ d.step = "failed" /\ d.cfg = c.cfg /\ d.at = c.at
      /\ d.rules = c.rules /\ d.program = c.program /\ d.granted = c.granted
      /\ d.replaced = c.replaced /\ d.quiet = c.quiet /\ d.late = c.late
  BY <1>1, <1>2 DEF Commands, Steps, Ended
<1>4. StepInv(d) /\ OptInv(d, opted') /\ RunInv(d)
  BY <1>1, <1>3 DEF StepInv, OptInv, RunInv
<1>5. LateInv(d, toml, bak) /\ QuietInv(d, toml, bak)
  BY <1>1, <1>3 DEF LateInv, QuietInv
<1>6. FilesInv'
  BY DEF ConfigInv, FilesInv
<1>. QED BY <1>4, <1>5, <1>6, OwnStepKeeps DEF Good

LEMMA ResolveKeeps ==
  ASSUME ConfigInv, NEW p \in Procs, Resolve(p)
  PROVE  ConfigInv'
<1>. DEFINE c == cmd[p]
            g == AllowedSecrets(RuleFor(toml, c.program))
            d == [c EXCEPT !.step = "ok", !.cfg = toml, !.granted = g]
<1>1. CASE toml \in {Absent, Torn} \/ Matching(toml, c.program) = {}
  <2>1. cmd' = [cmd EXCEPT ![p] = [cmd[p] EXCEPT !.step = "failed"]]
    BY <1>1 DEF Resolve
  <2>2. UNCHANGED <<toml, bak, valid, opted, started>>
    BY DEF Resolve
  <2>. QED BY <2>1, <2>2, FailKeeps
<1>2. CASE ~(toml \in {Absent, Torn} \/ Matching(toml, c.program) = {})
  <2>1. cmd' = [cmd EXCEPT ![p] = d] /\ UNCHANGED <<toml, bak, valid, opted, started>>
    BY <1>2 DEF Resolve
  <2>2. /\ c \in Commands /\ StepInv(c) /\ OptInv(c, opted) /\ c.step = "resolve"
    BY CommandIsGood DEF Resolve, At
  <2>3. toml \in Configs /\ toml \in FileStates /\ Matching(toml, c.program) # {}
    BY <1>2 DEF ConfigInv, FilesInv, FileStates
  <2>4. g \in SUBSET (Secrets \cup {Star})
    BY <2>3, RuleMatches, AllowedIsSecrets
  <2>5. Star \in g => \E e \in opted : Matches(c.program, e)
    BY <2>3, WildGrantIsOptedIn DEF ConfigInv, FilesInv
  <2>6. g = AllowedSecrets(RuleFor(toml, c.program)) /\ c.kind = "run"
    BY <2>2 DEF StepInv
  <2>. HIDE DEF c, g
  <2>7. /\ d \in Commands /\ d.kind = "run" /\ d.step = "ok" /\ d.cfg = toml
        /\ d.rules = c.rules /\ d.program = c.program /\ d.granted = g
    BY <2>2, <2>3, <2>4, <2>6 DEF Commands, Steps, Ended
  <2>. HIDE DEF d
  <2>8. StepInv(d)
    BY <2>7 DEF StepInv
  <2>9. OptInv(d, opted')
    BY <2>1, <2>2, <2>5, <2>7 DEF OptInv
  <2>10. RunInv(d)
    BY <2>3, <2>6, <2>7 DEF RunInv
  <2>11. LateInv(d, toml, bak) /\ QuietInv(d, toml, bak)
    BY <2>7 DEF LateInv, QuietInv
  <2>12. FilesInv'
    BY <2>1 DEF ConfigInv, FilesInv
  <2>. QED BY <2>1, <2>8, <2>9, <2>10, <2>11, <2>12, OwnStepKeeps DEF Good
<1>. QED BY <1>1, <1>2
-----------------------------------------------------------------------------
(* The theorems *)

LEMMA InitInv == Init => ConfigInv
<1>. SUFFICES ASSUME Init PROVE ConfigInv
  OBVIOUS
<1>1. toml \in {Absent} \cup Configs /\ bak = Absent /\ valid = {} /\ started = 0
  BY ConfigAssumption DEF Init
<1>2. opted = IF toml = Absent THEN {} ELSE OptedIn(toml)
  BY DEF Init
<1>3. FilesInv
  BY <1>1, <1>2, AbsentIsNoConfig, OptedInTyped, ConfigAssumption DEF FilesInv, FileStates
<1>4. Fresh(Command("none", "ok"), "none", "ok", Absent, Absent)
  BY CommandIsFresh DEF Kinds, Steps, Ended
<1>5. Absent \in FileStates
  BY DEF FileStates
<1>6. Good(Command("none", "ok"), toml, bak, opted)
  BY <1>4, <1>5, FreshGood DEF Kinds, Ended
<1>7. cmd = [p \in Procs |-> Command("none", "ok")] /\ Command("none", "ok") \in Commands
  BY <1>6 DEF Init, Good, StepInv
<1>. QED BY <1>3, <1>6, <1>7 DEF ConfigInv

LEMMA StepInvariant == ConfigInv /\ [Next]_vars => ConfigInv'
<1>. SUFFICES ASSUME ConfigInv, [Next]_vars PROVE ConfigInv'
  OBVIOUS
<1>1. ASSUME NEW p \in Procs, Fail(p)
      PROVE  ConfigInv'
  <2>1. /\ cmd' = [cmd EXCEPT ![p] = [cmd[p] EXCEPT !.step = "failed"]]
        /\ UNCHANGED <<toml, bak, valid, opted, started>>
    BY <1>1 DEF Fail
  <2>. QED BY <2>1, FailKeeps
<1>2. CASE UserEdits
  BY <1>2, UserEditsKeeps
<1>3. ASSUME NEW p \in Procs, StartInit(p) \/ Validate(p) \/ StartMigrate(p) \/ StartRun(p)
      PROVE  ConfigInv'
  BY <1>3, StartInitKeeps, ValidateKeeps, StartMigrateKeeps, StartRunKeeps
<1>4. ASSUME NEW p \in Procs, \/ BackupTruncate(p) \/ BackupFill(p) \/ ConvertRule(p)
                              \/ Confirm(p) \/ Decline(p)
      PROVE  ConfigInv'
  BY <1>4, BackupTruncateKeeps, BackupFillKeeps, LoopKeeps
<1>5. ASSUME NEW p \in Procs, SaveTruncate(p) \/ SaveFill(p) \/ Resolve(p)
      PROVE  ConfigInv'
  BY <1>5, SaveTruncateKeeps, SaveFillKeeps, ResolveKeeps
<1>6. CASE UNCHANGED vars
  BY <1>6 DEF vars, ConfigInv, FilesInv
<1>. QED BY <1>1, <1>2, <1>3, <1>4, <1>5, <1>6 DEF Next

\* The inductive invariant: what a command holds agrees with the two files until
\* another writes one of them.
THEOREM ConfigInvariant == Spec => []ConfigInv
BY InitInv, StepInvariant, PTL DEF Spec

\* Every variable has its type; what a migration has left to convert is there.
THEOREM ConfigTypeCorrect == Spec => []ConfigTypeOK
<1>1. ConfigInv => ConfigTypeOK
  <2>. SUFFICES ASSUME ConfigInv PROVE ConfigTypeOK
    OBVIOUS
  <2>1. ASSUME NEW p \in Procs
        PROVE  /\ cmd[p].step \in Ended \cup {"backup", "copy", "convert", "save", "fill", "resolve"}
               /\ IsFile(cmd[p].cfg) /\ IsFile(cmd[p].replaced)
               /\ cmd[p].rules \in Seq(ProcessRules)
               /\ cmd[p].granted \subseteq Secrets \cup {Star}
    BY CommandIsGood DEF Commands, Steps, IsFile, FileStates
  <2>2. ASSUME NEW p \in Procs, At(p, "convert")
        PROVE  cmd[p].at \in DOMAIN cmd[p].cfg.allow
    <3>1. cmd[p].cfg \in Configs /\ cmd[p].at \in 1..Len(cmd[p].cfg.allow)
      BY <2>2, CommandIsGood DEF StepInv, At
    <3>2. cmd[p].cfg.allow \in Seq(AllowRules)
      BY <3>1 DEF Configs
    <3>. QED BY <3>1, <3>2
  <2>3. IsFile(toml) /\ IsFile(bak) /\ valid \subseteq Configs /\ opted \subseteq Executables
        /\ started \in 0..MaxCommands
    BY DEF ConfigInv, FilesInv, FileStates, IsFile
  <2>. QED BY <2>1, <2>2, <2>3 DEF ConfigTypeOK
<1>. QED BY <1>1, ConfigInvariant, PTL

\* However users run the commands and edit side by side, what a migration replaces is in
\* its backup, unless another has written since the backup was begun.
THEOREM BackupIsWhatWasReplaced == Spec => []BackupHoldsWhatIsReplaced
<1>1. ConfigInv => BackupHoldsWhatIsReplaced
  BY CommandIsGood DEF BackupHoldsWhatIsReplaced, LateInv
<1>. QED BY <1>1, ConfigInvariant, PTL

\* A migration that nobody disturbs changes nothing but the process rules.
THEOREM OnlyProcessRulesChange == Spec => []MigrationKeepsTheRest
<1>1. ConfigInv => MigrationKeepsTheRest
  <2>. SUFFICES ASSUME ConfigInv, NEW p \in Procs, cmd[p].kind = "migrate", At(p, "ok"),
                       cmd[p].quiet, cmd[p].replaced # Absent
                PROVE  toml.allow = bak.allow /\ toml.settings = bak.settings
    BY DEF MigrationKeepsTheRest
  <2>1. /\ cmd[p].cfg \in Configs /\ toml = [cmd[p].cfg EXCEPT !.process = cmd[p].rules]
        /\ bak = cmd[p].cfg
    BY CommandIsGood DEF QuietInv, At
  <2>. QED BY <2>1 DEF Configs
<1>. QED BY <1>1, ConfigInvariant, PTL

\* A wildcard is granted to nobody that no user has opted in, whatever is migrated,
\* declined, edited or torn in between.
THEOREM OnlyOptedInAreWild == Spec => []WildcardIsOptedIn
<1>1. ConfigInv => WildcardIsOptedIn
  BY CommandIsGood DEF WildcardIsOptedIn, OptInv
<1>. QED BY <1>1, ConfigInvariant, PTL

\* A run under a configuration that validate found valid grants its program something.
THEOREM ValidatedGrants == Spec => []ValidatedRulesGrant
<1>1. ConfigInv => ValidatedRulesGrant
  <2>. SUFFICES ASSUME ConfigInv, NEW p \in Procs, cmd[p].kind = "run", At(p, "ok"),
                       cmd[p].cfg \in valid
                PROVE  cmd[p].granted # {}
    BY DEF ValidatedRulesGrant
  <2>1. /\ cmd[p].cfg \in Configs /\ Matching(cmd[p].cfg, cmd[p].program) # {}
        /\ cmd[p].granted = AllowedSecrets(RuleFor(cmd[p].cfg, cmd[p].program))
    BY CommandIsGood DEF RunInv, At
  <2>2. Valid(cmd[p].cfg)
    BY DEF ConfigInv, FilesInv
  <2>. QED BY <2>1, <2>2, ValidGrantIsSome
<1>. QED BY <1>1, ConfigInvariant, PTL
=============================================================================
