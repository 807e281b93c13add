--------------------------- MODULE TransferProofs ---------------------------
(***************************************************************************)
(* Proofs about Transfer, for any values, texts, users and number of       *)
(* commands.                                                               *)
(***************************************************************************)
EXTENDS Transfer, FiniteSetTheorems, WellFoundedInduction, TLAPS

Keys == [kind : {"unlock"}, name : Names, pw : Passwords]
EditCalls == [kind : {"edit"}, edit : Edits]
Requests == {Idle} \cup Keys \cup EditCalls

Vaults == [kind : {"vault"}, name : Names, pw : Passwords, secrets : SecretMaps]

Kinds == {"none", "add", "addAll", "import", "export", "remove"}
Steps == Calls \cup Ended \cup {"read", "audit", "write", "fill"}

Commands ==
  [kind : Kinds, step : Steps, at : Nat, list : Seq(Entries), names : Seq(Secrets),
   edit : Edits \cup {<<>>}, form : {"none", "encrypt", "mvx"}, ext : Extensions,
   key : Keys \cup {Idle}, origin : Files, stored : BOOLEAN, noted : SUBSET Secrets,
   quiet : BOOLEAN]

\* A call belongs to the step that made it, an edit is the command's own.
CallInv(c, r) ==
  /\ r \in Requests
  /\ c.step \notin Calls => r = Idle
  /\ r.kind = "edit" => c.step = "set" /\ ~c.stored /\ r.edit = c.edit

\* What each step of a command has in hand.
StepInv(c) ==
  /\ c \in Commands
  /\ c.step \notin Ended => c.key \in Keys
  /\ c.step = "read" => c.kind \in {"import", "addAll"} /\ ~c.stored
  /\ c.step = "set" => /\ c.kind \in {"add", "addAll", "import", "remove"} /\ c.edit \in Edits
                       /\ c.kind # "remove" => c.list # <<>>
  /\ c.step \in {"verify", "audit"} => c.stored /\ c.at \in 1..Len(c.list)
  /\ c.step \in {"verify", "mismatch"} => c.kind = "import"
  /\ c.step = "audit" => c.kind \in {"add", "addAll", "import"}
  /\ c.step \in {"list", "fetch", "write", "fill"} => c.kind = "export"
  /\ c.step = "list" => c.list = <<>> /\ c.at = 1
  /\ c.step = "fetch" => c.at \in 1..Len(c.names)
  /\ c.kind = "export" => c.form \in {"encrypt", "mvx"} /\ ~c.stored

\* The names of the first n entries.
NamesUpto(l, n) == {l[i].name : i \in 1..n}

NotedInv(c) ==
  /\ c.step \notin {"audit", "ok"} => c.noted = {}
  /\ c.noted # {} => c.stored
  /\ c.step = "audit" => c.noted = NamesUpto(c.list, c.at - 1)
  /\ c.step = "ok" /\ c.kind \in {"add", "addAll", "import"} =>
       c.noted = NamesUpto(c.list, Len(c.list))

\* The first n entries are as the secrets m say.
AgreeUpto(l, n, m) == \A i \in 1..n : m[l[i].name] = l[i].value

\* Until another edits, the vault v has what was stored, and what has been verified.
ImportInv(c, v) ==
  /\ c.kind = "import" /\ c.step \notin {"read", "ok"} => c.edit = AsEdit(c.list)
  /\ c.stored /\ c.quiet => \A s \in DOMAIN c.edit : v.secrets[s] = c.edit[s]
  /\ c.step = "mismatch" /\ c.quiet =>
       \E i, j \in DOMAIN c.list :
         c.list[i].name = c.list[j].name /\ c.list[i].value # c.list[j].value
  /\ c.kind = "import" /\ c.quiet =>
       /\ c.step = "verify" => AgreeUpto(c.list, c.at - 1, v.secrets)
       /\ c.step \in {"audit", "ok"} => AgreeUpto(c.list, Len(c.list), v.secrets)
  /\ c.kind = "import" /\ c.ext = ".mvx" /\ c.origin.form = "mvx" => c.list = c.origin.entries
  /\ c.kind = "import" /\ c.ext = ".env.mvenc" /\ c.origin.form = "encrypt" =>
       c.list = Lines(c.origin.entries)

\* Until another edits, what an export has fetched is in the vault v, and what it has not
\* is still to be fetched.
ExportInv(c, v) ==
  c.kind = "export" /\ c.quiet =>
    /\ c.step \in {"fetch", "write", "fill", "ok"} => /\ v \in Vaults
                                                     /\ AgreeUpto(c.list, Len(c.list), v.secrets)
    /\ c.step = "fetch" => \A s \in Secrets : v.secrets[s] # NoValue =>
         \/ \E i \in DOMAIN c.list : c.list[i].name = s
         \/ \E k \in c.at..Len(c.names) : c.names[k] = s
    /\ c.step \in {"write", "fill", "ok"} => \A s \in Secrets : v.secrets[s] # NoValue =>
         \E i \in DOMAIN c.list : c.list[i].name = s

Good(c, r, v) ==
  CallInv(c, r) /\ StepInv(c) /\ NotedInv(c) /\ ImportInv(c, v) /\ ExportInv(c, v)

StoreInv ==
  /\ vault \in Vaults \cup {Store!NoVault}
  /\ files \in [Extensions -> Files]
  /\ started \in 0..MaxCommands

\* Only a command that is at a call holds an unlocked vault.
AccessInv == \A p \in access : p \in Procs /\ cmd[p].step \in Calls /\ vault \in Vaults

TransferInv ==
  /\ StoreInv /\ AccessInv
  /\ cmd \in [Procs -> Commands] /\ request \in [Procs -> Requests]
  /\ \A p \in Procs : Good(cmd[p], request[p], vault)
-----------------------------------------------------------------------------
(* Sequences and maps *)

LEMMA LeastExists ==
  ASSUME NEW T, T \subseteq Nat, T # {}
  PROVE  \E i \in T : \A j \in T : i <= j
<1>1. PICK i \in T : \A j \in T : <<j, i>> \notin OpToRel(<, Nat)
  BY NatLessThanWellFounded, WFMin
<1>2. \A j \in T : ~(j < i)
  BY <1>1 DEF OpToRel
<1>. QED BY <1>2

LEMMA MaxIsThere ==
  ASSUME NEW n \in Nat, NEW T, T \subseteq 1..n, T # {}
  PROVE  Max(T) \in T
<1>. DEFINE U == {k \in Nat : n - k \in T}
<1>1. U # {}
  <2>1. PICK i \in T : TRUE
    OBVIOUS
  <2>2. i \in 1..n
    BY <2>1
  <2>3. n - i \in Nat /\ n - (n - i) = i
    BY <2>2
  <2>4. n - i \in U
    BY <2>1, <2>3
  <2>. QED BY <2>4
<1>2. PICK k \in U : \A j \in U : k <= j
  BY <1>1, LeastExists
<1>3. n - k \in T /\ \A i \in T : n - k >= i
  <2>1. ASSUME NEW i \in T
        PROVE  n - k >= i
    <3>1. i \in 1..n /\ n - i \in Nat /\ n - (n - i) = i /\ k \in Nat
      OBVIOUS
    <3>2. n - i \in U
      BY <3>1
    <3>3. k <= n - i
      BY <1>2, <3>2
    <3>. QED BY <3>1, <3>3
  <2>. QED BY <2>1
<1>4. \E x \in T : \A y \in T : x >= y
  BY <1>3
<1>. QED BY <1>4 DEF Max

\* A sequence of sequences, joined: the recursion of FlattenSeq, step by step.
Joins(f, seqs) ==
  f = [i \in 1..Len(seqs) |-> IF i = 1 THEN seqs[i] ELSE f[i - 1] \o seqs[i]]

LEMMA JoinsTyped ==
  ASSUME NEW E, NEW seqs \in Seq(Seq(E)), NEW f, Joins(f, seqs)
  PROVE  \A i \in 1..Len(seqs) : f[i] \in Seq(E)
<1>. DEFINE T == {i \in 1..Len(seqs) : f[i] \notin Seq(E)}
<1>1. Len(seqs) \in Nat /\ T \subseteq Nat /\ \A i \in 1..Len(seqs) : seqs[i] \in Seq(E)
  OBVIOUS
<1>2. SUFFICES ASSUME T # {} PROVE FALSE
  OBVIOUS
<1>3. PICK i \in T : \A j \in T : i <= j
  BY <1>1, <1>2, LeastExists
<1>4. f[i] = IF i = 1 THEN seqs[i] ELSE f[i - 1] \o seqs[i]
  BY DEF Joins
<1>5. CASE i = 1
  BY <1>1, <1>4, <1>5
<1>6. CASE i # 1
  <2>1. i - 1 \in 1..Len(seqs) /\ i - 1 < i
    BY <1>1, <1>6
  <2>2. f[i - 1] \in Seq(E)
    BY <1>1, <1>3, <2>1
  <2>3. f[i - 1] \o seqs[i] \in Seq(E)
    BY <1>1, <2>2
  <2>4. f[i] \in Seq(E)
    BY <1>4, <1>6, <2>3
  <2>. QED BY <2>4
<1>. QED BY <1>5, <1>6

\* The joins of a prefix go on to those of the next one.
LEMMA JoinsExist ==
  ASSUME NEW E, NEW seqs \in Seq(Seq(E))
  PROVE  \E f : Joins(f, seqs)
<1>. DEFINE Upto(f, n) == f = [i \in 1..n |-> IF i = 1 THEN seqs[i] ELSE f[i - 1] \o seqs[i]]
            T == {n \in Nat : ~\E f : Upto(f, n)}
<1>1. T = {}
  <2>1. SUFFICES ASSUME T # {} PROVE FALSE
    OBVIOUS
  <2>2. PICK n \in T : \A m \in T : n <= m
    <3>. HIDE DEF T
    <3>1. T \subseteq Nat
      BY DEF T
    <3>. QED BY <2>1, <3>1, LeastExists
  <2>3. CASE n = 0
    <3>1. Upto([i \in 1..0 |-> 0], 0)
      OBVIOUS
    <3>. QED BY <2>3, <3>1
  <2>4. CASE n # 0
    <3>1. n - 1 \in Nat /\ n - 1 < n
      BY <2>4
    <3>0. n - 1 \notin T
      <4>. HIDE DEF T
      <4>1. T \subseteq Nat
        BY DEF T
      <4>. QED BY <2>2, <3>1, <4>1
    <3>2. PICK g : Upto(g, n - 1)
      <4>. HIDE DEF Upto
      <4>. QED BY <3>0, <3>1
    <3>. DEFINE f == [i \in 1..n |-> IF i = n THEN (IF n = 1 THEN seqs[n] ELSE g[n - 1] \o seqs[n])
                                              ELSE g[i]]
    <3>3. \A i \in 1..(n - 1) : g[i] = IF i = 1 THEN seqs[i] ELSE g[i - 1] \o seqs[i]
      BY <3>2
    <3>4. ASSUME NEW i \in 1..n
          PROVE  f[i] = IF i = 1 THEN seqs[i] ELSE f[i - 1] \o seqs[i]
      <4>1. CASE i = n
        <5>1. CASE n = 1
          BY <4>1, <5>1
        <5>2. CASE n # 1
          <6>1. n - 1 \in 1..n /\ n - 1 # n
            BY <3>1, <5>2
          <6>2. f[n - 1] = g[n - 1]
            BY <6>1
          <6>. QED BY <4>1, <5>2, <6>2
        <5>. QED BY <5>1, <5>2
      <4>2. CASE i # n
        <5>1. i \in 1..(n - 1) /\ f[i] = g[i]
          BY <4>2
        <5>2. CASE i = 1
          BY <3>3, <5>1, <5>2
        <5>3. CASE i # 1
          <6>1. i - 1 \in 1..n /\ i - 1 # n
            BY <5>1, <5>3
          <6>2. f[i - 1] = g[i - 1]
            BY <6>1
          <6>. QED BY <3>3, <5>1, <5>3, <6>2
        <5>. QED BY <5>2, <5>3
      <4>. QED BY <4>1, <4>2
    <3>5. f = [i \in 1..n |-> f[i]]
      OBVIOUS
    <3>. HIDE DEF f
    <3>6. Upto(f, n)
      BY <3>4, <3>5
    <3>. QED BY <3>6
  <2>. QED BY <2>3, <2>4
<1>2. Len(seqs) \in Nat
  OBVIOUS
<1>3. \E f : Upto(f, Len(seqs))
  BY <1>1, <1>2
<1>. QED BY <1>3 DEF Joins

LEMMA FlattenTyped ==
  ASSUME NEW E, NEW seqs \in Seq(Seq(E))
  PROVE  FlattenSeq(seqs) \in Seq(E)
<1>1. CASE Len(seqs) = 0
  <2>1. seqs = <<>>
    BY <1>1
  <2>. QED BY <1>1, <2>1 DEF FlattenSeq
<1>2. CASE Len(seqs) # 0
  <2>. DEFINE f == CHOOSE g : Joins(g, seqs)
  <2>1. Joins(f, seqs)
    BY JoinsExist
  <2>2. FlattenSeq(seqs) = f[Len(seqs)]
    BY <1>2 DEF FlattenSeq, Joins
  <2>. HIDE DEF f
  <2>3. Len(seqs) \in 1..Len(seqs)
    BY <1>2
  <2>. QED BY <2>1, <2>2, <2>3, JoinsTyped
<1>. QED BY <1>1, <1>2

\* The names of a finite set, in any order: all of them, and no other.
LEMMA SetToSeqIsTheSet ==
  ASSUME NEW S, IsFiniteSet(S)
  PROVE  /\ SetToSeq(S) \in Seq(S)
         /\ \A s \in S : \E k \in 1..Len(SetToSeq(S)) : SetToSeq(S)[k] = s
<1>. DEFINE n == Cardinality(S)
            f == SetToSeq(S)
<1>1. n \in Nat /\ ExistsBijection(1..n, S)
  BY FS_CardinalityType
<1>2. PICK g : g \in Bijection(1..n, S)
  BY <1>1 DEF ExistsBijection
<1>3. g \in [1..n -> S] /\ IsInjective(g)
  BY <1>2 DEF Bijection, Injection, IsInjective
<1>4. f \in [1..n -> S] /\ IsInjective(f)
  BY <1>3 DEF SetToSeq
<1>5. f \in Injection(1..n, S)
  BY <1>4 DEF Injection, IsInjective
<1>6. IsFiniteSet(1..n) /\ Cardinality(1..n) = n
  BY <1>1, FS_Interval
<1>7. f \in Surjection(1..n, S)
  BY <1>5, <1>6, FS_Injection
<1>8. \A s \in S : \E k \in 1..n : f[k] = s
  BY <1>7 DEF Surjection
<1>. HIDE DEF n, f
<1>9. f \in Seq(S) /\ Len(f) = n
  BY <1>1, <1>4
<1>. QED BY <1>8, <1>9 DEF f

\* The map that is made of the entries has the value of an entry for each of their names.
LEMMA AsEditIs ==
  ASSUME NEW l \in Seq(Entries)
  PROVE  /\ AsEdit(l) \in Edits
         /\ DOMAIN AsEdit(l) = {l[i].name : i \in DOMAIN l}
         /\ \A s \in DOMAIN AsEdit(l) : \E j \in DOMAIN l : l[j].name = s /\ AsEdit(l)[s] = l[j].value
<1>. DEFINE Of(s) == {i \in DOMAIN l : l[i].name = s}
            S == {l[i].name : i \in DOMAIN l}
<1>1. DOMAIN l = 1..Len(l) /\ Len(l) \in Nat /\ \A i \in DOMAIN l : l[i] \in Entries
  OBVIOUS
<1>2. S \subseteq Secrets
  BY <1>1 DEF Entries
<1>3. ASSUME NEW s \in S
      PROVE  Max(Of(s)) \in DOMAIN l /\ l[Max(Of(s))].name = s
  <2>1. Of(s) \subseteq 1..Len(l) /\ Of(s) # {}
    BY <1>1
  <2>2. Max(Of(s)) \in Of(s)
    BY <1>1, <2>1, MaxIsThere
  <2>. QED BY <2>2
<1>4. AsEdit(l) = [s \in S |-> l[Max(Of(s))].value]
  BY DEF AsEdit
<1>5. ASSUME NEW s \in S
      PROVE  l[Max(Of(s))].value \in Values
  BY <1>1, <1>3 DEF Entries
<1>. HIDE DEF S, Of
<1>6. AsEdit(l) \in [S -> Values]
  BY <1>4, <1>5
<1>7. AsEdit(l) \in Edits
  BY <1>2, <1>6 DEF Edits, Settings
<1>8. \A s \in S : \E j \in DOMAIN l : l[j].name = s /\ AsEdit(l)[s] = l[j].value
  BY <1>3, <1>4
<1>. QED BY <1>4, <1>7, <1>8 DEF S

LEMMA LinesTyped ==
  ASSUME NEW l \in Seq(Entries)
  PROVE  Lines(l) \in Seq(Entries)
<1>. DEFINE line(i) == <<[name |-> l[i].name, value |-> Trimmed[l[i].value]]>> \o More[l[i].value]
            seqs == [i \in DOMAIN l |-> line(i)]
<1>1. ASSUME NEW i \in DOMAIN l
      PROVE  line(i) \in Seq(Entries)
  <2>1. l[i] \in Entries
    OBVIOUS
  <2>2. [name |-> l[i].name, value |-> Trimmed[l[i].value]] \in Entries
    BY <2>1, TransferAssumption DEF Entries
  <2>3. More[l[i].value] \in Seq(Entries)
    BY <2>1, TransferAssumption DEF Entries
  <2>. QED BY <2>2, <2>3
<1>2. DOMAIN l = 1..Len(l) /\ Len(l) \in Nat
  OBVIOUS
<1>. HIDE DEF line
<1>3. seqs \in Seq(Seq(Entries))
  BY <1>1, <1>2
<1>4. Lines(l) = FlattenSeq(seqs)
  BY DEF Lines, line
<1>. HIDE DEF seqs
<1>. QED BY <1>3, <1>4, FlattenTyped

\* What is plain is read as it was written.
LEMMA PlainLines ==
  ASSUME NEW l \in Seq(Entries), \A i \in DOMAIN l : Plain(l[i].value)
  PROVE  Lines(l) = l
<1>. DEFINE line(i) == <<[name |-> l[i].name, value |-> Trimmed[l[i].value]]>> \o More[l[i].value]
            seqs == [i \in DOMAIN l |-> line(i)]
<1>1. DOMAIN l = 1..Len(l) /\ Len(l) \in Nat
  OBVIOUS
<1>2. ASSUME NEW i \in DOMAIN l
      PROVE  line(i) = <<l[i]>>
  <2>1. l[i] \in Entries /\ Plain(l[i].value)
    OBVIOUS
  <2>2. [name |-> l[i].name, value |-> Trimmed[l[i].value]] = l[i]
    BY <2>1 DEF Entries, Plain
  <2>3. line(i) = <<l[i]>> \o <<>>
    BY <2>1, <2>2 DEF Plain
  <2>. QED BY <2>3
<1>. HIDE DEF line
<1>3. seqs \in Seq(Seq(Entries)) /\ Len(seqs) = Len(l) /\ \A i \in 1..Len(l) : seqs[i] = <<l[i]>>
  <2>1. \A i \in 1..Len(l) : line(i) = <<l[i]>> /\ <<l[i]>> \in Seq(Entries)
    BY <1>1, <1>2
  <2>2. seqs \in [1..Len(l) -> Seq(Entries)] /\ \A i \in 1..Len(l) : seqs[i] = line(i)
    BY <1>1, <2>1
  <2>. HIDE DEF seqs
  <2>. QED BY <1>1, <2>1, <2>2
<1>4. Lines(l) = FlattenSeq(seqs)
  BY DEF Lines, line
<1>. HIDE DEF seqs
<1>5. CASE Len(l) = 0
  <2>1. l = <<>> /\ seqs = <<>>
    BY <1>3, <1>5
  <2>. QED BY <1>4, <2>1 DEF FlattenSeq
<1>6. CASE Len(l) # 0
  <2>. DEFINE f == CHOOSE g : Joins(g, seqs)
  <2>1. Joins(f, seqs)
    BY <1>3, JoinsExist
  <2>2. FlattenSeq(seqs) = f[Len(l)]
    BY <1>3, <1>6 DEF FlattenSeq, Joins
  <2>. HIDE DEF f
  <2>3. \A i \in 1..Len(l) : f[i] = IF i = 1 THEN <<l[i]>> ELSE f[i - 1] \o <<l[i]>>
    BY <1>3, <2>1 DEF Joins
  <2>. DEFINE T == {i \in 1..Len(l) : f[i] # SubSeq(l, 1, i)}
  <2>4. T = {}
    <3>1. SUFFICES ASSUME T # {} PROVE FALSE
      OBVIOUS
    <3>2. PICK i \in T : \A j \in T : i <= j
      <4>1. T \subseteq Nat
        OBVIOUS
      <4>. HIDE DEF T
      <4>. QED BY <3>1, <4>1, LeastExists
    <3>3. CASE i = 1
      <4>1. SubSeq(l, 1, 1) = <<l[1]>>
        <5>1. SubSeq(l, 1, 0) = <<>> /\ SubSeq(l, 1, 0) \o <<l[1]>> = SubSeq(l, 1, 1)
          BY <1>1, <1>6
        <5>2. <<>> \o <<l[1]>> = <<l[1]>>
          OBVIOUS
        <5>. QED BY <5>1, <5>2
      <4>. QED BY <2>3, <3>2, <3>3, <4>1
    <3>4. CASE i # 1
      <4>1. i - 1 \in 1..Len(l) /\ i - 1 < i /\ i \in 1..Len(l)
        BY <1>1, <3>4
      <4>2. f[i - 1] = SubSeq(l, 1, i - 1)
        BY <1>1, <3>2, <4>1
      <4>3. f[i] = SubSeq(l, 1, i - 1) \o <<l[i]>>
        BY <2>3, <3>4, <4>1, <4>2
      <4>4. SubSeq(l, 1, i - 1) \o <<l[i]>> = SubSeq(l, 1, i)
        BY <1>1, <4>1
      <4>. QED BY <4>3, <4>4
    <3>. QED BY <3>3, <3>4
  <2>5. f[Len(l)] = SubSeq(l, 1, Len(l))
    BY <1>1, <1>6, <2>4
  <2>6. SubSeq(l, 1, Len(l)) = l
    BY <1>1
  <2>. QED BY <1>4, <2>2, <2>5, <2>6
<1>. QED BY <1>5, <1>6

LEMMA AsTextTyped ==
  ASSUME NEW f \in Files
  PROVE  AsText(f) \subseteq Seq(Entries)
<1>1. f.entries \in Seq(Entries) /\ Garbage \in Seq(Entries) /\ <<>> \in Seq(Entries)
  BY TransferAssumption DEF Files
<1>2. Lines(f.entries) \in Seq(Entries)
  BY <1>1, LinesTyped
<1>. HIDE DEF Lines
<1>. QED BY <1>1, <1>2 DEF AsText, Files

LEMMA ReadingsTyped ==
  ASSUME files \in [Extensions -> Files], NEW x \in Extensions
  PROVE  /\ Readings(x) \subseteq Seq(Entries)
         /\ x = ".mvx" /\ files[x].form = "mvx" => Readings(x) = {files[x].entries}
         /\ x = ".env.mvenc" /\ files[x].form = "encrypt" =>
              Readings(x) = {Lines(files[x].entries)}
<1>1. files[x] \in Files /\ files[x].entries \in Seq(Entries)
  BY DEF Files
<1>2. Lines(files[x].entries) \in Seq(Entries) /\ AsText(files[x]) \subseteq Seq(Entries)
  BY <1>1, LinesTyped, AsTextTyped
<1>. QED BY <1>1, <1>2 DEF Readings, Extensions
-----------------------------------------------------------------------------
(* Commands side by side *)

LEMMA IdleIsNoCall ==
  /\ Idle \in Requests /\ Idle.kind = "idle" /\ Store!Idle = Idle
  /\ \A r \in Requests : /\ r.kind = "edit" => r \in EditCalls
                         /\ r.kind = "unlock" => r \in Keys
                         /\ r = Idle <=> r.kind = "idle"
BY DEF Idle, Store!Idle, Requests, Keys, EditCalls

LEMMA NoVaultIsNone ==
  Store!NoVault.kind = "none" /\ \A v \in Vaults : v.kind = "vault" /\ v # Store!NoVault
BY DEF Store!NoVault, Vaults

LEMMA CommandIsGood ==
  ASSUME TransferInv, NEW p \in Procs
  PROVE  /\ cmd[p] \in Commands /\ CallInv(cmd[p], request[p]) /\ StepInv(cmd[p])
         /\ NotedInv(cmd[p]) /\ ImportInv(cmd[p], vault) /\ ExportInv(cmd[p], vault)
BY DEF TransferInv, Good, StepInv

\* A step that leaves the vault as it is does nothing to the others.
LEMMA OwnStepKeeps ==
  ASSUME TransferInv, NEW p \in Procs, NEW d, cmd' = [cmd EXCEPT ![p] = d],
         Good(d, request'[p], vault), vault' = vault,
         request' \in [Procs -> Requests], \A q \in Procs \ {p} : request'[q] = request[q],
         StoreInv', access' \subseteq access \cup {p},
         p \in access' => d.step \in Calls /\ vault \in Vaults
  PROVE  TransferInv'
<1>1. ASSUME NEW q \in Procs
      PROVE  Good(cmd'[q], request'[q], vault')
  <2>1. CASE q = p
    BY <2>1 DEF TransferInv
  <2>2. CASE q # p
    BY <2>2 DEF TransferInv
  <2>. QED BY <2>1, <2>2
<1>2. cmd' \in [Procs -> Commands]
  BY DEF TransferInv, Good, StepInv
<1>3. AccessInv'
  BY DEF TransferInv, AccessInv
<1>. QED BY <1>1, <1>2, <1>3 DEF TransferInv

\* Another's edit is the end of what was known of the vault.
LEMMA DisturbedGood ==
  ASSUME NEW c, NEW r, NEW v, NEW w, Good(c, r, v), NEW d, d = [c EXCEPT !.quiet = FALSE]
  PROVE  Good(d, r, w)
<1>1. c \in Commands
  BY DEF Good, StepInv
<1>2. /\ d \in Commands /\ d.kind = c.kind /\ d.step = c.step /\ d.at = c.at /\ d.list = c.list
      /\ d.names = c.names /\ d.edit = c.edit /\ d.form = c.form /\ d.ext = c.ext
      /\ d.key = c.key /\ d.origin = c.origin /\ d.stored = c.stored /\ d.noted = c.noted
      /\ ~d.quiet
  BY <1>1 DEF Commands
<1>3. CallInv(d, r) /\ StepInv(d) /\ NotedInv(d)
  BY <1>2 DEF Good, CallInv, StepInv, NotedInv
<1>4. ImportInv(d, w) /\ ExportInv(d, w)
  BY <1>2 DEF Good, ImportInv, ExportInv
<1>. QED BY <1>3, <1>4 DEF Good

\* A command at its start knows nothing of the vault.
LEMMA FreshGood ==
  ASSUME NEW c \in Commands, NEW v, c.step \in {"ok", "read", "set", "list"},
         c.step # "ok" => c.key \in Keys,
         c.step = "ok" => c.kind = "none",
         c.step = "read" => c.kind \in {"import", "addAll"},
         c.step = "set" => c.edit \in Edits /\ (c.kind = "remove" \/ (c.kind = "add" /\ c.list # <<>>)),
         c.step = "list" => /\ c.kind = "export" /\ c.list = <<>> /\ c.at = 1
                            /\ c.form \in {"encrypt", "mvx"},
         ~c.stored, c.noted = {}, c.origin = NoFile
  PROVE  Good(c, Idle, v)
<1>1. CallInv(c, Idle)
  BY IdleIsNoCall DEF CallInv
<1>2. StepInv(c)
  BY DEF StepInv, Ended
<1>3. NotedInv(c)
  BY DEF NotedInv
<1>4. c.origin.form = "none"
  BY DEF NoFile
<1>5. ImportInv(c, v)
  BY <1>4 DEF ImportInv
<1>6. ExportInv(c, v)
  BY DEF ExportInv
<1>. QED BY <1>1, <1>2, <1>3, <1>5, <1>6 DEF Good

LEMMA NoFileIsFile == NoFile \in Files /\ Torn \in Files /\ Torn.form = "torn"
BY DEF NoFile, Torn, Files

LEMMA CommandTyped ==
  ASSUME NEW kind \in Kinds, NEW step \in Steps
  PROVE  /\ Command(kind, step) \in Commands
         /\ Command(kind, step).kind = kind /\ Command(kind, step).step = step
         /\ Command(kind, step).at = 1 /\ Command(kind, step).list = <<>>
         /\ ~Command(kind, step).stored /\ Command(kind, step).noted = {}
         /\ Command(kind, step).origin = NoFile
<1>1. ".env" \in Extensions
  BY DEF Extensions
<1>. QED BY <1>1, NoFileIsFile DEF Command, Commands

\* The command waits for nothing, so there is no call to disturb.
LEMMA StartKeeps ==
  ASSUME TransferInv, NEW p \in Procs, NEW c \in Commands, Start(p, c),
         c.step \in {"read", "set", "list"},
         c.step = "read" => c.kind \in {"import", "addAll"},
         c.step = "set" => c.edit \in Edits /\ (c.kind = "remove" \/ (c.kind = "add" /\ c.list # <<>>)),
         c.step = "list" => /\ c.kind = "export" /\ c.list = <<>> /\ c.at = 1
                            /\ c.form \in {"encrypt", "mvx"},
         ~c.stored, c.noted = {}, c.origin = NoFile
  PROVE  TransferInv'
<1>1. PICK n \in Names, w \in Passwords :
        cmd' = [cmd EXCEPT ![p] = [c EXCEPT !.key = [kind |-> "unlock", name |-> n, pw |-> w]]]
  BY DEF Start
<1>. DEFINE key == [kind |-> "unlock", name |-> n, pw |-> w]
            d == [c EXCEPT !.key = key]
<1>2. key \in Keys
  BY DEF Keys
<1>. HIDE DEF key
<1>3. /\ d \in Commands /\ d.kind = c.kind /\ d.step = c.step /\ d.at = c.at /\ d.list = c.list
      /\ d.edit = c.edit /\ d.form = c.form /\ d.key \in Keys /\ d.origin = c.origin
      /\ d.stored = c.stored /\ d.noted = c.noted
  BY <1>2 DEF Commands
<1>4. cmd' = [cmd EXCEPT ![p] = d]
  BY <1>1 DEF key
<1>. HIDE DEF d
<1>5. /\ cmd[p].step \in Ended /\ UNCHANGED <<vault, request, access, files>>
      /\ started' = started + 1 /\ started < MaxCommands
  BY DEF Start, storeVars
<1>6. request[p] = Idle /\ p \notin access
  BY <1>5, CommandIsGood DEF CallInv, Ended, Calls, TransferInv, AccessInv
<1>7. Good(d, Idle, vault)
  BY <1>3, FreshGood
<1>8. StoreInv'
  BY <1>5, TransferAssumption DEF TransferInv, StoreInv
<1>. QED BY <1>4, <1>5, <1>6, <1>7, <1>8, OwnStepKeeps DEF TransferInv

LEMMA OneEntry ==
  ASSUME NEW e \in Entries
  PROVE  <<e>> \in Seq(Entries) /\ <<e>> # <<>>
OBVIOUS

LEMMA StartAddKeeps ==
  ASSUME TransferInv, NEW p \in Procs, StartAdd(p)
  PROVE  TransferInv'
<1>1. PICK e \in Entries :
        Start(p, [Command("add", "set") EXCEPT !.list = <<e>>, !.edit = AsEdit(<<e>>)])
  BY DEF StartAdd
<1>. DEFINE l == <<e>>
            edit == AsEdit(l)
            c0 == Command("add", "set")
            c == [c0 EXCEPT !.list = l, !.edit = edit]
<1>2. l \in Seq(Entries) /\ l # <<>> /\ edit \in Edits
  BY OneEntry, AsEditIs
<1>3. Start(p, c)
  BY <1>1
<1>4. c0 \in Commands /\ c0.kind = "add" /\ c0.step = "set" /\ ~c0.stored /\ c0.noted = {}
      /\ c0.origin = NoFile
  BY CommandTyped DEF Kinds, Steps, Calls
<1>. HIDE DEF l, edit, c0
<1>5. /\ c \in Commands /\ c.kind = "add" /\ c.step = "set" /\ c.list = l /\ c.edit = edit
      /\ ~c.stored /\ c.noted = {} /\ c.origin = NoFile
  BY <1>2, <1>4 DEF Commands
<1>. HIDE DEF c
<1>. QED BY <1>2, <1>3, <1>5, StartKeeps

LEMMA StartAddAllKeeps ==
  ASSUME TransferInv, NEW p \in Procs, StartAddAll(p)
  PROVE  TransferInv'
<1>. DEFINE c == Command("addAll", "read")
<1>1. Start(p, c)
  BY DEF StartAddAll
<1>2. c \in Commands /\ c.kind = "addAll" /\ c.step = "read" /\ ~c.stored /\ c.noted = {}
      /\ c.origin = NoFile
  BY CommandTyped DEF Kinds, Steps
<1>. HIDE DEF c
<1>. QED BY <1>1, <1>2, StartKeeps

LEMMA StartImportKeeps ==
  ASSUME TransferInv, NEW p \in Procs, StartImport(p)
  PROVE  TransferInv'
<1>1. PICK x \in Extensions : Start(p, [Command("import", "read") EXCEPT !.ext = x])
  BY DEF StartImport
<1>. DEFINE c0 == Command("import", "read")
            c == [c0 EXCEPT !.ext = x]
<1>2. Start(p, c)
  BY <1>1
<1>3. c0 \in Commands /\ c0.kind = "import" /\ c0.step = "read" /\ ~c0.stored /\ c0.noted = {}
      /\ c0.origin = NoFile
  BY CommandTyped DEF Kinds, Steps
<1>. HIDE DEF c0
<1>4. /\ c \in Commands /\ c.kind = "import" /\ c.step = "read" /\ ~c.stored /\ c.noted = {}
      /\ c.origin = NoFile
  BY <1>3 DEF Commands
<1>. HIDE DEF c
<1>. QED BY <1>2, <1>4, StartKeeps

LEMMA StartExportKeeps ==
  ASSUME TransferInv, NEW p \in Procs, StartExport(p)
  PROVE  TransferInv'
<1>1. PICK f \in {"encrypt", "mvx"}, x \in Extensions :
        Start(p, [Command("export", "list") EXCEPT !.form = f, !.ext = x])
  BY DEF StartExport
<1>. DEFINE c0 == Command("export", "list")
            c == [c0 EXCEPT !.form = f, !.ext = x]
<1>2. Start(p, c)
  BY <1>1
<1>3. c0 \in Commands /\ c0.kind = "export" /\ c0.step = "list" /\ ~c0.stored /\ c0.noted = {}
      /\ c0.origin = NoFile /\ c0.list = <<>> /\ c0.at = 1
  BY CommandTyped DEF Kinds, Steps, Calls
<1>. HIDE DEF c0
<1>4. /\ c \in Commands /\ c.kind = "export" /\ c.step = "list" /\ ~c.stored /\ c.noted = {}
      /\ c.origin = NoFile /\ c.list = <<>> /\ c.at = 1 /\ c.form = f
  BY <1>3 DEF Commands
<1>. HIDE DEF c
<1>. QED BY <1>2, <1>4, StartKeeps

LEMMA StartRemoveKeeps ==
  ASSUME TransferInv, NEW p \in Procs, StartRemove(p)
  PROVE  TransferInv'
<1>1. PICK s \in Secrets :
        Start(p, [Command("remove", "set") EXCEPT !.edit = [t \in {s} |-> NoValue]])
  BY DEF StartRemove
<1>. DEFINE edit == [t \in {s} |-> NoValue]
            c0 == Command("remove", "set")
            c == [c0 EXCEPT !.edit = edit]
<1>2. edit \in Edits
  BY DEF Edits, Removals
<1>3. Start(p, c)
  BY <1>1
<1>4. c0 \in Commands /\ c0.kind = "remove" /\ c0.step = "set" /\ ~c0.stored /\ c0.noted = {}
      /\ c0.origin = NoFile
  BY CommandTyped DEF Kinds, Steps, Calls
<1>. HIDE DEF edit, c0
<1>5. /\ c \in Commands /\ c.kind = "remove" /\ c.step = "set" /\ c.edit = edit
      /\ ~c.stored /\ c.noted = {} /\ c.origin = NoFile
  BY <1>2, <1>4 DEF Commands
<1>. HIDE DEF c
<1>. QED BY <1>2, <1>3, <1>5, StartKeeps
-----------------------------------------------------------------------------
(* Files and calls *)

LEMMA ReadFileKeeps ==
  ASSUME TransferInv, NEW p \in Procs, ReadFile(p)
  PROVE  TransferInv'
<1>. DEFINE c == cmd[p]
<1>1. /\ c \in Commands /\ CallInv(c, request[p]) /\ StepInv(c) /\ NotedInv(c) /\ c.step = "read"
      /\ c.kind \in {"import", "addAll"}
  BY CommandIsGood DEF ReadFile, At, StepInv
<1>2. files \in [Extensions -> Files]
  BY DEF TransferInv, StoreInv
<1>3. c.ext \in Extensions /\ ".env" \in Extensions
  BY <1>1 DEF Commands, Extensions
<1>4. PICK l \in IF c.kind = "import" THEN Readings(c.ext) ELSE AsText(files[".env"]) :
        cmd' = [cmd EXCEPT ![p].list = l, ![p].edit = AsEdit(l), ![p].origin = files[c.ext],
                           ![p].step = IF l = <<>> THEN "ok" ELSE "set"]
  BY DEF ReadFile
<1>5. l \in Seq(Entries)
  BY <1>2, <1>3, <1>4, ReadingsTyped, AsTextTyped
<1>6. /\ c.kind = "import" /\ c.ext = ".mvx" /\ files[c.ext].form = "mvx" =>
           l = files[c.ext].entries
      /\ c.kind = "import" /\ c.ext = ".env.mvenc" /\ files[c.ext].form = "encrypt" =>
           l = Lines(files[c.ext].entries)
  BY <1>2, <1>3, <1>4, ReadingsTyped
<1>. DEFINE edit == AsEdit(l)
            step == IF l = <<>> THEN "ok" ELSE "set"
            origin == files[c.ext]
            d == [c EXCEPT !.list = l, !.edit = edit, !.origin = origin, !.step = step]
<1>7. cmd' = [cmd EXCEPT ![p] = d]
  BY <1>4 DEF TransferInv
<1>8. edit \in Edits /\ origin \in Files /\ step \in {"ok", "set"} /\ (step = "set" <=> l # <<>>)
  BY <1>2, <1>3, <1>5, AsEditIs
<1>9. UNCHANGED <<vault, request, access, files, started>>
  BY DEF ReadFile, storeVars
<1>10. edit = AsEdit(l)
  OBVIOUS
<1>11. request[p] = Idle /\ p \notin access
  BY <1>1 DEF CallInv, Calls, TransferInv, AccessInv
<1>. HIDE DEF c, edit, step, origin
<1>12. /\ d \in Commands /\ d.kind = c.kind /\ d.step = step /\ d.at = c.at /\ d.list = l
       /\ d.edit = edit /\ d.ext = c.ext /\ d.key = c.key /\ d.origin = origin
       /\ d.stored = c.stored /\ d.noted = c.noted
  BY <1>1, <1>5, <1>8 DEF Commands, Steps, Calls, Ended
<1>. HIDE DEF d
<1>13. CallInv(d, Idle)
  BY IdleIsNoCall DEF CallInv
<1>14. StepInv(d)
  BY <1>1, <1>8, <1>12 DEF StepInv, Ended
<1>15. ~c.stored /\ c.noted = {}
  BY <1>1 DEF StepInv, NotedInv
<1>16. NotedInv(d)
  <2>1. step = "ok" => NamesUpto(l, Len(l)) = {}
    BY <1>8 DEF NamesUpto
  <2>. QED BY <1>8, <1>12, <1>15, <2>1 DEF NotedInv
<1>17. ImportInv(d, vault)
  <2>1. step = "ok" => AgreeUpto(l, Len(l), vault.secrets)
    BY <1>8 DEF AgreeUpto
  <2>2. origin = files[c.ext]
    BY DEF origin
  <2>. QED BY <1>6, <1>8, <1>10, <1>12, <1>15, <2>1, <2>2 DEF ImportInv
<1>18. ExportInv(d, vault)
  BY <1>1, <1>12 DEF ExportInv
<1>19. StoreInv'
  BY <1>9 DEF TransferInv, StoreInv
<1>. QED BY <1>7, <1>9, <1>11, <1>13, <1>14, <1>16, <1>17, <1>18, <1>19, OwnStepKeeps
         DEF Good, TransferInv

\* A step that changes no command but what is called or held.
LEMMA CallKeeps ==
  ASSUME TransferInv, NEW p \in Procs, UNCHANGED <<vault, files, cmd, started>>,
         NEW r \in Requests, request' = [request EXCEPT ![p] = r], CallInv(cmd[p], r),
         access' \subseteq access \cup {p},
         p \in access' => cmd[p].step \in Calls /\ vault \in Vaults
  PROVE  TransferInv'
<1>1. cmd' = [cmd EXCEPT ![p] = cmd[p]]
  BY DEF TransferInv
<1>2. request' \in [Procs -> Requests] /\ request'[p] = r
  BY DEF TransferInv
<1>3. Good(cmd[p], r, vault)
  BY DEF TransferInv, Good
<1>4. StoreInv'
  BY DEF TransferInv, StoreInv
<1>. QED BY <1>1, <1>2, <1>3, <1>4, OwnStepKeeps DEF TransferInv

LEMMA CallUnlockKeeps ==
  ASSUME TransferInv, NEW p \in Procs, CallUnlock(p)
  PROVE  TransferInv'
<1>1. /\ cmd[p].step \in Calls /\ p \notin access
      /\ request' = [request EXCEPT ![p] = cmd[p].key]
      /\ UNCHANGED <<vault, access, files, cmd, started>>
  BY DEF CallUnlock, Store!Invoke
<1>2. cmd[p].key \in Keys
  BY <1>1, CommandIsGood DEF StepInv, Calls, Ended
<1>3. cmd[p].key \in Requests /\ cmd[p].key.kind = "unlock"
  BY <1>2 DEF Requests, Keys
<1>4. CallInv(cmd[p], cmd[p].key)
  BY <1>1, <1>3 DEF CallInv
<1>. QED BY <1>1, <1>3, <1>4, CallKeeps

LEMMA UnlockedKeeps ==
  ASSUME TransferInv, NEW p \in Procs, Unlocked(p)
  PROVE  TransferInv'
<1>1. /\ request[p].kind = "unlock" /\ vault.kind = "vault"
      /\ access' = access \cup {p} /\ request' = [request EXCEPT ![p] = Idle]
      /\ UNCHANGED <<vault, files, cmd, started>>
  BY IdleIsNoCall DEF Unlocked, Store!CommitUnlock, Store!Knows, Store!Done
<1>2. vault \in Vaults
  BY <1>1, NoVaultIsNone DEF TransferInv, StoreInv
<1>3. request[p] # Idle /\ CallInv(cmd[p], request[p])
  BY <1>1, IdleIsNoCall, CommandIsGood
<1>4. cmd[p].step \in Calls
  BY <1>3 DEF CallInv
<1>5. CallInv(cmd[p], Idle)
  BY IdleIsNoCall DEF CallInv
<1>. QED BY <1>1, <1>2, <1>4, <1>5, IdleIsNoCall, CallKeeps

LEMMA CallEditKeeps ==
  ASSUME TransferInv, NEW p \in Procs, CallEdit(p)
  PROVE  TransferInv'
<1>. DEFINE r == [kind |-> "edit", edit |-> cmd[p].edit]
<1>1. /\ cmd[p].step = "set" /\ ~cmd[p].stored /\ p \in access
      /\ request' = [request EXCEPT ![p] = r]
      /\ UNCHANGED <<vault, access, files, cmd, started>>
  BY DEF CallEdit, Open, At, Store!Invoke
<1>2. cmd[p].edit \in Edits /\ vault \in Vaults
  BY <1>1, CommandIsGood DEF StepInv, TransferInv, AccessInv
<1>3. r \in Requests /\ r.kind = "edit" /\ r.edit = cmd[p].edit
  BY <1>2 DEF Requests, EditCalls
<1>. HIDE DEF r
<1>4. CallInv(cmd[p], r)
  BY <1>1, <1>3 DEF CallInv, Calls
<1>. QED BY <1>1, <1>2, <1>3, <1>4, CallKeeps DEF Calls

LEMMA EditedTyped ==
  ASSUME NEW m \in SecretMaps, NEW e \in Edits
  PROVE  /\ Store!Edited(m, e) \in SecretMaps /\ DOMAIN e \subseteq Secrets
         /\ \A s \in DOMAIN e : Store!Edited(m, e)[s] = e[s]
<1>1. DOMAIN e \subseteq Secrets /\ \A s \in DOMAIN e : e[s] \in Values \cup {NoValue}
  BY DEF Edits, Settings, Removals
<1>. QED BY <1>1 DEF Store!Edited, SecretMaps

\* An edit is what its command stores, and the end of what the others knew.
LEMMA EditKeeps ==
  ASSUME TransferInv, NEW p \in Procs, Edit(p)
  PROVE  TransferInv'
<1>1. /\ request[p].kind = "edit" /\ p \in access
      /\ vault' = Store!Vault(vault.name, vault.pw, Store!Edited(vault.secrets, request[p].edit))
      /\ request' = [request EXCEPT ![p] = Idle] /\ UNCHANGED <<access, files, started>>
      /\ cmd' = [q \in Procs |-> [cmd[q] EXCEPT !.quiet = q = p, !.stored = q = p \/ @]]
  BY IdleIsNoCall DEF Edit, Store!CommitEdit, Store!Done
<1>2. vault \in Vaults
  BY <1>1 DEF TransferInv, AccessInv
<1>. DEFINE c == cmd[p]
            e == request[p].edit
<1>3. /\ c \in Commands /\ CallInv(c, request[p]) /\ StepInv(c) /\ NotedInv(c)
      /\ ImportInv(c, vault) /\ ExportInv(c, vault)
  BY CommandIsGood
<1>4. /\ c.step = "set" /\ e = c.edit /\ e \in Edits
  BY <1>1, <1>3 DEF CallInv, StepInv
<1>5. vault' \in Vaults /\ vault'.secrets = Store!Edited(vault.secrets, e)
  <2>1. vault.secrets \in SecretMaps /\ vault.name \in Names /\ vault.pw \in Passwords
    BY <1>2 DEF Vaults
  <2>2. Store!Edited(vault.secrets, e) \in SecretMaps
    BY <1>4, <2>1, EditedTyped
  <2>. QED BY <1>1, <2>1, <2>2 DEF Store!Vault, Vaults
<1>6. \A s \in DOMAIN e : vault'.secrets[s] = e[s]
  BY <1>2, <1>4, <1>5, EditedTyped DEF Vaults
<1>. DEFINE d == [c EXCEPT !.quiet = TRUE, !.stored = TRUE]
<1>7. cmd'[p] = d
  <2>1. cmd'[p] = [cmd[p] EXCEPT !.quiet = p = p, !.stored = p = p \/ @]
    BY <1>1
  <2>2. (p = p) = TRUE /\ (p = p \/ cmd[p].stored) = TRUE
    OBVIOUS
  <2>. QED BY <2>1, <2>2
<1>. HIDE DEF c, e
<1>8. /\ d \in Commands /\ d.kind = c.kind /\ d.step = "set" /\ d.at = c.at /\ d.list = c.list
      /\ d.edit = c.edit /\ d.ext = c.ext /\ d.key = c.key /\ d.origin = c.origin
      /\ d.stored /\ d.noted = c.noted
  BY <1>3, <1>4 DEF Commands
<1>. HIDE DEF d
<1>9. Good(d, Idle, vault')
  <2>1. c.kind # "export"
    BY <1>3, <1>4 DEF StepInv
  <2>2. CallInv(d, Idle)
    BY <1>8, IdleIsNoCall DEF CallInv
  <2>3. StepInv(d) /\ NotedInv(d)
    BY <1>3, <1>4, <1>8, <2>1 DEF StepInv, NotedInv
  <2>4. ImportInv(d, vault') /\ ExportInv(d, vault')
    BY <1>3, <1>4, <1>6, <1>8, <2>1 DEF ImportInv, ExportInv
  <2>. QED BY <2>2, <2>3, <2>4 DEF Good
<1>10. ASSUME NEW q \in Procs, q # p
       PROVE  Good(cmd'[q], request'[q], vault') /\ cmd'[q].step = cmd[q].step
  <2>1. cmd[q] \in Commands /\ cmd[q].stored \in BOOLEAN
    BY DEF TransferInv, Commands
  <2>2. cmd'[q] = [cmd[q] EXCEPT !.quiet = FALSE]
    <3>1. cmd'[q] = [cmd[q] EXCEPT !.quiet = q = p, !.stored = q = p \/ @]
      BY <1>1
    <3>2. (q = p) = FALSE /\ (q = p \/ cmd[q].stored) = cmd[q].stored
      BY <1>10, <2>1
    <3>. QED BY <2>1, <3>1, <3>2 DEF Commands
  <2>3. request'[q] = request[q]
    BY <1>1, <1>10 DEF TransferInv
  <2>. QED BY <2>1, <2>2, <2>3, DisturbedGood DEF TransferInv, Commands
<1>11. request' \in [Procs -> Requests] /\ request'[p] = Idle
  BY <1>1, IdleIsNoCall DEF TransferInv
<1>12. \A q \in Procs : Good(cmd'[q], request'[q], vault')
  BY <1>7, <1>9, <1>10, <1>11
<1>13. cmd' \in [Procs -> Commands]
  <2>1. \A q \in Procs : cmd'[q] \in Commands
    BY <1>12 DEF Good, StepInv
  <2>. QED BY <1>1, <2>1
<1>14. AccessInv'
  <2>1. \A q \in Procs : cmd'[q].step = cmd[q].step
    BY <1>4, <1>7, <1>8, <1>10 DEF c
  <2>. QED BY <1>1, <1>5, <2>1 DEF TransferInv, AccessInv
<1>15. StoreInv'
  BY <1>1, <1>5 DEF TransferInv, StoreInv
<1>. QED BY <1>11, <1>12, <1>13, <1>14, <1>15 DEF TransferInv

\* A call returns, and the vault is let go.
LEMMA LeaveKeeps ==
  ASSUME TransferInv, NEW p \in Procs, Store!Leave(p), NEW d, cmd' = [cmd EXCEPT ![p] = d],
         Good(d, Idle, vault), UNCHANGED <<files, started>>
  PROVE  TransferInv'
<1>1. /\ request' = [request EXCEPT ![p] = Idle] /\ access' = access \ {p} /\ vault' = vault
  BY IdleIsNoCall DEF Store!Leave, Store!Done
<1>2. request' \in [Procs -> Requests] /\ request'[p] = Idle
  BY <1>1, IdleIsNoCall DEF TransferInv
<1>3. StoreInv'
  BY <1>1 DEF TransferInv, StoreInv
<1>. QED BY <1>1, <1>2, <1>3, OwnStepKeeps DEF TransferInv

\* A step that calls nothing; the command holds no vault.
LEMMA QuietStepKeeps ==
  ASSUME TransferInv, NEW p \in Procs, cmd[p].step \notin Calls, NEW d,
         cmd' = [cmd EXCEPT ![p] = d], Good(d, Idle, vault),
         UNCHANGED <<vault, request, access>>, StoreInv'
  PROVE  TransferInv'
<1>1. request[p] = Idle /\ p \notin access
  BY CommandIsGood DEF CallInv, TransferInv, AccessInv
<1>. QED BY <1>1, OwnStepKeeps DEF TransferInv

LEMMA EditReturnsKeeps ==
  ASSUME TransferInv, NEW p \in Procs, EditReturns(p)
  PROVE  TransferInv'
<1>. DEFINE c == cmd[p]
            step == CASE c.kind = "import" -> "verify"
                      [] c.kind = "remove" -> "ok"
                      [] OTHER -> "audit"
            d == [c EXCEPT !.step = step, !.at = 1]
<1>1. /\ c \in Commands /\ StepInv(c) /\ NotedInv(c) /\ ImportInv(c, vault)
      /\ c.step = "set" /\ c.stored
  BY CommandIsGood DEF EditReturns, Open, At
<1>2. Store!Leave(p) /\ UNCHANGED <<files, started>> /\ cmd' = [cmd EXCEPT ![p] = d]
  BY DEF EditReturns, Goto, TransferInv
<1>3. /\ step \in {"verify", "ok", "audit"} /\ (step = "verify" <=> c.kind = "import")
      /\ (step = "ok" <=> c.kind = "remove")
  OBVIOUS
<1>. HIDE DEF c, step
<1>4. /\ d \in Commands /\ d.kind = c.kind /\ d.step = step /\ d.at = 1 /\ d.list = c.list
      /\ d.edit = c.edit /\ d.ext = c.ext /\ d.key = c.key /\ d.origin = c.origin
      /\ d.stored = c.stored /\ d.noted = c.noted /\ d.quiet = c.quiet
  BY <1>1, <1>3 DEF Commands, Steps, Calls, Ended
<1>. HIDE DEF d
<1>5. c.kind \in {"add", "addAll", "import", "remove"} /\ (c.kind # "remove" => c.list # <<>>)
  BY <1>1 DEF StepInv
<1>6. c.kind # "remove" => 1 \in 1..Len(c.list)
  <2>1. c.list \in Seq(Entries)
    BY <1>1 DEF Commands
  <2>. QED BY <1>5, <2>1
<1>7. c.noted = {} /\ NamesUpto(c.list, 1 - 1) = {} /\ AgreeUpto(c.list, 1 - 1, vault.secrets)
  BY <1>1 DEF NotedInv, NamesUpto, AgreeUpto
<1>8. CallInv(d, Idle)
  BY IdleIsNoCall DEF CallInv
<1>9. StepInv(d)
  BY <1>1, <1>3, <1>4, <1>5, <1>6 DEF StepInv, Ended
<1>10. NotedInv(d)
  BY <1>3, <1>4, <1>5, <1>7 DEF NotedInv
<1>11. ImportInv(d, vault) /\ ExportInv(d, vault)
  BY <1>1, <1>3, <1>4, <1>5, <1>7 DEF ImportInv, ExportInv
<1>. QED BY <1>2, <1>8, <1>9, <1>10, <1>11, LeaveKeeps DEF Good

\* One turn of the read-back: it goes on while the vault agrees with the entries.
LEMMA VerifyKeeps ==
  ASSUME TransferInv, NEW p \in Procs, Verify(p)
  PROVE  TransferInv'
<1>. DEFINE c == cmd[p]
            e == c.list[c.at]
            last == Len(c.list)
<1>1. /\ c \in Commands /\ StepInv(c) /\ NotedInv(c) /\ ImportInv(c, vault)
      /\ c.step = "verify"
  BY CommandIsGood DEF Verify, Open, At
<1>2. Store!Leave(p) /\ UNCHANGED <<files, started>>
  BY DEF Verify
<1>3. /\ c.kind = "import" /\ c.stored /\ c.at \in 1..last /\ c.list \in Seq(Entries)
      /\ last \in Nat /\ DOMAIN c.list = 1..last
  BY <1>1 DEF StepInv, Commands
<1>4. c.noted = {} /\ NamesUpto(c.list, 1 - 1) = {}
  BY <1>1 DEF NotedInv, NamesUpto
<1>5. \A d : CallInv(d, Idle)
  BY IdleIsNoCall DEF CallInv
<1>6. CASE vault.secrets[e.name] = e.value /\ c.at < last
  <2>. DEFINE d == [c EXCEPT !.at = c.at + 1]
  <2>1. cmd' = [cmd EXCEPT ![p] = d]
    BY <1>6 DEF Verify, Advance, TransferInv
  <2>2. AgreeUpto(c.list, c.at, vault.secrets) \/ ~c.quiet
    <3>1. c.quiet => AgreeUpto(c.list, c.at - 1, vault.secrets)
      BY <1>1, <1>3 DEF ImportInv
    <3>. QED BY <1>3, <1>6, <3>1 DEF AgreeUpto
  <2>. HIDE DEF c, last, e
  <2>3. /\ d \in Commands /\ d.kind = c.kind /\ d.step = c.step /\ d.at = c.at + 1 /\ d.list = c.list
        /\ d.edit = c.edit /\ d.ext = c.ext /\ d.key = c.key /\ d.origin = c.origin
        /\ d.stored = c.stored /\ d.noted = c.noted /\ d.quiet = c.quiet
    <3>1. c.at + 1 \in Nat
      BY <1>1 DEF Commands
    <3>. HIDE DEF e
    <3>. QED BY <1>1, <3>1 DEF Commands
  <2>. HIDE DEF d
  <2>4. c.at + 1 \in 1..Len(c.list) /\ (c.at + 1) - 1 = c.at
    BY <1>3, <1>6 DEF last
  <2>5. StepInv(d) /\ NotedInv(d)
    BY <1>1, <1>3, <1>4, <2>3, <2>4 DEF StepInv, NotedInv
  <2>6. ImportInv(d, vault) /\ ExportInv(d, vault)
    BY <1>1, <1>3, <2>2, <2>3, <2>4 DEF ImportInv, ExportInv
  <2>. QED BY <1>2, <1>5, <2>1, <2>5, <2>6, LeaveKeeps DEF Good
<1>7. CASE vault.secrets[e.name] = e.value /\ ~(c.at < last)
  <2>. DEFINE d == [c EXCEPT !.step = "audit", !.at = 1]
  <2>1. cmd' = [cmd EXCEPT ![p] = d]
    BY <1>7 DEF Verify, Advance, Goto, TransferInv
  <2>2. AgreeUpto(c.list, Len(c.list), vault.secrets) \/ ~c.quiet
    <3>1. c.quiet => AgreeUpto(c.list, c.at - 1, vault.secrets)
      BY <1>1, <1>3 DEF ImportInv
    <3>2. c.at = Len(c.list)
      BY <1>3, <1>7
    <3>. QED BY <1>3, <1>7, <3>1, <3>2 DEF AgreeUpto
  <2>3. 1 \in 1..Len(c.list)
    BY <1>3
  <2>. HIDE DEF c, last, e
  <2>4. /\ d \in Commands /\ d.kind = c.kind /\ d.step = "audit" /\ d.at = 1 /\ d.list = c.list
        /\ d.edit = c.edit /\ d.ext = c.ext /\ d.key = c.key /\ d.origin = c.origin
        /\ d.stored = c.stored /\ d.noted = c.noted /\ d.quiet = c.quiet
    BY <1>1 DEF Commands, Steps
  <2>. HIDE DEF d
  <2>5. StepInv(d) /\ NotedInv(d)
    BY <1>1, <1>3, <1>4, <2>3, <2>4 DEF StepInv, NotedInv, Ended
  <2>6. ImportInv(d, vault) /\ ExportInv(d, vault)
    BY <1>1, <1>3, <2>2, <2>4 DEF ImportInv, ExportInv
  <2>. QED BY <1>2, <1>5, <2>1, <2>5, <2>6, LeaveKeeps DEF Good
<1>8. CASE vault.secrets[e.name] # e.value
  <2>. DEFINE d == [c EXCEPT !.step = "mismatch", !.at = 1]
  <2>1. cmd' = [cmd EXCEPT ![p] = d]
    BY <1>8 DEF Verify, Goto, TransferInv
  <2>2. c.quiet => \E i, j \in DOMAIN c.list :
                     c.list[i].name = c.list[j].name /\ c.list[i].value # c.list[j].value
    <3>1. SUFFICES ASSUME c.quiet
                   PROVE  \E i, j \in DOMAIN c.list :
                            c.list[i].name = c.list[j].name /\ c.list[i].value # c.list[j].value
      OBVIOUS
    <3>2. c.edit = AsEdit(c.list) /\ \A s \in DOMAIN c.edit : vault.secrets[s] = c.edit[s]
      BY <1>1, <1>3, <3>1 DEF ImportInv
    <3>3. e.name \in DOMAIN AsEdit(c.list)
      BY <1>3, AsEditIs
    <3>4. PICK j \in DOMAIN c.list : /\ c.list[j].name = e.name
                                     /\ AsEdit(c.list)[e.name] = c.list[j].value
      BY <1>3, <3>3, AsEditIs
    <3>. QED BY <1>3, <1>8, <3>2, <3>3, <3>4
  <2>. HIDE DEF c, last, e
  <2>3. /\ d \in Commands /\ d.kind = c.kind /\ d.step = "mismatch" /\ d.at = 1 /\ d.list = c.list
        /\ d.edit = c.edit /\ d.ext = c.ext /\ d.key = c.key /\ d.origin = c.origin
        /\ d.stored = c.stored /\ d.noted = c.noted /\ d.quiet = c.quiet
    BY <1>1 DEF Commands, Steps, Ended
  <2>. HIDE DEF d
  <2>4. StepInv(d) /\ NotedInv(d)
    BY <1>1, <1>3, <1>4, <2>3 DEF StepInv, NotedInv, Ended
  <2>5. ImportInv(d, vault) /\ ExportInv(d, vault)
    BY <1>1, <1>3, <2>2, <2>3 DEF ImportInv, ExportInv
  <2>. QED BY <1>2, <1>5, <2>1, <2>4, <2>5, LeaveKeeps DEF Good
<1>. QED BY <1>6, <1>7, <1>8

\* The names of the secrets the vault has, all of them.
Present(v) == {s \in Secrets : v.secrets[s] # NoValue}

LEMMA ListNamesKeeps ==
  ASSUME TransferInv, NEW p \in Procs, ListNames(p)
  PROVE  TransferInv'
<1>. DEFINE c == cmd[p]
            names == SetToSeq({s \in Secrets : vault.secrets[s] # NoValue})
            step == IF names = <<>> THEN "ok" ELSE "fetch"
            d == [c EXCEPT !.names = names, !.step = step]
<1>1. /\ c \in Commands /\ StepInv(c) /\ NotedInv(c) /\ c.step = "list" /\ p \in access
  BY CommandIsGood DEF ListNames, Open, At
<1>2. Store!Leave(p) /\ UNCHANGED <<files, started>> /\ cmd' = [cmd EXCEPT ![p] = d]
  BY DEF ListNames, TransferInv
<1>3. vault \in Vaults
  BY <1>1 DEF TransferInv, AccessInv
<1>4. names = SetToSeq(Present(vault)) /\ IsFiniteSet(Present(vault)) /\ Present(vault) \subseteq Secrets
  BY TransferAssumption, FS_Subset DEF Present
<1>5. /\ names \in Seq(Secrets)
      /\ \A s \in Present(vault) : \E k \in 1..Len(names) : names[k] = s
  <2>1. names \in Seq(Present(vault))
    BY <1>4, SetToSeqIsTheSet
  <2>2. names \in Seq(Secrets)
    BY <1>4, <2>1
  <2>. QED BY <1>4, <2>2, SetToSeqIsTheSet
<1>6. step \in {"ok", "fetch"} /\ (step = "ok" <=> names = <<>>)
  OBVIOUS
<1>. HIDE DEF c, names, step
<1>7. /\ d \in Commands /\ d.kind = c.kind /\ d.step = step /\ d.at = c.at /\ d.list = c.list
      /\ d.names = names /\ d.form = c.form /\ d.key = c.key /\ d.stored = c.stored
      /\ d.noted = c.noted /\ d.quiet = c.quiet
  BY <1>1, <1>5, <1>6 DEF Commands, Steps, Calls, Ended
<1>. HIDE DEF d
<1>8. c.kind = "export" /\ c.list = <<>> /\ c.at = 1 /\ ~c.stored /\ c.noted = {}
  BY <1>1 DEF StepInv, NotedInv
<1>9. step = "fetch" => 1 \in 1..Len(names)
  BY <1>5, <1>6
<1>10. CallInv(d, Idle)
  BY IdleIsNoCall DEF CallInv
<1>11. StepInv(d) /\ NotedInv(d)
  BY <1>1, <1>6, <1>7, <1>8, <1>9 DEF StepInv, NotedInv, Ended
<1>12. ImportInv(d, vault)
  BY <1>7, <1>8, <1>6 DEF ImportInv
<1>13. ExportInv(d, vault)
  <2>1. AgreeUpto(c.list, Len(c.list), vault.secrets)
    BY <1>8 DEF AgreeUpto
  <2>2. \A s \in Secrets : vault.secrets[s] # NoValue => \E k \in 1..Len(names) : names[k] = s
    BY <1>5 DEF Present
  <2>3. step = "ok" => Len(names) = 0
    BY <1>6
  <2>. QED BY <1>3, <1>6, <1>7, <1>8, <2>1, <2>2, <2>3 DEF ExportInv
<1>. QED BY <1>2, <1>10, <1>11, <1>12, <1>13, LeaveKeeps DEF Good

\* One turn of the export's loop: the entry is the vault's, and no other name is lost.
LEMMA FetchKeeps ==
  ASSUME TransferInv, NEW p \in Procs, Fetch(p)
  PROVE  TransferInv'
<1>. DEFINE c == cmd[p]
            n == c.names[c.at]
            e == [name |-> n, value |-> vault.secrets[n]]
            l == Append(c.list, e)
            step == IF c.at < Len(c.names) THEN c.step ELSE "write"
            d == [c EXCEPT !.list = l, !.at = c.at + 1, !.step = step]
<1>1. /\ c \in Commands /\ StepInv(c) /\ NotedInv(c) /\ ExportInv(c, vault)
      /\ c.step = "fetch" /\ p \in access
  BY CommandIsGood DEF Fetch, Open, At
<1>2. Store!Leave(p) /\ UNCHANGED <<files, started>> /\ cmd' = [cmd EXCEPT ![p] = d]
      /\ vault.secrets[n] # NoValue
  BY DEF Fetch, FetchTo, Fetched, TransferInv
<1>3. vault \in Vaults
  BY <1>1 DEF TransferInv, AccessInv
<1>. HIDE DEF c
<1>4. /\ c.kind = "export" /\ ~c.stored /\ c.noted = {} /\ c.at \in 1..Len(c.names)
      /\ c.names \in Seq(Secrets) /\ c.list \in Seq(Entries)
  BY <1>1 DEF StepInv, NotedInv, Commands
<1>5. n \in Secrets /\ vault.secrets \in SecretMaps
  BY <1>3, <1>4 DEF Vaults
<1>6. e \in Entries /\ e.name = n /\ e.value = vault.secrets[n]
  BY <1>2, <1>5 DEF Entries, SecretMaps
<1>7. step \in {"fetch", "write"} /\ (step = "fetch" <=> c.at < Len(c.names))
  BY <1>1
<1>. HIDE DEF e, step
<1>8. /\ l \in Seq(Entries) /\ Len(l) = Len(c.list) + 1 /\ Len(c.list) \in Nat
      /\ \A i \in 1..Len(c.list) : l[i] = c.list[i]
      /\ l[Len(c.list) + 1] = e
  BY <1>4, <1>6
<1>. HIDE DEF l
<1>9. c.at + 1 \in Nat
  BY <1>4
<1>10. /\ d \in Commands /\ d.kind = c.kind /\ d.step = step /\ d.at = c.at + 1 /\ d.list = l
       /\ d.names = c.names /\ d.form = c.form /\ d.key = c.key /\ d.stored = c.stored
       /\ d.noted = c.noted /\ d.quiet = c.quiet
  BY <1>1, <1>7, <1>8, <1>9 DEF Commands, Steps, Calls
<1>. HIDE DEF d
<1>11. step = "fetch" => c.at + 1 \in 1..Len(c.names)
  BY <1>4, <1>7
<1>12. CallInv(d, Idle)
  BY IdleIsNoCall DEF CallInv
<1>13. StepInv(d) /\ NotedInv(d)
  BY <1>1, <1>4, <1>7, <1>10, <1>11 DEF StepInv, NotedInv, Ended
<1>14. ImportInv(d, vault)
  BY <1>4, <1>7, <1>10 DEF ImportInv
<1>15. ExportInv(d, vault)
  <2>1. SUFFICES ASSUME c.quiet PROVE ExportInv(d, vault)
    BY <1>10 DEF ExportInv
  <2>2. AgreeUpto(l, Len(l), vault.secrets)
    <3>1. AgreeUpto(c.list, Len(c.list), vault.secrets)
      BY <1>1, <1>4, <2>1 DEF ExportInv
    <3>2. ASSUME NEW i \in 1..Len(l)
          PROVE  vault.secrets[l[i].name] = l[i].value
      <4>1. CASE i \in 1..Len(c.list)
        BY <1>8, <3>1, <4>1 DEF AgreeUpto
      <4>2. CASE i = Len(c.list) + 1
        BY <1>6, <1>8, <4>2
      <4>. QED BY <1>8, <4>1, <4>2
    <3>. QED BY <3>2 DEF AgreeUpto
  <2>3. ASSUME NEW s \in Secrets, vault.secrets[s] # NoValue
        PROVE  \/ \E i \in DOMAIN l : l[i].name = s
               \/ \E k \in (c.at + 1)..Len(c.names) : c.names[k] = s
    <3>1. \/ \E i \in DOMAIN c.list : c.list[i].name = s
          \/ \E k \in c.at..Len(c.names) : c.names[k] = s
      BY <1>1, <1>4, <2>1, <2>3 DEF ExportInv
    <3>2. DOMAIN l = 1..Len(l) /\ DOMAIN c.list = 1..Len(c.list)
      BY <1>4, <1>8
    <3>3. CASE \E i \in DOMAIN c.list : c.list[i].name = s
      <4>1. PICK i \in DOMAIN c.list : c.list[i].name = s
        BY <3>3
      <4>2. i \in DOMAIN l /\ l[i].name = s
        BY <1>8, <3>2, <4>1
      <4>. QED BY <4>2
    <3>4. CASE \E k \in c.at..Len(c.names) : c.names[k] = s
      <4>1. PICK k \in c.at..Len(c.names) : c.names[k] = s
        BY <3>4
      <4>2. CASE k = c.at
        <5>1. Len(c.list) + 1 \in DOMAIN l /\ l[Len(c.list) + 1].name = s
          BY <1>6, <1>8, <3>2, <4>1, <4>2
        <5>. QED BY <5>1
      <4>3. CASE k # c.at
        <5>1. k \in (c.at + 1)..Len(c.names)
          BY <1>4, <4>1, <4>3
        <5>. QED BY <4>1, <5>1
      <4>. QED BY <4>2, <4>3
    <3>. QED BY <3>1, <3>3, <3>4
  <2>4. step = "write" => ~\E k \in (c.at + 1)..Len(c.names) : TRUE
    BY <1>4, <1>7
  <2>. QED BY <1>3, <1>7, <1>10, <2>2, <2>3, <2>4 DEF ExportInv
<1>. QED BY <1>2, <1>12, <1>13, <1>14, <1>15, LeaveKeeps DEF Good
-----------------------------------------------------------------------------
(* Bundles and records *)

LEMMA TruncateKeeps ==
  ASSUME TransferInv, NEW p \in Procs, Truncate(p)
  PROVE  TransferInv'
<1>. DEFINE c == cmd[p]
            d == [c EXCEPT !.step = "fill", !.at = 1]
<1>1. /\ c \in Commands /\ StepInv(c) /\ NotedInv(c) /\ ExportInv(c, vault) /\ c.step = "write"
  BY CommandIsGood DEF Truncate, At
<1>2. /\ cmd' = [cmd EXCEPT ![p] = d] /\ files' = [files EXCEPT ![c.ext] = Torn]
      /\ UNCHANGED <<vault, request, access, started>>
  BY DEF Truncate, Goto, storeVars, TransferInv
<1>3. cmd[p].step \notin Calls
  BY <1>1 DEF Calls
<1>4. StoreInv'
  BY <1>2, NoFileIsFile DEF TransferInv, StoreInv
<1>. HIDE DEF c
<1>5. /\ d \in Commands /\ d.kind = c.kind /\ d.step = "fill" /\ d.list = c.list
      /\ d.form = c.form /\ d.key = c.key /\ d.stored = c.stored /\ d.noted = c.noted
      /\ d.quiet = c.quiet
  BY <1>1 DEF Commands, Steps
<1>. HIDE DEF d
<1>6. CallInv(d, Idle)
  BY IdleIsNoCall DEF CallInv
<1>7. c.kind = "export" /\ ~c.stored /\ c.noted = {}
  BY <1>1 DEF StepInv, NotedInv
<1>8. StepInv(d) /\ NotedInv(d)
  BY <1>1, <1>5, <1>7 DEF StepInv, NotedInv, Ended
<1>9. ImportInv(d, vault) /\ ExportInv(d, vault)
  BY <1>1, <1>5, <1>7 DEF ImportInv, ExportInv
<1>. QED BY <1>2, <1>3, <1>4, <1>6, <1>8, <1>9, QuietStepKeeps DEF Good

LEMMA FillKeeps ==
  ASSUME TransferInv, NEW p \in Procs, Fill(p)
  PROVE  TransferInv'
<1>. DEFINE c == cmd[p]
            d == [c EXCEPT !.step = "ok", !.at = 1]
<1>1. /\ c \in Commands /\ StepInv(c) /\ NotedInv(c) /\ ExportInv(c, vault) /\ c.step = "fill"
  BY CommandIsGood DEF Fill, At
<1>2. /\ cmd' = [cmd EXCEPT ![p] = d] /\ UNCHANGED <<vault, request, access, started>>
  BY DEF Fill, Goto, storeVars, TransferInv
<1>3. cmd[p].step \notin Calls
  BY <1>1 DEF Calls
<1>4. PICK f \in {[form |-> c.form, entries |-> c.list], Torn} : files' = [files EXCEPT ![c.ext] = f]
  BY DEF Fill
<1>5. f \in Files
  <2>1. c.form \in {"encrypt", "mvx"} /\ c.list \in Seq(Entries)
    BY <1>1 DEF StepInv, Commands
  <2>. QED BY <1>4, <2>1, NoFileIsFile DEF Files
<1>6. StoreInv'
  BY <1>2, <1>4, <1>5 DEF TransferInv, StoreInv
<1>. HIDE DEF c
<1>7. /\ d \in Commands /\ d.kind = c.kind /\ d.step = "ok" /\ d.list = c.list
      /\ d.form = c.form /\ d.key = c.key /\ d.stored = c.stored /\ d.noted = c.noted
      /\ d.quiet = c.quiet
  BY <1>1 DEF Commands, Steps, Ended
<1>. HIDE DEF d
<1>8. CallInv(d, Idle)
  BY IdleIsNoCall DEF CallInv
<1>9. c.kind = "export" /\ ~c.stored /\ c.noted = {}
  BY <1>1 DEF StepInv, NotedInv
<1>10. StepInv(d) /\ NotedInv(d)
  BY <1>1, <1>7, <1>9 DEF StepInv, NotedInv, Ended
<1>11. ImportInv(d, vault) /\ ExportInv(d, vault)
  BY <1>1, <1>7, <1>9 DEF ImportInv, ExportInv
<1>. QED BY <1>2, <1>3, <1>6, <1>8, <1>10, <1>11, QuietStepKeeps DEF Good

\* One turn of the records' loop.
LEMMA WriteAuditKeeps ==
  ASSUME TransferInv, NEW p \in Procs, WriteAudit(p)
  PROVE  TransferInv'
<1>. DEFINE c == cmd[p]
            noted == c.noted \cup {c.list[c.at].name}
            step == IF c.at = Len(c.list) THEN "ok" ELSE c.step
            d == [c EXCEPT !.at = c.at + 1, !.noted = noted, !.step = step]
<1>1. /\ c \in Commands /\ StepInv(c) /\ NotedInv(c) /\ ImportInv(c, vault) /\ c.step = "audit"
  BY CommandIsGood DEF WriteAudit, At
<1>2. /\ cmd' = [cmd EXCEPT ![p] = d] /\ UNCHANGED <<vault, request, access, files, started>>
  BY DEF WriteAudit, storeVars, TransferInv
<1>3. cmd[p].step \notin Calls
  BY <1>1 DEF Calls
<1>4. StoreInv'
  BY <1>2 DEF TransferInv, StoreInv
<1>. HIDE DEF c
<1>5. /\ c.stored /\ c.at \in 1..Len(c.list) /\ c.kind \in {"add", "addAll", "import"}
      /\ c.list \in Seq(Entries) /\ Len(c.list) \in Nat
      /\ c.noted = NamesUpto(c.list, c.at - 1)
  BY <1>1 DEF StepInv, NotedInv, Commands
<1>6. noted = NamesUpto(c.list, c.at)
  BY <1>5 DEF NamesUpto
<1>. DEFINE e == c.list[c.at]
<1>7. c.list[c.at].name \in Secrets
  <2>1. e \in Entries
    BY <1>5
  <2>. HIDE DEF e
  <2>2. e.name \in Secrets
    BY <2>1 DEF Entries
  <2>. QED BY <2>2 DEF e
<1>8. noted \subseteq Secrets /\ c.at + 1 \in Nat /\ (c.at + 1) - 1 = c.at
  BY <1>1, <1>5, <1>7 DEF Commands
<1>9. /\ step \in {"ok", "audit"} /\ (step = "ok" <=> c.at = Len(c.list))
      /\ step = "audit" => c.at + 1 \in 1..Len(c.list)
  BY <1>1, <1>5
<1>. HIDE DEF noted, step
<1>10. /\ d \in Commands /\ d.kind = c.kind /\ d.step = step /\ d.at = c.at + 1 /\ d.list = c.list
       /\ d.edit = c.edit /\ d.ext = c.ext /\ d.key = c.key /\ d.origin = c.origin
       /\ d.stored = c.stored /\ d.noted = noted /\ d.quiet = c.quiet
  BY <1>1, <1>8, <1>9 DEF Commands, Steps, Ended
<1>. HIDE DEF d
<1>11. CallInv(d, Idle)
  BY IdleIsNoCall DEF CallInv
<1>12. StepInv(d)
  BY <1>1, <1>5, <1>9, <1>10 DEF StepInv, Ended
<1>13. NotedInv(d)
  BY <1>5, <1>6, <1>8, <1>9, <1>10 DEF NotedInv
<1>14. ImportInv(d, vault) /\ ExportInv(d, vault)
  BY <1>1, <1>5, <1>9, <1>10 DEF ImportInv, ExportInv
<1>. QED BY <1>2, <1>3, <1>4, <1>11, <1>12, <1>13, <1>14, QuietStepKeeps DEF Good

LEMMA FreeGood ==
  ASSUME NEW v
  PROVE  Good(Free, Idle, v) /\ Free \in Commands
BY CommandTyped, FreshGood DEF Free, Kinds, Steps, Ended

LEMMA FailKeeps ==
  ASSUME TransferInv, NEW p \in Procs, Fail(p)
  PROVE  TransferInv'
BY FreeGood, LeaveKeeps DEF Fail
-----------------------------------------------------------------------------
(* The theorems *)

LEMMA InitInv == Init => TransferInv
<1>. SUFFICES ASSUME Init PROVE TransferInv
  OBVIOUS
<1>1. /\ request = [p \in Procs |-> Idle] /\ access = {}
      /\ cmd = [p \in Procs |-> Free] /\ started = 0
      /\ vault \in Vaults \cup {Store!NoVault}
  <2>1. Store!Init /\ cmd = [p \in Procs |-> Free] /\ started = 0
    BY DEF Init
  <2>2. request = [p \in Procs |-> Idle] /\ access = {}
    BY <2>1 DEF Store!Init, Store!Idle, Idle
  <2>3. \/ vault = Store!NoVault
        \/ \E n \in Names, w \in Passwords, m \in SecretMaps : vault = Store!Vault(n, w, m)
    BY <2>1 DEF Store!Init, Store!SecretMaps, SecretMaps
  <2>4. ASSUME NEW n \in Names, NEW w \in Passwords, NEW m \in SecretMaps
        PROVE  Store!Vault(n, w, m) \in Vaults
    BY DEF Store!Vault, Vaults
  <2>. QED BY <2>1, <2>2, <2>3, <2>4
<1>2. files \in [Extensions -> Files]
  <2>1. PICK t \in Texts :
          files = [x \in Extensions |-> IF x = ".env" THEN [form |-> "text", entries |-> t] ELSE NoFile]
    BY DEF Init
  <2>2. [form |-> "text", entries |-> t] \in Files
    BY TransferAssumption DEF Files
  <2>. QED BY <2>1, <2>2, NoFileIsFile
<1>3. StoreInv /\ AccessInv
  BY <1>1, <1>2, TransferAssumption DEF StoreInv, AccessInv
<1>. QED BY <1>1, <1>3, FreeGood, IdleIsNoCall DEF TransferInv

LEMMA StepInvariant == TransferInv /\ [Next]_transferVars => TransferInv'
<1>. SUFFICES ASSUME TransferInv, [Next]_transferVars PROVE TransferInv'
  OBVIOUS
<1>1. ASSUME NEW p \in Procs, \/ StartAdd(p) \/ StartAddAll(p) \/ StartImport(p)
                              \/ StartExport(p) \/ StartRemove(p)
      PROVE  TransferInv'
  BY <1>1, StartAddKeeps, StartAddAllKeeps, StartImportKeeps, StartExportKeeps, StartRemoveKeeps
<1>2. ASSUME NEW p \in Procs, \/ ReadFile(p) \/ CallUnlock(p) \/ Unlocked(p) \/ CallEdit(p)
                              \/ Edit(p) \/ EditReturns(p)
      PROVE  TransferInv'
  BY <1>2, ReadFileKeeps, CallUnlockKeeps, UnlockedKeeps, CallEditKeeps, EditKeeps,
     EditReturnsKeeps
<1>3. ASSUME NEW p \in Procs, \/ Verify(p) \/ ListNames(p) \/ Fetch(p) \/ Truncate(p) \/ Fill(p)
                              \/ WriteAudit(p) \/ Fail(p)
      PROVE  TransferInv'
  BY <1>3, VerifyKeeps, ListNamesKeeps, FetchKeeps, TruncateKeeps, FillKeeps, WriteAuditKeeps,
     FailKeeps
<1>4. CASE UNCHANGED transferVars
  BY <1>4 DEF transferVars, storeVars, TransferInv, StoreInv, AccessInv
<1>. QED BY <1>1, <1>2, <1>3, <1>4 DEF Next

\* The inductive invariant: until another edits the vault, what a command has stored,
\* verified and fetched is what the vault has.
THEOREM TransferInvariant == Spec => []TransferInv
BY InitInv, StepInvariant, PTL DEF Spec

\* Every variable has its type; a command that is done holds nothing.
THEOREM TransferTypeCorrect == Spec => []TransferTypeOK
<1>1. TransferInv => TransferTypeOK
  <2>. SUFFICES ASSUME TransferInv PROVE TransferTypeOK
    OBVIOUS
  <2>1. vault = Store!NoVault
          \/ vault \in {Store!Vault(n, w, m) : n \in Names, w \in Passwords, m \in SecretMaps}
    <3>1. ASSUME vault \in Vaults
          PROVE  vault \in {Store!Vault(n, w, m) : n \in Names, w \in Passwords, m \in SecretMaps}
      <4>1. vault = Store!Vault(vault.name, vault.pw, vault.secrets)
        BY <3>1 DEF Vaults, Store!Vault
      <4>2. vault.name \in Names /\ vault.pw \in Passwords /\ vault.secrets \in SecretMaps
        BY <3>1 DEF Vaults
      <4>. QED BY <4>1, <4>2
    <3>. QED BY <3>1 DEF TransferInv, StoreInv
  <2>2. Requests \subseteq Operations \cup {Idle}
    BY DEF Requests, Keys, EditCalls, Operations
  <2>3. request \in [Procs -> Operations \cup {Idle}] /\ access \subseteq Procs
    BY <2>2 DEF TransferInv, AccessInv
  <2>4. files \in [Extensions -> Files] /\ started \in 0..MaxCommands
    BY DEF TransferInv, StoreInv
  <2>5. ASSUME NEW p \in Procs
        PROVE  /\ cmd[p].step \in Calls \cup Ended \cup {"read", "audit", "write", "fill"}
               /\ cmd[p].list \in Seq(Entries) /\ cmd[p].names \in Seq(Secrets)
               /\ cmd[p].origin \in Files /\ cmd[p].noted \subseteq Secrets
    BY CommandIsGood DEF Commands, Steps
  <2>6. ASSUME NEW p \in Procs, cmd[p].step \in Ended
        PROVE  request[p] = Idle /\ p \notin access
    BY <2>6, CommandIsGood DEF CallInv, Ended, Calls, TransferInv, AccessInv
  <2>. QED BY <2>1, <2>3, <2>4, <2>5, <2>6 DEF TransferTypeOK
<1>. QED BY <1>1, TransferInvariant, PTL

\* Whatever others do in between, an import that no one else's edit has met accuses the
\* vault of nothing but what its own file does: two values for one name.
THEOREM AlarmsAreTrue == Spec => []NoFalseAlarm
<1>1. TransferInv => NoFalseAlarm
  BY CommandIsGood DEF NoFalseAlarm, ImportInv, At
<1>. QED BY <1>1, TransferInvariant, PTL

\* The records of a command are of what it has stored, and they are all there when it
\* reports success.
THEOREM RecordsAreOfTheEdit == Spec => []RecordsFollowEdit
<1>1. TransferInv => RecordsFollowEdit
  <2>. SUFFICES ASSUME TransferInv, NEW p \in Procs
                PROVE  /\ cmd[p].noted # {} => cmd[p].stored
                       /\ At(p, "ok") /\ cmd[p].kind \in {"add", "addAll", "import"} =>
                            cmd[p].noted = {cmd[p].list[i].name : i \in DOMAIN cmd[p].list}
    BY DEF RecordsFollowEdit
  <2>1. DOMAIN cmd[p].list = 1..Len(cmd[p].list)
    BY CommandIsGood DEF Commands
  <2>. QED BY <2>1, CommandIsGood DEF NotedInv, NamesUpto, At
<1>. QED BY <1>1, TransferInvariant, PTL

\* An export that no one else's edit has met is the vault, for any number of secrets.
THEOREM QuietExportsAreWhole == Spec => []QuietExportIsWhole
<1>1. TransferInv => QuietExportIsWhole
  <2>. SUFFICES ASSUME TransferInv, NEW p \in Procs, At(p, "ok"), cmd[p].kind = "export",
                       cmd[p].quiet
                PROVE  vault.secrets = Edited(EmptyMap, AsEdit(cmd[p].list))
    BY DEF QuietExportIsWhole
  <2>. DEFINE l == cmd[p].list
  <2>1. /\ vault \in Vaults /\ AgreeUpto(l, Len(l), vault.secrets) /\ l \in Seq(Entries)
        /\ \A s \in Secrets : vault.secrets[s] # NoValue => \E i \in DOMAIN l : l[i].name = s
    BY CommandIsGood DEF ExportInv, At, Commands
  <2>2. vault.secrets \in [Secrets -> Values \cup {NoValue}] /\ DOMAIN l = 1..Len(l)
    BY <2>1 DEF Vaults, SecretMaps
  <2>. HIDE DEF l
  <2>3. ASSUME NEW s \in Secrets
        PROVE  vault.secrets[s] = Edited(EmptyMap, AsEdit(l))[s]
    <3>1. CASE s \in DOMAIN AsEdit(l)
      <4>1. PICK j \in DOMAIN l : l[j].name = s /\ AsEdit(l)[s] = l[j].value
        BY <2>1, <3>1, AsEditIs
      <4>. QED BY <2>1, <2>2, <3>1, <4>1 DEF AgreeUpto, Edited
    <3>2. CASE s \notin DOMAIN AsEdit(l)
      <4>1. vault.secrets[s] = NoValue
        <5>. SUFFICES ASSUME vault.secrets[s] # NoValue PROVE FALSE
          OBVIOUS
        <5>1. PICK i \in DOMAIN l : l[i].name = s
          BY <2>1
        <5>2. DOMAIN AsEdit(l) = {l[k].name : k \in DOMAIN l}
          BY <2>1, AsEditIs
        <5>. QED BY <3>2, <5>1, <5>2
      <4>. QED BY <3>2, <4>1 DEF Edited, EmptyMap
    <3>. QED BY <3>1, <3>2
  <2>4. Edited(EmptyMap, AsEdit(l)) = [s \in Secrets |-> Edited(EmptyMap, AsEdit(l))[s]]
    BY DEF Edited
  <2>. HIDE DEF l
  <2>5. vault.secrets = Edited(EmptyMap, AsEdit(l))
    BY <2>2, <2>3, <2>4
  <2>. QED BY <2>5 DEF l
<1>. QED BY <1>1, TransferInvariant, PTL

\* An .mvx bundle brings back what it was made of, for any values and any file in its place.
THEOREM MvxBringsBack == Spec => []MvxRestores
<1>1. TransferInv => MvxRestores
  <2>. SUFFICES ASSUME TransferInv, NEW p \in Procs, cmd[p].origin.form = "mvx",
                       cmd[p].ext = ".mvx", At(p, "ok"), cmd[p].kind = "import", cmd[p].quiet
                PROVE  \A i \in DOMAIN cmd[p].origin.entries :
                         vault.secrets[cmd[p].origin.entries[i].name] = cmd[p].origin.entries[i].value
    BY DEF MvxRestores, Restored
  <2>1. /\ AgreeUpto(cmd[p].list, Len(cmd[p].list), vault.secrets)
        /\ cmd[p].list = cmd[p].origin.entries /\ cmd[p].list \in Seq(Entries)
    BY CommandIsGood DEF ImportInv, At, Commands
  <2>2. DOMAIN cmd[p].list = 1..Len(cmd[p].list)
    BY <2>1
  <2>. QED BY <2>1, <2>2 DEF AgreeUpto
<1>. QED BY <1>1, TransferInvariant, PTL

\* So does one of the default format whose values are lines as they are.
THEOREM PlainBackupsComeBack == Spec => []PlainBackupRestores
<1>1. TransferInv => PlainBackupRestores
  <2>. SUFFICES ASSUME TransferInv, NEW p \in Procs, cmd[p].origin.form = "encrypt",
                       cmd[p].ext = ".env.mvenc",
                       \A i \in DOMAIN cmd[p].origin.entries : Plain(cmd[p].origin.entries[i].value),
                       At(p, "ok"), cmd[p].kind = "import", cmd[p].quiet
                PROVE  \A i \in DOMAIN cmd[p].origin.entries :
                         vault.secrets[cmd[p].origin.entries[i].name] = cmd[p].origin.entries[i].value
    BY DEF PlainBackupRestores, Restored
  <2>1. /\ AgreeUpto(cmd[p].list, Len(cmd[p].list), vault.secrets)
        /\ cmd[p].list = Lines(cmd[p].origin.entries) /\ cmd[p].origin.entries \in Seq(Entries)
    BY CommandIsGood DEF ImportInv, At, Commands, Files
  <2>2. cmd[p].list = cmd[p].origin.entries
    BY <2>1, PlainLines
  <2>3. DOMAIN cmd[p].origin.entries = 1..Len(cmd[p].origin.entries)
    BY <2>1
  <2>. QED BY <2>1, <2>2, <2>3 DEF AgreeUpto
<1>. QED BY <1>1, TransferInvariant, PTL

\* The commands use the vault as VaultSpec, which VaultStore implements, lets any client
\* use it: every call they make is one of its operations, called and completed in turn.
THEOREM CommandsAreClients == Spec => Store!Spec
<1>1. Init => Store!Init
  BY DEF Init
<1>2. TransferInv /\ [Next]_transferVars => [Store!Next]_(Store!vars)
  <2>. SUFFICES ASSUME TransferInv, [Next]_transferVars PROVE [Store!Next]_(Store!vars)
    OBVIOUS
  <2>1. Requests \ {Idle} \subseteq Store!Operations
    BY DEF Requests, Keys, EditCalls, Store!Operations, Store!Edits, Store!Settings,
           Store!Removals, Edits, Settings, Removals
  <2>2. ASSUME NEW p \in Procs, CallUnlock(p) \/ CallEdit(p)
        PROVE  Store!Next
    <3>1. PICK o \in Requests \ {Idle} : Store!Invoke(p, o)
      <4>1. CASE CallUnlock(p)
        <5>1. cmd[p].key \in Keys
          BY <4>1, CommandIsGood DEF CallUnlock, StepInv, Calls, Ended
        <5>2. cmd[p].key \in Requests \ {Idle}
          BY <5>1, IdleIsNoCall DEF Requests, Keys
        <5>. QED BY <4>1, <5>2 DEF CallUnlock
      <4>2. CASE CallEdit(p)
        <5>. DEFINE o == [kind |-> "edit", edit |-> cmd[p].edit]
        <5>1. cmd[p].edit \in Edits
          BY <4>2, CommandIsGood DEF CallEdit, Open, At, StepInv
        <5>2. o \in EditCalls /\ o.kind # Idle.kind
          BY <5>1 DEF EditCalls, Idle
        <5>3. Store!Invoke(p, o)
          BY <4>2 DEF CallEdit
        <5>. HIDE DEF o
        <5>. QED BY <5>2, <5>3 DEF Requests
      <4>. QED BY <2>2, <4>1, <4>2
    <3>. QED BY <2>1, <3>1 DEF Store!Next
  <2>3. ASSUME NEW p \in Procs, \/ Unlocked(p) \/ Edit(p) \/ EditReturns(p) \/ Verify(p)
                                \/ ListNames(p) \/ Fetch(p) \/ Fail(p)
        PROVE  Store!Next
    <3>1. Store!CommitUnlock(p) \/ Store!CommitEdit(p) \/ Store!Leave(p)
      BY <2>3 DEF Unlocked, Edit, EditReturns, Verify, ListNames, Fetch, FetchTo, Fail
    <3>. QED BY <3>1 DEF Store!Next
  <2>4. ASSUME NEW p \in Procs, \/ StartAdd(p) \/ StartAddAll(p) \/ StartImport(p)
                                \/ StartExport(p) \/ StartRemove(p) \/ ReadFile(p)
                                \/ Truncate(p) \/ Fill(p) \/ WriteAudit(p)
        PROVE  UNCHANGED storeVars
    BY <2>4 DEF StartAdd, StartAddAll, StartImport, StartExport, StartRemove, Start, ReadFile,
                Truncate, Fill, WriteAudit
  <2>. QED
    BY <2>2, <2>3, <2>4 DEF Next, transferVars, storeVars, Store!vars
<1>. QED BY <1>1, <1>2, TransferInvariant, PTL DEF Spec, Store!Spec
=============================================================================
