----------------------------- MODULE VaultData -----------------------------
(***************************************************************************)
(* The values a vault is made of: secret maps, the edits clients make to   *)
(* them, and the operations clients call.  VaultSpec says what the         *)
(* operations promise, VaultStore how the code carries them out.           *)
(***************************************************************************)
CONSTANTS
  Procs,      \* threads, of one process or of several, using the vault file
  Names,      \* vault names that sanitize_vault_name maps to one file name
  Passwords,
  Secrets,    \* secret names
  Values,     \* secret values
  NoValue     \* marks a secret that is not in a map

ASSUME NoValueAssumption == NoValue \notin Values

\* A secret map gives every secret name a value, or NoValue when it is absent.
SecretMaps == [Secrets -> Values \cup {NoValue}]
EmptyMap == [s \in Secrets |-> NoValue]

\* An edit says what becomes of the secrets it names: set_secrets_bulk sets
\* any number of them, set_secret one, remove_secret takes one away.
Settings == UNION { [S -> Values] : S \in SUBSET Secrets }
Removals == UNION { [{s} -> {NoValue}] : s \in Secrets }
Edits == Settings \cup Removals

\* Seeded fault: the edit takes the place of the map.
EditedWhole(m, e) == e

Edited(m, e) == [s \in Secrets |-> IF s \in DOMAIN e THEN e[s] ELSE m[s]]

Idle == [kind |-> "idle"]

Operations ==
  [kind : {"create", "unlock"}, name : Names, pw : Passwords]
    \cup [kind : {"passwd"}, name : Names, pw : Passwords, new : Passwords]
    \cup [kind : {"edit"}, edit : Edits]
=============================================================================
