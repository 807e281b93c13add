----------------------------- MODULE VaultSpec -----------------------------
(***************************************************************************)
(* What a vault file promises its clients, with no lock, no temporary      *)
(* file, no key and no format version: one vault that is created once, and *)
(* operations that take effect in one step between their call and their    *)
(* return, or not at all.  VaultStore, which models the code of            *)
(* mevault-core/src/vault/mod.rs, implements this module.                  *)
(***************************************************************************)
EXTENDS VaultData

VARIABLES
  vault,    \* NoVault, or the vault's name, password and secrets
  request,  \* request[p] : the operation p has called, or Idle
  access    \* the processes that hold an unlocked vault

vars == <<vault, request, access>>

NoVault == [kind |-> "none"]
Vault(n, pw, m) == [kind |-> "vault", name |-> n, pw |-> pw, secrets |-> m]

\* The name and the password p has given are those of the vault.
Knows(p) == /\ vault.kind = "vault"
            /\ vault.name = request[p].name
            /\ vault.pw = request[p].pw
-----------------------------------------------------------------------------
Init == /\ \/ vault = NoVault
           \/ \E n \in Names, pw \in Passwords, m \in SecretMaps :
                vault = Vault(n, pw, m)
        /\ request = [p \in Procs |-> Idle]
        /\ access = {}

Invoke(p, o) ==
  /\ request[p] = Idle
  /\ o.kind = "edit" => p \in access
  /\ request' = [request EXCEPT ![p] = o]
  /\ UNCHANGED <<vault, access>>

Done(p) == request' = [request EXCEPT ![p] = Idle]

\* Creating a vault that exists succeeds for who knows it, and changes nothing.
CommitCreate(p) ==
  /\ request[p].kind = "create"
  /\ \/ vault = NoVault /\ vault' = Vault(request[p].name, request[p].pw, EmptyMap)
     \/ Knows(p) /\ UNCHANGED vault
  /\ Done(p)
  /\ UNCHANGED access

CommitUnlock(p) ==
  /\ request[p].kind = "unlock"
  /\ Knows(p)
  /\ access' = access \cup {p}
  /\ Done(p)
  /\ UNCHANGED vault

CommitEdit(p) ==
  /\ request[p].kind = "edit"
  /\ p \in access
  /\ vault' = Vault(vault.name, vault.pw, Edited(vault.secrets, request[p].edit))
  /\ Done(p)
  /\ UNCHANGED access

CommitPasswd(p) ==
  /\ request[p].kind = "passwd"
  /\ Knows(p)
  /\ vault' = Vault(vault.name, request[p].new, vault.secrets)
  /\ Done(p)
  /\ UNCHANGED access

\* An operation that fails has no effect.
Reject(p) == request[p] # Idle /\ Done(p) /\ UNCHANGED <<vault, access>>

\* A process may let go of its unlocked vault, or die with a call pending.
Leave(p) == /\ Done(p)
            /\ access' = access \ {p}
            /\ UNCHANGED vault

Next == \E p \in Procs :
  \/ \E o \in Operations : Invoke(p, o)
  \/ CommitCreate(p) \/ CommitUnlock(p) \/ CommitEdit(p) \/ CommitPasswd(p)
  \/ Reject(p) \/ Leave(p)

Spec == Init /\ [][Next]_vars
=============================================================================
