------------------------------- MODULE Vault -------------------------------
(***************************************************************************)
(* src/core/keys.js, src/core/vault.js and the facade's key operations:    *)
(* API keys of one person, sealed under the secret in a file beside the    *)
(* store or, once there is a passphrase, under the vault's data key.       *)
(*                                                                         *)
(* Several processes (the server, a command line) open the same store.     *)
(* Each operation runs without a break inside its process, but it is made  *)
(* of several transactions, and between them another process may write or  *)
(* this one may die.  Every step below ends where a transaction commits or *)
(* where the half second of key derivation leaves the door open.           *)
(*                                                                         *)
(* A row is abstracted to the secret that sealed it: the row opens exactly *)
(* when that secret is at hand, its id compared first and the ciphertext   *)
(* authenticated after.                                                    *)
(***************************************************************************)
EXTENDS Naturals

CONSTANTS KeyProcesses,  \* processes that have the store open
          KeyProviders,  \* providers a key can be stored for
          MaxVaults      \* bound: vaults made during a behaviour

ASSUME MaxVaultsAssumption == MaxVaults \in Nat

VARIABLES row,         \* table api_key: provider -> the secret that sealed it, or NoSecret
          vault,       \* table vault: the data key as wrapped and its key_id, or NoSecret
          vaultsMade,  \* how many data keys were drawn so far
          secretFile,  \* secret.key: "absent", "empty" (made, not yet written) or "written"
          held,        \* process -> its keySecret, or NoSecret
          op,          \* process -> the operation under way
          up,          \* processes that run
          overtaken    \* ghost: busy processes that another one wrote under

vaultVars == <<row, vault, vaultsMade, secretFile, held, op, up, overtaken>>

(* A secret is its key and the id it goes by; only a vault whose wrapping  *)
(* was overwritten has a key and an id of different vaults.  The vaults'   *)
(* secrets are numbered; two more numbers stand for the secret of the file *)
(* as written and for what an empty file is read as.                       *)
Secret(n) == [key |-> n, id |-> n]
NoSecret == Secret(0)
DataKeys == [key : 1..MaxVaults, id : 1..MaxVaults]
WrittenSecret == Secret(MaxVaults + 1)
EmptySecret == Secret(MaxVaults + 2)
FileSecret == IF secretFile = "written" THEN WrittenSecret ELSE EmptySecret
Secrets == DataKeys \cup {WrittenSecret, EmptySecret}

Idle == [kind |-> "idle"]
Operations ==
         {Idle, [kind |-> "making"]}
    \cup [kind : {"set"}, provider : KeyProviders, under : Secrets]
    \cup [kind : {"lock"}, keys : SUBSET KeyProviders]
    \cup [kind : {"remove"}, keys : SUBSET KeyProviders, opened : DataKeys]
    \cup [kind : {"reseal"}, keys : SUBSET KeyProviders, under : Secrets, then : DataKeys \cup {NoSecret}]
    \cup [kind : {"rewrap"}, opened : DataKeys]

VaultTypeOK ==
    /\ row \in [KeyProviders -> Secrets \cup {NoSecret}]
    /\ vault \in DataKeys \cup {NoSecret}
    /\ vaultsMade \in 0..MaxVaults
    /\ secretFile \in {"absent", "empty", "written"}
    /\ held \in [KeyProcesses -> DataKeys \cup {NoSecret}]
    /\ op \in [KeyProcesses -> Operations]
    /\ up \subseteq KeyProcesses
    /\ overtaken \subseteq {p \in KeyProcesses : op[p] # Idle}

VaultInit ==
    /\ row = [k \in KeyProviders |-> NoSecret]
    /\ vault = NoSecret
    /\ vaultsMade = 0
    /\ secretFile = "absent"
    /\ held = [p \in KeyProcesses |-> NoSecret]
    /\ op = [p \in KeyProcesses |-> Idle]
    /\ up = {}
    /\ overtaken = {}
-----------------------------------------------------------------------------
Stored == {k \in KeyProviders : row[k] # NoSecret}
SecretInForce == IF vault # NoSecret THEN vault ELSE FileSecret

(* What getKey and setKey work with: the process's own, or the file's.     *)
SecretOf(p) == IF held[p] # NoSecret THEN held[p] ELSE FileSecret
SecretAtHand(p) == held[p] # NoSecret \/ secretFile # "absent"

(* p goes on to its next step; what a write of its passes over the heads of.*)
Goes(p, next) == op' = [op EXCEPT ![p] = next]
Wrote(p) ==
    overtaken' = {q \in KeyProcesses : op'[q] # Idle /\
                    (q \in overtaken \/ (q # p /\ op[q] # Idle))}
Quietly == overtaken' = {q \in overtaken : op'[q] # Idle}

Free(p) == p \in up /\ op[p] = Idle

Open(p) ==
    /\ p \notin up
    /\ up' = up \cup {p}
    /\ held' = [held EXCEPT ![p] = NoSecret]
    /\ UNCHANGED <<row, vault, vaultsMade, secretFile, op, overtaken>>

(* The process ends, in the middle of an operation or not.                 *)
Die(p) ==
    /\ p \in up
    /\ up' = up \ {p}
    /\ held' = [held EXCEPT ![p] = NoSecret]
    /\ Goes(p, Idle)
    /\ Quietly
    /\ UNCHANGED <<row, vault, vaultsMade, secretFile>>

(* fromFile: whoever first asks for the file's secret makes the file with  *)
(* O_EXCL and fills it; until then others read it as empty.                *)
MakeSecret(p) ==
    /\ Free(p) /\ secretFile = "absent"
    /\ secretFile' = "empty"
    /\ Goes(p, [kind |-> "making"])
    /\ Wrote(p)
    /\ UNCHANGED <<row, vault, vaultsMade, held, up>>

FillSecret(p) ==
    /\ op[p].kind = "making"
    /\ secretFile' = "written"
    /\ Goes(p, Idle)
    /\ Wrote(p)
    /\ UNCHANGED <<row, vault, vaultsMade, held, up>>
-----------------------------------------------------------------------------
(* Mutant: setApiKey stores a key whatever the state of the vault. *)
AlwaysUnlocked(p) == TRUE

(* keyLockState: a vault counts as unlocked only for its own data key.     *)
Unlocked(p) == vault = NoSecret \/ held[p].id = vault.id

BeginSet(p, k) ==
    /\ Free(p) /\ Unlocked(p) /\ SecretAtHand(p)
    /\ Goes(p, [kind |-> "set", provider |-> k, under |-> SecretOf(p)])
    /\ UNCHANGED <<row, vault, vaultsMade, secretFile, held, up, overtaken>>

FinishSet(p) ==
    /\ op[p].kind = "set"
    /\ row' = [row EXCEPT ![op[p].provider] = op[p].under]
    /\ Goes(p, Idle)
    /\ Wrote(p)
    /\ UNCHANGED <<vault, vaultsMade, secretFile, held, up>>

RemoveApiKey(p, k) ==
    /\ Free(p) /\ k \in Stored
    /\ row' = [row EXCEPT ![k] = NoSecret]
    /\ UNCHANGED op
    /\ Wrote(p)
    /\ UNCHANGED <<vault, vaultsMade, secretFile, held, up>>
-----------------------------------------------------------------------------
(* lockKeys reads every key under the secret at hand and throws when one   *)
(* of them does not open.                                                  *)
AllOpenUnder(secret) == \A k \in Stored : row[k] = secret

BeginLock(p) ==
    /\ Free(p) /\ vault = NoSecret /\ SecretAtHand(p) /\ AllOpenUnder(SecretOf(p))
    /\ Goes(p, [kind |-> "lock", keys |-> Stored])
    /\ UNCHANGED <<row, vault, vaultsMade, secretFile, held, up, overtaken>>

CreateVault(p) ==
    /\ op[p].kind = "lock" /\ vault = NoSecret
    /\ vaultsMade < MaxVaults
    /\ vaultsMade' = vaultsMade + 1
    /\ vault' = Secret(vaultsMade + 1)
    /\ Goes(p, [kind |-> "reseal", keys |-> op[p].keys, under |-> vault', then |-> vault'])
    /\ Wrote(p)
    /\ UNCHANGED <<row, secretFile, held, up>>

(* One row of the keys that were read is sealed again, in a transaction    *)
(* of its own.                                                             *)
Reseal(p, k) ==
    /\ op[p].kind = "reseal" /\ k \in op[p].keys
    /\ row' = [row EXCEPT ![k] = op[p].under]
    /\ Goes(p, [op[p] EXCEPT !.keys = @ \ {k}])
    /\ Wrote(p)
    /\ UNCHANGED <<vault, vaultsMade, secretFile, held, up>>

Resealed(p) ==
    /\ op[p].kind = "reseal" /\ op[p].keys = {}
    /\ held' = [held EXCEPT ![p] = op[p].then]
    /\ Goes(p, Idle)
    /\ Quietly
    /\ UNCHANGED <<row, vault, vaultsMade, secretFile, up>>

(* unlockKeysPermanently reads every key under the data key it opened.     *)
BeginRemove(p) ==
    /\ Free(p) /\ vault # NoSecret /\ AllOpenUnder(vault)
    /\ Goes(p, [kind |-> "remove", keys |-> Stored, opened |-> vault])
    /\ UNCHANGED <<row, vault, vaultsMade, secretFile, held, up, overtaken>>

(* destroy() opens the vault once more, with the same passphrase.          *)
Destroy(p) ==
    /\ op[p].kind = "remove" /\ vault # NoSecret
    /\ vault' = NoSecret
    /\ Goes(p, [kind |-> "reseal", keys |-> op[p].keys, under |-> FileSecret, then |-> NoSecret])
    /\ Wrote(p)
    /\ held' = [held EXCEPT ![p] = NoSecret]
    /\ UNCHANGED <<row, vaultsMade, secretFile, up>>

(* create() throws when another process was there first, destroy() when    *)
(* another process removed the vault or gave it a different passphrase.    *)
GivesUp(p) ==
    /\ \/ op[p].kind = "lock" /\ vault # NoSecret
       \/ op[p].kind = "remove"
    /\ Goes(p, Idle)
    /\ Quietly
    /\ UNCHANGED <<row, vault, vaultsMade, secretFile, held, up>>
-----------------------------------------------------------------------------
UnlockKeys(p) ==
    /\ Free(p) /\ vault # NoSecret
    /\ held' = [held EXCEPT ![p] = vault]
    /\ UNCHANGED <<row, vault, vaultsMade, secretFile, op, up, overtaken>>

RelockKeys(p) ==
    /\ Free(p) /\ vault # NoSecret
    /\ held' = [held EXCEPT ![p] = NoSecret]
    /\ UNCHANGED <<row, vault, vaultsMade, secretFile, op, up, overtaken>>

BeginRewrap(p) ==
    /\ Free(p) /\ vault # NoSecret
    /\ Goes(p, [kind |-> "rewrap", opened |-> vault])
    /\ UNCHANGED <<row, vault, vaultsMade, secretFile, held, up, overtaken>>

(* The update wraps the data key that was opened and leaves key_id alone,  *)
(* whichever vault is there by now; without one it changes nothing.        *)
FinishRewrap(p) ==
    /\ op[p].kind = "rewrap"
    /\ vault' = IF vault = NoSecret THEN NoSecret ELSE [vault EXCEPT !.key = op[p].opened.key]
    /\ Goes(p, Idle)
    /\ Wrote(p)
    /\ UNCHANGED <<row, vaultsMade, secretFile, held, up>>

VaultStep(p) ==
    \/ Open(p) \/ Die(p) \/ MakeSecret(p) \/ FillSecret(p)
    \/ FinishSet(p) \/ BeginLock(p) \/ CreateVault(p) \/ Resealed(p)
    \/ BeginRemove(p) \/ Destroy(p) \/ GivesUp(p)
    \/ UnlockKeys(p) \/ RelockKeys(p) \/ BeginRewrap(p) \/ FinishRewrap(p)
    \/ \E k \in KeyProviders : BeginSet(p, k) \/ RemoveApiKey(p, k) \/ Reseal(p, k)

VaultNext == \E p \in KeyProcesses : VaultStep(p)
VaultSpec == VaultInit /\ [][VaultNext]_vaultVars
-----------------------------------------------------------------------------
(* A key is safe when the secret in force opens it, or a process that has  *)
(* read it is about to seal it again.                                      *)
Safe(k) == \/ row[k] = SecretInForce
           \/ \E p \in up : op[p].kind = "reseal" /\ k \in op[p].keys

(* A removed vault leaves its data key behind in whoever had unlocked it,  *)
(* and keyLockState, seeing no vault, lets that process store a key.  The  *)
(* same holds of a data key that a late changePassphrase wrapped over.     *)
Leftover(p) == op[p].kind = "set" /\ op[p].under \in DataKeys \ {SecretInForce}

(* lockKeys says of its keys that they are re-sealed "in the same          *)
(* transaction", for "a crash inside that window loses them".  They are    *)
(* not: a process that dies with keys it has still to seal again leaves    *)
(* them to a secret that is not in force, and after unlockKeysPermanently  *)
(* to one that is gone.                                                    *)
DiesMidway(p, k) == op[p].kind = "reseal" /\ k \in op[p].keys /\ p \notin up'

(* No step takes a safe key, or one it writes, out of reach but in three   *)
(* windows: the key is one of those DiesMidway loses; another process     *)
(* wrote in the middle of the operation; a key is sealed under a data key  *)
(* that no vault wraps any more.  A death takes no other key than these,   *)
(* wherever it falls, and one process alone only these.                    *)
StayWithinReach ==
    \A k \in KeyProviders :
        (row[k] # NoSecret /\ Safe(k)) \/ row'[k] \notin {row[k], NoSecret}
        => \/ row'[k] = NoSecret
           \/ Safe(k)'
           \/ \E p \in KeyProcesses : /\ op'[p] # op[p]
                                      /\ \/ p \in overtaken
                                         \/ DiesMidway(p, k)
                                         \/ Leftover(p)

KeysStayWithinReach == [][StayWithinReach]_vaultVars
=============================================================================
