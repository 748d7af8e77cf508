------------------------------ MODULE ApiKeys ------------------------------
(***************************************************************************)
(* The API keys of one account: gateway/utils/aiApiKeys.ts.  A row holds   *)
(* the digest of its current secret only; a rotation replaces it.  Every   *)
(* operator of the second part is one statement or transaction; creation   *)
(* and rotation read first and write later, and Access puts other requests *)
(* in between.                                                             *)
(***************************************************************************)
EXTENDS Naturals, FiniteSets

CONSTANTS
    KeyIds,         \* rows that may be created, numbered in the order they are
    MaxActiveKeys,  \* AUTONOMIA_MAX_ACTIVE_KEYS
    MaxSecrets      \* bound: secrets a key has had, the first included

ASSUME ApiKeysAssumption ==
    /\ KeyIds \subseteq Nat \ {0}
    /\ MaxActiveKeys \in Nat \ {0} /\ MaxSecrets \in Nat \ {0}

VARIABLES
    keyRow,     \* [KeyIds -> ai_api_keys row]
    given,      \* secrets that were returned to the user (read by no guard)
    retired     \* secrets that a rotation or a revocation withdrew (read by no guard)

keyVars == <<keyRow, given, retired>>

\* Secrets are numbered in the order in which their digests are written.
Secrets == KeyIds \X (1..MaxSecrets)

KeyRow == [state : {"none", "active", "revoked"}, secret : 0..MaxSecrets, expired : BOOLEAN]

KeysTypeOK ==
    /\ keyRow \in [KeyIds -> KeyRow]
    /\ given \subseteq Secrets
    /\ retired \subseteq Secrets

KeysInit ==
    /\ keyRow = [k \in KeyIds |-> [state |-> "none", secret |-> 0, expired |-> FALSE]]
    /\ given = {}
    /\ retired = {}

\* One key exists.
KeysInitWith(k) ==
    /\ \A j \in KeyIds : k <= j
    /\ keyRow = [j \in KeyIds |-> [state |-> IF j = k THEN "active" ELSE "none",
                                  secret |-> IF j = k THEN 1 ELSE 0, expired |-> FALSE]]
    /\ given = {<<k, 1>>}
    /\ retired = {}

-----------------------------------------------------------------------------

Active(k) == keyRow[k].state = "active" /\ ~keyRow[k].expired

ActiveKeys == {k \in KeyIds : Active(k)}

\* The COUNT of createAutonomiaApiKey.
RoomForKey == Cardinality(ActiveKeys) < MaxActiveKeys

\* Rows get their ids in order.
NextKey(k) == keyRow[k].state = "none" /\ \A j \in KeyIds : j < k => keyRow[j].state # "none"

\* INSERT, and the secret goes to the user.
InsertKey(k) ==
    /\ NextKey(k)
    /\ keyRow' = [keyRow EXCEPT ![k] = [@ EXCEPT !.state = "active", !.secret = 1]]
    /\ given' = given \cup {<<k, 1>>}
    /\ UNCHANGED retired

\* The SELECT of rotateAutonomiaApiKey: an expired key may be rotated.
Rotatable(k) == keyRow[k].state = "active"

\* Mutant of RotateKey: the row is not looked at again.
RotateKeyUnchecked(k) ==
    /\ keyRow[k].secret < MaxSecrets
    /\ keyRow' = [keyRow EXCEPT ![k].secret = @ + 1]
    /\ given' = given \cup {<<k, keyRow[k].secret + 1>>}
    /\ retired' = retired \cup {<<k, keyRow[k].secret>>}

\* The guarded UPDATE of rotateAutonomiaApiKey, and the new secret goes to the user.
RotateKey(k) ==
    /\ Rotatable(k)
    /\ keyRow[k].secret < MaxSecrets
    /\ keyRow' = [keyRow EXCEPT ![k].secret = @ + 1]
    /\ given' = given \cup {<<k, keyRow[k].secret + 1>>}
    /\ retired' = retired \cup {<<k, keyRow[k].secret>>}

\* revokeAutonomiaApiKey, which may be repeated.
RevokeKey(k) ==
    /\ keyRow[k].state # "none"
    /\ keyRow' = [keyRow EXCEPT ![k].state = "revoked"]
    /\ retired' = retired \cup {<<k, keyRow[k].secret>>}
    /\ UNCHANGED given

\* The clock reaches expires_at.
ExpireKey(k) ==
    /\ Active(k)
    /\ keyRow' = [keyRow EXCEPT ![k].expired = TRUE]
    /\ UNCHANGED <<given, retired>>

\* The SELECT of authenticateAutonomiaApiKey.
Authenticates(s) == Active(s[1]) /\ keyRow[s[1]].secret = s[2]

-----------------------------------------------------------------------------
(* Properties *)

\* A secret the user was given works until the key expires, or a later rotation or
\* revocation withdraws it: a rotation that loses a race returns no dead secret.
GivenSecretsWork ==
    \A s \in given \ retired : keyRow[s[1]].expired \/ Authenticates(s)

=============================================================================
