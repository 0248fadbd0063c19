------------------------------- MODULE TpmToken -------------------------------
(***************************************************************************)
(* pkcs11.rs::open: the node key in a tpm2-pkcs11 token.  On first boot the *)
(* token is initialised, given a random user PIN and the PIN is stored in a *)
(* file; on later boots the file is read and the token opened with it.     *)
(* The token and its store are external and durable.  The PIN file is not  *)
(* written through write_atomic: it is created empty, written in place, and *)
(* the result of its fsync is dropped.                                     *)
(***************************************************************************)
EXTENDS Naturals

CONSTANTS
    Keys, NoKey,       \* private keys, no key
    Pins, NoPin,       \* random_pin, no PIN and no PIN file
    EmptyPin           \* what read_pin returns for an empty file

ASSUME TokenAssumption ==
    /\ NoKey \notin Keys
    /\ NoPin \notin Pins
    /\ EmptyPin \notin Pins \cup {NoPin}

VARIABLES
    initialised,  \* has C_InitToken been done?
    tokenPin,     \* the token's user PIN
    tokenKey,     \* the key pair labelled key_label
    pinFile,      \* cfg.pin_file
    pinSafe,      \* would the PIN file survive a power loss as it is?
    at,           \* where open() is; "closed" before and after the call
    userPin       \* user_pin in open() and provision_token()

token == <<initialised, tokenPin, tokenKey>>
tokenVars == <<token, pinFile, pinSafe, at, userPin>>

TokenTypeOK ==
    /\ initialised \in BOOLEAN
    /\ tokenPin \in Pins \cup {NoPin}
    /\ tokenKey \in Keys \cup {NoKey}
    /\ pinFile \in Pins \cup {NoPin, EmptyPin}
    /\ pinSafe \in BOOLEAN
    /\ at \in {"closed", "start", "initToken", "initPin", "createPin", "writePin",
               "login", "key"}
    /\ userPin \in Pins \cup {NoPin, EmptyPin}

\* A wiped store.
TokenInit ==
    /\ initialised = FALSE /\ tokenPin = NoPin /\ tokenKey = NoKey
    /\ pinFile = NoPin /\ pinSafe = TRUE
    /\ at = "closed" /\ userPin = NoPin

-----------------------------------------------------------------------------

\* The PIN file exists: the token counts as provisioned.
ReadPin ==
    /\ at = "start" /\ pinFile # NoPin
    /\ userPin' = pinFile
    /\ at' = "login"
    /\ UNCHANGED <<token, pinFile, pinSafe>>

\* It does not: provision_token draws its PINs, never the token's old one.
Provision ==
    /\ at = "start" /\ pinFile = NoPin
    /\ userPin' \in Pins \ {tokenPin}
    /\ at' = "initToken"
    /\ UNCHANGED <<token, pinFile, pinSafe>>

\* C_InitToken.  An initialised token wants the SO PIN it was initialised
\* with, which was discarded.
InitToken ==
    /\ at = "initToken" /\ ~initialised
    /\ initialised' = TRUE
    /\ at' = "initPin"
    /\ UNCHANGED <<tokenPin, tokenKey, pinFile, pinSafe, userPin>>

\* login as SO, C_InitPIN, logout.
InitPin ==
    /\ at = "initPin"
    /\ tokenPin' = userPin
    /\ at' = "createPin"
    /\ UNCHANGED <<initialised, tokenKey, pinFile, pinSafe, userPin>>

\* write_pin: the file is created, or truncated.
CreatePin ==
    /\ at = "createPin"
    /\ pinFile' = EmptyPin /\ pinSafe' = FALSE
    /\ at' = "writePin"
    /\ UNCHANGED <<token, userPin>>

\* Mutant: the error of write_all is dropped like that of sync_all.
WritePin_ErrorDropped ==
    /\ at = "writePin"
    /\ pinFile' \in {userPin, pinFile}
    /\ at' = "login"
    /\ UNCHANGED <<token, pinSafe, userPin>>

\* write_pin: the PIN is written; sync_all().ok() may or may not have made
\* it durable, and the directory is not synced.
WritePin ==
    /\ at = "writePin"
    /\ pinFile' = userPin
    /\ at' = "login"
    /\ UNCHANGED <<token, pinSafe, userPin>>

\* Pkcs11KeyProvider::new logs in as user.
Login ==
    /\ at = "login" /\ initialised /\ tokenPin = userPin
    /\ at' = "key"
    /\ UNCHANGED <<token, pinFile, pinSafe, userPin>>

\* Mutant: the key is generated on every start.
EnsureKey_Regenerate(fresh) ==
    /\ at = "key"
    /\ tokenKey' \in fresh
    /\ at' = "closed" /\ userPin' = NoPin
    /\ UNCHANGED <<initialised, tokenPin, pinFile, pinSafe>>

\* ensure_key: find the key by its label, or generate one of `fresh`.
EnsureKey(fresh) ==
    /\ at = "key"
    /\ tokenKey' \in IF tokenKey = NoKey THEN fresh ELSE {tokenKey}
    /\ at' = "closed" /\ userPin' = NoPin
    /\ UNCHANGED <<initialised, tokenPin, pinFile, pinSafe>>

\* The steps of open() before the last one.
OpenStep ==
    ReadPin \/ Provision \/ InitToken \/ InitPin \/ CreatePin \/ WritePin \/ Login

\* The token refuses: C_InitToken on an initialised token, or a wrong PIN.
Refused ==
    \/ at = "initToken" /\ initialised
    \/ at = "login" /\ ~(initialised /\ tokenPin = userPin)

\* The process is gone; token and file stay.
TokenClosed ==
    /\ at' = "closed" /\ userPin' = NoPin
    /\ UNCHANGED <<token, pinFile, pinSafe>>

\* The kernel writes the PIN file and its directory entry back.
PinWriteback ==
    /\ ~pinSafe /\ at # "writePin"
    /\ pinSafe' = TRUE
    /\ UNCHANGED <<token, pinFile, at, userPin>>

\* A power loss finds the file as it is, empty, or not yet in its directory.
TokenPowerLoss ==
    /\ pinFile' \in IF pinSafe THEN {pinFile} ELSE {NoPin, EmptyPin, pinFile}
    /\ pinSafe' = TRUE
    /\ at' = "closed" /\ userPin' = NoPin
    /\ UNCHANGED token

-----------------------------------------------------------------------------

\* Between C_InitToken and the PIN's arrival in its file.
Provisioning == at \in {"initPin", "createPin", "writePin"}

\* The PIN file opens the token.
PinFileOpens == initialised /\ pinFile = tokenPin /\ pinFile \in Pins

\* The token can never be opened again: it is initialised, and nobody has
\* its PIN.
TokenLost == initialised /\ ~Provisioning /\ ~PinFileOpens
=============================================================================
