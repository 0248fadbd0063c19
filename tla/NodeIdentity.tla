----------------------------- MODULE NodeIdentity -----------------------------
(***************************************************************************)
(* The life of noded's identity: opening the TPM token (TpmToken),         *)
(* bootstrap enrollment, renewal at startup, loading the server            *)
(* certificate, live renewal, and the restarts that can come between any   *)
(* two of these (main.rs::run, renewal_loop, est.rs::bootstrap_enroll,     *)
(* reenroll).                                                              *)
(*                                                                         *)
(* A call of write_atomic is one step on a durable file: AtomicWriteProofs *)
(* proves that it implements one.  A certificate is a serial number and    *)
(* the key it was issued for; the EST server is external and known only by *)
(* its answers.  Serials and keys are reused once nothing refers to them,  *)
(* so the number of enrollments is not bounded.                            *)
(***************************************************************************)
EXTENDS TpmToken

CONSTANTS
    Serials, NoSerial,    \* certificates, an absent certificate file
    BootstrapAttempts,    \* BOOTSTRAP_ATTEMPTS
    ReenrollAttempts      \* REENROLL_ATTEMPTS

ASSUME NodeIdentityAssumption ==
    /\ NoSerial \notin Serials
    /\ BootstrapAttempts \in Nat \ {0}
    /\ ReenrollAttempts \in Nat \ {0}

VARIABLES
    tpm,        \* config.tpm.is_some(): the key lives in the token
    certFile,   \* config.cert_file
    keyFile,    \* config.key_file
    caFile,     \* does config.client_ca exist?
    life,       \* serial -> how much of its validity is left
    pc,         \* where noded's run() is; no process when "down" or "failed"
    attempt,    \* attempts of the enrollment loop run() is in
    job,        \* the enrollment in progress: next step, certificate, key
    served,     \* ReloadableCert.current: certificate and signing key
    renewed     \* has a renewal ever replaced certFile?

files == <<certFile, keyFile, caFile, renewed>>
vars == <<tpm, files, life, pc, attempt, job, served, tokenVars>>

Certs == [serial : Serials, key : Keys]
NoCert == [serial |-> NoSerial, key |-> NoKey]
NoJob == [step |-> "none", cert |-> NoCert, key |-> NoKey]
Unserved == [cert |-> NoCert, key |-> NoKey]

TypeOK ==
    /\ TokenTypeOK
    /\ tpm \in BOOLEAN
    /\ certFile \in Certs \cup {NoCert}
    /\ keyFile \in Keys \cup {NoKey}
    /\ caFile \in BOOLEAN
    /\ life \in [Serials -> {"fresh", "due", "expired"}]
    /\ pc \in {"down", "failed", "open", "check", "bootstrap", "renew", "load", "serve"}
    /\ attempt \in 0..(IF pc = "bootstrap" THEN BootstrapAttempts ELSE ReenrollAttempts)
    /\ job \in [step : {"none", "request", "cert", "key", "ca", "reload"},
                cert : Certs \cup {NoCert}, key : Keys \cup {NoKey}]
    /\ served \in [cert : Certs \cup {NoCert}, key : Keys \cup {NoKey}]
    /\ renewed \in BOOLEAN

\* A node as imaged: no PKI, an empty token, either key mode.
Init ==
    /\ tpm \in BOOLEAN
    /\ certFile = NoCert /\ keyFile = NoKey /\ caFile = FALSE /\ TokenInit
    /\ life = [s \in Serials |-> "fresh"]
    /\ pc = "down" /\ attempt = 0 /\ job = NoJob /\ served = Unserved
    /\ renewed = FALSE

-----------------------------------------------------------------------------

\* Mutant: the management CA bundle is not looked at.
PkiPresent_WithoutCa == certFile # NoCert /\ (tpm \/ keyFile # NoKey)

\* node_pki_present.
PkiPresent == certFile # NoCert /\ (tpm \/ keyFile # NoKey) /\ caFile

\* Mutant: renewal waits for the certificate to expire.
NeedsRenewal_OnlyExpired == life[certFile.serial] = "expired"

\* cert_needs_renewal: the last third of the lifetime, or past it.
NeedsRenewal == life[certFile.serial] # "fresh"

\* The key the node signs with: the token's, or the one in the key file.
OwnKey == IF tpm THEN tokenKey ELSE keyFile

\* Identifiers nothing refers to any more.
FreshKeys == Keys \ {tokenKey, keyFile, certFile.key, served.cert.key, served.key, job.key}
FreshSerials == Serials \ {certFile.serial, served.cert.serial, job.cert.serial}

\* generate_node_csr makes a key pair, generate_node_csr_tpm uses the token's.
CsrKeys == IF tpm THEN {tokenKey} ELSE FreshKeys

-----------------------------------------------------------------------------
(* run(), up to the accept loop.                                           *)

\* initd starts noded, and starts it again whenever it exits.  With a token,
\* run() begins with pkcs11::open.
Start ==
    /\ pc \in {"down", "failed"}
    /\ pc' = IF tpm THEN "open" ELSE "check"
    /\ at' = IF tpm THEN "start" ELSE at
    /\ UNCHANGED <<tpm, files, life, attempt, job, served, token, pinFile, pinSafe, userPin>>

\* pkcs11::open goes on.
OpenToken ==
    /\ pc = "open" /\ OpenStep
    /\ UNCHANGED <<tpm, files, life, pc, attempt, job, served>>

\* pkcs11::open returns with the key.
TokenOpened ==
    /\ pc = "open" /\ EnsureKey(FreshKeys)
    /\ pc' = "check"
    /\ UNCHANGED <<tpm, files, life, attempt, job, served>>

\* pkcs11::open returns Err, and so does run().
TokenRefused ==
    /\ pc = "open" /\ Refused /\ TokenClosed
    /\ pc' = "down"
    /\ UNCHANGED <<tpm, files, life, attempt, job, served>>

\* Mutant: a node whose certificate has expired enrolls with the token again.
CheckPki_ExpiredBootstraps ==
    /\ pc = "check"
    /\ pc' = IF ~PkiPresent \/ life[certFile.serial] = "expired" THEN "bootstrap"
             ELSE IF NeedsRenewal THEN "renew" ELSE "load"
    /\ job' = IF pc' = "load" THEN NoJob ELSE [NoJob EXCEPT !.step = "request"]
    /\ attempt' = IF pc' = "load" THEN 0 ELSE 1
    /\ UNCHANGED <<tpm, files, life, served, tokenVars>>

\* Missing files mean bootstrap; present ones are checked for renewal.
CheckPki ==
    /\ pc = "check"
    /\ pc' = IF ~PkiPresent THEN "bootstrap" ELSE IF NeedsRenewal THEN "renew" ELSE "load"
    /\ job' = IF pc' = "load" THEN NoJob ELSE [NoJob EXCEPT !.step = "request"]
    /\ attempt' = IF pc' = "load" THEN 0 ELSE 1
    /\ UNCHANGED <<tpm, files, life, served, tokenVars>>

\* The certificate could not be read or the clock is before 1970: noded
\* continues with what it has.
CheckPkiUnknown ==
    /\ pc = "check" /\ PkiPresent
    /\ pc' = "load"
    /\ UNCHANGED <<tpm, files, life, attempt, job, served, tokenVars>>

\* build_certified_key pairs whatever certificate and key it reads: nothing
\* compares the two.
Loaded == [cert |-> certFile, key |-> OwnKey]

\* ReloadableCert::new, build_server_config, spawn renewal_loop, bind.
Load ==
    /\ pc = "load"
    /\ served' = Loaded
    /\ pc' = "serve"
    /\ attempt' = 0
    /\ UNCHANGED <<tpm, files, life, job, tokenVars>>

\* What ends with the process.
ProcessGone ==
    /\ pc' = "failed"
    /\ attempt' = 0 /\ job' = NoJob /\ served' = Unserved
    /\ UNCHANGED <<tpm, files, life>>

\* A call of PKCS#11, a write of the PIN, a load, a bind or an accept fails
\* and run() returns Err, or the process is killed.
Exit == pc \notin {"down", "failed"} /\ ProcessGone /\ TokenClosed

\* The machine loses power, whether or not noded is running.
PowerLoss == ProcessGone /\ TokenPowerLoss

-----------------------------------------------------------------------------
(* The enrollment in progress, in whichever of the three callers it is.    *)

Step(s) == job' = [job EXCEPT !.step = s]

\* bootstrap_enroll, network part: cacerts, CSR, simpleenroll with the token.
SimpleEnroll ==
    /\ pc = "bootstrap" /\ job.step = "request"
    /\ \E k \in CsrKeys, s \in FreshSerials :
        /\ job' = [step |-> "cert", cert |-> [serial |-> s, key |-> k], key |-> k]
        /\ life' = [life EXCEPT ![s] = "fresh"]
    /\ UNCHANGED <<tpm, files, pc, attempt, served, tokenVars>>

\* The EST server lets a node in whose certificate is valid and whose key is
\* the certificate's.
ServerAccepts == certFile.key = OwnKey /\ life[certFile.serial] # "expired"

\* Mutant: the new certificate is swapped in before it is on disk.
SimpleReenroll_SwapFirst ==
    /\ pc \in {"renew", "serve"} /\ job.step = "request"
    /\ ServerAccepts
    /\ \E k \in CsrKeys, s \in FreshSerials :
        /\ job' = [step |-> "cert", cert |-> [serial |-> s, key |-> k], key |-> k]
        /\ life' = [life EXCEPT ![s] = "fresh"]
    /\ served' = IF pc = "serve" THEN [cert |-> job'.cert, key |-> job'.key] ELSE served
    /\ UNCHANGED <<tpm, files, pc, attempt, tokenVars>>

\* reenroll, network part: read certFile and the key, simplereenroll over mTLS.
SimpleReenroll ==
    /\ pc \in {"renew", "serve"} /\ job.step = "request"
    /\ ServerAccepts
    /\ \E k \in CsrKeys, s \in FreshSerials :
        /\ job' = [step |-> "cert", cert |-> [serial |-> s, key |-> k], key |-> k]
        /\ life' = [life EXCEPT ![s] = "fresh"]
    /\ UNCHANGED <<tpm, files, pc, attempt, served, tokenVars>>

\* The caller's Ok branch: run() goes on to load, the renewal loop reloads.
Done ==
    /\ IF pc = "serve" THEN Step("reload") /\ UNCHANGED <<pc, attempt>>
                       ELSE job' = NoJob /\ pc' = "load" /\ attempt' = 0

\* Mutant: the renewal loop reloads before the key is written.
WriteCert_ReloadFirst ==
    /\ job.step = "cert"
    /\ certFile' = job.cert
    /\ renewed' = (renewed \/ pc # "bootstrap")
    /\ IF pc = "serve" THEN Step("reload") /\ UNCHANGED <<pc, attempt>>
       ELSE IF ~tpm THEN Step("key") /\ UNCHANGED <<pc, attempt>>
       ELSE IF pc = "bootstrap" THEN Step("ca") /\ UNCHANGED <<pc, attempt>> ELSE Done
    /\ UNCHANGED <<tpm, keyFile, caFile, life, served, tokenVars>>

\* write_cert_only, and the first half of write_identity.
WriteCert ==
    /\ job.step = "cert"
    /\ certFile' = job.cert
    /\ renewed' = (renewed \/ pc # "bootstrap")
    /\ IF ~tpm THEN Step("key") /\ UNCHANGED <<pc, attempt>>
       ELSE IF pc = "bootstrap" THEN Step("ca") /\ UNCHANGED <<pc, attempt>> ELSE Done
    /\ UNCHANGED <<tpm, keyFile, caFile, life, served, tokenVars>>

\* The second half of write_identity: the key, in a file of its own.
WriteKey ==
    /\ job.step = "key"
    /\ keyFile' = job.key
    /\ IF pc = "bootstrap" THEN Step("ca") /\ UNCHANGED <<pc, attempt>> ELSE Done
    /\ UNCHANGED <<tpm, certFile, caFile, renewed, life, served, tokenVars>>

\* The management CA bundle is the last file bootstrap_enroll writes.
WriteCa ==
    /\ job.step = "ca"
    /\ caFile' = TRUE
    /\ Done
    /\ UNCHANGED <<tpm, certFile, keyFile, renewed, life, served, tokenVars>>

\* Mutant: a startup renewal that keeps failing ends the process.
EnrollError_RenewalFatal ==
    /\ job.step \in {"request", "cert", "key", "ca"}
    /\ IF pc = "serve" THEN job' = NoJob /\ UNCHANGED <<pc, attempt>>
       ELSE IF attempt < (IF pc = "bootstrap" THEN BootstrapAttempts ELSE ReenrollAttempts)
       THEN job' = [NoJob EXCEPT !.step = "request"] /\ attempt' = attempt + 1 /\ UNCHANGED pc
       ELSE job' = NoJob /\ attempt' = 0 /\ pc' = "down"
    /\ UNCHANGED <<tpm, files, life, served, tokenVars>>

\* Mutant: the bootstrap loop does not stop at its last attempt.
EnrollError_Unlimited ==
    /\ job.step \in {"request", "cert", "key", "ca"}
    /\ IF pc = "serve" THEN job' = NoJob /\ UNCHANGED <<pc, attempt>>
       ELSE IF attempt <= (IF pc = "bootstrap" THEN BootstrapAttempts ELSE ReenrollAttempts)
       THEN job' = [NoJob EXCEPT !.step = "request"] /\ attempt' = attempt + 1 /\ UNCHANGED pc
       ELSE job' = NoJob /\ attempt' = 0 /\ pc' = IF pc = "bootstrap" THEN "down" ELSE "load"
    /\ UNCHANGED <<tpm, files, life, served, tokenVars>>

\* The enrollment returns Err: no answer, a pending request, a refused
\* client, or a write that fails and leaves its file as it was.  Bootstrap
\* gives up by exiting, a startup renewal by going on, the loop by waiting.
EnrollError ==
    /\ job.step \in {"request", "cert", "key", "ca"}
    /\ IF pc = "serve" THEN job' = NoJob /\ UNCHANGED <<pc, attempt>>
       ELSE IF attempt < (IF pc = "bootstrap" THEN BootstrapAttempts ELSE ReenrollAttempts)
       THEN job' = [NoJob EXCEPT !.step = "request"] /\ attempt' = attempt + 1 /\ UNCHANGED pc
       ELSE job' = NoJob /\ attempt' = 0 /\ pc' = IF pc = "bootstrap" THEN "down" ELSE "load"
    /\ UNCHANGED <<tpm, files, life, served, tokenVars>>

-----------------------------------------------------------------------------
(* renewal_loop, and the passage of time.                                  *)

\* A tick of the loop that finds the certificate due.
Tick ==
    /\ pc = "serve" /\ job.step = "none"
    /\ NeedsRenewal
    /\ job' = [NoJob EXCEPT !.step = "request"]
    /\ UNCHANGED <<tpm, files, life, pc, attempt, served, tokenVars>>

\* ReloadableCert::reload swaps in what is on disk; when it fails, the old
\* pair stays.
Reload ==
    /\ job.step = "reload"
    /\ served' \in {Loaded, served}
    /\ job' = NoJob
    /\ UNCHANGED <<tpm, files, life, pc, attempt, tokenVars>>

\* A certificate in use grows older.
Age(s) ==
    /\ s \in {certFile.serial, served.cert.serial}
    /\ life[s] # "expired"
    /\ life' = [life EXCEPT ![s] = IF @ = "fresh" THEN "due" ELSE "expired"]
    /\ UNCHANGED <<tpm, files, pc, attempt, job, served, tokenVars>>

\* The kernel's write-back of the PIN file.
WritebackPin ==
    /\ PinWriteback
    /\ UNCHANGED <<tpm, files, life, pc, attempt, job, served>>

Next ==
    \/ Start \/ OpenToken \/ TokenOpened \/ TokenRefused
    \/ CheckPki \/ CheckPkiUnknown \/ Load \/ Exit \/ PowerLoss
    \/ SimpleEnroll \/ SimpleReenroll
    \/ WriteCert \/ WriteKey \/ WriteCa \/ EnrollError
    \/ Tick \/ Reload
    \/ \E s \in Serials : Age(s)
    \/ WritebackPin

\* The steps noded takes by itself are weakly fair, and a request ends, with
\* an answer or with an error.  Where a step may fail (a request, a write, a
\* load), it does not fail every time.
Fairness ==
    /\ WF_vars(EnrollError)
    /\ WF_vars(Start) /\ WF_vars(CheckPki) /\ WF_vars(Tick) /\ WF_vars(Reload)
    /\ WF_vars(OpenToken) /\ WF_vars(TokenOpened) /\ WF_vars(TokenRefused)
    /\ SF_vars(Load)
    /\ SF_vars(SimpleEnroll) /\ SF_vars(SimpleReenroll)
    /\ SF_vars(WriteCert) /\ SF_vars(WriteKey) /\ SF_vars(WriteCa)

Spec == Init /\ [][Next]_vars /\ Fairness

-----------------------------------------------------------------------------
(* Properties.                                                             *)

\* Until a renewal has rewritten the certificate, the files bootstrap left
\* behind belong together, however often it was retried or interrupted:
\* whatever node_pki_present accepts is one complete enrollment.
BootstrapSound == PkiPresent /\ ~renewed => certFile.key = OwnKey

\* With the key in the token, the certificate on disk and the certificate
\* served are always for that key, through every crash, retry and renewal.
TpmPairSound ==
    tpm => /\ certFile # NoCert => certFile.key = tokenKey
           /\ served.cert.key = served.key

\* The bearer token is for bootstrap only: once the PKI is complete it stays
\* complete, and noded never goes back to the enrollment that sends the
\* token, whatever it is restarted into.
TokenBootstrapOnly == [][PkiPresent => PkiPresent' /\ pc' # "bootstrap"]_vars

\* The hot swap never installs a certificate together with another's key.
ReloadSound ==
    [][pc = "serve" /\ pc' = "serve" /\ served' # served => served'.cert.key = served'.key]_vars

Due == PkiPresent /\ life[certFile.serial] = "due"

\* noded is killed again and again, for ever.
Killed == []<>(pc = "failed")

\* A noded that is not killed for ever comes to serve its API again, with
\* a renewed certificate or with the one it has, in spite of failed
\* enrollments, an unreachable EST server and an expired certificate; only a
\* lost token stops it.
EventuallyServes == Killed \/ []<>(pc = "serve") \/ <>[]TokenLost

\* With the key in the token, a certificate that is due is renewed, or time
\* runs out for it.
RenewalHappens == Killed \/ ((tpm /\ Due) ~> (~Due \/ TokenLost))

\* The PIN in the file is always the token's, whatever was interrupted, and
\* noded does not go on with a token whose PIN it has not stored.
PinSound ==
    /\ pinFile \in Pins => PinFileOpens
    /\ tpm /\ pc \notin {"down", "failed", "open"} => PinFileOpens

Sealed == INSTANCE SealedIdentity WITH
    key <- IF tpm THEN tokenKey ELSE NoKey,
    current <- IF tpm THEN certFile ELSE NoCert,
    served <- IF tpm THEN served.cert ELSE NoCert

\* With the key in the token, run(), pkcs11::open, the enrollments and the
\* renewal loop implement the sealed identity, through every crash and retry.
ImplementsSealed == Sealed!Spec

\* pkcs11.rs, TpmPkcs11Config: "File holding the token user PIN [...] Its
\* presence also marks the token as already provisioned."  Once write_pin has
\* ended, a PIN file that exists opens the token.
PinMarksProvisioned == pinFile # NoPin /\ at # "writePin" => PinFileOpens

\* est.rs, write_identity: "Atomically write the node identity (certificate
\* + private key)".  Between two enrollments, the two files match.
IdentityAtomic == PkiPresent /\ job.step = "none" => certFile.key = OwnKey
=============================================================================
