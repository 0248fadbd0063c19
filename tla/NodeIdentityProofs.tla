-------------------------- MODULE NodeIdentityProofs --------------------------
(***************************************************************************)
(* noded's identity for every number of attempts, certificates and keys,   *)
(* through every order of failures, crashes and renewals: what bootstrap   *)
(* leaves behind belongs together, a TPM-held key and its certificate are  *)
(* never separated, the bearer token is not used again, the hot swap never *)
(* installs a mismatched pair, and with the key in the token the whole is  *)
(* the abstract SealedIdentity.  A lost token and a split identity stay.   *)
(***************************************************************************)
EXTENDS NodeIdentity, TLAPS

\* What the position of run() says about the process and the files.
Phase ==
    /\ pc \notin {"bootstrap", "renew", "serve"} => job = NoJob
    /\ pc # "serve" => served = Unserved
    /\ pc = "bootstrap" => ~caFile
    /\ pc \in {"renew", "load", "serve"} => PkiPresent
    /\ tpm /\ pc \notin {"down", "failed", "open"} => tokenKey # NoKey
    /\ pc # "open" => at = "closed"

\* What an enrollment has achieved before each of its steps.
Enrollment ==
    /\ job.step \in {"cert", "key", "ca"} => job.cert \in Certs /\ job.cert.key = job.key
    /\ tpm /\ job.step = "cert" => job.key = tokenKey
    /\ job.step = "key" => ~tpm /\ certFile = job.cert /\ (pc # "bootstrap" => renewed)
    /\ job.step = "ca" => pc = "bootstrap" /\ certFile = job.cert /\ (tpm \/ keyFile = job.key)
    /\ job.step = "reload" => pc = "serve" /\ certFile.key = OwnKey

\* The files: the CA bundle, written last, vouches for the others.
Files ==
    /\ caFile => PkiPresent
    /\ BootstrapSound
    /\ tpm /\ certFile # NoCert => certFile.key = tokenKey /\ tokenKey # NoKey
    /\ tpm => served.cert.key = served.key

\* Who knows the token's PIN before each step of pkcs11::open.
Pin ==
    /\ PinSound
    /\ ~initialised => pinFile = NoPin /\ pinSafe
    /\ at \in {"initToken", "initPin", "createPin"} => pinFile = NoPin /\ userPin \in Pins
    /\ at \in {"initPin", "createPin", "writePin"} => initialised
    /\ at \in {"createPin", "writePin"} => tokenPin = userPin /\ userPin \in Pins
    /\ at = "login" => pinFile = userPin /\ pinFile # NoPin
    /\ at = "key" => PinFileOpens

IInv == TypeOK /\ Phase /\ Enrollment /\ Files /\ Pin

-----------------------------------------------------------------------------

\* An issued certificate is not the absent one.
LEMMA IssuedIsSome == ASSUME NEW c \in Certs PROVE c # NoCert /\ c.key \in Keys /\ c.key # NoKey
BY TokenAssumption DEF Certs, NoCert

\* A node as imaged satisfies the invariant.
LEMMA InitInv == Init => IInv
<1> SUFFICES ASSUME Init PROVE IInv
    OBVIOUS
<1>1. TypeOK
  <2>1. NoJob \in [step : {"none", "request", "cert", "key", "ca", "reload"},
                   cert : Certs \cup {NoCert}, key : Keys \cup {NoKey}]
      BY DEF NoJob
  <2>2. Unserved \in [cert : Certs \cup {NoCert}, key : Keys \cup {NoKey}]
      BY DEF Unserved
  <2>3. attempt \in 0..(IF pc = "bootstrap" THEN BootstrapAttempts ELSE ReenrollAttempts)
      BY NodeIdentityAssumption DEF Init
  <2>4. life \in [Serials -> {"fresh", "due", "expired"}]
      BY DEF Init
  <2>5. tpm \in BOOLEAN /\ caFile \in BOOLEAN /\ renewed \in BOOLEAN
      BY Zenon DEF Init
  <2>6. /\ certFile \in Certs \cup {NoCert}
        /\ keyFile \in Keys \cup {NoKey}
        /\ pc \in {"down", "failed", "open", "check", "bootstrap", "renew", "load", "serve"}
      BY Zenon DEF Init
  <2>7. TokenTypeOK
      BY DEF Init, TokenInit, TokenTypeOK
  <2> QED
      BY <2>1, <2>2, <2>3, <2>4, <2>5, <2>6, <2>7, Zenon DEF Init, TypeOK
<1>2. job.step = "none" /\ served.cert.key = served.key /\ certFile = NoCert /\ ~caFile
    BY DEF Init, NoJob, Unserved, NoCert
<1>3. ~PkiPresent
    BY <1>2 DEF PkiPresent
<1>4. Phase
    BY <1>2, <1>3 DEF Init, TokenInit, Phase
<1>5. Enrollment
    BY <1>2 DEF Enrollment
<1>6. Files
    BY <1>2, <1>3 DEF Files, BootstrapSound
<1>7. Pin
    BY TokenAssumption DEF Init, TokenInit, Pin, PinSound
<1> QED
    BY <1>1, <1>4, <1>5, <1>6, <1>7 DEF IInv

-----------------------------------------------------------------------------
(* Type correctness.                                                       *)

\* The records in the type invariant, step by step.
LEMMA JobType ==
    ASSUME TypeOK, NEW s \in {"none", "request", "cert", "key", "ca", "reload"}
    PROVE  /\ [job EXCEPT !.step = s] \in [step : {"none", "request", "cert", "key", "ca", "reload"},
                cert : Certs \cup {NoCert}, key : Keys \cup {NoKey}]
           /\ [NoJob EXCEPT !.step = s] \in [step : {"none", "request", "cert", "key", "ca", "reload"},
                cert : Certs \cup {NoCert}, key : Keys \cup {NoKey}]
           /\ NoJob \in [step : {"none", "request", "cert", "key", "ca", "reload"},
                cert : Certs \cup {NoCert}, key : Keys \cup {NoKey}]
           /\ Unserved \in [cert : Certs \cup {NoCert}, key : Keys \cup {NoKey}]
           /\ Loaded \in [cert : Certs \cup {NoCert}, key : Keys \cup {NoKey}]
BY DEF TypeOK, TokenTypeOK, NoJob, Unserved, Loaded, OwnKey

LEMMA TokenTypeSame == TokenTypeOK /\ UNCHANGED tokenVars => TokenTypeOK'
BY DEF TokenTypeOK, tokenVars, token

LEMMA EnrollType ==
    ASSUME IInv, SimpleEnroll \/ SimpleReenroll
    PROVE  TypeOK'
<1>1. PICK k \in CsrKeys, s \in FreshSerials :
        /\ job' = [step |-> "cert", cert |-> [serial |-> s, key |-> k], key |-> k]
        /\ life' = [life EXCEPT ![s] = "fresh"]
    BY DEF SimpleEnroll, SimpleReenroll
<1>2. k \in Keys /\ s \in Serials
    BY DEF CsrKeys, FreshKeys, FreshSerials, IInv, TypeOK, TokenTypeOK, Phase, SimpleEnroll, SimpleReenroll
<1>3. [serial |-> s, key |-> k] \in Certs
    BY <1>2 DEF Certs
<1> QED
    BY <1>1, <1>2, <1>3, TokenTypeSame DEF IInv, TypeOK, SimpleEnroll, SimpleReenroll, files

\* The token's part, whatever noded does with it.
LEMMA TokenType ==
    ASSUME TokenTypeOK, NEW fresh \in SUBSET Keys, at = "initPin" => userPin \in Pins,
           OpenStep \/ EnsureKey(fresh) \/ TokenClosed \/ PinWriteback \/ TokenPowerLoss
    PROVE  TokenTypeOK'
<1> USE DEF TokenTypeOK, token
<1>1. CASE ReadPin \/ Provision \/ InitToken
    BY <1>1 DEF ReadPin, Provision, InitToken
<1>2. CASE InitPin \/ CreatePin \/ WritePin \/ Login
    BY <1>2 DEF InitPin, CreatePin, WritePin, Login
<1>3. CASE EnsureKey(fresh)
    BY <1>3 DEF EnsureKey
<1>4. CASE TokenClosed \/ PinWriteback \/ TokenPowerLoss
    BY <1>4 DEF TokenClosed, PinWriteback, TokenPowerLoss
<1> QED
    BY <1>1, <1>2, <1>3, <1>4 DEF OpenStep

LEMMA NextType == IInv /\ [Next]_vars => TypeOK'
<1> SUFFICES ASSUME IInv, [Next]_vars PROVE TypeOK'
    OBVIOUS
<1> USE NodeIdentityAssumption
<1>0. TypeOK /\ TokenTypeOK /\ (at = "initPin" => userPin \in Pins)
    BY DEF IInv, TypeOK, Pin
<1>1. CASE Start
    <2>1. TokenTypeOK'
        BY <1>0, <1>1 DEF Start, TokenTypeOK, token
    <2> QED
        BY <1>0, <1>1, <2>1 DEF TypeOK, Start, files
<1>2. CASE OpenToken \/ TokenOpened \/ TokenRefused
    <2>1. TokenTypeOK'
        BY <1>0, <1>2, TokenType DEF OpenToken, TokenOpened, TokenRefused, FreshKeys
    <2> QED
        BY <1>0, <1>2, <2>1 DEF TypeOK, OpenToken, TokenOpened, TokenRefused, files
<1>3. CASE CheckPki \/ CheckPkiUnknown
    BY <1>0, <1>3, JobType, TokenTypeSame DEF TypeOK, CheckPki, CheckPkiUnknown, files
<1>4. CASE Load
    BY <1>0, <1>4, JobType, TokenTypeSame DEF TypeOK, Load, files
<1>5. CASE Exit \/ PowerLoss
    <2>1. TokenTypeOK'
        BY <1>0, <1>5, TokenType DEF Exit, PowerLoss
    <2> QED
        BY <1>0, <1>5, <2>1, JobType DEF TypeOK, Exit, PowerLoss, ProcessGone, files
<1>6. CASE WriteCert
    BY <1>0, <1>6, JobType, TokenTypeSame DEF TypeOK, WriteCert, Done, Step
<1>7. CASE WriteKey
    BY <1>0, <1>7, JobType, TokenTypeSame DEF TypeOK, WriteKey, Done, Step
<1>8. CASE WriteCa
    BY <1>0, <1>8, JobType, TokenTypeSame DEF TypeOK, WriteCa, Done, Step
<1>9. CASE EnrollError
    BY <1>0, <1>9, JobType, TokenTypeSame DEF TypeOK, EnrollError, files
<1>10. CASE Tick \/ Reload
    BY <1>0, <1>10, JobType, TokenTypeSame DEF TypeOK, Tick, Reload, files
<1>11. ASSUME NEW s \in Serials, Age(s) PROVE TypeOK'
    BY <1>0, <1>11, TokenTypeSame DEF TypeOK, Age, files
<1>12. CASE WritebackPin
    <2>1. TokenTypeOK'
        BY <1>0, <1>12, TokenType DEF WritebackPin
    <2> QED
        BY <1>0, <1>12, <2>1 DEF TypeOK, WritebackPin, files
<1>13. CASE UNCHANGED vars
    BY <1>0, <1>13, TokenTypeSame DEF TypeOK, vars, files
<1> QED
    BY <1>1, <1>2, <1>3, <1>4, <1>5, <1>6, <1>7, <1>8, <1>9, <1>10, <1>11, <1>12, <1>13,
       EnrollType DEF Next

-----------------------------------------------------------------------------
(* The token and its PIN.                                                  *)

\* A step of pkcs11::open keeps track of the PIN.
LEMMA OpenStepPin ==
    ASSUME IInv, OpenToken
    PROVE  Pin' /\ tokenKey' = tokenKey
<1> USE TokenAssumption DEF OpenToken, IInv, TypeOK, TokenTypeOK, Pin, PinSound, PinFileOpens, token
<1>1. CASE ReadPin
    BY <1>1 DEF ReadPin
<1>2. CASE Provision
    BY <1>2 DEF Provision
<1>3. CASE InitToken
    BY <1>3 DEF InitToken
<1>4. CASE InitPin
    BY <1>4 DEF InitPin
<1>5. CASE CreatePin
    BY <1>5 DEF CreatePin
<1>6. CASE WritePin
    BY <1>6 DEF WritePin
<1>7. CASE Login
    BY <1>7 DEF Login
<1> QED
    BY <1>1, <1>2, <1>3, <1>4, <1>5, <1>6, <1>7 DEF OpenStep

\* The steps outside pkcs11::open leave token and PIN file alone, and none
\* but TokenOpened gets noded past it.
LEMMA OtherStepPin ==
    ASSUME IInv, UNCHANGED tokenVars, UNCHANGED tpm,
           pc' \in {"down", "failed", "open"} \/ ~tpm \/ pc \notin {"down", "failed", "open"}
    PROVE  Pin'
BY DEF IInv, Pin, PinSound, PinFileOpens, tokenVars, token

LEMMA NextPin == IInv /\ [Next]_vars => Pin'
<1> SUFFICES ASSUME IInv, [Next]_vars PROVE Pin'
    OBVIOUS
<1> USE TokenAssumption
<1>1. CASE Start
    BY <1>1 DEF Start, IInv, Phase, Pin, PinSound, PinFileOpens, token
<1>2. CASE OpenToken
    BY <1>2, OpenStepPin
<1>3. CASE TokenOpened
    BY <1>3 DEF TokenOpened, EnsureKey, IInv, Pin, PinSound, PinFileOpens
<1>4. CASE TokenRefused \/ Exit
    BY <1>4 DEF TokenRefused, Exit, ProcessGone, TokenClosed, IInv, Pin, PinSound, PinFileOpens, token
<1>5. CASE PowerLoss
    BY <1>5 DEF PowerLoss, ProcessGone, TokenPowerLoss, IInv, Pin, PinSound, PinFileOpens, token
<1>6. CASE WritebackPin
    BY <1>6 DEF WritebackPin, PinWriteback, IInv, Pin, PinSound, PinFileOpens, token
<1>7. CASE CheckPki \/ CheckPkiUnknown \/ Load \/ SimpleEnroll \/ SimpleReenroll \/ Tick
    BY <1>7, OtherStepPin
       DEF CheckPki, CheckPkiUnknown, Load, SimpleEnroll, SimpleReenroll, Tick
<1>8. CASE WriteCert \/ WriteKey \/ WriteCa \/ EnrollError \/ Reload
    <2>1. UNCHANGED tokenVars /\ UNCHANGED tpm
        BY <1>8 DEF WriteCert, WriteKey, WriteCa, EnrollError, Reload
    <2>2. pc \in {"bootstrap", "renew", "serve"}
        BY <1>8 DEF WriteCert, WriteKey, WriteCa, EnrollError, Reload, IInv, Phase, NoJob, TypeOK
    <2> QED
        BY <2>1, <2>2, OtherStepPin
<1>9. ASSUME NEW s \in Serials, Age(s) PROVE Pin'
    BY <1>9, OtherStepPin DEF Age
<1>10. CASE UNCHANGED vars
    BY <1>10, OtherStepPin DEF vars
<1> QED
    BY <1>1, <1>2, <1>3, <1>4, <1>5, <1>6, <1>7, <1>8, <1>9, <1>10 DEF Next

-----------------------------------------------------------------------------
(* The rest of the invariant.                                              *)

Rest == Phase /\ Enrollment /\ Files

LEMMA NextRest == IInv /\ [Next]_vars => Rest'
<1> SUFFICES ASSUME IInv, [Next]_vars PROVE Rest'
    OBVIOUS
<1> USE NodeIdentityAssumption, TokenAssumption DEF IInv, Rest, Phase, Enrollment, Files
<1>1. CASE Start
    BY <1>1 DEF Start, files, token, PkiPresent, BootstrapSound, OwnKey, NoJob
<1>2. CASE OpenToken
    BY <1>2, OpenStepPin DEF OpenToken, files, PkiPresent, BootstrapSound, OwnKey
<1>16. CASE TokenOpened
    <2>1. /\ tokenKey' \in Keys /\ tokenKey' # NoKey /\ (tokenKey # NoKey => tokenKey' = tokenKey)
          /\ at' = "closed" /\ pc = "open" /\ pc' = "check"
          /\ UNCHANGED <<tpm, certFile, keyFile, caFile, renewed, job, served>>
        BY <1>16 DEF TokenOpened, EnsureKey, files, FreshKeys, TypeOK, TokenTypeOK
    <2>2. job.step = "none"
        BY <2>1 DEF NoJob
    <2> QED
        BY <2>1, <2>2 DEF PkiPresent, BootstrapSound, OwnKey, Unserved, NoCert
<1>17. CASE TokenRefused
    BY <1>17 DEF TokenRefused, TokenClosed, files, token, PkiPresent, BootstrapSound, OwnKey
<1>18. CASE WritebackPin
    BY <1>18 DEF WritebackPin, PinWriteback, files, token, PkiPresent, BootstrapSound, OwnKey
<1>3. CASE CheckPki
    BY <1>3 DEF CheckPki, files, tokenVars, token, PkiPresent, BootstrapSound, OwnKey, NoJob
<1>4. CASE CheckPkiUnknown
    BY <1>4 DEF CheckPkiUnknown, files, tokenVars, token, PkiPresent, BootstrapSound, OwnKey, NoJob
<1>5. CASE Load
    BY <1>5 DEF Load, files, tokenVars, token, PkiPresent, BootstrapSound, OwnKey, NoJob, Loaded
<1>6. CASE Exit \/ PowerLoss
    BY <1>6 DEF Exit, PowerLoss, ProcessGone, TokenClosed, TokenPowerLoss, files, token, PkiPresent, BootstrapSound, OwnKey, NoJob, Unserved, NoCert
<1>7. CASE SimpleEnroll \/ SimpleReenroll
    <2>1. PICK k \in CsrKeys, s \in FreshSerials :
            job' = [step |-> "cert", cert |-> [serial |-> s, key |-> k], key |-> k]
        BY <1>7 DEF SimpleEnroll, SimpleReenroll
    <2>2. k \in Keys /\ s \in Serials /\ (tpm => k = tokenKey)
        BY <1>7 DEF CsrKeys, FreshKeys, FreshSerials, TypeOK, TokenTypeOK, SimpleEnroll, SimpleReenroll
    <2>3. job'.step = "cert" /\ job'.key = k /\ job'.cert.key = k /\ job'.cert \in Certs
        BY <2>1, <2>2 DEF Certs
    <2>4. /\ pc \in {"bootstrap", "renew", "serve"}
          /\ UNCHANGED <<tpm, certFile, keyFile, caFile, tokenKey, at, renewed, pc, served>>
        BY <1>7 DEF SimpleEnroll, SimpleReenroll, files, tokenVars, token
    <2> QED
        BY <2>2, <2>3, <2>4 DEF PkiPresent, BootstrapSound, OwnKey
<1>8. CASE WriteCert
    <2>1. /\ job.cert \in Certs /\ job.cert # NoCert /\ job.cert.key = job.key
          /\ (tpm => job.key = tokenKey /\ tokenKey # NoKey) /\ certFile' = job.cert
          /\ pc \in {"bootstrap", "renew", "serve"}
        BY <1>8, IssuedIsSome DEF WriteCert, NoJob
    <2> QED
        BY <1>8, <2>1 DEF WriteCert, Done, Step, tokenVars, token, PkiPresent, BootstrapSound, OwnKey, NoJob, TypeOK
<1>9. CASE WriteKey
    <2>1. /\ ~tpm /\ certFile = job.cert /\ job.cert.key = job.key /\ certFile # NoCert
          /\ job.key \in Keys /\ job.key # NoKey /\ keyFile' = job.key
          /\ pc \in {"bootstrap", "renew", "serve"}
        BY <1>9, IssuedIsSome DEF WriteKey, NoJob
    <2> QED
        BY <1>9, <2>1 DEF WriteKey, Done, Step, tokenVars, token, PkiPresent, BootstrapSound, OwnKey, NoJob, TypeOK
<1>10. CASE WriteCa
    <2>1. /\ pc = "bootstrap" /\ certFile = job.cert /\ job.cert.key = job.key
          /\ certFile # NoCert /\ job.key # NoKey /\ (tpm \/ keyFile = job.key)
        BY <1>10, IssuedIsSome DEF WriteCa
    <2> QED
        BY <1>10, <2>1 DEF WriteCa, Done, Step, tokenVars, token, PkiPresent, BootstrapSound, OwnKey, NoJob, TypeOK
<1>11. CASE EnrollError
    BY <1>11 DEF EnrollError, files, tokenVars, token, PkiPresent, BootstrapSound, OwnKey, NoJob
<1>12. CASE Tick
    BY <1>12 DEF Tick, files, tokenVars, token, PkiPresent, BootstrapSound, OwnKey, NoJob
<1>13. CASE Reload
    BY <1>13 DEF Reload, files, tokenVars, token, PkiPresent, BootstrapSound, OwnKey, NoJob, Loaded
<1>14. ASSUME NEW s \in Serials, Age(s) PROVE Rest'
    BY <1>14 DEF Age, files, tokenVars, token, PkiPresent, BootstrapSound, OwnKey
<1>15. CASE UNCHANGED vars
    BY <1>15 DEF vars, files, tokenVars, token, PkiPresent, BootstrapSound, OwnKey
<1> QED
    BY <1>1, <1>2, <1>3, <1>4, <1>5, <1>6, <1>7, <1>8, <1>9, <1>10, <1>11, <1>12, <1>13,
       <1>14, <1>15, <1>16, <1>17, <1>18 DEF Next

LEMMA InvCorrect == Spec => []IInv
<1>1. IInv /\ [Next]_vars => IInv'
    BY NextType, NextRest, NextPin DEF IInv, Rest
<1> QED
    BY <1>1, InitInv, PTL DEF Spec

-----------------------------------------------------------------------------

\* The state of noded, its files and its token stays typed.
THEOREM TypeCorrect == Spec => []TypeOK
<1>1. IInv => TypeOK
    BY DEF IInv
<1> QED
    BY <1>1, InvCorrect, PTL

\* A whole PIN file is the token's PIN, and noded goes on only with such a
\* file, for every interruption of first-boot provisioning.
THEOREM PinIsSound == Spec => []PinSound
<1>1. IInv => PinSound
    BY DEF IInv, Pin
<1> QED
    BY <1>1, InvCorrect, PTL

\* What node_pki_present accepts is one complete enrollment.
THEOREM BootstrapIsSound == Spec => []BootstrapSound
<1>1. IInv => BootstrapSound
    BY DEF IInv, Files
<1> QED
    BY <1>1, InvCorrect, PTL

\* The token's key and the certificate are never separated.
THEOREM TpmPairIsSound == Spec => []TpmPairSound
<1>1. IInv => TpmPairSound
    BY DEF IInv, Files, TpmPairSound
<1> QED
    BY <1>1, InvCorrect, PTL

\* A node with a complete PKI never sends the bearer token again.
THEOREM TokenIsBootstrapOnly == Spec => TokenBootstrapOnly
<1>1. IInv /\ [Next]_vars => [PkiPresent => PkiPresent' /\ pc' # "bootstrap"]_vars
    <2> SUFFICES ASSUME IInv, IInv', Next, PkiPresent PROVE PkiPresent' /\ pc' # "bootstrap"
        BY NextType, NextRest, NextPin DEF IInv, Rest
    <2>1. caFile'
        BY DEF PkiPresent, Next, Start, OpenToken, TokenOpened,
           TokenRefused, CheckPki, CheckPkiUnknown, Load, Exit, PowerLoss, ProcessGone, WritebackPin,
           SimpleEnroll, SimpleReenroll, WriteCert, WriteKey, WriteCa, EnrollError, Tick, Reload,
           Age, files
    <2> QED
        BY <2>1 DEF IInv, Files, Phase
<1> QED
    BY <1>1, InvCorrect, PTL DEF Spec, TokenBootstrapOnly

\* The hot swap installs matching pairs only.
THEOREM ReloadIsSound == Spec => ReloadSound
<1>1. IInv /\ [Next]_vars =>
        [pc = "serve" /\ pc' = "serve" /\ served' # served => served'.cert.key = served'.key]_vars
    <2> SUFFICES ASSUME IInv, Next, pc = "serve", pc' = "serve", served' # served
                 PROVE  served'.cert.key = served'.key
        OBVIOUS
    <2>1. Reload
        BY DEF Next, Start, OpenToken, TokenOpened,
           TokenRefused, CheckPki, CheckPkiUnknown, Load, Exit, PowerLoss, ProcessGone, WritebackPin,
           SimpleEnroll, SimpleReenroll, WriteCert, WriteKey, WriteCa, EnrollError, Tick, Age
    <2> QED
        BY <2>1 DEF Reload, IInv, Enrollment, Loaded
<1> QED
    BY <1>1, InvCorrect, PTL DEF Spec, ReloadSound

-----------------------------------------------------------------------------
(* The certificate about to be written.                                    *)

\* A certificate that has been issued and not yet written is a new one, and
\* a renewal was let in with the pair on disk.
Pending ==
    job.step = "cert" =>
        /\ job.cert.serial \notin {certFile.serial, served.cert.serial}
        /\ pc # "bootstrap" => certFile.key = OwnKey

LEMMA NextPending == IInv /\ Pending /\ [Next]_vars => Pending'
<1> SUFFICES ASSUME IInv, Pending, [Next]_vars, job'.step = "cert"
             PROVE  Pending'
    BY DEF Pending
<1>1. CASE SimpleEnroll \/ SimpleReenroll
    <2>1. PICK k \in CsrKeys, s \in FreshSerials :
            job' = [step |-> "cert", cert |-> [serial |-> s, key |-> k], key |-> k]
        BY <1>1 DEF SimpleEnroll, SimpleReenroll
    <2>2. job'.cert.serial \notin {certFile.serial, served.cert.serial}
        BY <2>1 DEF FreshSerials
    <2>3. UNCHANGED <<tpm, certFile, keyFile, tokenKey, pc, served>>
        BY <1>1 DEF SimpleEnroll, SimpleReenroll, files, tokenVars, token
    <2>4. pc # "bootstrap" => certFile.key = OwnKey
        BY <1>1 DEF SimpleEnroll, SimpleReenroll, ServerAccepts
    <2> QED
        BY <2>2, <2>3, <2>4 DEF Pending, OwnKey
<1>2. CASE ~(SimpleEnroll \/ SimpleReenroll)
    <2>1. /\ UNCHANGED job
          /\ \/ \E s \in Serials : Age(s)
             \/ WritebackPin \/ UNCHANGED vars
             \/ Start \/ OpenToken \/ TokenOpened \/ TokenRefused \/ CheckPkiUnknown \/ Load
        BY <1>2 DEF Next, CheckPki, Exit, PowerLoss, ProcessGone, WriteCert, WriteKey,
           WriteCa, EnrollError, Tick, Reload, Done, Step, NoJob, IInv, TypeOK, vars, Age, WritebackPin,
           Start, OpenToken, TokenOpened, TokenRefused, CheckPkiUnknown, Load
    <2>2. job # NoJob
        BY <2>1 DEF NoJob
    <2>3. pc \in {"bootstrap", "renew", "serve"}
        BY <2>2 DEF IInv, Phase
    <2>4. UNCHANGED <<tpm, certFile, keyFile, tokenKey, pc, served>>
        BY <2>1, <2>3 DEF Age, WritebackPin, PinWriteback, vars, Start, OpenToken, TokenOpened,
           TokenRefused, CheckPkiUnknown, Load, files, tokenVars, token
    <2> QED
        BY <2>1, <2>4 DEF Pending, OwnKey
<1> QED
    BY <1>1, <1>2

LEMMA PendingCorrect == Spec => [](IInv /\ Pending)
<1>1. Init => Pending
    BY DEF Init, Pending, NoJob
<1> QED
    BY <1>1, NextPending, InvCorrect, PTL DEF Spec

-----------------------------------------------------------------------------
(* With the key in the token: a sealed identity.                           *)

\* Every step changes at most one of key, certificate and served pair.
LEMMA SealedStep ==
    ASSUME IInv, Pending, Next, tpm
    PROVE  Sealed!Next \/ UNCHANGED <<tokenKey, certFile, served>>
<1> USE DEF Sealed!Next, Sealed!Nothing
<1>0. UNCHANGED tpm
    BY DEF Next, Start, OpenToken, TokenOpened, TokenRefused, CheckPki, CheckPkiUnknown, Load, Exit,
       PowerLoss, ProcessGone, WritebackPin, SimpleEnroll, SimpleReenroll, WriteCert, WriteKey,
       WriteCa, EnrollError, Tick, Reload, Age
<1>1. CASE TokenOpened
    <2>1. /\ UNCHANGED <<certFile, served>>
          /\ tokenKey' \in IF tokenKey = NoKey THEN FreshKeys ELSE {tokenKey}
        BY <1>1 DEF TokenOpened, EnsureKey, files
    <2>2. CASE tokenKey = NoKey
        BY <1>0, <2>1, <2>2 DEF Sealed!Generate, FreshKeys
    <2> QED
        BY <2>1, <2>2
<1>2. CASE WriteCert
    <2>1. /\ job.step = "cert" /\ certFile' = job.cert /\ job.cert \in Certs /\ job.cert.key = tokenKey
          /\ job.cert.serial \notin {certFile.serial, served.cert.serial}
          /\ tokenKey # NoKey /\ UNCHANGED <<tokenKey, served>>
        BY <1>2, IssuedIsSome DEF WriteCert, IInv, Enrollment, Pending, tokenVars, token
    <2>2. job.cert \in [serial : Serials \ {certFile.serial, served.cert.serial}, key : {tokenKey}]
        BY <2>1 DEF Certs
    <2> QED
        BY <1>0, <2>1, <2>2 DEF Sealed!Obtain
<1>3. CASE Load \/ Reload
    <2>1. PkiPresent
        <3>1. CASE Load
            BY <3>1 DEF Load, IInv, Phase
        <3>2. CASE Reload
            BY <3>2 DEF Reload, IInv, Phase, Enrollment
        <3> QED
            BY <1>3, <3>1, <3>2
    <2>2. certFile # NoCert
        BY <2>1 DEF PkiPresent
    <2>3. UNCHANGED <<tokenKey, certFile>>
        BY <1>3 DEF Load, Reload, files, tokenVars, token
    <2>4. served'.cert = certFile \/ served' = served
        <3>1. served' = Loaded \/ served' = served
            BY <1>3 DEF Load, Reload
        <3>2. Loaded.cert = certFile
            BY DEF Loaded
        <3> QED
            BY <3>1, <3>2
    <2>5. CASE served' = served
        BY <2>3, <2>5
    <2>6. CASE served'.cert = certFile
        <3>1. Sealed!Present
            BY <1>0, <2>2, <2>3, <2>6 DEF Sealed!Present, NoCert
        <3> QED
            BY <3>1
    <2> QED
        BY <2>4, <2>5, <2>6
<1>4. CASE Exit \/ PowerLoss
    <2>1. served' = Unserved /\ UNCHANGED <<tokenKey, certFile>>
        BY <1>4 DEF Exit, PowerLoss, ProcessGone, TokenClosed, TokenPowerLoss, token, files
    <2> QED
        BY <1>0, <2>1 DEF Sealed!Stop, Unserved, NoCert
<1>5. CASE OpenToken
    BY <1>5, OpenStepPin DEF OpenToken, files
<1>6. CASE \/ Start \/ TokenRefused \/ CheckPki \/ CheckPkiUnknown \/ WritebackPin
           \/ SimpleEnroll \/ SimpleReenroll \/ WriteKey \/ WriteCa \/ EnrollError \/ Tick
           \/ \E s \in Serials : Age(s)
    BY <1>6 DEF Start, TokenRefused, TokenClosed, CheckPki, CheckPkiUnknown, WritebackPin, PinWriteback,
       SimpleEnroll, SimpleReenroll, WriteKey, WriteCa, EnrollError, Tick, Age, files, tokenVars, token
<1> QED
    BY <1>1, <1>2, <1>3, <1>4, <1>5, <1>6 DEF Next

\* Refinement.  With the key in the token, noded's start, enrollments,
\* renewals and restarts implement the sealed identity: one key for ever,
\* always a certificate for it once there is one, and nothing presented that
\* was not on disk.
THEOREM RefinesSealed == Spec => ImplementsSealed
<1>1. Init => Sealed!Init
    BY DEF Init, TokenInit, Sealed!Init, Sealed!Nothing, NoCert, Unserved
<1>2. IInv /\ Pending /\ [Next]_vars => [Sealed!Next]_(Sealed!identity)
    <2> SUFFICES ASSUME IInv, Pending, [Next]_vars
                 PROVE  Sealed!Next \/ UNCHANGED Sealed!identity
        OBVIOUS
    <2>1. UNCHANGED tpm
        BY DEF Next, Start, OpenToken, TokenOpened, TokenRefused, CheckPki, CheckPkiUnknown, Load,
           Exit, PowerLoss, ProcessGone, WritebackPin, SimpleEnroll, SimpleReenroll, WriteCert,
           WriteKey, WriteCa, EnrollError, Tick, Reload, Age, vars
    <2>2. CASE ~tpm
        BY <2>1, <2>2 DEF Sealed!identity
    <2>3. CASE tpm /\ Next
        BY <2>1, <2>3, SealedStep DEF Sealed!identity
    <2>4. CASE UNCHANGED vars
        BY <2>4 DEF Sealed!identity, vars, files, tokenVars, token
    <2> QED
        BY <2>2, <2>3, <2>4
<1> QED
    BY <1>1, <1>2, PendingCorrect, PTL DEF Spec, ImplementsSealed, Sealed!Spec

-----------------------------------------------------------------------------
(* What an interrupted step leaves behind.                                 *)

\* pkcs11::open never recovers a token whose PIN is not in its file: no
\* restart, no power cycle and no retry opens it again.
THEOREM LostForGood == Spec => [][TokenLost => TokenLost']_vars
<1>1. IInv /\ [Next]_vars => [TokenLost => TokenLost']_vars
    <2> SUFFICES ASSUME IInv, Next, TokenLost PROVE TokenLost'
        OBVIOUS
    <2> USE DEF TokenLost, Provisioning, PinFileOpens
    <2>1. pinFile \notin Pins
        BY DEF IInv, Pin, PinSound
    <2>2. CASE OpenToken
        BY <2>1, <2>2 DEF OpenToken, OpenStep, ReadPin, Provision, InitToken, InitPin, CreatePin,
           WritePin, Login, token
    <2>3. CASE Start \/ TokenOpened \/ TokenRefused \/ Exit \/ PowerLoss \/ WritebackPin
        BY <2>1, <2>3, TokenAssumption DEF Start, TokenOpened, EnsureKey, TokenRefused, Exit, PowerLoss,
           TokenClosed, TokenPowerLoss, WritebackPin, PinWriteback, token
    <2>4. CASE UNCHANGED tokenVars
        BY <2>4 DEF tokenVars, token
    <2> QED
        BY <2>2, <2>3, <2>4 DEF Next, CheckPki, CheckPkiUnknown, Load, SimpleEnroll, SimpleReenroll,
           WriteCert, WriteKey, WriteCa, EnrollError, Tick, Reload, Age
<1> QED
    BY <1>1, InvCorrect, PTL DEF Spec

\* A renewal that was cut between write_identity's two files.
Split == ~tpm /\ PkiPresent /\ certFile.key # keyFile /\ job.step # "key"

\* A split identity is never repaired: node_pki_present keeps noded from
\* enrolling anew, the EST server turns every renewal away, and the files
\* stay as they are.
THEOREM SplitForGood == Spec => [][Split => Split' /\ UNCHANGED <<certFile, keyFile>>]_vars
<1>1. IInv /\ Pending /\ [Next]_vars => [Split => Split' /\ UNCHANGED <<certFile, keyFile>>]_vars
    <2> SUFFICES ASSUME IInv, Pending, Next, Split PROVE Split' /\ UNCHANGED <<certFile, keyFile>>
        OBVIOUS
    <2>1. OwnKey = keyFile /\ caFile /\ pc # "bootstrap"
        BY DEF Split, OwnKey, PkiPresent, IInv, Phase
    <2>2. job.step \notin {"cert", "key", "ca"}
        BY <2>1 DEF Split, Pending, IInv, Enrollment
    <2>3. ~SimpleEnroll /\ ~SimpleReenroll /\ ~WriteCert /\ ~WriteKey /\ ~WriteCa
        BY <2>1, <2>2 DEF SimpleEnroll, SimpleReenroll, ServerAccepts, WriteCert, WriteKey, WriteCa, Split
    <2>4. UNCHANGED <<tpm, certFile, keyFile, caFile>>
        BY <2>3 DEF Next, Start, OpenToken, TokenOpened, TokenRefused, CheckPki, CheckPkiUnknown, Load,
           Exit, PowerLoss, ProcessGone, WritebackPin, EnrollError, Tick, Reload, Age, files
    <2>5. job'.step # "key"
        BY <2>2, <2>3 DEF Next, Start, OpenToken, TokenOpened, TokenRefused, CheckPki, CheckPkiUnknown,
           Load, Exit, PowerLoss, ProcessGone, WritebackPin, EnrollError, Tick, Reload, Age, NoJob,
           IInv, TypeOK
    <2> QED
        BY <2>4, <2>5 DEF Split, PkiPresent
<1> QED
    BY <1>1, PendingCorrect, PTL DEF Spec
=============================================================================
