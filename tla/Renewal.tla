------------------------------- MODULE Renewal -------------------------------
(***************************************************************************)
(* The timing of live renewal: est.rs::needs_renewal, called from          *)
(* main.rs::renewal_loop, against the clock.  One unit of time is whatever *)
(* Interval, Lifetime and the rest are given in.  What the identity is     *)
(* made of, and the crashes that interrupt it, are in NodeIdentity.        *)
(***************************************************************************)
EXTENDS Integers

CONSTANTS
    Interval,        \* renew_check_interval_secs, as configured
    Lifetime,        \* validity of the certificates the EST server issues
    Backdate,        \* how far the server may set notBefore into the past
    Latency,         \* longest time a re-enrollment takes, to Ok or to Err
    Faults,          \* rounds of the loop that may fail in a row
    MaxAge,          \* age of the oldest certificate run() starts with
    ReloadReliable,  \* does reload() always succeed?
    MaxTime          \* bound: the clock stops here

\* The loop's sleep: renew_check_interval_secs.max(1).
Sleep == IF Interval > 1 THEN Interval ELSE 1

\* One round of the loop: sleep, then an enrollment that may take Latency.
Round == Sleep + Latency

\* The window needs_renewal opens before a certificate expires.
Window == Lifetime \div 3

ASSUME RenewalAssumption ==
    /\ Interval \in Nat /\ Lifetime \in Nat \ {0} /\ Backdate \in Nat
    /\ Latency \in Nat /\ Faults \in Nat /\ MaxAge \in Nat /\ MaxTime \in Nat
    /\ ReloadReliable \in BOOLEAN
    /\ Backdate <= Lifetime - Window

\* The deployment leaves room for the rounds that may fail.
RoomForFaults == (Faults + 1) * Round < Window

VARIABLES
    now,     \* the system clock
    disk,    \* validity of the certificate in certFile
    served,  \* validity of the certificate the TLS server presents
    loop,    \* where renewal_loop is
    until,   \* when the sleep ends, or the enrollment at the latest
    fails,   \* failed rounds of the loop in a row
    late     \* has run() gone on with a certificate that was due, or expired,
             \* and has no renewal been completed since?  (Kept for the
             \* properties; in EnrollErr and CheckErr it lifts the bound.)

vars == <<now, disk, served, loop, until, fails, late>>

Validity == [notBefore : Int, notAfter : Int]

TypeOK ==
    /\ now \in 0..MaxTime
    /\ disk \in Validity
    /\ served \in Validity
    /\ loop \in {"sleep", "enroll", "reload"}
    /\ until \in now..(MaxTime + Round)
    /\ fails \in 0..Faults
    /\ late \in BOOLEAN

-----------------------------------------------------------------------------

\* Duration::saturating_sub.
SaturatingSub(a, b) == IF a > b THEN a - b ELSE 0

\* Mutant: renew only once the certificate has expired.
needs_renewal_Late(v, t) == t >= v.notAfter

\* Mutant: two thirds of the lifetime, instead of the last third.
needs_renewal_Early(v, t) ==
    \/ t >= v.notAfter
    \/ SaturatingSub(v.notAfter, t) < 2 * (SaturatingSub(v.notAfter, v.notBefore) \div 3)

\* est.rs::needs_renewal.
needs_renewal(v, t) ==
    \/ t >= v.notAfter
    \/ SaturatingSub(v.notAfter, t) < SaturatingSub(v.notAfter, v.notBefore) \div 3

\* Validities the server may give a certificate it issues at time t.
Issued(t) == {[notBefore |-> t - b, notAfter |-> t - b + Lifetime] : b \in 0..Backdate}

\* run() has loaded the certificate and has just spawned the loop.  The
\* certificate may be due or have expired: run() goes on with it when the
\* re-enrollments at startup fail or its expiry cannot be evaluated.
Init ==
    /\ now = 0
    /\ \E age \in 0..MaxAge :
        disk = [notBefore |-> 0 - age, notAfter |-> Lifetime - age]
    /\ served = disk
    /\ loop = "sleep" /\ until = Sleep
    /\ fails = 0
    /\ late = needs_renewal(disk, 0)

\* Mutant: the next tick is reckoned from the start of the loop.
GoToSleep_FromStart == loop' = "sleep" /\ until' = Sleep

\* tokio::time::sleep(interval): the next tick is an interval from now.
GoToSleep == loop' = "sleep" /\ until' = now + Sleep

\* The sleep is over and cert_needs_renewal says no.
CheckCurrent ==
    /\ loop = "sleep" /\ now = until
    /\ ~needs_renewal(disk, now)
    /\ fails' = 0
    /\ GoToSleep
    /\ UNCHANGED <<now, disk, served, late>>

\* A round fails; Faults bounds how many do in a row, but for a node that was
\* late from the start.
RoundFails ==
    /\ fails < Faults \/ late
    /\ fails' = IF fails < Faults THEN fails + 1 ELSE fails

\* The sleep is over and cert_needs_renewal returns Err: log, and wait.
CheckErr ==
    /\ loop = "sleep" /\ now = until
    /\ RoundFails
    /\ GoToSleep
    /\ UNCHANGED <<now, disk, served, late>>

\* The sleep is over and the certificate is due: reenroll is called.
CheckDue ==
    /\ loop = "sleep" /\ now = until
    /\ needs_renewal(disk, now)
    /\ loop' = "enroll" /\ until' = now + Latency
    /\ UNCHANGED <<now, disk, served, fails, late>>

\* reenroll returns Ok: the new certificate is on disk.
EnrollOk ==
    /\ loop = "enroll"
    /\ disk' \in Issued(now)
    /\ loop' = "reload"
    /\ fails' = 0
    /\ UNCHANGED <<now, served, until, late>>

\* reenroll returns Err: log, and wait for the next tick.
EnrollErr ==
    /\ loop = "enroll"
    /\ RoundFails
    /\ GoToSleep
    /\ UNCHANGED <<now, disk, served, late>>

\* resolver.reload(); when it fails, the loop logs it and sleeps.
Reload ==
    /\ loop = "reload"
    /\ served' \in IF ReloadReliable THEN {disk} ELSE {disk, served}
    /\ late' = FALSE
    /\ GoToSleep
    /\ UNCHANGED <<now, disk, fails>>

\* Time passes, but neither the sleep nor an enrollment outlasts `until`.
Advance ==
    /\ loop # "reload" /\ now < until /\ now < MaxTime
    /\ now' = now + 1
    /\ UNCHANGED <<disk, served, loop, until, fails, late>>

Next ==
    \/ CheckCurrent \/ CheckDue \/ CheckErr
    \/ EnrollOk \/ EnrollErr
    \/ Reload
    \/ Advance

Spec == Init /\ [][Next]_vars

-----------------------------------------------------------------------------
(* Properties.                                                             *)

\* Unless run() went on with a certificate that was already due, the TLS
\* server never presents an expired one, although Faults rounds in a row may
\* fail, if the window of needs_renewal has room for that many.  A node that
\* was late serves what it has until the first renewal is complete, expired
\* or not; from then on the same holds of it.
ServedValid == RoomForFaults /\ ~late => now < served.notAfter

\* The loop replaces a certificate only in the last third of its lifetime.
\* (It decides before the enrollment, and the clock only runs forward.)
NotTooEarly == [][disk' # disk => 3 * (disk.notAfter - now) < Lifetime]_vars

\* main.rs, renewal_loop: "failures are logged and retried on the next tick".
\* So an expired certificate is not served for longer than one round while
\* the disk holds a valid one.
ReloadRetried == now >= served.notAfter + Round => disk = served \/ now >= disk.notAfter
=============================================================================
