---------------------------- MODULE RenewalProofs ----------------------------
(***************************************************************************)
(* For every interval, lifetime, latency and number of consecutive failed  *)
(* enrollments: if (Faults + 1) rounds of the loop fit into the last third *)
(* of a certificate's lifetime, the certificate on disk never expires,     *)
(* and, if reload() works, neither does the one the TLS server presents.   *)
(* A node that run() started with a certificate already due is the         *)
(* exception, and only until its first renewal is complete.                *)
(***************************************************************************)
EXTENDS Renewal, TLAPS

\* A certificate as the server issues it.
FullLife(v) == v \in Validity /\ v.notAfter = v.notBefore + Lifetime

\* The time that f failed rounds can take.
Spent(f) == f * Round

\* What is left of the certificate on disk when the current sleep or
\* enrollment is over: each failed round has cost at most one Round.
Budget ==
    /\ loop = "sleep" /\ ~late => disk.notAfter - until >= Window - Sleep - Spent(fails)
    /\ loop = "enroll" /\ ~late => disk.notAfter - until >= Window - Spent(fails + 1)
    /\ loop = "reload" => disk.notAfter - now >= Window

\* Served and stored certificate differ only between a renewal and the
\* reload that follows it, while the old certificate is still valid.
InStep ==
    /\ loop # "reload" => served = disk
    /\ loop = "reload" /\ ~late => now < served.notAfter

\* What holds of every deployment.
LoopInv ==
    /\ TypeOK
    /\ FullLife(disk) /\ FullLife(served)
    /\ loop = "enroll" => needs_renewal(disk, now)
    /\ Budget

\* What holds if reload() works and the window has room for the faults.
IInv == LoopInv /\ InStep

-----------------------------------------------------------------------------
(* Arithmetic.                                                             *)

LEMMA Constants ==
    /\ Sleep \in Nat /\ Round \in Nat /\ Window \in Nat /\ Sleep <= Round
    /\ Lifetime \in Nat /\ Lifetime > 0 /\ 3 * Window <= Lifetime
    /\ Backdate \in Nat /\ Backdate <= Lifetime - Window
    /\ Latency \in Nat /\ Round = Sleep + Latency
    /\ Faults \in Nat /\ MaxAge \in Nat /\ MaxTime \in Nat
BY RenewalAssumption DEF Sleep, Round, Window

LEMMA SpentGrows ==
    ASSUME NEW f \in Nat
    PROVE  Spent(f) \in Nat /\ Spent(f + 1) = Spent(f) + Round
BY Constants DEF Spent

\* No number of failures within the budget uses the window up.
LEMMA SpentFits ==
    ASSUME RoomForFaults, NEW f \in 0..Faults
    PROVE  Spent(f + 1) < Window
<1>1. (f + 1) * Round <= (Faults + 1) * Round
    <2>1. PICK d \in Nat : Faults = f + d
        <3>1. Faults - f \in Nat /\ Faults = f + (Faults - f)
            BY Constants
        <3> QED
            BY <3>1
    <2>2. (Faults + 1) * Round = (f + 1) * Round + d * Round
        BY <2>1, Constants
    <2>3. d * Round \in Nat /\ (f + 1) * Round \in Nat
        BY <2>1, Constants
    <2> QED
        BY <2>2, <2>3
<1> QED
    BY <1>1, Constants DEF RoomForFaults, Spent

\* needs_renewal on a certificate of full lifetime: the window is exactly
\* the last third.
LEMMA WindowIsLastThird ==
    ASSUME NEW v, FullLife(v), NEW t \in Int
    PROVE  /\ ~needs_renewal(v, t) => v.notAfter - t >= Window
           /\ needs_renewal(v, t) => 3 * (v.notAfter - t) < Lifetime
<1>1. v.notAfter \in Int /\ v.notBefore \in Int /\ v.notAfter - v.notBefore = Lifetime
    BY Constants DEF FullLife, Validity
<1>2. SaturatingSub(v.notAfter, v.notBefore) \div 3 = Window
    BY <1>1, Constants DEF SaturatingSub, Window
<1> QED
    BY <1>1, <1>2, Constants DEF needs_renewal, SaturatingSub

\* Once due, a certificate stays due.
LEMMA DueStaysDue ==
    ASSUME NEW v, FullLife(v), NEW t \in Int, needs_renewal(v, t)
    PROVE  needs_renewal(v, t + 1)
<1>1. v.notAfter \in Int /\ v.notBefore \in Int
    BY DEF FullLife, Validity
<1>2. SaturatingSub(v.notAfter, v.notBefore) \div 3 \in Int
    BY <1>1 DEF SaturatingSub
<1> QED
    BY <1>1, <1>2 DEF needs_renewal, SaturatingSub

\* A certificate just issued has full lifetime and is not near its window.
LEMMA IssuedIsLong ==
    ASSUME NEW t \in Nat, NEW v \in Issued(t)
    PROVE  FullLife(v) /\ v.notAfter - t >= Window
BY Constants DEF Issued, FullLife, Validity

-----------------------------------------------------------------------------

LEMMA InitInv == Init => IInv
<1> SUFFICES ASSUME Init PROVE IInv
    OBVIOUS
<1> USE Constants
<1>1. PICK age \in 0..MaxAge : disk = [notBefore |-> 0 - age, notAfter |-> Lifetime - age]
    BY DEF Init
<1>2. FullLife(disk)
    BY <1>1 DEF FullLife, Validity
<1>3. TypeOK
    <2>1. late \in BOOLEAN
        BY ZenonT(30) DEF Init, needs_renewal
    <2> QED
        BY <1>2, <2>1 DEF Init, TypeOK, FullLife
<1>4. disk.notAfter \in Int /\ (~late => disk.notAfter - 0 >= Window)
    BY <1>2, WindowIsLastThird DEF Init, FullLife, Validity
<1>5. Budget
    BY <1>4, SpentGrows DEF Budget, Init
<1> QED
    BY <1>2, <1>3, <1>5 DEF IInv, LoopInv, InStep, Init

LEMMA NextLoop ==
    ASSUME LoopInv, [Next]_vars
    PROVE  LoopInv'
<1> USE Constants
<1>0. /\ now \in 0..MaxTime /\ now \in Nat /\ until \in now..(MaxTime + Round) /\ until \in Nat
      /\ fails \in 0..Faults /\ fails \in Nat /\ late \in BOOLEAN
      /\ disk \in Validity /\ disk.notAfter \in Int /\ served \in Validity /\ served.notAfter \in Int
      /\ FullLife(disk) /\ FullLife(served)
    BY DEF LoopInv, TypeOK, Validity
<1>1. Spent(fails) \in Nat /\ Spent(fails + 1) = Spent(fails) + Round
    BY <1>0, SpentGrows
<1>2. CASE CheckCurrent
    <2>1. /\ loop = "sleep" /\ loop' = "sleep" /\ until' = now + Sleep
          /\ fails' = 0 /\ UNCHANGED <<now, disk, served, late>>
          /\ disk.notAfter - now >= Window
        BY <1>0, <1>2, WindowIsLastThird DEF CheckCurrent, GoToSleep
    <2>2. Spent(0) = 0
        BY DEF Spent
    <2> QED
        BY <1>0, <2>1, <2>2 DEF LoopInv, TypeOK, Budget
<1>3. CASE CheckDue
    <2>1. /\ loop = "sleep" /\ now = until /\ loop' = "enroll" /\ until' = now + Latency
          /\ UNCHANGED <<now, disk, served, fails, late>>
          /\ needs_renewal(disk, now)
        BY <1>3 DEF CheckDue
    <2>2. ~late => disk.notAfter - until' >= Window - Spent(fails + 1)
        BY <1>0, <1>1, <2>1 DEF LoopInv, Budget
    <2>3. needs_renewal(disk, now)'
        BY <2>1 DEF needs_renewal
    <2> QED
        BY <1>0, <2>1, <2>2, <2>3 DEF LoopInv, TypeOK, Budget
<1>4. CASE EnrollOk
    <2>1. /\ loop = "enroll" /\ loop' = "reload" /\ fails' = 0 /\ disk' \in Issued(now)
          /\ UNCHANGED <<now, served, until, late>>
        BY <1>4 DEF EnrollOk
    <2>2. FullLife(disk') /\ disk'.notAfter - now >= Window
        BY <1>0, <2>1, IssuedIsLong
    <2> QED
        BY <1>0, <2>1, <2>2 DEF LoopInv, TypeOK, Budget, FullLife
<1>5. CASE EnrollErr \/ CheckErr
    <2>1. /\ loop \in {"sleep", "enroll"} /\ (loop = "sleep" => now = until)
          /\ loop' = "sleep" /\ until' = now + Sleep
          /\ fails < Faults \/ late
          /\ fails' = IF fails < Faults THEN fails + 1 ELSE fails
          /\ UNCHANGED <<now, disk, served, late>>
        BY <1>5 DEF EnrollErr, CheckErr, RoundFails, GoToSleep
    <2>2. fails' \in 0..Faults /\ (~late => fails' = fails + 1)
        BY <1>0, <2>1
    <2>3. ~late => disk.notAfter - until' >= Window - Sleep - Spent(fails')
        BY <1>0, <1>1, <2>1, <2>2 DEF LoopInv, Budget
    <2> QED
        BY <1>0, <2>1, <2>2, <2>3 DEF LoopInv, TypeOK, Budget
<1>6. CASE Reload
    <2>1. /\ loop = "reload" /\ loop' = "sleep" /\ until' = now + Sleep
          /\ served' = disk \/ served' = served
          /\ UNCHANGED <<now, disk, fails>>
        BY <1>6 DEF Reload, GoToSleep
    <2>2. late' \in BOOLEAN
        BY <1>6, Zenon DEF Reload
    <2>3. FullLife(served') /\ served' \in Validity
        BY <1>0, <2>1
    <2>4. TypeOK'
        BY <1>0, <2>1, <2>2, <2>3 DEF TypeOK
    <2>5. disk.notAfter - now >= Window
        BY <2>1 DEF LoopInv, Budget
    <2>6. Budget'
        BY <1>0, <1>1, <2>1, <2>5 DEF Budget
    <2> QED
        BY <1>0, <2>1, <2>3, <2>4, <2>6 DEF LoopInv, FullLife
<1>7. CASE Advance
    <2>1. /\ loop # "reload" /\ now < until /\ now < MaxTime /\ now' = now + 1
          /\ UNCHANGED <<disk, served, loop, until, fails, late>>
        BY <1>7 DEF Advance
    <2>2. loop = "enroll" => needs_renewal(disk, now)'
        BY <1>0, <2>1, DueStaysDue DEF LoopInv, needs_renewal
    <2> QED
        BY <1>0, <2>1, <2>2 DEF LoopInv, TypeOK, Budget, FullLife
<1>8. CASE UNCHANGED vars
    BY <1>8 DEF vars, LoopInv, TypeOK, Budget, FullLife, needs_renewal
<1> QED
    BY <1>2, <1>3, <1>4, <1>5, <1>6, <1>7, <1>8 DEF Next

\* With room for the faults, the stored certificate is always valid, but on
\* a node that is late.
LEMMA StoredIsValid ==
    ASSUME RoomForFaults, LoopInv, ~late
    PROVE  now < disk.notAfter
<1>1. fails \in 0..Faults /\ fails \in Nat /\ now \in Nat /\ until \in Nat /\ now <= until
    BY Constants DEF LoopInv, TypeOK
<1>2. disk.notAfter \in Int /\ loop \in {"sleep", "enroll", "reload"}
    BY DEF LoopInv, TypeOK, Validity
<1>3. Spent(fails) \in Nat /\ Spent(fails + 1) = Spent(fails) + Round /\ Spent(fails + 1) < Window
    BY <1>1, SpentGrows, SpentFits
<1> QED
    BY <1>1, <1>2, <1>3, Constants DEF LoopInv, Budget

LEMMA NextInv ==
    ASSUME ReloadReliable, RoomForFaults, IInv, [Next]_vars
    PROVE  IInv'
<1>1. LoopInv /\ LoopInv' /\ InStep /\ (~late => now < disk.notAfter)
    BY NextLoop, StoredIsValid DEF IInv
<1>2. loop \in {"sleep", "enroll", "reload"}
    BY <1>1 DEF LoopInv, TypeOK
<1>3. InStep'
    BY <1>1, <1>2 DEF InStep, Next, CheckCurrent, CheckDue, CheckErr, EnrollOk, EnrollErr, Reload, Advance,
       GoToSleep, vars
<1> QED
    BY <1>1, <1>3 DEF IInv

LEMMA LoopCorrect == Spec => []LoopInv
<1>1. Init => LoopInv
    BY InitInv DEF IInv
<1>2. LoopInv /\ [Next]_vars => LoopInv'
    BY NextLoop
<1> QED
    BY <1>1, <1>2, PTL DEF Spec

-----------------------------------------------------------------------------

\* The loop's state stays typed; its counter of failed rounds and the end of
\* a sleep stay within their bounds, however the window is chosen and
\* whether or not reload() works.
THEOREM TypeCorrect == Spec => []TypeOK
<1>1. LoopInv => TypeOK
    BY DEF LoopInv
<1> QED
    BY <1>1, LoopCorrect, PTL

\* The certificate on disk never expires, for every configuration whose
\* window has room for the rounds that may fail, even when no reload()
\* ever works, so that a restart of noded finds a valid certificate: from
\* the start, if run() entered the loop with one that was not due, and from
\* the first renewal on, if it went on with one that was due or expired.
THEOREM NeverStoresExpired == ASSUME RoomForFaults PROVE Spec => [](~late => now < disk.notAfter)
<1>1. LoopInv => (~late => now < disk.notAfter)
    BY StoredIsValid
<1> QED
    BY <1>1, LoopCorrect, PTL

\* If reload() works, an expired certificate is never served, for every
\* configuration whose window has room for the rounds that may fail, except
\* by a node that run() started with a certificate that was due or expired,
\* and by that one only until its first renewal is complete.
THEOREM NeverServesExpired == ASSUME ReloadReliable PROVE Spec => []ServedValid
<1>1. CASE RoomForFaults
    <2>1. IInv /\ [Next]_vars => IInv'
        BY <1>1, NextInv
    <2>2. IInv => ServedValid
        <3> SUFFICES ASSUME IInv, ~late PROVE now < served.notAfter
            BY DEF ServedValid
        <3> QED
            BY <1>1, StoredIsValid DEF IInv, InStep
    <2> QED
        BY <2>1, <2>2, InitInv, PTL DEF Spec
<1>2. CASE ~RoomForFaults
    <2>1. ServedValid
        BY <1>2 DEF ServedValid
    <2> QED
        BY <2>1, PTL
<1> QED
    BY <1>1, <1>2

\* The renewal is never premature: a certificate is replaced only in the
\* last third of its lifetime.
THEOREM NeverTooEarly == Spec => NotTooEarly
<1>1. LoopInv /\ [Next]_vars => [disk' # disk => 3 * (disk.notAfter - now) < Lifetime]_vars
    <2> SUFFICES ASSUME LoopInv, Next, disk' # disk PROVE 3 * (disk.notAfter - now) < Lifetime
        OBVIOUS
    <2>1. EnrollOk
        BY DEF Next, CheckCurrent, CheckDue, CheckErr, EnrollErr, Reload, Advance
    <2>2. loop = "enroll" /\ now \in Int
        BY <2>1, Constants DEF EnrollOk, LoopInv, TypeOK
    <2> QED
        BY <2>2, WindowIsLastThird DEF LoopInv
<1> QED
    BY <1>1, LoopCorrect, PTL DEF Spec, NotTooEarly
=============================================================================
