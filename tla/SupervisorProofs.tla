--------------------------- MODULE SupervisorProofs ---------------------------
(***************************************************************************)
(* The supervisor for every list of services, every number of polls and    *)
(* every behaviour of the services: no service ever has two processes, none *)
(* runs before its gate opens, and the boot goes through the list in order. *)
(***************************************************************************)
EXTENDS Supervisor, TLAPS

\* What initd remembers of its children is what there is: a process belongs
\* to a child it holds, and a child was started behind an open gate.
Children ==
    /\ OneProcess
    /\ \A s \in Services : live[s] > 0 => child[s]
    /\ \A s \in Services : child[s] => Present(spec[s].startWhen)

\* During the boot, services further down the list have not been started,
\* and those further up are settled.
BootOrder ==
    /\ pc = "start" => \A s \in Services : s >= cur => ~child[s]
    /\ pc = "await" => /\ \A s \in Services : s > cur => ~child[s]
                       /\ spec[cur].readyWhen # NoMarker
    /\ pc \in {"start", "await"} => \A s \in Services : s < cur => Settled(s)

IInv == TypeOK /\ Children /\ BootOrder

-----------------------------------------------------------------------------

LEMMA InitInv == Init => IInv
BY SupervisorAssumption
   DEF Init, IInv, TypeOK, Children, OneProcess, BootOrder, Services, ServiceSpec

\* Spawning the current service keeps the types.
LEMMA SpawnType ==
    ASSUME TypeOK, Spawned(cur)
    PROVE  live' \in [Services -> Nat] /\ child' \in [Services -> BOOLEAN]
BY DEF TypeOK, Spawned

\* Going on to the next service, in the boot and in a pass, keeps the types.
LEMMA AdvanceType ==
    ASSUME TypeOK, NEW out \in SUBSET Services,
           NextService(out) \/ (NextChild /\ UNCHANGED <<polls, timedOut>> /\ pc = "supervise")
    PROVE  /\ cur' \in Services /\ polls' \in 0..MaxPolls /\ timedOut' \subseteq Services
           /\ pc' \in {"start", "await", "supervise", "sleep", "bootFailed", "halted"}
<1>1. timedOut' \subseteq Services
    BY DEF TypeOK, NextService
<1>2. cur' \in Services
    BY SupervisorAssumption DEF TypeOK, NextService, NextChild, Services
<1> QED
    BY <1>1, <1>2, SupervisorAssumption DEF TypeOK, NextService, NextChild

LEMMA NextType == TypeOK /\ [Next]_vars => TypeOK'
<1> SUFFICES ASSUME TypeOK, [Next]_vars PROVE TypeOK'
    OBVIOUS
<1> USE SupervisorAssumption
<1>0. timedOut \in SUBSET Services /\ timedOut \cup {cur} \in SUBSET Services
    BY DEF TypeOK
<1>1. CASE Defer \/ Ready \/ TimeOut
    BY <1>0, <1>1, AdvanceType DEF TypeOK, Defer, Ready, TimeOut
<1>2. CASE Start
    <2>1. live' \in [Services -> Nat] /\ child' \in [Services -> BOOLEAN]
        BY <1>2, SpawnType DEF Start
    <2>2. CASE spec[cur].readyWhen = NoMarker
        BY <1>0, <1>2, <2>1, <2>2, AdvanceType DEF TypeOK, Start
    <2>3. CASE spec[cur].readyWhen # NoMarker
        BY <1>2, <2>1, <2>3 DEF TypeOK, Start
    <2> QED
        BY <2>2, <2>3
<1>3. CASE StartFails \/ WaitFails \/ RestartFails \/ RequiredExited \/ Wake
    BY <1>3 DEF TypeOK, StartFails, WaitFails, RestartFails, RequiredExited, Wake
<1>4. CASE Poll
    BY <1>4 DEF TypeOK, Poll
<1>5. CASE StartDeferred \/ Restart
    BY <1>0, <1>5, AdvanceType, SpawnType DEF TypeOK, StartDeferred, Restart
<1>6. CASE Skip
    BY <1>0, <1>6, AdvanceType DEF TypeOK, Skip
<1>7. ASSUME NEW s \in Services, Exit(s) PROVE TypeOK'
    BY <1>7 DEF TypeOK, Exit
<1>8. ASSUME NEW m \in Markers, CreateMarker(m) PROVE TypeOK'
    BY <1>8 DEF TypeOK, CreateMarker
<1>9. CASE UNCHANGED vars
    BY <1>9 DEF TypeOK, vars
<1> QED
    BY <1>1, <1>2, <1>3, <1>4, <1>5, <1>6, <1>7, <1>8, <1>9 DEF Next, Initd

-----------------------------------------------------------------------------

\* A start of a service that has no process, behind an open gate.
LEMMA SpawnChildren ==
    ASSUME TypeOK, Children, Spawned(cur), live[cur] = 0, Present(spec[cur].startWhen),
           UNCHANGED <<spec, markers>>
    PROVE  Children'
BY DEF TypeOK, Children, OneProcess, Spawned, Present

LEMMA NextChildren == IInv /\ [Next]_vars => Children'
<1> SUFFICES ASSUME IInv, [Next]_vars PROVE Children'
    OBVIOUS
<1>0. TypeOK /\ Children /\ cur \in Services
    BY DEF IInv, TypeOK
<1>1. CASE UNCHANGED <<spec, markers, child, live>>
    BY <1>0, <1>1 DEF Children, OneProcess, Present
<1>2. CASE Start
    <2>1. live[cur] = 0
        BY <1>0, <1>2, SupervisorAssumption DEF Start, IInv, BootOrder, Children, TypeOK, Services
    <2> QED
        BY <1>0, <1>2, <2>1, SpawnChildren DEF Start
<1>3. CASE StartDeferred
    <2>1. live[cur] = 0
        BY <1>0, <1>3 DEF StartDeferred, Children, TypeOK
    <2> QED
        BY <1>0, <1>3, <2>1, SpawnChildren DEF StartDeferred
<1>4. CASE Restart
    <2>1. live[cur] = 0 /\ Present(spec[cur].startWhen)
        BY <1>0, <1>4 DEF Restart, Exited, Children
    <2> QED
        BY <1>0, <1>4, <2>1, SpawnChildren DEF Restart
<1>5. ASSUME NEW s \in Services, Exit(s) PROVE Children'
    BY <1>0, <1>5 DEF Exit, TypeOK, Children, OneProcess, Present
<1>6. ASSUME NEW m \in Markers, CreateMarker(m) PROVE Children'
    BY <1>0, <1>6 DEF CreateMarker, Children, OneProcess, Present
<1>7. CASE UNCHANGED vars
    BY <1>1, <1>7 DEF vars
<1> QED
    BY <1>1, <1>2, <1>3, <1>4, <1>5, <1>6, <1>7
       DEF Next, Initd, Defer, StartFails, Ready, Poll, TimeOut, Skip, WaitFails, RestartFails,
           RequiredExited, Wake

\* A settled service stays settled while the others move on.
LEMMA SettledStays ==
    ASSUME NEW s \in Services, Settled(s), markers \subseteq markers', timedOut \subseteq timedOut',
           spec' = spec, child'[s] = child[s]
    PROVE  Settled(s)'
BY DEF Settled, Present

\* NextService leaves the services up to cur behind, all of them settled,
\* unless it was the last.
LEMMA NextServiceOrder ==
    ASSUME IInv, NEW out, NextService(out), pc \in {"start", "await"},
           timedOut' = out => \A s \in Services : s <= cur => Settled(s)',
           \A s \in Services : s > cur => ~child'[s]
    PROVE  BootOrder'
BY SupervisorAssumption DEF IInv, TypeOK, NextService, BootOrder, Services

LEMMA NextOrder == IInv /\ [Next]_vars => BootOrder'
<1> SUFFICES ASSUME IInv, [Next]_vars PROVE BootOrder'
    OBVIOUS
<1> USE SupervisorAssumption
<1>0. TypeOK /\ BootOrder /\ cur \in Services /\ cur \in Nat
    BY DEF IInv, TypeOK, Services
<1>c. PICK c \in Services : c = cur
    BY <1>0
<1>1. CASE Defer
    <2>1. \A s \in Services : s > cur => ~child'[s]
        BY <1>0, <1>1 DEF Defer, BootOrder, Services
    <2>2. ASSUME timedOut' = timedOut, NEW s \in Services, s <= cur PROVE Settled(s)'
        <3>1. CASE s = c
            BY <1>0, <1>c, <1>1, <3>1 DEF Defer, BootOrder, Settled, Services
        <3>2. CASE s # c
            BY <1>0, <1>c, <1>1, <2>2, <3>2, SettledStays DEF Defer, BootOrder, Services
        <3> QED
            BY <3>1, <3>2
    <2> QED
        BY <1>1, <2>1, <2>2, NextServiceOrder DEF Defer
<1>2. CASE Start
    <2>1. \A s \in Services : s # cur => child'[s] = child[s]
        BY <1>0, <1>2 DEF Start, Spawned, TypeOK
    <2>2. ASSUME timedOut' = timedOut, NEW s \in Services, s < cur PROVE Settled(s)'
        BY <1>0, <1>2, <2>1, <2>2, SettledStays DEF Start, BootOrder, Services
    <2>3. \A s \in Services : s > cur => ~child'[s]
        BY <1>0, <1>2, <2>1 DEF Start, BootOrder, Services
    <2>4. CASE spec[cur].readyWhen = NoMarker
        <3>1. Settled(c)'
            BY <1>c, <1>2, <2>4 DEF Start, Settled, Present
        <3>2. timedOut' = timedOut => \A s \in Services : s <= cur => Settled(s)'
            BY <1>c, <2>2, <3>1 DEF Services
        <3> QED
            BY <1>2, <2>3, <2>4, <3>2, NextServiceOrder DEF Start
    <2>5. CASE spec[cur].readyWhen # NoMarker
        BY <1>2, <2>2, <2>3, <2>5 DEF Start, BootOrder
    <2> QED
        BY <2>4, <2>5
<1>3. CASE Ready \/ TimeOut
    <2>1. PICK out \in SUBSET Services :
             /\ NextService(out) /\ timedOut \subseteq out
             /\ spec[c].readyWhen \in markers \/ c \in out
        BY <1>0, <1>c, <1>3 DEF Ready, TimeOut, TypeOK
    <2>2. pc = "await" /\ UNCHANGED <<spec, markers, child>>
        BY <1>3 DEF Ready, TimeOut
    <2>3. \A s \in Services : s > cur => ~child'[s]
        BY <1>0, <2>2 DEF BootOrder
    <2>4. ASSUME timedOut' = out, NEW s \in Services, s <= cur PROVE Settled(s)'
        <3>1. CASE s = c
            BY <2>1, <2>2, <2>4, <3>1 DEF Settled, Present
        <3>2. CASE s # c
            BY <1>0, <1>c, <2>1, <2>2, <2>4, <3>2, SettledStays DEF BootOrder, Services
        <3> QED
            BY <3>1, <3>2
    <2> QED
        BY <2>1, <2>2, <2>3, <2>4, NextServiceOrder
<1>4. CASE pc' \notin {"start", "await"}
    BY <1>4 DEF BootOrder
<1>5. CASE Poll
    BY <1>0, <1>5 DEF Poll, BootOrder, Settled, Present
<1>6. ASSUME NEW s \in Services, Exit(s) PROVE BootOrder'
    BY <1>0, <1>6 DEF Exit, BootOrder, Settled, Present
<1>7. ASSUME NEW m \in Markers, CreateMarker(m) PROVE BootOrder'
    BY <1>0, <1>7 DEF CreateMarker, BootOrder, Settled, Present
<1>8. CASE UNCHANGED vars
    BY <1>0, <1>8 DEF vars, BootOrder, Settled, Present
<1>9. CASE \/ StartFails \/ StartDeferred \/ Skip \/ WaitFails \/ Restart \/ RestartFails
           \/ RequiredExited \/ Wake
    BY <1>4, <1>9 DEF StartFails, StartDeferred, Skip, WaitFails, Restart, RestartFails,
       RequiredExited, Wake, NextChild
<1> QED
    BY <1>1, <1>2, <1>3, <1>5, <1>6, <1>7, <1>8, <1>9 DEF Next, Initd

LEMMA NextInv == IInv /\ [Next]_vars => IInv'
BY NextType, NextChildren, NextOrder DEF IInv

LEMMA InvCorrect == Spec => []IInv
BY InitInv, NextInv, PTL DEF Spec

-----------------------------------------------------------------------------

\* initd's state stays typed.
THEOREM TypeCorrect == Spec => []TypeOK
<1>1. IInv => TypeOK
    BY DEF IInv
<1> QED
    BY <1>1, InvCorrect, PTL

\* No service ever has two processes.
THEOREM NeverTwoProcesses == Spec => []OneProcess
<1>1. IInv => OneProcess
    BY DEF IInv, Children
<1> QED
    BY <1>1, InvCorrect, PTL

\* No service runs before its start marker exists.
THEOREM GateHolds == Spec => []StartGate
<1>1. IInv => StartGate
    BY DEF IInv, Children, StartGate
<1> QED
    BY <1>1, InvCorrect, PTL

\* The boot starts a service when the ones before it are ready, deferred or
\* out of time.
THEOREM StartsInOrder == Spec => ReadyOrder
<1>1. IInv /\ [Next]_vars =>
        [pc = "start" /\ live' # live /\ child' # child
            => \A s \in Services : s < cur => Settled(s)]_vars
    BY DEF IInv, BootOrder
<1> QED
    BY <1>1, InvCorrect, PTL DEF Spec, ReadyOrder

-----------------------------------------------------------------------------
(* What the boot leaves to the supervisor.                                 *)

\* The services the boot has passed, and that no gate held back, have been
\* started.
Begun ==
    \A s \in Services :
        /\ spec[s].startWhen = NoMarker
        /\ \/ pc = "start" /\ s < cur
           \/ pc = "await" /\ s <= cur
           \/ pc \in {"supervise", "sleep", "halted"}
        => child[s]

\* A child that initd holds is never given up, only replaced.
LEMMA ChildKept == TypeOK /\ [Next]_vars => \A s \in Services : child[s] => child'[s]
BY DEF TypeOK, Next, Initd, Defer, Start, StartFails, Ready, Poll, TimeOut, StartDeferred, Skip,
   WaitFails, Restart, RestartFails, RequiredExited, Wake, Exit, CreateMarker, Spawned, vars

LEMMA NextBegun == IInv /\ Begun /\ [Next]_vars => Begun'
<1> SUFFICES ASSUME IInv, Begun, [Next]_vars PROVE Begun'
    OBVIOUS
<1> USE SupervisorAssumption
<1>0. /\ cur \in Services /\ cur \in Nat /\ Services \subseteq Nat
      /\ \A s \in Services : s <= NumServices /\ (child[s] => child'[s])
    BY ChildKept DEF IInv, TypeOK, Services
<1>1. CASE Defer
    <2>1. spec[cur].startWhen # NoMarker
        BY <1>1 DEF Defer, Present
    <2> QED
        BY <1>0, <1>1, <2>1 DEF Defer, NextService, Begun
<1>2. CASE Start
    <2>1. child'[cur] /\ pc = "start" /\ UNCHANGED spec
        BY <1>0, <1>2 DEF Start, Spawned, IInv, TypeOK
    <2>2. \A s \in Services : s <= cur /\ spec[s].startWhen = NoMarker => child'[s]
        BY <1>0, <2>1 DEF Begun
    <2>3. NextService(timedOut) \/ (pc' = "await" /\ UNCHANGED cur)
        BY <1>2 DEF Start
    <2> QED
        BY <1>0, <2>1, <2>2, <2>3 DEF NextService, Begun
<1>3. CASE Ready \/ TimeOut
    BY <1>0, <1>3 DEF Ready, TimeOut, NextService, Begun
<1>4. CASE \/ StartDeferred \/ Skip \/ WaitFails \/ Restart \/ RestartFails \/ RequiredExited
           \/ Wake
    BY <1>0, <1>4 DEF StartDeferred, Skip, WaitFails, Restart, RestartFails, RequiredExited, Wake,
       NextChild, Begun
<1>5. CASE StartFails
    BY <1>5 DEF StartFails, Begun
<1>6. CASE UNCHANGED <<spec, pc, cur>>
    BY <1>0, <1>6 DEF Begun
<1> QED
    BY <1>1, <1>2, <1>3, <1>4, <1>5, <1>6 DEF Next, Initd, Poll, Exit, CreateMarker, vars

\* When start_services has gone through the list, only services behind a
\* start gate have not been started; initd holds a child for every other.
THEOREM OnlyGatedDeferred ==
    Spec => [](pc \in {"supervise", "sleep", "halted"} =>
                 \A s \in Services : ~child[s] => spec[s].startWhen # NoMarker)
<1>1. Init => Begun
    BY SupervisorAssumption DEF Init, Begun, Services
<1>2. Begun => (pc \in {"supervise", "sleep", "halted"} =>
                 \A s \in Services : ~child[s] => spec[s].startWhen # NoMarker)
    BY DEF Begun
<1> QED
    BY <1>1, <1>2, NextBegun, InvCorrect, PTL DEF Spec

\* Why supervise returns.  As long as no respawn fails and no wait for a child
\* does, PID 1 gives up only when a service that must not exit has exited:
\* the two `?` in its loop are the only ways to break what docs/BOOT.md says.
THEOREM HaltsWithoutFault ==
    Spec /\ [][~RestartFails /\ ~WaitFails]_vars => []HaltsOnlyForRequired
<1>1. Init => HaltsOnlyForRequired
    BY DEF Init, HaltsOnlyForRequired
<1>2. IInv /\ HaltsOnlyForRequired /\ [Next]_vars /\ [~RestartFails /\ ~WaitFails]_vars
        => HaltsOnlyForRequired'
    <2> SUFFICES ASSUME IInv, HaltsOnlyForRequired, [Next]_vars,
                        [~RestartFails /\ ~WaitFails]_vars, pc' = "halted"
                 PROVE  \E s \in Services : spec'[s].restart = "never" /\ Exited(s)'
        BY DEF HaltsOnlyForRequired
    <2>1. CASE RequiredExited
        <3>1. PICK s \in Services : s = cur /\ spec[s].restart = "never" /\ Exited(s)
            BY <2>1 DEF RequiredExited, IInv, TypeOK
        <3>2. UNCHANGED <<spec, child, live>>
            BY <2>1 DEF RequiredExited
        <3> QED
            BY <3>1, <3>2 DEF Exited
    <2>2. CASE RestartFails \/ WaitFails
        BY <2>2 DEF RestartFails, WaitFails, vars
    <2>3. CASE UNCHANGED vars
        BY <2>3 DEF vars, HaltsOnlyForRequired, Exited
    <2> QED
        BY <2>1, <2>2, <2>3 DEF Next, Initd, Defer, Start, StartFails, Ready, Poll, TimeOut,
           StartDeferred, Skip, Restart, Wake, NextService, NextChild, Running, Exit, CreateMarker
<1> QED
    BY <1>1, <1>2, InvCorrect, PTL DEF Spec
=============================================================================
