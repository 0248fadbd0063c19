------------------------------ MODULE Supervisor ------------------------------
(***************************************************************************)
(* initd as PID 1 once the disks are mounted: main.rs::start_services,     *)
(* await_ready and supervise.  Services are started in list order, a       *)
(* service with a start gate is deferred until its marker exists, a        *)
(* readiness marker is waited for up to a timeout, and the supervisor then *)
(* looks at every service once a second.  Services run concurrently: they  *)
(* create markers and exit between any two steps of initd.                 *)
(***************************************************************************)
EXTENDS Naturals

CONSTANTS
    NumServices,    \* length of the `services` list
    Markers,        \* marker paths that services create
    NoMarker,       \* ready_when or start_when is not set
    ServiceLists,   \* the lists initd may be configured with
    Provider,       \* marker -> the service that creates it
    MaxPolls        \* polls of await_ready within ready_timeout_secs

Services == 1..NumServices
ServiceSpec == [restart : {"always", "never"}, readyWhen : Markers \cup {NoMarker},
                startWhen : Markers \cup {NoMarker}]

ASSUME SupervisorAssumption ==
    /\ NumServices \in Nat \ {0}
    /\ NoMarker \notin Markers
    /\ ServiceLists \subseteq [Services -> ServiceSpec]
    /\ Provider \in [Markers -> Services]
    /\ MaxPolls \in Nat

VARIABLES
    spec,      \* the services' configuration
    markers,   \* marker paths that exist
    pc,        \* where initd is
    cur,       \* the service it is at
    polls,     \* polls of the current await_ready
    child,     \* service -> does RunningService hold a child?
    live,      \* service -> processes of it that are alive
    timedOut   \* services whose await_ready gave up, until initd supervises

vars == <<spec, markers, pc, cur, polls, child, live, timedOut>>

TypeOK ==
    /\ spec \in ServiceLists
    /\ markers \subseteq Markers
    /\ pc \in {"start", "await", "supervise", "sleep", "bootFailed", "halted"}
    /\ cur \in Services
    /\ polls \in 0..MaxPolls
    /\ child \in [Services -> BOOLEAN]
    /\ live \in [Services -> Nat]
    /\ timedOut \subseteq Services

\* Markers on the persistent volume may have survived from an earlier boot.
Init ==
    /\ spec \in ServiceLists
    /\ markers \in SUBSET ({spec[s].startWhen : s \in Services} \cap Markers)
    /\ pc = "start" /\ cur = 1 /\ polls = 0
    /\ child = [s \in Services |-> FALSE]
    /\ live = [s \in Services |-> 0]
    /\ timedOut = {}

-----------------------------------------------------------------------------

\* marker.exists(), for a gate that may not be set.
Present(m) == m = NoMarker \/ m \in markers

\* spawn_service succeeds and the child is kept.
Spawned(s) ==
    /\ live' = [live EXCEPT ![s] = @ + 1]
    /\ child' = [child EXCEPT ![s] = TRUE]

\* start_services goes on to the next service; after the last, supervise.
NextService(out) ==
    /\ polls' = 0
    /\ IF cur < NumServices THEN cur' = cur + 1 /\ pc' = "start" /\ timedOut' = out
                            ELSE cur' = 1 /\ pc' = "supervise" /\ timedOut' = {}

\* Mutant: the pass stops before the last service.
NextChild_SkipsLast ==
    IF cur + 1 < NumServices THEN cur' = cur + 1 /\ UNCHANGED pc
                             ELSE cur' = 1 /\ pc' = "sleep"

\* supervise goes on to the next service; after the last, it sleeps.
NextChild ==
    IF cur < NumServices THEN cur' = cur + 1 /\ UNCHANGED pc
                         ELSE cur' = 1 /\ pc' = "sleep"

\* child.try_wait() reports an exit.
Exited(s) == child[s] /\ live[s] = 0

-----------------------------------------------------------------------------
(* start_services and await_ready.                                         *)

\* The start marker is missing: the service is deferred, and its readiness
\* is not waited for.
Defer ==
    /\ pc = "start" /\ ~Present(spec[cur].startWhen)
    /\ NextService(timedOut)
    /\ UNCHANGED <<spec, markers, child, live>>

\* Mutant: the start gate is not looked at.
Start_Ungated ==
    /\ pc = "start"
    /\ Spawned(cur)
    /\ IF spec[cur].readyWhen = NoMarker THEN NextService(timedOut)
       ELSE pc' = "await" /\ UNCHANGED <<cur, polls, timedOut>>
    /\ UNCHANGED <<spec, markers>>

\* Mutant: the next service does not wait for this one to be ready.
Start_NoAwait ==
    /\ pc = "start" /\ Present(spec[cur].startWhen)
    /\ Spawned(cur)
    /\ NextService(timedOut)
    /\ UNCHANGED <<spec, markers>>

\* The service is spawned, and waited for if it has a readiness marker.
Start ==
    /\ pc = "start" /\ Present(spec[cur].startWhen)
    /\ Spawned(cur)
    /\ IF spec[cur].readyWhen = NoMarker THEN NextService(timedOut)
       ELSE pc' = "await" /\ UNCHANGED <<cur, polls, timedOut>>
    /\ UNCHANGED <<spec, markers>>

\* spawn_service(service)? fails: main returns Err and PID 1 exits.
StartFails ==
    /\ pc = "start" /\ Present(spec[cur].startWhen)
    /\ pc' = "bootFailed"
    /\ UNCHANGED <<spec, markers, cur, polls, child, live, timedOut>>

Ready ==
    /\ pc = "await" /\ spec[cur].readyWhen \in markers
    /\ NextService(timedOut)
    /\ UNCHANGED <<spec, markers, child, live>>

\* Mutant: the deadline is never reached.
Poll_Forever ==
    /\ pc = "await" /\ spec[cur].readyWhen \notin markers
    /\ polls' = IF polls < MaxPolls THEN polls + 1 ELSE 0
    /\ UNCHANGED <<spec, markers, pc, cur, child, live, timedOut>>

\* Mutant: one poll too many.
Poll_OneMore ==
    /\ pc = "await" /\ spec[cur].readyWhen \notin markers /\ polls <= MaxPolls
    /\ polls' = polls + 1
    /\ UNCHANGED <<spec, markers, pc, cur, child, live, timedOut>>

\* The marker is missing and the deadline is not reached: sleep and retry.
Poll ==
    /\ pc = "await" /\ spec[cur].readyWhen \notin markers /\ polls < MaxPolls
    /\ polls' = polls + 1
    /\ UNCHANGED <<spec, markers, pc, cur, child, live, timedOut>>

\* The deadline is reached: a warning, and on to the next service.
TimeOut ==
    /\ pc = "await" /\ spec[cur].readyWhen \notin markers /\ polls = MaxPolls
    /\ NextService(timedOut \cup {cur})
    /\ UNCHANGED <<spec, markers, child, live>>

-----------------------------------------------------------------------------
(* supervise: one pass over the services, then a second's sleep.           *)

\* Mutant: the deferred service's child is not kept.
StartDeferred_Unkept ==
    /\ pc = "supervise" /\ ~child[cur] /\ Present(spec[cur].startWhen)
    /\ live' = [live EXCEPT ![cur] = @ + 1]
    /\ NextChild
    /\ UNCHANGED <<spec, markers, polls, child, timedOut>>

\* A deferred service whose marker has appeared is spawned.
StartDeferred ==
    /\ pc = "supervise" /\ ~child[cur] /\ Present(spec[cur].startWhen)
    /\ Spawned(cur)
    /\ NextChild
    /\ UNCHANGED <<spec, markers, polls, timedOut>>

\* Nothing to do for this service: it runs, its marker is still missing, or
\* spawning it failed and is retried in the next pass.
Skip ==
    /\ pc = "supervise" /\ ~Exited(cur)
    /\ NextChild
    /\ UNCHANGED <<spec, markers, polls, child, live, timedOut>>

\* Mutant: the supervisor restarts nothing.
Restart_Never ==
    /\ pc = "supervise" /\ Exited(cur) /\ spec[cur].restart = "always"
    /\ NextChild
    /\ UNCHANGED <<spec, markers, polls, child, live, timedOut>>

\* child.try_wait()? fails, and with it PID 1.
WaitFails ==
    /\ pc = "supervise" /\ child[cur]
    /\ pc' = "halted"
    /\ UNCHANGED <<spec, markers, cur, polls, child, live, timedOut>>

\* A service marked `always` has exited: spawn it again.
Restart ==
    /\ pc = "supervise" /\ Exited(cur) /\ spec[cur].restart = "always"
    /\ Spawned(cur)
    /\ NextChild
    /\ UNCHANGED <<spec, markers, polls, timedOut>>

\* spawn_service(&running.spec)? fails, and with it PID 1.
RestartFails ==
    /\ pc = "supervise" /\ Exited(cur) /\ spec[cur].restart = "always"
    /\ pc' = "halted"
    /\ UNCHANGED <<spec, markers, cur, polls, child, live, timedOut>>

\* bail!("required service {} exited").
RequiredExited ==
    /\ pc = "supervise" /\ Exited(cur) /\ spec[cur].restart = "never"
    /\ pc' = "halted"
    /\ UNCHANGED <<spec, markers, cur, polls, child, live, timedOut>>

Wake ==
    /\ pc = "sleep"
    /\ pc' = "supervise"
    /\ UNCHANGED <<spec, markers, cur, polls, child, live, timedOut>>

-----------------------------------------------------------------------------
(* The services: external processes.                                       *)

Exit(s) ==
    /\ live[s] > 0
    /\ live' = [live EXCEPT ![s] = @ - 1]
    /\ UNCHANGED <<spec, markers, pc, cur, polls, child, timedOut>>

\* A service creates its socket, or renders the next one's configuration.
CreateMarker(m) ==
    /\ live[Provider[m]] > 0 /\ m \notin markers
    /\ markers' = markers \cup {m}
    /\ UNCHANGED <<spec, pc, cur, polls, child, live, timedOut>>

Running == pc \notin {"bootFailed", "halted"}

Initd ==
    \/ Defer \/ Start \/ StartFails \/ Ready \/ Poll \/ TimeOut
    \/ StartDeferred \/ Skip \/ WaitFails \/ Restart \/ RestartFails \/ RequiredExited \/ Wake

Next ==
    \/ Initd
    \/ \E s \in Services : Running /\ Exit(s)
    \/ \E m \in Markers : Running /\ CreateMarker(m)

\* initd never stops by itself, and spawning a service does not fail every
\* time it is tried.
Fairness ==
    /\ WF_vars(Initd)
    /\ \A s \in Services : SF_vars(cur = s /\ StartDeferred)

Spec == Init /\ [][Next]_vars /\ Fairness

-----------------------------------------------------------------------------
(* Properties.                                                             *)

\* A service never has two processes: a restart follows an exit that was
\* seen, and a deferred start is not repeated.
OneProcess == \A s \in Services : live[s] <= 1

\* A gated service never runs before its start marker exists.
StartGate == \A s \in Services : live[s] > 0 => Present(spec[s].startWhen)

\* While the boot goes through the list, a service is started only when
\* every earlier one is ready, was given its time, or is itself deferred.
Settled(s) == ~child[s] \/ Present(spec[s].readyWhen) \/ s \in timedOut
ReadyOrder ==
    [][pc = "start" /\ live' # live /\ child' # child
          => \A s \in Services : s < cur => Settled(s)]_vars

\* A deferred service is started once its marker has appeared.
DeferredStarts ==
    \A s \in Services :
        (spec[s].startWhen \in markers) ~> (child[s] \/ ~Running)

\* The exit of any service is answered: by a new process or by the end of
\* PID 1, also when it happens while initd waits for another service.
ExitAnswered == \A s \in Services : Exited(s) ~> (live[s] = 1 \/ ~Running)

\* Boot always gets through the list of services, whatever markers fail to
\* appear.
BootFinishes == <>(pc \notin {"start", "await"})

\* docs/BOOT.md: "restart services marked `always`", "fail the boot if a
\* non-restartable required service exits".  PID 1 gives up for no other
\* reason once it supervises.
HaltsOnlyForRequired ==
    pc = "halted" => \E s \in Services : spec[s].restart = "never" /\ Exited(s)
=============================================================================
