------------------------------ MODULE NodeConfig ------------------------------
(***************************************************************************)
(* The node intent from PUT /v1/config to the files kubelet is started     *)
(* with: main.rs::put_config, load_node_intent and the reconcile at        *)
(* startup, workload/k8s.rs::reconcile.  Every file is written with        *)
(* write_atomic, which is one step on a durable file while it is the only  *)
(* call on its path (AtomicWriteProofs).  put_config takes no lock: calls  *)
(* that overlap share the path's temporary file, and the file may become   *)
(* that of any of them or torn (AtomicWrite with two writers).             *)
(***************************************************************************)
EXTENDS ManagementApi

CONSTANTS
    Handlers,    \* tasks that can run put_config
    Boot,        \* the reconcile of run(), before the listener is bound
    Absent,      \* a file that does not exist, no intent
    Torn,        \* a file in which overlapping calls have mixed their bytes
    Volumes,     \* what earlier boots may have left: file -> intent
    MaxPuts      \* bound: PUT requests that are accepted

FileNames == {"intent", "ca", "config", "kubeconfig"}

ASSUME ConfigAssumption ==
    /\ Boot \notin Handlers
    /\ Torn # Absent
    /\ \A f \in FileNames, i \in Intents : Rendered(f, i) \notin {Absent, Torn}
    /\ Volumes \subseteq [FileNames -> Intents \cup {Absent, Torn}]
    /\ MaxPuts \in Nat

VARIABLES
    noded,       \* "down", "starting", "reconciling" or "serving"
    file,        \* file name -> content
    task,        \* worker -> next file to write, its intent, who asked
    puts,        \* PUT requests accepted so far
    synced,      \* was the last write of a file the end of a reconcile, and not
                 \* of one of several handlers?  (For the properties only.)
    crowded,     \* have several handlers been at work at once, and is one of
                 \* them still?  (For the properties only.)
    mix          \* place in Files -> intents whose write_atomic calls have met
                 \* there, until none of the calls is left

overlaps == <<crowded, mix>>
configVars == <<noded, file, task, puts, synced, overlaps>>

Workers == Handlers \cup {Boot}
Idle == [next |-> 0, intent |-> Absent, subject |-> NoSubject]
Valid == {i \in Intents : validate(i)}

ConfigTypeOK ==
    /\ noded \in {"down", "starting", "reconciling", "serving"}
    /\ DOMAIN file = FileNames
    /\ \A f \in FileNames : file[f] \in {Rendered(f, i) : i \in Valid} \cup {Absent, Torn}
    /\ task \in [Workers -> {Idle} \cup [next : 1..4, intent : Valid,
                                         subject : Subjects \cup {NoSubject}]]
    /\ puts \in 0..MaxPuts
    /\ synced \in BOOLEAN
    /\ crowded \in BOOLEAN
    /\ mix \in [1..4 -> SUBSET Valid]

\* A file exists only if those that are written before it do.
Complete ==
    /\ file["kubeconfig"] # Absent => file["config"] # Absent
    /\ file["config"] # Absent => file["ca"] # Absent
    /\ file["ca"] # Absent => file["intent"] # Absent

\* An empty volume, or one as earlier boots have left it: each file from
\* any valid intent, or torn.
ConfigInit ==
    /\ noded = "down"
    /\ \E from \in Volumes :
        /\ \A f \in FileNames : from[f] \in Valid \cup {Absent, Torn}
        /\ file = [f \in FileNames |-> IF from[f] \in {Absent, Torn} THEN from[f]
                                       ELSE Rendered(f, from[f])]
    /\ Complete
    /\ task = [w \in Workers |-> Idle]
    /\ puts = 0
    /\ synced = FALSE
    /\ crowded = FALSE
    /\ mix = [n \in 1..4 |-> {}]

-----------------------------------------------------------------------------

\* Mutant: the start marker is rendered before what it refers to.
Files_MarkerFirst == <<"intent", "kubeconfig", "ca", "config">>

\* The order of the writes: put_config persists the intent, reconcile
\* renders the CA bundle, kubelet's configuration and, last, the bootstrap
\* kubeconfig, which is initd's start marker.
Files == <<"intent", "ca", "config", "kubeconfig">>

\* The handlers at work, and who has a write_atomic call on the n-th file.
Busy(t) == {h \in Handlers : t[h].next # 0}
Writers(t, n) == {w \in Workers : t[w].next = n}
Several(S) == \E v, w \in S : v # w

\* The part of a step that changes `task`: which calls have come to overlap.
Meet ==
    /\ crowded' = (Several(Busy(task')) \/ (crowded /\ Busy(task') # {}))
    /\ mix' = [n \in 1..4 |->
                  IF Writers(task', n) = {} THEN {}
                  ELSE IF Several(Writers(task', n))
                       THEN mix[n] \cup {task'[w].intent : w \in Writers(task', n)}
                       ELSE mix[n]]

\* initd starts noded.
Launch ==
    /\ noded = "down"
    /\ noded' = "starting"
    /\ UNCHANGED <<file, task, puts, synced, overlaps>>

BootTask == [next |-> 2, intent |-> file["intent"], subject |-> NoSubject]
Readable == file["intent"] \notin {Absent, Torn}

\* Mutant: the listener is bound before the reconcile at startup.
LoadIntent_BindFirst ==
    /\ noded = "starting" /\ Readable /\ validate(file["intent"])
    /\ noded' = "serving"
    /\ task' = [task EXCEPT ![Boot] = BootTask]
    /\ Meet
    /\ UNCHANGED <<file, puts, synced>>

\* run() has its identity; load_node_intent finds an intent, and reconcile
\* validates it again.  (A torn one is taken not to parse.)
LoadIntent ==
    /\ noded = "starting" /\ Readable /\ validate(file["intent"])
    /\ noded' = "reconciling"
    /\ task' = [task EXCEPT ![Boot] = BootTask]
    /\ Meet
    /\ UNCHANGED <<file, puts, synced>>

\* There is no intent, or none that can be read or is valid: noded binds
\* its listener without rendering anything.
LoadNothing ==
    /\ noded = "starting"
    /\ noded' = "serving"
    /\ UNCHANGED <<file, task, puts, synced, overlaps>>

\* A request passes authorize and validate; put_config begins.
PutConfig(h, cn, i) ==
    /\ noded = "serving" /\ task[h] = Idle /\ puts < MaxPuts
    /\ authorize(cn, "PUT", "/v1/config") /\ validate(i)
    /\ task' = [task EXCEPT ![h] = [next |-> 1, intent |-> i, subject |-> cn]]
    /\ puts' = puts + 1
    /\ Meet
    /\ UNCHANGED <<noded, file, synced>>

\* Worker w is done: a handler answers, run() goes on to bind and serve.
Finish(w) ==
    /\ task' = [task EXCEPT ![w] = Idle]
    /\ noded' = IF w = Boot THEN "serving" ELSE noded

\* What a write of the n-th file from intent i can leave there: the content
\* of a call that it has overlapped with too, or a mixture.
Contents(n, i) ==
    {Rendered(Files[n], j) : j \in {i} \cup mix[n]} \cup {t \in {Torn} : mix[n] # {}}

\* write_atomic of the worker's next file returns Ok.
Write(w) ==
    LET n == task[w].next
    IN  /\ n # 0
        /\ \E c \in Contents(n, task[w].intent) : file' = [file EXCEPT ![Files[n]] = c]
        /\ synced' = (n = 4 /\ ~crowded)
        /\ IF n = 4 THEN Finish(w)
                    ELSE task' = [task EXCEPT ![w].next = n + 1] /\ UNCHANGED noded
        /\ Meet
        /\ UNCHANGED puts

\* The rename of an overlapping call has put the temporary file that w is
\* still writing to in place: its bytes go to the file itself.
LateWrite(w) ==
    LET n == task[w].next
    IN  /\ n # 0 /\ mix[n] # {}
        /\ file[Files[n]] \in Contents(n, task[w].intent)
        /\ \E c \in Contents(n, task[w].intent) : file' = [file EXCEPT ![Files[n]] = c]
        /\ synced' = FALSE
        /\ UNCHANGED <<noded, task, puts, overlaps>>

\* Mutant: after a failed write, reconcile goes on with the next file.
WriteFails_GoOn(w) ==
    LET n == task[w].next
    IN  /\ n # 0
        /\ IF n = 4 THEN Finish(w)
                    ELSE task' = [task EXCEPT ![w].next = n + 1] /\ UNCHANGED noded
        /\ Meet
        /\ UNCHANGED <<file, puts, synced>>

\* Mutant: after a failed write, reconcile starts over until it succeeds.
WriteFails_StartOver(w) ==
    /\ task[w].next # 0
    /\ task' = [task EXCEPT ![w].next = 2]
    /\ Meet
    /\ UNCHANGED <<noded, file, puts, synced>>

\* It returns Err and leaves the file as it was: put_config answers 500,
\* run() warns and serves.  Nothing tries again before the next start.
WriteFails(w) ==
    /\ task[w].next # 0
    /\ Finish(w)
    /\ Meet
    /\ UNCHANGED <<file, puts, synced>>

\* noded exits or is killed, in the middle of whatever its tasks are at.
Crash ==
    /\ noded # "down"
    /\ noded' = "down"
    /\ task' = [w \in Workers |-> Idle]
    /\ Meet
    /\ UNCHANGED <<file, puts, synced>>

-----------------------------------------------------------------------------
(* Properties.                                                             *)

\* After a reconcile that ran to its end alone, at startup or in a handler,
\* the rendered files are those of the intent a reboot would apply, until
\* something is written again; also when handlers failed or overlapped before,
\* noded was killed between two files, or an earlier boot left a mixture.
\* (Nothing of the kind holds of handlers that overlap: RendersPersisted.)
InSync == synced => \A f \in FileNames : file[f] = Rendered(f, file["intent"])

\* put_config persists before it reconciles.  As long as no handlers overlap,
\* no file is rendered from an intent other than the persisted one, whatever
\* failed, was killed or overlapped before.
PersistFirst ==
    [][~crowded => \A f \in FileNames \ {"intent"} :
          file'[f] # file[f] => file'[f] = Rendered(f, file["intent"])]_configVars

\* The persisted intent changes only at the request of a client bound to a
\* role above viewer, and to what that client sent, unless calls overlap on
\* the file.
OnlyOperators ==
    [][file'["intent"] # file["intent"]
          => \E h \in Handlers, b \in Bindings :
                /\ task[h].next = 1
                /\ task[h].subject \in b.subjects /\ b.role # "viewer"
                /\ file'["intent"] = task[h].intent \/ mix[1] # {}]_configVars

\* main.rs, put_config: "Persist before reconciling so a reboot re-applies the
\* same intent even if reconcile fails midway."  What a handler renders, if it
\* is whole, is the intent a reboot would re-apply.
RendersPersisted ==
    [][\A f \in FileNames \ {"intent"} :
          Readable /\ file'[f] \notin {file[f], Torn}
              => file'[f] = Rendered(f, file["intent"])]_configVars
=============================================================================
