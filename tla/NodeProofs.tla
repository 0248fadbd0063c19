------------------------------ MODULE NodeProofs ------------------------------
(***************************************************************************)
(* initd and noded together.  A step of the composition is a step of the   *)
(* supervisor, or leaves it alone, and a step of noded's configuration, or *)
(* leaves that alone; so each inherits what its own module proves, and     *)
(* what is left is how the two are tied: noded's process and the marker.   *)
(***************************************************************************)
EXTENDS Node, SupervisorProofs, NodeConfigProofs

\* initd's view of noded and of the marker is noded's own.
Tied ==
    /\ (live[Noded] > 0) <=> (noded # "down")
    /\ (Kubeconfig \in markers) <=> (file["kubeconfig"] # Absent)

NodeInv == IInv /\ ConfigInv /\ Tied

-----------------------------------------------------------------------------
(* The composition and its parts.                                          *)

LEMMA NodedService == Noded \in Services
BY NodeAssumption, SupervisorAssumption DEF Noded

LEMMA SupervisorPart == NodeNext => [Next]_vars
BY NodedService, NodeAssumption
   DEF NodeNext, InitdStep, NodedExit, NodedLoad, OtherExit, OtherMarker, NodedWrite,
       NodedLateWrite, NodedWriteFails, NodedPut, Next

LEMMA ConfigPart == NodeNext => ConfigNext \/ UNCHANGED configVars
BY DEF NodeNext, InitdStep, NodedExit, NodedLoad, OtherExit, OtherMarker, NodedWrite,
       NodedLateWrite, NodedWriteFails, NodedPut, ConfigNext

\* Stuttering leaves both parts alone.
LEMMA StutterParts == UNCHANGED nodeVars => UNCHANGED vars /\ UNCHANGED configVars
BY DEF nodeVars

LEMMA ConfigStutter ==
    UNCHANGED configVars => (ConfigInv => ConfigInv') /\ (SyncInv => SyncInv')
BY DEF configVars, SyncInv, ConfigInv, ConfigTypeOK, Complete, Phases, Behind, Requested, Applied,
       InSync, Operates, Overlaps, overlaps, Busy, Several

-----------------------------------------------------------------------------
(* The tie.                                                                *)

\* A step of initd starts processes and ends none, and creates no marker.
LEMMA InitdProcesses ==
    ASSUME TypeOK, Initd
    PROVE  /\ live' = live \/ live' = [live EXCEPT ![cur] = @ + 1]
           /\ markers' = markers
BY DEF Initd, Defer, Start, StartFails, Ready, Poll, TimeOut, StartDeferred, Skip,
       WaitFails, Restart, RestartFails, RequiredExited, Wake, Spawned

\* No write removes the kubeconfig.
LEMMA KubeconfigStays ==
    ASSUME ConfigInv, NEW w \in Workers, Write(w) \/ LateWrite(w), file["kubeconfig"] # Absent
    PROVE  file'["kubeconfig"] # Absent
<1>1. ConfigTypeOK
    BY DEF ConfigInv
<1> QED
    BY <1>1, WriteFiles, FileOrder

\* A late write finds the file it writes to.
LEMMA LateNeedsFile ==
    ASSUME ConfigInv, NEW w \in Workers, LateWrite(w)
    PROVE  (file["kubeconfig"] # Absent) <=> (file'["kubeconfig"] # Absent)
<1>1. ConfigTypeOK /\ task[w].next \in 1..4 /\ task[w].intent \in Valid
    BY FileEffect DEF ConfigInv
<1>2. file[Files[task[w].next]] # Absent
    BY <1>1, ContentsType DEF LateWrite
<1> QED
    BY <1>1, <1>2, WriteFiles, FileOrder

\* noded's phase during a write: it was up and stays so.
LEMMA WritePhase ==
    ASSUME ConfigInv, NEW w \in Workers, Write(w) \/ WriteFails(w)
    PROVE  noded # "down" /\ noded' # "down"
<1>1. task[w].next # 0
    BY DEF Write, WriteFails
<1>2. noded # "down"
    BY <1>1 DEF ConfigInv, Phases, Workers
<1>3. noded' = noded \/ noded' = "serving"
    BY FileEffect, WriteEffect, FailEffect DEF ConfigInv, ConfigTypeOK, Write, WriteFails, Finish
<1> QED
    BY <1>2, <1>3

LEMMA NextTied == NodeInv /\ NodeNext => Tied'
<1> SUFFICES ASSUME NodeInv, NodeNext PROVE Tied'
    OBVIOUS
<1>0. TypeOK /\ ConfigInv /\ Tied /\ live \in [Services -> Nat]
    BY DEF NodeInv, IInv, TypeOK
<1> USE NodedService, NodeAssumption
<1>p. Provider[Kubeconfig] = Noded
    BY DEF Noded
<1> HIDE DEF Noded
<1>1. CASE InitdStep
    <2>1. /\ live' = live \/ live' = [live EXCEPT ![cur] = @ + 1]
          /\ markers' = markers
        BY <1>0, <1>1, InitdProcesses DEF InitdStep
    <2>2. Noded' = Noded
        BY DEF Noded
    <2>3. CASE live'[Noded] > live[Noded]
        BY <1>0, <1>1, <2>1, <2>2, <2>3 DEF InitdStep, Launch, Tied, TypeOK
    <2>4. CASE ~(live'[Noded] > live[Noded])
        <3>1. live'[Noded] = live[Noded]
            BY <1>0, <2>1, <2>4 DEF TypeOK
        <3> QED
            BY <1>0, <1>1, <2>1, <2>2, <2>4, <3>1 DEF InitdStep, configVars, Tied
    <2> QED
        BY <2>3, <2>4
<1>2. CASE NodedExit
    <2>1. live'[Noded] = live[Noded] - 1 /\ live[Noded] <= 1 /\ live[Noded] > 0
        BY <1>0, <1>2 DEF NodedExit, Exit, NodeInv, IInv, Children, OneProcess
    <2>2. live'[Noded] = 0
        BY <1>0, <2>1
    <2> QED
        BY <1>0, <1>2, <2>2 DEF NodedExit, Exit, Crash, Tied, Noded
<1>3. CASE NodedLoad
    BY <1>0, <1>3 DEF NodedLoad, LoadIntent, LoadNothing, vars, Tied, Noded
<1>4. ASSUME NEW s \in Services, OtherExit(s) PROVE Tied'
    <2>1. live'[Noded] = live[Noded]
        BY <1>0, <1>4 DEF OtherExit, Exit
    <2> QED
        BY <1>0, <1>4, <2>1 DEF OtherExit, Exit, configVars, Tied, Noded
<1>5. ASSUME NEW m \in Markers, OtherMarker(m) PROVE Tied'
    BY <1>0, <1>5 DEF OtherMarker, CreateMarker, configVars, Tied, Noded
<1>6. ASSUME NEW w \in Workers, NodedWrite(w) PROVE Tied'
    <2>1. noded # "down" /\ noded' # "down" /\ live' = live
        BY <1>0, <1>6, WritePhase DEF NodedWrite, CreateMarker, vars
    <2>2. CASE file["kubeconfig"] = Absent /\ file'["kubeconfig"] # Absent
        BY <1>0, <1>6, <2>1, <2>2 DEF NodedWrite, CreateMarker, Tied, Noded
    <2>3. CASE ~(file["kubeconfig"] = Absent /\ file'["kubeconfig"] # Absent)
        <3>1. markers' = markers
            BY <1>6, <2>3 DEF NodedWrite, vars
        <3>2. (file["kubeconfig"] # Absent) <=> (file'["kubeconfig"] # Absent)
            BY <1>0, <1>6, <2>3, KubeconfigStays DEF NodedWrite
        <3> QED
            BY <1>0, <2>1, <3>1, <3>2 DEF Tied, Noded
    <2> QED
        BY <2>2, <2>3
<1>7. ASSUME NEW w \in Workers, NodedWriteFails(w) PROVE Tied'
    <2>1. noded # "down" /\ noded' # "down"
        BY <1>0, <1>7, WritePhase DEF NodedWriteFails
    <2> QED
        BY <1>0, <1>7, <2>1 DEF NodedWriteFails, WriteFails, vars, Tied, Noded
<1>8. ASSUME NEW h \in Handlers, NEW cn \in Subjects \cup {NoSubject}, NEW i \in Intents,
             NodedPut(h, cn, i)
      PROVE  Tied'
    BY <1>0, <1>8 DEF NodedPut, PutConfig, vars, Tied, Noded
<1>9. ASSUME NEW w \in Workers, NodedLateWrite(w) PROVE Tied'
    BY <1>0, <1>9, LateNeedsFile DEF NodedLateWrite, LateWrite, vars, Tied, Noded
<1> QED
    BY <1>1, <1>2, <1>3, <1>4, <1>5, <1>6, <1>7, <1>8, <1>9 DEF NodeNext

-----------------------------------------------------------------------------
(* The invariants.                                                         *)

LEMMA NodeInitInv == NodeInit => NodeInv /\ SyncInv
<1> SUFFICES ASSUME NodeInit PROVE NodeInv /\ SyncInv
    OBVIOUS
<1>1. IInv
    BY InitInv DEF NodeInit
<1>2. SyncInv
    BY ConfigInitInv DEF NodeInit
<1>3. live[Noded] = 0
    BY NodedService DEF NodeInit, Init
<1>4. Tied
    BY <1>3 DEF NodeInit, ConfigInit, Tied
<1> QED
    BY <1>1, <1>2, <1>4 DEF NodeInv, SyncInv

LEMMA NodeNextInv == NodeInv /\ [NodeNext]_nodeVars => NodeInv'
<1> SUFFICES ASSUME NodeInv, [NodeNext]_nodeVars PROVE NodeInv'
    OBVIOUS
<1>1. IInv'
    BY NextInv, SupervisorPart, StutterParts DEF NodeInv
<1>2. ConfigInv'
    BY NextConfigInv, ConfigStutter, ConfigPart, StutterParts DEF NodeInv
<1>3. CASE NodeNext
    BY <1>1, <1>2, <1>3, NextTied DEF NodeInv
<1>4. CASE UNCHANGED nodeVars
    BY <1>1, <1>2, <1>4 DEF NodeInv, Tied, Noded, nodeVars, vars, configVars
<1> QED
    BY <1>3, <1>4

LEMMA NodeInvCorrect == NodeSpec => []NodeInv
<1>1. NodeInit => NodeInv
    BY NodeInitInv
<1> QED
    BY <1>1, NodeNextInv, PTL DEF NodeSpec

\* The files follow the intent.
LEMMA NodeSync == NodeSpec => []SyncInv
<1>1. NodeInit => SyncInv
    BY NodeInitInv
<1>2. SyncInv /\ [NodeNext]_nodeVars => SyncInv'
    BY NextSync, ConfigStutter, ConfigPart, StutterParts
<1> QED
    BY <1>1, <1>2, PTL DEF NodeSpec

-----------------------------------------------------------------------------
(* The theorems.                                                           *)

\* The state of both programs stays typed, and initd's view of noded and of
\* the start marker is noded's own.
THEOREM NodeTypeCorrect == NodeSpec => []NodeTypeOK
<1>1. NodeInv => NodeTypeOK
    BY DEF NodeInv, IInv, ConfigInv, Tied, NodeTypeOK
<1> QED
    BY <1>1, NodeInvCorrect, PTL

\* A kubelet that runs has all its files, and in each that no overlapping
\* calls have torn what it needs, for any number of put_config handlers at
\* once, failed writes and restarts of noded.
THEOREM KubeletIsConfigured == NodeSpec => []KubeletConfigured
<1>1. NodeInv => KubeletConfigured
    <2> SUFFICES ASSUME NodeInv, NEW s \in Gated, live[s] > 0
                 PROVE  /\ \A f \in FileNames : file[f] # Absent
                        /\ file["ca"] # Torn => file["ca"] \in PemCerts
                        /\ file["config"] # Torn =>
                              \E n \in DOMAIN file["config"].clusterDns :
                                  file["config"].clusterDns[n] \in IpAddrs
                        /\ file["kubeconfig"] # Torn =>
                              /\ file["kubeconfig"].server.scheme = "https"
                              /\ file["kubeconfig"].server.host \in Ipv6Addrs
        BY DEF KubeletConfigured
    <2>1. ConfigTypeOK /\ Complete
        BY DEF NodeInv, ConfigInv
    <2>2. Kubeconfig \in markers
        <3>1. s \in Services /\ spec[s].startWhen = Kubeconfig
            BY DEF Gated
        <3>2. Present(spec[s].startWhen)
            BY <3>1 DEF NodeInv, IInv, Children
        <3> QED
            BY <3>1, <3>2, NodeAssumption, SupervisorAssumption DEF Present
    <2>3. \A f \in FileNames : file[f] # Absent
        BY <2>1, <2>2 DEF NodeInv, Tied, Complete, FileNames
    <2>4. \A f \in FileNames : file[f] # Torn => \E i \in Valid : file[f] = Rendered(f, i)
        BY <2>1, <2>3 DEF ConfigTypeOK
    <2>5. ASSUME file["ca"] # Torn PROVE file["ca"] \in PemCerts
        <3>1. PICK i \in Valid : file["ca"] = Rendered("ca", i)
            BY <2>4, <2>5 DEF FileNames
        <3>2. file["ca"] = i.clusterCa
            BY <3>1, RenderedFiles
        <3> QED
            BY <3>2 DEF Valid, validate
    <2>6. ASSUME file["config"] # Torn
          PROVE  \E n \in DOMAIN file["config"].clusterDns : file["config"].clusterDns[n] \in IpAddrs
        <3>1. PICK i \in Valid : file["config"] = Rendered("config", i)
            BY <2>4, <2>6 DEF FileNames
        <3>2. file["config"] = [clusterDomain |-> i.clusterDomain, clusterDns |-> i.clusterDns]
            BY <3>1, RenderedFiles
        <3>3. PICK dns, S : dns = i.clusterDns /\ dns \in Seq(S)
            BY ApiAssumption DEF Valid
        <3>4. dns # <<>> /\ \A n \in DOMAIN dns : dns[n] \in IpAddrs
            BY <3>3 DEF Valid, validate
        <3>5. 1 \in DOMAIN dns
            BY <3>3, <3>4
        <3> QED
            BY <3>2, <3>3, <3>4, <3>5
    <2>7. ASSUME file["kubeconfig"] # Torn
          PROVE  /\ file["kubeconfig"].server.scheme = "https"
                 /\ file["kubeconfig"].server.host \in Ipv6Addrs
        <3>1. PICK j \in Valid : file["kubeconfig"] = Rendered("kubeconfig", j)
            BY <2>4, <2>7 DEF FileNames
        <3>2. file["kubeconfig"] = [server |-> j.apiServer, token |-> j.bootstrapToken]
            BY <3>1, RenderedFiles
        <3>3. j.apiServer.scheme = "https" /\ j.apiServer.host \in Ipv6Addrs
            BY <3>1 DEF Valid, validate, validate_api_server
        <3> QED
            BY <3>2, <3>3
    <2> QED
        BY <2>3, <2>5, <2>6, <2>7
<1> QED
    BY <1>1, NodeInvCorrect, PTL

\* As long as no two write_atomic calls meet on one path, none of the files is
\* ever torn: KubeletConfigured then holds of every file.
THEOREM WholeWhileApart == NodeSpec /\ Whole /\ []Apart => []Whole
<1>1. NodeInv /\ Apart /\ Whole /\ [NodeNext]_nodeVars => Whole'
    BY StepWhole, ConfigPart, StutterParts DEF NodeInv, ConfigInv
<1> QED
    BY <1>1, NodeInvCorrect, PTL DEF NodeSpec

\* A reconcile that ran to its end while its handler was alone leaves the
\* files of the intent a reboot would apply, however many handlers there are
\* and whatever they did before.
THEOREM FilesInSync == NodeSpec => []InSync
<1>1. SyncInv => InSync
    BY DEF SyncInv
<1> QED
    BY <1>1, NodeSync, PTL

\* A handler that is alone, and the reconcile at startup, render nothing but
\* the persisted intent.
THEOREM PersistedFirst == NodeSpec => PersistFirst
<1>1. SyncInv /\ [NodeNext]_nodeVars =>
        [~crowded => \A f \in FileNames \ {"intent"} :
            file'[f] # file[f] => file'[f] = Rendered(f, file["intent"])]_configVars
    BY StepPersistFirst, ConfigPart, StutterParts
<1> QED
    BY <1>1, NodeSync, PTL DEF NodeSpec, PersistFirst

\* When a handler that is alone, or the reconcile at startup, makes the start
\* marker appear, it does so beside the files of the same intent.
THEOREM MarkerIsComplete == NodeSpec => MarkerComplete
<1>1. NodeInv /\ SyncInv /\ SyncInv' /\ [NodeNext]_nodeVars =>
        [~crowded /\ Kubeconfig \notin markers /\ Kubeconfig \in markers' =>
            \E i \in Intents : \A f \in {"ca", "config", "kubeconfig"} :
                file'[f] = Rendered(f, i)]_nodeVars
    <2> SUFFICES ASSUME NodeInv, SyncInv, SyncInv', NodeNext, ~crowded,
                        Kubeconfig \notin markers, Kubeconfig \in markers'
                 PROVE  \E i \in Intents : \A f \in {"ca", "config", "kubeconfig"} :
                            file'[f] = Rendered(f, i)
        OBVIOUS
    <2>1. PICK w \in Workers : NodedWrite(w)
        BY InitdProcesses DEF NodeInv, IInv, NodeNext, InitdStep, NodedExit, NodedLoad, OtherExit,
           OtherMarker, NodedLateWrite, NodedWriteFails, NodedPut, Exit, CreateMarker, vars
    <2>2. /\ ConfigTypeOK /\ Write(w)
          /\ file["kubeconfig"] = Absent /\ file'["kubeconfig"] # Absent
        BY <2>1 DEF NodedWrite, vars, NodeInv, ConfigInv
    <2>3. task[w].next = 4
        BY <2>2, WriteFiles
    <2>4. task[w].intent \in Intents /\ file["intent"] = task[w].intent
        BY <2>2, <2>3, FileEffect DEF SyncInv, Applied, Valid
    <2>5. file'["intent"] = task[w].intent
        BY <2>2, <2>3, <2>4, WriteFiles
    <2>6. synced'
        BY <2>2, <2>3, Zenon DEF Write
    <2>7. \A f \in FileNames : file'[f] = Rendered(f, file'["intent"])
        BY <2>6 DEF SyncInv, InSync
    <2> QED
        BY <2>4, <2>5, <2>7 DEF FileNames
<1> QED
    BY <1>1, NodeInvCorrect, NodeSync, PTL DEF NodeSpec, MarkerComplete

\* The persisted intent changes only at the request of a client bound to a
\* role above viewer, for every binding of roles and any number of handlers.
THEOREM OperatorsOnly == NodeSpec => OnlyOperators
<1>1. NodeInv /\ [NodeNext]_nodeVars =>
        [file'["intent"] # file["intent"]
            => \E h \in Handlers, b \in Bindings :
                  /\ task[h].next = 1
                  /\ task[h].subject \in b.subjects /\ b.role # "viewer"
                  /\ file'["intent"] = task[h].intent \/ mix[1] # {}]_configVars
    BY StepOnlyOperators, ConfigPart, StutterParts DEF NodeInv
<1> QED
    BY <1>1, NodeInvCorrect, PTL DEF NodeSpec, OnlyOperators

\* The node implements its supervisor: whatever initd does with noded in the
\* loop, it could do beside services that owe it nothing, so every safety
\* property of Supervisor holds of the node.
THEOREM NodeIsSupervised == NodeSpec => Init /\ [][Next]_vars
<1>1. NodeInit => Init
    BY DEF NodeInit
<1>2. [NodeNext]_nodeVars => [Next]_vars
    BY SupervisorPart, StutterParts
<1> QED
    BY <1>1, <1>2, PTL DEF NodeSpec

\* No service ever has two processes, with noded in the loop.
THEOREM NodeOneProcess == NodeSpec => []OneProcess
<1>1. NodeInv => OneProcess
    BY DEF NodeInv, IInv, Children
<1> QED
    BY <1>1, NodeInvCorrect, PTL

\* No service runs before its start marker exists, with noded in the loop.
THEOREM NodeGateHolds == NodeSpec => []StartGate
<1>1. NodeInv => StartGate
    BY DEF NodeInv, IInv, Children, StartGate
<1> QED
    BY <1>1, NodeInvCorrect, PTL

\* The boot goes through the list in order, with noded in the loop.
THEOREM NodeStartsInOrder == NodeSpec => ReadyOrder
<1>1. NodeInv /\ [NodeNext]_nodeVars =>
        [pc = "start" /\ live' # live /\ child' # child
            => \A s \in Services : s < cur => Settled(s)]_vars
    BY SupervisorPart, StutterParts DEF NodeInv, IInv, BootOrder
<1> QED
    BY <1>1, NodeInvCorrect, PTL DEF NodeSpec, ReadyOrder
=============================================================================
