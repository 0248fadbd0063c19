--------------------------------- MODULE Node ---------------------------------
(***************************************************************************)
(* initd and noded together: Supervisor, with NodeConfig for the service   *)
(* noded.  A start of noded is noded's Launch, its exit is NodeConfig's    *)
(* Crash, and kubelet's start marker appears when reconcile renders the    *)
(* bootstrap kubeconfig for the first time.                                *)
(***************************************************************************)
EXTENDS Supervisor, NodeConfig

CONSTANT Kubeconfig    \* the marker that is the rendered bootstrap kubeconfig

ASSUME NodeAssumption == Kubeconfig \in Markers

nodeVars == <<vars, configVars>>

\* The service that renders the kubeconfig, and those gated on it.
Noded == Provider[Kubeconfig]
Gated == {s \in Services : spec[s].startWhen = Kubeconfig}

NodeInit ==
    /\ Init /\ ConfigInit
    /\ (Kubeconfig \in markers) <=> (file["kubeconfig"] # Absent)

\* A step of initd; spawning noded launches it.
InitdStep ==
    /\ Initd
    /\ IF live'[Noded] > live[Noded] THEN Launch ELSE UNCHANGED configVars

NodedExit == Running /\ Exit(Noded) /\ Crash

OtherExit(s) == Running /\ s # Noded /\ Exit(s) /\ UNCHANGED configVars

OtherMarker(m) == Running /\ m # Kubeconfig /\ CreateMarker(m) /\ UNCHANGED configVars

\* A file is written; the first kubeconfig is the marker.
NodedWrite(w) ==
    /\ Running /\ Write(w)
    /\ IF file["kubeconfig"] = Absent /\ file'["kubeconfig"] # Absent
       THEN CreateMarker(Kubeconfig) ELSE UNCHANGED vars

NodedLateWrite(w) == Running /\ LateWrite(w) /\ UNCHANGED vars

NodedWriteFails(w) == Running /\ WriteFails(w) /\ UNCHANGED vars

NodedLoad == Running /\ (LoadIntent \/ LoadNothing) /\ UNCHANGED vars

NodedPut(h, cn, i) == Running /\ PutConfig(h, cn, i) /\ UNCHANGED vars

NodeNext ==
    \/ InitdStep \/ NodedExit \/ NodedLoad
    \/ \E s \in Services : OtherExit(s)
    \/ \E m \in Markers : OtherMarker(m)
    \/ \E w \in Workers : NodedWrite(w) \/ NodedLateWrite(w) \/ NodedWriteFails(w)
    \/ \E h \in Handlers, cn \in Subjects \cup {NoSubject}, i \in Intents : NodedPut(h, cn, i)

\* As in Supervisor; noded's startup goes on until something ends it.
NodeFairness ==
    /\ WF_nodeVars(InitdStep)
    /\ \A s \in Services : SF_nodeVars(InitdStep /\ cur = s /\ StartDeferred)
    /\ WF_nodeVars(NodedLoad \/ NodedWrite(Boot) \/ NodedWriteFails(Boot))

NodeSpec == NodeInit /\ [][NodeNext]_nodeVars /\ NodeFairness

-----------------------------------------------------------------------------
(* Properties.                                                             *)

\* The state of both programs stays typed, and initd's view of noded and of
\* the marker is noded's own.
NodeTypeOK ==
    /\ TypeOK /\ ConfigTypeOK
    /\ (live[Noded] > 0) <=> (noded # "down")
    /\ (Kubeconfig \in markers) <=> (file["kubeconfig"] # Absent)

\* A kubelet that runs finds every file it was given, whichever writes
\* failed, whichever handlers overlapped and whenever noded was killed, and in
\* each what it needs: a certificate, a DNS address, an IPv6 server reached
\* over https.  The exception is a file that overlapping calls have torn.
KubeletConfigured ==
    \A s \in Gated : live[s] > 0 =>
        /\ \A f \in FileNames : file[f] # Absent
        /\ file["ca"] # Torn => file["ca"] \in PemCerts
        /\ file["config"] # Torn =>
              \E n \in DOMAIN file["config"].clusterDns : file["config"].clusterDns[n] \in IpAddrs
        /\ file["kubeconfig"] # Torn => /\ file["kubeconfig"].server.scheme = "https"
                                       /\ file["kubeconfig"].server.host \in Ipv6Addrs

\* k8s.rs, reconcile: the marker is the last write.  When it appears for the
\* first time, the files beside it are those of one intent, also when an
\* earlier boot or a handler that failed left files of another one behind,
\* unless the handler that writes it has not been alone.
MarkerComplete ==
    [][~crowded /\ Kubeconfig \notin markers /\ Kubeconfig \in markers' =>
          \E i \in Intents : \A f \in {"ca", "config", "kubeconfig"} :
              file'[f] = Rendered(f, i)]_nodeVars

\* run(): a failed reconcile "must not stop the node from serving its
\* management API".  A noded that is started comes to serve, unless it is
\* killed or PID 1 ends.
ServesApi == (noded \in {"starting", "reconciling"}) ~> (noded \in {"serving", "down"} \/ ~Running)

=============================================================================
