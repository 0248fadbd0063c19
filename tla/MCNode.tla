-------------------------------- MODULE MCNode --------------------------------
(* A required kubelet behind noded, where both wait for the same socket, and *)
(* the three services of the k8s image; two join configurations, which      *)
(* share kubelet's configuration, and spoilt variants of one of them.       *)
EXTENDS Node, TLC

CONSTANTS sock, kubeconfig

containerd == [restart |-> "always", readyWhen |-> sock, startWhen |-> NoMarker]
nodedService == [restart |-> "always", readyWhen |-> NoMarker, startWhen |-> NoMarker]
kubelet == [restart |-> "always", readyWhen |-> NoMarker, startWhen |-> kubeconfig]

MCServiceLists ==
    {<<[nodedService EXCEPT !.readyWhen = sock],
       [kubelet EXCEPT !.restart = "never", !.readyWhen = sock]>>}
MCProvider == (sock :> 1) @@ (kubeconfig :> 1)

K8sServiceLists == {<<containerd, nodedService, kubelet>>}
K8sProvider == (sock :> 1) @@ (kubeconfig :> 2)

\* Alice holds two roles, bob may only look, carol is not bound.
MCBindings ==
    {[role |-> "viewer", subjects |-> {"alice", "bob"}],
     [role |-> "maintainer", subjects |-> {"alice"}]}

GoodToken == [dotted |-> TRUE, lowerAlnum |-> TRUE, id |-> 6, secret |-> 16]
Url(host) == [scheme |-> "https", bracketed |-> TRUE, host |-> host, tail |-> ":"]
Join(host, ca, dns) ==
    [apiServer |-> Url(host), clusterCa |-> ca, bootstrapToken |-> GoodToken,
     clusterDns |-> dns, clusterDomain |-> "cluster.local"]

IntentA == Join("2001:db8::1", "caA", <<"2001:db8::a">>)
IntentB == Join("2001:db8::2", "caB", <<"2001:db8::a">>)
\* An empty volume, and one that boots have left with a mixture, one file of
\* it torn.
Volume(intent, ca, config, kc) ==
    ("intent" :> intent) @@ ("ca" :> ca) @@ ("config" :> config) @@ ("kubeconfig" :> kc)
MCVolumes ==
    {Volume(Absent, Absent, Absent, Absent), Volume(IntentA, IntentB, Torn, IntentA)}
MCIntents ==
    {IntentA, IntentB,
     [IntentA EXCEPT !.apiServer.scheme = "http"],
     [IntentA EXCEPT !.apiServer.host = "192.0.2.1"],
     [IntentA EXCEPT !.apiServer.tail = "x"],
     [IntentA EXCEPT !.bootstrapToken.id = 5],
     [IntentA EXCEPT !.bootstrapToken.dotted = FALSE],
     [IntentA EXCEPT !.clusterCa = "not a certificate"],
     [IntentA EXCEPT !.clusterDns = <<>>],
     [IntentA EXCEPT !.clusterDns = <<"2001:db8::a", "dns">>],
     [IntentA EXCEPT !.clusterDomain = ""]}
=============================================================================
