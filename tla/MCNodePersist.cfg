SPECIFICATION NodeSpec
CONSTANTS
    sock = sock
    kubeconfig = kubeconfig
    Kubeconfig = kubeconfig
    NumServices = 3
    Markers = {sock, kubeconfig}
    NoMarker = NoMarker
    ServiceLists <- K8sServiceLists
    Provider <- K8sProvider
    MaxPolls = 1
    Bindings <- MCBindings
    Subjects = {"alice", "bob", "carol"}
    NoSubject = "no common name"
    Intents <- MCIntents
    IpAddrs = {"2001:db8::1", "2001:db8::2", "2001:db8::a", "2001:db8::b", "192.0.2.1"}
    Ipv6Addrs = {"2001:db8::1", "2001:db8::2", "2001:db8::a", "2001:db8::b"}
    PemCerts = {"caA", "caB"}
    DnsNames = {"cluster.local"}
    Handlers = {h1, h2}
    Boot = Boot
    Absent = Absent
    Torn = Torn
    Volumes <- MCVolumes
    MaxPuts = 2
PROPERTIES
    RendersPersisted
CHECK_DEADLOCK FALSE
