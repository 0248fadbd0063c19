SPECIFICATION NodeSpec
CONSTANTS
    sock = sock
    kubeconfig = kubeconfig
    Kubeconfig = kubeconfig
    NumServices = 2
    Markers = {sock, kubeconfig}
    NoMarker = NoMarker
    ServiceLists <- MCServiceLists
    Provider <- MCProvider
    MaxPolls = 1
    Bindings <- MCBindings
    Subjects = {"alice", "bob", "carol"}
    NoSubject = "no common name"
    Intents <- MCIntents
    IpAddrs = {"2001:db8::1", "2001:db8::2", "2001:db8::a", "2001:db8::b", "192.0.2.1"}
    Ipv6Addrs = {"2001:db8::1", "2001:db8::2", "2001:db8::a", "2001:db8::b"}
    PemCerts = {"caA", "caB"}
    DnsNames = {"cluster.local"}
    Handlers = {h1, h2}
    Boot = Boot
    Absent = Absent
    Torn = Torn
    Volumes <- MCVolumes
    MaxPuts = 2
INVARIANTS
    NodeTypeOK
    OneProcess
    StartGate
    KubeletConfigured
    InSync
PROPERTIES
    PersistFirst
    OnlyOperators
    MarkerComplete
    ReadyOrder
    DeferredStarts
    ExitAnswered
    BootFinishes
    ServesApi
CHECK_DEADLOCK FALSE
