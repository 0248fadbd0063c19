----------------------------- MODULE ManagementApi -----------------------------
(***************************************************************************)
(* The decisions of noded's management API: which role a client holds and  *)
(* needs (main.rs::role_for, required_role, authorize), and which node     *)
(* intent is accepted (workload/mod.rs::NodeIntent::validate).  A string   *)
(* is represented by what these functions look at.                         *)
(***************************************************************************)
EXTENDS Naturals, Sequences

CONSTANTS
    Bindings,    \* config.authorization.roles: records [role, subjects]
    Subjects,    \* common names of client certificates
    NoSubject,   \* a client certificate without a common name
    Intents,     \* the bodies of PUT requests
    IpAddrs,     \* texts that parse as an IP address
    Ipv6Addrs,   \* those that parse as an IPv6 address
    PemCerts,    \* texts that parse as a PEM certificate
    DnsNames     \* non-empty texts of letters, digits, dots and dashes

Roles == {"viewer", "operator", "maintainer", "breakglass"}

ASSUME ApiAssumption ==
    /\ Bindings \subseteq [role : Roles, subjects : SUBSET Subjects]
    /\ NoSubject \notin Subjects
    /\ Ipv6Addrs \subseteq IpAddrs
    /\ \A i \in Intents : i.clusterDns \in Seq({i.clusterDns[n] : n \in DOMAIN i.clusterDns})

-----------------------------------------------------------------------------
(* Roles.                                                                  *)

level(role) ==
    CASE role = "viewer" -> 1 [] role = "operator" -> 2
      [] role = "maintainer" -> 3 [] role = "breakglass" -> 4

\* Mutant: holding any role is enough.
satisfies_Any(held, required) == TRUE

satisfies(held, required) == level(held) >= level(required)

\* The bindings that name the subject; role_for takes the highest.
BoundTo(cn) == {b \in Bindings : cn \in b.subjects}
role_for(cn) ==
    (CHOOSE b \in BoundTo(cn) : \A c \in BoundTo(cn) : level(b.role) >= level(c.role)).role

\* "none" for endpoints that need only a valid client certificate.
required_role(method, path) ==
    CASE method = "GET" /\ path = "/v1/healthz" -> "none"
      [] method = "GET" /\ path = "/v1/status" -> "viewer"
      [] method = "PUT" /\ path = "/v1/config" -> "operator"
      [] OTHER -> "breakglass"

\* authorize: is the request passed on to its handler?
authorize(cn, method, path) ==
    LET required == required_role(method, path)
    IN  required = "none" \/ (BoundTo(cn) # {} /\ satisfies(role_for(cn), required))

-----------------------------------------------------------------------------
(* The node intent.                                                        *)

\* https://[<ipv6>] with an optional tail that starts with a colon.
validate_api_server(url) ==
    /\ url.scheme = "https"
    /\ url.bracketed
    /\ url.host \in Ipv6Addrs
    /\ url.tail \in {"", ":"}

\* Two parts of lowercase letters and digits, of length 6 and 16.
valid_bootstrap_token(t) == t.dotted /\ t.lowerAlnum /\ t.id = 6 /\ t.secret = 16

validate(i) ==
    /\ validate_api_server(i.apiServer)
    /\ valid_bootstrap_token(i.bootstrapToken)
    /\ i.clusterCa \in PemCerts
    /\ i.clusterDns # <<>>
    /\ \A n \in DOMAIN i.clusterDns : i.clusterDns[n] \in IpAddrs
    /\ i.clusterDomain \in DnsNames

\* What the k8s profile renders from an intent: the CA bundle, kubelet's
\* configuration and its bootstrap kubeconfig.
Rendered(file, i) ==
    CASE file = "intent" -> i
      [] file = "ca" -> i.clusterCa
      [] file = "config" -> [clusterDomain |-> i.clusterDomain, clusterDns |-> i.clusterDns]
      [] file = "kubeconfig" -> [server |-> i.apiServer, token |-> i.bootstrapToken]
=============================================================================
