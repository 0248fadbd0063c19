--------------------------- MODULE NodeConfigProofs ---------------------------
(***************************************************************************)
(* The node intent and the files rendered from it, for every set of        *)
(* intents, bindings and clients, and any number of handlers that overlap  *)
(* as they like; what relates the files to the persisted intent is about   *)
(* handlers that work alone (~crowded).                                    *)
(***************************************************************************)
EXTENDS NodeConfig, TLAPS

\* Every step of noded that concerns its configuration.
ConfigNext ==
    \/ Launch \/ LoadIntent \/ LoadNothing \/ Crash
    \/ \E h \in Handlers, cn \in Subjects \cup {NoSubject}, i \in Intents : PutConfig(h, cn, i)
    \/ \E w \in Workers : Write(w) \/ LateWrite(w) \/ WriteFails(w)

\* Which workers can be at work in which phase.
Phases ==
    /\ noded \in {"down", "starting", "reconciling"} => \A h \in Handlers : task[h].next = 0
    /\ noded # "reconciling" => task[Boot].next = 0
    /\ task[Boot].next # 1

\* The files a worker has left behind exist.
Behind ==
    \A w \in Workers :
        /\ task[w].next >= 2 => file["intent"] # Absent
        /\ task[w].next >= 3 => file["ca"] # Absent
        /\ task[w].next >= 4 => file["config"] # Absent

\* The files that a worker who is alone has left behind are those of its
\* intent.
Applied ==
    ~crowded => \A w \in Workers :
        /\ task[w].next >= 2 => file["intent"] = task[w].intent
        /\ task[w].next >= 3 => file["ca"] = Rendered("ca", task[w].intent)
        /\ task[w].next >= 4 => file["config"] = Rendered("config", task[w].intent)

\* What `crowded` and `mix` say of the workers.
Overlaps ==
    /\ crowded => Busy(task) # {}
    /\ ~crowded => ~Several(Busy(task))
    /\ \A n \in 1..4 : mix[n] # {} => crowded

\* A handler works for a client that may operate the node.
Operates(cn) == \E b \in Bindings : cn \in b.subjects /\ b.role # "viewer"
Requested == \A h \in Handlers : task[h].next # 0 => Operates(task[h].subject)

ConfigInv == ConfigTypeOK /\ Complete /\ Phases /\ Behind /\ Requested /\ Overlaps
SyncInv == ConfigInv /\ Applied /\ InSync

-----------------------------------------------------------------------------
(* Facts about the operators.                                              *)

LEMMA RenderedFiles ==
    ASSUME NEW i
    PROVE  /\ Rendered("intent", i) = i
           /\ Rendered("ca", i) = i.clusterCa
           /\ Rendered("config", i) = [clusterDomain |-> i.clusterDomain, clusterDns |-> i.clusterDns]
           /\ Rendered("kubeconfig", i) = [server |-> i.apiServer, token |-> i.bootstrapToken]
BY DEF Rendered

LEMMA FileOrder ==
    /\ Files[1] = "intent" /\ Files[2] = "ca" /\ Files[3] = "config" /\ Files[4] = "kubeconfig"
    /\ \A n \in 1..4 : Files[n] \in FileNames
BY DEF Files, FileNames

\* What is rendered from a valid intent is neither an absent nor a torn file.
LEMMA RenderedSome ==
    ASSUME NEW f \in FileNames, NEW i \in Valid
    PROVE  Rendered(f, i) # Absent /\ Rendered(f, i) # Torn
BY ConfigAssumption DEF FileNames, Valid

\* The levels of the roles.
LEMMA RoleLevels == \A r \in Roles : level(r) \in 1..4
BY DEF Roles, level

\* A subject bound to a role holds the highest of its roles.
LEMMA HighestRole ==
    ASSUME NEW cn, BoundTo(cn) # {}
    PROVE  /\ \E b \in BoundTo(cn) : role_for(cn) = b.role
           /\ \A c \in BoundTo(cn) : level(role_for(cn)) >= level(c.role)
<1> DEFINE Top(b) == \A c \in BoundTo(cn) : level(b.role) >= level(c.role)
<1>1. \A b \in BoundTo(cn) : level(b.role) \in 1..4
    BY ApiAssumption, RoleLevels DEF BoundTo
<1>2. \E b \in BoundTo(cn) : Top(b)
    <2>1. CASE \E b \in BoundTo(cn) : level(b.role) = 4
        BY <1>1, <2>1
    <2>2. CASE (\E b \in BoundTo(cn) : level(b.role) = 3) /\ \A c \in BoundTo(cn) : level(c.role) <= 3
        BY <1>1, <2>2
    <2>3. CASE (\E b \in BoundTo(cn) : level(b.role) = 2) /\ \A c \in BoundTo(cn) : level(c.role) <= 2
        BY <1>1, <2>3
    <2>4. CASE \A b \in BoundTo(cn) : level(b.role) <= 1
        BY <1>1, <2>4
    <2> QED
        BY <1>1, <2>1, <2>2, <2>3, <2>4
<1>3. PICK b \in BoundTo(cn) : role_for(cn) = b.role /\ Top(b)
    BY <1>2 DEF role_for
<1> QED
    BY <1>3

\* authorize against its reference: a request passes if its endpoint needs no
\* role, or if some binding of the client's name grants a role that is high
\* enough, whichever other bindings name it and in whatever order.
THEOREM AuthorizeCorrect ==
    ASSUME NEW cn, NEW method, NEW path
    PROVE  authorize(cn, method, path) <=>
              \/ required_role(method, path) = "none"
              \/ \E b \in Bindings : /\ cn \in b.subjects
                                     /\ level(b.role) >= level(required_role(method, path))
<1> DEFINE required == required_role(method, path)
<1>1. required \in {"none", "viewer", "operator", "breakglass"}
    BY DEF required_role
<1>2. CASE required = "none"
    BY <1>2 DEF authorize
<1>3. CASE required # "none"
    <2>1. level(required) \in 1..4
        BY <1>1, <1>3, RoleLevels DEF Roles
    <2>2. authorize(cn, method, path) <=> BoundTo(cn) # {} /\ level(role_for(cn)) >= level(required)
        BY <1>3, Zenon DEF authorize, satisfies
    <2>3. \A b \in BoundTo(cn) : level(b.role) \in 1..4
        BY ApiAssumption, RoleLevels DEF BoundTo
    <2>4. ASSUME BoundTo(cn) # {}, level(role_for(cn)) >= level(required)
          PROVE  \E b \in BoundTo(cn) : level(b.role) >= level(required)
        BY <2>4, HighestRole
    <2>5. ASSUME NEW b \in BoundTo(cn), level(b.role) >= level(required)
          PROVE  level(role_for(cn)) >= level(required)
        <3>1. PICK t \in BoundTo(cn) : role_for(cn) = t.role
            BY HighestRole
        <3>2. level(t.role) >= level(b.role)
            BY <3>1, HighestRole
        <3> HIDE DEF required
        <3> QED
            BY <2>1, <2>3, <2>5, <3>1, <3>2
    <2>6. (BoundTo(cn) # {} /\ level(role_for(cn)) >= level(required))
             <=> \E b \in BoundTo(cn) : level(b.role) >= level(required)
        BY <2>4, <2>5
    <2> QED
        BY <1>3, <2>2, <2>6, Zenon DEF BoundTo
<1> QED
    BY <1>2, <1>3

\* authorize lets only operators and above put a configuration.
LEMMA PutNeedsOperator ==
    ASSUME NEW cn, authorize(cn, "PUT", "/v1/config")
    PROVE  Operates(cn)
<1>1. required_role("PUT", "/v1/config") = "operator"
    BY DEF required_role
<1>2. BoundTo(cn) # {} /\ level(role_for(cn)) >= level("operator")
    BY <1>1 DEF authorize, satisfies
<1>3. PICK b \in BoundTo(cn) : role_for(cn) = b.role
    BY <1>2, HighestRole
<1>4. b.role # "viewer"
    BY <1>2, <1>3 DEF level
<1> QED
    BY <1>3, <1>4 DEF Operates, BoundTo

-----------------------------------------------------------------------------
(* The invariants.                                                         *)

LEMMA ConfigInitInv == ConfigInit => SyncInv
<1> SUFFICES ASSUME ConfigInit PROVE SyncInv
    OBVIOUS
<1>1. \A w \in Workers : task[w] = Idle /\ task[w].next = 0
    BY DEF ConfigInit, Idle
<1>2. PICK from \in Volumes :
        /\ \A f \in FileNames : from[f] \in Valid \cup {Absent, Torn}
        /\ file = [f \in FileNames |-> IF from[f] \in {Absent, Torn} THEN from[f]
                                       ELSE Rendered(f, from[f])]
    BY DEF ConfigInit
<1>3. ConfigTypeOK
    <2>1. \A f \in FileNames : file[f] \in {Rendered(f, i) : i \in Valid} \cup {Absent, Torn}
        BY <1>2
    <2>2. task \in [Workers -> {Idle}]
        BY DEF ConfigInit
    <2>3. mix \in [1..4 -> SUBSET Valid] /\ puts \in 0..MaxPuts
        BY ConfigAssumption DEF ConfigInit
    <2>4. synced \in BOOLEAN /\ crowded \in BOOLEAN
        BY Zenon DEF ConfigInit
    <2> QED
        BY <1>2, <2>1, <2>2, <2>3, <2>4 DEF ConfigInit, ConfigTypeOK
<1>4. Complete
    BY DEF ConfigInit
<1>5. Phases /\ Behind /\ Requested /\ Applied
    BY <1>1 DEF Phases, Behind, Requested, Applied, Workers, ConfigInit
<1>6. Overlaps
    <2>1. Busy(task) = {}
        BY <1>1 DEF Busy, Workers
    <2> QED
        BY <2>1 DEF ConfigInit, Overlaps, Several
<1>7. InSync
    BY DEF ConfigInit, InSync
<1> QED
    BY <1>3, <1>4, <1>5, <1>6, <1>7 DEF SyncInv, ConfigInv

\* A worker's position and intent.
LEMMA TaskType ==
    ASSUME ConfigTypeOK, NEW w \in Workers
    PROVE  /\ task[w].next \in 0..4
           /\ task[w].next # 0 => /\ task[w] \in [next : 1..4, intent : Valid,
                                                  subject : Subjects \cup {NoSubject}]
                                  /\ task[w].intent \in Valid
BY DEF ConfigTypeOK, Idle

\* Meet keeps the types.
LEMMA MeetType ==
    ASSUME ConfigTypeOK, Meet,
           task' \in [Workers -> {Idle} \cup [next : 1..4, intent : Valid,
                                             subject : Subjects \cup {NoSubject}]]
    PROVE  crowded' \in BOOLEAN /\ mix' \in [1..4 -> SUBSET Valid]
<1>1. crowded' \in BOOLEAN
    BY Zenon DEF Meet
<1>2. ASSUME NEW n \in 1..4, NEW w \in Writers(task', n) PROVE task'[w].intent \in Valid
    BY <1>2 DEF Writers, Idle
<1>3. ASSUME NEW n \in 1..4 PROVE mix'[n] \in SUBSET Valid
    <2>1. {task'[w].intent : w \in Writers(task', n)} \subseteq Valid
        BY <1>2
    <2>2. mix[n] \in SUBSET Valid
        BY DEF ConfigTypeOK
    <2>3. \/ mix'[n] = {} \/ mix'[n] = mix[n]
          \/ mix'[n] = mix[n] \cup {task'[w].intent : w \in Writers(task', n)}
        BY DEF Meet
    <2> QED
        BY <2>1, <2>2, <2>3
<1>4. mix' = [n \in 1..4 |-> mix'[n]]
    BY DEF Meet
<1> QED
    BY <1>1, <1>3, <1>4

\* What a write can leave in the file: the content of a valid intent, or a
\* mixture; that of its own intent if no call has overlapped with it.
LEMMA ContentsType ==
    ASSUME ConfigTypeOK, NEW n \in 1..4, NEW i \in Valid, NEW c \in Contents(n, i)
    PROVE  /\ c \in {Rendered(Files[n], j) : j \in Valid} \cup {Torn}
           /\ c # Absent
           /\ mix[n] = {} => c = Rendered(Files[n], i)
<1>1. mix[n] \subseteq Valid
    BY DEF ConfigTypeOK
<1>2. c \in {Rendered(Files[n], j) : j \in Valid} \cup {Torn}
    BY <1>1 DEF Contents
<1>3. c # Absent
    BY <1>2, RenderedSome, FileOrder, ConfigAssumption
<1> QED
    BY <1>2, <1>3 DEF Contents

\* What a write, late or not, does to the files.
LEMMA FileEffect ==
    ASSUME ConfigTypeOK, NEW w \in Workers, Write(w) \/ LateWrite(w)
    PROVE  /\ task[w].next \in 1..4 /\ task[w].intent \in Valid
           /\ task[w] \in [next : 1..4, intent : Valid, subject : Subjects \cup {NoSubject}]
           /\ DOMAIN file' = FileNames
           /\ \A n \in 1..4 : n # task[w].next => file'[Files[n]] = file[Files[n]]
           /\ file'[Files[task[w].next]] \in Contents(task[w].next, task[w].intent)
<1>1. /\ task[w].next \in 1..4 /\ task[w].intent \in Valid
      /\ task[w] \in [next : 1..4, intent : Valid, subject : Subjects \cup {NoSubject}]
    BY TaskType DEF Write, LateWrite
<1>2. PICK c \in Contents(task[w].next, task[w].intent) :
         file' = [file EXCEPT ![Files[task[w].next]] = c]
    BY DEF Write, LateWrite
<1>3. \A m, n \in 1..4 : Files[m] = Files[n] => m = n
    BY FileOrder
<1> QED
    BY <1>1, <1>2, <1>3, FileOrder DEF ConfigTypeOK

\* What a write does to the workers.
LEMMA WriteEffect ==
    ASSUME ConfigTypeOK, NEW w \in Workers, Write(w)
    PROVE  /\ task' \in [Workers -> {Idle} \cup [next : 1..4, intent : Valid,
                                                 subject : Subjects \cup {NoSubject}]]
           /\ \A v \in Workers \ {w} : task'[v] = task[v]
           /\ task[w].next < 4 => /\ task'[w].next = task[w].next + 1
                                  /\ task'[w].intent = task[w].intent
                                  /\ task'[w].subject = task[w].subject
                                  /\ noded' = noded
           /\ task[w].next = 4 => /\ task'[w].next = 0
                                  /\ noded' = IF w = Boot THEN "serving" ELSE noded
<1>1. /\ task[w].next \in 1..4
      /\ task[w] \in [next : 1..4, intent : Valid, subject : Subjects \cup {NoSubject}]
    BY FileEffect
<1>4. CASE task[w].next < 4
    <2>1. task' = [task EXCEPT ![w].next = task[w].next + 1] /\ noded' = noded
        BY <1>1, <1>4 DEF Write
    <2>2. [task[w] EXCEPT !.next = task[w].next + 1]
             \in [next : 1..4, intent : Valid, subject : Subjects \cup {NoSubject}]
        BY <1>1, <1>4
    <2>3. task'[w] = [task[w] EXCEPT !.next = task[w].next + 1]
        BY <2>1 DEF ConfigTypeOK
    <2>4. /\ task'[w].next = task[w].next + 1
          /\ task'[w].intent = task[w].intent /\ task'[w].subject = task[w].subject
        BY <1>1, <2>3
    <2>5. \A v \in Workers \ {w} : task'[v] = task[v]
        BY <2>1 DEF ConfigTypeOK
    <2>6. task' \in [Workers -> {Idle} \cup [next : 1..4, intent : Valid,
                                             subject : Subjects \cup {NoSubject}]]
        BY <2>1, <2>2, <2>3, <2>5 DEF ConfigTypeOK
    <2> QED
        BY <1>1, <1>4, <2>1, <2>4, <2>5, <2>6
<1>5. CASE task[w].next = 4
    <2>1. /\ task' = [task EXCEPT ![w] = Idle]
          /\ noded' = IF w = Boot THEN "serving" ELSE noded
        BY <1>5 DEF Write, Finish
    <2>2. /\ task' \in [Workers -> {Idle} \cup [next : 1..4, intent : Valid,
                                                subject : Subjects \cup {NoSubject}]]
          /\ \A v \in Workers \ {w} : task'[v] = task[v]
          /\ task'[w].next = 0
        BY <2>1 DEF ConfigTypeOK, Idle
    <2> QED
        BY <1>1, <1>5, <2>1, <2>2
<1> QED
    BY <1>1, <1>4, <1>5

\* A worker that gives up.
LEMMA FailEffect ==
    ASSUME ConfigTypeOK, NEW w \in Workers, WriteFails(w)
    PROVE  /\ task' \in [Workers -> {Idle} \cup [next : 1..4, intent : Valid,
                                                 subject : Subjects \cup {NoSubject}]]
           /\ \A v \in Workers \ {w} : task'[v] = task[v]
           /\ task'[w].next = 0
           /\ noded' = IF w = Boot THEN "serving" ELSE noded
           /\ UNCHANGED <<file, puts, synced>> /\ Meet
BY DEF WriteFails, Finish, ConfigTypeOK, Idle

LEMMA NextConfigType == ConfigTypeOK /\ ConfigNext => ConfigTypeOK'
<1> SUFFICES ASSUME ConfigTypeOK, ConfigNext PROVE ConfigTypeOK'
    OBVIOUS
<1>1. CASE Launch \/ LoadNothing
    BY <1>1 DEF Launch, LoadNothing, ConfigTypeOK, overlaps
<1>2. CASE LoadIntent
    <2>1. file["intent"] \in Valid
        BY <1>2, RenderedFiles DEF LoadIntent, Readable, ConfigTypeOK, FileNames
    <2>2. BootTask \in [next : 1..4, intent : Valid, subject : Subjects \cup {NoSubject}]
        BY <2>1 DEF BootTask
    <2>3. task' \in [Workers -> {Idle} \cup [next : 1..4, intent : Valid,
                                             subject : Subjects \cup {NoSubject}]]
        BY <1>2, <2>2 DEF LoadIntent, ConfigTypeOK, Workers
    <2> QED
        BY <1>2, <2>3, MeetType DEF LoadIntent, ConfigTypeOK
<1>3. CASE Crash
    <2>1. task' \in [Workers -> {Idle} \cup [next : 1..4, intent : Valid,
                                             subject : Subjects \cup {NoSubject}]]
        BY <1>3 DEF Crash
    <2> QED
        BY <1>3, <2>1, MeetType DEF Crash, ConfigTypeOK
<1>4. ASSUME NEW h \in Handlers, NEW cn \in Subjects \cup {NoSubject}, NEW i \in Intents,
             PutConfig(h, cn, i)
      PROVE  ConfigTypeOK'
    <2>1. [next |-> 1, intent |-> i, subject |-> cn]
             \in [next : 1..4, intent : Valid, subject : Subjects \cup {NoSubject}]
        BY <1>4 DEF PutConfig, Valid
    <2>2. task' \in [Workers -> {Idle} \cup [next : 1..4, intent : Valid,
                                             subject : Subjects \cup {NoSubject}]]
        BY <1>4, <2>1 DEF PutConfig, ConfigTypeOK, Workers
    <2>3. puts' \in 0..MaxPuts
        BY <1>4, ConfigAssumption DEF PutConfig, ConfigTypeOK
    <2> QED
        BY <1>4, <2>2, <2>3, MeetType DEF PutConfig, ConfigTypeOK
<1>5. ASSUME NEW w \in Workers, Write(w) \/ LateWrite(w) PROVE ConfigTypeOK'
    <2>1. \A n \in 1..4 : file'[Files[n]] \in {Rendered(Files[n], i) : i \in Valid} \cup {Absent, Torn}
        <3> SUFFICES ASSUME NEW n \in 1..4
                     PROVE  file'[Files[n]] \in {Rendered(Files[n], i) : i \in Valid} \cup {Absent, Torn}
            OBVIOUS
        <3>1. CASE n = task[w].next
            BY <1>5, <3>1, FileEffect, ContentsType
        <3>2. CASE n # task[w].next
            BY <1>5, <3>2, FileEffect, FileOrder DEF ConfigTypeOK
        <3> QED
            BY <3>1, <3>2
    <2>2. DOMAIN file' = FileNames
          /\ \A f \in FileNames : file'[f] \in {Rendered(f, i) : i \in Valid} \cup {Absent, Torn}
        BY <1>5, <2>1, FileOrder, FileEffect DEF FileNames
    <2>3. synced' \in BOOLEAN
        BY <1>5, Zenon DEF Write, LateWrite
    <2>4. CASE Write(w)
        <3>1. noded' \in {"down", "starting", "reconciling", "serving"} /\ puts' = puts /\ Meet
            BY <2>4, WriteEffect DEF ConfigTypeOK, Write, Finish
        <3> QED
            BY <2>2, <2>3, <2>4, <3>1, WriteEffect, MeetType DEF ConfigTypeOK
    <2>5. CASE LateWrite(w)
        BY <2>2, <2>3, <2>5 DEF LateWrite, overlaps, ConfigTypeOK
    <2> QED
        BY <1>5, <2>4, <2>5
<1>6. ASSUME NEW w \in Workers, WriteFails(w) PROVE ConfigTypeOK'
    BY <1>6, FailEffect, MeetType DEF ConfigTypeOK
<1> QED
    BY <1>1, <1>2, <1>3, <1>4, <1>5, <1>6 DEF ConfigNext

\* A write by w, in terms of the single files.
LEMMA WriteFiles ==
    ASSUME ConfigTypeOK, NEW w \in Workers, Write(w) \/ LateWrite(w)
    PROVE  LET n == task[w].next i == task[w].intent IN
           /\ n # 1 => file'["intent"] = file["intent"]
           /\ n # 2 => file'["ca"] = file["ca"]
           /\ n # 3 => file'["config"] = file["config"]
           /\ n # 4 => file'["kubeconfig"] = file["kubeconfig"]
           /\ file'[Files[n]] # Absent
           /\ mix[n] = {} => file'[Files[n]] = Rendered(Files[n], i)
<1>1. /\ file'[Files[task[w].next]] # Absent
      /\ mix[task[w].next] = {} =>
            file'[Files[task[w].next]] = Rendered(Files[task[w].next], task[w].intent)
    BY FileEffect, ContentsType
<1>2. \A n \in 1..4 : n # task[w].next => file'[Files[n]] = file[Files[n]]
    BY FileEffect
<1> QED
    BY <1>1, <1>2, FileOrder

\* A step that changes the workers keeps what crowded and mix say of them.
LEMMA MeetOverlaps ==
    ASSUME Overlaps, Phases, Phases', Meet,
           noded' = "reconciling" => noded \in {"starting", "reconciling"}
    PROVE  Overlaps'
<1>1. \A S : Several(S) => S # {}
    BY DEF Several
<1>2. crowded' <=> Several(Busy(task')) \/ (crowded /\ Busy(task') # {})
    BY Zenon DEF Meet
<1>3. (crowded => Busy(task) # {})' /\ (~crowded => ~Several(Busy(task)))'
    BY <1>1, <1>2, Zenon
<1>4. ASSUME NEW n \in 1..4, mix'[n] # {} PROVE crowded'
    <2>1. Writers(task', n) # {} /\ (Several(Writers(task', n)) \/ mix[n] # {})
        BY <1>4 DEF Meet
    <2>2. CASE noded' = "reconciling"
        <3>1. \A h \in Handlers : task[h].next = 0 /\ task'[h].next = 0
            BY <2>2 DEF Phases
        <3>2. Busy(task) = {}
            BY <3>1 DEF Busy
        <3>3. mix[n] = {}
            BY <3>2 DEF Overlaps
        <3>4. Writers(task', n) \subseteq {Boot}
            BY <3>1 DEF Writers, Workers
        <3> QED
            BY <2>1, <3>3, <3>4 DEF Several
    <2>3. CASE noded' # "reconciling"
        <3>1. Writers(task', n) \subseteq Busy(task')
            BY <2>3 DEF Phases, Writers, Busy, Workers
        <3>2. CASE Several(Writers(task', n))
            BY <1>2, <3>1, <3>2 DEF Several
        <3>3. CASE mix[n] # {}
            BY <1>2, <2>1, <3>1, <3>3 DEF Overlaps
        <3> QED
            BY <2>1, <3>2, <3>3
    <2> QED
        BY <2>2, <2>3
<1> QED
    BY <1>3, <1>4 DEF Overlaps

\* When the crowd is gone, nobody is at work.
LEMMA CrowdGone ==
    ASSUME Overlaps, Phases, Phases', Meet,
           noded' = "reconciling" => noded \in {"starting", "reconciling"},
           crowded, ~crowded'
    PROVE  \A w \in Workers : task'[w].next = 0
<1>1. Busy(task') = {}
    BY DEF Meet
<1>2. Busy(task) # {}
    BY DEF Overlaps
<1>3. noded' # "reconciling"
    BY <1>2 DEF Busy, Phases
<1> QED
    BY <1>1, <1>3 DEF Busy, Phases, Workers

LEMMA NextConfigInv == ConfigInv /\ ConfigNext => ConfigInv'
<1> SUFFICES ASSUME ConfigInv, ConfigNext
             PROVE  (Complete /\ Phases /\ Behind /\ Requested /\ Overlaps)'
    BY NextConfigType DEF ConfigInv
<1> USE ConfigAssumption DEF Workers
<1>0. ConfigTypeOK /\ Complete /\ Phases /\ Behind /\ Requested /\ Overlaps
    BY DEF ConfigInv
<1>1. CASE Launch \/ LoadNothing
    <2>1. UNCHANGED <<task, crowded, mix>>
        BY <1>1 DEF Launch, LoadNothing, overlaps
    <2>2. Overlaps'
        BY <1>0, <2>1 DEF Overlaps, Busy, Several
    <2> QED
        BY <1>0, <1>1, <2>2 DEF Launch, LoadNothing, Complete, Phases, Behind, Requested, Operates
<1>2. CASE LoadIntent
    <2>1. task'[Boot].next = 2 /\ \A h \in Handlers : task'[h] = task[h]
        BY <1>0, <1>2 DEF LoadIntent, ConfigTypeOK, BootTask
    <2>2. (Complete /\ Phases /\ Behind /\ Requested)'
        BY <1>0, <1>2, <2>1 DEF LoadIntent, Readable, Complete, Phases, Behind, Requested
    <2> QED
        BY <1>0, <1>2, <2>2, MeetOverlaps DEF LoadIntent
<1>3. CASE Crash
    <2>1. \A w \in Workers : task'[w].next = 0
        BY <1>3 DEF Crash, Idle
    <2>2. (Complete /\ Phases /\ Behind /\ Requested)'
        BY <1>0, <1>3, <2>1 DEF Crash, Complete, Phases, Behind, Requested
    <2> QED
        BY <1>0, <1>3, <2>2, MeetOverlaps DEF Crash
<1>4. ASSUME NEW h \in Handlers, NEW cn \in Subjects \cup {NoSubject}, NEW i \in Intents,
             PutConfig(h, cn, i)
      PROVE  (Complete /\ Phases /\ Behind /\ Requested /\ Overlaps)'
    <2>1. /\ task'[h].next = 1 /\ task'[h].subject = cn
          /\ \A w \in Workers \ {h} : task'[w] = task[w]
        BY <1>0, <1>4 DEF PutConfig, ConfigTypeOK
    <2>2. Operates(cn)
        BY <1>4, PutNeedsOperator DEF PutConfig
    <2>3. (Complete /\ Phases /\ Behind /\ Requested)'
        BY <1>0, <1>4, <2>1, <2>2 DEF PutConfig, Complete, Phases, Behind, Requested, Operates
    <2> QED
        BY <1>0, <1>4, <2>3, MeetOverlaps DEF PutConfig
<1>5. ASSUME NEW w \in Workers, Write(w)
      PROVE  (Complete /\ Phases /\ Behind /\ Requested /\ Overlaps)'
    <2>1. task[w].next \in 1..4
        BY <1>0, <1>5, FileEffect
    <2>2. Complete' /\ Behind'
        BY <1>0, <1>5, <2>1, FileOrder, WriteEffect, WriteFiles, TaskType DEF Complete, Behind
    <2>3. Phases' /\ (noded' = "reconciling" => noded = "reconciling")
        BY <1>0, <1>5, <2>1, WriteEffect DEF Phases
    <2>4. Requested'
        BY <1>0, <1>5, <2>1, WriteEffect DEF Requested, Operates
    <2>5. Meet
        BY <1>5 DEF Write
    <2> QED
        BY <1>0, <2>2, <2>3, <2>4, <2>5, MeetOverlaps
<1>6. ASSUME NEW w \in Workers, LateWrite(w)
      PROVE  (Complete /\ Phases /\ Behind /\ Requested /\ Overlaps)'
    <2>1. task[w].next \in 1..4 /\ UNCHANGED <<noded, task, crowded, mix>>
        BY <1>0, <1>6, FileEffect DEF LateWrite, overlaps
    <2>2. Complete' /\ Behind'
        BY <1>0, <1>6, <2>1, FileOrder, WriteFiles DEF Complete, Behind
    <2> QED
        BY <1>0, <2>1, <2>2 DEF Phases, Requested, Operates, Overlaps, Busy
<1>7. ASSUME NEW w \in Workers, WriteFails(w)
      PROVE  (Complete /\ Phases /\ Behind /\ Requested /\ Overlaps)'
    <2>1. (Complete /\ Phases /\ Behind /\ Requested)' /\ (noded' = "reconciling" => noded = "reconciling")
        BY <1>0, <1>7, FailEffect DEF Complete, Phases, Behind, Requested, Operates
    <2> QED
        BY <1>0, <1>7, <2>1, FailEffect, MeetOverlaps
<1> QED
    BY <1>1, <1>2, <1>3, <1>4, <1>5, <1>6, <1>7 DEF ConfigNext

\* Who is at work without a crowd is alone.
LEMMA OneAtWork ==
    ASSUME ~crowded, ConfigInv, NEW v \in Workers, NEW w \in Workers,
           task[v].next # 0, task[w].next # 0
    PROVE  v = w
BY TaskType DEF ConfigInv, Overlaps, Several, Busy, Phases, Workers, ConfigTypeOK

\* What a worker who is alone leaves behind is its own intent's, and at its
\* end all is.
LEMMA NextSync == SyncInv /\ ConfigNext => SyncInv'
<1> SUFFICES ASSUME SyncInv, ConfigNext, ConfigInv' PROVE (Applied /\ InSync)'
    BY NextConfigInv DEF SyncInv
<1> USE ConfigAssumption DEF Workers
<1>0. ConfigInv /\ ConfigTypeOK /\ Phases /\ Phases' /\ Overlaps /\ Applied /\ InSync
    BY DEF SyncInv, ConfigInv
<1>1. CASE Launch \/ LoadNothing
    <2>1. UNCHANGED <<file, task, synced, crowded>>
        BY <1>1 DEF Launch, LoadNothing, overlaps
    <2> QED
        BY <1>0, <2>1 DEF Applied, InSync
<1>2. CASE LoadIntent
    <2>1. /\ task'[Boot].next = 2 /\ task'[Boot].intent = file["intent"]
          /\ \A h \in Handlers : task'[h].next = 0
        BY <1>0, <1>2 DEF LoadIntent, ConfigTypeOK, BootTask, Phases
    <2> QED
        BY <1>0, <1>2, <2>1 DEF LoadIntent, Applied, InSync
<1>3. CASE Crash
    <2>1. \A w \in Workers : task'[w].next = 0
        BY <1>3 DEF Crash, Idle
    <2> QED
        BY <1>0, <1>3, <2>1 DEF Crash, Applied, InSync
<1>4. ASSUME NEW h \in Handlers, NEW cn \in Subjects \cup {NoSubject}, NEW i \in Intents,
             PutConfig(h, cn, i)
      PROVE  (Applied /\ InSync)'
    <2>1. task'[h].next = 1 /\ task'[Boot].next = 0
        BY <1>0, <1>4 DEF PutConfig, ConfigTypeOK, Phases
    <2>2. ASSUME ~crowded', NEW g \in Handlers, task'[g].next # 0 PROVE g = h
        <3>1. ~Several(Busy(task'))
            BY <2>2 DEF ConfigInv, Overlaps
        <3> QED
            BY <2>1, <2>2, <3>1 DEF Several, Busy
    <2>3. ASSUME ~crowded', NEW w \in Workers PROVE task'[w].next \in {0, 1}
        BY <2>1, <2>2, <2>3
    <2> QED
        BY <1>0, <1>4, <2>3 DEF PutConfig, Applied, InSync
<1>5. ASSUME NEW w \in Workers, Write(w) PROVE (Applied /\ InSync)'
    <2>1. task[w].next \in 1..4 /\ task[w].next # 0
        BY <1>0, <1>5, FileEffect
    <2>2. Meet /\ (noded' = "reconciling" => noded = "reconciling")
        BY <1>0, <1>5, <2>1, WriteEffect DEF Write
    <2>3. synced' => task[w].next = 4 /\ ~crowded
        BY <1>5, Zenon DEF Write
    <2>4. CASE crowded
        <3>1. ~crowded' => \A v \in Workers : task'[v].next = 0
            BY <1>0, <2>2, <2>4, CrowdGone
        <3> QED
            BY <2>3, <2>4, <3>1 DEF Applied, InSync
    <2>5. CASE ~crowded
        <3>1. \A v \in Workers \ {w} : task[v].next = 0 /\ task'[v].next = 0
            BY <1>0, <1>5, <2>1, <2>5, WriteEffect, OneAtWork, TaskType
        <3>2. mix[task[w].next] = {}
            BY <1>0, <2>1, <2>5 DEF Overlaps
        <3>3. file'[Files[task[w].next]] = Rendered(Files[task[w].next], task[w].intent)
            BY <1>0, <1>5, <3>2, WriteFiles
        <3>4. task[w].next = 1 => file'["intent"] = task[w].intent
            <4>1. task[w].next = 1 => file'["intent"] = Rendered("intent", task[w].intent)
                BY <3>3, FileOrder
            <4>2. Rendered("intent", task[w].intent) = task[w].intent
                BY RenderedFiles
            <4> QED
                BY <4>1, <4>2
        <3>5. /\ task[w].next = 2 => file'["ca"] = Rendered("ca", task[w].intent)
              /\ task[w].next = 3 => file'["config"] = Rendered("config", task[w].intent)
              /\ task[w].next = 4 => file'["kubeconfig"] = Rendered("kubeconfig", task[w].intent)
            BY <3>3, FileOrder
        <3>6. /\ task[w].next >= 2 => file["intent"] = task[w].intent
              /\ task[w].next >= 3 => file["ca"] = Rendered("ca", task[w].intent)
              /\ task[w].next >= 4 => file["config"] = Rendered("config", task[w].intent)
            BY <1>0, <2>5 DEF Applied
        <3>7. Applied'
            <4>1. CASE task[w].next < 4
                <5>1. task'[w].next = task[w].next + 1 /\ task'[w].intent = task[w].intent
                    BY <1>0, <1>5, <4>1, WriteEffect
                <5> QED
                    BY <1>0, <1>5, <2>1, <3>1, <3>4, <3>5, <3>6, <4>1, <5>1, WriteFiles DEF Applied
            <4>2. CASE task[w].next = 4
                BY <1>0, <1>5, <3>1, <4>2, WriteEffect DEF Applied
            <4> QED
                BY <2>1, <4>1, <4>2
        <3>8. InSync'
            <4>1. CASE task[w].next = 4
                <5>1. /\ file'["intent"] = task[w].intent
                      /\ file'["ca"] = Rendered("ca", task[w].intent)
                      /\ file'["config"] = Rendered("config", task[w].intent)
                      /\ file'["kubeconfig"] = Rendered("kubeconfig", task[w].intent)
                    BY <1>0, <1>5, <3>5, <3>6, <4>1, WriteFiles
                <5>2. file'["intent"] = Rendered("intent", task[w].intent)
                    BY <5>1, RenderedFiles
                <5>3. \A f \in FileNames : file'[f] = Rendered(f, task[w].intent)
                    BY <5>1, <5>2 DEF FileNames
                <5> QED
                    BY <5>1, <5>3 DEF InSync
            <4>2. CASE task[w].next # 4
                BY <2>3, <4>2 DEF InSync
            <4> QED
                BY <4>1, <4>2
        <3> QED
            BY <3>7, <3>8
    <2> QED
        BY <2>4, <2>5
<1>6. ASSUME NEW w \in Workers, LateWrite(w) PROVE (Applied /\ InSync)'
    <2>1. task[w].next \in 1..4 /\ mix[task[w].next] # {}
        BY <1>0, <1>6, FileEffect DEF LateWrite
    <2>2. crowded /\ crowded' /\ ~synced'
        BY <1>0, <1>6, <2>1 DEF Overlaps, LateWrite, overlaps
    <2> QED
        BY <2>2 DEF Applied, InSync
<1>7. ASSUME NEW w \in Workers, WriteFails(w) PROVE (Applied /\ InSync)'
    <2>1. InSync'
        BY <1>0, <1>7, FailEffect DEF InSync
    <2>2. CASE crowded
        <3>1. ~crowded' => \A v \in Workers : task'[v].next = 0
            BY <1>0, <1>7, <2>2, FailEffect, CrowdGone
        <3> QED
            BY <2>1, <3>1 DEF Applied
    <2>3. CASE ~crowded
        BY <1>0, <1>7, <2>1, <2>3, FailEffect DEF Applied
    <2> QED
        BY <2>2, <2>3
<1> QED
    BY <1>1, <1>2, <1>3, <1>4, <1>5, <1>6, <1>7 DEF ConfigNext

-----------------------------------------------------------------------------
(* The steps.                                                              *)

\* A step that changes a file is a worker's write.
LEMMA StepWrites ==
    ASSUME ConfigNext \/ UNCHANGED configVars, file' # file
    PROVE  \E w \in Workers : Write(w) \/ LateWrite(w)
BY DEF ConfigNext, Launch, LoadIntent, LoadNothing, Crash, PutConfig, WriteFails, configVars

\* A worker that is alone renders the persisted intent.
LEMMA StepPersistFirst ==
    ASSUME SyncInv, ConfigNext \/ UNCHANGED configVars, ~crowded,
           NEW f \in FileNames \ {"intent"}, file'[f] # file[f]
    PROVE  file'[f] = Rendered(f, file["intent"])
<1>0. ConfigTypeOK /\ Overlaps /\ Applied
    BY DEF SyncInv, ConfigInv
<1>1. PICK w \in Workers : Write(w) \/ LateWrite(w)
    BY StepWrites
<1>2. task[w].next \in 1..4 /\ mix[task[w].next] = {}
    BY <1>0, <1>1, FileEffect DEF Overlaps
<1>3. file'[Files[task[w].next]] = Rendered(Files[task[w].next], task[w].intent)
    BY <1>0, <1>1, <1>2, WriteFiles
<1>4. task[w].next # 1 /\ f = Files[task[w].next]
    BY <1>0, <1>1, <1>2, FileOrder, WriteFiles DEF FileNames
<1>5. task[w].intent = file["intent"]
    BY <1>0, <1>2, <1>4 DEF Applied
<1> QED
    BY <1>3, <1>4, <1>5

\* A step that changes the intent is a handler's, and one that no other call
\* has overlapped with persists what its client sent.
LEMMA StepOnlyOperators ==
    ASSUME ConfigInv, ConfigNext \/ UNCHANGED configVars, file'["intent"] # file["intent"]
    PROVE  \E h \in Handlers, b \in Bindings :
                /\ task[h].next = 1
                /\ task[h].subject \in b.subjects /\ b.role # "viewer"
                /\ file'["intent"] = task[h].intent \/ mix[1] # {}
<1>0. ConfigTypeOK
    BY DEF ConfigInv
<1>1. PICK w \in Workers : Write(w) \/ LateWrite(w)
    BY StepWrites
<1>2. task[w].next = 1
    BY <1>0, <1>1, WriteFiles
<1>3. file'["intent"] = task[w].intent \/ mix[1] # {}
    <2>1. mix[1] = {} => file'[Files[1]] = Rendered(Files[1], task[w].intent)
        BY <1>0, <1>1, <1>2, WriteFiles
    <2> QED
        BY <2>1, FileOrder, RenderedFiles
<1>4. w \in Handlers /\ Operates(task[w].subject)
    BY <1>2 DEF ConfigInv, Phases, Requested, Workers
<1> QED
    BY <1>2, <1>3, <1>4 DEF Operates

\* No file is torn, and no write_atomic call has met another one on its path.
Whole == \A f \in FileNames : file[f] # Torn
Apart == \A n \in 1..4 : mix[n] = {}

\* Calls that do not meet tear no file.
LEMMA StepWhole ==
    ASSUME ConfigTypeOK, Whole, Apart, ConfigNext \/ UNCHANGED configVars
    PROVE  Whole'
<1>1. CASE file' = file
    BY <1>1 DEF Whole
<1>2. CASE file' # file
    <2>1. PICK w \in Workers : Write(w) \/ LateWrite(w)
        BY <1>2, StepWrites
    <2>2. task[w].next \in 1..4 /\ task[w].intent \in Valid
        BY <2>1, FileEffect
    <2>3. file'[Files[task[w].next]] = Rendered(Files[task[w].next], task[w].intent)
        BY <2>1, <2>2, WriteFiles DEF Apart
    <2>4. file'[Files[task[w].next]] # Torn
        BY <2>2, <2>3, RenderedSome, FileOrder
    <2>5. \A n \in 1..4 : file'[Files[n]] # Torn
        BY <2>1, <2>2, <2>4, FileEffect, FileOrder DEF Whole
    <2> QED
        BY <2>5, FileOrder DEF Whole, FileNames
<1> QED
    BY <1>1, <1>2
=============================================================================
