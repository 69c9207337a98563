----------------------------- MODULE HealthProbe -----------------------------
(***************************************************************************)
(* Health-probe derivation of azure_loadbalancer_healthprobe.go: the probe *)
(* buildHealthProbeRulesForPort builds for one port of a service from its  *)
(* annotations, the probe-config helpers that compute interval and number  *)
(* of probes on their own, and findProbe, which the reconciler uses to     *)
(* decide whether an existing probe already matches.                       *)
(*                                                                         *)
(* Text is abstracted to what the code does with it.  A protocol value is  *)
(* [word, padded]: every comparison is strings.EqualFold after             *)
(* strings.TrimSpace, so case is folded away and padded records whether    *)
(* TrimSpace changes the text.  A probe-port value is [name, num]: num is   *)
(* what strconv.Atoi yields (Nil when it fails) and name what EqualFold     *)
(* compares with port names.  An int32 annotation is Nil (absent),         *)
(* Malformed (not an int32) or its value.  int32 arithmetic wraps.         *)
(***************************************************************************)
EXTENDS Integers, Sequences, Functions

CONSTANTS
    Nil,                  \* an absent annotation or nil pointer
    Malformed,            \* an annotation that does not parse as int32
    DefaultRequestPort,   \* consts.HealthProbeDefaultRequestPort
    DefaultRequestPath,   \* consts.HealthProbeDefaultRequestPath
    DefaultNumOfProbe,    \* consts.HealthProbeDefaultNumOfProbe
    DefaultProbeInterval, \* consts.HealthProbeDefaultProbeInterval
    PathFold,             \* PathFold[p]: request path p with its case folded
    PathEdits,            \* request paths a user may set on the port
    Manifests             \* the services whose probes are derived

ASSUME /\ PathEdits \cup {DefaultRequestPath} \subseteq DOMAIN PathFold
       /\ Nil \notin DOMAIN PathFold

-----------------------------------------------------------------------------
(* int32 multiplication as Go performs it: the product modulo 2^32 read    *)
(* as a two's-complement value.  Computed byte by byte so that no          *)
(* intermediate leaves TLC's integer range.  Operands are non-negative.    *)

Byte(x, i) == (x \div (2 ^ (8 * i))) % 256

Column(a, b, k) == SumFunction([i \in 0..k |-> Byte(a, i) * Byte(b, k - i)])

MulInt32(a, b) ==
    LET c0 == Column(a, b, 0)
        c1 == Column(a, b, 1) + c0 \div 256
        c2 == Column(a, b, 2) + c1 \div 256
        c3 == Column(a, b, 3) + c2 \div 256
        low == ((c2 % 256) * 65536 + (c1 % 256) * 256) + (c0 % 256)
        top == c3 % 256
    IN  IF top < 128 THEN top * 16777216 + low ELSE (top - 256) * 16777216 + low

\* The mathematical a * b < limit, decided without forming a large product.
ProductBelow(a, b, limit) == a < limit /\ b < limit /\ a * b < limit

-----------------------------------------------------------------------------
(* Annotation lookups.  port_<port>_health-probe_<param> annotations are   *)
(* svc.portAnn[port][param]; the service-wide ones are svc.global[param].  *)

PortAnnotation(svc, port, param) ==
    IF port \in DOMAIN svc.portAnn THEN svc.portAnn[port][param] ELSE Nil

\* An int32 annotation read through a validator: absent is nil, and a
\* value that does not parse or that the validator rejects is an error.
Int32Annotation(v, minimum) ==
    IF v = Nil THEN [err |-> FALSE, val |-> Nil]
    ELSE IF v = Malformed THEN [err |-> TRUE, val |-> Nil]
    ELSE IF v < minimum THEN [err |-> TRUE, val |-> Nil]
    ELSE [err |-> FALSE, val |-> v]

\* numOfProbeValidator: at least 2 unhealthy responses.
MinimumNumOfProbe == 2

\* probeIntervalValidator: at least 5 seconds.
MinimumProbeIntervalInSecond == 5

-----------------------------------------------------------------------------
(* buildHealthProbeRulesForPort, stage by stage.                           *)

\* Protocol: the port annotation, else the port's AppProtocol, else the
\* global annotation, else HTTP.  from says where it came from.
SelectProtocol(svc, i) ==
    LET pa == PortAnnotation(svc, svc.ports[i].port, "protocol")
        ap == svc.ports[i].appProtocol
        ga == svc.global.protocol
    IN  IF pa # Nil THEN [tok |-> pa, from |-> "annotation"]
        ELSE IF ap # Nil THEN [tok |-> ap, from |-> "appProtocol"]
        ELSE IF ga # Nil THEN [tok |-> ga, from |-> "annotation"]
        ELSE [tok |-> [word |-> "http", padded |-> FALSE], from |-> "default"]

\* *protocol = strings.TrimSpace(*protocol): when the protocol came from
\* port.AppProtocol the pointer is the service's own field, so the trimmed
\* text is written back into the manifest.
TrimmedManifest(svc, i) ==
    IF SelectProtocol(svc, i).from = "appProtocol"
    THEN [svc EXCEPT !.ports[i].appProtocol.padded = FALSE]
    ELSE svc

\* Mutant: the switch compares the protocol before trimming it.
ProbeProtocolAndPortUntrimmed(tok, standard, nodePort) ==
    CASE tok.padded                      -> [protocol |-> "Tcp", port |-> nodePort]
      [] tok.word = "tcp"                -> [protocol |-> "Tcp", port |-> nodePort]
      [] tok.word = "https" /\ ~standard -> [protocol |-> "Tcp", port |-> nodePort]
      [] tok.word = "https"              -> [protocol |-> "Https", port |-> DefaultRequestPort]
      [] tok.word = "http"               -> [protocol |-> "Http", port |-> DefaultRequestPort]
      [] OTHER                           -> [protocol |-> "Tcp", port |-> nodePort]

\* The switch on the trimmed protocol: probe protocol and, for TCP, the
\* port's NodePort; HTTP and HTTPS leave the port to the default.  HTTPS
\* falls back to TCP on a basic load balancer, anything unknown to TCP.
ProbeProtocolAndPort(tok, standard, nodePort) ==
    CASE tok.word = "tcp"                -> [protocol |-> "Tcp", port |-> nodePort]
      [] tok.word = "https" /\ ~standard -> [protocol |-> "Tcp", port |-> nodePort]
      [] tok.word = "https"              -> [protocol |-> "Https", port |-> DefaultRequestPort]
      [] tok.word = "http"               -> [protocol |-> "Http", port |-> DefaultRequestPort]
      [] OTHER                           -> [protocol |-> "Tcp", port |-> nodePort]

\* Mutant: the range check of a numeric probe port is dropped.
ProbePortValidNoRange(svc, v) ==
    \/ v = Nil
    \/ \E j \in DOMAIN svc.ports : v.name = svc.ports[j].name
    \/ v.num # Nil

\* The validator of the probe-port annotation: the name of a service port,
\* or a number in 0..65535.
ProbePortValid(svc, v) ==
    \/ v = Nil
    \/ \E j \in DOMAIN svc.ports : v.name = svc.ports[j].name
    \/ v.num # Nil /\ 0 <= v.num /\ v.num <= 65535

\* Mutant: a named probe port selects the service port, not its NodePort.
OverrideProbePortServicePort(svc, v, port) ==
    LET named == {j \in DOMAIN svc.ports : v.name = svc.ports[j].name}
        numbered == {j \in DOMAIN svc.ports : svc.ports[j].port = v.num}
        last(S) == CHOOSE j \in S : \A k \in S : k <= j
        first(S) == CHOOSE j \in S : \A k \in S : j <= k
    IN  IF v = Nil THEN port
        ELSE IF v.num = Nil
             THEN IF named = {} THEN port ELSE svc.ports[last(named)].port
        ELSE IF numbered = {} THEN v.num
        ELSE svc.ports[first(numbered)].nodePort

\* The probe-port override: a name selects the NodePort of the LAST port
\* of that name; a number the NodePort of the FIRST port with that port
\* number, or else the number itself.
OverrideProbePort(svc, v, port) ==
    LET named == {j \in DOMAIN svc.ports : v.name = svc.ports[j].name}
        numbered == {j \in DOMAIN svc.ports : svc.ports[j].port = v.num}
        last(S) == CHOOSE j \in S : \A k \in S : k <= j
        first(S) == CHOOSE j \in S : \A k \in S : j <= k
    IN  IF v = Nil THEN port
        ELSE IF v.num = Nil
             THEN IF named = {} THEN port ELSE svc.ports[last(named)].nodePort
        ELSE IF numbered = {} THEN v.num
        ELSE svc.ports[first(numbered)].nodePort

\* Request path, only for HTTP and HTTPS probes: port annotation, else the
\* global one, else the default.
RequestPath(svc, i, protocol) ==
    LET pa == PortAnnotation(svc, svc.ports[i].port, "requestPath")
    IN  IF protocol \notin {"Http", "Https"} THEN Nil
        ELSE IF pa # Nil THEN pa
        ELSE IF svc.global.requestPath # Nil THEN svc.global.requestPath
        ELSE DefaultRequestPath

\* A port-level int32 parameter with its global fallback and default, as
\* buildHealthProbeRulesForPort computes it inline.
PortOrGlobalInt32(svc, port, param, minimum, default) ==
    LET p == Int32Annotation(PortAnnotation(svc, port, param), minimum)
        g == Int32Annotation(svc.global[param], minimum)
    IN  IF p.err THEN [err |-> TRUE, val |-> Nil]
        ELSE IF p.val # Nil THEN p
        ELSE IF g.err THEN [err |-> TRUE, val |-> Nil]
        ELSE IF g.val # Nil THEN g
        ELSE [err |-> FALSE, val |-> default]

NumberOfProbes(svc, port) ==
    PortOrGlobalInt32(svc, port, "numOfProbe", MinimumNumOfProbe, DefaultNumOfProbe)

ProbeInterval(svc, port) ==
    PortOrGlobalInt32(svc, port, "probeInterval", MinimumProbeIntervalInSecond, DefaultProbeInterval)

\* total probe should be less than 120 seconds, checked in int32.
TotalProbeTooLong(interval, num) == MulInt32(interval, num) >= 120

Err(at) == [kind |-> "error", at |-> at]

\* buildHealthProbeRulesForPort for port i: no probe for UDP and SCTP, an
\* error at the first stage that fails, or the probe.
BuildHealthProbeRulesForPort(svc, i) ==
    LET sel  == SelectProtocol(svc, i)
        pp   == ProbeProtocolAndPort(sel.tok, svc.standard, svc.ports[i].nodePort)
        ppv  == PortAnnotation(svc, svc.ports[i].port, "probePort")
        num  == NumberOfProbes(svc, svc.ports[i].port)
        ivl  == ProbeInterval(svc, svc.ports[i].port)
    IN  IF svc.ports[i].protocol \in {"UDP", "SCTP"} THEN [kind |-> "none"]
        ELSE IF ~ProbePortValid(svc, ppv) THEN Err("probePort")
        ELSE IF num.err THEN Err("numOfProbe")
        ELSE IF ivl.err THEN Err("probeInterval")
        ELSE IF TotalProbeTooLong(ivl.val, num.val) THEN Err("total")
        ELSE [kind |-> "probe",
              protocol |-> pp.protocol,
              port |-> OverrideProbePort(svc, ppv, pp.port),
              path |-> RequestPath(svc, i, pp.protocol),
              interval |-> ivl.val,
              threshold |-> num.val]

-----------------------------------------------------------------------------
(* The probe-config helpers.                                               *)

\* getHealthProbeConfigNumOfProbe: its own copy of the lookup, port
\* annotation, then global annotation, then default.
GetHealthProbeConfigNumOfProbe(svc, port) ==
    LET p == Int32Annotation(PortAnnotation(svc, port, "numOfProbe"), MinimumNumOfProbe)
        g == Int32Annotation(svc.global.numOfProbe, MinimumNumOfProbe)
    IN  CASE p.err \/ p.val # Nil -> p
          [] g.err \/ g.val # Nil -> g
          [] OTHER                -> [err |-> FALSE, val |-> DefaultNumOfProbe]

\* Mutant: the helper's copy ignores the service-wide annotation.
GetHealthProbeConfigProbeIntervalPortOnly(svc, port) ==
    LET p == Int32Annotation(PortAnnotation(svc, port, "probeInterval"), MinimumProbeIntervalInSecond)
    IN  IF p.err \/ p.val # Nil THEN p ELSE [err |-> FALSE, val |-> DefaultProbeInterval]

\* getHealthProbeConfigProbeInterval: the same lookup for the interval.
GetHealthProbeConfigProbeInterval(svc, port) ==
    LET p == Int32Annotation(PortAnnotation(svc, port, "probeInterval"), MinimumProbeIntervalInSecond)
        g == Int32Annotation(svc.global.probeInterval, MinimumProbeIntervalInSecond)
    IN  CASE p.err \/ p.val # Nil -> p
          [] g.err \/ g.val # Nil -> g
          [] OTHER                -> [err |-> FALSE, val |-> DefaultProbeInterval]

\* Number of probes first, then interval, then the 120-second check.
GetHealthProbeConfigProbeIntervalAndNumOfProbe(svc, port) ==
    LET num == GetHealthProbeConfigNumOfProbe(svc, port)
        ivl == GetHealthProbeConfigProbeInterval(svc, port)
    IN  IF num.err \/ ivl.err \/ TotalProbeTooLong(ivl.val, num.val)
        THEN [kind |-> "error"]
        ELSE [kind |-> "config", interval |-> ivl.val, threshold |-> num.val]

\* findProbe: some existing probe equals the probe field by field, a nil
\* field reading as 0 or "", and text fields compared with
\* strings.EqualFold (the request path by its case-folded form).  Names
\* are left out: every probe compared here belongs to the same rule.
Deref(x, zero) == IF x = Nil THEN zero ELSE x

FoldPath(x) == IF x = Nil THEN "" ELSE PathFold[x]

FindProbe(probes, probe) ==
    \E j \in DOMAIN probes :
        /\ Deref(probes[j].port, 0) = Deref(probe.port, 0)
        /\ probes[j].protocol = probe.protocol
        /\ FoldPath(probes[j].path) = FoldPath(probe.path)
        /\ Deref(probes[j].interval, 0) = Deref(probe.interval, 0)
        /\ Deref(probes[j].threshold, 0) = Deref(probe.threshold, 0)

-----------------------------------------------------------------------------
(* The load-balancer reconciler calling into this file for one port of a   *)
(* service: it builds the port's probe (again on every reconcile of the    *)
(* service), keeps the load balancer's probe when findProbe matches the   *)
(* built one and replaces it otherwise, and reads the probe config through *)
(* the helpers.                                                            *)

VARIABLES
    svc,        \* the service manifest the reconciler holds
    idx,        \* the port whose probe is derived
    probe,      \* result of the latest buildHealthProbeRulesForPort
    previous,   \* result of the build before it
    config,     \* result of getHealthProbeConfigProbeIntervalAndNumOfProbe
    cloud       \* the probe the load balancer holds for the port's rule

hvars == <<svc, idx, probe, previous, config, cloud>>

Unbuilt == [kind |-> "unbuilt"]

\* The probes the load balancer holds, as findProbe receives them.
Existing == IF cloud.kind = "probe" THEN <<cloud>> ELSE <<>>

\* The probe the load balancer holds after a reconcile built result: an
\* existing probe findProbe matches is kept, else the built one is put.
SyncProbe(result) ==
    IF result.kind = "probe" /\ ~FindProbe(Existing, result) THEN result ELSE cloud

Init ==
    /\ svc \in Manifests
    /\ idx \in DOMAIN svc.ports
    /\ probe = Unbuilt
    /\ previous = Unbuilt
    /\ config = [kind |-> "unread"]
    /\ cloud = Unbuilt

\* One call of buildHealthProbeRulesForPort, including its write-back of
\* the trimmed protocol, which every port that is not UDP or SCTP reaches.
Reconcile ==
    /\ probe' = BuildHealthProbeRulesForPort(svc, idx)
    /\ previous' = probe
    /\ svc' = IF svc.ports[idx].protocol \in {"UDP", "SCTP"} THEN svc
              ELSE TrimmedManifest(svc, idx)
    /\ cloud' = SyncProbe(BuildHealthProbeRulesForPort(svc, idx))
    /\ UNCHANGED <<idx, config>>

ReadProbeConfig ==
    /\ config' = GetHealthProbeConfigProbeIntervalAndNumOfProbe(svc, svc.ports[idx].port)
    /\ UNCHANGED <<svc, idx, probe, previous, cloud>>

Next == Reconcile \/ ReadProbeConfig

Spec == Init /\ [][Next]_hvars

\* The user sets the port's request-path annotation.
EditRequestPath(p) ==
    /\ svc.ports[idx].port \in DOMAIN svc.portAnn
    /\ p # svc.portAnn[svc.ports[idx].port].requestPath
    /\ svc' = [svc EXCEPT !.portAnn[svc.ports[idx].port].requestPath = p]
    /\ UNCHANGED <<idx, probe, previous, config, cloud>>

\* The service's annotations edited between reconciles.
EditSpec == Init /\ [][Next \/ \E p \in PathEdits : EditRequestPath(p)]_hvars

-----------------------------------------------------------------------------
(* Properties.                                                             *)

Results == {"unbuilt", "none", "error", "probe"}

\* Results are well formed, and a built probe's port fits the 16-bit port
\* field of the load-balancer API.
TypeOK ==
    /\ \A j \in DOMAIN svc.ports : svc.ports[j].appProtocol \in {Nil} \cup [word: STRING, padded: BOOLEAN]
    /\ probe.kind \in Results /\ previous.kind \in Results
    /\ config.kind \in {"unread", "error", "config"}
    /\ probe.kind = "probe" =>
          /\ probe.protocol \in {"Tcp", "Http", "Https"}
          /\ probe.port \in 0..65535

\* buildHealthProbeRulesForPort and getHealthProbeConfigProbeIntervalAndNumOfProbe
\* carry two copies of the interval and number-of-probes logic: a probe
\* the first builds has exactly the interval and threshold the second
\* reads, and the only reason the first can fail where the second
\* succeeds is the probe-port annotation, which the second does not read.
BuildAgreesWithConfigHelper ==
    config.kind # "unread" =>
        /\ probe.kind = "probe" =>
              config = [kind |-> "config", interval |-> probe.interval,
                        threshold |-> probe.threshold]
        /\ (probe.kind = "error" /\ config.kind = "config") => probe.at = "probePort"

\* A probe targets the NodePort of a port of the service, the default
\* request port, or a port number the probe-port annotation gives
\* explicitly: never the service port of a named port.
ProbeTargetsDeclaredPort ==
    probe.kind = "probe" =>
        \/ \E j \in DOMAIN svc.ports : probe.port = svc.ports[j].nodePort
        \/ probe.port = DefaultRequestPort
        \/ LET v == PortAnnotation(svc, svc.ports[idx].port, "probePort")
           IN  v # Nil /\ probe.port = v.num

\* Reconciling the same service again yields a probe findProbe matches
\* with the one built before, though the first build rewrote the
\* manifest's AppProtocol: the reconciler does not update a probe that
\* has not changed.
ReconcileIsStable ==
    previous.kind # "unbuilt" =>
        /\ previous.kind = probe.kind
        /\ probe.kind = "probe" => FindProbe(<<previous>>, probe)

\* The comment of buildHealthProbeRulesForPort: the total probe time,
\* interval times number of probes, of a probe it builds is less than 120
\* seconds.
TotalProbeBelow120 ==
    probe.kind = "probe" => ProductBelow(probe.interval, probe.threshold, 120)

\* After a reconcile the load balancer probes what the service asks for:
\* once a probe is built, the probe the load balancer holds is that probe,
\* though findProbe decides whether the old one is kept.
CloudProbeCurrent == probe.kind = "probe" => cloud = probe

\* Deriving a probe reads the service and never modifies it.
BuildLeavesManifestUnchanged == [][svc' = svc]_svc

=============================================================================
