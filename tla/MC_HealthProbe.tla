---------------------------- MODULE MC_HealthProbe ----------------------------
(***************************************************************************)
(* Services with an HTTP port (80, NodePort 30080) and a UDP metrics port  *)
(* (8080, NodePort 30081), and annotations chosen so that every branch of  *)
(* buildHealthProbeRulesForPort is taken: each protocol source, the basic  *)
(* and standard SKU, named, numeric, unknown and out-of-range probe ports, *)
(* port and global paths, values below each validator's minimum, at the   *)
(* 120-second boundary, and large enough to wrap int32.                    *)
(***************************************************************************)
EXTENDS HealthProbe, TLC

Tok(w) == [word |-> w, padded |-> FALSE]
Padded(w) == [word |-> w, padded |-> TRUE]

ProtocolChoices ==
    { [p |-> Nil, a |-> Nil, g |-> Nil],
      [p |-> Tok("tcp"), a |-> Nil, g |-> Nil],
      [p |-> Tok("https"), a |-> Nil, g |-> Nil],
      [p |-> Padded(""), a |-> Padded("http"), g |-> Nil],
      [p |-> Nil, a |-> Padded("http"), g |-> Nil],
      [p |-> Nil, a |-> Nil, g |-> Tok("udp")] }

ProbePortChoices ==
    { Nil, [name |-> "metrics", num |-> Nil], [name |-> "8080", num |-> 8080],
      [name |-> "9000", num |-> 9000], [name |-> "70000", num |-> 70000],
      [name |-> "abc", num |-> Nil] }

PathChoices ==
    { [p |-> Nil, g |-> Nil], [p |-> "/healthz", g |-> Nil], [p |-> Nil, g |-> "/ready"] }

NumChoices ==
    { [p |-> Nil, g |-> Nil], [p |-> 1, g |-> Nil], [p |-> 5, g |-> Nil],
      [p |-> 65536, g |-> Nil], [p |-> Nil, g |-> Malformed] }

IntervalChoices ==
    { [p |-> Nil, g |-> Nil], [p |-> 4, g |-> Nil], [p |-> 24, g |-> Nil],
      [p |-> 65536, g |-> Nil], [p |-> Nil, g |-> 10], [p |-> Nil, g |-> 2147483647] }

Manifest(pr, std, pp, pa, nu, iv) ==
    [standard |-> std,
     ports |-> << [name |-> "http", protocol |-> "TCP", port |-> 80, nodePort |-> 30080,
                   appProtocol |-> pr.a],
                  [name |-> "metrics", protocol |-> "UDP", port |-> 8080, nodePort |-> 30081,
                   appProtocol |-> Nil] >>,
     portAnn |-> (80 :> [protocol |-> pr.p, probePort |-> pp, requestPath |-> pa.p,
                         numOfProbe |-> nu.p, probeInterval |-> iv.p]),
     global |-> [protocol |-> pr.g, requestPath |-> pa.g, numOfProbe |-> nu.g,
                 probeInterval |-> iv.g]]

\* Request paths and their case-folded forms.
MCPathFold ==
    ("/" :> "/") @@ ("/healthz" :> "/healthz") @@ ("/Healthz" :> "/healthz")
        @@ ("/ready" :> "/ready")

MCManifests ==
    { Manifest(pr, std, pp, pa, nu, iv) :
        pr \in ProtocolChoices, std \in BOOLEAN, pp \in ProbePortChoices,
        pa \in PathChoices, nu \in NumChoices, iv \in IntervalChoices }

=============================================================================
