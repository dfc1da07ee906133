------------------------ MODULE MCConfigMigration ------------------------
(* Files a user may have written, for TLC. *)
EXTENDS ConfigMigration, TLC

At(k, quote, n) == k :> [val |-> k, quote |-> quote, slashes |-> n]
Nothing == [k \in {} |-> Absent]

\* settings every version keeps in one place, with a key nobody knows
Kept == {Nothing, At("policy", "plain", 0) @@ At("trusted-networks", "double", 0)
                    @@ At("tcp.family-mismatch", "plain", 0) @@ At("unknown", "double", 1)}
Paths == {Nothing} \cup {At("log.file.path", q, 1) : q \in {"plain", "double"}}
Detects == {Nothing, At("tcp.detect-timeout", "plain", 0)}
             \cup {At("detect-timeout", q, 0) : q \in {"plain", "int"}}
Limits == {Nothing, At("max-sessions", "int", 0), At("max-sessions", "plain", 0),
           At("max-sessions", "int", 0) @@ At("udp.max-sessions", "int", 0)}
Modes == {Nothing, At("header-mode", "plain", 0) @@ At("udp-output", "plain", 0),
          At("header-mode", "plain", 0) @@ At("udp-output", "int", 0)}

\* no version, an old one, the current one, a newer one
SomeFiles ==
    {[whole |-> TRUE, version |-> v,
      at |-> a @@ b @@ c @@ d @@ e @@ [k \in Keys |-> Absent]] :
        v \in {NoVersion, 1, 3, 4}, a \in Kept, b \in Paths, c \in Detects,
        d \in Limits, e \in Modes}

\* one of version 1: a bare number, which YAML takes for a string field, and a path
NumberAndPath ==
    {[whole |-> TRUE, version |-> 1,
      at |-> At("detect-timeout", "int", 0) @@ At("log.file.path", "plain", 1)
               @@ [k \in Keys |-> Absent]]}
==========================================================================
