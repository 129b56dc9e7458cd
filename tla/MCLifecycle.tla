---------------------------- MODULE MCLifecycle -----------------------------
(* Every transport, by flag or by file, and settings run refuses. *)
EXTENDS Lifecycle

MCValue == {"", "@", "%", "M", "N", "no", "yes", "stdio", "http", "both", "pipe", "addr", "stderr",
            "stdout", "file", "10m"}

Bools == {"strict", "debug"}
MCZero == [f \in Fields |-> IF f \in Bools THEN "no" ELSE ""]

MCDefault ==
  [f \in Fields |->
     CASE f = "delimiter" -> "@"
       [] f = "transport" -> "stdio"
       [] f = "listen" -> "addr"
       [] f = "log_path" -> "stderr"
       [] f \in {"low", "medium", "high"} -> "10m"
       [] OTHER -> MCZero[f]]

Over(base, f, v) == [base EXCEPT ![f] = v]
Line(f, v) == Over(Over(MCZero, "makefiles", "M"), f, v)

MCCommandLines ==
  {MCZero, Line("transport", "http"), Line("transport", "both"),
   Line("strict", "yes"), Line("strict", "no"), Line("log_path", "file"), Line("log_path", "stdout")}

MCConfigFiles ==
  {MCZero, Over(Over(MCZero, "makefiles", "N"), "transport", "both"), Over(MCZero, "strict", "yes"),
   Over(MCZero, "transport", "pipe"), Over(MCZero, "delimiter", "%")}
=============================================================================
