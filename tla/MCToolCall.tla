----------------------------- MODULE MCToolCall -----------------------------
(* A recipe with parameters of each type, two of which come to the same    *)
(* variable of make.  Numbers are in quarters; float64 holds halves with 2  *)
(* bits of precision, and int64 has 4 bits.                                *)
EXTENDS ToolCall, TLC

CONSTANTS known, unknown

MCParams ==
  << [name |-> "out-dir", type |-> "string"], [name |-> "count", type |-> "int"],
     [name |-> "force", type |-> "bool"], [name |-> "out_dir", type |-> "string"] >>

MCVariable ==
  "out-dir" :> "OUT_DIR" @@ "out_dir" :> "OUT_DIR" @@ "count" :> "COUNT" @@ "force" :> "FORCE"

(* In quarters: integers in and out of range, 1 1/2, which float64 holds,   *)
(* and 4 1/2 and 1/4, which it rounds to an integer.                        *)
MCNumbers == {-48, -32, 20, 32, 48, 6, 18, 1}

MCArgumentMaps ==
  { <<>>,
    "out-dir" :> <<"text", "a">> @@ "count" :> <<"number", 12>> @@ "force" :> <<"truth", TRUE>>,
    "out-dir" :> <<"text", "a">> @@ "out_dir" :> <<"text", "b">>,
    "out-dir" :> <<"number", 4>>,
    "other" :> <<"text", "a">> }
  \cup {"count" :> <<"number", n>> : n \in MCNumbers}

MCGoodArgumentMaps == {<<>>}
=============================================================================
