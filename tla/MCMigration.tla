---------------------------- MODULE MCMigration ----------------------------
(* A small contract: feedback_outcomes, intentions (rebuilt by ddl/008),       *)
(* temporal_events (rebuilt by a migration), the type registry and its seeds.  *)
EXTENDS Migration, TLC

C(o, sh) == [op |-> "create", obj |-> o, shape |-> sh]
D(o)     == [op |-> "drop", obj |-> o]

MCObjects  == {"fb", "staging", "int", "te", "reg", "seeds", "m20"}
MCContract == {"fb", "int", "te", "reg"}

MCBoot == <<[op |-> "keyspace"], C("te", "old"), C("fb", "new"), C("int", "old"),
            D("int"), C("int", "new"), C("reg", "new"), C("seeds", "new")>>

MCLater == <<C("m20", "new")>>

MCMigs == <<[version |-> 20, stmts |-> <<C("m20", "new")>>],
            [version |-> 30, stmts |-> <<D("te"), C("te", "new")>>],
            [version |-> 36, stmts |-> <<>>]>>

None   == [o \in MCObjects |-> "none"]
NoRows == [o \in MCObjects |-> {}]

(* The tables after the first n statements of the bootstrap. *)
Cut(n) ==
    [o \in MCObjects |->
        LET last == {j \in 1..n : MCBoot[j].op # "keyspace" /\ MCBoot[j].obj = o}
            stmt == MCBoot[CHOOSE j \in last : \A l \in last : l <= j]
        IN  IF last = {} \/ stmt.op = "drop" THEN "none" ELSE stmt.shape]

(* Rows in some of the tables that exist. *)
Filled(sh, tables) ==
    {[o \in MCObjects |-> IF o \in full THEN Rows ELSE {}] :
        full \in SUBSET {o \in tables : sh[o] # "none"}}

Found(sh, tables, ledgers) ==
    {[keyspace |-> TRUE, shape |-> sh, rows |-> rs, ledger |-> lg] :
        rs \in Filled(sh, tables), lg \in ledgers}

Adopted == [Cut(Len(MCBoot)) EXCEPT !["fb"] = "old"]
Modern  == [Cut(Len(MCBoot)) EXCEPT !["te"] = "new"]

(* Nothing at all; a first run cut short, perhaps with the ledger row of a program *)
(* that took it for finished, and used since; an install from before versioning;   *)
(* a recent one, with or without the swap of version 36, that lost rows of the     *)
(* ledger, the table of version 20 or the one that version 30 rebuilt, or whose    *)
(* swap was interrupted before or after the rows were back; one written by a newer *)
(* program.                                                                        *)
MCInstalls ==
    {[keyspace |-> FALSE, shape |-> None, rows |-> NoRows, ledger |-> {}]}
    \cup UNION {Found(Cut(n), {"fb", "int"}, {{}, {19}}) : n \in 1..(Len(MCBoot) - 2)}
    \cup Found(Adopted, {"fb", "int", "te"}, {{}, {19}, {19, 20}})
    \cup Found([Modern EXCEPT !["fb"] = "old"], {"fb", "te"}, {{19, 20, 30}, {19, 30}, {30, 36}})
    \cup Found([Modern EXCEPT !["m20"] = "new"], {"fb", "int", "te"}, {{19, 20, 36}, {19, 20, 30}})
    \cup Found([Modern EXCEPT !["staging"] = "new"], {"fb", "staging"}, {{19, 30}})
    \cup Found([Modern EXCEPT !["staging"] = "new", !["fb"] = "none"], {"int", "staging"}, {{19, 20, 30}})
    \cup Found([Modern EXCEPT !["te"] = "none"], {"fb"}, {{19, 30}, {19, 20, 30, 36}})
    \cup Found(Modern, {"fb"}, {{19, 20, 30, 36, 99}})
=============================================================================
