----------------------------- MODULE MCPlatform -----------------------------
(* An instance of Platform for TLC.  MongoApi has two keys that differ in   *)
(* case, two fields that may hold an array or a document, and one call of   *)
(* each kind, with and without collation; Service has two NFs that write to *)
(* one file, by the two ways to name it, and share the metrics.             *)
EXTENDS Platform

MCfolded == [k |-> "k", K |-> "k"]
MCKeys == DOMAIN MCfolded
MCFields == {"f", "g"}
MCValues == {"v", "list", "shorter", "doc"}
MCnested == [doc |-> [f |-> "v", g |-> None]]
MCpulled == [list |-> "shorter", shorter |-> "shorter"]

Put(op, coll, args) == [op |-> op, coll |-> coll, args |-> args]
Arg1(k, f, g) == [key |-> k, data |-> [x \in MCFields |-> IF x = "f" THEN f ELSE g]]

MCRequests ==
    {Put("PutOne", FALSE, <<Arg1("k", "v", None)>>),
     Put("PutOne", TRUE, <<Arg1("K", "list", "doc")>>),
     Put("PutOneNotUpdate", FALSE, <<Arg1("k", "list", None)>>),
     Put("PutMany", TRUE, <<Arg1("k", "v", None), Arg1("K", None, "v")>>),
     Put("PutMany", FALSE, <<Arg1("K", None, "v"), Arg1("k", "list", "v")>>),
     Put("MergePatch", FALSE, <<Arg1("k", "list", None)>>),
     Put("MergePatch", TRUE, <<Arg1("K", None, "list")>>),
     Put("JSONPatch", TRUE, <<Arg1("k", Null, "v")>>),
     Put("JSONPatchExtend", FALSE, <<Arg1("K", "list", None)>>)}

MCNF == {"amf", "smf"}
MCPath(nf) == IF nf = "amf" THEN [dir |-> "", name |-> "nf.log"]
              ELSE [dir |-> "./log/", name |-> "nf.log"]
MCGroups(nf) == IF nf = "amf" THEN {"business", "sbi"} ELSE {"sbi", "nas"}
MCScheme(nf) == IF nf = "amf" THEN "https" ELSE "unknown"
MCLoad(nf) == IF nf = "amf" THEN {<<"panic", "user">>, <<"latePanic", "noUser">>}
              ELSE {<<"answer", "user">>, <<"brokenPipe", "user">>}
=============================================================================
