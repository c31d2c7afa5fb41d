------------------------------- MODULE MCFleet -------------------------------
(* A finite instance of the fleet for TLC.                                 *)
EXTENDS Fleet

CONSTANTS a, b, t1, t2, t3, server, client, f1, f2, s1, m1, m2

MCAgents   == {a, b}
MCTasks    == {t1, t2, t3}
MCFiled    == {t1, t2}
MCFiles    == {f1, f2}
MCScopes   == {server, client}
MCFilesOf  == [x \in MCScopes |-> IF x = server THEN {f1} ELSE {f2}]
MCOverlap  == {<<x, y>> \in MCScopes \X MCScopes : MCFilesOf[x] \cap MCFilesOf[y] # {}}
MCDeclared == [t \in MCTasks |-> IF t = t1 THEN server ELSE NoScope]
MCFence    == [x \in MCAgents |-> IF x = a THEN {server, client} ELSE {client}]
MCRoles    == {"backend"}
MCRole     == [x \in MCAgents |-> "backend"]
MCOwners   == {b}
MCMembers  == {m1, m2}
MCSuggestions == {s1}
=============================================================================
