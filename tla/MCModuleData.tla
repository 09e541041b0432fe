----------------------------- MODULE MCModuleData -----------------------------
(* Two modules: the versions of one move a resource between a table and a data *)
(* set, change its columns and drop it; the other has one version.             *)
EXTENDS ModuleData, TLC

CONSTANTS m1, m2, r1, r2, v1, s1, s2, k1, k2, th1

Tab(s, p) == [mode |-> "custom", schema |-> s, policy |-> p]
Managed == [mode |-> "managed", schema |-> NoSchema, policy |-> "delete"]
Of(res, src, keep, seed, bad) ==
  [res |-> (r1 :> res[1] @@ r2 :> res[2]), view |-> (v1 :> [src |-> src, keep |-> keep]),
   seed |-> (r1 :> seed[1] @@ r2 :> seed[2]), bad |-> bad]

First == Of(<<Tab(s1, "drop"), Managed>>, {r1}, FALSE, <<"if_empty", "none">>, FALSE)
Moved == Of(<<Managed, Tab(s1, "delete")>>, {r2}, TRUE, <<"none", "replace">>, FALSE)
Changed == Of(<<Tab(s2, "keep"), Undeclared>>, {}, FALSE, <<"none", "none">>, FALSE)
Broken == [First EXCEPT !.bad = TRUE]
Other == Of(<<Tab(s1, "drop"), Undeclared>>, {}, FALSE, <<"if_empty", "none">>, FALSE)

Writes == {[kind |-> "none", keys |-> {}], [kind |-> "replace", keys |-> {}],
           [kind |-> "add", keys |-> {k2}], [kind |-> "upsert", keys |-> {k1, k2}],
           [kind |-> "delete", keys |-> {k1}]}

Versions == m1 :> {First, Moved, Changed, Broken} @@ m2 :> {Other}
Own == [x \in Module \X Res |-> x]
Names == Module \X Res
Shared == [x \in Module \X Res |-> IF x = <<m1, r2>> THEN <<m2, r1>> ELSE x]
===============================================================================
