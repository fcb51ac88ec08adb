-------------------------- MODULE MCReferenceGraph --------------------------
(* Three functions around the producer and one constant with an            *)
(* initialiser; every pair of mentions in each body, cycles included.      *)
EXTENDS ReferenceGraph

Names == {"start", "helper", "init", "engine"}
AllTokens == Names \cup {"cache", "library"}
InitializerOf == [t \in AllTokens |-> IF t = "cache" THEN "init" ELSE "_init_" \o t]
Pairs(S) == {<<>>} \cup {<<t>> : t \in S} \cup {<<t, u>> : t, u \in S}
AllGraphs ==
  {[n \in Names |-> CASE n = "start" -> s [] n = "helper" -> h [] n = "init" -> i
                      [] n = "engine" -> <<"engine">>] :
     s \in Pairs({"helper", "cache", "engine", "start"}) \cup {<<"helper", "library", "helper">>},
     h \in Pairs({"helper", "cache", "engine", "library", "start"}),
     i \in Pairs({"helper", "engine"})}
MCLimits == {{}, {"helper"}}
=============================================================================
