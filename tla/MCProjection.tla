----------------------------- MODULE MCProjection -----------------------------
(* Five parts in three groups over eleven facts, some of which two parts offer, *)
(* as the context mirrors references; a tier the facts together exceed.         *)
EXTENDS Projection

MCDeclared == <<"profile", "packages", "hotspots", "artifacts", "routes">>
MCGroupOf  == [p \in ToSet(MCDeclared) |->
                 CASE p \in {"profile", "artifacts"} -> "architecture"
                   [] p \in {"packages", "hotspots"} -> "components"
                   [] OTHER -> "workflow"]
MCPinned   == {"profile"}
MCCap      == [p \in ToSet(MCDeclared) |-> IF p = "profile" THEN 1000 ELSE 3]
MCCoreCap  == [p \in ToSet(MCDeclared) |-> IF p = "profile" THEN 1000 ELSE 2]
MCCost     == <<3, 1, 2, 5, 1, 4, 2, 7, 1, 6, 2>>

MCOffers ==
  [profile   : {<<1>>, <<>>},
   packages  : {<<>>, <<2, 3, 4, 5>>, <<4, 6>>},
   hotspots  : {<<5, 3, 7>>, <<6, 2>>},
   artifacts : {<<>>, <<8, 9>>, <<9>>, <<10>>},
   routes    : {<<11, 7>>, <<>>, <<4>>}]
MCContexts ==
  [offers : MCOffers, repository : BOOLEAN,
   typeParts : {<<>>, <<"routes", "packages">>}]
MCShares == {[g \in {"architecture", "components", "workflow"} |->
                IF g = "architecture" THEN 20 ELSE 40]}
MCQuestions ==
  [parts : {<<>>, <<"artifacts">>},
   policy : {<<"packages", "artifacts", "routes">>, <<"hotspots">>},
   supporting : {{}, {"hotspots"}},
   recovery : {<<>>, <<"routes">>},
   allocated : BOOLEAN, shares : MCShares,
   reserved : {1, 3, 12}, coreReserved : {0, 1}]
=============================================================================
