------------------------------ MODULE MCDeployment -------------------------------
(***************************************************************************)
(* Values of the constants of Deployment for TLC.                          *)
(***************************************************************************)
EXTENDS Deployment

CONSTANTS route, cors, extra, first, listed, limited, unlisted, changed, shared, unknown

Entry(key, name) == [key |-> key, name |-> name]
Ones == [n \in Name |-> 1]

\* The module that is deployed.
Deployed ==
  [kind |-> [n \in Name |-> CASE n = route -> "api_routes"
                              [] n = cors  -> "cors_preflights"
                              [] OTHER     -> "undeclared"],
   keys |-> [c \in Collection |-> CASE c = "api_routes"      -> {route}
                                    [] c = "cors_preflights" -> {cors}
                                    [] OTHER                 -> {extra}],
   maps |-> {route, cors}, entries |-> {}, value |-> Ones]

\* One setting of it changed and a single block added; a block over a map of its own
\* instead; the block not listed, and changed; a key that both tables have; an entry
\* without its block.
MCContent ==
  [t \in Tree |->
     CASE t = first    -> Deployed
       [] t = listed   -> [Deployed EXCEPT !.kind[extra] = "single",
                                            !.entries = {Entry(extra, extra)}, !.value[cors] = 2]
       [] t = limited  -> [Deployed EXCEPT !.kind[extra] = "limits", !.maps = @ \cup {extra},
                                            !.value[extra] = 2]
       [] t = unlisted -> [Deployed EXCEPT !.kind[extra] = "single"]
       [] t = changed  -> [Deployed EXCEPT !.kind[extra] = "single", !.value[extra] = 2]
       [] t = shared   -> [Deployed EXCEPT !.keys["cors_preflights"] = {cors, route}]
       [] t = unknown  -> [Deployed EXCEPT !.entries = {Entry(extra, extra)}]]
================================================================================
