--------------------------- MODULE MCPrestoMounts ---------------------------
(***************************************************************************)
(* Contents of a CR for TLC's run of PrestoMounts.                         *)
(***************************************************************************)
EXTENDS PrestoMounts, TLC

CONSTANTS m1, m2, v1, v2

OneManager    == {m1}
TwoManagers   == {m1, m2}
AllChildren   == Resources
OneOrTwo      == {1, 2}

SomeKeys   == {"config.properties", "hive.properties", "core-site.xml",
               "bad key", PreStop, "catalog"}
BadKeys    == {"bad key"}
SomeValues == {v1, v2}

None == <<>>

Content(coordinatorEtc, workerEtc, catalogConfig, coresite) ==
    [etc |-> ("coordinator" :> coordinatorEtc) @@ ("worker" :> workerEtc),
     catalog |-> catalogConfig, coresite |-> coresite]

\* Coordinator and workers have a file of the same name.
Plain      == Content("config.properties" :> v1, "config.properties" :> v2,
                      "hive.properties" :> v1, "core-site.xml" :> v2)
\* Catalog and coresite have a key in common, with different contents or not.
Overwrites == Content(None, None, "hive.properties" :> v1,
                      "hive.properties" :> v2)
Agrees     == Content(None, None, "hive.properties" :> v1,
                      "hive.properties" :> v1)
\* The API refuses the worker Deployment, or a ConfigMap.
Collides   == Content(PreStop :> v1, PreStop :> v1, None, None)
BadEtc     == Content(None, "bad key" :> v1, None, None)
BadCatalog == Content(None, None, "bad key" :> v1, None)
\* The containers of the coordinator cannot start.
Blocks     == Content("catalog" :> v1, None, "hive.properties" :> v1, None)

SomeContents == {Plain, Overwrites, Agrees, Collides, BadEtc, BadCatalog,
                 Blocks}

\* A CR whose catalog and coresite have no key in common, and one whose have.
CatalogContents == {Plain, Overwrites}

RefusedAsAssumed ==
    {p \in Resources \X Configs : RefusedContent(p[1], p[2])}
=============================================================================
