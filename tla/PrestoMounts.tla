---------------------------- MODULE PrestoMounts ----------------------------
(***************************************************************************)
(* PrestoOperator with real contents: the configuration of a CR decides    *)
(* which objects the API refuses, and what the containers of its           *)
(* Deployments see depends on the ConfigMaps that exist beside them.       *)
(***************************************************************************)
EXTENDS PrestoOperator, PrestoConfig

Role(r) == IF r = "workerDeployment" THEN "worker" ELSE "coordinator"

\* A key of a ConfigMap may be invalid; the paths of a container may collide.
RefusedContent(r, c) ==
    CASE r = "prestoConfigMap" ->
            \E role \in Roles : DOMAIN c.etc[role] \cap InvalidKeys /= {}
      [] r = "catalogConfigMap" ->
            (DOMAIN c.catalog \cup DOMAIN c.coresite) \cap InvalidKeys /= {}
      [] r \in Deployments -> MountsCollide(c, Role(r))
      [] OTHER -> FALSE

MountsAssumption ==
    /\ Configs \subseteq Contents
    /\ Refused = {p \in Resources \X Configs : RefusedContent(p[1], p[2])}
    /\ Children = Resources

ASSUME MountsAssumption

\* A mount shows what the ConfigMap holds under its subPath, or nothing.
Shown(mount) ==
    LET map == child[mount.volume]
    IN  IF map = Absent \/ mount.subPath \notin DOMAIN Data(mount.volume, map.config)
        THEN Absent
        ELSE Data(mount.volume, map.config)[mount.subPath]

\* What the containers of Deployment r see at a path, if they start.
Visible(r, path) ==
    LET c == child[r].config
    IN  IF FileOnDirectory(c, Role(r)) THEN {}
        ELSE {Shown(mount) : mount \in {n \in Mounts(c, Role(r)) : n.path = path}}

(***************************************************************************)
(* FilesAsWanted: as long as nobody changes the CR or its children, every  *)
(* Deployment that is there shows its containers every file of the CR and  *)
(* the pre-stop script, each with the content the CR gives it, although    *)
(* coordinator, workers, catalog and coresite share two ConfigMaps, these  *)
(* are built by other requests, of maybe other passes and managers, than   *)
(* the Deployment, and the API refuses some objects.  Excepted are a       *)
(* catalog file that shares its key with coresite, and containers that     *)
(* cannot start: CatalogMounted is about these.                            *)
(***************************************************************************)
FilesAsWanted ==
    SpecHolds =>
        \A r \in Deployments :
            /\ child[r] /= Absent
            /\ ~FileOnDirectory(cluster.config, Role(r))
            => /\ \A dir \in Directories :
                     LET wanted == Wanted(cluster.config, Role(r), dir)
                     IN  \A k \in DOMAIN wanted :
                            Overwritten(cluster.config, dir, k)
                               \/ Visible(r, <<dir, k>>) = {wanted[k]}
               /\ r = "workerDeployment" =>
                     Visible(r, <<"etc", PreStop>>) = {preStopScript}

(***************************************************************************)
(* CatalogMounted: "All the configs under the spec.catalogConfig will be   *)
(* mounted ..." (Readme.md), so if nobody changes the CR or its children,  *)
(* each Deployment shows every catalog file with the content the CR gives  *)
(* it.  This does not hold: the ConfigMap of the catalog holds coresite    *)
(* under the same keys, and a file "catalog" of etcConfig takes the place  *)
(* of the directory.  The directory is the one of the code, catalog in     *)
(* /usr/lib/presto/etc; Readme.md names another, /usr/lib/presto/catalog/  *)
(* etc/catalog, in which nothing is ever mounted.                          *)
(***************************************************************************)
CatalogMounted ==
    SpecHolds =>
        \A r \in Deployments :
            child[r] /= Absent =>
                \A k \in DOMAIN cluster.config.catalog :
                    Visible(r, <<"catalog", k>>) = {cluster.config.catalog[k]}
=============================================================================
