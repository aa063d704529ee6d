---------------------------- MODULE PrestoConfig ----------------------------
(***************************************************************************)
(* What the configuration of a PrestoCluster becomes: the keys and values  *)
(* of its two ConfigMaps and the files its containers mount from them      *)
(* (controllers/desired.go).  This module has no state.                    *)
(*                                                                         *)
(* desired.go builds names and paths by concatenation.  A key of a         *)
(* ConfigMap is the pair <<prefix, key>> here, and a path in a container   *)
(* the pair <<directory, key>>.                                            *)
(***************************************************************************)
CONSTANTS
    Keys,        \* the names of files a user may write in a CR
    InvalidKeys, \* those with characters that no key of a ConfigMap may have
    Values       \* the contents of files a user may write

ConfigAssumption == InvalidKeys \subseteq Keys

ASSUME ConfigAssumption

Roles == {"coordinator", "worker"}

\* map[string]string, nil or not.
Section == UNION {[K -> Values] : K \in SUBSET Keys}

\* coordinatorConfig.etcConfig and workerConfig.etcConfig, catalogConfig and
\* coresite.
Contents == [etc: [Roles -> Section], catalog: Section, coresite: Section]

\* Go's assignments of all entries of f to a map that holds g.
Overlay(f, g) == [x \in DOMAIN f \cup DOMAIN g |->
                    IF x \in DOMAIN f THEN f[x] ELSE g[x]]

-----------------------------------------------------------------------------
(***************************************************************************)
(* The ConfigMaps                                                          *)
(***************************************************************************)
preStopScript == "preStopScript"

PreStop == "pre-stop.sh"

\* Seeded fault: coordinator and workers share the keys of their ConfigMap.
EtcKeyShared(role, k) == <<"", k>>

\* "coordinator." + k, "worker." + k
EtcKey(role, k) == <<role, k>>

PlainKey(k) == <<"", k>>

\* What the entries of one etcConfig become.
EtcData(c, role) ==
    [x \in {EtcKey(role, k) : k \in DOMAIN c.etc[role]} |-> c.etc[role][x[2]]]

PrestoData(c) ==
    Overlay([x \in {PlainKey(PreStop)} |-> preStopScript],
            Overlay(EtcData(c, "worker"), EtcData(c, "coordinator")))

\* Catalog and coresite share one ConfigMap without prefixes.
CatalogData(c) ==
    LET plain(f) == [x \in {PlainKey(k) : k \in DOMAIN f} |-> f[x[2]]]
    IN  Overlay(plain(c.coresite), plain(c.catalog))

Data(volume, c) ==
    IF volume = "prestoConfigMap" THEN PrestoData(c) ELSE CatalogData(c)

-----------------------------------------------------------------------------
(***************************************************************************)
(* The volumeMounts of a container                                         *)
(***************************************************************************)
Mount(volume, dir, k, subPath) ==
    [volume |-> volume, path |-> <<dir, k>>, subPath |-> subPath]

\* "etc" is /usr/lib/presto/etc, "catalog" the directory of that name in it,
\* "tmp" is /tmp.
Mounts(c, role) ==
    {Mount("prestoConfigMap", "etc", k, EtcKey(role, k)) :
        k \in DOMAIN c.etc[role]}
    \cup {Mount("catalogConfigMap", "catalog", k, PlainKey(k)) :
             k \in DOMAIN c.catalog}
    \cup {Mount("catalogConfigMap", "tmp", k, PlainKey(k)) :
             k \in DOMAIN c.coresite}
    \cup (IF role = "worker"
          THEN {Mount("prestoConfigMap", "etc", PreStop, PlainKey(PreStop))}
          ELSE {})

\* Two mounts on one path: the API refuses the Deployment.
MountsCollide(c, role) ==
    \E a, b \in Mounts(c, role) : a /= b /\ a.path = b.path

\* A file is mounted where the directory of the catalog files must be: no
\* container of the Deployment can start.
FileOnDirectory(c, role) ==
    "catalog" \in DOMAIN c.etc[role] /\ DOMAIN c.catalog /= {}

-----------------------------------------------------------------------------
(***************************************************************************)
(* What the user wants to see in a container.  For the files of the        *)
(* catalog Readme.md:72 names the directory /usr/lib/presto/catalog/etc/   *)
(* catalog; "catalog" is the directory the code mounts them in, the one    *)
(* where a Presto server with its etc in /usr/lib/presto looks for them.   *)
(***************************************************************************)
Directories == {"etc", "catalog", "tmp"}

Wanted(c, role, dir) ==
    CASE dir = "etc"     -> c.etc[role]
      [] dir = "catalog" -> c.catalog
      [] dir = "tmp"     -> c.coresite

\* A catalog file whose key is one of coresite, too, gets the other's content.
Overwritten(c, dir, k) ==
    /\ dir = "catalog"
    /\ k \in DOMAIN c.coresite
    /\ c.coresite[k] /= c.catalog[k]
=============================================================================
