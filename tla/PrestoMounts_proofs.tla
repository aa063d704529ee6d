------------------------ MODULE PrestoMounts_proofs ------------------------
(***************************************************************************)
(* Theorems about the files that the containers of a PrestoCluster see.    *)
(***************************************************************************)
EXTENDS PrestoConverged_proofs, PrestoMounts

USE ResourcesAssumption, OperatorAssumption, ConfigAssumption, MountsAssumption

-----------------------------------------------------------------------------
(***************************************************************************)
(* The ConfigMaps and the mounts of one configuration fit                  *)
(***************************************************************************)
\* A ConfigMap key keeps the coordinator's, the workers' and the generated
\* file apart.
LEMMA PrestoDataHas ==
    ASSUME NEW c \in Contents
    PROVE  /\ \A role \in Roles : \A k \in DOMAIN c.etc[role] :
                 /\ EtcKey(role, k) \in DOMAIN PrestoData(c)
                 /\ PrestoData(c)[EtcKey(role, k)] = c.etc[role][k]
           /\ PlainKey(PreStop) \in DOMAIN PrestoData(c)
           /\ PrestoData(c)[PlainKey(PreStop)] = preStopScript
<1> DEFINE script == [x \in {PlainKey(PreStop)} |-> preStopScript]
           D(role) == EtcData(c, role)
           both == Overlay(D("worker"), D("coordinator"))
<1>1. \A role \in Roles :
         /\ DOMAIN D(role) = {EtcKey(role, k) : k \in DOMAIN c.etc[role]}
         /\ \A k \in DOMAIN c.etc[role] : D(role)[EtcKey(role, k)] = c.etc[role][k]
  BY DEF EtcData, EtcKey
<1>2. DOMAIN both = DOMAIN D("worker") \cup DOMAIN D("coordinator")
      /\ \A x \in DOMAIN both :
            both[x] = IF x \in DOMAIN D("worker") THEN D("worker")[x]
                                                  ELSE D("coordinator")[x]
  BY DEF Overlay
<1>3. DOMAIN PrestoData(c) = {PlainKey(PreStop)} \cup DOMAIN both
      /\ \A x \in DOMAIN PrestoData(c) :
            PrestoData(c)[x] = IF x = PlainKey(PreStop) THEN preStopScript
                                                        ELSE both[x]
  BY DEF PrestoData, Overlay
<1>4. \A k, l : /\ EtcKey("worker", k) /= EtcKey("coordinator", l)
                /\ EtcKey("worker", k) /= PlainKey(PreStop)
                /\ EtcKey("coordinator", k) /= PlainKey(PreStop)
  BY DEF EtcKey, PlainKey
<1> HIDE DEF D, both
<1>5. ASSUME NEW k \in DOMAIN c.etc["worker"]
      PROVE  /\ EtcKey("worker", k) \in DOMAIN PrestoData(c)
             /\ PrestoData(c)[EtcKey("worker", k)] = c.etc["worker"][k]
  BY <1>1, <1>2, <1>3, <1>4, <1>5 DEF Roles
<1>6. ASSUME NEW k \in DOMAIN c.etc["coordinator"]
      PROVE  /\ EtcKey("coordinator", k) \in DOMAIN PrestoData(c)
             /\ PrestoData(c)[EtcKey("coordinator", k)] = c.etc["coordinator"][k]
  BY <1>1, <1>2, <1>3, <1>4, <1>6 DEF Roles
<1> QED BY <1>3, <1>5, <1>6 DEF Roles

\* Every file of the catalog and of coresite has its key; coresite's has its
\* content, the catalog's unless it is overwritten.
LEMMA CatalogDataHas ==
    ASSUME NEW c \in Contents
    PROVE  /\ \A k \in DOMAIN c.coresite :
                 /\ PlainKey(k) \in DOMAIN CatalogData(c)
                 /\ CatalogData(c)[PlainKey(k)] = c.coresite[k]
           /\ \A k \in DOMAIN c.catalog :
                 /\ PlainKey(k) \in DOMAIN CatalogData(c)
                 /\ ~Overwritten(c, "catalog", k) =>
                       CatalogData(c)[PlainKey(k)] = c.catalog[k]
<1> DEFINE plain(f) == [x \in {PlainKey(k) : k \in DOMAIN f} |-> f[x[2]]]
<1>1. \A f : /\ DOMAIN plain(f) = {PlainKey(k) : k \in DOMAIN f}
             /\ \A k \in DOMAIN f : plain(f)[PlainKey(k)] = f[k]
  BY DEF PlainKey
<1>2. \A k, l : PlainKey(k) = PlainKey(l) => k = l
  BY DEF PlainKey
<1>3. CatalogData(c) = Overlay(plain(c.coresite), plain(c.catalog))
  BY DEF CatalogData
<1> HIDE DEF plain
<1>4. /\ DOMAIN CatalogData(c)
            = DOMAIN plain(c.coresite) \cup DOMAIN plain(c.catalog)
      /\ \A x \in DOMAIN CatalogData(c) :
            CatalogData(c)[x] = IF x \in DOMAIN plain(c.coresite)
                                THEN plain(c.coresite)[x] ELSE plain(c.catalog)[x]
  BY <1>3 DEF Overlay
<1>5. ASSUME NEW k \in DOMAIN c.coresite
      PROVE  /\ PlainKey(k) \in DOMAIN CatalogData(c)
             /\ CatalogData(c)[PlainKey(k)] = c.coresite[k]
  <2>1. PlainKey(k) \in DOMAIN plain(c.coresite)
        /\ plain(c.coresite)[PlainKey(k)] = c.coresite[k]
    BY <1>1
  <2> QED BY <1>4, <2>1
<1>6. ASSUME NEW k \in DOMAIN c.catalog
      PROVE  /\ PlainKey(k) \in DOMAIN CatalogData(c)
             /\ ~Overwritten(c, "catalog", k) =>
                   CatalogData(c)[PlainKey(k)] = c.catalog[k]
  <2>1. PlainKey(k) \in DOMAIN plain(c.catalog)
        /\ plain(c.catalog)[PlainKey(k)] = c.catalog[k]
    BY <1>1
  <2>2. CASE k \in DOMAIN c.coresite
    BY <1>5, <2>2 DEF Overwritten
  <2>3. CASE k \notin DOMAIN c.coresite
    <3>1. PlainKey(k) \notin DOMAIN plain(c.coresite)
      <4>1. SUFFICES ASSUME PlainKey(k) \in DOMAIN plain(c.coresite)
                     PROVE  FALSE
        OBVIOUS
      <4>2. DOMAIN plain(c.coresite) = {PlainKey(l) : l \in DOMAIN c.coresite}
        BY <1>1
      <4>3. PICK l \in DOMAIN c.coresite : PlainKey(k) = PlainKey(l)
        BY <4>1, <4>2
      <4> QED BY <1>2, <2>3, <4>3
    <3> QED BY <1>4, <2>1, <3>1
  <2> QED BY <2>2, <2>3
<1> QED BY <1>5, <1>6

(***************************************************************************)
(* WhatMountsShow: if no two mounts of a container collide, a mount of a   *)
(* directory shows the file of that name that the CR wants there, unless   *)
(* it is overwritten, and the pre-stop script is what is mounted under its *)
(* name in a worker.                                                       *)
(***************************************************************************)
LEMMA WhatMountsShow ==
    ASSUME NEW c \in Contents, NEW role \in Roles, ~MountsCollide(c, role),
           NEW n \in Mounts(c, role)
    PROVE  /\ n.volume \in ConfigMaps
           /\ n.subPath \in DOMAIN Data(n.volume, c)
           /\ \A dir \in Directories : \A k \in DOMAIN Wanted(c, role, dir) :
                 n.path = <<dir, k>> /\ ~Overwritten(c, dir, k)
                    => Data(n.volume, c)[n.subPath] = Wanted(c, role, dir)[k]
           /\ role = "worker" /\ n.path = <<"etc", PreStop>>
                 => Data(n.volume, c)[n.subPath] = preStopScript
<1> DEFINE script == Mount("prestoConfigMap", "etc", PreStop, PlainKey(PreStop))
<1>0. role = "worker" => script \in Mounts(c, role)
  BY DEF Mounts
<1>1. ASSUME NEW l \in DOMAIN c.etc[role],
             n = Mount("prestoConfigMap", "etc", l, EtcKey(role, l))
      PROVE  /\ n.volume \in ConfigMaps
             /\ n.subPath \in DOMAIN Data(n.volume, c)
             /\ \A dir \in Directories : \A k \in DOMAIN Wanted(c, role, dir) :
                   n.path = <<dir, k>> /\ ~Overwritten(c, dir, k)
                      => Data(n.volume, c)[n.subPath] = Wanted(c, role, dir)[k]
             /\ ~(role = "worker" /\ n.path = <<"etc", PreStop>>)
  <2>1. n.volume = "prestoConfigMap" /\ n.path = <<"etc", l>>
        /\ n.subPath = EtcKey(role, l)
    BY <1>1 DEF Mount
  <2>2. /\ n.subPath \in DOMAIN Data(n.volume, c)
        /\ Data(n.volume, c)[n.subPath] = c.etc[role][l]
    BY <2>1, PrestoDataHas DEF Data
  <2>3. ~(role = "worker" /\ n.path = <<"etc", PreStop>>)
    <3>1. script.path = <<"etc", PreStop>> /\ script.subPath = PlainKey(PreStop)
      BY DEF Mount
    <3>2. EtcKey(role, l) /= PlainKey(PreStop)
      BY DEF EtcKey, PlainKey, Roles
    <3> QED BY <1>0, <2>1, <3>1, <3>2 DEF MountsCollide
  <2>4. ASSUME NEW dir \in Directories, NEW k \in DOMAIN Wanted(c, role, dir),
               n.path = <<dir, k>>
        PROVE  Data(n.volume, c)[n.subPath] = Wanted(c, role, dir)[k]
    <3>1. dir = "etc" /\ k = l
      BY <2>1, <2>4
    <3> QED BY <2>2, <3>1 DEF Wanted
  <2> QED BY <2>1, <2>2, <2>3, <2>4 DEF ConfigMaps
<1>2. ASSUME NEW l \in DOMAIN c.catalog,
             n = Mount("catalogConfigMap", "catalog", l, PlainKey(l))
      PROVE  /\ n.volume \in ConfigMaps
             /\ n.subPath \in DOMAIN Data(n.volume, c)
             /\ \A dir \in Directories : \A k \in DOMAIN Wanted(c, role, dir) :
                   n.path = <<dir, k>> /\ ~Overwritten(c, dir, k)
                      => Data(n.volume, c)[n.subPath] = Wanted(c, role, dir)[k]
             /\ n.path /= <<"etc", PreStop>>
  <2>1. n.volume = "catalogConfigMap" /\ n.path = <<"catalog", l>>
        /\ n.subPath = PlainKey(l)
    BY <1>2 DEF Mount
  <2>2. /\ n.subPath \in DOMAIN Data(n.volume, c)
        /\ ~Overwritten(c, "catalog", l) =>
              Data(n.volume, c)[n.subPath] = c.catalog[l]
    BY <2>1, CatalogDataHas DEF Data
  <2>4. ASSUME NEW dir \in Directories, NEW k \in DOMAIN Wanted(c, role, dir),
               n.path = <<dir, k>>, ~Overwritten(c, dir, k)
        PROVE  Data(n.volume, c)[n.subPath] = Wanted(c, role, dir)[k]
    <3>1. dir = "catalog" /\ k = l
      BY <2>1, <2>4
    <3> QED BY <2>2, <2>4, <3>1 DEF Wanted
  <2> QED BY <2>1, <2>2, <2>4 DEF ConfigMaps
<1>3. ASSUME NEW l \in DOMAIN c.coresite,
             n = Mount("catalogConfigMap", "tmp", l, PlainKey(l))
      PROVE  /\ n.volume \in ConfigMaps
             /\ n.subPath \in DOMAIN Data(n.volume, c)
             /\ \A dir \in Directories : \A k \in DOMAIN Wanted(c, role, dir) :
                   n.path = <<dir, k>> /\ ~Overwritten(c, dir, k)
                      => Data(n.volume, c)[n.subPath] = Wanted(c, role, dir)[k]
             /\ n.path /= <<"etc", PreStop>>
  <2>1. n.volume = "catalogConfigMap" /\ n.path = <<"tmp", l>>
        /\ n.subPath = PlainKey(l)
    BY <1>3 DEF Mount
  <2>2. /\ n.subPath \in DOMAIN Data(n.volume, c)
        /\ Data(n.volume, c)[n.subPath] = c.coresite[l]
    BY <2>1, CatalogDataHas DEF Data
  <2>4. ASSUME NEW dir \in Directories, NEW k \in DOMAIN Wanted(c, role, dir),
               n.path = <<dir, k>>
        PROVE  Data(n.volume, c)[n.subPath] = Wanted(c, role, dir)[k]
    <3>1. dir = "tmp" /\ k = l
      BY <2>1, <2>4
    <3> QED BY <2>2, <3>1 DEF Wanted
  <2> QED BY <2>1, <2>2, <2>4 DEF ConfigMaps
<1>4. ASSUME role = "worker", n = script
      PROVE  /\ n.volume \in ConfigMaps
             /\ n.subPath \in DOMAIN Data(n.volume, c)
             /\ \A dir \in Directories : \A k \in DOMAIN Wanted(c, role, dir) :
                   n.path /= <<dir, k>>
             /\ Data(n.volume, c)[n.subPath] = preStopScript
  <2>1. n.volume = "prestoConfigMap" /\ n.path = <<"etc", PreStop>>
        /\ n.subPath = PlainKey(PreStop)
    BY <1>4 DEF Mount
  <2>2. /\ n.subPath \in DOMAIN Data(n.volume, c)
        /\ Data(n.volume, c)[n.subPath] = preStopScript
    BY <2>1, PrestoDataHas DEF Data
  <2>3. ASSUME NEW dir \in Directories, NEW k \in DOMAIN Wanted(c, role, dir),
               n.path = <<dir, k>>
        PROVE  FALSE
    <3>1. dir = "etc" /\ k = PreStop
      BY <2>1, <2>3
    <3> DEFINE etc == Mount("prestoConfigMap", "etc", k, EtcKey(role, k))
    <3>2. etc \in Mounts(c, role)
      BY <3>1 DEF Mounts, Wanted
    <3>3. etc.path = n.path /\ etc.subPath /= n.subPath
      BY <1>4, <2>1, <3>1 DEF Mount, EtcKey, PlainKey
    <3> QED BY <3>2, <3>3 DEF MountsCollide
  <2> QED BY <2>1, <2>2, <2>3 DEF ConfigMaps
<1> QED BY <1>1, <1>2, <1>3, <1>4 DEF Mounts

\* Every file the CR wants in a container has a mount, and so has the script.
LEMMA WantedIsMounted ==
    ASSUME NEW c \in Contents, NEW role \in Roles
    PROVE  /\ \A dir \in Directories : \A k \in DOMAIN Wanted(c, role, dir) :
                 \E n \in Mounts(c, role) : n.path = <<dir, k>>
           /\ role = "worker" =>
                 \E n \in Mounts(c, role) : n.path = <<"etc", PreStop>>
<1>1. ASSUME NEW k \in DOMAIN c.etc[role]
      PROVE  \E n \in Mounts(c, role) : n.path = <<"etc", k>>
  <2> DEFINE n == Mount("prestoConfigMap", "etc", k, EtcKey(role, k))
  <2>1. n \in Mounts(c, role)
    BY <1>1 DEF Mounts
  <2> QED BY <2>1 DEF Mount
<1>2. ASSUME NEW k \in DOMAIN c.catalog
      PROVE  \E n \in Mounts(c, role) : n.path = <<"catalog", k>>
  <2> DEFINE n == Mount("catalogConfigMap", "catalog", k, PlainKey(k))
  <2>1. n \in Mounts(c, role)
    BY <1>2 DEF Mounts
  <2> QED BY <2>1 DEF Mount
<1>3. ASSUME NEW k \in DOMAIN c.coresite
      PROVE  \E n \in Mounts(c, role) : n.path = <<"tmp", k>>
  <2> DEFINE n == Mount("catalogConfigMap", "tmp", k, PlainKey(k))
  <2>1. n \in Mounts(c, role)
    BY <1>3 DEF Mounts
  <2> QED BY <2>1 DEF Mount
<1>4. ASSUME role = "worker"
      PROVE  \E n \in Mounts(c, role) : n.path = <<"etc", PreStop>>
  <2> DEFINE n == Mount("prestoConfigMap", "etc", PreStop, PlainKey(PreStop))
  <2>1. n \in Mounts(c, role)
    BY <1>4 DEF Mounts
  <2> QED BY <2>1 DEF Mount
<1> QED BY <1>1, <1>2, <1>3, <1>4 DEF Directories, Wanted

-----------------------------------------------------------------------------
(***************************************************************************)
(* CollidesOnlyOnScript: no two files of a CR are mounted on one path, in  *)
(* whichever of its four maps they are, but a file of the workers that has *)
(* the name of the generated script; so that is the only CR of which the   *)
(* API refuses a Deployment for its mounts, and the coordinator's never.   *)
(***************************************************************************)
THEOREM CollidesOnlyOnScript ==
    ASSUME NEW c \in Contents, NEW role \in Roles
    PROVE  MountsCollide(c, role)
             <=> role = "worker" /\ PreStop \in DOMAIN c.etc[role]
<1> DEFINE etc(k) == Mount("prestoConfigMap", "etc", k, EtcKey(role, k))
           catalog(k) == Mount("catalogConfigMap", "catalog", k, PlainKey(k))
           tmp(k) == Mount("catalogConfigMap", "tmp", k, PlainKey(k))
           script == Mount("prestoConfigMap", "etc", PreStop, PlainKey(PreStop))
<1>1. ASSUME NEW n \in Mounts(c, role)
      PROVE  \/ \E k \in DOMAIN c.etc[role] : n = etc(k)
             \/ \E k \in DOMAIN c.catalog : n = catalog(k)
             \/ \E k \in DOMAIN c.coresite : n = tmp(k)
             \/ role = "worker" /\ n = script
  BY <1>1 DEF Mounts
<1>2. /\ \A k : etc(k).path = <<"etc", k>>
      /\ \A k : catalog(k).path = <<"catalog", k>>
      /\ \A k : tmp(k).path = <<"tmp", k>>
      /\ script.path = <<"etc", PreStop>>
  BY DEF Mount
<1>3. ASSUME MountsCollide(c, role)
      PROVE  role = "worker" /\ PreStop \in DOMAIN c.etc[role]
  <2>1. PICK a, b \in Mounts(c, role) : a /= b /\ a.path = b.path
    BY <1>3 DEF MountsCollide
  <2> HIDE DEF etc, catalog, tmp, script
  <2>2. a.path[1] = b.path[1] /\ a.path[2] = b.path[2]
    BY <2>1
  <2> QED BY <1>1, <1>2, <2>1, <2>2
<1>4. ASSUME role = "worker", PreStop \in DOMAIN c.etc[role]
      PROVE  MountsCollide(c, role)
  <2>1. etc(PreStop) \in Mounts(c, role) /\ script \in Mounts(c, role)
    BY <1>4 DEF Mounts
  <2>2. etc(PreStop).subPath[1] /= script.subPath[1]
    BY <1>4 DEF Mount, EtcKey, PlainKey
  <2> QED BY <1>2, <2>1, <2>2 DEF MountsCollide
<1> QED BY <1>3, <1>4

-----------------------------------------------------------------------------
(***************************************************************************)
(* FilesAreAsWanted: FilesAsWanted holds in every reachable state, for any *)
(* contents, any number of managers, and whatever requests are lost or     *)
(* refused.  The order of the requests puts both ConfigMaps in place       *)
(* before a Deployment (OrderInv), all of them are built from the same     *)
(* configuration (SpecInv), and of one configuration keys and mounts fit.  *)
(***************************************************************************)
THEOREM FilesAreAsWanted == Spec => []FilesAsWanted
<1>1. TypeOK /\ OrderInv /\ SpecInv => FilesAsWanted
  <2> SUFFICES ASSUME TypeOK, OrderInv, SpecInv, SpecHolds,
                      NEW r \in Deployments, child[r] /= Absent,
                      ~FileOnDirectory(cluster.config, Role(r))
               PROVE  /\ \A dir \in Directories :
                            \A k \in DOMAIN Wanted(cluster.config, Role(r), dir) :
                               Overwritten(cluster.config, dir, k)
                               \/ Visible(r, <<dir, k>>)
                                    = {Wanted(cluster.config, Role(r), dir)[k]}
                      /\ r = "workerDeployment" =>
                            Visible(r, <<"etc", PreStop>>) = {preStopScript}
    BY DEF FilesAsWanted
  <2> DEFINE c == child[r].config
             role == Role(r)
  <2>1. NothingIsDeleted /\ SameSpec /\ DependencyOrder
    BY DEF SpecHolds, NothingIsDeleted, OrderInv, SpecInv
  <2>2. r \in Resources /\ r /= "coordinatorService" /\ child[r] \in Child
    BY DEF Deployments, Resources, TypeOK
  <2>3. /\ c = cluster.config
        /\ Valid(r, child[r])
    BY <2>1, <2>2 DEF SameSpec, DesiredConfig
  <2>4. c \in Configs /\ c \in Contents
    BY <2>2, <2>3 DEF Valid, Child, MountsAssumption
  <2>5. ~MountsCollide(c, role)
    <3>1. ~RefusedContent(r, c)
      BY <2>2, <2>3, <2>4 DEF Valid, MountsAssumption
    <3> QED BY <3>1 DEF RefusedContent, Deployments
  <2>6. \A volume \in ConfigMaps : child[volume] /= Absent
                                   /\ child[volume].config = c
    <3>1. \A volume \in ConfigMaps : child[volume] /= Absent
      BY <2>1, <2>2 DEF DependencyOrder, Prerequisites, Deployments,
                        ConfigMaps, Resources, MountsAssumption
    <3>2. \A volume \in ConfigMaps : child[volume].config = cluster.config
      BY <2>1, <3>1 DEF SameSpec, DesiredConfig, ConfigMaps, Resources
    <3> QED BY <2>3, <3>1, <3>2
  <2>7. role \in Roles /\ (r = "workerDeployment" => role = "worker")
    BY DEF Role, Roles
  <2>8. \A n \in Mounts(c, role) : Shown(n) = Data(n.volume, c)[n.subPath]
    BY <2>4, <2>5, <2>6, <2>7, WhatMountsShow DEF Shown
  <2>9. \A path : Visible(r, path) =
           {Shown(n) : n \in {k \in Mounts(c, role) : k.path = path}}
    BY <2>3 DEF Visible
  <2>10. ASSUME NEW dir \in Directories, NEW k \in DOMAIN Wanted(c, role, dir),
                ~Overwritten(c, dir, k)
         PROVE  Visible(r, <<dir, k>>) = {Wanted(c, role, dir)[k]}
    <3>1. \A n \in Mounts(c, role) :
             n.path = <<dir, k>> => Shown(n) = Wanted(c, role, dir)[k]
      BY <2>4, <2>5, <2>7, <2>8, <2>10, WhatMountsShow
    <3>2. \E n \in Mounts(c, role) : n.path = <<dir, k>>
      BY <2>4, <2>7, WantedIsMounted
    <3> QED BY <2>9, <3>1, <3>2
  <2>11. ASSUME r = "workerDeployment"
         PROVE  Visible(r, <<"etc", PreStop>>) = {preStopScript}
    <3>1. \A n \in Mounts(c, role) :
             n.path = <<"etc", PreStop>> => Shown(n) = preStopScript
      BY <2>4, <2>5, <2>7, <2>8, <2>11, WhatMountsShow
    <3>2. \E n \in Mounts(c, role) : n.path = <<"etc", PreStop>>
      BY <2>4, <2>7, <2>11, WantedIsMounted
    <3> QED BY <2>9, <3>1, <3>2
  <2> QED BY <2>3, <2>10, <2>11
<1> QED BY <1>1, TypeCorrect, OrderInvariant, SpecInvariant, PTL
=============================================================================
