-------------------------- MODULE TenantDeployment --------------------------
(***************************************************************************)
(* Tenants on one server: create_tenant of the owner's toolkit, which      *)
(* deploys a container, a database and an Nginx site and rolls back when a *)
(* step fails; the orchestrator's API, which creates and deploys over SSH  *)
(* without a site; and the commands that stop, restart, delete and inspect *)
(* a tenant.  Ports are unique among the rows of a server; containers and  *)
(* sites know nothing of the rows.                                         *)
(***************************************************************************)
EXTENDS Integers, FiniteSets, FiniteSetsExt

CONSTANTS
  Owned,        \* tenants the owner's toolkit creates
  Hosted,       \* tenants the orchestrator's API creates
  Commands,     \* deployments that can run at the same time
  TenantOf,     \* the tenant of each
  Staff,        \* one command on an existing tenant each
  MaxPort,      \* the last port, counted from the first
  Leaks,        \* failures that leave something: "run", "remove", "unlink", "drop", "role"
  MaxFailures,  \* bound on failing commands
  MaxOps        \* bound on commands on existing tenants

Tenants == Owned \cup Hosted
Ports == 1..MaxPort

ASSUME DeploymentAssumption ==
  /\ Owned \cap Hosted = {} /\ Tenants # {}
  /\ TenantOf \in [Commands -> Tenants]
  /\ MaxPort \in Nat \ {0} /\ MaxFailures \in Nat /\ MaxOps \in Nat
  /\ Leaks \subseteq {"run", "remove", "unlink", "drop", "role"}

VARIABLES
  row,        \* TenantInstance: status ("none" without a row) and port (0 is null)
  container,  \* the tenant's container: its published port (0 is none), running
  site,       \* the upstream port in the tenant's enabled Nginx site, or 0
  serving,    \* the upstream port the running Nginx has for the tenant, or 0
  stale,      \* history: tenants whose port was released while Nginx still had it
  database,   \* what PostgreSQL has of the tenant: "none", "role", "both"
  command,    \* the deployments
  op,         \* the commands on existing tenants
  collided,   \* an allocation met the unique constraint with no other one under way
  failures, ops

deploymentVars ==
  <<row, container, site, serving, stale, database, command, op, collided, failures, ops>>
nginx == <<site, serving, stale>>

NoCommand == [pc |-> "idle", created |-> FALSE, original |-> 0, port |-> 0,
              ran |-> FALSE, wrote |-> FALSE, provisioned |-> FALSE]
NoOp == [pc |-> "idle", kind |-> "none", tenant |-> CHOOSE t \in Tenants : TRUE, saw |-> "none"]
NoContainer == [port |-> 0, up |-> FALSE]

DeploymentInit ==
  /\ row = [t \in Tenants |-> [status |-> "none", port |-> 0]]
  /\ container = [t \in Tenants |-> NoContainer]
  /\ site = [t \in Tenants |-> 0] /\ serving = [t \in Tenants |-> 0] /\ stale = {}
  /\ database = [t \in Tenants |-> "none"]
  /\ command = [c \in Commands |-> NoCommand]
  /\ op = [s \in Staff |-> NoOp]
  /\ collided = FALSE /\ failures = 0 /\ ops = 0

-----------------------------------------------------------------------------
(* Allocation holds the lock of its own row only. *)
RowFree(t) == \A c \in Commands : command[c].pc = "save_port" => TenantOf[c] # t

(* PortAllocator.used_ports: the rows that count. *)
UsedPorts(t) == {row[u].port : u \in {v \in Tenants \ {t} : row[v].status # "deleted"}}

(* next_free_port: 0 when there is none. *)
NextFreePort(t, preferred) ==
  LET free == {p \in Ports : p >= preferred /\ p \notin UsedPorts(t)}
  IN IF free = {} THEN 0 ELSE Min(free)

Preferred(t) == IF row[t].port = 0 THEN 1 ELSE row[t].port

(* Mutant: the constraint leaves deleted tenants out, as used_ports does. *)
UniqueAmongLive(t, p) ==
  p = 0 \/ \A u \in Tenants \ {t} : row[u].port # p \/ row[u].status = "deleted"

(* unique_orchestrator_port_per_server *)
Unique(t, p) == p = 0 \/ \A u \in Tenants \ {t} : row[u].port # p

(* Docker publishes a port for one running container. *)
Bound(t, p) == \E u \in Tenants \ {t} : container[u].up /\ container[u].port = p

Go(c, pc) == command' = [command EXCEPT ![c].pc = pc]
SetStatus(t, s) == row' = [row EXCEPT ![t].status = s]

Fails == failures < MaxFailures /\ failures' = failures + 1

-----------------------------------------------------------------------------
(* TenantOwnerToolkit.create_tenant and SubdomainDeploymentService. *)

(* _validate_new_tenant *)
ValidateNewTenant(c) ==
  /\ command[c].pc = "idle" /\ TenantOf[c] \in Owned
  /\ row[TenantOf[c]].status \in {"none", "deleted"}
  /\ Go(c, "instance")
  /\ UNCHANGED <<row, container, nginx, database, op, collided, failures, ops>>

(* _instance_for_tenant: a deleted tenant's row keeps its port. *)
InstanceForTenant(c) ==
  LET t == TenantOf[c] IN
  /\ command[c].pc = "instance" /\ RowFree(t)
  /\ command' = [command EXCEPT ![c].pc = "mark", ![c].created = row[t].status = "none",
                                ![c].original = row[t].port]
  /\ IF row[t].status \in {"none", "deleted"} THEN SetStatus(t, "pending") ELSE UNCHANGED row
  /\ UNCHANGED <<container, nginx, database, op, collided, failures, ops>>

MarkDeploying(c) ==
  /\ command[c].pc = "mark" /\ RowFree(TenantOf[c])
  /\ SetStatus(TenantOf[c], "deploying")
  /\ Go(c, IF TenantOf[c] \in Owned THEN "choose_port" ELSE "remote")
  /\ UNCHANGED <<container, nginx, database, op, collided, failures, ops>>

(* allocate: the other rows are read without a lock. *)
ChoosePort(c) ==
  LET t == TenantOf[c]
      p == NextFreePort(t, Preferred(t)) IN
  /\ command[c].pc = "choose_port" /\ RowFree(t)
  /\ command' = [command EXCEPT ![c].port = p, ![c].pc = IF p = 0 THEN "undo_site" ELSE "save_port"]
  /\ UNCHANGED <<row, container, nginx, database, op, collided, failures, ops>>

SavePort(c) ==
  LET t == TenantOf[c]
      ok == Unique(t, command[c].port) IN
  /\ command[c].pc = "save_port"
  /\ IF ok THEN row' = [row EXCEPT ![t].port = command[c].port] /\ Go(c, "database")
           ELSE UNCHANGED row /\ Go(c, "undo_site")
  /\ collided' = (collided \/ (~ok /\ \A b \in Commands \ {c} : command[b].pc = "idle"))
  /\ UNCHANGED <<container, nginx, database, op, failures, ops>>

(* TenantDatabaseProvisioner.create: two statements, the second may fail. *)
CreateDatabase(c, ok) ==
  LET t == TenantOf[c] IN
  /\ command[c].pc = "database"
  /\ IF database[t] # "none"
       THEN ~ok /\ Go(c, "undo_site") /\ UNCHANGED <<database, failures>>
       ELSE IF ok
         THEN /\ database' = [database EXCEPT ![t] = "both"] /\ UNCHANGED failures
              /\ command' = [command EXCEPT ![c].provisioned = TRUE, ![c].pc = "container"]
         ELSE /\ Fails /\ Go(c, "undo_site")
              /\ \E left \in {"none"} \cup ({"role"} \cap Leaks) :
                   database' = [database EXCEPT ![t] = left]
  /\ UNCHANGED <<row, container, nginx, op, collided, ops>>

(* DockerRunner.run_container: an existing container is restarted with the *)
(* port it was created with.  A docker run that cannot start the container *)
(* may leave it behind, created and stopped.                               *)
Started(t, p) == IF container[t].port # 0 THEN [container[t] EXCEPT !.up = TRUE]
                                          ELSE [port |-> p, up |-> TRUE]
CanStart(t, p) == ~Bound(t, Started(t, p).port)
LeftByRun(t, p) ==
  IF container[t].port # 0 THEN {container[t], [container[t] EXCEPT !.up = FALSE]}
  ELSE {NoContainer} \cup (IF "run" \in Leaks THEN {[port |-> p, up |-> FALSE]} ELSE {})

RunContainer(c, ok) ==
  LET t == TenantOf[c]
      p == command[c].port IN
  /\ command[c].pc = "container"
  /\ IF ok THEN /\ CanStart(t, p) /\ UNCHANGED failures
                /\ container' = [container EXCEPT ![t] = Started(t, p)]
                /\ command' = [command EXCEPT ![c].ran = TRUE, ![c].pc = "site"]
           ELSE /\ IF CanStart(t, p) THEN Fails ELSE UNCHANGED failures
                /\ \E left \in LeftByRun(t, p) : container' = [container EXCEPT ![t] = left]
                /\ Go(c, "undo_site")
  /\ UNCHANGED <<row, nginx, database, op, collided, ops>>

(* bootstrap_tenant, write_config and enable_site: one of them may fail,   *)
(* before or after the file is written.                                    *)
WriteSite(c, ok) ==
  /\ command[c].pc = "site"
  /\ IF ok THEN /\ site' = [site EXCEPT ![TenantOf[c]] = command[c].port] /\ UNCHANGED failures
                /\ command' = [command EXCEPT ![c].wrote = TRUE, ![c].pc = "reload"]
           ELSE /\ Fails /\ UNCHANGED site
                /\ \E wrote \in {command[c].wrote, TRUE} :
                     command' = [command EXCEPT ![c].wrote = wrote, ![c].pc = "undo_site"]
  /\ UNCHANGED <<row, container, serving, stale, database, op, collided, ops>>

(* reload: the running Nginx takes all the enabled sites.  It may have     *)
(* done so although the command reports an error.                          *)
Loads == serving' = site /\ stale' = {}

Reload(c, ok) ==
  /\ command[c].pc = "reload"
  /\ IF ok THEN Loads /\ Go(c, "finish") /\ UNCHANGED failures
           ELSE (Loads \/ UNCHANGED <<serving, stale>>) /\ Go(c, "undo_site") /\ Fails
  /\ UNCHANGED <<row, container, site, database, op, collided, ops>>

(* The final save; when it fails all is rolled back. *)
FinishDeploy(c, ok) ==
  /\ command[c].pc = "finish" /\ RowFree(TenantOf[c])
  /\ IF ok THEN /\ SetStatus(TenantOf[c], "running") /\ UNCHANGED failures
                /\ command' = [command EXCEPT ![c] = NoCommand]
           ELSE Fails /\ Go(c, "undo_site") /\ UNCHANGED row
  /\ UNCHANGED <<container, nginx, database, op, collided, ops>>

-----------------------------------------------------------------------------
(* _rollback: every step is tried, whatever became of the others. *)

Undo(c, pc, mayFail, next) ==
  /\ command[c].pc = pc /\ Go(c, next)
  /\ mayFail => Fails
  /\ ~mayFail => UNCHANGED failures

RemovesSite(c) == command[c].created \/ command[c].wrote

(* The files are unlinked; Nginx is not reloaded and keeps the site. *)
RemoveSite(c, failed) ==
  /\ Undo(c, "undo_site", failed, "undo_container")
  /\ failed => RemovesSite(c) /\ "unlink" \in Leaks
  /\ site' = IF RemovesSite(c) /\ ~failed THEN [site EXCEPT ![TenantOf[c]] = 0] ELSE site
  /\ UNCHANGED <<row, container, serving, stale, database, op, collided, ops>>

RemoveContainer(c, failed) ==
  /\ Undo(c, "undo_container", failed, "undo_database")
  /\ failed => command[c].ran /\ "remove" \in Leaks
  /\ container' = IF command[c].ran /\ ~failed
                    THEN [container EXCEPT ![TenantOf[c]] = NoContainer] ELSE container
  /\ UNCHANGED <<row, nginx, database, op, collided, ops>>

DropDatabase(c, failed) ==
  /\ Undo(c, "undo_database", failed, "release")
  /\ failed => command[c].provisioned /\ "drop" \in Leaks
  /\ database' = IF command[c].provisioned /\ ~failed
                   THEN [database EXCEPT ![TenantOf[c]] = "none"] ELSE database
  /\ UNCHANGED <<row, container, nginx, op, collided, ops>>

(* PortAllocator.release *)
Releases(c) == command[c].created \/ command[c].original = 0

ReleasePort(c) ==
  LET t == TenantOf[c] IN
  /\ command[c].pc = "release" /\ RowFree(t)
  /\ row' = IF Releases(c) THEN [row EXCEPT ![t].port = 0] ELSE row
  /\ stale' = IF Releases(c) /\ serving[t] # 0 THEN stale \cup {t} ELSE stale
  /\ Go(c, "failed")
  /\ UNCHANGED <<container, site, serving, database, op, collided, failures, ops>>

MarkFailed(c) ==
  /\ command[c].pc = "failed" /\ RowFree(TenantOf[c])
  /\ SetStatus(TenantOf[c], "failed")
  /\ command' = [command EXCEPT ![c] = NoCommand]
  /\ UNCHANGED <<container, nginx, database, op, collided, failures, ops>>

-----------------------------------------------------------------------------
(* The orchestrator's API: InstanceManager and DeployEngine. *)

(* create_instance: the port is chosen before the transaction. *)
ApiChoosePort(c) ==
  LET t == TenantOf[c] IN
  /\ command[c].pc = "idle" /\ t \in Hosted
  /\ IF row[t].status \in {"none", "deleted"}
       THEN /\ NextFreePort(t, 1) # 0
            /\ command' = [command EXCEPT ![c].pc = "create", ![c].port = NextFreePort(t, 1)]
       ELSE Go(c, "deploy")
  /\ UNCHANGED <<row, container, nginx, database, op, collided, failures, ops>>

ApiCreate(c) ==
  LET t == TenantOf[c]
      p == command[c].port
      writes == row[t].status \in {"none", "deleted"} IN
  /\ command[c].pc = "create"
  /\ IF writes /\ ~Unique(t, p)
       THEN command' = [command EXCEPT ![c] = NoCommand] /\ UNCHANGED row
       ELSE /\ row' = IF writes THEN [row EXCEPT ![t] = [status |-> "pending", port |-> p]] ELSE row
            /\ command' = [command EXCEPT ![c].pc = "deploy"]
  /\ collided' = (collided \/ (writes /\ ~Unique(t, p)
                               /\ \A b \in Commands \ {c} : command[b].pc = "idle"))
  /\ UNCHANGED <<container, nginx, database, op, failures, ops>>

(* deploy_instance reads the row and saves the port it has. *)
ApiDeploy(c) ==
  LET t == TenantOf[c] IN
  /\ command[c].pc = "deploy"
  /\ command' = IF row[t].status = "deleted"
                  THEN [command EXCEPT ![c] = NoCommand]
                  ELSE [command EXCEPT ![c].pc = "mark", ![c].port = row[t].port]
  /\ UNCHANGED <<row, container, nginx, database, op, collided, failures, ops>>

(* allocate_remote_port: the first port no other running container has. *)
RemotePort(t, p) ==
  LET free == {q \in Ports : q >= p /\ ~Bound(t, q)} IN IF free = {} THEN 0 ELSE Min(free)

(* An existing container is restarted; else a port is looked for on the    *)
(* server and saved if it is another one.                                  *)
ApiRemotePort(c) ==
  LET t == TenantOf[c]
      p == RemotePort(t, command[c].port) IN
  /\ command[c].pc = "remote"
  /\ IF container[t].port # 0 THEN Go(c, "remote_restart") /\ UNCHANGED row
     ELSE IF p = 0 \/ (p # command[c].port /\ ~Unique(t, p))
       THEN Go(c, "failed") /\ UNCHANGED row
       ELSE /\ command' = [command EXCEPT ![c].pc = "remote_run", ![c].port = p]
            /\ row' = IF p # command[c].port THEN [row EXCEPT ![t].port = p] ELSE row
  /\ UNCHANGED <<container, nginx, database, op, collided, failures, ops>>

(* docker restart needs the container, docker run needs its name. *)
ApiRun(c, ok) ==
  LET t == TenantOf[c]
      p == command[c].port
      fits == command[c].pc = "remote_restart" <=> container[t].port # 0
      can == fits /\ CanStart(t, p) IN
  /\ command[c].pc \in {"remote_restart", "remote_run"}
  /\ IF ok THEN /\ can /\ UNCHANGED failures
                /\ container' = [container EXCEPT ![t] = Started(t, p)]
                /\ Go(c, "remote_save")
           ELSE /\ IF can THEN Fails ELSE UNCHANGED failures
                /\ \E left \in IF fits THEN LeftByRun(t, p) ELSE {container[t]} :
                     container' = [container EXCEPT ![t] = left]
                /\ Go(c, "failed")
  /\ UNCHANGED <<row, nginx, database, op, collided, ops>>

(* The final save writes the port too. *)
ApiFinish(c) ==
  /\ command[c].pc = "remote_save"
  /\ IF Unique(TenantOf[c], command[c].port)
       THEN /\ row' = [row EXCEPT ![TenantOf[c]] = [status |-> "running", port |-> command[c].port]]
            /\ command' = [command EXCEPT ![c] = NoCommand]
       ELSE Go(c, "failed") /\ UNCHANGED row
  /\ UNCHANGED <<container, nginx, database, op, collided, failures, ops>>

-----------------------------------------------------------------------------
(* Commands on an existing tenant, whatever its status. *)

BeginOp(s, t, kind) ==
  /\ op[s].pc = "idle" /\ row[t].status # "none" /\ ops < MaxOps
  /\ ops' = ops + 1
  /\ op' = [op EXCEPT ![s] = [pc |-> "docker", kind |-> kind, tenant |-> t, saw |-> "none"]]
  /\ IF kind = "delete" THEN RowFree(t) /\ SetStatus(t, "deleting") ELSE UNCHANGED row
  /\ UNCHANGED <<container, nginx, database, command, collided, failures>>

(* The status each command saves: suspend_tenant and stop_instance, resume *)
(* and restart, delete_instance, status_instance.                          *)
Saw(s, status) == op' = [op EXCEPT ![s].pc = "save", ![s].saw = status]

DockerStop(s) ==
  LET t == op[s].tenant IN
  /\ op[s].pc = "docker" /\ op[s].kind = "stop"
  /\ container' = [container EXCEPT ![t].up = FALSE] /\ Saw(s, "stopped")
  /\ UNCHANGED <<row, nginx, database, command, collided, failures, ops>>

DockerStart(s) ==
  LET t == op[s].tenant IN
  /\ op[s].pc = "docker" /\ op[s].kind = "start"
  /\ IF container[t].port # 0 /\ ~Bound(t, container[t].port)
       THEN container' = [container EXCEPT ![t].up = TRUE] /\ Saw(s, "running")
       ELSE UNCHANGED container /\ op' = [op EXCEPT ![s] = NoOp]
  /\ UNCHANGED <<row, nginx, database, command, collided, failures, ops>>

(* docker rm -f: the site, the database and the row's port stay. *)
DockerRemove(s) ==
  LET t == op[s].tenant IN
  /\ op[s].pc = "docker" /\ op[s].kind = "delete"
  /\ container' = [container EXCEPT ![t] = NoContainer] /\ Saw(s, "deleted")
  /\ UNCHANGED <<row, nginx, database, command, collided, failures, ops>>

DockerInspect(s) ==
  LET t == op[s].tenant IN
  /\ op[s].pc = "docker" /\ op[s].kind = "status"
  /\ \/ container[t].port = 0 /\ Saw(s, "degraded")
     \/ container[t].up /\ \E status \in {"running", "degraded"} : Saw(s, status)
     \/ container[t].port # 0 /\ ~container[t].up /\ Saw(s, "stopped")
  /\ UNCHANGED <<row, container, nginx, database, command, collided, failures, ops>>

SaveOp(s) ==
  /\ op[s].pc = "save" /\ RowFree(op[s].tenant)
  /\ SetStatus(op[s].tenant, op[s].saw)
  /\ op' = [op EXCEPT ![s] = NoOp]
  /\ UNCHANGED <<container, nginx, database, command, collided, failures, ops>>

(* The server does not answer. *)
OpFails(s) ==
  /\ op[s].pc = "docker" /\ Fails
  /\ op' = [op EXCEPT ![s] = NoOp]
  /\ IF op[s].kind = "status" THEN RowFree(op[s].tenant) /\ SetStatus(op[s].tenant, "degraded")
                              ELSE UNCHANGED row
  /\ UNCHANGED <<container, nginx, database, command, collided, ops>>

DeploymentNext ==
  \/ \E c \in Commands :
       \/ ValidateNewTenant(c) \/ InstanceForTenant(c) \/ MarkDeploying(c)
       \/ ChoosePort(c) \/ SavePort(c) \/ ReleasePort(c) \/ MarkFailed(c)
       \/ ApiChoosePort(c) \/ ApiCreate(c) \/ ApiDeploy(c) \/ ApiRemotePort(c) \/ ApiFinish(c)
       \/ \E ok \in BOOLEAN :
            \/ CreateDatabase(c, ok) \/ RunContainer(c, ok) \/ WriteSite(c, ok)
            \/ Reload(c, ok) \/ FinishDeploy(c, ok) \/ ApiRun(c, ok)
            \/ RemoveSite(c, ~ok) \/ RemoveContainer(c, ~ok) \/ DropDatabase(c, ~ok)
  \/ \E s \in Staff :
       \/ \E t \in Tenants, kind \in {"stop", "start", "delete", "status"} : BeginOp(s, t, kind)
       \/ DockerStop(s) \/ DockerStart(s) \/ DockerRemove(s) \/ DockerInspect(s)
       \/ SaveOp(s) \/ OpFails(s)

DeploymentSpec == DeploymentInit /\ [][DeploymentNext]_deploymentVars

(* What nothing in the code enforces but careful staff keep to: a tenant   *)
(* has one deployment at a time, and is not deleted meanwhile.             *)
Deploying(t) == \E c \in Commands : TenantOf[c] = t /\ command[c].pc # "idle"
Deleting(t) == \E s \in Staff : op[s].tenant = t /\ op[s].kind = "delete"
DeployedAlone ==
  /\ \A b, c \in Commands :
       TenantOf[b] = TenantOf[c] /\ command[b].pc # "idle" /\ command[c].pc # "idle" => b = c
  /\ \A t \in Tenants : ~(Deploying(t) /\ Deleting(t))

CarefulNext == DeploymentNext /\ DeployedAlone'
CarefulSpec == DeploymentInit /\ [][CarefulNext]_deploymentVars

-----------------------------------------------------------------------------
Statuses == {"none", "pending", "deploying", "running", "stopped", "degraded",
             "failed", "deleting", "deleted"}
ToolkitPcs == {"idle", "instance", "mark", "choose_port", "save_port", "database", "container",
               "site", "reload", "finish", "undo_site", "undo_container", "undo_database",
               "release", "failed"}
ApiPcs == {"idle", "create", "deploy", "mark", "remote", "remote_restart", "remote_run",
           "remote_save", "failed"}
Pcs == ToolkitPcs \cup ApiPcs

(* Rows, containers, sites, databases and commands have their types, and   *)
(* no two rows have one port.                                              *)
DeploymentTypeOK ==
  /\ row \in [Tenants -> [status: Statuses, port: 0..MaxPort]]
  /\ \A t, u \in Tenants : t # u /\ row[t].port # 0 => row[t].port # row[u].port
  /\ container \in [Tenants -> [port: 0..MaxPort, up: BOOLEAN]]
  /\ site \in [Tenants -> 0..MaxPort] /\ serving \in [Tenants -> 0..MaxPort]
  /\ stale \subseteq Tenants
  /\ database \in [Tenants -> {"none", "role", "both"}]
  /\ command \in [Commands -> [pc: Pcs, created: BOOLEAN, original: 0..MaxPort, port: 0..MaxPort,
                               ran: BOOLEAN, wrote: BOOLEAN, provisioned: BOOLEAN]]
  /\ op \in [Staff -> [pc: {"idle", "docker", "save"}, tenant: Tenants,
                       kind: {"none", "stop", "start", "delete", "status"}, saw: Statuses]]
  /\ collided \in BOOLEAN /\ failures \in 0..MaxFailures /\ ops \in 0..MaxOps

(* A tenant's site never leads to another tenant's container, neither the  *)
(* enabled one nor the one that the running Nginx serves: not while        *)
(* deployments fail and are rolled back step by step, ports are released   *)
(* and taken again, and containers are stopped, restarted and deleted.     *)
(* The rollback does not reload Nginx (_rollback): between a release of    *)
(* the port of a site that Nginx has and the next reload, that site may.   *)
Upstreams(t) == ({site[t]} \cup IF t \in stale THEN {} ELSE {serving[t]}) \ {0}

SiteReachesOwnTenant ==
  \A t, u \in Tenants :
    t # u /\ container[u].up => container[u].port \notin Upstreams(t)

(* An allocation with no other deployment under way meets no collision. *)
NoCollisionAlone == ~collided

-----------------------------------------------------------------------------
(* The inductive invariant of the careful specification, when a command    *)
(* that fails leaves no container and no site.                             *)

CleanFailures == Leaks \subseteq {"drop", "role"}

Unused(t) == row[t].status \in {"none", "deleted"}

(* A row that was never written has no port, and a tenant that is not      *)
(* deployed no container; the port that is published, and the one that the *)
(* site leads to, are the row's, but for a site that Nginx still has.      *)
TenantFits(t) ==
  /\ row[t].status = "none" => row[t].port = 0
  /\ Unused(t) => container[t].port = 0
  /\ container[t].port # 0 => container[t].port = row[t].port
  /\ site[t] # 0 => t \in Owned /\ site[t] = row[t].port
  /\ serving[t] # 0 /\ t \notin stale => t \in Owned /\ serving[t] = row[t].port

(* Only a deletion finds a tenant deleted, and leaves no container. *)
OpFits(s) ==
  /\ op[s].pc = "docker" => op[s].kind # "none"
  /\ op[s].pc = "save" => op[s].saw # "none"
  /\ op[s].pc = "save" /\ op[s].saw = "deleted" =>
       op[s].kind = "delete" /\ container[op[s].tenant].port = 0

(* What the toolkit's command knows of its tenant. *)
ToolkitFits(c) ==
  LET t == TenantOf[c]
      q == command[c] IN
  /\ q.pc \in {"idle", "instance"} => ~q.wrote
  /\ q.pc \in {"idle", "instance", "mark", "choose_port", "save_port", "database", "container"} =>
       ~q.ran
  /\ q.pc # "idle" /\ ~q.ran => container[t].port = 0
  /\ q.pc = "save_port" /\ row[t].port # 0 => q.port = row[t].port
  /\ q.pc \in {"database", "container", "site", "reload", "finish"} => q.port = row[t].port
  /\ ~q.wrote /\ q.pc # "idle" /\ (q.created \/ q.original = 0) /\ q.pc \notin {"instance", "failed"} =>
       site[t] = 0
  /\ q.pc \in {"undo_container", "undo_database", "release"} /\ (q.created \/ q.original = 0) =>
       site[t] = 0
  /\ q.pc \in {"undo_database", "release"} => container[t].port = 0

(* What the API's command knows of it. *)
ApiFits(c) ==
  command[c].pc \in {"mark", "remote", "remote_restart", "remote_run", "remote_save"} =>
    command[c].port = row[TenantOf[c]].port

CommandFits(c) ==
  /\ command[c].pc \notin {"idle", "instance", "create"} => ~Unused(TenantOf[c])
  /\ IF TenantOf[c] \in Owned THEN command[c].pc \in ToolkitPcs /\ ToolkitFits(c)
                               ELSE command[c].pc \in ApiPcs /\ ApiFits(c)

DeploymentInv ==
  /\ DeploymentTypeOK /\ DeployedAlone
  /\ \A t \in Tenants : TenantFits(t)
  /\ \A c \in Commands : CommandFits(c)
  /\ \A s \in Staff : OpFits(s)
=============================================================================
