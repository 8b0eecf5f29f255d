----------------------- MODULE TenantDeploymentProofs -----------------------
(***************************************************************************)
(* No two rows of a server have one port, whatever runs at the same time;  *)
(* and a tenant's site leads to no other tenant's container as long as a   *)
(* tenant has one deployment at a time and failing commands leave neither  *)
(* a container nor a site behind.                                          *)
(***************************************************************************)
EXTENDS TenantDeployment, WellFoundedInduction, TLAPS

USE DeploymentAssumption

Row == [status: Statuses, port: 0..MaxPort]
Container == [port: 0..MaxPort, up: BOOLEAN]
CommandRow == [pc: Pcs, created: BOOLEAN, original: 0..MaxPort, port: 0..MaxPort,
               ran: BOOLEAN, wrote: BOOLEAN, provisioned: BOOLEAN]
OpRow == [pc: {"idle", "docker", "save"}, tenant: Tenants,
          kind: {"none", "stop", "start", "delete", "status"}, saw: Statuses]

-----------------------------------------------------------------------------
(* What a step may change: one command and its tenant, or one operation    *)
(* and its tenant.                                                         *)

OnlyCommand(c) ==
  /\ command' \in [Commands -> CommandRow]
  /\ \A b \in Commands \ {c} : command'[b] = command[b]

OnlyRow(t) ==
  /\ row' \in [Tenants -> Row]
  /\ \A u \in Tenants \ {t} : row'[u] = row[u]
  /\ row'[t].port # row[t].port => Unique(t, row'[t].port)

OnlyContainer(t) ==
  /\ container' \in [Tenants -> Container]
  /\ \A u \in Tenants \ {t} : container'[u] = container[u]

OnlySite(t) ==
  /\ site' \in [Tenants -> 0..MaxPort]
  /\ \A u \in Tenants \ {t} : site'[u] = site[u]

(* Nginx keeps what it has, or loads the enabled sites. *)
OnlyServing(t) ==
  /\ serving' \in [Tenants -> 0..MaxPort] /\ stale' \subseteq Tenants
  /\ \A u \in Tenants \ {t} :
       serving'[u] = site[u] \/ (serving'[u] = serving[u] /\ (u \in stale' <=> u \in stale))

OnlyOp(s) ==
  /\ op' \in [Staff -> OpRow]
  /\ \A r \in Staff \ {s} : op'[r] = op[r]

Counters ==
  /\ database' \in [Tenants -> {"none", "role", "both"}]
  /\ collided' \in BOOLEAN /\ failures' \in 0..MaxFailures /\ ops' \in 0..MaxOps

CommandMoves(c) ==
  /\ OnlyCommand(c) /\ OnlyRow(TenantOf[c]) /\ OnlyContainer(TenantOf[c])
  /\ OnlySite(TenantOf[c]) /\ OnlyServing(TenantOf[c]) /\ Counters /\ op' = op

OpMoves(s, t) ==
  /\ OnlyOp(s) /\ OnlyRow(t) /\ OnlyContainer(t)
  /\ row'[t].port = row[t].port
  /\ Counters /\ UNCHANGED <<command, site, serving, stale>>

LEMMA TypeFacts ==
  DeploymentTypeOK <=>
    /\ row \in [Tenants -> Row]
    /\ \A t, u \in Tenants : t # u /\ row[t].port # 0 => row[t].port # row[u].port
    /\ container \in [Tenants -> Container]
    /\ site \in [Tenants -> 0..MaxPort] /\ serving \in [Tenants -> 0..MaxPort]
    /\ stale \subseteq Tenants
    /\ database \in [Tenants -> {"none", "role", "both"}]
    /\ command \in [Commands -> CommandRow]
    /\ op \in [Staff -> OpRow]
    /\ collided \in BOOLEAN /\ failures \in 0..MaxFailures /\ ops \in 0..MaxOps
BY DEF DeploymentTypeOK, Row, Container, CommandRow, OpRow

(* A row's new port is unique, so that no two rows have one port. *)
LEMMA UniqueStays ==
  ASSUME DeploymentTypeOK, NEW t \in Tenants, OnlyRow(t)
  PROVE  \A u, v \in Tenants : u # v /\ row'[u].port # 0 => row'[u].port # row'[v].port
<1> SUFFICES ASSUME NEW u \in Tenants, NEW v \in Tenants, u # v, row'[u].port # 0
             PROVE  row'[u].port # row'[v].port
  OBVIOUS
<1>1. \A x, y \in Tenants : x # y /\ row[x].port # 0 => row[x].port # row[y].port
  BY DEF DeploymentTypeOK
<1>2. CASE u # t /\ v # t
  BY <1>1, <1>2 DEF OnlyRow
<1>3. CASE row'[t].port = row[t].port
  <2>1. row'[u].port = row[u].port /\ row'[v].port = row[v].port
    BY <1>3 DEF OnlyRow
  <2>2. QED
    BY <1>1, <2>1
<1>4. CASE row'[t].port # row[t].port
  <2>1. row'[t].port = 0 \/ \A x \in Tenants \ {t} : row[x].port # row'[t].port
    BY <1>4 DEF OnlyRow, Unique
  <2>2. QED
    BY <1>2, <2>1 DEF OnlyRow
<1>5. QED
  BY <1>2, <1>3, <1>4

LEMMA CommandMovesTyped ==
  ASSUME DeploymentTypeOK, NEW c \in Commands, CommandMoves(c)
  PROVE  DeploymentTypeOK'
<1>1. TenantOf[c] \in Tenants
  OBVIOUS
<1>2. \A u, v \in Tenants : u # v /\ row'[u].port # 0 => row'[u].port # row'[v].port
  BY <1>1, UniqueStays DEF CommandMoves
<1>3. op' \in [Staff -> OpRow]
  BY TypeFacts DEF CommandMoves
<1>4. QED
  BY <1>2, <1>3 DEF CommandMoves, OnlyCommand, OnlyRow, OnlyContainer, OnlySite, OnlyServing, Counters,
     DeploymentTypeOK, Row, Container, CommandRow, OpRow

LEMMA OpMovesTyped ==
  ASSUME DeploymentTypeOK, NEW s \in Staff, NEW t \in Tenants, OpMoves(s, t)
  PROVE  DeploymentTypeOK'
<1>2. \A u, v \in Tenants : u # v /\ row'[u].port # 0 => row'[u].port # row'[v].port
  BY UniqueStays DEF OpMoves
<1>3. /\ command' \in [Commands -> CommandRow] /\ site' \in [Tenants -> 0..MaxPort]
      /\ serving' \in [Tenants -> 0..MaxPort] /\ stale' \subseteq Tenants
  BY TypeFacts DEF OpMoves
<1>4. QED
  BY <1>2, <1>3 DEF OpMoves, OnlyOp, OnlyRow, OnlyContainer, Counters,
     DeploymentTypeOK, Row, Container, CommandRow, OpRow

-----------------------------------------------------------------------------
(* What each update of a command does. *)

(* The fields of a command that most steps leave alone. *)
SameFlags(c) ==
  /\ command'[c].created = command[c].created /\ command'[c].original = command[c].original
  /\ command'[c].ran = command[c].ran /\ command'[c].wrote = command[c].wrote

LEMMA GoMeans ==
  ASSUME DeploymentTypeOK, NEW c \in Commands, NEW pc \in Pcs, Go(c, pc)
  PROVE  /\ OnlyCommand(c) /\ SameFlags(c)
         /\ command'[c].pc = pc /\ command'[c].port = command[c].port
<1>1. command \in [Commands -> CommandRow]
  BY TypeFacts
<1>2. command' = [command EXCEPT ![c] = [@ EXCEPT !.pc = pc]]
  BY DEF Go
<1>3. [command[c] EXCEPT !.pc = pc] \in CommandRow
  BY <1>1 DEF CommandRow
<1>4. QED
  BY <1>1, <1>2, <1>3 DEF OnlyCommand, SameFlags, CommandRow

LEMMA GoWithPort ==
  ASSUME DeploymentTypeOK, NEW c \in Commands, NEW pc \in Pcs, NEW p \in 0..MaxPort,
         command' = [command EXCEPT ![c].pc = pc, ![c].port = p]
  PROVE  /\ OnlyCommand(c) /\ SameFlags(c)
         /\ command'[c].pc = pc /\ command'[c].port = p
<1>1. command \in [Commands -> CommandRow]
  BY TypeFacts
<1> DEFINE q == [[command[c] EXCEPT !.pc = pc] EXCEPT !.port = p]
<1>2. command' = [command EXCEPT ![c] = q]
  BY <1>1
<1>3. q \in CommandRow
  BY <1>1 DEF CommandRow
<1>4. QED
  BY <1>1, <1>2, <1>3 DEF OnlyCommand, SameFlags, CommandRow

LEMMA EndMeans ==
  ASSUME DeploymentTypeOK, NEW c \in Commands, command' = [command EXCEPT ![c] = NoCommand]
  PROVE  /\ OnlyCommand(c)
         /\ command'[c].pc = "idle" /\ ~command'[c].wrote /\ ~command'[c].ran
<1>1. command \in [Commands -> CommandRow]
  BY TypeFacts
<1>2. NoCommand \in CommandRow
  BY DEF NoCommand, CommandRow, Pcs, ToolkitPcs
<1>3. QED
  BY <1>1, <1>2 DEF OnlyCommand, CommandRow, NoCommand

LEMMA StatusMeans ==
  ASSUME DeploymentTypeOK, NEW t \in Tenants, NEW s \in Statuses, SetStatus(t, s)
  PROVE  OnlyRow(t) /\ row'[t].status = s /\ row'[t].port = row[t].port
<1>1. row \in [Tenants -> Row]
  BY TypeFacts
<1>2. QED
  BY <1>1 DEF SetStatus, OnlyRow, Row

LEMMA PortMeans ==
  ASSUME DeploymentTypeOK, NEW t \in Tenants, NEW p \in 0..MaxPort, Unique(t, p),
         row' = [row EXCEPT ![t].port = p]
  PROVE  OnlyRow(t) /\ row'[t].status = row[t].status /\ row'[t].port = p
<1>1. row \in [Tenants -> Row]
  BY TypeFacts
<1>2. QED
  BY <1>1 DEF OnlyRow, Row

LEMMA RowMeans ==
  ASSUME DeploymentTypeOK, NEW t \in Tenants, NEW s \in Statuses, NEW p \in 0..MaxPort, Unique(t, p),
         row' = [row EXCEPT ![t] = [status |-> s, port |-> p]]
  PROVE  OnlyRow(t) /\ row'[t].status = s /\ row'[t].port = p
<1>1. row \in [Tenants -> Row]
  BY TypeFacts
<1>2. QED
  BY <1>1 DEF OnlyRow, Row

LEMMA SameRow == ASSUME DeploymentTypeOK, NEW t \in Tenants, row' = row PROVE OnlyRow(t)
BY TypeFacts DEF OnlyRow

LEMMA SameContainer ==
  ASSUME DeploymentTypeOK, NEW t \in Tenants, container' = container PROVE OnlyContainer(t)
BY TypeFacts DEF OnlyContainer

LEMMA SameSite == ASSUME DeploymentTypeOK, NEW t \in Tenants, site' = site PROVE OnlySite(t)
BY TypeFacts DEF OnlySite

LEMMA SameServing ==
  ASSUME DeploymentTypeOK, NEW t \in Tenants, serving' = serving, stale' = stale PROVE OnlyServing(t)
BY TypeFacts DEF OnlyServing

LEMMA SameCounters ==
  ASSUME DeploymentTypeOK, database' = database, collided' = collided,
         failures' \in 0..MaxFailures, ops' = ops
  PROVE  Counters
BY TypeFacts DEF Counters

LEMMA FailsMeans == DeploymentTypeOK /\ Fails => failures' \in 0..MaxFailures
BY DEF DeploymentTypeOK, Fails

LEMMA FailuresTyped == DeploymentTypeOK => failures \in 0..MaxFailures
BY DEF DeploymentTypeOK

LEMMA ContainerMeans ==
  ASSUME DeploymentTypeOK, NEW t \in Tenants, NEW k \in Container,
         container' = [container EXCEPT ![t] = k]
  PROVE  OnlyContainer(t) /\ container'[t] = k
BY TypeFacts DEF OnlyContainer

(* The ports that are found are ports, or 0. *)
LEMMA SmallestIn ==
  ASSUME NEW S \in SUBSET Ports, S # {}
  PROVE  Min(S) \in S /\ \A p \in S : Min(S) <= p
<1> DEFINE R == {ss \in Nat \X Nat : ss[1] < ss[2]}
<1>1. PICK p \in S : \A q \in S : ~(<<q, p>> \in R)
  <2>1. IsWellFoundedOn(R, Nat)
    BY NatLessThanWellFounded DEF OpToRel
  <2>2. S \subseteq Nat
    BY DEF Ports
  <2>3. QED
    BY <2>1, <2>2, WFMin
<1>2. \A q \in S : p <= q
  <2> SUFFICES ASSUME NEW q \in S PROVE p <= q
    OBVIOUS
  <2>1. p \in Nat /\ q \in Nat
    BY DEF Ports
  <2>2. ~(<<q, p>> \in R)
    BY <1>1
  <2>3. QED
    BY <2>1, <2>2
<1>3. QED
  BY <1>2 DEF Min

LEMMA NextFreePortType ==
  ASSUME NEW t \in Tenants, NEW preferred \in Nat
  PROVE  NextFreePort(t, preferred) \in 0..MaxPort
<1> DEFINE free == {p \in Ports : p >= preferred /\ p \notin UsedPorts(t)}
<1>1. free \in SUBSET Ports /\ NextFreePort(t, preferred) = IF free = {} THEN 0 ELSE Min(free)
  BY DEF NextFreePort
<1>2. free # {} => Min(free) \in Ports
  BY <1>1, SmallestIn
<1>3. QED
  BY <1>1, <1>2 DEF Ports

LEMMA RemotePortType ==
  ASSUME NEW t \in Tenants, NEW p \in 0..MaxPort
  PROVE  RemotePort(t, p) \in 0..MaxPort
<1> DEFINE free == {q \in Ports : q >= p /\ ~Bound(t, q)}
<1>1. free \in SUBSET Ports /\ RemotePort(t, p) = IF free = {} THEN 0 ELSE Min(free)
  BY DEF RemotePort
<1>2. free # {} => Min(free) \in Ports
  BY <1>1, SmallestIn
<1>3. QED
  BY <1>1, <1>2 DEF Ports

(* A row that has a port is given the same one again. *)
LEMMA PortKept ==
  ASSUME DeploymentTypeOK, NEW t \in Tenants, row[t].port # 0
  PROVE  NextFreePort(t, Preferred(t)) = row[t].port
<1> DEFINE r == row[t].port
           free == {p \in Ports : p >= r /\ p \notin UsedPorts(t)}
<1>1. r \in Ports
  BY TypeFacts DEF Row, Ports
<1>2. r \notin UsedPorts(t)
  <2>1. \A u \in Tenants \ {t} : row[u].port # r
    BY DEF DeploymentTypeOK
  <2>2. QED
    BY <2>1 DEF UsedPorts
<1>3. r \in free /\ free \in SUBSET Ports /\ \A p \in free : r <= p
  <2>1. r \in Nat /\ r >= r /\ Ports \subseteq Nat
    BY <1>1 DEF Ports
  <2>2. r \in free /\ free \in SUBSET Ports
    BY <1>1, <1>2, <2>1
  <2>3. \A p \in free : p \in Nat /\ p >= r
    BY <2>1
  <2>4. QED
    BY <2>1, <2>2, <2>3
<1>4. NextFreePort(t, r) = Min(free) /\ Preferred(t) = r
  BY <1>3 DEF NextFreePort, Preferred
<1> HIDE DEF free
<1>5. Min(free) \in free /\ \A p \in free : Min(free) <= p
  <2>1. free # {} /\ free \in SUBSET Ports
    BY <1>3
  <2>2. QED
    BY <2>1, SmallestIn
<1>6. Min(free) = r
  <2>1. Min(free) \in Nat /\ r \in Nat
    <3>1. Min(free) \in Ports /\ r \in Ports
      BY <1>1, <1>3, <1>5
    <3>2. Ports \subseteq Nat
      BY DEF Ports
    <3>3. QED
      BY <3>1, <3>2
  <2>2. Min(free) <= r /\ r <= Min(free)
    BY <1>3, <1>5
  <2>3. QED
    BY <2>1, <2>2
<1>7. QED
  BY <1>4, <1>6

LEMMA PreferredType ==
  ASSUME DeploymentTypeOK, NEW t \in Tenants PROVE Preferred(t) \in Nat
BY TypeFacts DEF Row, Preferred

LEMMA CommandFacts ==
  ASSUME DeploymentTypeOK, NEW c \in Commands
  PROVE  /\ TenantOf[c] \in Tenants
         /\ command[c].port \in 0..MaxPort /\ command[c].created \in BOOLEAN
         /\ command[c].original \in 0..MaxPort /\ command[c].pc \in Pcs
         /\ command[c].ran \in BOOLEAN /\ command[c].wrote \in BOOLEAN
         /\ row[TenantOf[c]].port \in 0..MaxPort
<1>1. command[c] \in CommandRow /\ TenantOf[c] \in Tenants /\ row[TenantOf[c]] \in Row
  BY TypeFacts
<1>2. QED
  BY <1>1 DEF CommandRow, Row

(* What run_container makes of a container, or leaves of it. *)
LEMMA StartedFits ==
  ASSUME DeploymentTypeOK, NEW t \in Tenants, NEW p \in 0..MaxPort
  PROVE  /\ Started(t, p) \in Container
         /\ container[t].port = 0 => Started(t, p).port = p
         /\ container[t].port # 0 => Started(t, p).port = container[t].port
BY TypeFacts DEF Started, Container

LEMMA LeftFits ==
  ASSUME DeploymentTypeOK, NEW t \in Tenants, NEW p \in 0..MaxPort, NEW left \in LeftByRun(t, p)
  PROVE  left \in Container /\ (CleanFailures => left.port = container[t].port)
<1>1. container[t] \in Container /\ [container[t] EXCEPT !.up = FALSE] \in Container
  BY TypeFacts DEF Container
<1>2. NoContainer \in Container /\ NoContainer.port = 0
  BY DEF NoContainer, Container
<1>3. [port |-> p, up |-> FALSE] \in Container
  BY DEF Container
<1>4. CASE container[t].port # 0
  <2>1. left \in {container[t], [container[t] EXCEPT !.up = FALSE]}
    BY <1>4 DEF LeftByRun
  <2>2. QED
    BY <1>1, <2>1 DEF Container
<1>5. CASE container[t].port = 0
  <2>1. left \in {NoContainer} \cup (IF "run" \in Leaks THEN {[port |-> p, up |-> FALSE]} ELSE {})
    BY <1>5 DEF LeftByRun
  <2>2. CleanFailures => "run" \notin Leaks
    BY DEF CleanFailures
  <2>3. QED
    BY <1>2, <1>3, <1>5, <2>1, <2>2
<1>6. QED
  BY <1>4, <1>5

-----------------------------------------------------------------------------
(* What each step of a command changes. *)

LEMMA ValidateMeans ==
  ASSUME DeploymentTypeOK, NEW c \in Commands, ValidateNewTenant(c)
  PROVE  /\ CommandMoves(c) /\ SameFlags(c)
         /\ command[c].pc = "idle" /\ TenantOf[c] \in Owned /\ Unused(TenantOf[c])
         /\ command'[c].pc = "instance" /\ UNCHANGED <<row, container, site, serving, stale>>
<1>1. Go(c, "instance") /\ "instance" \in Pcs
  BY DEF ValidateNewTenant, Pcs, ToolkitPcs
<1>2. OnlyCommand(c) /\ SameFlags(c) /\ command'[c].pc = "instance"
  BY <1>1, GoMeans
<1>3. UNCHANGED <<row, container, site, serving, stale, database, op, collided, failures, ops>>
  BY DEF ValidateNewTenant, nginx
<1>4. CommandMoves(c)
  BY <1>2, <1>3, CommandFacts, SameRow, SameContainer, SameSite, SameServing, SameCounters, FailuresTyped
     DEF CommandMoves
<1>5. QED
  BY <1>2, <1>3, <1>4 DEF ValidateNewTenant, Unused

LEMMA InstanceMeans ==
  ASSUME DeploymentTypeOK, NEW c \in Commands, InstanceForTenant(c)
  PROVE  LET t == TenantOf[c] IN
         /\ CommandMoves(c)
         /\ command[c].pc = "instance" /\ command'[c].pc = "mark"
         /\ command'[c].created = (row[t].status = "none") /\ command'[c].original = row[t].port
         /\ command'[c].ran = command[c].ran /\ command'[c].wrote = command[c].wrote
         /\ row'[t].port = row[t].port /\ row'[t].status \notin {"none", "deleted"}
         /\ UNCHANGED <<container, site, serving, stale>>
<1> DEFINE t == TenantOf[c]
<1>1. PICK k \in BOOLEAN : k = (row[t].status = "none")
  OBVIOUS
<1>2. PICK p \in 0..MaxPort : p = row[t].port
  BY CommandFacts
<1> DEFINE q == [[[command[c] EXCEPT !.pc = "mark"] EXCEPT !.created = k] EXCEPT !.original = p]
<1>3. command[c] \in CommandRow /\ "mark" \in Pcs
  BY TypeFacts DEF Pcs, ToolkitPcs
<1>4. q \in CommandRow
  BY <1>3 DEF CommandRow
<1>5. command' = [command EXCEPT ![c] = q]
  BY <1>1, <1>2, TypeFacts DEF InstanceForTenant
<1>6. /\ OnlyCommand(c) /\ command'[c].pc = "mark" /\ command'[c].created = k
      /\ command'[c].original = p
      /\ command'[c].ran = command[c].ran /\ command'[c].wrote = command[c].wrote
  <2>1. command'[c] = q /\ OnlyCommand(c)
    BY <1>4, <1>5, TypeFacts DEF OnlyCommand
  <2>2. QED
    BY <1>3, <2>1 DEF CommandRow
<1>7. OnlyRow(t) /\ row'[t].port = row[t].port /\ row'[t].status \notin {"none", "deleted"}
  <2>1. CASE row[t].status \in {"none", "deleted"}
    <3>1. SetStatus(t, "pending") /\ "pending" \in Statuses
      BY <2>1 DEF InstanceForTenant, Statuses
    <3>2. QED
      BY <3>1, StatusMeans, CommandFacts
  <2>2. CASE row[t].status \notin {"none", "deleted"}
    <3>1. row' = row
      BY <2>2 DEF InstanceForTenant
    <3>2. QED
      BY <2>2, <3>1, SameRow, CommandFacts
  <2>3. QED
    BY <2>1, <2>2
<1>8. UNCHANGED <<container, site, serving, stale, database, op, collided, failures, ops>>
  BY DEF InstanceForTenant, nginx
<1>9. CommandMoves(c)
  BY <1>6, <1>7, <1>8, CommandFacts, SameContainer, SameSite, SameServing, SameCounters, FailuresTyped
     DEF CommandMoves
<1>10. QED
  BY <1>1, <1>2, <1>6, <1>7, <1>8, <1>9 DEF InstanceForTenant

LEMMA MarkMeans ==
  ASSUME DeploymentTypeOK, NEW c \in Commands, MarkDeploying(c)
  PROVE  LET t == TenantOf[c] IN
         /\ CommandMoves(c) /\ SameFlags(c)
         /\ command[c].pc = "mark" /\ command'[c].port = command[c].port
         /\ command'[c].pc = IF t \in Owned THEN "choose_port" ELSE "remote"
         /\ row'[t].port = row[t].port /\ row'[t].status = "deploying"
         /\ UNCHANGED <<container, site, serving, stale>>
<1> DEFINE t == TenantOf[c]
<1>1. PICK pc \in Pcs : pc = IF t \in Owned THEN "choose_port" ELSE "remote"
  BY DEF Pcs, ToolkitPcs, ApiPcs
<1>2. Go(c, pc)
  BY <1>1 DEF MarkDeploying
<1>3. /\ OnlyCommand(c) /\ SameFlags(c) /\ command'[c].pc = pc
      /\ command'[c].port = command[c].port
  BY <1>2, GoMeans
<1>4. SetStatus(t, "deploying") /\ "deploying" \in Statuses
  BY DEF MarkDeploying, Statuses
<1>5. OnlyRow(t) /\ row'[t].port = row[t].port /\ row'[t].status = "deploying"
  BY <1>4, StatusMeans, CommandFacts
<1>6. UNCHANGED <<container, site, serving, stale, database, op, collided, failures, ops>>
  BY DEF MarkDeploying, nginx
<1>7. CommandMoves(c)
  BY <1>3, <1>5, <1>6, CommandFacts, SameContainer, SameSite, SameServing, SameCounters, FailuresTyped
     DEF CommandMoves
<1>8. QED
  BY <1>1, <1>3, <1>5, <1>6, <1>7 DEF MarkDeploying

LEMMA ChoosePortMeans ==
  ASSUME DeploymentTypeOK, NEW c \in Commands, ChoosePort(c)
  PROVE  LET t == TenantOf[c] IN
         /\ CommandMoves(c) /\ SameFlags(c)
         /\ command[c].pc = "choose_port" /\ command'[c].pc \in {"undo_site", "save_port"}
         /\ row[t].port # 0 => command'[c].port = row[t].port
         /\ UNCHANGED <<row, container, site, serving, stale>>
<1> DEFINE t == TenantOf[c]
<1>1. PICK p \in 0..MaxPort : p = NextFreePort(t, Preferred(t))
  BY CommandFacts, PreferredType, NextFreePortType
<1>2. PICK pc \in {"undo_site", "save_port"} : pc = IF p = 0 THEN "undo_site" ELSE "save_port"
  OBVIOUS
<1>3. pc \in Pcs
  BY DEF Pcs, ToolkitPcs
<1>4. command' = [command EXCEPT ![c].port = p, ![c].pc = pc]
  BY <1>1, <1>2 DEF ChoosePort
<1>5. command' = [command EXCEPT ![c].pc = pc, ![c].port = p]
  <2>1. command[c] \in CommandRow /\ command \in [Commands -> CommandRow]
    BY TypeFacts
  <2>2. [[command[c] EXCEPT !.port = p] EXCEPT !.pc = pc]
          = [[command[c] EXCEPT !.pc = pc] EXCEPT !.port = p]
    BY <2>1 DEF CommandRow
  <2>3. QED
    BY <1>4, <2>1, <2>2
<1>6. OnlyCommand(c) /\ SameFlags(c) /\ command'[c].pc = pc /\ command'[c].port = p
  BY <1>3, <1>5, GoWithPort
<1>7. UNCHANGED <<row, container, site, serving, stale, database, op, collided, failures, ops>>
  BY DEF ChoosePort, nginx
<1>8. CommandMoves(c)
  BY <1>6, <1>7, CommandFacts, SameRow, SameContainer, SameSite, SameServing, SameCounters, FailuresTyped
     DEF CommandMoves
<1>9. row[t].port # 0 => p = row[t].port
  BY <1>1, PortKept, CommandFacts
<1>10. QED
  BY <1>6, <1>7, <1>8, <1>9 DEF ChoosePort

LEMMA SavePortMeans ==
  ASSUME DeploymentTypeOK, NEW c \in Commands, SavePort(c)
  PROVE  LET t == TenantOf[c] IN
         /\ CommandMoves(c) /\ SameFlags(c)
         /\ command[c].pc = "save_port" /\ command'[c].port = command[c].port
         /\ row'[t].status = row[t].status
         /\ \/ command'[c].pc = "database" /\ row'[t].port = command[c].port
            \/ command'[c].pc = "undo_site" /\ row'[t].port = row[t].port
         /\ UNCHANGED <<container, site, serving, stale>>
<1> DEFINE t == TenantOf[c]
           ok == Unique(t, command[c].port)
<1>1. "database" \in Pcs /\ "undo_site" \in Pcs
  BY DEF Pcs, ToolkitPcs
<1>2. /\ OnlyRow(t) /\ row'[t].status = row[t].status
      /\ OnlyCommand(c) /\ SameFlags(c) /\ command'[c].port = command[c].port
      /\ \/ command'[c].pc = "database" /\ row'[t].port = command[c].port
         \/ command'[c].pc = "undo_site" /\ row'[t].port = row[t].port
  <2>1. CASE ok
    <3>1. row' = [row EXCEPT ![t].port = command[c].port] /\ Go(c, "database")
      BY <2>1 DEF SavePort
    <3>2. OnlyRow(t) /\ row'[t].status = row[t].status /\ row'[t].port = command[c].port
      BY <2>1, <3>1, PortMeans, CommandFacts
    <3>3. QED
      BY <1>1, <3>1, <3>2, GoMeans
  <2>2. CASE ~ok
    <3>1. row' = row /\ Go(c, "undo_site")
      BY <2>2 DEF SavePort
    <3>2. OnlyRow(t) /\ row'[t].status = row[t].status /\ row'[t].port = row[t].port
      BY <3>1, SameRow, CommandFacts
    <3>3. QED
      BY <1>1, <3>1, <3>2, GoMeans
  <2>3. QED
    BY <2>1, <2>2
<1>3. UNCHANGED <<container, site, serving, stale, database, op, failures, ops>> /\ collided' \in BOOLEAN
  BY DEF SavePort, nginx
<1>4. CommandMoves(c)
  BY <1>2, <1>3, CommandFacts, SameContainer, SameSite, SameServing, TypeFacts DEF CommandMoves, Counters
<1>5. QED
  BY <1>2, <1>3, <1>4 DEF SavePort

LEMMA DatabaseMeans ==
  ASSUME DeploymentTypeOK, NEW c \in Commands, NEW ok \in BOOLEAN, CreateDatabase(c, ok)
  PROVE  /\ CommandMoves(c) /\ SameFlags(c)
         /\ command[c].pc = "database" /\ command'[c].port = command[c].port
         /\ command'[c].pc \in {"undo_site", "container"}
         /\ UNCHANGED <<row, container, site, serving, stale>>
<1> DEFINE t == TenantOf[c]
<1>1. "container" \in Pcs /\ "undo_site" \in Pcs
  BY DEF Pcs, ToolkitPcs
<1>2. database' \in [Tenants -> {"none", "role", "both"}] /\ failures' \in 0..MaxFailures
  BY FailsMeans, TypeFacts DEF CreateDatabase
<1>3. /\ OnlyCommand(c) /\ SameFlags(c) /\ command'[c].port = command[c].port
      /\ command'[c].pc \in {"undo_site", "container"}
  <2>1. CASE database[t] = "none" /\ ok
    <3>1. command' = [command EXCEPT ![c].provisioned = TRUE, ![c].pc = "container"]
      BY <2>1 DEF CreateDatabase
    <3> DEFINE q == [[command[c] EXCEPT !.provisioned = TRUE] EXCEPT !.pc = "container"]
    <3>2. command[c] \in CommandRow
      BY TypeFacts
    <3>3. q \in CommandRow
      BY <1>1, <3>2 DEF CommandRow
    <3>4. command'[c] = q /\ OnlyCommand(c)
      BY <3>1, <3>3, TypeFacts DEF OnlyCommand
    <3>5. QED
      BY <3>2, <3>4 DEF CommandRow, SameFlags
  <2>2. CASE ~(database[t] = "none" /\ ok)
    <3>1. Go(c, "undo_site")
      BY <2>2 DEF CreateDatabase
    <3>2. QED
      BY <1>1, <3>1, GoMeans
  <2>3. QED
    BY <2>1, <2>2
<1>4. UNCHANGED <<row, container, site, serving, stale, op, collided, ops>>
  BY DEF CreateDatabase, nginx
<1>5. CommandMoves(c)
  BY <1>2, <1>3, <1>4, CommandFacts, SameRow, SameContainer, SameSite, SameServing, TypeFacts
     DEF CommandMoves, Counters
<1>6. QED
  BY <1>3, <1>4, <1>5 DEF CreateDatabase

LEMMA RunMeans ==
  ASSUME DeploymentTypeOK, NEW c \in Commands, NEW ok \in BOOLEAN, RunContainer(c, ok)
  PROVE  LET t == TenantOf[c] IN
         /\ CommandMoves(c)
         /\ command[c].pc = "container" /\ command'[c].port = command[c].port
         /\ command'[c].created = command[c].created /\ command'[c].original = command[c].original
         /\ command'[c].wrote = command[c].wrote
         /\ \/ /\ command'[c].pc = "site" /\ command'[c].ran
               /\ container[t].port = 0 => container'[t].port = command[c].port
            \/ /\ command'[c].pc = "undo_site" /\ command'[c].ran = command[c].ran
               /\ CleanFailures => container'[t].port = container[t].port
         /\ UNCHANGED <<row, site, serving, stale>>
<1> DEFINE t == TenantOf[c]
           p == command[c].port
<1>1. "site" \in Pcs /\ "undo_site" \in Pcs /\ t \in Tenants /\ p \in 0..MaxPort
  BY CommandFacts DEF Pcs, ToolkitPcs
<1>2. failures' \in 0..MaxFailures
  BY FailsMeans, TypeFacts DEF RunContainer
<1>3. /\ OnlyContainer(t) /\ OnlyCommand(c) /\ command'[c].port = command[c].port
      /\ command'[c].created = command[c].created /\ command'[c].original = command[c].original
      /\ command'[c].wrote = command[c].wrote
      /\ \/ /\ command'[c].pc = "site" /\ command'[c].ran
            /\ container[t].port = 0 => container'[t].port = command[c].port
         \/ /\ command'[c].pc = "undo_site" /\ command'[c].ran = command[c].ran
            /\ CleanFailures => container'[t].port = container[t].port
  <2>1. CASE ok
    <3>1. /\ container' = [container EXCEPT ![t] = Started(t, p)]
          /\ command' = [command EXCEPT ![c].ran = TRUE, ![c].pc = "site"]
      BY <2>1 DEF RunContainer
    <3> DEFINE q == [[command[c] EXCEPT !.ran = TRUE] EXCEPT !.pc = "site"]
    <3>2. command[c] \in CommandRow
      BY TypeFacts
    <3>3. q \in CommandRow
      BY <1>1, <3>2 DEF CommandRow
    <3>4. command'[c] = q /\ OnlyCommand(c)
      BY <3>1, <3>3, TypeFacts DEF OnlyCommand
    <3>5. /\ command'[c].pc = "site" /\ command'[c].ran /\ command'[c].port = command[c].port
          /\ command'[c].created = command[c].created
          /\ command'[c].original = command[c].original /\ command'[c].wrote = command[c].wrote
      BY <3>2, <3>4 DEF CommandRow
    <3>6. /\ Started(t, p) \in Container
          /\ container[t].port = 0 => Started(t, p).port = p
      BY <1>1, StartedFits
    <3>7. OnlyContainer(t) /\ container'[t] = Started(t, p)
      BY <1>1, <3>1, <3>6, ContainerMeans
    <3>8. QED
      BY <3>4, <3>5, <3>6, <3>7
  <2>2. CASE ~ok
    <3>1. PICK left \in LeftByRun(t, p) : container' = [container EXCEPT ![t] = left]
      BY <2>2 DEF RunContainer
    <3>2. left \in Container /\ (CleanFailures => left.port = container[t].port)
      BY <1>1, LeftFits
    <3>3. OnlyContainer(t) /\ container'[t] = left
      BY <1>1, <3>1, <3>2, ContainerMeans
    <3>4. Go(c, "undo_site")
      BY <2>2 DEF RunContainer
    <3>5. /\ OnlyCommand(c) /\ SameFlags(c)
          /\ command'[c].pc = "undo_site" /\ command'[c].port = command[c].port
      BY <1>1, <3>4, GoMeans
    <3>6. QED
      BY <3>2, <3>3, <3>5 DEF SameFlags
  <2>3. QED
    BY <2>1, <2>2
<1>4. UNCHANGED <<row, site, serving, stale, database, op, collided, ops>>
  BY DEF RunContainer, nginx
<1>5. CommandMoves(c)
  BY <1>2, <1>3, <1>4, CommandFacts, SameRow, SameSite, SameServing, TypeFacts DEF CommandMoves, Counters
<1>6. QED
  BY <1>3, <1>4, <1>5 DEF RunContainer

LEMMA WriteSiteMeans ==
  ASSUME DeploymentTypeOK, NEW c \in Commands, NEW ok \in BOOLEAN, WriteSite(c, ok)
  PROVE  LET t == TenantOf[c] IN
         /\ CommandMoves(c) /\ command[c].pc = "site"
         /\ command'[c].port = command[c].port /\ command'[c].ran = command[c].ran
         /\ command'[c].created = command[c].created /\ command'[c].original = command[c].original
         /\ \/ /\ command'[c].pc = "reload" /\ command'[c].wrote
               /\ site'[t] = command[c].port
            \/ /\ command'[c].pc = "undo_site" /\ site' = site
               /\ command[c].wrote => command'[c].wrote
         /\ UNCHANGED <<row, container, serving, stale>>
<1> DEFINE t == TenantOf[c]
           moved(pc, w) == [[command[c] EXCEPT !.wrote = w] EXCEPT !.pc = pc]
<1>1. "reload" \in Pcs /\ "undo_site" \in Pcs /\ t \in Tenants /\ command[c].port \in 0..MaxPort
  BY CommandFacts DEF Pcs, ToolkitPcs
<1>2. command[c] \in CommandRow
  BY TypeFacts
<1>3. PICK pc \in {"reload", "undo_site"}, w \in BOOLEAN :
        /\ command' = [command EXCEPT ![c].wrote = w, ![c].pc = pc]
        /\ command[c].wrote => w
        /\ \/ pc = "reload" /\ w /\ site' = [site EXCEPT ![t] = command[c].port]
           \/ pc = "undo_site" /\ site' = site
  <2>1. command[c].wrote \in BOOLEAN
    BY CommandFacts
  <2>2. CASE ok
    BY <2>2 DEF WriteSite
  <2>3. CASE ~ok
    <3>1. PICK wrote \in {command[c].wrote, TRUE} :
            command' = [command EXCEPT ![c].wrote = wrote, ![c].pc = "undo_site"]
      BY <2>3 DEF WriteSite
    <3>2. site' = site /\ wrote \in BOOLEAN /\ (command[c].wrote => wrote)
      BY <2>1, <2>3, <3>1 DEF WriteSite
    <3>3. QED
      BY <3>1, <3>2
  <2>4. QED
    BY <2>2, <2>3
<1> DEFINE q == moved(pc, w)
<1>4. q \in CommandRow
  BY <1>1, <1>2 DEF CommandRow
<1>5. command'[c] = q /\ OnlyCommand(c)
  BY <1>3, <1>4, TypeFacts DEF OnlyCommand
<1>6. /\ command'[c].pc = pc /\ command'[c].wrote = w
      /\ command'[c].port = command[c].port /\ command'[c].ran = command[c].ran
      /\ command'[c].created = command[c].created /\ command'[c].original = command[c].original
  BY <1>2, <1>5 DEF CommandRow
<1>7. OnlySite(t) /\ (pc = "reload" => site'[t] = command[c].port)
  BY <1>1, <1>3, TypeFacts DEF OnlySite
<1>8. UNCHANGED <<row, container, serving, stale, database, op, collided, ops>>
  BY DEF WriteSite
<1>9. failures' \in 0..MaxFailures
  BY FailsMeans, FailuresTyped DEF WriteSite
<1>10. CommandMoves(c)
  BY <1>5, <1>7, <1>8, <1>9, CommandFacts, SameRow, SameContainer, SameServing, SameCounters
     DEF CommandMoves
<1>11. QED
  BY <1>3, <1>6, <1>7, <1>8, <1>10 DEF WriteSite

LEMMA ReloadMeans ==
  ASSUME DeploymentTypeOK, NEW c \in Commands, NEW ok \in BOOLEAN, Reload(c, ok)
  PROVE  /\ CommandMoves(c) /\ SameFlags(c)
         /\ command[c].pc = "reload" /\ command'[c].pc \in {"finish", "undo_site"}
         /\ command'[c].port = command[c].port
         /\ serving' = site \/ (serving' = serving /\ stale' = stale)
         /\ UNCHANGED <<row, container, site>>
<1> DEFINE t == TenantOf[c]
<1>1. t \in Tenants
  BY CommandFacts
<1>2. PICK pc \in {"finish", "undo_site"} : Go(c, pc)
  BY DEF Reload
<1>3. pc \in Pcs
  BY DEF Pcs, ToolkitPcs
<1>4. /\ OnlyCommand(c) /\ SameFlags(c) /\ command'[c].pc = pc
      /\ command'[c].port = command[c].port
  BY <1>2, <1>3, GoMeans
<1>5. (serving' = site /\ stale' = {}) \/ (serving' = serving /\ stale' = stale)
  BY DEF Reload, Loads
<1>6. OnlyServing(t)
  BY <1>1, <1>5, TypeFacts DEF OnlyServing
<1>7. UNCHANGED <<row, container, site, database, op, collided, ops>>
  BY DEF Reload
<1>8. failures' \in 0..MaxFailures
  BY FailsMeans, FailuresTyped DEF Reload
<1>9. CommandMoves(c)
  BY <1>1, <1>4, <1>6, <1>7, <1>8, SameRow, SameContainer, SameSite, SameCounters DEF CommandMoves
<1>10. QED
  BY <1>4, <1>5, <1>7, <1>9 DEF Reload

LEMMA FinishMeans ==
  ASSUME DeploymentTypeOK, NEW c \in Commands, NEW ok \in BOOLEAN, FinishDeploy(c, ok)
  PROVE  LET t == TenantOf[c] IN
         /\ CommandMoves(c) /\ command[c].pc = "finish"
         /\ row'[t].port = row[t].port
         /\ \/ /\ command'[c].pc = "idle" /\ ~command'[c].wrote /\ ~command'[c].ran
               /\ row'[t].status = "running"
            \/ /\ command'[c].pc = "undo_site" /\ SameFlags(c) /\ row'[t].status = row[t].status
         /\ UNCHANGED <<container, site, serving, stale>>
<1> DEFINE t == TenantOf[c]
<1>1. "undo_site" \in Pcs /\ t \in Tenants /\ "running" \in Statuses
  BY CommandFacts DEF Pcs, ToolkitPcs, Statuses
<1>2. failures' \in 0..MaxFailures
  BY FailsMeans, TypeFacts DEF FinishDeploy
<1>3. /\ OnlyRow(t) /\ OnlyCommand(c) /\ row'[t].port = row[t].port
      /\ \/ /\ command'[c].pc = "idle" /\ ~command'[c].wrote /\ ~command'[c].ran
            /\ row'[t].status = "running"
         \/ /\ command'[c].pc = "undo_site" /\ SameFlags(c) /\ row'[t].status = row[t].status
  <2>1. CASE ok
    <3>1. SetStatus(t, "running") /\ command' = [command EXCEPT ![c] = NoCommand]
      BY <2>1 DEF FinishDeploy
    <3>2. OnlyRow(t) /\ row'[t].port = row[t].port /\ row'[t].status = "running"
      BY <1>1, <3>1, StatusMeans
    <3>3. QED
      BY <3>1, <3>2, EndMeans
  <2>2. CASE ~ok
    <3>1. row' = row /\ Go(c, "undo_site")
      BY <2>2 DEF FinishDeploy
    <3>2. OnlyRow(t)
      BY <1>1, <3>1, SameRow
    <3>3. QED
      BY <1>1, <3>1, <3>2, GoMeans
  <2>3. QED
    BY <2>1, <2>2
<1>4. UNCHANGED <<container, site, serving, stale, database, op, collided, ops>>
  BY DEF FinishDeploy, nginx
<1>5. CommandMoves(c)
  BY <1>1, <1>2, <1>3, <1>4, SameContainer, SameSite, SameServing, SameCounters DEF CommandMoves
<1>6. QED
  BY <1>3, <1>4, <1>5 DEF FinishDeploy

LEMMA UndoMeans ==
  ASSUME DeploymentTypeOK, NEW c \in Commands, NEW pc, NEW mayFail \in BOOLEAN, NEW next \in Pcs,
         Undo(c, pc, mayFail, next)
  PROVE  /\ command[c].pc = pc /\ OnlyCommand(c) /\ SameFlags(c) /\ command'[c].pc = next
         /\ failures' \in 0..MaxFailures
<1>1. command[c].pc = pc /\ Go(c, next)
  BY DEF Undo
<1>2. failures' \in 0..MaxFailures
  <2>1. CASE mayFail
    BY <2>1, FailsMeans DEF Undo
  <2>2. CASE ~mayFail
    BY <2>2, FailuresTyped DEF Undo
  <2>3. QED
    BY <2>1, <2>2
<1>3. QED
  BY <1>1, <1>2, GoMeans

LEMMA RemoveSiteMeans ==
  ASSUME DeploymentTypeOK, NEW c \in Commands, NEW failed \in BOOLEAN, RemoveSite(c, failed)
  PROVE  LET t == TenantOf[c] IN
         /\ CommandMoves(c) /\ SameFlags(c)
         /\ command[c].pc = "undo_site" /\ command'[c].pc = "undo_container"
         /\ site'[t] \in {0, site[t]}
         /\ CleanFailures /\ (command[c].created \/ command[c].wrote) => site'[t] = 0
         /\ UNCHANGED <<row, container, serving, stale>>
<1> DEFINE t == TenantOf[c]
<1>1. "undo_container" \in Pcs /\ t \in Tenants
  BY CommandFacts DEF Pcs, ToolkitPcs
<1>2. Undo(c, "undo_site", failed, "undo_container")
  BY DEF RemoveSite
<1>3. /\ command[c].pc = "undo_site" /\ OnlyCommand(c) /\ SameFlags(c)
      /\ command'[c].pc = "undo_container" /\ failures' \in 0..MaxFailures
  BY <1>1, <1>2, UndoMeans
<1>4. /\ OnlySite(t) /\ site'[t] \in {0, site[t]}
      /\ CleanFailures /\ (command[c].created \/ command[c].wrote) => site'[t] = 0
  <2>1. CASE RemovesSite(c) /\ ~failed
    <3>1. site' = [site EXCEPT ![t] = 0] /\ 0 \in 0..MaxPort
      BY <2>1 DEF RemoveSite
    <3>2. QED
      BY <1>1, <3>1, TypeFacts DEF OnlySite
  <2>2. CASE ~(RemovesSite(c) /\ ~failed)
    <3>1. site' = site
      BY <2>2 DEF RemoveSite
    <3>2. OnlySite(t)
      BY <1>1, <3>1, SameSite
    <3>3. ~(CleanFailures /\ RemovesSite(c))
      <4>1. failed => "unlink" \in Leaks
        BY DEF RemoveSite
      <4>2. QED
        BY <2>2, <4>1 DEF CleanFailures
    <3>4. QED
      BY <3>1, <3>2, <3>3 DEF RemovesSite
  <2>3. QED
    BY <2>1, <2>2
<1>5. UNCHANGED <<row, container, serving, stale, database, op, collided, ops>>
  BY DEF RemoveSite
<1>6. CommandMoves(c)
  BY <1>1, <1>3, <1>4, <1>5, SameRow, SameContainer, SameServing, SameCounters DEF CommandMoves
<1>7. QED
  BY <1>3, <1>4, <1>5, <1>6

LEMMA RemoveContainerMeans ==
  ASSUME DeploymentTypeOK, NEW c \in Commands, NEW failed \in BOOLEAN, RemoveContainer(c, failed)
  PROVE  LET t == TenantOf[c] IN
         /\ CommandMoves(c) /\ SameFlags(c)
         /\ command[c].pc = "undo_container" /\ command'[c].pc = "undo_database"
         /\ container'[t].port \in {0, container[t].port}
         /\ CleanFailures /\ command[c].ran => container'[t].port = 0
         /\ UNCHANGED <<row, site, serving, stale>>
<1> DEFINE t == TenantOf[c]
<1>1. "undo_database" \in Pcs /\ t \in Tenants
  BY CommandFacts DEF Pcs, ToolkitPcs
<1>2. Undo(c, "undo_container", failed, "undo_database")
  BY DEF RemoveContainer
<1>3. /\ command[c].pc = "undo_container" /\ OnlyCommand(c) /\ SameFlags(c)
      /\ command'[c].pc = "undo_database" /\ failures' \in 0..MaxFailures
  BY <1>1, <1>2, UndoMeans
<1>4. /\ OnlyContainer(t) /\ container'[t].port \in {0, container[t].port}
      /\ CleanFailures /\ command[c].ran => container'[t].port = 0
  <2>1. CASE command[c].ran /\ ~failed
    <3>1. container' = [container EXCEPT ![t] = NoContainer]
      BY <2>1 DEF RemoveContainer
    <3>2. NoContainer \in Container /\ NoContainer.port = 0
      BY DEF NoContainer, Container
    <3>3. QED
      BY <1>1, <3>1, <3>2, ContainerMeans
  <2>2. CASE ~(command[c].ran /\ ~failed)
    <3>1. container' = container
      BY <2>2 DEF RemoveContainer
    <3>2. OnlyContainer(t)
      BY <1>1, <3>1, SameContainer
    <3>3. ~(CleanFailures /\ command[c].ran)
      <4>1. failed => "remove" \in Leaks
        BY DEF RemoveContainer
      <4>2. QED
        BY <2>2, <4>1 DEF CleanFailures
    <3>4. QED
      BY <3>1, <3>2, <3>3
  <2>3. QED
    BY <2>1, <2>2
<1>5. UNCHANGED <<row, site, serving, stale, database, op, collided, ops>>
  BY DEF RemoveContainer, nginx
<1>6. CommandMoves(c)
  BY <1>1, <1>3, <1>4, <1>5, SameRow, SameSite, SameServing, SameCounters DEF CommandMoves
<1>7. QED
  BY <1>3, <1>4, <1>5, <1>6

LEMMA DropMeans ==
  ASSUME DeploymentTypeOK, NEW c \in Commands, NEW failed \in BOOLEAN, DropDatabase(c, failed)
  PROVE  /\ CommandMoves(c) /\ SameFlags(c)
         /\ command[c].pc = "undo_database" /\ command'[c].pc = "release"
         /\ UNCHANGED <<row, container, site, serving, stale>>
<1> DEFINE t == TenantOf[c]
<1>1. "release" \in Pcs /\ t \in Tenants
  BY CommandFacts DEF Pcs, ToolkitPcs
<1>2. Undo(c, "undo_database", failed, "release")
  BY DEF DropDatabase
<1>3. /\ command[c].pc = "undo_database" /\ OnlyCommand(c) /\ SameFlags(c)
      /\ command'[c].pc = "release" /\ failures' \in 0..MaxFailures
  BY <1>1, <1>2, UndoMeans
<1>4. database' \in [Tenants -> {"none", "role", "both"}]
  BY TypeFacts DEF DropDatabase
<1>5. UNCHANGED <<row, container, site, serving, stale, op, collided, ops>>
  BY DEF DropDatabase, nginx
<1>6. CommandMoves(c)
  BY <1>1, <1>3, <1>4, <1>5, SameRow, SameContainer, SameSite, SameServing, TypeFacts DEF CommandMoves, Counters
<1>7. QED
  BY <1>3, <1>5, <1>6

LEMMA ReleaseMeans ==
  ASSUME DeploymentTypeOK, NEW c \in Commands, ReleasePort(c)
  PROVE  LET t == TenantOf[c] IN
         /\ CommandMoves(c) /\ SameFlags(c)
         /\ command[c].pc = "release" /\ command'[c].pc = "failed"
         /\ row'[t].status = row[t].status
         /\ \/ row'[t].port = row[t].port /\ stale' = stale
            \/ /\ row'[t].port = 0 /\ (command[c].created \/ command[c].original = 0)
               /\ serving[t] # 0 => t \in stale'
         /\ UNCHANGED <<container, site, serving>>
<1> DEFINE t == TenantOf[c]
           releases == command[c].created \/ command[c].original = 0
<1>1. "failed" \in Pcs /\ t \in Tenants /\ 0 \in 0..MaxPort
  BY CommandFacts DEF Pcs, ToolkitPcs
<1>2. Go(c, "failed") /\ command[c].pc = "release"
  BY DEF ReleasePort
<1>3. OnlyCommand(c) /\ SameFlags(c) /\ command'[c].pc = "failed"
  BY <1>1, <1>2, GoMeans
<1>4. /\ OnlyRow(t) /\ row'[t].status = row[t].status
      /\ \/ row'[t].port = row[t].port /\ stale' = stale
         \/ row'[t].port = 0 /\ releases /\ (serving[t] # 0 => t \in stale')
  <2>1. CASE releases
    <3>1. /\ row' = [row EXCEPT ![t].port = 0] /\ Unique(t, 0)
          /\ serving[t] # 0 => t \in stale'
      BY <2>1 DEF ReleasePort, Releases, Unique
    <3>2. QED
      BY <1>1, <2>1, <3>1, PortMeans
  <2>2. CASE ~releases
    <3>1. row' = row /\ stale' = stale
      BY <2>2 DEF ReleasePort, Releases
    <3>2. QED
      BY <1>1, <3>1, SameRow
  <2>3. QED
    BY <2>1, <2>2
<1>5. UNCHANGED <<container, site, serving, database, op, collided, failures, ops>>
  BY DEF ReleasePort
<1>8. OnlyServing(t)
  <2>1. stale' = stale \/ stale' = stale \cup {t}
    BY DEF ReleasePort
  <2>2. QED
    BY <1>1, <1>5, <2>1, TypeFacts DEF OnlyServing
<1>6. CommandMoves(c)
  BY <1>1, <1>3, <1>4, <1>5, <1>8, SameContainer, SameSite, SameCounters, FailuresTyped DEF CommandMoves
<1>7. QED
  BY <1>2, <1>3, <1>4, <1>5, <1>6

LEMMA MarkFailedMeans ==
  ASSUME DeploymentTypeOK, NEW c \in Commands, MarkFailed(c)
  PROVE  LET t == TenantOf[c] IN
         /\ CommandMoves(c) /\ command[c].pc = "failed"
         /\ command'[c].pc = "idle" /\ ~command'[c].wrote /\ ~command'[c].ran
         /\ row'[t].port = row[t].port /\ row'[t].status = "failed"
         /\ UNCHANGED <<container, site, serving, stale>>
<1> DEFINE t == TenantOf[c]
<1>1. t \in Tenants /\ "failed" \in Statuses
  BY CommandFacts DEF Statuses
<1>2. SetStatus(t, "failed") /\ command' = [command EXCEPT ![c] = NoCommand]
  BY DEF MarkFailed
<1>3. OnlyRow(t) /\ row'[t].port = row[t].port /\ row'[t].status = "failed"
  BY <1>1, <1>2, StatusMeans
<1>4. OnlyCommand(c) /\ command'[c].pc = "idle" /\ ~command'[c].wrote /\ ~command'[c].ran
  BY <1>2, EndMeans
<1>5. UNCHANGED <<container, site, serving, stale, database, op, collided, failures, ops>>
  BY DEF MarkFailed, nginx
<1>6. CommandMoves(c)
  BY <1>1, <1>3, <1>4, <1>5, SameContainer, SameSite, SameServing, SameCounters, FailuresTyped DEF CommandMoves
<1>7. QED
  BY <1>3, <1>4, <1>5, <1>6 DEF MarkFailed

LEMMA ApiChooseMeans ==
  ASSUME DeploymentTypeOK, NEW c \in Commands, ApiChoosePort(c)
  PROVE  LET t == TenantOf[c] IN
         /\ CommandMoves(c) /\ command[c].pc = "idle" /\ t \in Hosted
         /\ \/ command'[c].pc = "create"
            \/ command'[c].pc = "deploy" /\ ~Unused(t)
         /\ UNCHANGED <<row, container, site, serving, stale>>
<1> DEFINE t == TenantOf[c]
<1>1. "create" \in Pcs /\ "deploy" \in Pcs /\ t \in Tenants
  BY CommandFacts DEF Pcs, ApiPcs
<1>2. OnlyCommand(c) /\ (command'[c].pc = "create" \/ (command'[c].pc = "deploy" /\ ~Unused(t)))
  <2>1. CASE Unused(t)
    <3>1. PICK p \in 0..MaxPort : p = NextFreePort(t, 1)
      BY <1>1, NextFreePortType
    <3>2. command' = [command EXCEPT ![c].pc = "create", ![c].port = p]
      BY <2>1, <3>1 DEF ApiChoosePort, Unused
    <3>3. QED
      BY <1>1, <3>2, GoWithPort
  <2>2. CASE ~Unused(t)
    <3>1. Go(c, "deploy")
      BY <2>2 DEF ApiChoosePort, Unused
    <3>2. QED
      BY <1>1, <2>2, <3>1, GoMeans
  <2>3. QED
    BY <2>1, <2>2
<1>3. UNCHANGED <<row, container, site, serving, stale, database, op, collided, failures, ops>>
  BY DEF ApiChoosePort, nginx
<1>4. CommandMoves(c)
  BY <1>1, <1>2, <1>3, SameRow, SameContainer, SameSite, SameServing, SameCounters, FailuresTyped
     DEF CommandMoves
<1>5. QED
  BY <1>2, <1>3, <1>4 DEF ApiChoosePort

LEMMA ApiCreateMeans ==
  ASSUME DeploymentTypeOK, NEW c \in Commands, ApiCreate(c)
  PROVE  LET t == TenantOf[c] IN
         /\ CommandMoves(c) /\ command[c].pc = "create"
         /\ \/ /\ command'[c].pc = "idle" /\ ~command'[c].wrote /\ ~command'[c].ran /\ row' = row
            \/ command'[c].pc = "deploy" /\ ~Unused(t) /\ row' = row
            \/ /\ command'[c].pc = "deploy" /\ Unused(t) /\ row'[t].status = "pending"
         /\ UNCHANGED <<container, site, serving, stale>>
<1> DEFINE t == TenantOf[c]
           p == command[c].port
<1>1. "deploy" \in Pcs /\ t \in Tenants /\ p \in 0..MaxPort /\ "pending" \in Statuses
  BY CommandFacts DEF Pcs, ApiPcs, Statuses
<1>2. /\ OnlyCommand(c) /\ OnlyRow(t)
      /\ \/ /\ command'[c].pc = "idle" /\ ~command'[c].wrote /\ ~command'[c].ran /\ row' = row
         \/ command'[c].pc = "deploy" /\ ~Unused(t) /\ row' = row
         \/ /\ command'[c].pc = "deploy" /\ Unused(t) /\ row'[t].status = "pending"
  <2>1. CASE Unused(t) /\ ~Unique(t, p)
    <3>1. command' = [command EXCEPT ![c] = NoCommand] /\ row' = row
      BY <2>1 DEF ApiCreate, Unused
    <3>2. QED
      BY <1>1, <3>1, EndMeans, SameRow
  <2>2. CASE ~Unused(t)
    <3>1. row' = row /\ Go(c, "deploy")
      BY <2>2 DEF ApiCreate, Unused, Go
    <3>2. QED
      BY <1>1, <2>2, <3>1, GoMeans, SameRow
  <2>3. CASE Unused(t) /\ Unique(t, p)
    <3>1. row' = [row EXCEPT ![t] = [status |-> "pending", port |-> p]] /\ Go(c, "deploy")
      BY <2>3 DEF ApiCreate, Unused, Go
    <3>2. OnlyRow(t) /\ row'[t].status = "pending"
      BY <1>1, <2>3, <3>1, RowMeans
    <3>3. QED
      BY <1>1, <2>3, <3>1, <3>2, GoMeans
  <2>4. QED
    BY <2>1, <2>2, <2>3
<1>3. UNCHANGED <<container, site, serving, stale, database, op, failures, ops>> /\ collided' \in BOOLEAN
  BY DEF ApiCreate, nginx
<1>4. CommandMoves(c)
  BY <1>1, <1>2, <1>3, SameContainer, SameSite, SameServing, TypeFacts DEF CommandMoves, Counters
<1>5. QED
  BY <1>2, <1>3, <1>4 DEF ApiCreate

LEMMA ApiDeployMeans ==
  ASSUME DeploymentTypeOK, NEW c \in Commands, ApiDeploy(c)
  PROVE  LET t == TenantOf[c] IN
         /\ CommandMoves(c) /\ command[c].pc = "deploy"
         /\ \/ command'[c].pc = "idle" /\ ~command'[c].wrote /\ ~command'[c].ran
            \/ command'[c].pc = "mark" /\ command'[c].port = row[t].port
         /\ UNCHANGED <<row, container, site, serving, stale>>
<1> DEFINE t == TenantOf[c]
<1>1. "mark" \in Pcs /\ t \in Tenants /\ row[t].port \in 0..MaxPort
  BY CommandFacts DEF Pcs, ApiPcs
<1>2. /\ OnlyCommand(c)
      /\ \/ command'[c].pc = "idle" /\ ~command'[c].wrote /\ ~command'[c].ran
         \/ command'[c].pc = "mark" /\ command'[c].port = row[t].port
  <2>1. CASE row[t].status = "deleted"
    <3>1. command' = [command EXCEPT ![c] = NoCommand]
      BY <2>1 DEF ApiDeploy
    <3>2. QED
      BY <3>1, EndMeans
  <2>2. CASE row[t].status # "deleted"
    <3>1. PICK p \in 0..MaxPort : p = row[t].port
      BY <1>1
    <3>2. command' = [command EXCEPT ![c].pc = "mark", ![c].port = p]
      BY <2>2, <3>1 DEF ApiDeploy
    <3>3. OnlyCommand(c) /\ command'[c].pc = "mark" /\ command'[c].port = p
      BY <1>1, <3>2, GoWithPort
    <3>4. QED
      BY <3>1, <3>3
  <2>3. QED
    BY <2>1, <2>2
<1>3. UNCHANGED <<row, container, site, serving, stale, database, op, collided, failures, ops>>
  BY DEF ApiDeploy, nginx
<1>4. CommandMoves(c)
  BY <1>1, <1>2, <1>3, SameRow, SameContainer, SameSite, SameServing, SameCounters, FailuresTyped
     DEF CommandMoves
<1>5. QED
  BY <1>2, <1>3, <1>4 DEF ApiDeploy

LEMMA ApiRemoteMeans ==
  ASSUME DeploymentTypeOK, NEW c \in Commands, ApiRemotePort(c)
  PROVE  LET t == TenantOf[c] IN
         /\ CommandMoves(c) /\ command[c].pc = "remote" /\ row'[t].status = row[t].status
         /\ \/ /\ command'[c].pc \in {"remote_restart", "failed"} /\ row' = row
               /\ command'[c].port = command[c].port
            \/ /\ command'[c].pc = "remote_run" /\ container[t].port = 0
               /\ \/ row'[t].port = command'[c].port
                  \/ row' = row /\ command'[c].port = command[c].port
         /\ UNCHANGED <<container, site, serving, stale>>
<1> DEFINE t == TenantOf[c]
<1>1. /\ {"remote_restart", "remote_run", "failed"} \subseteq Pcs
      /\ t \in Tenants /\ command[c].port \in 0..MaxPort
  BY CommandFacts DEF Pcs, ApiPcs
<1>2. PICK p \in 0..MaxPort : p = RemotePort(t, command[c].port)
  BY <1>1, RemotePortType
<1>3. /\ OnlyCommand(c) /\ OnlyRow(t) /\ row'[t].status = row[t].status
      /\ \/ /\ command'[c].pc \in {"remote_restart", "failed"} /\ row' = row
            /\ command'[c].port = command[c].port
         \/ /\ command'[c].pc = "remote_run" /\ container[t].port = 0
            /\ \/ row'[t].port = command'[c].port
               \/ row' = row /\ command'[c].port = command[c].port
  <2>1. CASE container[t].port # 0
    <3>1. Go(c, "remote_restart") /\ row' = row
      BY <2>1 DEF ApiRemotePort
    <3>2. QED
      BY <1>1, <3>1, GoMeans, SameRow
  <2>2. CASE container[t].port = 0 /\ (p = 0 \/ (p # command[c].port /\ ~Unique(t, p)))
    <3>1. Go(c, "failed") /\ row' = row
      BY <1>2, <2>2 DEF ApiRemotePort
    <3>2. QED
      BY <1>1, <3>1, GoMeans, SameRow
  <2>3. CASE container[t].port = 0 /\ ~(p = 0 \/ (p # command[c].port /\ ~Unique(t, p)))
    <3>1. /\ command' = [command EXCEPT ![c].pc = "remote_run", ![c].port = p]
          /\ row' = IF p # command[c].port THEN [row EXCEPT ![t].port = p] ELSE row
      BY <1>2, <2>3 DEF ApiRemotePort
    <3>2. OnlyCommand(c) /\ command'[c].pc = "remote_run" /\ command'[c].port = p
      BY <1>1, <3>1, GoWithPort
    <3>3. CASE p # command[c].port
      <4>1. Unique(t, p) /\ row' = [row EXCEPT ![t].port = p]
        BY <2>3, <3>1, <3>3
      <4>2. OnlyRow(t) /\ row'[t].status = row[t].status /\ row'[t].port = p
        BY <1>1, <4>1, PortMeans
      <4>3. QED
        BY <2>3, <3>2, <4>2
    <3>4. CASE p = command[c].port
      <4>1. row' = row
        BY <3>1, <3>4
      <4>2. QED
        BY <1>1, <2>3, <3>2, <3>4, <4>1, SameRow
    <3>5. QED
      BY <3>3, <3>4
  <2>4. QED
    BY <2>1, <2>2, <2>3
<1>4. UNCHANGED <<container, site, serving, stale, database, op, collided, failures, ops>>
  BY DEF ApiRemotePort, nginx
<1>5. CommandMoves(c)
  BY <1>1, <1>3, <1>4, SameContainer, SameSite, SameServing, SameCounters, FailuresTyped DEF CommandMoves
<1>6. QED
  BY <1>3, <1>4, <1>5 DEF ApiRemotePort

LEMMA ApiRunMeans ==
  ASSUME DeploymentTypeOK, NEW c \in Commands, NEW ok \in BOOLEAN, ApiRun(c, ok)
  PROVE  LET t == TenantOf[c] IN
         /\ CommandMoves(c) /\ command[c].pc \in {"remote_restart", "remote_run"}
         /\ command'[c].port = command[c].port
         /\ \/ /\ command'[c].pc = "remote_save"
               /\ container'[t].port \in {container[t].port, command[c].port}
            \/ /\ command'[c].pc = "failed"
               /\ CleanFailures => container'[t].port = container[t].port
         /\ UNCHANGED <<row, site, serving, stale>>
<1> DEFINE t == TenantOf[c]
           p == command[c].port
           fits == command[c].pc = "remote_restart" <=> container[t].port # 0
<1>1. "remote_save" \in Pcs /\ "failed" \in Pcs /\ t \in Tenants /\ p \in 0..MaxPort
  BY CommandFacts DEF Pcs, ApiPcs
<1>2. failures' \in 0..MaxFailures
  BY FailsMeans, TypeFacts DEF ApiRun
<1>3. /\ OnlyCommand(c) /\ OnlyContainer(t) /\ command'[c].port = command[c].port
      /\ \/ /\ command'[c].pc = "remote_save"
            /\ container'[t].port \in {container[t].port, command[c].port}
         \/ /\ command'[c].pc = "failed"
            /\ CleanFailures => container'[t].port = container[t].port
  <2>1. CASE ok
    <3>1. container' = [container EXCEPT ![t] = Started(t, p)] /\ Go(c, "remote_save")
      BY <2>1 DEF ApiRun
    <3>2. Started(t, p) \in Container /\ Started(t, p).port \in {container[t].port, p}
      BY <1>1, StartedFits
    <3>3. OnlyContainer(t) /\ container'[t] = Started(t, p)
      BY <1>1, <3>1, <3>2, ContainerMeans
    <3>4. /\ OnlyCommand(c) /\ command'[c].pc = "remote_save"
          /\ command'[c].port = command[c].port
      BY <1>1, <3>1, GoMeans
    <3>5. QED
      BY <3>2, <3>3, <3>4
  <2>2. CASE ~ok
    <3>1. PICK left \in IF fits THEN LeftByRun(t, p) ELSE {container[t]} :
            container' = [container EXCEPT ![t] = left]
      BY <2>2 DEF ApiRun
    <3>2. left \in Container /\ (CleanFailures => left.port = container[t].port)
      <4>1. CASE fits
        BY <1>1, <3>1, <4>1, LeftFits
      <4>2. CASE ~fits
        BY <1>1, <3>1, <4>2, TypeFacts
      <4>3. QED
        BY <4>1, <4>2
    <3>3. OnlyContainer(t) /\ container'[t] = left
      BY <1>1, <3>1, <3>2, ContainerMeans
    <3>4. Go(c, "failed")
      BY <2>2 DEF ApiRun
    <3>5. OnlyCommand(c) /\ command'[c].pc = "failed" /\ command'[c].port = command[c].port
      BY <1>1, <3>4, GoMeans
    <3>6. QED
      BY <3>2, <3>3, <3>5
  <2>3. QED
    BY <2>1, <2>2
<1>4. UNCHANGED <<row, site, serving, stale, database, op, collided, ops>>
  BY DEF ApiRun, nginx
<1>5. CommandMoves(c)
  BY <1>1, <1>2, <1>3, <1>4, SameRow, SameSite, SameServing, SameCounters DEF CommandMoves
<1>6. QED
  BY <1>3, <1>4, <1>5 DEF ApiRun

LEMMA ApiFinishMeans ==
  ASSUME DeploymentTypeOK, NEW c \in Commands, ApiFinish(c)
  PROVE  LET t == TenantOf[c] IN
         /\ CommandMoves(c) /\ command[c].pc = "remote_save"
         /\ \/ /\ command'[c].pc = "idle" /\ ~command'[c].wrote /\ ~command'[c].ran
               /\ row'[t].status = "running" /\ row'[t].port = command[c].port
            \/ command'[c].pc = "failed" /\ row' = row
         /\ UNCHANGED <<container, site, serving, stale>>
<1> DEFINE t == TenantOf[c]
           p == command[c].port
<1>1. "failed" \in Pcs /\ t \in Tenants /\ p \in 0..MaxPort /\ "running" \in Statuses
  BY CommandFacts DEF Pcs, ApiPcs, Statuses
<1>2. /\ OnlyCommand(c) /\ OnlyRow(t)
      /\ \/ /\ command'[c].pc = "idle" /\ ~command'[c].wrote /\ ~command'[c].ran
            /\ row'[t].status = "running" /\ row'[t].port = command[c].port
         \/ command'[c].pc = "failed" /\ row' = row
  <2>1. CASE Unique(t, p)
    <3>1. /\ row' = [row EXCEPT ![t] = [status |-> "running", port |-> p]]
          /\ command' = [command EXCEPT ![c] = NoCommand]
      BY <2>1 DEF ApiFinish
    <3>2. OnlyRow(t) /\ row'[t].status = "running" /\ row'[t].port = p
      BY <1>1, <2>1, <3>1, RowMeans
    <3>3. QED
      BY <3>1, <3>2, EndMeans
  <2>2. CASE ~Unique(t, p)
    <3>1. Go(c, "failed") /\ row' = row
      BY <2>2 DEF ApiFinish
    <3>2. QED
      BY <1>1, <3>1, GoMeans, SameRow
  <2>3. QED
    BY <2>1, <2>2
<1>3. UNCHANGED <<container, site, serving, stale, database, op, collided, failures, ops>>
  BY DEF ApiFinish, nginx
<1>4. CommandMoves(c)
  BY <1>1, <1>2, <1>3, SameContainer, SameSite, SameServing, SameCounters, FailuresTyped DEF CommandMoves
<1>5. QED
  BY <1>2, <1>3, <1>4 DEF ApiFinish

-----------------------------------------------------------------------------
(* What each step of a command on an existing tenant changes. *)

LEMMA OpFacts ==
  ASSUME DeploymentTypeOK, NEW s \in Staff
  PROVE  /\ op \in [Staff -> OpRow] /\ op[s].tenant \in Tenants
         /\ op[s].saw \in Statuses
BY TypeFacts DEF OpRow

LEMMA NoOpFits == NoOp \in OpRow /\ NoOp.pc = "idle" /\ NoOp.kind = "none"
<1>1. (CHOOSE t \in Tenants : TRUE) \in Tenants
  OBVIOUS
<1>2. QED
  BY <1>1 DEF NoOp, OpRow, Statuses

LEMMA EndOpMeans ==
  ASSUME DeploymentTypeOK, NEW s \in Staff, op' = [op EXCEPT ![s] = NoOp]
  PROVE  OnlyOp(s) /\ op'[s].pc = "idle"
BY NoOpFits, OpFacts DEF OnlyOp

LEMMA SawMeans ==
  ASSUME DeploymentTypeOK, NEW s \in Staff, NEW status \in Statuses, Saw(s, status)
  PROVE  /\ OnlyOp(s) /\ op'[s].pc = "save" /\ op'[s].saw = status
         /\ op'[s].kind = op[s].kind /\ op'[s].tenant = op[s].tenant
<1> DEFINE q == [[op[s] EXCEPT !.pc = "save"] EXCEPT !.saw = status]
<1>1. op[s] \in OpRow /\ op \in [Staff -> OpRow]
  BY OpFacts
<1>2. q \in OpRow
  BY <1>1 DEF OpRow
<1>3. op' = [op EXCEPT ![s] = q]
  BY <1>1 DEF Saw
<1>4. OnlyOp(s) /\ op'[s] = q
  BY <1>1, <1>2, <1>3 DEF OnlyOp
<1>5. QED
  BY <1>1, <1>4 DEF OpRow

LEMMA BeginOpMeans ==
  ASSUME DeploymentTypeOK, NEW s \in Staff, NEW t \in Tenants,
         NEW kind \in {"stop", "start", "delete", "status"}, BeginOp(s, t, kind)
  PROVE  /\ OpMoves(s, t)
         /\ op'[s].pc = "docker" /\ op'[s].kind = kind
         /\ row[t].status # "none" /\ row'[t].status \in {row[t].status, "deleting"}
         /\ container' = container
<1> DEFINE q == [pc |-> "docker", kind |-> kind, tenant |-> t, saw |-> "none"]
<1>1. q \in OpRow
  BY DEF OpRow, Statuses
<1>2. OnlyOp(s) /\ op'[s] = q
  BY <1>1, OpFacts DEF BeginOp, OnlyOp
<1>3. OnlyRow(t) /\ row'[t].port = row[t].port /\ row'[t].status \in {row[t].status, "deleting"}
  <2>1. CASE kind = "delete"
    <3>1. SetStatus(t, "deleting") /\ "deleting" \in Statuses
      BY <2>1 DEF BeginOp, Statuses
    <3>2. QED
      BY <3>1, StatusMeans
  <2>2. CASE kind # "delete"
    <3>1. row' = row
      BY <2>2 DEF BeginOp
    <3>2. QED
      BY <3>1, SameRow
  <2>3. QED
    BY <2>1, <2>2
<1>4. UNCHANGED <<container, site, serving, stale, database, command, collided, failures>> /\ row[t].status # "none"
  BY DEF BeginOp, nginx
<1>5. ops' \in 0..MaxOps
  BY TypeFacts DEF BeginOp
<1>6. Counters
  BY <1>4, <1>5, TypeFacts DEF Counters
<1>7. OpMoves(s, t)
  BY <1>2, <1>3, <1>4, <1>6, SameContainer DEF OpMoves
<1>8. QED
  BY <1>2, <1>3, <1>4, <1>7

(* DockerStop, DockerStart, DockerRemove and DockerInspect. *)
LEMMA DockerMeans ==
  ASSUME DeploymentTypeOK, NEW s \in Staff,
         DockerStop(s) \/ DockerStart(s) \/ DockerRemove(s) \/ DockerInspect(s)
  PROVE  LET t == op[s].tenant IN
         /\ OpMoves(s, t) /\ row' = row
         /\ container'[t].port \in {0, container[t].port}
         /\ \/ op'[s].pc = "idle"
            \/ /\ op'[s].pc = "save" /\ op'[s].saw # "none" /\ op'[s].tenant = t
               /\ op'[s].kind = op[s].kind
               /\ op'[s].saw = "deleted" => op[s].kind = "delete" /\ container'[t].port = 0
<1> DEFINE t == op[s].tenant
<1>1. t \in Tenants /\ {"stopped", "running", "deleted", "degraded"} \subseteq Statuses
  BY OpFacts DEF Statuses
<1>2. UNCHANGED <<row, site, serving, stale, database, command, collided, failures, ops>>
  BY DEF DockerStop, DockerStart, DockerRemove, DockerInspect, nginx
<1>3. OnlyRow(t) /\ Counters
  BY <1>1, <1>2, SameRow, SameCounters, FailuresTyped
<1>4. [container[t] EXCEPT !.up = FALSE] \in Container /\ [container[t] EXCEPT !.up = TRUE] \in Container
      /\ [container[t] EXCEPT !.up = FALSE].port = container[t].port
      /\ [container[t] EXCEPT !.up = TRUE].port = container[t].port
  BY <1>1, TypeFacts DEF Container
<1>5. CASE DockerStop(s)
  <2>1. container' = [container EXCEPT ![t] = [container[t] EXCEPT !.up = FALSE]] /\ Saw(s, "stopped")
    BY <1>1, <1>5 DEF DockerStop
  <2>2. OnlyContainer(t) /\ container'[t].port = container[t].port
    BY <1>1, <1>4, <2>1, ContainerMeans
  <2>3. /\ OnlyOp(s) /\ op'[s].pc = "save" /\ op'[s].saw = "stopped"
        /\ op'[s].kind = op[s].kind /\ op'[s].tenant = t
    BY <1>1, <2>1, SawMeans
  <2>4. QED
    BY <1>2, <1>3, <2>2, <2>3 DEF OpMoves
<1>6. CASE DockerStart(s) /\ container[t].port # 0 /\ ~Bound(t, container[t].port)
  <2>1. container' = [container EXCEPT ![t] = [container[t] EXCEPT !.up = TRUE]] /\ Saw(s, "running")
    BY <1>1, <1>6 DEF DockerStart
  <2>2. OnlyContainer(t) /\ container'[t].port = container[t].port
    BY <1>1, <1>4, <2>1, ContainerMeans
  <2>3. /\ OnlyOp(s) /\ op'[s].pc = "save" /\ op'[s].saw = "running"
        /\ op'[s].kind = op[s].kind /\ op'[s].tenant = t
    BY <1>1, <2>1, SawMeans
  <2>4. QED
    BY <1>2, <1>3, <2>2, <2>3 DEF OpMoves
<1>7. CASE DockerStart(s) /\ ~(container[t].port # 0 /\ ~Bound(t, container[t].port))
  <2>1. container' = container /\ op' = [op EXCEPT ![s] = NoOp]
    BY <1>7 DEF DockerStart
  <2>2. OnlyContainer(t)
    BY <1>1, <2>1, SameContainer
  <2>3. QED
    BY <1>2, <1>3, <2>1, <2>2, EndOpMeans DEF OpMoves
<1>8. CASE DockerRemove(s)
  <2>1. container' = [container EXCEPT ![t] = NoContainer] /\ Saw(s, "deleted") /\ op[s].kind = "delete"
    BY <1>8 DEF DockerRemove
  <2>2. NoContainer \in Container /\ NoContainer.port = 0
    BY DEF NoContainer, Container
  <2>3. OnlyContainer(t) /\ container'[t].port = 0
    BY <1>1, <2>1, <2>2, ContainerMeans
  <2>4. /\ OnlyOp(s) /\ op'[s].pc = "save" /\ op'[s].saw = "deleted"
        /\ op'[s].kind = op[s].kind /\ op'[s].tenant = t
    BY <1>1, <2>1, SawMeans
  <2>5. QED
    BY <1>2, <1>3, <2>1, <2>3, <2>4 DEF OpMoves
<1>9. CASE DockerInspect(s)
  <2>1. PICK status \in {"stopped", "running", "degraded"} : Saw(s, status)
    BY <1>9 DEF DockerInspect
  <2>2. /\ OnlyOp(s) /\ op'[s].pc = "save" /\ op'[s].saw = status
        /\ op'[s].kind = op[s].kind /\ op'[s].tenant = t
    BY <1>1, <2>1, SawMeans
  <2>3. container' = container
    BY <1>9 DEF DockerInspect
  <2>4. OnlyContainer(t)
    BY <1>1, <2>3, SameContainer
  <2>5. QED
    BY <1>2, <1>3, <2>2, <2>3, <2>4 DEF OpMoves
<1>10. QED
  BY <1>5, <1>6, <1>7, <1>8, <1>9

LEMMA SaveOpMeans ==
  ASSUME DeploymentTypeOK, NEW s \in Staff, SaveOp(s)
  PROVE  LET t == op[s].tenant IN
         /\ OpMoves(s, t) /\ op[s].pc = "save" /\ op'[s].pc = "idle"
         /\ row'[t].status = op[s].saw /\ container' = container
<1> DEFINE t == op[s].tenant
<1>1. t \in Tenants /\ op[s].saw \in Statuses
  BY OpFacts
<1>2. SetStatus(t, op[s].saw) /\ op' = [op EXCEPT ![s] = NoOp] /\ op[s].pc = "save"
  BY DEF SaveOp
<1>3. OnlyRow(t) /\ row'[t].status = op[s].saw /\ row'[t].port = row[t].port
  <2>1. PICK status \in Statuses : status = op[s].saw
    BY <1>1
  <2>2. SetStatus(t, status)
    BY <1>2, <2>1
  <2>3. QED
    BY <1>1, <2>1, <2>2, StatusMeans
<1>4. UNCHANGED <<container, site, serving, stale, database, command, collided, failures, ops>>
  BY DEF SaveOp, nginx
<1>5. OpMoves(s, t)
  BY <1>1, <1>2, <1>3, <1>4, EndOpMeans, SameContainer, SameCounters, FailuresTyped DEF OpMoves
<1>6. QED
  BY <1>2, <1>3, <1>4, <1>5, EndOpMeans

LEMMA OpFailsMeans ==
  ASSUME DeploymentTypeOK, NEW s \in Staff, OpFails(s)
  PROVE  LET t == op[s].tenant IN
         /\ OpMoves(s, t) /\ op'[s].pc = "idle"
         /\ row'[t].status \in {row[t].status, "degraded"} /\ container' = container
<1> DEFINE t == op[s].tenant
<1>1. t \in Tenants
  BY OpFacts
<1>2. op' = [op EXCEPT ![s] = NoOp] /\ Fails
  BY DEF OpFails
<1>3. /\ OnlyRow(t) /\ row'[t].status \in {row[t].status, "degraded"}
      /\ row'[t].port = row[t].port
  <2>1. CASE op[s].kind = "status"
    <3>1. SetStatus(t, "degraded") /\ "degraded" \in Statuses
      BY <2>1 DEF OpFails, Statuses
    <3>2. QED
      BY <1>1, <3>1, StatusMeans
  <2>2. CASE op[s].kind # "status"
    <3>1. row' = row
      BY <2>2 DEF OpFails
    <3>2. QED
      BY <1>1, <3>1, SameRow
  <2>3. QED
    BY <2>1, <2>2
<1>4. UNCHANGED <<container, site, serving, stale, database, command, collided, ops>>
  BY DEF OpFails, nginx
<1>5. OpMoves(s, t)
  BY <1>1, <1>2, <1>3, <1>4, EndOpMeans, SameContainer, SameCounters, FailsMeans DEF OpMoves
<1>6. QED
  BY <1>2, <1>3, <1>4, <1>5, EndOpMeans

-----------------------------------------------------------------------------
(* Types: they need no care of anybody. *)

LEMMA DeploymentInitial == DeploymentInit => DeploymentInv
<1> SUFFICES ASSUME DeploymentInit PROVE DeploymentInv
  OBVIOUS
<1>1. /\ row \in [Tenants -> Row] /\ container \in [Tenants -> Container]
      /\ site \in [Tenants -> 0..MaxPort] /\ database \in [Tenants -> {"none", "role", "both"}]
      /\ serving \in [Tenants -> 0..MaxPort] /\ stale \subseteq Tenants
      /\ collided \in BOOLEAN /\ failures \in 0..MaxFailures /\ ops \in 0..MaxOps
  <2>1. row \in [Tenants -> Row]
    BY DEF DeploymentInit, Row, Statuses
  <2>2. NoContainer \in Container
    BY DEF NoContainer, Container
  <2>3. container \in [Tenants -> Container]
    BY <2>2 DEF DeploymentInit
  <2>4. /\ site \in [Tenants -> 0..MaxPort] /\ database \in [Tenants -> {"none", "role", "both"}]
        /\ serving \in [Tenants -> 0..MaxPort] /\ stale \subseteq Tenants
    BY DEF DeploymentInit
  <2>5. collided \in BOOLEAN
    BY DEF DeploymentInit
  <2>6. failures \in 0..MaxFailures /\ ops \in 0..MaxOps
    BY DEF DeploymentInit
  <2>7. QED
    BY <2>1, <2>3, <2>4, <2>5, <2>6
<1>2. NoCommand \in CommandRow
  BY DEF NoCommand, CommandRow, Pcs, ToolkitPcs
<1>3. command \in [Commands -> CommandRow] /\ op \in [Staff -> OpRow]
  BY <1>2, NoOpFits DEF DeploymentInit
<1>4. \A t, u \in Tenants : t # u /\ row[t].port # 0 => row[t].port # row[u].port
  BY DEF DeploymentInit
<1>5. DeploymentTypeOK
  BY <1>1, <1>3, <1>4, TypeFacts
<1>6. DeployedAlone
  BY NoOpFits DEF DeploymentInit, DeployedAlone, Deploying, Deleting, NoCommand
<1>7. \A t \in Tenants : TenantFits(t)
  BY DEF DeploymentInit, TenantFits, NoContainer
<1>8. \A c \in Commands : CommandFits(c)
  BY DEF DeploymentInit, CommandFits, ToolkitFits, ApiFits, NoCommand, ToolkitPcs, ApiPcs
<1>9. \A s \in Staff : OpFits(s)
  BY NoOpFits DEF DeploymentInit, OpFits
<1>10. QED
  BY <1>5, <1>6, <1>7, <1>8, <1>9 DEF DeploymentInv

LEMMA DeploymentTypeStep ==
  DeploymentTypeOK /\ [DeploymentNext]_deploymentVars => DeploymentTypeOK'
<1> SUFFICES ASSUME DeploymentTypeOK, [DeploymentNext]_deploymentVars PROVE DeploymentTypeOK'
  OBVIOUS
<1>1. CASE UNCHANGED deploymentVars
  BY <1>1 DEF deploymentVars, DeploymentTypeOK
<1>2. ASSUME NEW c \in Commands,
             \/ ValidateNewTenant(c) \/ InstanceForTenant(c) \/ MarkDeploying(c)
             \/ ChoosePort(c) \/ SavePort(c) \/ ReleasePort(c) \/ MarkFailed(c)
             \/ ApiChoosePort(c) \/ ApiCreate(c) \/ ApiDeploy(c) \/ ApiRemotePort(c) \/ ApiFinish(c)
      PROVE  CommandMoves(c)
  BY <1>2, ValidateMeans, InstanceMeans, MarkMeans, ChoosePortMeans, SavePortMeans,
     ReleaseMeans, MarkFailedMeans, ApiChooseMeans, ApiCreateMeans, ApiDeployMeans, ApiRemoteMeans,
     ApiFinishMeans
<1>3. ASSUME NEW c \in Commands, NEW ok \in BOOLEAN,
             \/ CreateDatabase(c, ok) \/ RunContainer(c, ok) \/ WriteSite(c, ok)
             \/ Reload(c, ok) \/ FinishDeploy(c, ok) \/ ApiRun(c, ok)
      PROVE  CommandMoves(c)
  BY <1>3, DatabaseMeans, RunMeans, WriteSiteMeans, ReloadMeans, FinishMeans, ApiRunMeans
<1>4. ASSUME NEW c \in Commands, NEW ok \in BOOLEAN,
             RemoveSite(c, ~ok) \/ RemoveContainer(c, ~ok) \/ DropDatabase(c, ~ok)
      PROVE  CommandMoves(c)
  <2>1. PICK failed \in BOOLEAN : failed = ~ok
    OBVIOUS
  <2>2. QED
    BY <1>4, <2>1, RemoveSiteMeans, RemoveContainerMeans, DropMeans
<1>5. ASSUME NEW s \in Staff, NEW t \in Tenants, NEW kind \in {"stop", "start", "delete", "status"},
             BeginOp(s, t, kind)
      PROVE  DeploymentTypeOK'
  BY <1>5, BeginOpMeans, OpMovesTyped
<1>6. ASSUME NEW s \in Staff,
             \/ DockerStop(s) \/ DockerStart(s) \/ DockerRemove(s) \/ DockerInspect(s)
             \/ SaveOp(s) \/ OpFails(s)
      PROVE  DeploymentTypeOK'
  <2>1. op[s].tenant \in Tenants
    BY OpFacts
  <2>2. OpMoves(s, op[s].tenant)
    BY <1>6, DockerMeans, SaveOpMeans, OpFailsMeans
  <2>3. PICK t \in Tenants : t = op[s].tenant
    BY <2>1
  <2>4. OpMoves(s, t)
    BY <2>2, <2>3
  <2>5. QED
    BY <2>4, OpMovesTyped
<1>7. QED
  BY <1>1, <1>2, <1>3, <1>4, <1>5, <1>6, CommandMovesTyped DEF DeploymentNext

(* Rows, containers, sites and commands have their types, and two rows     *)
(* never have one port: for any tenants, ports, deployments at the same    *)
(* time, failures that leave something behind, and commands of staff.      *)
THEOREM TypeCorrect == DeploymentSpec => []DeploymentTypeOK
<1>1. DeploymentInit => DeploymentTypeOK
  BY DeploymentInitial DEF DeploymentInv
<1>2. QED
  BY <1>1, DeploymentTypeStep, PTL DEF DeploymentSpec

-----------------------------------------------------------------------------
(* The careful specification. *)

LEMMA CommandStep ==
  ASSUME DeploymentInv, DeployedAlone', NEW c \in Commands, CommandMoves(c),
         command[c].pc # "idle" \/ command'[c].pc # "idle",
         TenantFits(TenantOf[c])', CommandFits(c)'
  PROVE  DeploymentInv'
<1> DEFINE t == TenantOf[c]
<1>1. DeploymentTypeOK'
  BY CommandMovesTyped DEF DeploymentInv
<1>2. /\ \A u \in Tenants \ {t} : row'[u] = row[u] /\ container'[u] = container[u] /\ site'[u] = site[u]
      /\ \A u \in Tenants \ {t} :
           serving'[u] = site[u] \/ (serving'[u] = serving[u] /\ (u \in stale' <=> u \in stale))
      /\ \A b \in Commands \ {c} : command'[b] = command[b]
      /\ op' = op
  BY DEF CommandMoves, OnlyCommand, OnlyRow, OnlyContainer, OnlySite, OnlyServing
<1>3. \A u \in Tenants : TenantFits(u)'
  <2> SUFFICES ASSUME NEW u \in Tenants PROVE TenantFits(u)'
    OBVIOUS
  <2>1. CASE u = t
    BY <2>1
  <2>2. CASE u # t
    BY <1>2, <2>2 DEF DeploymentInv, TenantFits, Unused
  <2>3. QED
    BY <2>1, <2>2
<1>4. \A b \in Commands : CommandFits(b)'
  <2> SUFFICES ASSUME NEW b \in Commands, b # c PROVE CommandFits(b)'
    OBVIOUS
  <2>1. command'[b] = command[b] /\ TenantOf[b] \in Tenants /\ CommandFits(b)
    BY <1>2 DEF DeploymentInv
  <2>2. CASE TenantOf[b] # t
    <3>1. /\ row'[TenantOf[b]] = row[TenantOf[b]] /\ container'[TenantOf[b]] = container[TenantOf[b]]
          /\ site'[TenantOf[b]] = site[TenantOf[b]]
      BY <1>2, <2>1, <2>2
    <3>2. QED
      BY <2>1, <3>1 DEF CommandFits, ToolkitFits, ApiFits, Unused
  <2>3. CASE TenantOf[b] = t
    <3>1. command[b].pc = "idle"
      BY <2>1, <2>3 DEF DeploymentInv, DeployedAlone
    <3>2. QED
      BY <2>1, <3>1 DEF CommandFits, ToolkitFits, ApiFits
  <2>4. QED
    BY <2>2, <2>3
<1>5. \A s \in Staff : OpFits(s)'
  <2> SUFFICES ASSUME NEW s \in Staff PROVE OpFits(s)'
    OBVIOUS
  <2>1. OpFits(s) /\ op[s].tenant \in Tenants
    BY OpFacts DEF DeploymentInv
  <2>2. CASE op[s].tenant # t
    BY <1>2, <2>1, <2>2 DEF OpFits
  <2>3. CASE op[s].tenant = t
    <3>1. op[s].kind # "delete"
      BY <1>2, <2>3 DEF DeploymentInv, DeployedAlone, Deploying, Deleting
    <3>2. QED
      BY <1>2, <2>1, <3>1 DEF OpFits
  <2>4. QED
    BY <2>2, <2>3
<1>6. QED
  BY <1>1, <1>3, <1>4, <1>5 DEF DeploymentInv

LEMMA OpStep ==
  ASSUME DeploymentInv, DeployedAlone', NEW s \in Staff, NEW t \in Tenants, OpMoves(s, t),
         container'[t].port \in {0, container[t].port},
         row'[t].status = "none" => row[t].status = "none",
         Unused(t)' => Unused(t) \/ (container'[t].port = 0 /\ ~Deploying(t)),
         OpFits(s)'
  PROVE  DeploymentInv'
<1>1. DeploymentTypeOK'
  BY OpMovesTyped DEF DeploymentInv
<1>2. /\ \A u \in Tenants \ {t} : row'[u] = row[u] /\ container'[u] = container[u]
      /\ UNCHANGED <<command, site, serving, stale>> /\ row'[t].port = row[t].port
      /\ \A r \in Staff \ {s} : op'[r] = op[r]
  BY DEF OpMoves, OnlyOp, OnlyRow, OnlyContainer
<1>3. \A u \in Tenants : TenantFits(u)'
  <2> SUFFICES ASSUME NEW u \in Tenants PROVE TenantFits(u)'
    OBVIOUS
  <2>1. TenantFits(u)
    BY DEF DeploymentInv
  <2>2. CASE u = t
    BY <1>2, <2>1, <2>2 DEF TenantFits, Unused
  <2>3. CASE u # t
    BY <1>2, <2>1, <2>3 DEF TenantFits, Unused
  <2>4. QED
    BY <2>2, <2>3
<1>4. \A b \in Commands : CommandFits(b)'
  <2> SUFFICES ASSUME NEW b \in Commands PROVE CommandFits(b)'
    OBVIOUS
  <2>1. TenantOf[b] \in Tenants /\ CommandFits(b)
    BY DEF DeploymentInv
  <2> DEFINE u == TenantOf[b]
  <2>2. /\ row'[u].port = row[u].port /\ container'[u].port \in {0, container[u].port}
        /\ site'[u] = site[u] /\ command'[b] = command[b]
    BY <1>2, <2>1
  <2>3. command[b].pc # "idle" /\ Unused(u)' => Unused(u)
    <3>1. CASE u = t
      BY <2>1, <3>1 DEF Deploying
    <3>2. CASE u # t
      BY <1>2, <2>1, <3>2 DEF Unused
    <3>3. QED
      BY <3>1, <3>2
  <2>4. command[b].pc \notin {"idle", "instance", "create"} => ~Unused(u)'
    BY <2>1, <2>3 DEF CommandFits
  <2>5. QED
    BY <2>1, <2>2, <2>4 DEF CommandFits, ToolkitFits, ApiFits
<1>5. \A r \in Staff : OpFits(r)'
  <2> SUFFICES ASSUME NEW r \in Staff, r # s PROVE OpFits(r)'
    OBVIOUS
  <2>1. OpFits(r) /\ op'[r] = op[r] /\ op[r].tenant \in Tenants
    BY <1>2, OpFacts DEF DeploymentInv
  <2>2. container[op[r].tenant].port = 0 => container'[op[r].tenant].port = 0
    BY <1>2, <2>1
  <2>3. QED
    BY <2>1, <2>2 DEF OpFits
<1>6. QED
  BY <1>1, <1>3, <1>4, <1>5 DEF DeploymentInv

(* What the invariant says of one command and its tenant. *)
LEMMA LocalFacts ==
  ASSUME DeploymentInv, NEW c \in Commands
  PROVE  /\ DeploymentTypeOK /\ TenantFits(TenantOf[c]) /\ CommandFits(c)
         /\ TenantOf[c] \in Owned => TenantOf[c] \notin Hosted
         /\ TenantOf[c] \notin Owned => TenantOf[c] \in Hosted
BY DEF DeploymentInv, Tenants

LEMMA ValidateNewTenantKeeps ==
  ASSUME DeploymentInv, DeployedAlone', NEW c \in Commands, ValidateNewTenant(c)
  PROVE  DeploymentInv'
<1>1. TenantFits(TenantOf[c])'
  BY LocalFacts, ValidateMeans DEF TenantFits, CommandFits, ToolkitFits, ApiFits, Unused, SameFlags,
     ToolkitPcs, ApiPcs
<1>2. CommandFits(c)'
  BY LocalFacts, ValidateMeans DEF TenantFits, CommandFits, ToolkitFits, ApiFits, Unused, SameFlags,
     ToolkitPcs, ApiPcs
<1>3. QED
  BY <1>1, <1>2, LocalFacts, ValidateMeans, CommandStep

LEMMA InstanceForTenantKeeps ==
  ASSUME DeploymentInv, DeployedAlone', NEW c \in Commands, InstanceForTenant(c)
  PROVE  DeploymentInv'
<1>1. TenantFits(TenantOf[c])'
  BY LocalFacts, InstanceMeans DEF TenantFits, CommandFits, ToolkitFits, ApiFits, Unused, SameFlags,
     ToolkitPcs, ApiPcs
<1>2. CommandFits(c)'
  <2> DEFINE t == TenantOf[c]
  <2>1. /\ command[c].pc = "instance" /\ command'[c].pc = "mark"
        /\ command'[c].created = (row[t].status = "none") /\ command'[c].original = row[t].port
        /\ command'[c].ran = command[c].ran /\ command'[c].wrote = command[c].wrote
        /\ row'[t].status \notin {"none", "deleted"} /\ UNCHANGED <<container, site, serving, stale>>
    BY LocalFacts, InstanceMeans
  <2>2. t \in Owned /\ ~command[c].ran /\ container[t].port = 0
    BY <2>1, LocalFacts DEF CommandFits, ToolkitFits, ApiPcs
  <2>3. command'[c].created \/ command'[c].original = 0 => site'[t] = 0
    <3>1. command'[c].created => row[t].status = "none"
      BY <2>1
    <3>2. command'[c].created \/ command'[c].original = 0 => row[t].port = 0
      BY <2>1, <3>1, LocalFacts DEF TenantFits
    <3>3. QED
      BY <2>1, <3>2, LocalFacts DEF TenantFits
  <2>4. QED
    BY <2>1, <2>2, <2>3 DEF CommandFits, ToolkitFits, Unused, ToolkitPcs
<1>3. QED
  BY <1>1, <1>2, LocalFacts, InstanceMeans, CommandStep

LEMMA MarkDeployingKeeps ==
  ASSUME DeploymentInv, DeployedAlone', NEW c \in Commands, MarkDeploying(c)
  PROVE  DeploymentInv'
<1>1. TenantFits(TenantOf[c])'
  BY LocalFacts, MarkMeans DEF TenantFits, CommandFits, ToolkitFits, ApiFits, Unused, SameFlags,
     ToolkitPcs, ApiPcs
<1>2. CommandFits(c)'
  BY LocalFacts, MarkMeans DEF TenantFits, CommandFits, ToolkitFits, ApiFits, Unused, SameFlags,
     ToolkitPcs, ApiPcs
<1>3. QED
  BY <1>1, <1>2, LocalFacts, MarkMeans, CommandStep

LEMMA ChoosePortKeeps ==
  ASSUME DeploymentInv, DeployedAlone', NEW c \in Commands, ChoosePort(c)
  PROVE  DeploymentInv'
<1>1. TenantFits(TenantOf[c])'
  BY LocalFacts, ChoosePortMeans DEF TenantFits, CommandFits, ToolkitFits, ApiFits, Unused, SameFlags,
     ToolkitPcs, ApiPcs
<1>2. CommandFits(c)'
  BY LocalFacts, ChoosePortMeans DEF TenantFits, CommandFits, ToolkitFits, ApiFits, Unused, SameFlags,
     ToolkitPcs, ApiPcs
<1>3. QED
  BY <1>1, <1>2, LocalFacts, ChoosePortMeans, CommandStep

LEMMA SavePortKeeps ==
  ASSUME DeploymentInv, DeployedAlone', NEW c \in Commands, SavePort(c)
  PROVE  DeploymentInv'
<1>1. TenantFits(TenantOf[c])'
  BY LocalFacts, SavePortMeans DEF TenantFits, CommandFits, ToolkitFits, ApiFits, Unused, SameFlags,
     ToolkitPcs, ApiPcs
<1>2. CommandFits(c)'
  BY LocalFacts, SavePortMeans DEF TenantFits, CommandFits, ToolkitFits, ApiFits, Unused, SameFlags,
     ToolkitPcs, ApiPcs
<1>3. QED
  BY <1>1, <1>2, LocalFacts, SavePortMeans, CommandStep

LEMMA CreateDatabaseKeeps ==
  ASSUME DeploymentInv, DeployedAlone', NEW c \in Commands, NEW ok \in BOOLEAN, CreateDatabase(c, ok)
  PROVE  DeploymentInv'
<1>1. TenantFits(TenantOf[c])'
  BY LocalFacts, DatabaseMeans DEF TenantFits, CommandFits, ToolkitFits, ApiFits, Unused, SameFlags,
     ToolkitPcs, ApiPcs
<1>2. CommandFits(c)'
  BY LocalFacts, DatabaseMeans DEF TenantFits, CommandFits, ToolkitFits, ApiFits, Unused, SameFlags,
     ToolkitPcs, ApiPcs
<1>3. QED
  BY <1>1, <1>2, LocalFacts, DatabaseMeans, CommandStep

LEMMA RunContainerKeeps ==
  ASSUME DeploymentInv, DeployedAlone', NEW c \in Commands, NEW ok \in BOOLEAN, RunContainer(c, ok), CleanFailures
  PROVE  DeploymentInv'
<1>1. TenantFits(TenantOf[c])'
  BY LocalFacts, RunMeans DEF TenantFits, CommandFits, ToolkitFits, ApiFits, Unused, SameFlags,
     ToolkitPcs, ApiPcs
<1>2. CommandFits(c)'
  BY LocalFacts, RunMeans DEF TenantFits, CommandFits, ToolkitFits, ApiFits, Unused, SameFlags,
     ToolkitPcs, ApiPcs
<1>3. QED
  BY <1>1, <1>2, LocalFacts, RunMeans, CommandStep

LEMMA WriteSiteKeeps ==
  ASSUME DeploymentInv, DeployedAlone', NEW c \in Commands, NEW ok \in BOOLEAN, WriteSite(c, ok)
  PROVE  DeploymentInv'
<1>1. TenantFits(TenantOf[c])'
  BY LocalFacts, WriteSiteMeans DEF TenantFits, CommandFits, ToolkitFits, ApiFits, Unused, SameFlags,
     ToolkitPcs, ApiPcs
<1>2. CommandFits(c)'
  BY LocalFacts, WriteSiteMeans DEF TenantFits, CommandFits, ToolkitFits, ApiFits, Unused, SameFlags,
     ToolkitPcs, ApiPcs
<1>3. QED
  BY <1>1, <1>2, LocalFacts, WriteSiteMeans, CommandStep

LEMMA ReloadKeeps ==
  ASSUME DeploymentInv, DeployedAlone', NEW c \in Commands, NEW ok \in BOOLEAN, Reload(c, ok)
  PROVE  DeploymentInv'
<1>1. TenantFits(TenantOf[c])'
  BY LocalFacts, ReloadMeans DEF TenantFits, CommandFits, ToolkitFits, ApiFits, Unused, SameFlags,
     ToolkitPcs, ApiPcs
<1>2. CommandFits(c)'
  BY LocalFacts, ReloadMeans DEF TenantFits, CommandFits, ToolkitFits, ApiFits, Unused, SameFlags,
     ToolkitPcs, ApiPcs
<1>3. QED
  BY <1>1, <1>2, LocalFacts, ReloadMeans, CommandStep

LEMMA FinishDeployKeeps ==
  ASSUME DeploymentInv, DeployedAlone', NEW c \in Commands, NEW ok \in BOOLEAN, FinishDeploy(c, ok)
  PROVE  DeploymentInv'
<1>1. TenantFits(TenantOf[c])'
  BY LocalFacts, FinishMeans DEF TenantFits, CommandFits, ToolkitFits, ApiFits, Unused, SameFlags,
     ToolkitPcs, ApiPcs
<1>2. CommandFits(c)'
  BY LocalFacts, FinishMeans DEF TenantFits, CommandFits, ToolkitFits, ApiFits, Unused, SameFlags,
     ToolkitPcs, ApiPcs
<1>3. QED
  BY <1>1, <1>2, LocalFacts, FinishMeans, CommandStep

LEMMA RemoveSiteKeeps ==
  ASSUME DeploymentInv, DeployedAlone', NEW c \in Commands, NEW failed \in BOOLEAN, RemoveSite(c, failed), CleanFailures
  PROVE  DeploymentInv'
<1>1. TenantFits(TenantOf[c])'
  BY LocalFacts, RemoveSiteMeans DEF TenantFits, CommandFits, ToolkitFits, ApiFits, Unused, SameFlags,
     ToolkitPcs, ApiPcs
<1>2. CommandFits(c)'
  BY LocalFacts, RemoveSiteMeans DEF TenantFits, CommandFits, ToolkitFits, ApiFits, Unused, SameFlags,
     ToolkitPcs, ApiPcs
<1>3. QED
  BY <1>1, <1>2, LocalFacts, RemoveSiteMeans, CommandStep

LEMMA RemoveContainerKeeps ==
  ASSUME DeploymentInv, DeployedAlone', NEW c \in Commands, NEW failed \in BOOLEAN, RemoveContainer(c, failed), CleanFailures
  PROVE  DeploymentInv'
<1>1. TenantFits(TenantOf[c])'
  BY LocalFacts, RemoveContainerMeans DEF TenantFits, CommandFits, ToolkitFits, ApiFits, Unused, SameFlags,
     ToolkitPcs, ApiPcs
<1>2. CommandFits(c)'
  BY LocalFacts, RemoveContainerMeans DEF TenantFits, CommandFits, ToolkitFits, ApiFits, Unused, SameFlags,
     ToolkitPcs, ApiPcs
<1>3. QED
  BY <1>1, <1>2, LocalFacts, RemoveContainerMeans, CommandStep

LEMMA DropDatabaseKeeps ==
  ASSUME DeploymentInv, DeployedAlone', NEW c \in Commands, NEW failed \in BOOLEAN, DropDatabase(c, failed)
  PROVE  DeploymentInv'
<1>1. TenantFits(TenantOf[c])'
  BY LocalFacts, DropMeans DEF TenantFits, CommandFits, ToolkitFits, ApiFits, Unused, SameFlags,
     ToolkitPcs, ApiPcs
<1>2. CommandFits(c)'
  BY LocalFacts, DropMeans DEF TenantFits, CommandFits, ToolkitFits, ApiFits, Unused, SameFlags,
     ToolkitPcs, ApiPcs
<1>3. QED
  BY <1>1, <1>2, LocalFacts, DropMeans, CommandStep

LEMMA ReleasePortKeeps ==
  ASSUME DeploymentInv, DeployedAlone', NEW c \in Commands, ReleasePort(c)
  PROVE  DeploymentInv'
<1>1. TenantFits(TenantOf[c])'
  BY LocalFacts, ReleaseMeans DEF TenantFits, CommandFits, ToolkitFits, ApiFits, Unused, SameFlags,
     ToolkitPcs, ApiPcs
<1>2. CommandFits(c)'
  BY LocalFacts, ReleaseMeans DEF TenantFits, CommandFits, ToolkitFits, ApiFits, Unused, SameFlags,
     ToolkitPcs, ApiPcs
<1>3. QED
  BY <1>1, <1>2, LocalFacts, ReleaseMeans, CommandStep

LEMMA MarkFailedKeeps ==
  ASSUME DeploymentInv, DeployedAlone', NEW c \in Commands, MarkFailed(c)
  PROVE  DeploymentInv'
<1>1. TenantFits(TenantOf[c])'
  BY LocalFacts, MarkFailedMeans DEF TenantFits, CommandFits, ToolkitFits, ApiFits, Unused, SameFlags,
     ToolkitPcs, ApiPcs
<1>2. CommandFits(c)'
  BY LocalFacts, MarkFailedMeans DEF TenantFits, CommandFits, ToolkitFits, ApiFits, Unused, SameFlags,
     ToolkitPcs, ApiPcs
<1>3. QED
  BY <1>1, <1>2, LocalFacts, MarkFailedMeans, CommandStep

LEMMA ApiChoosePortKeeps ==
  ASSUME DeploymentInv, DeployedAlone', NEW c \in Commands, ApiChoosePort(c)
  PROVE  DeploymentInv'
<1>1. TenantFits(TenantOf[c])'
  BY LocalFacts, ApiChooseMeans DEF TenantFits, CommandFits, ToolkitFits, ApiFits, Unused, SameFlags,
     ToolkitPcs, ApiPcs
<1>2. CommandFits(c)'
  BY LocalFacts, ApiChooseMeans DEF TenantFits, CommandFits, ToolkitFits, ApiFits, Unused, SameFlags,
     ToolkitPcs, ApiPcs
<1>3. QED
  BY <1>1, <1>2, LocalFacts, ApiChooseMeans, CommandStep

LEMMA ApiCreateKeeps ==
  ASSUME DeploymentInv, DeployedAlone', NEW c \in Commands, ApiCreate(c)
  PROVE  DeploymentInv'
<1>1. TenantFits(TenantOf[c])'
  BY LocalFacts, ApiCreateMeans DEF TenantFits, CommandFits, ToolkitFits, ApiFits, Unused, SameFlags,
     ToolkitPcs, ApiPcs
<1>2. CommandFits(c)'
  BY LocalFacts, ApiCreateMeans DEF TenantFits, CommandFits, ToolkitFits, ApiFits, Unused, SameFlags,
     ToolkitPcs, ApiPcs
<1>3. QED
  BY <1>1, <1>2, LocalFacts, ApiCreateMeans, CommandStep

LEMMA ApiDeployKeeps ==
  ASSUME DeploymentInv, DeployedAlone', NEW c \in Commands, ApiDeploy(c)
  PROVE  DeploymentInv'
<1>1. TenantFits(TenantOf[c])'
  BY LocalFacts, ApiDeployMeans DEF TenantFits, CommandFits, ToolkitFits, ApiFits, Unused, SameFlags,
     ToolkitPcs, ApiPcs
<1>2. CommandFits(c)'
  BY LocalFacts, ApiDeployMeans DEF TenantFits, CommandFits, ToolkitFits, ApiFits, Unused, SameFlags,
     ToolkitPcs, ApiPcs
<1>3. QED
  BY <1>1, <1>2, LocalFacts, ApiDeployMeans, CommandStep

LEMMA ApiRemotePortKeeps ==
  ASSUME DeploymentInv, DeployedAlone', NEW c \in Commands, ApiRemotePort(c)
  PROVE  DeploymentInv'
<1>1. TenantFits(TenantOf[c])'
  BY LocalFacts, ApiRemoteMeans DEF TenantFits, CommandFits, ToolkitFits, ApiFits, Unused, SameFlags,
     ToolkitPcs, ApiPcs
<1>2. CommandFits(c)'
  BY LocalFacts, ApiRemoteMeans DEF TenantFits, CommandFits, ToolkitFits, ApiFits, Unused, SameFlags,
     ToolkitPcs, ApiPcs
<1>3. QED
  BY <1>1, <1>2, LocalFacts, ApiRemoteMeans, CommandStep

LEMMA ApiRunKeeps ==
  ASSUME DeploymentInv, DeployedAlone', NEW c \in Commands, NEW ok \in BOOLEAN, ApiRun(c, ok), CleanFailures
  PROVE  DeploymentInv'
<1>1. TenantFits(TenantOf[c])'
  BY LocalFacts, ApiRunMeans DEF TenantFits, CommandFits, ToolkitFits, ApiFits, Unused, SameFlags,
     ToolkitPcs, ApiPcs
<1>2. CommandFits(c)'
  BY LocalFacts, ApiRunMeans DEF TenantFits, CommandFits, ToolkitFits, ApiFits, Unused, SameFlags,
     ToolkitPcs, ApiPcs
<1>3. QED
  BY <1>1, <1>2, LocalFacts, ApiRunMeans, CommandStep

LEMMA ApiFinishKeeps ==
  ASSUME DeploymentInv, DeployedAlone', NEW c \in Commands, ApiFinish(c)
  PROVE  DeploymentInv'
<1>1. TenantFits(TenantOf[c])'
  BY LocalFacts, ApiFinishMeans DEF TenantFits, CommandFits, ToolkitFits, ApiFits, Unused, SameFlags,
     ToolkitPcs, ApiPcs
<1>2. CommandFits(c)'
  BY LocalFacts, ApiFinishMeans DEF TenantFits, CommandFits, ToolkitFits, ApiFits, Unused, SameFlags,
     ToolkitPcs, ApiPcs
<1>3. QED
  BY <1>1, <1>2, LocalFacts, ApiFinishMeans, CommandStep

LEMMA OpsKeep ==
  ASSUME DeploymentInv, DeployedAlone', NEW s \in Staff,
         \/ DockerStop(s) \/ DockerStart(s) \/ DockerRemove(s) \/ DockerInspect(s)
         \/ SaveOp(s) \/ OpFails(s)
  PROVE  DeploymentInv'
<1>1. DeploymentTypeOK /\ OpFits(s)
  BY DEF DeploymentInv
<1>2. PICK t \in Tenants : t = op[s].tenant
  BY <1>1, OpFacts
<1>3. CASE DockerStop(s) \/ DockerStart(s) \/ DockerRemove(s) \/ DockerInspect(s)
  <2>1. /\ OpMoves(s, t) /\ row' = row
        /\ container'[t].port \in {0, container[t].port}
        /\ \/ op'[s].pc = "idle"
           \/ /\ op'[s].pc = "save" /\ op'[s].saw # "none" /\ op'[s].tenant = t
              /\ op'[s].kind = op[s].kind
              /\ op'[s].saw = "deleted" => op[s].kind = "delete" /\ container'[t].port = 0
    BY <1>1, <1>2, <1>3, DockerMeans
  <2>2. OpFits(s)'
    BY <2>1 DEF OpFits
  <2>3. Unused(t)' => Unused(t)
    BY <2>1 DEF Unused
  <2>4. row'[t].status = "none" => row[t].status = "none"
    BY <2>1
  <2>5. QED
    BY <2>1, <2>2, <2>3, <2>4, OpStep
<1>4. CASE SaveOp(s)
  <2>1. /\ OpMoves(s, t) /\ op[s].pc = "save" /\ op'[s].pc = "idle"
        /\ row'[t].status = op[s].saw /\ container' = container
    BY <1>1, <1>2, <1>4, SaveOpMeans
  <2>2. OpFits(s)'
    BY <2>1 DEF OpFits
  <2>3. row'[t].status # "none"
    BY <1>1, <2>1 DEF OpFits
  <2>4. Unused(t)' => container'[t].port = 0 /\ ~Deploying(t)
    <3> SUFFICES ASSUME Unused(t)' PROVE container'[t].port = 0 /\ ~Deploying(t)
      OBVIOUS
    <3>1. op[s].saw = "deleted"
      BY <2>1, <2>3 DEF Unused
    <3>2. op[s].kind = "delete" /\ container[t].port = 0
      BY <1>1, <1>2, <2>1, <3>1 DEF OpFits
    <3>3. Deleting(t)
      BY <1>2, <3>2 DEF Deleting
    <3>4. QED
      BY <2>1, <3>2, <3>3 DEF DeploymentInv, DeployedAlone
  <2>5. container'[t].port \in {0, container[t].port}
    BY <2>1
  <2>6. QED
    BY <2>1, <2>2, <2>3, <2>4, <2>5, OpStep
<1>5. CASE OpFails(s)
  <2>1. /\ OpMoves(s, t) /\ op'[s].pc = "idle"
        /\ row'[t].status \in {row[t].status, "degraded"} /\ container' = container
    BY <1>1, <1>2, <1>5, OpFailsMeans
  <2>2. OpFits(s)'
    BY <2>1 DEF OpFits
  <2>3. Unused(t)' => Unused(t)
    BY <2>1 DEF Unused
  <2>4. /\ row'[t].status = "none" => row[t].status = "none"
        /\ container'[t].port \in {0, container[t].port}
    BY <2>1
  <2>5. QED
    BY <2>1, <2>2, <2>3, <2>4, OpStep
<1>6. QED
  BY <1>3, <1>4, <1>5

LEMMA BeginOpKeeps ==
  ASSUME DeploymentInv, DeployedAlone', NEW s \in Staff, NEW t \in Tenants,
         NEW kind \in {"stop", "start", "delete", "status"}, BeginOp(s, t, kind)
  PROVE  DeploymentInv'
<1>1. /\ OpMoves(s, t)
      /\ op'[s].pc = "docker" /\ op'[s].kind = kind
      /\ row[t].status # "none" /\ row'[t].status \in {row[t].status, "deleting"}
      /\ container' = container
  BY BeginOpMeans DEF DeploymentInv
<1>2. OpFits(s)'
  BY <1>1 DEF OpFits
<1>3. Unused(t)' => Unused(t)
  BY <1>1 DEF Unused
<1>4. /\ row'[t].status = "none" => row[t].status = "none"
      /\ container'[t].port \in {0, container[t].port}
  BY <1>1
<1>5. QED
  BY <1>1, <1>2, <1>3, <1>4, OpStep

LEMMA CarefulStuttering == DeploymentInv /\ UNCHANGED deploymentVars => DeploymentInv'
<1> SUFFICES ASSUME DeploymentInv, UNCHANGED deploymentVars PROVE DeploymentInv'
  OBVIOUS
<1>1. UNCHANGED <<row, container, site, serving, stale, database, command, op, collided, failures, ops>>
  BY DEF deploymentVars
<1>2. DeploymentTypeOK' /\ DeployedAlone'
  BY <1>1 DEF DeploymentInv, DeploymentTypeOK, DeployedAlone, Deploying, Deleting
<1>3. /\ \A t \in Tenants : TenantFits(t)'
      /\ \A c \in Commands : CommandFits(c)'
      /\ \A s \in Staff : OpFits(s)'
  BY <1>1 DEF DeploymentInv, TenantFits, CommandFits, OpFits, ToolkitFits, ApiFits, Unused
<1>4. QED
  BY <1>2, <1>3 DEF DeploymentInv

LEMMA CarefulInduction ==
  ASSUME CleanFailures
  PROVE  DeploymentInv /\ [CarefulNext]_deploymentVars => DeploymentInv'
<1> SUFFICES ASSUME DeploymentInv, DeploymentNext, DeployedAlone' PROVE DeploymentInv'
  BY CarefulStuttering DEF CarefulNext
<1>1. ASSUME NEW c \in Commands,
             \/ ValidateNewTenant(c) \/ InstanceForTenant(c) \/ MarkDeploying(c)
             \/ ChoosePort(c) \/ SavePort(c) \/ ReleasePort(c) \/ MarkFailed(c)
             \/ ApiChoosePort(c) \/ ApiCreate(c) \/ ApiDeploy(c) \/ ApiRemotePort(c) \/ ApiFinish(c)
      PROVE  DeploymentInv'
  BY <1>1, ValidateNewTenantKeeps, InstanceForTenantKeeps, MarkDeployingKeeps, ChoosePortKeeps,
     SavePortKeeps, ReleasePortKeeps, MarkFailedKeeps, ApiChoosePortKeeps,
     ApiCreateKeeps, ApiDeployKeeps, ApiRemotePortKeeps, ApiFinishKeeps
<1>2. ASSUME NEW c \in Commands, NEW ok \in BOOLEAN,
             \/ CreateDatabase(c, ok) \/ RunContainer(c, ok) \/ WriteSite(c, ok)
             \/ Reload(c, ok) \/ FinishDeploy(c, ok) \/ ApiRun(c, ok)
      PROVE  DeploymentInv'
  BY <1>2, CreateDatabaseKeeps, RunContainerKeeps, WriteSiteKeeps, ReloadKeeps,
     FinishDeployKeeps, ApiRunKeeps
<1>3. ASSUME NEW c \in Commands, NEW ok \in BOOLEAN,
             RemoveSite(c, ~ok) \/ RemoveContainer(c, ~ok) \/ DropDatabase(c, ~ok)
      PROVE  DeploymentInv'
  <2>1. PICK failed \in BOOLEAN : failed = ~ok
    OBVIOUS
  <2>2. QED
    BY <1>3, <2>1, RemoveSiteKeeps, RemoveContainerKeeps, DropDatabaseKeeps
<1>4. ASSUME NEW s \in Staff, NEW t \in Tenants, NEW kind \in {"stop", "start", "delete", "status"},
             BeginOp(s, t, kind)
      PROVE  DeploymentInv'
  BY <1>4, BeginOpKeeps
<1>5. ASSUME NEW s \in Staff,
             \/ DockerStop(s) \/ DockerStart(s) \/ DockerRemove(s) \/ DockerInspect(s)
             \/ SaveOp(s) \/ OpFails(s)
      PROVE  DeploymentInv'
  BY <1>5, OpsKeep
<1>6. QED
  BY <1>1, <1>2, <1>3, <1>4, <1>5 DEF DeploymentNext

(* As long as a tenant has one deployment at a time, is not deleted        *)
(* meanwhile, and a command that fails leaves no container and no site, a  *)
(* site leads to its own tenant: for any tenants of the toolkit and the    *)
(* API, any ports, and any failures, rollbacks and restarts.               *)
THEOREM SiteReachesOwnTenantAlways ==
  ASSUME CleanFailures
  PROVE  CarefulSpec => []SiteReachesOwnTenant
<1>1. DeploymentInit => DeploymentInv
  BY DeploymentInitial
<1>2. DeploymentInv /\ [CarefulNext]_deploymentVars => DeploymentInv'
  BY CarefulInduction
<1>3. DeploymentInv => SiteReachesOwnTenant
  <2> SUFFICES ASSUME DeploymentInv, NEW t \in Tenants, NEW u \in Tenants,
                      t # u, container[u].port \in Upstreams(t)
               PROVE  FALSE
    BY DEF SiteReachesOwnTenant
  <2>1. container[u].port # 0 /\ container[u].port = row[t].port
    BY DEF DeploymentInv, TenantFits, Upstreams
  <2>2. container[u].port = row[u].port
    BY <2>1 DEF DeploymentInv, TenantFits
  <2>3. QED
    BY <2>1, <2>2 DEF DeploymentInv, DeploymentTypeOK
<1>4. QED
  BY <1>1, <1>2, <1>3, PTL DEF CarefulSpec
=============================================================================
