---------------------------- MODULE PlanDelivery ----------------------------
(***************************************************************************)
(* Orders delivered from an inventory of ready-made configs: by a plan's   *)
(* delivery sources (plan_delivery_execution.py), by the rules of a recipe *)
(* (cup_fulfillment_services.py), or by staff who assign one config        *)
(* (customer_assignment.py, the Cup center).  A delivery is one            *)
(* transaction with panel calls inside; it commits also when it failed, so *)
(* that a retry finds what was allocated.  The pool's row is locked from   *)
(* an allocation to the end of its transaction.                            *)
(***************************************************************************)
EXTENDS Naturals, Sequences, FiniteSets

CONSTANTS
  Assets,          \* ConfigInventoryAsset rows of one pool
  PoolMode,        \* ConfigInventoryPool.allocation_mode
  MaxAllocations,  \* max_allocations of an asset
  DeliveryOrders, RecipeOrders, AssignmentOrders,
  Primary, FallbackSources,   \* delivery sources, in the order of their execution
  Rules,           \* rules of the recipe, by position
  PanelSources,    \* those of them that create a client on a panel
  Required,        \* those that are required
  Quantity,        \* PlanDeliverySource.quantity, CupFillerRule.quantity
  RuleMode,        \* CupFillerRule.allocation_mode, the pool's where it is blank
  StrictOrders,    \* orders of plans with failure_policy STRICT
  NoOrder,
  MaxDeliveryFaults, MaxEdits   \* bounds

Orders == DeliveryOrders \cup RecipeOrders \cup AssignmentOrders
Elements(s) == {s[i] : i \in 1..Len(s)}
Sources == Elements(Primary) \cup Elements(FallbackSources) \cup Elements(Rules)
Staff == "staff"                  \* allocations that staff have chosen

ASSUME DeliveryAssumption ==
  /\ PoolMode \in {"exclusive", "limited"} /\ MaxAllocations \in Nat \ {0}
  /\ RuleMode \in [Sources -> {"exclusive", "limited", "unlimited"}]
  /\ StrictOrders \subseteq Orders
  /\ Staff \notin Sources /\ NoOrder \notin Orders
  /\ IsFiniteSet(Assets) /\ IsFiniteSet(Orders) /\ DeliveryOrders \cap RecipeOrders = {}
  /\ {Primary, FallbackSources, Rules} \subseteq Seq(Sources)
  /\ PanelSources \subseteq Sources /\ Required \subseteq Sources
  /\ Quantity \in [Sources -> Nat \ {0}]
  /\ MaxDeliveryFaults \in Nat /\ MaxEdits \in Nat

VARIABLES
  order,        \* status, and what its metadata says of the last delivery
  asset,        \* ConfigInventoryAsset: status and current_allocations
  alloc,        \* active ConfigAllocation rows of each order, by source and asset
  clients,      \* panel sources whose client exists on the panel, by order
  tx,           \* open delivery transactions
  poolOwner,    \* whose transaction has locked the pool
  page,         \* the asset that a staff page shows or saves
  reopened,     \* assets that staff made available although they were assigned
  miscounted,   \* assets whose counter a staff page has overwritten
  beyond,       \* allocations of an asset that unlimited rules made past its limit
  removed,      \* orders from whose Cup staff removed a config
  deliveryFaults, edits

deliveryVars == <<order, asset, alloc, clients, tx, poolOwner, page, reopened, miscounted, beyond,
                  removed, deliveryFaults, edits>>

AssetRow == [status: {"none", "available", "assigned", "disabled"}, used: Nat]
OrderStatus == {"none", "paid", "confirmed", "completed", "closed"}
Nothing == [s \in Sources \cup {Staff} |-> [a \in Assets |-> 0]]
Closed == [open |-> FALSE, todo |-> <<>>, fellBack |-> FALSE, ok |-> {}, failed |-> {},
           takes |-> Nothing,      \* allocations that are not committed yet
           over |-> [a \in Assets |-> 0]]   \* those of them past the limit, by unlimited rules
NoPage == [asset |-> {}, status |-> "none", posted |-> FALSE, used |-> 0]

DeliveryInit ==
  /\ order = [o \in Orders |->
       [status |-> IF o \in AssignmentOrders THEN "none" ELSE "paid",
        partial |-> FALSE, served |-> {}, chosen |-> {}]]
  /\ asset = [a \in Assets |-> [status |-> "none", used |-> 0]]
  /\ alloc = [o \in Orders |-> Nothing]
  /\ clients = [o \in Orders |-> {}]
  /\ tx = [o \in Orders |-> Closed]
  /\ poolOwner = NoOrder
  /\ page = NoPage
  /\ reopened = {} /\ miscounted = {} /\ removed = {}
  /\ beyond = [a \in Assets |-> 0]
  /\ deliveryFaults = 0 /\ edits = 0

-----------------------------------------------------------------------------
(* The pool. *)

(* _asset_allocation_limit *)
AllocationLimit == IF PoolMode = "exclusive" THEN 1 ELSE MaxAllocations

(* Mutant: an assigned asset is a candidate of every mode. *)
SlotsWhenAssigned(row, mode, missing) ==
  IF row.status \in {"available", "assigned"} /\ row.used <= AllocationLimit THEN 1 ELSE 0

(* How often an asset can be taken: _select_exclusive_assets looks at its  *)
(* status, _select_shared_limited_assets at its counter too;               *)
(* _select_shared_unlimited_assets knows no limit, whatever the pool's.    *)
Slots(row, mode, missing) ==
  CASE mode = "exclusive" -> IF row.status = "available" THEN 1 ELSE 0
    [] mode = "limited"   -> IF row.status \in {"available", "assigned"} /\ row.used < AllocationLimit
                               THEN AllocationLimit - row.used ELSE 0
    [] mode = "unlimited" -> IF row.status \in {"available", "assigned"} THEN missing ELSE 0

(* As many rows as f says, and how many they are. *)
Units(f) == UNION {{x} \X (1..f[x]) : x \in DOMAIN f}
Count(f) == Cardinality(Units(f))

Total(take) == Count(take)
Sum(takes) ==                     \* over the sources
  [a \in Assets |-> Count([s \in DOMAIN takes |-> takes[s][a]])]
Plus(takes, more) ==
  [s \in DOMAIN takes |-> [a \in Assets |-> takes[s][a] + more[s][a]]]

(* The assets that an allocation may take; the code takes the oldest or    *)
(* the least used of them, and an unlimited one takes a single asset.      *)
Takes(rows, missing, mode) ==
  {take \in [Assets -> 0..missing] :
     /\ Total(take) = missing /\ \A a \in Assets : take[a] <= Slots(rows[a], mode, missing)
     /\ mode = "unlimited" => \E a \in Assets : take[a] = missing}

(* How many of n more allocations of an asset are past its limit. *)
PastLimit(used, n) ==
  IF used >= AllocationLimit THEN n
  ELSE IF used + n > AllocationLimit THEN (used + n) - AllocationLimit ELSE 0

Taken(rows, take) ==
  [a \in Assets |-> IF take[a] > 0 THEN [status |-> "assigned", used |-> rows[a].used + take[a]]
                                   ELSE rows[a]]

(* _validate_selected_asset *)
Selectable(row) ==
  IF PoolMode = "exclusive" THEN row.status = "available" /\ row.used = 0
  ELSE row.status \in {"available", "assigned"} /\ row.used < AllocationLimit

(* import_config_assets *)
ImportAsset(a) ==
  /\ asset[a].status = "none"
  /\ asset' = [asset EXCEPT ![a] = [status |-> "available", used |-> 0]]
  /\ UNCHANGED <<order, alloc, clients, tx, poolOwner, page, reopened, miscounted, beyond, removed,
                 deliveryFaults, edits>>
-----------------------------------------------------------------------------
(* A delivery: execute_plan_delivery or fulfill_order_with_recipe, inside  *)
(* the approval's transaction.                                             *)

(* _approve_and_provision_order; retry_order_completion also for a         *)
(* completed order whose delivery was partial.                             *)
Deliverable(o) ==
  order[o].status \in {"paid", "confirmed"} \/ (order[o].status = "completed" /\ order[o].partial)

(* The plan's configuration is locked: its deliveries come one by one. *)
BeginDelivery(o) ==
  /\ o \notin AssignmentOrders /\ ~tx[o].open /\ Deliverable(o)
  /\ o \in DeliveryOrders => \A p \in DeliveryOrders : ~tx[p].open
  /\ tx' = [tx EXCEPT ![o] = [Closed EXCEPT !.open = TRUE,
                                !.todo = IF o \in DeliveryOrders THEN Primary ELSE Rules]]
  /\ UNCHANGED <<order, asset, alloc, clients, poolOwner, page, reopened, miscounted, beyond, removed,
                 deliveryFaults, edits>>

Current(o, s) == tx[o].open /\ tx[o].todo # <<>> /\ s = Head(tx[o].todo)

(* A required rule that fails ends a strict recipe. *)
Ends(o, s) == o \in RecipeOrders \cap StrictOrders /\ s \in Required

Succeeds(o, s, takes, over) ==
  tx' = [tx EXCEPT ![o] = [tx[o] EXCEPT !.todo = Tail(@), !.ok = @ \cup {s}, !.takes = takes,
                                        !.over = over]]

Fails(o, s) ==
  tx' = [tx EXCEPT ![o] = [tx[o] EXCEPT !.todo = IF Ends(o, s) THEN <<>> ELSE Tail(@),
                                        !.failed = @ \cup {s}]]

(* _execute_single_panel_source: a client that exists is found, one that   *)
(* does not is created.  A rule that has succeeded before is not executed. *)
PanelSource(o, s, created) ==
  /\ Current(o, s) /\ s \in PanelSources
  /\ clients' = [clients EXCEPT ![o] = IF created THEN @ \cup {s} ELSE @]
  /\ \/ (created \/ s \in clients[o]) /\ Succeeds(o, s, tx[o].takes, tx[o].over)
     \/ s \notin order[o].served /\ Fails(o, s)
  /\ UNCHANGED <<order, asset, alloc, poolOwner, page, reopened, miscounted, beyond, removed,
                 deliveryFaults, edits>>

(* Mutant: a retry allocates the whole quantity again. *)
MissingAll(o, s) == Quantity[s]

(* What the order's active allocations for the source leave to allocate. *)
Missing(o, s) ==
  IF Total(alloc[o][s]) >= Quantity[s] THEN 0 ELSE Quantity[s] - Total(alloc[o][s])

ModeOf(o, s) == IF o \in RecipeOrders THEN RuleMode[s] ELSE PoolMode

Over(o, s, rows, take) ==
  [a \in Assets |-> tx[o].over[a] +
     IF ModeOf(o, s) = "unlimited" THEN PastLimit(rows[a].used, take[a]) ELSE 0]

(* _execute_inventory_source: allocate_assets_from_pool for what is        *)
(* missing, with the pool's row locked; all of it or, after an exception,  *)
(* nothing.                                                                *)
InventorySource(o, s) ==
  /\ Current(o, s) /\ s \notin PanelSources
  /\ \/ /\ Missing(o, s) = 0 \/ s \in order[o].served
        /\ Succeeds(o, s, tx[o].takes, tx[o].over) /\ UNCHANGED poolOwner
     \/ /\ Missing(o, s) > 0 /\ poolOwner \in {NoOrder, o}
        /\ LET rows == Taken(asset, Sum(tx[o].takes)) IN
           \E take \in Takes(rows, Missing(o, s), ModeOf(o, s)) :
             Succeeds(o, s, [tx[o].takes EXCEPT ![s] = take], Over(o, s, rows, take))
        /\ poolOwner' = o
     \/ /\ Missing(o, s) > 0 /\ Fails(o, s) /\ UNCHANGED poolOwner
  /\ UNCHANGED <<order, asset, alloc, clients, page, reopened, miscounted, beyond, removed,
                 deliveryFaults, edits>>

(* _should_use_fallback *)
NeedsFallback(o) ==
  o \in DeliveryOrders /\ ~tx[o].fellBack /\ FallbackSources # <<>>
    /\ (tx[o].ok = {} \/ tx[o].failed # {})

UseFallback(o) ==
  /\ tx[o].open /\ tx[o].todo = <<>> /\ NeedsFallback(o)
  /\ tx' = [tx EXCEPT ![o] = [tx[o] EXCEPT !.todo = FallbackSources, !.fellBack = TRUE]]
  /\ UNCHANGED <<order, asset, alloc, clients, poolOwner, page, reopened, miscounted, beyond, removed,
                 deliveryFaults, edits>>

(* Mutant: a failure of a required source does not matter. *)
DeliveredAnything(o) == tx[o].ok # {}

(* Something was delivered, and no required source failed that had to      *)
(* succeed.                                                                *)
Delivered(o) == tx[o].ok # {} /\ (o \in StrictOrders => tx[o].failed \cap Required = {})

(* What a completed order's metadata says: a recipe is partial when a      *)
(* required rule failed, a delivery when any source did.                   *)
IsPartial(o) ==
  IF o \in RecipeOrders THEN tx[o].failed \cap Required # {} ELSE tx[o].failed # {}

(* _finish_success_order, _finish_failed_order: both commit. *)
CommitDelivery(o) ==
  /\ tx[o].open /\ tx[o].todo = <<>> /\ ~NeedsFallback(o)
  /\ order' = [order EXCEPT ![o] = [order[o] EXCEPT
       !.status = IF Delivered(o) \/ @ = "completed" THEN "completed" ELSE "confirmed",
       !.partial = IF Delivered(o) THEN IsPartial(o) ELSE @ /\ o \in DeliveryOrders,
       !.served = IF o \in RecipeOrders THEN tx[o].ok ELSE {}]]
  /\ asset' = Taken(asset, Sum(tx[o].takes))
  /\ alloc' = [alloc EXCEPT ![o] = Plus(@, tx[o].takes)]
  /\ beyond' = [a \in Assets |-> beyond[a] + tx[o].over[a]]
  /\ tx' = [tx EXCEPT ![o] = Closed]
  /\ poolOwner' = IF poolOwner = o THEN NoOrder ELSE poolOwner
  /\ UNCHANGED <<clients, page, reopened, miscounted, removed, deliveryFaults, edits>>

(* The process dies: the transaction is rolled back, the panel is not. *)
DeliveryDies(o) ==
  /\ tx[o].open /\ deliveryFaults < MaxDeliveryFaults
  /\ deliveryFaults' = deliveryFaults + 1
  /\ tx' = [tx EXCEPT ![o] = Closed]
  /\ poolOwner' = IF poolOwner = o THEN NoOrder ELSE poolOwner
  /\ UNCHANGED <<order, asset, alloc, clients, page, reopened, miscounted, beyond, removed, edits>>

(* A rejection or cancellation (module OrderLifecycle) leaves the          *)
(* allocations as they are.                                                *)
CloseOrder(o) ==
  /\ ~tx[o].open /\ order[o].status \in {"paid", "confirmed", "completed"}
  /\ order' = [order EXCEPT ![o].status = "closed"]
  /\ UNCHANGED <<asset, alloc, clients, tx, poolOwner, page, reopened, miscounted, beyond, removed,
                 deliveryFaults, edits>>

-----------------------------------------------------------------------------
(* Staff. *)

(* assign_customer_service creates the order under the request's id, once; *)
(* a repeated request finds it.                                            *)
CreateAssignment(o, a) ==
  /\ o \in AssignmentOrders /\ order[o].status = "none"
  /\ asset[a].status \in {"available", "assigned"}
  /\ order' = [order EXCEPT ![o].status = "paid", ![o].chosen = {a}]
  /\ UNCHANGED <<asset, alloc, clients, tx, poolOwner, page, reopened, miscounted, beyond, removed,
                 deliveryFaults, edits>>

Give(o, a) ==
  /\ asset' = [asset EXCEPT ![a] = [status |-> "assigned", used |-> @.used + 1]]
  /\ alloc' = [alloc EXCEPT ![o][Staff][a] = @ + 1]

Assignable(o) == order[o].status = "paid"

(* complete_inventory_assignment, after the creation or as a retry: order  *)
(* and pool are locked.  A failure leaves the order as it is.              *)
CompleteAssignment(o, a) ==
  /\ Assignable(o) /\ a \in order[o].chosen /\ poolOwner = NoOrder
  /\ Selectable(asset[a])
  /\ Give(o, a)
  /\ order' = [order EXCEPT ![o].status = "completed"]
  /\ UNCHANGED <<clients, tx, poolOwner, page, reopened, miscounted, beyond, removed, deliveryFaults, edits>>

(* The Cup center adds a chosen asset to the Cup of an order. *)
AddToCup(o, a) ==
  /\ order[o].status \in {"confirmed", "completed"}
  /\ edits < MaxEdits /\ edits' = edits + 1
  /\ poolOwner = NoOrder /\ Selectable(asset[a])
  /\ Give(o, a)
  /\ UNCHANGED <<order, clients, tx, poolOwner, page, reopened, miscounted, beyond, removed, deliveryFaults>>

(* The asset's row is locked by no allocation: one that is limited locks   *)
(* every candidate, another one what it takes.                             *)
RowFree(a) ==
  poolOwner # NoOrder =>
    /\ Sum(tx[poolOwner].takes)[a] = 0
    /\ \A s \in Sources : Total(tx[poolOwner].takes[s]) > 0 => ModeOf(poolOwner, s) # "limited"

(* release_inventory_allocation_for_cup_item: the asset's new row, and     *)
(* whether any order holds it still.                                       *)
Freed(row, held) ==
  [status |-> IF row.status = "assigned" /\ ~held THEN "available" ELSE row.status,
   used   |-> IF row.used > 0 THEN row.used - 1 ELSE 0]

(* Staff remove or replace an item of a Cup, without the pool's lock. *)
RemoveFromCup(o, s, a) ==
  /\ alloc[o][s][a] > 0
  /\ order[o].status = "completed" \/ o \in RecipeOrders \/ s = Staff
  /\ edits < MaxEdits /\ edits' = edits + 1
  /\ ~tx[o].open /\ RowFree(a)
  /\ alloc' = [alloc EXCEPT ![o][s][a] = @ - 1]
  /\ asset' = [asset EXCEPT ![a] = Freed(@, \E p \in Orders : Sum(alloc'[p])[a] > 0)]
  /\ removed' = removed \cup {o}
  /\ UNCHANGED <<order, clients, tx, poolOwner, page, reopened, miscounted, beyond, deliveryFaults>>

(* The admin page of an asset: shown, sent back, saved.  The form has the  *)
(* status that was shown or another one; the row's other fields are read   *)
(* when the form arrives.                                                  *)
ShowAsset(a) ==
  /\ page = NoPage /\ asset[a].status # "none" /\ edits < MaxEdits
  /\ edits' = edits + 1
  /\ \E status \in {asset[a].status, "available", "disabled"} :
       page' = [NoPage EXCEPT !.asset = {a}, !.status = status]
  /\ UNCHANGED <<order, asset, alloc, clients, tx, poolOwner, reopened, miscounted, beyond, removed,
                 deliveryFaults>>

PostAsset(a) ==
  /\ a \in page.asset /\ ~page.posted
  /\ page' = [page EXCEPT !.posted = TRUE, !.used = asset[a].used]
  /\ UNCHANGED <<order, asset, alloc, clients, tx, poolOwner, reopened, miscounted, beyond, removed,
                 deliveryFaults, edits>>

SaveAsset(a) ==
  /\ a \in page.asset /\ page.posted /\ RowFree(a)
  /\ asset' = [asset EXCEPT ![a] = [status |-> page.status, used |-> page.used]]
  /\ reopened' = IF asset[a].used > 0 /\ page.status = "available"
                    THEN reopened \cup {a} ELSE reopened
  /\ miscounted' = IF page.used # asset[a].used THEN miscounted \cup {a} ELSE miscounted
  /\ page' = NoPage
  /\ UNCHANGED <<order, alloc, clients, tx, poolOwner, beyond, removed, deliveryFaults, edits>>

DeliveryNext ==
  \/ \E a \in Assets : ImportAsset(a) \/ ShowAsset(a) \/ PostAsset(a) \/ SaveAsset(a)
  \/ \E o \in Orders :
       \/ BeginDelivery(o) \/ UseFallback(o) \/ CommitDelivery(o) \/ DeliveryDies(o)
       \/ CloseOrder(o)
       \/ \E s \in Sources :
            InventorySource(o, s) \/ \E created \in BOOLEAN : PanelSource(o, s, created)
       \/ \E a \in Assets : CreateAssignment(o, a) \/ CompleteAssignment(o, a) \/ AddToCup(o, a)
       \/ \E s \in Sources \cup {Staff}, a \in Assets : RemoveFromCup(o, s, a)

DeliverySpec == DeliveryInit /\ [][DeliveryNext]_deliveryVars

PerSource == [Sources \cup {Staff} -> [Assets -> Nat]]
Transaction == [open: BOOLEAN, todo: Seq(Sources), fellBack: BOOLEAN, ok: SUBSET Sources,
                failed: SUBSET Sources, takes: PerSource, over: [Assets -> Nat]]

DeliveryTypeOK ==
  /\ order \in [Orders -> [status: OrderStatus, partial: BOOLEAN, served: SUBSET Sources,
                            chosen: SUBSET Assets]]
  /\ asset \in [Assets -> AssetRow]
  /\ alloc \in [Orders -> PerSource]
  /\ clients \in [Orders -> SUBSET PanelSources]
  /\ tx \in [Orders -> Transaction]
  /\ poolOwner \in Orders \cup {NoOrder}
  /\ page \in [asset: SUBSET Assets, status: {"none", "available", "assigned", "disabled"},
               posted: BOOLEAN, used: Nat]
  /\ reopened \subseteq Assets /\ miscounted \subseteq Assets /\ removed \subseteq Orders
  /\ beyond \in [Assets -> Nat]
  /\ deliveryFaults \in 0..MaxDeliveryFaults /\ edits \in 0..MaxEdits

-----------------------------------------------------------------------------
(* Properties. *)

Holders(a) == Count([o \in Orders |-> Sum(alloc[o])[a]])

(* A config is sold as often as its pool allows, an exclusive one once:    *)
(* deliveries, recipes with modes of their own, assignments and staff's    *)
(* choices at the same time, retries and crashes do not sell it again,     *)
(* unless an admin page saved AVAILABLE or an old counter over its row; a  *)
(* rule with the mode SHARED_UNLIMITED passes the limit by what it takes   *)
(* itself (allocate_assets_from_pool, _validate_selected_asset).           *)
SoldOnce ==
  \A a \in Assets \ (reopened \cup miscounted) : Holders(a) <= AllocationLimit + beyond[a]

(* However often a failed or partial delivery is retried and whatever fell *)
(* back, broke off or crashed before, an order takes no more stock for a   *)
(* source than its quantity (_execute_inventory_source and its rule).      *)
SourceQuota == \A o \in Orders, s \in Sources : Total(alloc[o][s]) <= Quantity[s]

Served(o, s) ==
  IF s \in PanelSources THEN s \in clients[o] ELSE Total(alloc[o][s]) = Quantity[s]

SourcesOf(o) == Elements(IF o \in RecipeOrders THEN Rules ELSE Primary)

(* A completed order was delivered: from every required source of a strict *)
(* plan, from some source of any; an assignment gave a config.  Only a     *)
(* config that staff removed is missing (execute_plan_delivery,            *)
(* fulfill_order_with_recipe, complete_inventory_assignment).              *)
CompletedIsDelivered ==
  \A o \in Orders \ removed : order[o].status = "completed" =>
    IF o \in AssignmentOrders THEN Total(alloc[o][Staff]) >= 1
    ELSE /\ \E s \in Sources : Served(o, s)
         /\ o \in StrictOrders => \A s \in SourcesOf(o) \cap Required : Served(o, s)

-----------------------------------------------------------------------------
(* The inductive invariant. *)

(* Only who has locked the pool has taken anything. *)
OwnerTakes ==
  \A o \in Orders : /\ o # poolOwner => tx[o].takes = Nothing
                    /\ o = poolOwner => tx[o].open

PageFits == \A a \in page.asset : asset[a].status # "none" /\ page.status # "none"

Ceiling(a) == AllocationLimit + beyond[a]

(* The counter of an asset is the number of its active allocations, an     *)
(* available one has none, and what a transaction has taken on top fits.   *)
StockFits(a) ==
  /\ asset[a].status = "none" => asset[a].used = 0 /\ a \notin miscounted
  /\ a \notin miscounted => asset[a].used = Holders(a)
  /\ a \notin reopened \cup miscounted =>
       /\ asset[a].status = "available" => asset[a].used = 0
       /\ Holders(a) <= Ceiling(a)
       /\ \A o \in Orders : Holders(a) + Sum(tx[o].takes)[a] <= Ceiling(a) + tx[o].over[a]

QuotaFits ==
  \A o \in Orders, s \in Sources : Total(alloc[o][s]) + Total(tx[o].takes[s]) <= Quantity[s]

(* What a source that succeeded will have given when the delivery commits. *)
WillBeServed(o, s) ==
  IF s \in PanelSources THEN s \in clients[o]
  ELSE Total(alloc[o][s]) + Total(tx[o].takes[s]) = Quantity[s]

(* A source of the order succeeded, failed or is still to come, unless a   *)
(* required one ended the recipe.                                          *)
NoneForgotten(o) ==
  \/ o \in StrictOrders /\ tx[o].failed \cap Required # {}
  \/ SourcesOf(o) \subseteq tx[o].ok \cup tx[o].failed \cup Elements(tx[o].todo)

OrderFits(o) ==
  /\ order[o].status = "none" \/ order[o].chosen # {} => o \in AssignmentOrders
  /\ o \in AssignmentOrders =>
       /\ ~tx[o].open
       /\ order[o].status \in {"none", "paid"} => Total(alloc[o][Staff]) = 0
  /\ o \notin removed =>
       /\ \A s \in order[o].served : Served(o, s)
       /\ tx[o].open => \A s \in tx[o].ok : WillBeServed(o, s)
  /\ tx[o].open => NoneForgotten(o)

DeliveryInv ==
  /\ DeliveryTypeOK /\ OwnerTakes /\ PageFits /\ QuotaFits
  /\ \A a \in Assets : StockFits(a)
  /\ \A o \in Orders : OrderFits(o)
  /\ CompletedIsDelivered
=============================================================================
