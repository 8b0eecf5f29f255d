------------------------------ MODULE Checkout ------------------------------
(***************************************************************************)
(* The storefront's manual-card checkout: create_manual_payment_order with *)
(* its duplicate check, the duplicate lock in the process's cache, the     *)
(* reservation of a discount code, the choice of an inbound, the inactive  *)
(* client that a legacy panel gets, and the transaction that writes the    *)
(* order.  Only that last transaction and the reservation are atomic; the  *)
(* steps between them run unlocked, next to other requests and to staff.   *)
(***************************************************************************)
EXTENDS Naturals, FiniteSets

CONSTANTS
  Requests,        \* web and bot handlers
  ProcessOf,       \* the server process a handler runs in; its cache is local
  Customers,       \* each stands for one duplicate key (customer, plan, quantity, ...)
  Codes, NoCode,   \* discount codes
  MaxUsage,        \* DiscountCode.max_usage of each code
  Owner, NoOwner,  \* the customer a reward's code belongs to, if it is one
  Inbounds, NoInbound,
  OperatorRoutes,  \* inbounds with a plan route for the customer's operator
  PlanRoutes,      \* inbounds with a plan route for every operator
  Priority,        \* PlanInboundRoute.priority
  Capacity,        \* Inbound.max_clients
  AllowFallback,   \* Store.allow_global_inbound_fallback
  Legacy,          \* the panel wants its client pre-created inactive
  MaxOrders,       \* bound on orders
  MaxFaults,       \* bound on crashes and failed writes
  MaxStaff         \* bound on staff's interventions

Processes == {ProcessOf[r] : r \in Requests}
OrderIds == 1..MaxOrders

ASSUME CheckoutAssumption ==
  /\ NoCode \notin Codes /\ NoInbound \notin Inbounds
  /\ MaxUsage \in [Codes -> Nat] /\ Priority \in [Inbounds -> Nat]
  /\ OperatorRoutes \subseteq Inbounds /\ PlanRoutes \subseteq Inbounds
  /\ Owner \in [Codes -> Customers \cup {NoOwner}] /\ NoOwner \notin Customers
  /\ Capacity \in Nat /\ MaxOrders \in Nat /\ MaxFaults \in Nat /\ MaxStaff \in Nat
  /\ AllowFallback \in BOOLEAN /\ Legacy \in BOOLEAN
  /\ IsFiniteSet(Requests) /\ Customers # {}

VARIABLES
  orders,       \* Order rows
  codes,        \* DiscountCode rows
  inbounds,     \* Inbound rows
  cache,        \* duplicate locks in each process's cache
  remote,       \* requests' inactive clients on the panel that have no order row
  req,          \* what each handler is doing
  recalculated, \* codes whose counter staff recalculated
  leaked,       \* uses counted for requests that died
  faults, staff \* how many there have been

checkoutVars == <<orders, codes, inbounds, cache, remote, req, recalculated,
                  leaked, faults, staff>>

-----------------------------------------------------------------------------
(* Rows. *)

OrderStatus == {"none", "pending", "confirmed", "completed", "closed"}
OrderRow == [status: OrderStatus, customer: Customers, code: Codes \cup {NoCode},
             recent: BOOLEAN]      \* created within DUPLICATE_ORDER_WINDOW_SECONDS
CodeRow == [used: Nat, active: BOOLEAN,
            rewarded: BOOLEAN]     \* its CustomerReward is USED
InboundRow == [active: BOOLEAN, users: Nat]

Steps == {"idle", "lock", "reserve", "select", "create", "commit"}
Request == [pc: Steps, customer: Customers, code: Codes \cup {NoCode},
            reserved: BOOLEAN,     \* reserved_discount is set
            inbound: Inbounds \cup {NoInbound},
            client: BOOLEAN]       \* client_result is set

Idle == [pc |-> "idle", customer |-> CHOOSE c \in Customers : TRUE, code |-> NoCode,
         reserved |-> FALSE, inbound |-> NoInbound, client |-> FALSE]

NoOrder == [status |-> "none", customer |-> CHOOSE c \in Customers : TRUE,
            code |-> NoCode, recent |-> FALSE]

CheckoutInit ==
  /\ orders = [o \in OrderIds |-> NoOrder]
  /\ codes = [d \in Codes |-> [used |-> 0, active |-> TRUE, rewarded |-> FALSE]]
  /\ inbounds \in [Inbounds -> [active: {TRUE}, users: 0..Capacity]]
  /\ cache = [p \in Processes |-> {}]
  /\ remote = 0
  /\ req = [r \in Requests |-> Idle]
  /\ recalculated = {}
  /\ leaked = [d \in Codes |-> 0]
  /\ faults = 0 /\ staff = 0

Intervene == staff < MaxStaff /\ staff' = staff + 1

Goto(r, step) == req' = [req EXCEPT ![r].pc = step]

(* The handler returns; its finally clause deletes the lock, whoever set it. *)
Return(r) ==
  /\ cache' = [cache EXCEPT ![ProcessOf[r]] = @ \ {req[r].customer}]
  /\ req' = [req EXCEPT ![r] = Idle]

-----------------------------------------------------------------------------
(* Duplicates. *)

Similar(c) ==
  {o \in OrderIds : orders[o].status = "pending" /\ orders[o].recent
                    /\ orders[o].customer = c}

(* The form passes its checks and no similar order is found. *)
Submit(r, c, d) ==
  /\ req[r].pc = "idle" /\ Similar(c) = {}
  /\ \E o \in OrderIds : orders[o].status = "none"      \* MaxOrders
  /\ req' = [req EXCEPT ![r] = [Idle EXCEPT !.pc = "lock", !.customer = c, !.code = d]]
  /\ UNCHANGED <<orders, codes, inbounds, cache, remote, recalculated, leaked, faults, staff>>

Locked(r) == req[r].customer \in cache[ProcessOf[r]]

(* cache.add; a handler that finds the key taken gives up. *)
AcquireLock(r) ==
  /\ req[r].pc = "lock"
  /\ IF Locked(r)
       THEN /\ req' = [req EXCEPT ![r] = Idle]
            /\ UNCHANGED cache
       ELSE /\ cache' = [cache EXCEPT ![ProcessOf[r]] = @ \cup {req[r].customer}]
            /\ Goto(r, "reserve")
  /\ UNCHANGED <<orders, codes, inbounds, remote, recalculated, leaked, faults, staff>>

(* DUPLICATE_ORDER_LOCK_SECONDS are over. *)
LockExpires(p, c) ==
  /\ c \in cache[p]
  /\ cache' = [cache EXCEPT ![p] = @ \ {c}]
  /\ UNCHANGED <<orders, codes, inbounds, remote, req, recalculated, leaked, faults, staff>>

(* An order leaves the window of ten minutes. *)
OrderAges(o) ==
  /\ orders[o].recent
  /\ orders' = [orders EXCEPT ![o].recent = FALSE]
  /\ UNCHANGED <<codes, inbounds, cache, remote, req, recalculated, leaked, faults, staff>>

-----------------------------------------------------------------------------
(* Discount codes. *)

(* Mutant: the limit is off by one. *)
HasUsageOffByOne(d) == codes[d].used <= MaxUsage[d]

HasUsage(d) == codes[d].used < MaxUsage[d]

(* validate_reward_discount_owner *)
MayUse(d, c) == Owner[d] # NoOwner => Owner[d] = c /\ ~codes[d].rewarded

(* validate_for_plan *)
CodeValid(d, c) == codes[d].active /\ HasUsage(d) /\ MayUse(d, c)

(* reserve_discount_usage: one transaction with the code's row locked. *)
Reserve(r) ==
  LET d == req[r].code IN
  /\ req[r].pc = "reserve"
  /\ \/ d = NoCode /\ Goto(r, "select") /\ UNCHANGED <<codes, cache>>
     \/ /\ d # NoCode /\ CodeValid(d, req[r].customer)
        /\ codes' = [codes EXCEPT ![d].used = @ + 1]
        /\ req' = [req EXCEPT ![r].pc = "select", ![r].reserved = TRUE]
        /\ UNCHANGED cache
     \/ d # NoCode /\ ~CodeValid(d, req[r].customer) /\ Return(r) /\ UNCHANGED codes
  /\ UNCHANGED <<orders, inbounds, remote, recalculated, leaked, faults, staff>>

(* Mutant: the counter is not compared with zero first. *)
ReleasedUnchecked(r) ==
  IF req[r].reserved THEN [codes EXCEPT ![req[r].code].used = @ - 1] ELSE codes

(* Mutant: a failed checkout keeps its use. *)
NotReleased(r) == codes

(* release_discount_usage *)
Released(r) ==
  IF req[r].reserved /\ codes[req[r].code].used > 0
    THEN [codes EXCEPT ![req[r].code].used = @ - 1]
    ELSE codes

(* Staff switch a code on or off, or count its uses from the orders. *)
ToggleCode(d) ==
  /\ Intervene
  /\ codes' = [codes EXCEPT ![d].active = ~@]
  /\ UNCHANGED <<orders, inbounds, cache, remote, req, recalculated, leaked, faults>>

Uses(d) == Cardinality({o \in OrderIds : orders[o].status # "none" /\ orders[o].code = d})

RecalculateUsed(d) ==
  /\ Intervene
  /\ codes' = [codes EXCEPT ![d].used = Uses(d)]
  /\ recalculated' = recalculated \cup {d}
  /\ UNCHANGED <<orders, inbounds, cache, remote, req, leaked, faults>>

-----------------------------------------------------------------------------
(* The inbound. *)

(* validate_inbound_for_order *)
Usable(i) == inbounds[i].active /\ inbounds[i].users < Capacity

(* _first_valid_route_inbound: by priority, then by load. *)
Before(i, j) ==
  \/ Priority[i] < Priority[j]
  \/ Priority[i] = Priority[j] /\ inbounds[i].users <= inbounds[j].users

FirstRoute(routes) ==
  {i \in routes : Usable(i) /\ \A j \in routes : Usable(j) => Before(i, j)}

(* get_available_inbound: the least loaded of all. *)
LeastLoaded ==
  {i \in Inbounds : Usable(i) /\
     \A j \in Inbounds : Usable(j) => inbounds[i].users <= inbounds[j].users}

(* select_inbound_for_plan: the inbounds it may return (a tie goes by id). *)
SelectInbound ==
  CASE FirstRoute(OperatorRoutes) # {} -> FirstRoute(OperatorRoutes)
    [] FirstRoute(OperatorRoutes) = {} /\ FirstRoute(PlanRoutes) # {} -> FirstRoute(PlanRoutes)
    [] OTHER -> IF AllowFallback THEN LeastLoaded ELSE {}

(* A failed checkout: the use is given back, the lock deleted. *)
Fail(r) == codes' = Released(r) /\ Return(r)

Select(r) ==
  /\ req[r].pc = "select"
  /\ \/ \E i \in SelectInbound :
          /\ req' = [req EXCEPT ![r].pc = "create", ![r].inbound = i]
          /\ UNCHANGED <<codes, cache>>
     \/ SelectInbound = {} /\ Fail(r)
  /\ UNCHANGED <<orders, inbounds, remote, recalculated, leaked, faults, staff>>

(* The inbound is looked at again, and a legacy panel is called. The order *)
(* is deferred when the call fails or the panel is modern.                 *)
CreateClient(r) ==
  /\ req[r].pc = "create"
  /\ \/ ~Usable(req[r].inbound) /\ Fail(r) /\ UNCHANGED remote
     \/ /\ Usable(req[r].inbound) /\ UNCHANGED <<codes, cache>>
        /\ \/ /\ Legacy
              /\ req' = [req EXCEPT ![r].pc = "commit", ![r].client = TRUE]
              /\ remote' = remote + 1
           \/ Goto(r, "commit") /\ UNCHANGED remote
  /\ UNCHANGED <<orders, inbounds, recalculated, leaked, faults, staff>>

ToggleInbound(i) ==
  /\ Intervene
  /\ inbounds' = [inbounds EXCEPT ![i].active = ~@]
  /\ UNCHANGED <<orders, codes, cache, remote, req, recalculated, leaked, faults>>

-----------------------------------------------------------------------------
(* The order is written and its payment submitted, in one transaction. *)

NewOrder(r) == [status |-> "pending", customer |-> req[r].customer,
                code |-> IF req[r].reserved THEN req[r].code ELSE NoCode,
                recent |-> TRUE]

FreeId == {o \in OrderIds : orders[o].status = "none"
                            /\ \A p \in OrderIds : orders[p].status = "none" => o <= p}

(* mark_customer_reward_used *)
MarkUsed(r) ==
  [d \in Codes |-> [codes[d] EXCEPT !.rewarded =
     @ \/ (req[r].reserved /\ req[r].code = d /\ Owner[d] = req[r].customer)]]

CommitOrder(r, o) ==
  /\ req[r].pc = "commit" /\ o \in FreeId
  /\ orders' = [orders EXCEPT ![o] = NewOrder(r)]
  /\ inbounds' = IF req[r].client
                   THEN [inbounds EXCEPT ![req[r].inbound].users = @ + 1]
                   ELSE inbounds
  /\ remote' = IF req[r].client THEN remote - 1 ELSE remote
  /\ codes' = MarkUsed(r)
  /\ Return(r)
  /\ UNCHANGED <<recalculated, leaked, faults, staff>>

(* The receipt is not accepted or cannot be stored: everything is undone   *)
(* but the client on the panel.                                            *)
CommitFails(r) ==
  /\ req[r].pc = "commit" /\ faults < MaxFaults
  /\ faults' = faults + 1
  /\ Fail(r)
  /\ UNCHANGED <<orders, inbounds, remote, recalculated, leaked, staff>>

InFlight(d, S) == Cardinality({r \in S : req[r].reserved /\ req[r].code = d})

(* A process dies with its handlers: its cache is lost, the uses they have *)
(* reserved stay counted.                                                  *)
Crash(p) ==
  LET dead == {r \in Requests : ProcessOf[r] = p} IN
  /\ faults < MaxFaults /\ \E r \in dead : req[r].pc # "idle"
  /\ faults' = faults + 1
  /\ leaked' = [d \in Codes |-> leaked[d] + InFlight(d, dead)]
  /\ cache' = [cache EXCEPT ![p] = {}]
  /\ req' = [r \in Requests |-> IF r \in dead THEN Idle ELSE req[r]]
  /\ UNCHANGED <<orders, codes, inbounds, remote, recalculated, staff>>

(* An approval, a rejection or a cancellation (module OrderLifecycle). *)
Decide(o, status) ==
  /\ orders[o].status \in {"pending", "confirmed"}
  /\ orders' = [orders EXCEPT ![o].status = status]
  /\ UNCHANGED <<codes, inbounds, cache, remote, req, recalculated, leaked, faults, staff>>

RequestNext(r) ==
  \/ \E c \in Customers, d \in Codes \cup {NoCode} : Submit(r, c, d)
  \/ AcquireLock(r) \/ Reserve(r) \/ Select(r) \/ CreateClient(r) \/ CommitFails(r)
  \/ \E o \in OrderIds : CommitOrder(r, o)

CheckoutNext ==
  \/ \E r \in Requests : RequestNext(r)
  \/ \E p \in Processes : Crash(p) \/ \E c \in Customers : LockExpires(p, c)
  \/ \E o \in OrderIds : OrderAges(o) \/ \E s \in {"completed", "closed"} : Decide(o, s)
  \/ \E d \in Codes : ToggleCode(d) \/ RecalculateUsed(d)
  \/ \E i \in Inbounds : ToggleInbound(i)

-----------------------------------------------------------------------------
(* Properties. *)

(* Each use of a discount code that used_count shows is an order with the  *)
(* code, a checkout under way that will write one or give the use back, or *)
(* the use of a process that died (reserve_discount_usage,                 *)
(* release_discount_usage).  Staff's recalculation forgets the second.     *)
UsesAccounted ==
  \A d \in Codes \ recalculated :
    codes[d].used = Uses(d) + InFlight(d, Requests) + leaked[d]

(* max_usage bounds the orders that get a code's discount, however many    *)
(* requests use it at once, unless its counter was recalculated while a    *)
(* checkout was under way.                                                 *)
DiscountWithinLimit == \A d \in Codes \ recalculated : Uses(d) <= MaxUsage[d]

(* A similar order of the recent window is returned instead of a new one:  *)
(* no customer has two similar pending orders (find_similar_pending_order  *)
(* and the duplicate lock).                                                *)
NoDuplicateOrder == \A c \in Customers : Cardinality(Similar(c)) <= 1
=============================================================================
