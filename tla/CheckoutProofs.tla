--------------------------- MODULE CheckoutProofs ---------------------------
(***************************************************************************)
(* The uses of a discount code are accounted for and stay within its       *)
(* limit, and a deposit pays for one order: for any number of handlers,    *)
(* processes, codes, orders, crashes and interventions of staff.           *)
(***************************************************************************)
EXTENDS PaymentMatching, FiniteSetTheorems, TLAPS

USE CheckoutAssumption

-----------------------------------------------------------------------------
(* What one handler's step does. *)

Fits(q) ==
  /\ q.reserved => q.code \in Codes /\ q.pc \in {"select", "create", "commit"}
  /\ q.pc = "create" => q.inbound \in Inbounds
  /\ q.client => q.pc = "commit" /\ q.inbound \in Inbounds

(* It moves on, or gives up before it holds anything. *)
Quiet(r) ==
  /\ req'[r].reserved = req[r].reserved /\ req'[r].client = req[r].client
  /\ req[r].reserved => req'[r].code = req[r].code
  /\ UNCHANGED <<orders, codes, remote>>

Reserves(r) ==
  /\ req[r].code \in Codes /\ codes[req[r].code].used < MaxUsage[req[r].code]
  /\ ~req[r].reserved /\ req'[r].reserved /\ req'[r].code = req[r].code
  /\ req'[r].client = req[r].client
  /\ codes' = [codes EXCEPT ![req[r].code].used = @ + 1]
  /\ UNCHANGED <<orders, remote>>

Answered(r) ==
  /\ req'[r].reserved = req[r].reserved /\ req'[r].code = req[r].code
  /\ ~req[r].client /\ req'[r].client
  /\ remote' = remote + 1
  /\ UNCHANGED <<orders, codes>>

Fails(r) ==
  /\ ~req'[r].reserved /\ ~req'[r].client
  /\ codes' = Released(r) /\ UNCHANGED <<orders, remote>>

Commits(r) ==
  /\ ~req'[r].reserved /\ ~req'[r].client
  /\ \E o \in OrderIds : CommitOrder(r, o)

OnlyMoved(r) ==
  /\ req' \in [Requests -> Request] /\ Fits(req'[r])
  /\ \A s \in Requests \ {r} : req'[s] = req[s]

(* A fresh handler holds nothing. *)
LEMMA IdleFits ==
  /\ Idle \in Request /\ Fits(Idle) /\ ~Idle.reserved /\ ~Idle.client /\ Idle.code = NoCode
  /\ Idle.pc = "idle"
BY DEF Idle, Request, Steps, Fits

(* The inbound that is chosen is one of the store's. *)
LEMMA SelectInboundType == SelectInbound \subseteq Inbounds
BY DEF SelectInbound, FirstRoute, LeastLoaded

(* A handler that returns is idle again. *)
LEMMA ReturnEffect ==
  ASSUME TypeOK, NEW r \in Requests, req' = [req EXCEPT ![r] = Idle]
  PROVE  OnlyMoved(r) /\ ~req'[r].reserved /\ ~req'[r].client
BY IdleFits DEF OnlyMoved, TypeOK

(* Every step of a handler is one of these five. *)
LEMMA HandlerEffect ==
  ASSUME TypeOK, HoldingsFit, NEW r \in Requests, RequestNext(r)
  PROVE  /\ OnlyMoved(r) /\ UNCHANGED <<recalculated, leaked>>
         /\ Quiet(r) \/ Reserves(r) \/ Answered(r) \/ Fails(r) \/ Commits(r)
<1>1. /\ req \in [Requests -> Request] /\ Fits(req[r])
      /\ req[r] \in Request
  BY DEF TypeOK, HoldingsFit, Fits
<1>2. ASSUME NEW c \in Customers, NEW d \in Codes \cup {NoCode}, Submit(r, c, d)
      PROVE  OnlyMoved(r) /\ UNCHANGED <<recalculated, leaked>> /\ Quiet(r)
  <2>1. /\ req[r].pc = "idle" /\ UNCHANGED <<orders, codes, remote, recalculated, leaked>>
        /\ req' = [req EXCEPT ![r] = [Idle EXCEPT !.pc = "lock", !.customer = c, !.code = d]]
    BY <1>2 DEF Submit
  <2>2. ~req[r].reserved /\ ~req[r].client
    BY <1>1, <2>1 DEF Fits
  <2>3. /\ [Idle EXCEPT !.pc = "lock", !.customer = c, !.code = d] \in Request
        /\ Fits([Idle EXCEPT !.pc = "lock", !.customer = c, !.code = d])
        /\ [Idle EXCEPT !.pc = "lock", !.customer = c, !.code = d].reserved = FALSE
        /\ [Idle EXCEPT !.pc = "lock", !.customer = c, !.code = d].client = FALSE
    BY DEF Idle, Request, Steps, Fits
  <2>4. OnlyMoved(r)
    BY <1>1, <2>1, <2>3 DEF OnlyMoved
  <2>5. req'[r].reserved = FALSE /\ req'[r].client = FALSE
    BY <1>1, <2>1, <2>3
  <2>6. req[r].reserved = FALSE /\ req[r].client = FALSE
    BY <1>1, <2>2 DEF Request
  <2>7. QED
    BY <2>1, <2>4, <2>5, <2>6 DEF Quiet
<1>3. CASE AcquireLock(r)
  <2>1. req[r].pc = "lock" /\ UNCHANGED <<orders, codes, remote, recalculated, leaked>>
    BY <1>3 DEF AcquireLock
  <2>2. req[r].reserved = FALSE /\ req[r].client = FALSE
    BY <1>1, <2>1 DEF Fits, Request
  <2>3. CASE req' = [req EXCEPT ![r] = Idle]
    <3>1. req'[r].reserved = FALSE /\ req'[r].client = FALSE
      BY <1>1, <2>3 DEF Idle
    <3>2. QED
      BY <2>1, <2>2, <2>3, <3>1, ReturnEffect DEF Quiet
  <2>4. CASE req' = [req EXCEPT ![r].pc = "reserve"]
    <3>1. OnlyMoved(r) /\ req'[r].reserved = FALSE /\ req'[r].client = FALSE
      BY <1>1, <2>2, <2>4 DEF OnlyMoved, Request, Steps, Fits
    <3>2. QED
      BY <2>1, <2>2, <3>1 DEF Quiet
  <2>5. QED
    BY <1>3, <2>3, <2>4 DEF AcquireLock, Goto
<1>4. CASE Reserve(r)
  <2>1. req[r].pc = "reserve" /\ UNCHANGED <<orders, remote, recalculated, leaked>>
    BY <1>4 DEF Reserve
  <2>2. req[r].reserved = FALSE /\ req[r].client = FALSE
    BY <1>1, <2>1 DEF Fits, Request
  <2>3. CASE req' = [req EXCEPT ![r].pc = "select"] /\ UNCHANGED codes
    <3>1. OnlyMoved(r) /\ req'[r].reserved = FALSE /\ req'[r].client = FALSE
      BY <1>1, <2>2, <2>3 DEF OnlyMoved, Request, Steps, Fits
    <3>2. QED
      BY <2>1, <2>2, <2>3, <3>1 DEF Quiet
  <2>4. CASE /\ req[r].code # NoCode /\ HasUsage(req[r].code)
             /\ codes' = [codes EXCEPT ![req[r].code].used = @ + 1]
             /\ req' = [req EXCEPT ![r].pc = "select", ![r].reserved = TRUE]
    <3>1. req[r].code \in Codes
      BY <1>1, <2>4 DEF Request
    <3>2. OnlyMoved(r)
      BY <1>1, <2>2, <2>4, <3>1 DEF OnlyMoved, Request, Steps, Fits
    <3>3. /\ req'[r].reserved = TRUE /\ req'[r].code = req[r].code
          /\ req'[r].client = req[r].client
      BY <1>1, <2>4 DEF Request
    <3>4. QED
      BY <2>1, <2>2, <2>4, <3>1, <3>2, <3>3 DEF Reserves, HasUsage
  <2>5. CASE req' = [req EXCEPT ![r] = Idle] /\ UNCHANGED codes
    <3>1. req'[r].reserved = FALSE /\ req'[r].client = FALSE
      BY <1>1, <2>5 DEF Idle
    <3>2. QED
      BY <2>1, <2>2, <2>5, <3>1, ReturnEffect DEF Quiet
  <2>6. QED
    BY <1>4, <2>3, <2>4, <2>5 DEF Reserve, Goto, Return, CodeValid
<1>5. CASE Select(r)
  <2>1. req[r].pc = "select" /\ UNCHANGED <<orders, remote, recalculated, leaked>>
    BY <1>5 DEF Select
  <2>2. ASSUME NEW i \in SelectInbound, UNCHANGED codes,
               req' = [req EXCEPT ![r].pc = "create", ![r].inbound = i]
        PROVE  OnlyMoved(r) /\ Quiet(r)
    <3>1. i \in Inbounds
      BY SelectInboundType
    <3>2. req[r].client = FALSE
      BY <1>1, <2>1 DEF Fits, Request
    <3>3. OnlyMoved(r) /\ Quiet(r)
      BY <1>1, <2>1, <2>2, <3>1, <3>2 DEF OnlyMoved, Quiet, Request, Steps, Fits
    <3>4. QED
      BY <3>3
  <2>3. CASE Fail(r)
    BY <2>1, <2>3, ReturnEffect DEF Fail, Return, Fails
  <2>4. QED
    BY <1>5, <2>1, <2>2, <2>3 DEF Select
<1>6. CASE CreateClient(r)
  <2>1. req[r].pc = "create" /\ UNCHANGED <<orders, recalculated, leaked>>
    BY <1>6 DEF CreateClient
  <2>2. req[r].client = FALSE /\ req[r].inbound \in Inbounds
    BY <1>1, <2>1 DEF Fits, Request
  <2>3. CASE Fail(r) /\ UNCHANGED remote
    BY <2>1, <2>3, ReturnEffect DEF Fail, Return, Fails
  <2>4. CASE /\ req' = [req EXCEPT ![r].pc = "commit", ![r].client = TRUE]
             /\ remote' = remote + 1 /\ UNCHANGED codes
    <3>1. OnlyMoved(r) /\ Answered(r)
      BY <1>1, <2>1, <2>2, <2>4 DEF OnlyMoved, Answered, Request, Steps, Fits
    <3>2. QED
      BY <2>1, <3>1
  <2>5. CASE req' = [req EXCEPT ![r].pc = "commit"] /\ UNCHANGED <<remote, codes>>
    <3>1. OnlyMoved(r) /\ Quiet(r)
      BY <1>1, <2>1, <2>2, <2>5 DEF OnlyMoved, Quiet, Request, Steps, Fits
    <3>2. QED
      BY <2>1, <3>1
  <2>6. QED
    BY <1>6, <2>3, <2>4, <2>5 DEF CreateClient, Goto
<1>7. CASE CommitFails(r)
  BY <1>7, ReturnEffect DEF CommitFails, Fail, Return, Fails
<1>8. ASSUME NEW o \in OrderIds, CommitOrder(r, o)
      PROVE  OnlyMoved(r) /\ UNCHANGED <<recalculated, leaked>> /\ Commits(r)
  BY <1>8, ReturnEffect DEF CommitOrder, Return, Commits
<1>9. QED
  BY <1>2, <1>3, <1>4, <1>5, <1>6, <1>7, <1>8 DEF RequestNext
-----------------------------------------------------------------------------
(* Who holds what. *)

Buyers(d) == {o \in OrderIds : orders[o].status # "none" /\ orders[o].code = d}
Holders(d) == {r \in Requests : req[r].reserved /\ req[r].code = d}

(* The three sets are finite and counted by the model's operators. *)
LEMMA CountsFinite ==
  ASSUME NEW d \in Codes
  PROVE  /\ IsFiniteSet(Buyers(d)) /\ Uses(d) = Cardinality(Buyers(d)) /\ Uses(d) \in Nat
         /\ IsFiniteSet(Holders(d)) /\ InFlight(d, Requests) = Cardinality(Holders(d))
         /\ InFlight(d, Requests) \in Nat
         /\ IsFiniteSet(Clients) /\ Cardinality(Clients) \in Nat
<1>1. Buyers(d) \in SUBSET OrderIds /\ Holders(d) \in SUBSET Requests /\ Clients \in SUBSET Requests
  BY DEF Buyers, Holders, Clients
<1>2. IsFiniteSet(OrderIds)
  BY FS_Interval DEF OrderIds
<1>3. IsFiniteSet(Buyers(d)) /\ IsFiniteSet(Holders(d)) /\ IsFiniteSet(Clients)
  BY <1>1, <1>2, FS_Subset
<1>4. Uses(d) = Cardinality(Buyers(d)) /\ InFlight(d, Requests) = Cardinality(Holders(d))
  BY DEF Uses, InFlight, Buyers, Holders
<1>5. QED
  BY <1>3, <1>4, FS_CardinalityType

(* The handlers' clients, which need no code. *)
LEMMA ClientsFinite == IsFiniteSet(Clients) /\ Cardinality(Clients) \in Nat
<1>1. Clients \in SUBSET Requests
  BY DEF Clients
<1>2. QED
  BY <1>1, FS_Subset, FS_CardinalityType

(* The same after a step. *)
LEMMA CountsFiniteNext ==
  ASSUME NEW d \in Codes
  PROVE  Uses(d)' = Cardinality(Buyers(d)') /\ InFlight(d, Requests)' = Cardinality(Holders(d)')
BY DEF Uses, InFlight, Buyers, Holders

(* A handler's step changes what it holds itself. *)
LEMMA HoldersMove ==
  ASSUME NEW r \in Requests, OnlyMoved(r), NEW d \in Codes
  PROVE  /\ Holders(d)' = IF req'[r].reserved /\ req'[r].code = d
                            THEN Holders(d) \cup {r} ELSE Holders(d) \ {r}
         /\ Clients' = IF req'[r].client THEN Clients \cup {r} ELSE Clients \ {r}
BY DEF OnlyMoved, Holders, Clients

(* The clients alone. *)
LEMMA ClientsMove ==
  ASSUME NEW r \in Requests, OnlyMoved(r)
  PROVE  Clients' = IF req'[r].client THEN Clients \cup {r} ELSE Clients \ {r}
BY DEF OnlyMoved, Clients

(* The order that is written has the code whose use was reserved. *)
LEMMA CommitEffect ==
  ASSUME TypeOK, HoldingsFit, NEW r \in Requests, NEW o \in OrderIds, CommitOrder(r, o),
         NEW d \in Codes
  PROVE  /\ o \notin Buyers(d)
         /\ Buyers(d)' = IF r \in Holders(d) THEN Buyers(d) \cup {o} ELSE Buyers(d)
         /\ codes'[d].used = codes[d].used
<1>1. /\ orders[o].status = "none" /\ orders' = [orders EXCEPT ![o] = NewOrder(r)]
      /\ codes' = MarkUsed(r)
  BY DEF CommitOrder, FreeId
<1>2. NewOrder(r).status = "pending" /\ NewOrder(r).code = IF req[r].reserved THEN req[r].code ELSE NoCode
  BY DEF NewOrder
<1>3. orders'[o] = NewOrder(r) /\ \A p \in OrderIds \ {o} : orders'[p] = orders[p]
  BY <1>1 DEF TypeOK
<1>4. NewOrder(r).code = d <=> r \in Holders(d)
  BY <1>2 DEF Holders
<1>5. codes'[d].used = codes[d].used
  BY <1>1 DEF MarkUsed, TypeOK, CodeRow
<1>6. QED
  BY <1>1, <1>2, <1>3, <1>4, <1>5 DEF Buyers

(* Releasing gives back one use of the handler's code, where one is        *)
(* counted.                                                                *)
LEMMA ReleaseEffect ==
  ASSUME TypeOK, HoldingsFit, NEW r \in Requests, codes' = Released(r), NEW d \in Codes
  PROVE  codes'[d].used = IF r \in Holders(d) /\ codes[d].used > 0
                            THEN codes[d].used - 1 ELSE codes[d].used
<1>1. codes[d] \in CodeRow
  BY DEF TypeOK
<1>2. CASE r \in Holders(d)
  BY <1>1, <1>2 DEF Released, Holders, TypeOK, CodeRow
<1>3. CASE r \notin Holders(d)
  BY <1>1, <1>3 DEF Released, Holders, TypeOK, CodeRow, HoldingsFit
<1>4. QED
  BY <1>2, <1>3

-----------------------------------------------------------------------------
(* The clients on the panel. *)

(* A client that a handler holds is counted until its order is written. *)
LEMMA ClientsHandler ==
  ASSUME TypeOK, HoldingsFit, ClientsOnPanel, NEW r \in Requests, RequestNext(r)
  PROVE  remote' \in Nat /\ ClientsOnPanel'
<1>1. OnlyMoved(r) /\ (Quiet(r) \/ Reserves(r) \/ Answered(r) \/ Fails(r) \/ Commits(r))
  BY HandlerEffect
<1>2. Clients' = IF req'[r].client THEN Clients \cup {r} ELSE Clients \ {r}
  BY <1>1, ClientsMove
<1>3. /\ remote \in Nat /\ Cardinality(Clients) \in Nat /\ Cardinality(Clients) <= remote
      /\ r \in Clients <=> req[r].client
  BY ClientsFinite DEF TypeOK, ClientsOnPanel, Clients
<1>4. CASE Quiet(r) \/ Reserves(r)
  <2>1. remote' = remote /\ req'[r].client = req[r].client
    BY <1>4 DEF Quiet, Reserves
  <2>2. Clients' = Clients
    BY <1>2, <1>3, <2>1
  <2>3. QED
    BY <1>3, <2>1, <2>2 DEF ClientsOnPanel
<1>5. CASE Answered(r)
  <2>1. remote' = remote + 1 /\ Clients' = Clients \cup {r} /\ r \notin Clients
    BY <1>2, <1>3, <1>5 DEF Answered
  <2>2. Cardinality(Clients') = Cardinality(Clients) + 1
    BY <2>1, ClientsFinite, FS_AddElement
  <2>3. QED
    BY <1>3, <2>1, <2>2 DEF ClientsOnPanel
<1>6. CASE Fails(r)
  <2>1. remote' = remote /\ Clients' = Clients \ {r}
    BY <1>2, <1>6 DEF Fails
  <2>2. Cardinality(Clients') \in Nat /\ Cardinality(Clients') <= Cardinality(Clients)
    <3>1. Clients' \in SUBSET Clients
      BY <2>1
    <3>2. QED
      BY <3>1, ClientsFinite, FS_Subset, FS_CardinalityType
  <2>3. QED
    BY <1>3, <2>1, <2>2 DEF ClientsOnPanel
<1>7. CASE Commits(r)
  <2>1. Clients' = Clients \ {r} /\ remote' = IF req[r].client THEN remote - 1 ELSE remote
    BY <1>2, <1>7 DEF Commits, CommitOrder
  <2>2. Cardinality(Clients') = IF r \in Clients THEN Cardinality(Clients) - 1 ELSE Cardinality(Clients)
    BY <2>1, ClientsFinite, FS_RemoveElement
  <2>3. r \in Clients => Cardinality(Clients) # 0
    BY ClientsFinite, FS_EmptySet
  <2>4. QED
    BY <1>3, <2>1, <2>2, <2>3 DEF ClientsOnPanel
<1>8. QED
  BY <1>1, <1>4, <1>5, <1>6, <1>7

-----------------------------------------------------------------------------
(* The uses of a code. *)

UsesInv == UsesAccounted /\ UsedWithinLimit

(* What a code's counter, orders, handlers and lost uses must add up to.   *)
Balanced(d) ==
  /\ codes[d].used = Cardinality(Buyers(d)) + Cardinality(Holders(d)) + leaked[d]
  /\ codes[d].used <= MaxUsage[d]

(* The invariant in these terms. *)
LEMMA UsesBalanced == UsesInv <=> \A d \in Codes \ recalculated : Balanced(d)
<1>1. \A d \in Codes : Uses(d) = Cardinality(Buyers(d)) /\ InFlight(d, Requests) = Cardinality(Holders(d))
  BY CountsFinite
<1>2. QED
  BY <1>1 DEF UsesInv, UsesAccounted, UsedWithinLimit, Balanced

(* The same after a step. *)
LEMMA UsesBalancedNext == UsesInv' <=> \A d \in Codes \ recalculated' : Balanced(d)'
<1>1. \A d \in Codes : Uses(d)' = Cardinality(Buyers(d)') /\ InFlight(d, Requests)' = Cardinality(Holders(d)')
  BY CountsFiniteNext
<1>2. QED
  BY <1>1 DEF UsesInv, UsesAccounted, UsedWithinLimit, Balanced

(* A handler counts each use it reserves, and takes with it or gives back  *)
(* the use it holds.                                                       *)
LEMMA UsesHandler ==
  ASSUME TypeOK, HoldingsFit, NEW r \in Requests, RequestNext(r), UsesInv
  PROVE  UsesInv'
<1> SUFFICES ASSUME NEW d \in Codes \ recalculated' PROVE Balanced(d)'
  BY UsesBalancedNext
<1>1. /\ OnlyMoved(r) /\ UNCHANGED <<recalculated, leaked>>
      /\ Quiet(r) \/ Reserves(r) \/ Answered(r) \/ Fails(r) \/ Commits(r)
  BY HandlerEffect
<1>2. d \in Codes /\ Balanced(d)
  BY <1>1, UsesBalanced
<1>3. Holders(d)' = IF req'[r].reserved /\ req'[r].code = d
                      THEN Holders(d) \cup {r} ELSE Holders(d) \ {r}
  BY <1>1, <1>2, HoldersMove
<1>4. /\ Cardinality(Buyers(d)) \in Nat /\ Cardinality(Holders(d)) \in Nat /\ leaked[d] \in Nat
      /\ codes[d].used \in Nat /\ MaxUsage[d] \in Nat /\ leaked'[d] = leaked[d]
      /\ IsFiniteSet(Buyers(d)) /\ IsFiniteSet(Holders(d))
  BY <1>1, <1>2, CountsFinite DEF TypeOK, CodeRow
<1>5. r \in Holders(d) <=> req[r].reserved /\ req[r].code = d
  BY DEF Holders
<1>6. CASE Quiet(r) \/ Answered(r)
  <2>1. /\ codes' = codes /\ orders' = orders
        /\ req'[r].reserved = req[r].reserved /\ (req[r].reserved => req'[r].code = req[r].code)
    BY <1>6 DEF Quiet, Answered
  <2>2. Holders(d)' = Holders(d) /\ Buyers(d)' = Buyers(d)
    BY <1>3, <1>5, <2>1 DEF Buyers
  <2>3. QED
    BY <1>1, <1>2, <2>1, <2>2 DEF Balanced
<1>7. CASE Reserves(r)
  <2>1. Buyers(d)' = Buyers(d) /\ r \notin Holders(d)
    BY <1>5, <1>7 DEF Reserves, Buyers
  <2>2. CASE req[r].code = d
    <3>1. Cardinality(Holders(d)') = Cardinality(Holders(d)) + 1
      <4>1. Holders(d)' = Holders(d) \cup {r}
        BY <1>3, <1>7, <2>2 DEF Reserves
      <4>2. QED
        BY <1>4, <2>1, <4>1, FS_AddElement
    <3>2. codes'[d].used = codes[d].used + 1 /\ codes[d].used < MaxUsage[d]
      BY <1>2, <1>7, <2>2 DEF Reserves, TypeOK, CodeRow
    <3>3. QED
      BY <1>2, <1>4, <2>1, <3>1, <3>2 DEF Balanced
  <2>3. CASE req[r].code # d
    <3>1. Holders(d)' = Holders(d)
      BY <1>3, <1>7, <2>1, <2>3 DEF Reserves
    <3>2. codes'[d] = codes[d]
      BY <1>2, <1>7, <2>3 DEF Reserves, TypeOK
    <3>3. QED
      BY <1>2, <1>4, <2>1, <3>1, <3>2 DEF Balanced
  <2>4. QED
    BY <2>2, <2>3
<1>8. Cardinality(Holders(d) \ {r}) =
        IF r \in Holders(d) THEN Cardinality(Holders(d)) - 1 ELSE Cardinality(Holders(d))
  BY <1>4, FS_RemoveElement
<1>9. r \in Holders(d) => Cardinality(Holders(d)) # 0
  BY <1>4, FS_EmptySet
<1>10. CASE Fails(r)
  <2>1. Buyers(d)' = Buyers(d) /\ Holders(d)' = Holders(d) \ {r} /\ codes' = Released(r)
    BY <1>3, <1>10 DEF Fails, Buyers
  <2>2. codes'[d].used = IF r \in Holders(d) /\ codes[d].used > 0
                           THEN codes[d].used - 1 ELSE codes[d].used
    BY <1>2, <2>1, ReleaseEffect
  <2>3. CASE r \in Holders(d)
    <3>1. codes[d].used > 0
      BY <1>2, <1>4, <1>9, <2>3 DEF Balanced
    <3>2. QED
      BY <1>2, <1>4, <1>8, <2>1, <2>2, <2>3, <3>1 DEF Balanced
  <2>4. CASE r \notin Holders(d)
    BY <1>2, <1>4, <1>8, <2>1, <2>2, <2>4 DEF Balanced
  <2>5. QED
    BY <2>3, <2>4
<1>11. CASE Commits(r)
  <2>1. PICK o \in OrderIds : CommitOrder(r, o)
    BY <1>11 DEF Commits
  <2>2. /\ Holders(d)' = Holders(d) \ {r} /\ codes'[d].used = codes[d].used /\ o \notin Buyers(d)
        /\ Buyers(d)' = IF r \in Holders(d) THEN Buyers(d) \cup {o} ELSE Buyers(d)
    BY <1>2, <1>3, <1>11, <2>1, CommitEffect DEF Commits
  <2>3. Cardinality(Buyers(d)') = IF r \in Holders(d) THEN Cardinality(Buyers(d)) + 1
                                                      ELSE Cardinality(Buyers(d))
    BY <1>4, <2>2, FS_AddElement
  <2>4. QED
    BY <1>2, <1>4, <1>8, <1>9, <2>2, <2>3 DEF Balanced
<1>12. QED
  BY <1>1, <1>6, <1>7, <1>10, <1>11
(* A step that changes no code, order or handler, or only how an order     *)
(* stands.                                                                 *)
UsesUntouched ==
  /\ UNCHANGED <<leaked, req>> /\ recalculated \subseteq recalculated'
  /\ \A d \in Codes \ recalculated' : codes'[d].used = codes[d].used
  /\ \A o \in OrderIds : /\ orders'[o].code = orders[o].code
                         /\ orders'[o].status = "none" <=> orders[o].status = "none"

(* Such a step keeps the counts. *)
LEMMA UsesKept == ASSUME UsesInv, UsesUntouched PROVE UsesInv'
<1> SUFFICES ASSUME NEW d \in Codes \ recalculated' PROVE Balanced(d)'
  BY UsesBalancedNext
<1>1. Balanced(d)
  BY UsesBalanced DEF UsesUntouched
<1>2. Holders(d)' = Holders(d) /\ Buyers(d)' = Buyers(d)
  BY DEF UsesUntouched, Holders, Buyers
<1>3. QED
  BY <1>1, <1>2 DEF UsesUntouched, Balanced

(* The uses that a dying process held become lost uses. *)
LEMMA UsesCrash ==
  ASSUME TypeOK, UsesInv, NEW p, Crash(p)
  PROVE  UsesInv' /\ leaked' \in [Codes -> Nat]
<1> DEFINE dead == {r \in Requests : ProcessOf[r] = p}
<1>1. /\ leaked' = [d \in Codes |-> leaked[d] + InFlight(d, dead)]
      /\ req' = [r \in Requests |-> IF r \in dead THEN Idle ELSE req[r]]
      /\ UNCHANGED <<orders, codes, recalculated>>
  BY DEF Crash
<1>2. ASSUME NEW d \in Codes
      PROVE  /\ Holders(d)' = Holders(d) \ dead
             /\ InFlight(d, dead) = Cardinality(Holders(d) \cap dead)
             /\ InFlight(d, dead) \in Nat
             /\ Cardinality(Holders(d)') = Cardinality(Holders(d)) - InFlight(d, dead)
  <2>1. Holders(d)' = Holders(d) \ dead
    BY <1>1, IdleFits DEF Holders
  <2>2. {r \in dead : req[r].reserved /\ req[r].code = d} = Holders(d) \cap dead
    BY DEF Holders
  <2>3. InFlight(d, dead) = Cardinality(Holders(d) \cap dead)
    BY <2>2 DEF InFlight
  <2>4. IsFiniteSet(Holders(d))
    BY CountsFinite
  <2> HIDE DEF dead
  <2>5. InFlight(d, dead) \in Nat
    BY <2>3, <2>4, FS_Intersection, FS_CardinalityType
  <2>6. Cardinality(Holders(d) \ dead) = Cardinality(Holders(d)) - Cardinality(Holders(d) \cap dead)
    BY <2>4, FS_Difference
  <2>7. QED
    BY <2>1, <2>3, <2>5, <2>6
<1> HIDE DEF dead
<1>3. leaked' \in [Codes -> Nat]
  <2>1. \A d \in Codes : leaked[d] \in Nat /\ InFlight(d, dead) \in Nat
    BY <1>2 DEF TypeOK
  <2>2. \A d \in Codes : leaked[d] + InFlight(d, dead) \in Nat
    BY <2>1
  <2>3. QED
    BY <1>1, <2>2
<1>4. ASSUME NEW d \in Codes \ recalculated' PROVE Balanced(d)'
  <2>1. d \in Codes /\ Balanced(d) /\ Buyers(d)' = Buyers(d)
    BY <1>1, UsesBalanced DEF Buyers
  <2>2. /\ Cardinality(Buyers(d)) \in Nat /\ Cardinality(Holders(d)) \in Nat
        /\ leaked[d] \in Nat /\ leaked'[d] = leaked[d] + InFlight(d, dead)
    BY <1>1, <2>1, CountsFinite DEF TypeOK
  <2>3. /\ InFlight(d, dead) \in Nat
        /\ Cardinality(Holders(d)') = Cardinality(Holders(d)) - InFlight(d, dead)
    BY <1>2, <2>1
  <2>4. codes'[d].used = Cardinality(Buyers(d)') + Cardinality(Holders(d)') + leaked'[d]
    BY <1>1, <2>1, <2>2, <2>3 DEF Balanced
  <2>5. QED
    BY <1>1, <2>1, <2>4 DEF Balanced
<1>5. QED
  BY <1>3, <1>4, UsesBalancedNext

-----------------------------------------------------------------------------
(* The other tables. *)

(* Orders and codes keep their type. *)
LEMMA RowsTyped ==
  ASSUME MatchingInv, Next
  PROVE  orders' \in [OrderIds -> OrderRow] /\ codes' \in [Codes -> CodeRow]
<1>1. /\ orders \in [OrderIds -> OrderRow] /\ codes \in [Codes -> CodeRow]
      /\ req \in [Requests -> Request] /\ TypeOK /\ HoldingsFit
  BY DEF MatchingInv, TypeOK
<1>2. ASSUME NEW r \in Requests, RequestNext(r)
      PROVE  orders' \in [OrderIds -> OrderRow] /\ codes' \in [Codes -> CodeRow]
  <2>1. CASE Quiet(r) \/ Answered(r)
    BY <1>1, <2>1 DEF Quiet, Answered
  <2>2. CASE Reserves(r)
    BY <1>1, <2>2 DEF Reserves, CodeRow
  <2>3. CASE Fails(r)
    <3>1. req[r].reserved => req[r].code \in Codes
      BY <1>1 DEF HoldingsFit
    <3>2. QED
      BY <1>1, <2>3, <3>1 DEF Fails, Released, CodeRow
  <2>4. ASSUME NEW o \in OrderIds, CommitOrder(r, o)
        PROVE  orders' \in [OrderIds -> OrderRow] /\ codes' \in [Codes -> CodeRow]
    <3>1. orders' = [orders EXCEPT ![o] = NewOrder(r)] /\ codes' = MarkUsed(r)
      BY <2>4 DEF CommitOrder
    <3>2. NewOrder(r) \in OrderRow
      BY <1>1 DEF NewOrder, OrderRow, OrderStatus, Request
    <3>3. MarkUsed(r) \in [Codes -> CodeRow]
      BY <1>1 DEF MarkUsed, CodeRow
    <3>4. QED
      BY <1>1, <3>1, <3>2, <3>3
  <2>5. QED
    BY <1>1, <1>2, <2>1, <2>2, <2>3, <2>4, HandlerEffect DEF Commits
<1>3. ASSUME NEW o \in OrderIds, OrderAges(o)
      PROVE  orders' \in [OrderIds -> OrderRow] /\ UNCHANGED codes
  BY <1>1, <1>3 DEF OrderAges, OrderRow
<1>4. ASSUME NEW o \in OrderIds, NEW status \in {"completed", "closed"}, Decide(o, status)
      PROVE  orders' \in [OrderIds -> OrderRow] /\ UNCHANGED codes
  BY <1>1, <1>4 DEF Decide, OrderRow, OrderStatus
<1>5. ASSUME NEW d \in Codes, ToggleCode(d) \/ RecalculateUsed(d)
      PROVE  UNCHANGED orders /\ codes' \in [Codes -> CodeRow]
  <2>1. CASE ToggleCode(d)
    BY <1>1, <2>1 DEF ToggleCode, CodeRow
  <2>2. CASE RecalculateUsed(d)
    BY <1>1, <2>2, CountsFinite DEF RecalculateUsed, CodeRow
  <2>3. QED
    BY <1>5, <2>1, <2>2
<1>6. ASSUME NEW o \in OrderIds, ConfirmSms(o)
      PROVE  orders' \in [OrderIds -> OrderRow] /\ UNCHANGED codes
  <2>1. /\ orders' = [orders EXCEPT ![o].status = IF @ = "completed" THEN @ ELSE "confirmed"]
        /\ UNCHANGED codes
    BY <1>6 DEF ConfirmSms
  <2>2. QED
    BY <1>1, <2>1 DEF OrderRow, OrderStatus
<1>7. ASSUME NEW p \in Processes, Crash(p) \/ \E c \in Customers : LockExpires(p, c)
      PROVE  UNCHANGED <<orders, codes>>
  BY <1>7 DEF Crash, LockExpires
<1>8. ASSUME NEW i \in Inbounds, ToggleInbound(i) PROVE UNCHANGED <<orders, codes>>
  BY <1>8 DEF ToggleInbound
<1>9. ASSUME SmsArrives \/ Reevaluate \/ WriteMatches \/ DismissSms PROVE UNCHANGED <<orders, codes>>
  BY <1>9 DEF SmsArrives, Reevaluate, WriteMatches, DismissSms, checkoutVars
<1>10. QED
  BY <1>1, <1>2, <1>3, <1>4, <1>5, <1>6, <1>7, <1>8, <1>9 DEF Next, CheckoutNext, SmsNext

(* So do inbounds, caches and counters. *)
LEMMA CountersTyped ==
  ASSUME MatchingInv, Next
  PROVE  /\ inbounds' \in [Inbounds -> InboundRow] /\ cache' \in [Processes -> SUBSET Customers]
         /\ faults' \in 0..MaxFaults /\ staff' \in 0..MaxStaff /\ recalculated' \subseteq Codes
<1>1. /\ inbounds \in [Inbounds -> InboundRow] /\ cache \in [Processes -> SUBSET Customers]
      /\ faults \in 0..MaxFaults /\ staff \in 0..MaxStaff /\ recalculated \subseteq Codes
      /\ req \in [Requests -> Request] /\ HoldingsFit
  BY DEF MatchingInv, TypeOK
<1> DEFINE Typed == /\ inbounds' \in [Inbounds -> InboundRow]
                    /\ cache' \in [Processes -> SUBSET Customers]
                    /\ faults' \in 0..MaxFaults /\ staff' \in 0..MaxStaff
                    /\ recalculated' \subseteq Codes
<1>2. ASSUME NEW r \in Requests, RequestNext(r) PROVE Typed
  <2>1. ProcessOf[r] \in Processes /\ req[r].customer \in Customers
    BY <1>1 DEF Processes, Request
  <2>2. cache' \in {cache, [cache EXCEPT ![ProcessOf[r]] = @ \cup {req[r].customer}],
                    [cache EXCEPT ![ProcessOf[r]] = @ \ {req[r].customer}]}
    BY <1>2 DEF RequestNext, Submit, AcquireLock, Reserve, Select, CreateClient, CommitFails,
                CommitOrder, Fail, Return
  <2>3. cache' \in [Processes -> SUBSET Customers]
    <3>1. [cache EXCEPT ![ProcessOf[r]] = @ \cup {req[r].customer}] \in [Processes -> SUBSET Customers]
      BY <1>1, <2>1
    <3>2. [cache EXCEPT ![ProcessOf[r]] = @ \ {req[r].customer}] \in [Processes -> SUBSET Customers]
      BY <1>1, <2>1
    <3>3. QED
      BY <1>1, <2>2, <3>1, <3>2
  <2>4. /\ UNCHANGED <<recalculated, staff>>
        /\ faults' = faults \/ (faults < MaxFaults /\ faults' = faults + 1)
    BY <1>2 DEF RequestNext, Submit, AcquireLock, Reserve, Select, CreateClient, CommitFails,
                CommitOrder
  <2>5. inbounds' = inbounds \/ (req[r].client
          /\ inbounds' = [inbounds EXCEPT ![req[r].inbound].users = @ + 1])
    BY <1>2 DEF RequestNext, Submit, AcquireLock, Reserve, Select, CreateClient, CommitFails,
                CommitOrder
  <2>6. inbounds' \in [Inbounds -> InboundRow]
    <3>1. req[r].client => req[r].inbound \in Inbounds
      BY <1>1 DEF HoldingsFit
    <3>2. QED
      BY <1>1, <2>5, <3>1 DEF InboundRow
  <2>7. QED
    BY <1>1, <2>3, <2>4, <2>6
<1>3. ASSUME NEW p \in Processes, Crash(p) \/ \E c \in Customers : LockExpires(p, c) PROVE Typed
  BY <1>1, <1>3 DEF Crash, LockExpires
<1>4. ASSUME NEW o \in OrderIds,
             OrderAges(o) \/ (\E s \in {"completed", "closed"} : Decide(o, s)) \/ ConfirmSms(o)
      PROVE  Typed
  BY <1>1, <1>4 DEF OrderAges, Decide, ConfirmSms
<1>5. ASSUME NEW d \in Codes, ToggleCode(d) \/ RecalculateUsed(d) PROVE Typed
  BY <1>1, <1>5 DEF ToggleCode, RecalculateUsed, Intervene
<1>6. ASSUME NEW i \in Inbounds, ToggleInbound(i) PROVE Typed
  <2>1. /\ staff < MaxStaff /\ staff' = staff + 1 /\ UNCHANGED <<cache, faults, recalculated>>
        /\ inbounds' = [inbounds EXCEPT ![i].active = ~@]
    BY <1>6 DEF ToggleInbound, Intervene
  <2>2. inbounds' \in [Inbounds -> InboundRow]
    BY <1>1, <2>1 DEF InboundRow
  <2>3. QED
    BY <1>1, <2>1, <2>2
<1>7. ASSUME SmsArrives \/ Reevaluate \/ WriteMatches \/ DismissSms PROVE Typed
  BY <1>1, <1>7 DEF SmsArrives, Reevaluate, WriteMatches, DismissSms, checkoutVars
<1> HIDE DEF Typed
<1>8. Typed
  BY <1>2, <1>3, <1>4, <1>5, <1>6, <1>7 DEF Next, CheckoutNext, SmsNext
<1>9. QED
  BY <1>8 DEF Typed

(* Every step keeps what handlers hold within bounds and accounted for. *)
LEMMA HoldingsStep ==
  ASSUME MatchingInv, Next
  PROVE  /\ req' \in [Requests -> Request] /\ HoldingsFit'
         /\ remote' \in Nat /\ ClientsOnPanel'
         /\ leaked' \in [Codes -> Nat] /\ UsesInv'
<1> DEFINE Held == /\ req' \in [Requests -> Request] /\ HoldingsFit'
                   /\ remote' \in Nat /\ ClientsOnPanel'
                   /\ leaked' \in [Codes -> Nat] /\ UsesInv'
<1>1. /\ TypeOK /\ req \in [Requests -> Request] /\ HoldingsFit /\ remote \in Nat /\ ClientsOnPanel
      /\ leaked \in [Codes -> Nat] /\ UsesInv
  BY DEF MatchingInv, TypeOK, UsesInv
<1>2. ASSUME NEW r \in Requests, RequestNext(r) PROVE Held
  <2>1. OnlyMoved(r) /\ UNCHANGED leaked
    BY <1>1, <1>2, HandlerEffect
  <2>2. HoldingsFit'
    BY <1>1, <2>1 DEF OnlyMoved, HoldingsFit, Fits
  <2>3. remote' \in Nat /\ ClientsOnPanel' /\ UsesInv'
    BY <1>1, <1>2, ClientsHandler, UsesHandler
  <2>4. QED
    BY <1>1, <2>1, <2>2, <2>3 DEF OnlyMoved
<1>3. ASSUME UNCHANGED <<req, remote>>, UsesUntouched PROVE Held
  <2>1. Clients' = Clients
    BY <1>3 DEF Clients
  <2>2. HoldingsFit' /\ ClientsOnPanel'
    BY <1>1, <1>3, <2>1 DEF HoldingsFit, ClientsOnPanel
  <2>3. QED
    BY <1>1, <1>3, <2>2, UsesKept DEF UsesUntouched
<1>4. ASSUME NEW p \in Processes, Crash(p) PROVE Held
  <2> DEFINE dead == {r \in Requests : ProcessOf[r] = p}
  <2>1. req' = [r \in Requests |-> IF r \in dead THEN Idle ELSE req[r]] /\ UNCHANGED remote
    BY <1>4 DEF Crash
  <2> HIDE DEF dead
  <2>2. req' \in [Requests -> Request] /\ \A r \in Requests : Fits(req'[r])
    BY <1>1, <2>1, IdleFits DEF HoldingsFit, Fits
  <2>3. Clients' \in SUBSET Clients
    BY <2>1, IdleFits DEF Clients
  <2>4. Cardinality(Clients') \in Nat /\ Cardinality(Clients') <= Cardinality(Clients)
    BY <2>3, ClientsFinite, FS_Subset, FS_CardinalityType
  <2>5. ClientsOnPanel'
    BY <1>1, <2>1, <2>4, ClientsFinite DEF ClientsOnPanel
  <2>6. UsesInv' /\ leaked' \in [Codes -> Nat]
    BY <1>1, <1>4, UsesCrash
  <2>7. QED
    BY <1>1, <2>1, <2>2, <2>5, <2>6 DEF HoldingsFit, Fits
<1>5. ASSUME NEW p \in Processes, \E c \in Customers : LockExpires(p, c)
      PROVE  UNCHANGED <<req, remote>> /\ UsesUntouched
  BY <1>5 DEF LockExpires, UsesUntouched
<1>6. ASSUME NEW o \in OrderIds, OrderAges(o) \/ (\E s \in {"completed", "closed"} : Decide(o, s))
      PROVE  UNCHANGED <<req, remote>> /\ UsesUntouched
  <2>1. orders \in [OrderIds -> OrderRow]
    BY <1>1 DEF TypeOK
  <2>2. QED
    BY <1>6, <2>1 DEF OrderAges, Decide, UsesUntouched, OrderRow
<1>7. ASSUME NEW o \in OrderIds, ConfirmSms(o) PROVE UNCHANGED <<req, remote>> /\ UsesUntouched
  <2>1. /\ orders[o].status # "none" /\ orders \in [OrderIds -> OrderRow]
        /\ orders' \in {[orders EXCEPT ![o].status = orders[o].status],
                        [orders EXCEPT ![o].status = "confirmed"]}
        /\ UNCHANGED <<req, remote, leaked, codes, recalculated>>
    BY <1>1, <1>7 DEF ConfirmSms, TypeOK
  <2>2. QED
    BY <2>1 DEF UsesUntouched, OrderRow
<1>8. ASSUME NEW d \in Codes, ToggleCode(d) \/ RecalculateUsed(d)
      PROVE  UNCHANGED <<req, remote>> /\ UsesUntouched
  <2>1. codes \in [Codes -> CodeRow]
    BY <1>1 DEF TypeOK
  <2>2. CASE ToggleCode(d)
    BY <2>1, <2>2 DEF ToggleCode, UsesUntouched, CodeRow
  <2>3. CASE RecalculateUsed(d)
    BY <2>1, <2>3 DEF RecalculateUsed, UsesUntouched, CodeRow
  <2>4. QED
    BY <1>8, <2>2, <2>3
<1>9. ASSUME NEW i \in Inbounds, ToggleInbound(i) PROVE UNCHANGED <<req, remote>> /\ UsesUntouched
  BY <1>9 DEF ToggleInbound, UsesUntouched
<1>10. ASSUME SmsArrives \/ Reevaluate \/ WriteMatches \/ DismissSms
       PROVE  UNCHANGED <<req, remote>> /\ UsesUntouched
  BY <1>10 DEF SmsArrives, Reevaluate, WriteMatches, DismissSms, UsesUntouched, checkoutVars
<1> HIDE DEF Held
<1>11. Held
  BY <1>2, <1>3, <1>4, <1>5, <1>6, <1>7, <1>8, <1>9, <1>10 DEF Next, CheckoutNext, SmsNext
<1>12. QED
  BY <1>11 DEF Held

-----------------------------------------------------------------------------
(* The SMS. *)

SmsTyped ==
  /\ sms \in SmsRow /\ paidBy \subseteq OrderIds /\ overwritten \in BOOLEAN
  /\ reread \in [reading: BOOLEAN, status: SmsStatus, found: SUBSET OrderIds]

(* Only a confirmation adds to what the SMS pays for, and only for an SMS  *)
(* that is not confirmed: none has been, or its mark was overwritten.      *)
LEMMA SmsStep == ASSUME MatchingInv, Next PROVE SmsTyped' /\ PaidWhileConfirmed'
<1>1. SmsTyped /\ PaidWhileConfirmed
  BY DEF MatchingInv, TypeOK, SmsTyped
<1>2. Matching \subseteq OrderIds
  BY DEF Matching
<1>3. CASE UNCHANGED smsVars
  BY <1>1, <1>3 DEF SmsTyped, PaidWhileConfirmed, smsVars
<1>4. CASE SmsArrives
  <2>1. SmsTyped'
    BY <1>1, <1>2, <1>4 DEF SmsArrives, SmsTyped, SmsRow, SmsStatus
  <2>2. QED
    BY <1>1, <1>4, <2>1 DEF SmsArrives, PaidWhileConfirmed
<1>5. CASE Reevaluate
  BY <1>1, <1>2, <1>5 DEF Reevaluate, SmsTyped, SmsRow, SmsStatus, PaidWhileConfirmed
<1>6. CASE WriteMatches
  <2>1. /\ sms' = [status |-> sms'.status, orders |-> reread.found]
        /\ sms'.status = sms.status \/ sms'.status \in {"matched", "no_match"}
        /\ overwritten' = (overwritten \/ (sms.status = "confirmed" /\ sms'.status # "confirmed"))
        /\ reread' = NotReading /\ UNCHANGED paidBy
    BY <1>6 DEF WriteMatches
  <2>2. SmsTyped'
    BY <1>1, <2>1 DEF SmsTyped, SmsRow, SmsStatus, NotReading
  <2>3. PaidWhileConfirmed'
    BY <1>1, <2>1 DEF PaidWhileConfirmed
  <2>4. QED
    BY <2>2, <2>3
<1>7. CASE DismissSms
  <2>1. SmsTyped'
    BY <1>1, <1>7 DEF DismissSms, SmsTyped, SmsRow, SmsStatus
  <2>2. QED
    BY <1>1, <1>7, <2>1 DEF DismissSms, PaidWhileConfirmed
<1>8. ASSUME NEW o \in OrderIds, ConfirmSms(o) PROVE SmsTyped' /\ PaidWhileConfirmed'
  <2>1. /\ sms.status # "confirmed" /\ sms' = [sms EXCEPT !.status = "confirmed"]
        /\ paidBy' = paidBy \cup {o} /\ UNCHANGED <<reread, overwritten>>
    BY <1>8 DEF ConfirmSms, Confirmable
  <2>2. SmsTyped' /\ sms'.status = "confirmed"
    BY <1>1, <2>1 DEF SmsTyped, SmsRow, SmsStatus
  <2>3. PaidWhileConfirmed'
    BY <1>1, <2>1, <2>2 DEF PaidWhileConfirmed
  <2>4. QED
    BY <2>2, <2>3
<1>9. QED
  BY <1>3, <1>4, <1>5, <1>6, <1>7, <1>8 DEF Next, SmsNext

-----------------------------------------------------------------------------
(* The invariant. *)

(* No order, use or client exists at the start. *)
LEMMA InvInit == Init => MatchingInv
<1> SUFFICES ASSUME Init PROVE MatchingInv
  OBVIOUS
<1>1. NoOrder \in OrderRow /\ NoOrder.status = "none"
  BY DEF NoOrder, OrderRow, OrderStatus
<1>2. orders \in [OrderIds -> OrderRow] /\ req \in [Requests -> Request]
  BY <1>1, IdleFits DEF Init, CheckoutInit
<1>3. /\ codes \in [Codes -> CodeRow] /\ inbounds \in [Inbounds -> InboundRow]
      /\ cache \in [Processes -> SUBSET Customers] /\ remote \in Nat
      /\ recalculated \subseteq Codes /\ leaked \in [Codes -> Nat]
      /\ faults \in 0..MaxFaults /\ staff \in 0..MaxStaff
  <2>1. inbounds \in [Inbounds -> [active: {TRUE}, users: 0..Capacity]]
    BY DEF Init, CheckoutInit
  <2>2. ASSUME NEW row \in [active: {TRUE}, users: 0..Capacity] PROVE row \in InboundRow
    <3>1. {TRUE} \subseteq BOOLEAN
      BY Zenon
    <3>2. 0..Capacity \subseteq Nat
      OBVIOUS
    <3>3. QED
      BY <3>1, <3>2, Zenon DEF InboundRow
  <2>3. inbounds \in [Inbounds -> InboundRow]
    BY <2>1, <2>2
  <2>4. codes \in [Codes -> CodeRow]
    BY DEF Init, CheckoutInit, CodeRow
  <2>5. QED
    BY <2>3, <2>4 DEF Init, CheckoutInit
<1>4. /\ sms \in SmsRow /\ paidBy \subseteq OrderIds /\ overwritten \in BOOLEAN
      /\ reread \in [reading: BOOLEAN, status: SmsStatus, found: SUBSET OrderIds]
  BY DEF Init, SmsInit, SmsRow, SmsStatus, NotReading
<1>5. HoldingsFit
  BY IdleFits DEF Init, CheckoutInit, HoldingsFit, Fits
<1>6. ClientsOnPanel
  <2>1. Clients = {}
    BY IdleFits DEF Init, CheckoutInit, Clients
  <2>2. QED
    BY <2>1, FS_EmptySet DEF Init, CheckoutInit, ClientsOnPanel
<1>7. UsesInv
  <2>1. \A d \in Codes : Buyers(d) = {} /\ Holders(d) = {}
    <3>1. \A o \in OrderIds : orders[o].status = "none"
      BY <1>1 DEF Init, CheckoutInit
    <3>2. \A r \in Requests : ~req[r].reserved
      BY IdleFits DEF Init, CheckoutInit
    <3>3. QED
      BY <3>1, <3>2 DEF Buyers, Holders
  <2>2. \A d \in Codes : codes[d].used = 0 /\ leaked[d] = 0 /\ MaxUsage[d] \in Nat
    BY DEF Init, CheckoutInit
  <2>3. ASSUME NEW d \in Codes PROVE Balanced(d)
    <3>1. Cardinality(Buyers(d)) = 0 /\ Cardinality(Holders(d)) = 0
      BY <2>1, FS_EmptySet
    <3>2. QED
      BY <2>2, <3>1 DEF Balanced
  <2>4. QED
    BY <2>3, UsesBalanced
<1>8. QED
  BY <1>2, <1>3, <1>4, <1>5, <1>6, <1>7
  DEF MatchingInv, TypeOK, UsesInv, PaidWhileConfirmed, Init, SmsInit

(* Every step keeps the invariant. *)
LEMMA InvStep == MatchingInv /\ [Next]_<<checkoutVars, smsVars>> => MatchingInv'
<1>1. ASSUME MatchingInv, Next PROVE MatchingInv'
  <2>1. orders' \in [OrderIds -> OrderRow] /\ codes' \in [Codes -> CodeRow]
    BY <1>1, RowsTyped
  <2>2. /\ inbounds' \in [Inbounds -> InboundRow] /\ cache' \in [Processes -> SUBSET Customers]
        /\ faults' \in 0..MaxFaults /\ staff' \in 0..MaxStaff /\ recalculated' \subseteq Codes
    BY <1>1, CountersTyped
  <2>3. /\ req' \in [Requests -> Request] /\ HoldingsFit'
        /\ remote' \in Nat /\ ClientsOnPanel' /\ leaked' \in [Codes -> Nat] /\ UsesInv'
    BY <1>1, HoldingsStep
  <2>4. SmsTyped' /\ PaidWhileConfirmed'
    BY <1>1, SmsStep
  <2>5. TypeOK'
    BY <2>1, <2>2, <2>3, <2>4 DEF TypeOK, SmsTyped
  <2>6. QED
    BY <2>3, <2>4, <2>5 DEF MatchingInv, UsesInv
<1>2. ASSUME MatchingInv, UNCHANGED <<checkoutVars, smsVars>> PROVE MatchingInv'
  <2>1. TypeOK' /\ HoldingsFit' /\ PaidWhileConfirmed' /\ UsedWithinLimit'
    BY <1>2 DEF MatchingInv, TypeOK, HoldingsFit, PaidWhileConfirmed, UsedWithinLimit,
                checkoutVars, smsVars
  <2>2. ClientsOnPanel' /\ UsesAccounted'
    BY <1>2 DEF MatchingInv, ClientsOnPanel, Clients, UsesAccounted, Uses, InFlight, checkoutVars
  <2>3. QED
    BY <2>1, <2>2 DEF MatchingInv
<1>3. QED
  BY <1>1, <1>2

-----------------------------------------------------------------------------
(* The theorems. *)

(* Checkouts and the matching stay well typed: in particular no counter of *)
(* uses or of clients on the panel falls below zero.                       *)
THEOREM TypeCorrect == Spec => []TypeOK
<1>1. MatchingInv => TypeOK
  BY DEF MatchingInv
<1>2. QED
  BY InvInit, InvStep, <1>1, PTL DEF Spec

(* used_count is the orders with the code, the checkouts that hold a use   *)
(* and the uses lost with a process, however they interleave               *)
(* (reserve_discount_usage, release_discount_usage).                       *)
THEOREM UsesAccountedAlways == Spec => []UsesAccounted
<1>1. MatchingInv => UsesAccounted
  BY DEF MatchingInv
<1>2. QED
  BY InvInit, InvStep, <1>1, PTL DEF Spec

(* No more orders than max_usage get the discount of a code that staff     *)
(* have not recalculated: they are among the uses its counter shows        *)
(* (reserve_discount_usage).                                               *)
THEOREM DiscountWithinLimitAlways == Spec => []DiscountWithinLimit
<1>1. MatchingInv => DiscountWithinLimit
  <2> SUFFICES ASSUME MatchingInv, NEW d \in Codes \ recalculated
               PROVE  Uses(d) <= MaxUsage[d]
    BY DEF DiscountWithinLimit
  <2>1. /\ codes[d].used = Uses(d) + InFlight(d, Requests) + leaked[d]
        /\ codes[d].used <= MaxUsage[d] /\ leaked[d] \in Nat /\ MaxUsage[d] \in Nat
    BY DEF MatchingInv, UsesAccounted, UsedWithinLimit, TypeOK
  <2>2. Uses(d) \in Nat /\ InFlight(d, Requests) \in Nat
    BY CountsFinite
  <2>3. QED
    BY <2>1, <2>2
<1>2. QED
  BY InvInit, InvStep, <1>1, PTL DEF Spec

(* A deposit SMS confirms one order, unless its mark was overwritten in    *)
(* between (confirm_incoming_payment_sms).                                 *)
THEOREM SmsPaysOnceAlways == Spec => []SmsPaysOnce
<1>1. MatchingInv => SmsPaysOnce
  <2> SUFFICES ASSUME MatchingInv, ~overwritten PROVE Cardinality(paidBy) <= 1
    BY DEF SmsPaysOnce
  <2>1. CASE paidBy = {}
    BY <2>1, FS_EmptySet
  <2>2. ASSUME NEW o \in OrderIds, paidBy = {o} PROVE Cardinality(paidBy) <= 1
    <3>1. Cardinality({o}) = 1
      BY FS_Singleton
    <3>2. QED
      BY <2>2, <3>1
  <2>3. QED
    BY <2>1, <2>2 DEF MatchingInv, PaidWhileConfirmed
<1>2. QED
  BY InvInit, InvStep, <1>1, PTL DEF Spec
=============================================================================
