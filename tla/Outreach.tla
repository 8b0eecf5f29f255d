------------------------------ MODULE Outreach ------------------------------
(***************************************************************************)
(* Messages about a purchase (customer_activity/outreach.py) and the older *)
(* revenue offers beside them.  An event is reserved under the locks of    *)
(* its store and its customer before anything is sent, validated again,    *)
(* sent, and its result recorded if the row still says so; a result that   *)
(* is not known is never sent again.                                       *)
(***************************************************************************)
EXTENDS Naturals, FiniteSets

CONSTANTS
  Events,        \* OutreachEvent rows: (order, cycle, kind)
  CustomerOf,
  Runners,       \* runs of run_outreach
  Owners,        \* handlers of the dashboard's retry button
  WeeklyCap,     \* 3 messages to a customer in seven days
  DailyLimit,    \* OutreachSettings.daily_limit
  MaxReservations, MaxOwnerRetries, MaxChanges   \* bounds

OutreachCustomers == {CustomerOf[e] : e \in Events}

ASSUME OutreachAssumption ==
  /\ WeeklyCap \in Nat \ {0} /\ DailyLimit \in Nat \ {0}
  /\ MaxReservations \in Nat /\ MaxOwnerRetries \in Nat /\ MaxChanges \in Nat
  /\ IsFiniteSet(Events)

VARIABLES
  mode,         \* OutreachSettings.mode
  event,        \* status of each event and age of its claim
  eligible,     \* events whose purchase is a candidate of their kind now
  silenced,     \* customers with reminders muted, support open, no chat, or quiet hours
  runner,       \* what each run is doing
  owner,        \* the failed event that each dashboard request has read
  offer,        \* age of each customer's last logged offer
  offering,     \* customers whose offer has passed can_send_revenue_offer
  reached,      \* messages that have arrived for each event
  overwritten,  \* events whose status a stale retry overwrote
  crossed,      \* customers who got an offer while an event was reserved
  reservations, ownerRetries, changes

outreachVars == <<mode, event, eligible, silenced, runner, owner, offer, offering,
                  reached, overwritten, crossed, reservations, ownerRetries, changes>>

PendingEvents == {"none", "preview", "ready", "cancelled"}

(* Mutant: a message that may not have arrived does not count. *)
ReservedForSure == {"sending", "sent"}

Reserved == {"sending", "sent", "uncertain"}
Ages == {"none", "minutes", "day", "week", "old"}     \* under 10 minutes, 1 day, 7 days
Today == {"minutes", "day"}
ThisWeek == Today \cup {"week"}

Waiting == [pc |-> "idle", event |-> {}, result |-> "none"]

OutreachInit ==
  /\ mode = "live"
  /\ event = [e \in Events |-> [status |-> "none", claimed |-> "none"]]
  /\ eligible = Events
  /\ silenced = {}
  /\ runner = [w \in Runners |-> Waiting]
  /\ owner = [o \in Owners |-> {}]
  /\ offer = [c \in OutreachCustomers |-> "none"]
  /\ offering = {} /\ overwritten = {} /\ crossed = {}
  /\ reached = [e \in Events |-> 0]
  /\ reservations = 0 /\ ownerRetries = 0 /\ changes = 0

Count(S, ages) == Cardinality({e \in S : event[e].status \in Reserved /\ event[e].claimed \in ages})
Offers(C, ages) == Cardinality({c \in C : offer[c] \in ages})

(* suppression, without the event itself. *)
Suppressed(e) ==
  LET c == CustomerOf[e]
      previous == Events \ {e}
      personal == {f \in previous : CustomerOf[f] = c} IN
  \/ mode = "off" \/ c \in silenced
  \/ Count(personal, Today) > 0 \/ offer[c] \in Today
  \/ Count(personal, ThisWeek) + Offers({c}, ThisWeek) >= WeeklyCap
  \/ Count(previous, Today) + Offers(OutreachCustomers, Today) >= DailyLimit

-----------------------------------------------------------------------------
(* What happens around the runs. *)

(* prepare_store: a candidate becomes READY (PREVIEW unless the mode is    *)
(* live), what is no candidate any more is cancelled.                      *)
Prepare(e) ==
  /\ event[e].status \in PendingEvents
  /\ \/ /\ e \in eligible
        /\ event' = [event EXCEPT ![e].status = IF mode = "live" THEN "ready" ELSE "preview"]
     \/ /\ e \notin eligible /\ event[e].status \in {"preview", "ready"}
        /\ event' = [event EXCEPT ![e].status = "cancelled"]
  /\ UNCHANGED <<mode, eligible, silenced, runner, owner, offer, offering, reached,
                 overwritten, crossed, reservations, ownerRetries, changes>>

(* The purchase's activity, the customer's wishes and the mode change. *)
Change ==
  /\ changes < MaxChanges /\ changes' = changes + 1
  /\ \/ /\ mode' \in {"off", "preview", "live"} \ {mode} /\ UNCHANGED <<eligible, silenced>>
     \/ /\ \E e \in Events : eligible' = (eligible \ {e}) \cup ({e} \ eligible)
        /\ UNCHANGED <<mode, silenced>>
     \/ /\ \E c \in OutreachCustomers : silenced' = (silenced \ {c}) \cup ({c} \ silenced)
        /\ UNCHANGED <<mode, eligible>>
  /\ UNCHANGED <<event, runner, owner, offer, offering, reached, overwritten, crossed,
                 reservations, ownerRetries>>

InFlight(e) == \E w \in Runners : e \in runner[w].event

Older(age) == [none |-> "none", minutes |-> "day", day |-> "week", week |-> "old", old |-> "old"][age]

(* Time passes; no send takes a day. *)
ClaimAges(e) ==
  /\ event[e].claimed \in Today \cup {"week"}
  /\ event[e].claimed = "minutes" \/ ~InFlight(e)
  /\ event' = [event EXCEPT ![e].claimed = Older(@)]
  /\ UNCHANGED <<mode, eligible, silenced, runner, owner, offer, offering, reached,
                 overwritten, crossed, reservations, ownerRetries, changes>>

OfferAges(c) ==
  /\ offer[c] \in {"day", "week"}
  /\ offer' = [offer EXCEPT ![c] = Older(@)]
  /\ UNCHANGED <<mode, event, eligible, silenced, runner, owner, offering, reached,
                 overwritten, crossed, reservations, ownerRetries, changes>>

-----------------------------------------------------------------------------
(* dispatch. *)

(* reserve: the rows of store, customer and event are locked. *)
Reserve(w, e) ==
  /\ runner[w].pc = "idle" /\ mode = "live" /\ event[e].status = "ready"
  /\ \/ /\ e \notin eligible
        /\ event' = [event EXCEPT ![e].status = "cancelled"]
        /\ UNCHANGED <<runner, reservations>>
     \/ /\ e \in eligible /\ ~Suppressed(e) /\ reservations < MaxReservations
        /\ reservations' = reservations + 1
        /\ event' = [event EXCEPT ![e] = [status |-> "sending", claimed |-> "minutes"]]
        /\ runner' = [runner EXCEPT ![w] = [Waiting EXCEPT !.pc = "check", !.event = {e}]]
  /\ UNCHANGED <<mode, eligible, silenced, owner, offer, offering, reached, overwritten,
                 crossed, ownerRetries, changes>>

Valid(e) == mode = "live" /\ e \in eligible /\ ~Suppressed(e)

(* Everything is looked at again, unlocked. *)
Revalidate(w, e) ==
  /\ runner[w].pc = "check" /\ e \in runner[w].event
  /\ \/ /\ Valid(e)
        /\ runner' = [runner EXCEPT ![w].pc = "call"] /\ UNCHANGED event
     \/ /\ ~Valid(e)
        /\ event' = [event EXCEPT ![e].status = IF @ = "sending" THEN "cancelled" ELSE @]
        /\ runner' = [runner EXCEPT ![w] = Waiting]
  /\ UNCHANGED <<mode, eligible, silenced, owner, offer, offering, reached, overwritten,
                 crossed, reservations, ownerRetries, changes>>

(* Mutant: every exception counts as a refusal. *)
RejectedOrSent(answer) == IF answer = "acknowledged" THEN "sent" ELSE "failed"

(* What an answer is recorded as. *)
ResultOf(answer) ==
  CASE answer = "acknowledged" -> "sent"
    [] answer = "rejected"     -> "failed"
    [] OTHER                   -> "uncertain"

(* The message goes out; an answer that is lost leaves it open whether it  *)
(* has arrived.                                                            *)
Send(w, e, answer, arrived) ==
  /\ runner[w].pc = "call" /\ e \in runner[w].event
  /\ answer = "acknowledged" => arrived
  /\ answer = "rejected" => ~arrived
  /\ reached' = [reached EXCEPT ![e] = @ + IF arrived THEN 1 ELSE 0]
  /\ runner' = [runner EXCEPT ![w].pc = "record", ![w].result = ResultOf(answer)]
  /\ UNCHANGED <<mode, event, eligible, silenced, owner, offer, offering, overwritten,
                 crossed, reservations, ownerRetries, changes>>

(* The result is recorded if the row is still SENDING; a sent message is   *)
(* logged as an offer, whose age is its event's claim.                     *)
RecordResult(w, e) ==
  /\ runner[w].pc = "record" /\ e \in runner[w].event
  /\ event' = [event EXCEPT ![e].status = IF @ = "sending" THEN runner[w].result ELSE @]
  /\ runner' = [runner EXCEPT ![w] = Waiting]
  /\ UNCHANGED <<mode, eligible, silenced, owner, offer, offering, reached, overwritten,
                 crossed, reservations, ownerRetries, changes>>

RunnerDies(w) ==
  /\ runner[w].pc # "idle"
  /\ runner' = [runner EXCEPT ![w] = Waiting]
  /\ UNCHANGED <<mode, event, eligible, silenced, owner, offer, offering, reached,
                 overwritten, crossed, reservations, ownerRetries, changes>>

(* run_outreach begins: SENDING for ten minutes is an interrupted send. *)
MarkInterrupted ==
  LET stuck == {e \in Events : event[e].status = "sending" /\ event[e].claimed # "minutes"} IN
  /\ stuck # {}
  /\ event' = [e \in Events |-> IF e \in stuck THEN [event[e] EXCEPT !.status = "uncertain"]
                                               ELSE event[e]]
  /\ UNCHANGED <<mode, eligible, silenced, runner, owner, offer, offering, reached,
                 overwritten, crossed, reservations, ownerRetries, changes>>

(* The dashboard's retry reads a FAILED row, then saves it READY. *)
RetryReads(o, e) ==
  /\ owner[o] = {} /\ event[e].status = "failed" /\ ownerRetries < MaxOwnerRetries
  /\ ownerRetries' = ownerRetries + 1
  /\ owner' = [owner EXCEPT ![o] = {e}]
  /\ UNCHANGED <<mode, event, eligible, silenced, runner, offer, offering, reached,
                 overwritten, crossed, reservations, changes>>

RetryWrites(o, e) ==
  /\ e \in owner[o]
  /\ event' = [event EXCEPT ![e] = [status |-> "ready", claimed |-> "none"]]
  /\ overwritten' = IF event[e].status \in Reserved THEN overwritten \cup {e} ELSE overwritten
  /\ owner' = [owner EXCEPT ![o] = {}]
  /\ UNCHANGED <<mode, eligible, silenced, runner, offer, offering, reached, crossed,
                 reservations, ownerRetries, changes>>

-----------------------------------------------------------------------------
(* The revenue engine's offers. *)

(* A message that was acknowledged has its RevenueOfferLog row. *)
Logged(c) == {e \in Events : CustomerOf[e] = c /\ event[e].status = "sent"
                             /\ event[e].claimed \in Today}

(* can_send_revenue_offer: only logged messages count. *)
OfferChecked(c) ==
  /\ offer[c] = "none" /\ c \notin offering /\ c \notin silenced
  /\ Logged(c) = {}
  /\ offering' = offering \cup {c}
  /\ UNCHANGED <<mode, event, eligible, silenced, runner, owner, offer, reached,
                 overwritten, crossed, reservations, ownerRetries, changes>>

ReservedToday(c) == Count({e \in Events : CustomerOf[e] = c}, Today) > 0

(* The offer is sent and logged. *)
OfferSent(c) ==
  /\ c \in offering
  /\ offering' = offering \ {c}
  /\ offer' = [offer EXCEPT ![c] = "day"]
  /\ crossed' = IF ReservedToday(c) THEN crossed \cup {c} ELSE crossed
  /\ UNCHANGED <<mode, event, eligible, silenced, runner, owner, reached, overwritten,
                 reservations, ownerRetries, changes>>

OutreachNext ==
  \/ Change \/ MarkInterrupted
  \/ \E e \in Events : Prepare(e) \/ ClaimAges(e)
  \/ \E c \in OutreachCustomers : OfferAges(c) \/ OfferChecked(c) \/ OfferSent(c)
  \/ \E w \in Runners : RunnerDies(w) \/ \E e \in Events :
       \/ Reserve(w, e) \/ Revalidate(w, e) \/ RecordResult(w, e)
       \/ \E answer \in {"acknowledged", "rejected", "lost"}, arrived \in BOOLEAN :
            Send(w, e, answer, arrived)
  \/ \E o \in Owners, e \in Events : RetryReads(o, e) \/ RetryWrites(o, e)

OutreachTypeOK ==
  /\ mode \in {"off", "preview", "live"}
  /\ event \in [Events -> [status: PendingEvents \cup Reserved \cup {"failed"}, claimed: Ages]]
  /\ eligible \subseteq Events /\ overwritten \subseteq Events
  /\ silenced \subseteq OutreachCustomers /\ crossed \subseteq OutreachCustomers
  /\ offering \subseteq OutreachCustomers /\ offer \in [OutreachCustomers -> Ages]
  /\ runner \in [Runners -> [pc: {"idle", "check", "call", "record"}, event: SUBSET Events,
                             result: {"none", "sent", "failed", "uncertain"}]]
  /\ owner \in [Owners -> SUBSET Events] /\ reached \in [Events -> Nat]
  /\ reservations \in 0..MaxReservations /\ ownerRetries \in 0..MaxOwnerRetries
  /\ changes \in 0..MaxChanges

-----------------------------------------------------------------------------
(* Reserve before transport, never retry an ambiguous send: an event's     *)
(* message arrives once, however runs crash, overlap or outlast their ten  *)
(* minutes, unless a retry that had read the row as FAILED saved READY     *)
(* over a later reservation.                                               *)
OneMessagePerEvent == \A e \in Events \ overwritten : reached[e] <= 1

ReachedToday(c) ==
  Cardinality({e \in Events : CustomerOf[e] = c /\ reached[e] > 0 /\ event[e].claimed \in Today})
    + IF offer[c] \in Today THEN 1 ELSE 0

(* A customer gets one automatic message a day, offers included, whichever *)
(* runs and retries interleave; only an offer sent while an event was      *)
(* reserved (can_send_revenue_offer sees logged messages only) adds one.   *)
OneMessageADay ==
  \A c \in OutreachCustomers \ crossed :
    (\A e \in overwritten : CustomerOf[e] # c) => ReachedToday(c) <= 1

-----------------------------------------------------------------------------
(* The inductive invariant. *)

(* A runner works on one event. *)
OneEventEach == \A w \in Runners : \A e, f \in runner[w].event : e = f

(* An event that a runner works on stays reserved for it. *)
ReservedForOne ==
  \A w \in Runners : \A e \in runner[w].event \ overwritten :
    /\ event[e].status \in {"sending", "uncertain"}
    /\ \A v \in Runners \ {w} : e \notin runner[v].event

(* What has arrived is recorded as such, or will be. *)
ReachedIsReserved ==
  \A e \in Events \ overwritten :
    /\ reached[e] <= 1
    /\ reached[e] > 0 =>
         /\ event[e].status \in Reserved
         /\ \A w \in Runners : e \in runner[w].event =>
              runner[w].pc = "record" /\ runner[w].result \in {"sent", "uncertain"}

(* One reservation a day, and none beside an offer that did not cross it. *)
OneReservationADay ==
  \A e \in Events : event[e].status \in Reserved /\ event[e].claimed \in Today =>
    /\ \A f \in Events : /\ CustomerOf[f] = CustomerOf[e]
                         /\ event[f].status \in Reserved /\ event[f].claimed \in Today
                         => f = e
    /\ CustomerOf[e] \notin crossed => offer[CustomerOf[e]] \notin Today

OutreachInv ==
  /\ OutreachTypeOK /\ OneEventEach /\ ReservedForOne /\ ReachedIsReserved
  /\ OneReservationADay
=============================================================================
