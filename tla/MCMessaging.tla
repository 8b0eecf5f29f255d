----------------------------- MODULE MCMessaging -----------------------------
(* The modules of outgoing messages share no state: a behaviour of all of  *)
(* them is checked by checking each alone, and focus says which one moves. *)
EXTENDS Messaging, TLC
CONSTANTS p, q
VARIABLE focus

MCCustomerOf == [e \in Events |-> "customer"]

(* The handlers of each module are two processes, p and q. *)
Symmetry == Permutations({p, q})

(* The bot sends its campaign next to one pass of a processor; up to three *)
(* passes, or two and a fault, send one of staff.  Collectors one at a     *)
(* time, prompt ones, meet every reading and reset (a use or reset during  *)
(* their work is one before or after it); two at once, as slow as you      *)
(* please, full readings without resets.                                   *)
Focuses == {"bot", "staff", "outreach", "notifications", "reminders", "receipts",
            "collector", "collectors"}

MCInit ==
  /\ focus \in Focuses /\ MessagingInit
  /\ focus = "bot" <=> campaign = "queued"
  /\ evidence => focus = "notifications"

BroadcastAlone ==
  /\ focus \in {"bot", "staff"} /\ BroadcastStep
  /\ passes' <= IF focus = "bot" THEN 1 ELSE 3 - broadcastFaults'
OutreachAlone == focus = "outreach" /\ OutreachStep
NotificationsAlone == focus = "notifications" /\ NotificationsStep
RemindersAlone ==
  /\ focus = "reminders" /\ RemindersStep
  /\ reminderFaults' + overlaps'["before"] + overlaps'["low"] <= 1
ReceiptsAlone == focus = "receipts" /\ ReceiptStep
ActivityAlone ==
  /\ focus \in {"collector", "collectors"} /\ ActivityStep
  /\ focus = "collector" =>
       /\ Cardinality({c \in Collectors : collector'[c] # Stopped}) <= 1
       /\ UNCHANGED <<time, traffic>> \/ \A c \in Collectors : collector[c] = Stopped
  /\ focus = "collectors" =>
       /\ traffic'.epoch = 0 /\ traffic'.used <= 1
       /\ \A c \in Collectors : collector'[c].pc = "resolve" => collector'[c].sample.coverage = "full"

MCNext ==
  /\ UNCHANGED focus
  /\ \/ BroadcastAlone \/ OutreachAlone \/ NotificationsAlone
     \/ RemindersAlone \/ ReceiptsAlone \/ ActivityAlone

MCSpec == MCInit /\ [][MCNext]_<<messagingVars, focus>>
=============================================================================
