------------------------------ MODULE Broadcast ------------------------------
(***************************************************************************)
(* One broadcast campaign: staff queue, cancel and retry it, the command   *)
(* process_broadcast_queue sends batches of its pending recipients, and    *)
(* the admin bot sends a campaign inline.  No step takes a lock, and what  *)
(* a sender is to send is the list it has read.                            *)
(***************************************************************************)
EXTENDS Naturals, FiniteSets

CONSTANTS
  Recipients,
  Processors,    \* runs of process_broadcast_queue
  Bot,           \* the handler of the admin bot's own broadcast
  Staff,         \* the handler of a staff page
  BatchSize,     \* --batch-size
  MaxTransient,  \* MAX_CONSECUTIVE_TRANSIENT_FAILURES
  MaxRetries,    \* bound on retries of failed recipients
  MaxPasses,     \* bound on runs of the command
  MaxBroadcastFaults

Senders == Processors \cup {Bot}

ASSUME BroadcastAssumption ==
  /\ BatchSize \in Nat \ {0} /\ MaxTransient \in Nat \ {0}
  /\ MaxRetries \in Nat /\ MaxPasses \in Nat /\ MaxBroadcastFaults \in Nat
  /\ Bot \notin Processors /\ Staff \notin Senders

VARIABLES
  campaign,      \* BroadcastMessage.status
  recipient,     \* BroadcastRecipient.status; a failure's category tells it retryable
  sender,        \* what each handler is doing
  delivered,     \* messages each recipient has got
  unrecorded,    \* of these, the ones whose sender did not learn of it or died
  shared,        \* recipients that two handlers worked on at once
  retries, passes, broadcastFaults

broadcastVars == <<campaign, recipient, sender, delivered, unrecorded, shared, retries,
                   passes, broadcastFaults>>

Retryable == {"rate_limited", "timeout"}
Failed == Retryable \cup {"rejected"}
RecipientStatus == {"none", "pending", "skipped", "sent"} \cup Failed
CampaignStatus == {"draft", "queued", "sending", "sent", "failed", "cancelled"}

Resting == [pc |-> "idle", todo |-> {}, current |-> {}, result |-> "none",
            transient |-> 0, deleted |-> {}]

BroadcastInit ==
  /\ recipient = [x \in Recipients |-> "none"]
  /\ \/ campaign = "draft" /\ sender = [s \in Senders \cup {Staff} |-> Resting]
     \/ /\ campaign = "queued"    \* the bot has created its campaign and sends it
        /\ sender = [s \in Senders \cup {Staff} |->
                       IF s = Bot THEN [Resting EXCEPT !.pc = "start"] ELSE Resting]
  /\ delivered = [x \in Recipients |-> 0]
  /\ unrecorded = [x \in Recipients |-> 0]
  /\ shared = {}
  /\ retries = 0 /\ passes = 0 /\ broadcastFaults = 0

With(status) == {x \in Recipients : recipient[x] = status}

(* A handler goes on; what it works on together with another is noted. *)
Become(s, record) ==
  /\ sender' = [sender EXCEPT ![s] = record]
  /\ shared' = shared \cup {x \in record.todo \cup record.current :
       \E t \in (Senders \cup {Staff}) \ {s} : x \in sender[t].todo \cup sender[t].current}

-----------------------------------------------------------------------------
(* create_campaign_recipients: pending and skipped rows are deleted and    *)
(* made again for the customers that have a target.                        *)
Renewed(x) == recipient[x] \in {"none", "pending", "skipped"}

Materialise(targets) ==
  recipient' = [x \in Recipients |->
    IF Renewed(x) THEN IF x \in targets THEN "pending" ELSE "skipped" ELSE recipient[x]]

(* queue_campaign_for_processing, and cancel_campaign *)
QueueCampaign ==
  /\ campaign = "draft"
  /\ \E targets \in SUBSET Recipients \ {{}} : Materialise(targets)
  /\ campaign' = "queued"
  /\ UNCHANGED <<sender, delivered, unrecorded, shared, retries, passes, broadcastFaults>>

CancelCampaign ==
  /\ campaign \in {"draft", "queued"}
  /\ campaign' = "cancelled"
  /\ UNCHANGED <<recipient, sender, delivered, unrecorded, shared, retries, passes, broadcastFaults>>

RetryableFailed == {x \in Recipients : recipient[x] \in Retryable}

(* reset_retryable_failed: the failed rows are listed, then updated by key. *)
RetryRead ==
  /\ sender[Staff].pc = "idle" /\ RetryableFailed # {} /\ retries < MaxRetries
  /\ retries' = retries + 1
  /\ Become(Staff, [Resting EXCEPT !.pc = "resume", !.todo = RetryableFailed])
  /\ UNCHANGED <<campaign, recipient, delivered, unrecorded, passes, broadcastFaults>>

Requeued(list) == [x \in Recipients |-> IF x \in list THEN "pending" ELSE recipient[x]]

RetryWrite ==
  /\ sender[Staff].pc = "resume"
  /\ recipient' = Requeued(sender[Staff].todo)
  /\ campaign' = "queued"
  /\ Become(Staff, Resting)
  /\ UNCHANGED <<delivered, unrecorded, retries, passes, broadcastFaults>>

-----------------------------------------------------------------------------
(* process_broadcast_queue. *)

(* The campaigns are listed. *)
ListCampaigns(s) ==
  /\ s \in Processors /\ sender[s].pc = "idle" /\ passes < MaxPasses
  /\ campaign \in {"queued", "sending"}
  /\ passes' = passes + 1
  /\ Become(s, [Resting EXCEPT !.pc = "open"])
  /\ UNCHANGED <<campaign, recipient, delivered, unrecorded, retries, broadcastFaults>>

(* A campaign cancelled meanwhile is left alone; recipients are made when  *)
(* there are none; with --resume-failed the retryable ones are listed.     *)
OpenCampaign(s) ==
  /\ sender[s].pc = "open"
  /\ \/ /\ campaign = "cancelled" /\ Become(s, Resting)
        /\ UNCHANGED <<recipient, retries>>
     \/ /\ campaign # "cancelled"
        /\ IF \A x \in Recipients : recipient[x] = "none"
             THEN \E targets \in SUBSET Recipients : Materialise(targets)
             ELSE UNCHANGED recipient
        /\ \/ Become(s, [Resting EXCEPT !.pc = "start"]) /\ UNCHANGED retries
           \/ /\ retries < MaxRetries /\ RetryableFailed # {}
              /\ retries' = retries + 1
              /\ Become(s, [Resting EXCEPT !.pc = "resume", !.todo = RetryableFailed])
  /\ UNCHANGED <<campaign, delivered, unrecorded, passes, broadcastFaults>>

(* The store switched broadcasts off, or the text is empty. *)
Refuse(s) ==
  /\ \/ sender[s].pc = "open" /\ campaign # "cancelled"
     \/ s = Bot /\ sender[s].pc = "start"
  /\ campaign' = "failed"
  /\ Become(s, Resting)
  /\ UNCHANGED <<recipient, delivered, unrecorded, retries, passes, broadcastFaults>>

ResumeFailed(s) ==
  /\ s \in Processors /\ sender[s].pc = "resume"
  /\ recipient' = Requeued(sender[s].todo)
  /\ Become(s, [Resting EXCEPT !.pc = "start"])
  /\ UNCHANGED <<campaign, delivered, unrecorded, retries, passes, broadcastFaults>>

(* SENDING is saved, whatever the campaign is by now. *)
StartSending(s) ==
  /\ s \in Processors /\ sender[s].pc = "start"
  /\ campaign' = "sending"
  /\ Become(s, [Resting EXCEPT !.pc = "list"])
  /\ UNCHANGED <<recipient, delivered, unrecorded, retries, passes, broadcastFaults>>

Smaller(m, n) == IF m <= n THEN m ELSE n

(* Mutant: recipients are listed whatever their status. *)
UnsentBatches ==
  {b \in SUBSET (Recipients \ With("skipped")) : Cardinality(b) <= BatchSize}

(* The batches of pending recipients; the bot takes all of them. *)
Batches ==
  {b \in SUBSET With("pending") :
     Cardinality(b) = Smaller(BatchSize, Cardinality(With("pending")))}

ListPending(s) ==
  /\ s \in Processors /\ sender[s].pc = "list"
  /\ \E batch \in Batches : Become(s, [Resting EXCEPT !.pc = "loop", !.todo = batch])
  /\ UNCHANGED <<campaign, recipient, delivered, unrecorded, retries, passes, broadcastFaults>>

(* send_campaign of the bot: SENDING, the recipients made anew under the   *)
(* eyes of any processor, and their list.                                  *)
BotStarts ==
  /\ sender[Bot].pc = "start"
  /\ campaign' = "sending"
  /\ \E targets \in SUBSET Recipients :
       /\ Materialise(targets)
       /\ LET list == {x \in Recipients : recipient'[x] = "pending"} IN
          /\ sender' = [s \in Senders \cup {Staff} |->
               IF s = Bot THEN [Resting EXCEPT !.pc = "loop", !.todo = list]
               ELSE [sender[s] EXCEPT !.deleted =
                       @ \cup {x \in sender[s].todo \cup sender[s].current : Renewed(x)}]]
          /\ shared' = shared \cup {x \in list :
               \E s \in Processors \cup {Staff} : x \in sender[s].todo \cup sender[s].current}
  /\ UNCHANGED <<delivered, unrecorded, retries, passes, broadcastFaults>>

(* The next recipient of the list; a processor looks at the campaign first. *)
TakeNext(s, x) ==
  /\ sender[s].pc = "loop" /\ x \in sender[s].todo
  /\ s = Bot \/ campaign # "cancelled"
  /\ Become(s, [sender[s] EXCEPT !.pc = "call", !.todo = @ \ {x}, !.current = {x}])
  /\ UNCHANGED <<campaign, recipient, delivered, unrecorded, retries, passes, broadcastFaults>>

(* send_message_to_customer: the message goes out, or not; a timeout does  *)
(* not tell.                                                               *)
Call(s, x, got, result) ==
  /\ sender[s].pc = "call" /\ x \in sender[s].current
  /\ result = "sent" => got
  /\ result \in {"skipped", "rejected", "rate_limited"} => ~got
  /\ got /\ result # "sent" => broadcastFaults < MaxBroadcastFaults
  /\ delivered' = [delivered EXCEPT ![x] = @ + IF got THEN 1 ELSE 0]
  /\ unrecorded' = [unrecorded EXCEPT ![x] = @ + IF got /\ result # "sent" THEN 1 ELSE 0]
  /\ broadcastFaults' = broadcastFaults + IF got /\ result # "sent" THEN 1 ELSE 0
  /\ Become(s, [sender[s] EXCEPT !.pc = "mark", !.result = result])
  /\ UNCHANGED <<campaign, recipient, retries, passes>>

(* The loop's break and the counter of transient failures. *)
Transient(s) ==
  IF sender[s].result = "timeout" THEN sender[s].transient + 1 ELSE 0

(* Mutant: failures never end a batch. *)
BreaksNever(s) == FALSE

Breaks(s) ==
  s # Bot /\ (sender[s].result = "rate_limited" \/ Transient(s) >= MaxTransient)

(* _mark_recipient: a row that was deleted cannot be saved and ends the    *)
(* run.                                                                    *)
MarkRecipient(s, x) ==
  /\ sender[s].pc = "mark" /\ x \in sender[s].current
  /\ IF x \in sender[s].deleted
       THEN /\ Become(s, Resting) /\ UNCHANGED recipient
            /\ unrecorded' = [unrecorded EXCEPT ![x] = @ + IF sender[s].result = "sent" THEN 1 ELSE 0]
       ELSE /\ recipient' = [recipient EXCEPT ![x] = sender[s].result]
            /\ Become(s, [sender[s] EXCEPT !.pc = "loop", !.current = {},
                 !.result = "none", !.todo = IF Breaks(s) THEN {} ELSE @,
                 !.transient = IF s = Bot THEN 0 ELSE Transient(s)])
            /\ UNCHANGED unrecorded
  /\ UNCHANGED <<campaign, delivered, retries, passes, broadcastFaults>>

(* _finalize_campaign reads the campaign and its recipients; QUEUED again  *)
(* while some are pending. The bot ends with SENT.                         *)
Outcome(s) ==
  CASE s = Bot                -> "sent"
    [] With("pending") # {}   -> "queued"
    [] With("sent") = {} /\ (\E x \in Recipients : recipient[x] \in Failed) -> "failed"
    [] OTHER                  -> "sent"

EndLoop(s) ==
  /\ sender[s].pc = "loop"
  /\ sender[s].todo = {} \/ (s # Bot /\ campaign = "cancelled")
  /\ IF s # Bot /\ campaign = "cancelled"
       THEN Become(s, Resting)
       ELSE Become(s, [Resting EXCEPT !.pc = "close", !.result = Outcome(s)])
  /\ UNCHANGED <<campaign, recipient, delivered, unrecorded, retries, passes, broadcastFaults>>

CloseCampaign(s) ==
  /\ sender[s].pc = "close"
  /\ campaign' = sender[s].result
  /\ Become(s, Resting)
  /\ UNCHANGED <<recipient, delivered, unrecorded, retries, passes, broadcastFaults>>

(* The process dies; what it had sent and not yet marked stays unrecorded. *)
SenderDies(s) ==
  /\ sender[s].pc # "idle" /\ broadcastFaults < MaxBroadcastFaults
  /\ broadcastFaults' = broadcastFaults + 1
  /\ unrecorded' = [x \in Recipients |-> unrecorded[x] +
       IF x \in sender[s].current /\ sender[s].result = "sent" THEN 1 ELSE 0]
  /\ Become(s, Resting)
  /\ UNCHANGED <<campaign, recipient, delivered, retries, passes>>

BroadcastNext ==
  \/ QueueCampaign \/ CancelCampaign \/ RetryRead \/ RetryWrite \/ BotStarts
  \/ \E s \in Senders :
       \/ ListCampaigns(s) \/ OpenCampaign(s) \/ Refuse(s) \/ ResumeFailed(s)
       \/ StartSending(s) \/ ListPending(s) \/ EndLoop(s) \/ CloseCampaign(s) \/ SenderDies(s)
       \/ \E x \in Recipients :
            \/ TakeNext(s, x) \/ MarkRecipient(s, x)
            \/ \E got \in BOOLEAN, result \in {"sent", "skipped"} \cup Failed :
                 Call(s, x, got, result)

BroadcastTypeOK ==
  /\ campaign \in CampaignStatus /\ recipient \in [Recipients -> RecipientStatus]
  /\ sender \in [Senders \cup {Staff} ->
       [pc: {"idle", "open", "resume", "start", "list", "loop", "call", "mark", "close"},
        todo: SUBSET Recipients, current: SUBSET Recipients, deleted: SUBSET Recipients,
        transient: 0..MaxTransient,
        result: {"none", "queued", "failed"} \cup RecipientStatus]]
  /\ delivered \in [Recipients -> Nat] /\ unrecorded \in [Recipients -> Nat]
  /\ shared \subseteq Recipients
  /\ retries \in 0..MaxRetries /\ passes \in 0..MaxPasses
  /\ broadcastFaults \in 0..MaxBroadcastFaults

-----------------------------------------------------------------------------
(* docs/CAMPAIGNS.md: the processor does not resend sent recipients.  A    *)
(* recipient gets a second message only for one that was not recorded, or  *)
(* after two handlers had it in their lists at once: no order of batches,  *)
(* breaks, cancellations and retries does it.                              *)
ResentOnlyUnrecorded ==
  \A x \in Recipients \ shared :
    delivered[x] <= unrecorded[x] + 1
      /\ (delivered[x] > unrecorded[x] =>
            recipient[x] = "sent" \/ \E s \in Senders : x \in sender[s].current)

-----------------------------------------------------------------------------
(* The inductive invariant. *)

Handlers == Senders \cup {Staff}
Held(s) == sender[s].todo \cup sender[s].current

(* What a handler at work has in hand. *)
SendersFit ==
  \A s \in Handlers :
    /\ sender[s].pc = "close" => sender[s].result \in CampaignStatus
    /\ sender[s].pc \in {"call", "mark"} \/ sender[s].todo # {} => sender[s].transient < MaxTransient
    /\ sender[s].pc = "mark" => sender[s].result \in RecipientStatus
    /\ sender[s].current # {} => sender[s].pc \in {"call", "mark"}
    /\ sender[s].todo \cap sender[s].current = {}
    /\ \A x, y \in sender[s].current : x = y

(* A recipient that was never shared is in one handler's hands. *)
HeldByOne ==
  \A s, t \in Handlers : \A x \in (Held(s) \cap Held(t)) \ shared : s = t

(* A delivery that is recorded, or will be, is the only such one. *)
DeliveredOnce ==
  \A x \in Recipients \ shared :
    /\ delivered[x] <= unrecorded[x] + 1
    /\ delivered[x] > unrecorded[x] =>
         \/ recipient[x] = "sent" /\ \A s \in Handlers : x \notin Held(s)
         \/ \E s \in Senders :
              x \in sender[s].current /\ sender[s].pc = "mark" /\ sender[s].result = "sent"

BroadcastInv == BroadcastTypeOK /\ SendersFit /\ HeldByOne /\ DeliveredOnce
=============================================================================
