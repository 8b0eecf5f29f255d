------------------------------ MODULE Messaging ------------------------------
(***************************************************************************)
(* Everything that sends messages, side by side: the modules share no      *)
(* state, and each step is a step of one of them.                          *)
(***************************************************************************)
EXTENDS Broadcast, Outreach, AdminNotifications, Reminders, ReceiptReminders, Activity

messagingVars ==
  <<broadcastVars, outreachVars, notificationVars, reminderVars, receiptVars, activityVars>>

MessagingInit ==
  /\ BroadcastInit /\ OutreachInit /\ NotificationsInit
  /\ RemindersInit /\ ReceiptInit /\ ActivityInit

BroadcastStep ==
  /\ BroadcastNext
  /\ UNCHANGED <<outreachVars, notificationVars, reminderVars, receiptVars, activityVars>>
OutreachStep ==
  /\ OutreachNext
  /\ UNCHANGED <<broadcastVars, notificationVars, reminderVars, receiptVars, activityVars>>
NotificationsStep ==
  /\ NotificationsNext
  /\ UNCHANGED <<broadcastVars, outreachVars, reminderVars, receiptVars, activityVars>>
RemindersStep ==
  /\ RemindersNext
  /\ UNCHANGED <<broadcastVars, outreachVars, notificationVars, receiptVars, activityVars>>
ReceiptStep ==
  /\ ReceiptNext
  /\ UNCHANGED <<broadcastVars, outreachVars, notificationVars, reminderVars, activityVars>>
ActivityStep ==
  /\ ActivityNext
  /\ UNCHANGED <<broadcastVars, outreachVars, notificationVars, reminderVars, receiptVars>>

MessagingNext ==
  \/ BroadcastStep \/ OutreachStep \/ NotificationsStep
  \/ RemindersStep \/ ReceiptStep \/ ActivityStep

MessagingSpec == MessagingInit /\ [][MessagingNext]_messagingVars

(* The rows and handlers of all six modules have their types. *)
TypeOK ==
  /\ BroadcastTypeOK /\ OutreachTypeOK /\ NotificationsTypeOK
  /\ RemindersTypeOK /\ ReceiptTypeOK /\ ActivityTypeOK

(* The inductive invariants of all six. *)
MessagingInv ==
  /\ BroadcastInv /\ OutreachInv /\ NotificationsInv
  /\ RemindersInv /\ ReceiptInv /\ ActivityInv
=============================================================================
