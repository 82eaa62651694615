----------------------------- MODULE MCChatThreads -----------------------------
(***************************************************************************)
(* Instances of ChatThreads for TLC: the assignment of a booking, its      *)
(* 'assigned' status, which is silent, a quote, and a cancellation that    *)
(* names nobody; two deliveries and two requests at a time.                *)
(***************************************************************************)
EXTENDS ChatThreads, TLC

CONSTANTS h1, h2, s1, s2

MCAssigned == {"assigned"}
MCStatus == {"quoted", "assigned status", "cancelled"}
MCSilent == {"assigned status"}
MCUnassigned == {"cancelled"}
MCAnonymous == {"cancelled"}
MCAutoKey == [e \in MCAssigned \cup MCStatus |-> e]
MCHandlers == {h1, h2}
MCSenders == {s1, s2}
MCUserKeys == {"hello"}
MCOwner == [k \in MCUserKeys |-> "artisan"]
=============================================================================
