---------------------------- MODULE Confirmation ----------------------------
(***************************************************************************)
(* wait_for_confirmation of src/lib.rs: scalar queries for one coin, one   *)
(* after the other, until a reply says that it is confirmed or the next    *)
(* would come too late.                                                    *)
(*                                                                         *)
(* Each poll is a query of ScalarRouter, from the first pick to the reply. *)
(* The chain stands still during a query and may be any other at the next. *)
(***************************************************************************)
EXTENDS ScalarRouter

CONSTANTS
    Confirmed,          \* the records with a confirmed_block_index above 0
    PollInterval,
    Timeout,
    MaxDelay            \* bound: the time one query takes

ASSUME WaitAssumption ==
    /\ Confirmed \subseteq Claims
    /\ PollInterval \in Nat \ {0} /\ Timeout \in Nat /\ MaxDelay \in Nat

VARIABLES
    now,                \* when the poll began, since the wait did
    outcome             \* "polling", "confirmed" or "timeout"

waitVars == <<now, outcome>>
confirmationVars == <<routerVars, waitVars>>

WaitInit ==
    /\ RouterInit
    /\ now = 0 /\ outcome = "polling"

Poll == outcome = "polling" /\ RouterNext /\ UNCHANGED waitVars

Replied == outcome = "polling" /\ route = "done"

IsConfirmed == reply.kind = "Ok" /\ reply.value \in Confirmed

ReturnRecord ==
    /\ Replied /\ IsConfirmed
    /\ outcome' = "confirmed"
    /\ UNCHANGED <<routerVars, now>>

\* The deadline is set once, before the first poll.
TooLate(t) == t + PollInterval > Timeout

\* No record, one that is not confirmed, and every error are the same to it.
GiveUp ==
    /\ Replied /\ ~ IsConfirmed
    /\ \E delay \in 0 .. MaxDelay : TooLate(now + delay)
    /\ outcome' = "timeout"
    /\ UNCHANGED <<routerVars, now>>

NextPoll(t) ==
    /\ now' = t
    /\ FreshRead /\ truth' \in Answer
    /\ route' = "peer" /\ attempts' = <<>> /\ coinset' = {} /\ reply' = NoReply
    /\ UNCHANGED <<tiers, outcome>>

\* Mutant: an error is polled again at once, with no look at the deadline.
ErrorsArePolledAtOnce ==
    /\ Replied /\ ~ IsConfirmed
    /\ \/ reply.kind # "Ok" /\ NextPoll(now)
       \/ /\ reply.kind = "Ok"
          /\ \E delay \in 0 .. MaxDelay :
                ~ TooLate(now + delay) /\ NextPoll(now + delay + PollInterval)

PollAgain ==
    /\ Replied /\ ~ IsConfirmed
    /\ \E delay \in 0 .. MaxDelay :
          ~ TooLate(now + delay) /\ NextPoll(now + delay + PollInterval)

WaitNext == Poll \/ ReturnRecord \/ GiveUp \/ PollAgain
=============================================================================
