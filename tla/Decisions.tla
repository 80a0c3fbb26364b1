------------------------------ MODULE Decisions ------------------------------
(***************************************************************************)
(* A run's requests for approval and the decisions on them: the waiting    *)
(* tool call (harness/tools.go), the coordinator in between                *)
(* (approval/coordinator.go; question/coordinator.go is the same without   *)
(* the index by run) and DecideRun (application/service.go), which stores  *)
(* a permanent approval in the session before it delivers the decision,    *)
(* and takes it back when it cannot, unless that write fails too or the    *)
(* process ends in between.                                                *)
(***************************************************************************)
EXTENDS Naturals, FiniteSets

CONSTANTS
    Deciders,     \* clients that decide
    OneTimeOnly,  \* requests that cannot be approved for good
    MaxRequests,  \* bound: requests of the session
    MaxDecisionFaults \* bound: reads and writes of the session that fail, and crashes

ASSUME DecisionsAssumption ==
    OneTimeOnly \subseteq 1..MaxRequests /\ {MaxRequests, MaxDecisionFaults} \subseteq Nat

VARIABLES
    request,        \* the request the tool call has come to, and where the call is
    pending,        \* Coordinator.pending
    byRun,          \* Coordinator.byRun, 0 for none
    channel,        \* the decision in a request's channel
    published,      \* Run.PendingApproval, 0 for none
    granted,        \* Session.PermanentToolApproval
    decider,        \* where each DecideRun is
    accepted,       \* the decisions DecideRun returned without an error
    heard,          \* what Wait returned
    leftOver,       \* history: granted by a call that failed to take it back
    decisionFaults

decisionVars == <<request, pending, byRun, channel, published, granted, decider, accepted, heard,
                  leftOver, decisionFaults>>
waitVars   == <<request, pending, byRun, channel, published, heard>>
grantVars  == <<granted, leftOver, decisionFaults>>

Requests  == 1..MaxRequests
DecisionKinds  == {"deny", "once", "permanent"}
Resting   == [at |-> "rest"]

DecisionsInit ==
    /\ request = [id |-> 0, at |-> "none"]
    /\ pending = {} /\ byRun = 0 /\ published = 0 /\ granted = FALSE
    /\ channel = [id \in Requests |-> "empty"]
    /\ decider = [d \in Deciders |-> Resting]
    /\ accepted = {} /\ heard = [id \in Requests |-> "nothing"]
    /\ leftOver = FALSE /\ decisionFaults = 0

DecisionFault == decisionFaults < MaxDecisionFaults /\ decisionFaults' = decisionFaults + 1

(* Begin: one request of a run at a time.                                  *)
BeginRequest ==
    /\ request.at = "none" /\ request.id < MaxRequests /\ byRun = 0
    /\ request' = [id |-> request.id + 1, at |-> "begun"]
    /\ pending' = pending \cup {request.id + 1} /\ byRun' = request.id + 1
    /\ UNCHANGED <<channel, published, decider, accepted, heard, grantVars>>

(* run.approval_required saves the request in the run's record.            *)
Publish ==
    /\ request.at = "begun" /\ published' = request.id
    /\ request' = [request EXCEPT !.at = "waiting"]
    /\ UNCHANGED <<pending, byRun, channel, decider, accepted, heard, grantVars>>

(* The event cannot be written: the request is withdrawn.                  *)
CannotPublish ==
    /\ request.at = "begun"
    /\ request' = [request EXCEPT !.at = "none"]
    /\ pending' = pending \ {request.id} /\ byRun' = 0
    /\ UNCHANGED <<channel, published, decider, accepted, heard, grantVars>>

(* Wait takes the decision, or its context ends; Cancel comes after.       *)
Receive ==
    /\ request.at = "waiting" /\ channel[request.id] # "empty"
    /\ heard' = [heard EXCEPT ![request.id] = channel[request.id]]
    /\ channel' = [channel EXCEPT ![request.id] = "empty"]
    /\ request' = [request EXCEPT !.at = "received"]
    /\ UNCHANGED <<pending, byRun, published, decider, accepted, grantVars>>

Interrupt ==
    /\ request.at = "waiting"
    /\ heard' = [heard EXCEPT ![request.id] = "interrupted"]
    /\ request' = [request EXCEPT !.at = "received"]
    /\ UNCHANGED <<pending, byRun, channel, published, decider, accepted, grantVars>>

CancelRequest ==
    /\ request.at = "received"
    /\ pending' = pending \ {request.id} /\ byRun' = 0
    /\ request' = [request EXCEPT !.at = "resolving"]
    /\ UNCHANGED <<channel, published, decider, accepted, heard, grantVars>>

(* run.approval_resolved.                                                  *)
Resolve ==
    /\ request.at = "resolving" /\ published' = 0
    /\ request' = [request EXCEPT !.at = "none"]
    /\ UNCHANGED <<pending, byRun, channel, decider, accepted, heard, grantVars>>

(* DecideRun sees the request in the record.                               *)
SeeRequest(d) ==
    /\ decider[d].at = "rest" /\ published # 0
    /\ \E verdict \in DecisionKinds :
         /\ verdict = "permanent" => published \notin OneTimeOnly
         /\ decider' = [decider EXCEPT ![d] =
              [at |-> IF verdict = "permanent" THEN "look" ELSE "deliver",
               id |-> published, verdict |-> verdict, changed |-> FALSE]]
    /\ UNCHANGED <<waitVars, accepted, grantVars>>

GoesTo(d, at) == decider' = [decider EXCEPT ![d] = [@ EXCEPT !.at = at]]
Returns(d)   == decider' = [decider EXCEPT ![d] = Resting]

(* resolveSession: whether the session has a permanent approval already.   *)
LookUp(d) ==
    /\ decider[d].at = "look"
    /\ \/ GoesTo(d, IF granted THEN "deliver" ELSE "grant") /\ UNCHANGED decisionFaults
       \/ Returns(d) /\ DecisionFault
    /\ UNCHANGED <<waitVars, accepted, granted, leftOver>>

(* SetPermanentToolApproval writes the session and reads it again: when it *)
(* fails the approval may be there all the same, and DecideRun returns.    *)
Grant(d) ==
    /\ decider[d].at = "grant"
    /\ \/ /\ granted' = TRUE /\ UNCHANGED <<leftOver, decisionFaults>>
          /\ decider' = [decider EXCEPT ![d] = [@ EXCEPT !.at = "deliver", !.changed = TRUE]]
       \/ /\ DecisionFault /\ Returns(d) /\ granted' \in {granted, TRUE}
          /\ leftOver' = (leftOver \/ granted' # granted)
    /\ UNCHANGED <<waitVars, accepted>>

CanDeliver(d) ==
    /\ byRun = decider[d].id /\ decider[d].id \in pending
    /\ channel[decider[d].id] = "empty"

(* Bug: the request stays open until its waiter has gone.                  *)
DeliverOnly(d) ==
    /\ decider[d].at = "deliver" /\ CanDeliver(d)
    /\ channel' = [channel EXCEPT ![decider[d].id] = decider[d].verdict]
    /\ accepted' = accepted \cup {<<decider[d].id, d, decider[d].verdict>>}
    /\ Returns(d)
    /\ UNCHANGED <<request, pending, byRun, published, heard, grantVars>>

(* Decide: the decision goes into the channel and closes the request.      *)
Deliver(d) ==
    /\ decider[d].at = "deliver" /\ CanDeliver(d)
    /\ channel' = [channel EXCEPT ![decider[d].id] = decider[d].verdict]
    /\ byRun' = 0
    /\ accepted' = accepted \cup {<<decider[d].id, d, decider[d].verdict>>}
    /\ Returns(d)
    /\ UNCHANGED <<request, pending, published, heard, grantVars>>

(* Bug: a decision that came too late leaves its approval behind.          *)
TakeBackNothing(d) ==
    /\ decider[d].at = "deliver" /\ ~CanDeliver(d) /\ Returns(d)
    /\ UNCHANGED <<waitVars, accepted, grantVars>>

(* It cannot be delivered: what this call granted, it takes back.          *)
TakeBack(d) ==
    /\ decider[d].at = "deliver" /\ ~CanDeliver(d)
    /\ IF decider[d].changed THEN GoesTo(d, "revoke") ELSE Returns(d)
    /\ UNCHANGED <<waitVars, accepted, grantVars>>

(* The error of taking it back is dropped.                                 *)
Revoke(d) ==
    /\ decider[d].at = "revoke" /\ Returns(d)
    /\ \/ granted' = FALSE /\ leftOver' = FALSE /\ UNCHANGED decisionFaults
       \/ DecisionFault /\ granted' \in {granted, FALSE} /\ leftOver' = granted'
    /\ UNCHANGED <<waitVars, accepted>>

(* The process ends, and with it the call, whatever decision was waiting   *)
(* for it; the recovery closes the run and its request, and the session    *)
(* keeps its approval.                                                     *)
DecisionCrash ==
    /\ DecisionFault
    /\ request' = [request EXCEPT !.at = "none"]
    /\ heard' = [id \in Requests |->
         IF channel[id] # "empty" THEN "interrupted" ELSE heard[id]]
    /\ pending' = {} /\ byRun' = 0 /\ published' = 0
    /\ channel' = [id \in Requests |-> "empty"]
    /\ decider' = [d \in Deciders |-> Resting]
    /\ leftOver' = (leftOver \/ (granted /\ \E d \in Deciders :
                       decider[d].at \in {"deliver", "revoke"} /\ decider[d].changed))
    /\ UNCHANGED <<granted, accepted>>

DecisionsNext ==
    \/ BeginRequest \/ Publish \/ CannotPublish \/ Receive \/ Interrupt
    \/ CancelRequest \/ Resolve \/ DecisionCrash
    \/ \E d \in Deciders :
          SeeRequest(d) \/ LookUp(d) \/ Grant(d) \/ Deliver(d) \/ TakeBack(d) \/ Revoke(d)

DecisionsSpec == DecisionsInit /\ [][DecisionsNext]_decisionVars

DecisionsTypeOK ==
    /\ request \in [id : 0..MaxRequests,
                    at : {"none", "begun", "waiting", "received", "resolving"}]
    /\ pending \subseteq Requests /\ byRun \in 0..MaxRequests /\ published \in 0..MaxRequests
    /\ channel \in [Requests -> DecisionKinds \cup {"empty"}] /\ granted \in BOOLEAN
    /\ \A d \in Deciders : decider[d].at \in {"rest", "look", "grant", "deliver", "revoke"}
    /\ accepted \subseteq Requests \X Deciders \X DecisionKinds
    /\ heard \in [Requests -> DecisionKinds \cup {"nothing", "interrupted"}]
    /\ leftOver \in BOOLEAN /\ decisionFaults \in 0..MaxDecisionFaults

(* A client that was told its decision is accepted was heard: the call     *)
(* gets that decision and no other, unless its own context or the process  *)
(* ended first.  Two clients deciding at once, or late, cannot both be     *)
(* accepted, and an approval never overtakes a denial                      *)
(* (approval/coordinator.go:80-136).                                       *)
AcceptedIsHeard ==
    \A a \in accepted :
        \/ heard[a[1]] \in {a[3], "interrupted"}
        \/ heard[a[1]] = "nothing" /\ channel[a[1]] = a[3]

(* Once every DecideRun has returned, the session has a permanent approval *)
(* only if one was accepted: one that came too late leaves nothing behind, *)
(* whoever decided meanwhile (service.go:1296-1322).  The exceptions are   *)
(* those the code has: a write of the session that failed, there or while  *)
(* it was taken back, and a crash before either.                           *)
GrantedIfAccepted ==
    granted /\ (\A d \in Deciders : decider[d] = Resting) =>
        leftOver \/ \E a \in accepted : a[3] = "permanent"

(* What a client was told about its decision is what the call hears, and   *)
(* no approval for good stands unless one was accepted or could not be     *)
(* taken back.  (One that was accepted may still be taken back, by the     *)
(* rollback of another DecideRun that stored the same approval and came    *)
(* too late.)                                                              *)
AcceptedTakesEffect == AcceptedIsHeard /\ GrantedIfAccepted
=============================================================================
