-------------------------- MODULE ComponentProofs ---------------------------
(* What MCComponents checks of its components on small instances, for every*)
(* value of their constants: what people decide and answer, what the model *)
(* answers, what keeps projects and editors apart, and all components      *)
(* together.                                                               *)
EXTENDS MCComponents, RecordProofs

-----------------------------------------------------------------------------
(* Decisions: for any number of clients that decide, of requests, crashes  *)
(* and failing writes, who was told that a decision is accepted was heard, *)
(* and no permanent approval stands that nobody was told of, unless the    *)
(* call that stored it could not take it back.                             *)

Decided == [at : {"look", "grant", "deliver", "revoke"}, id : Requests, verdict : DecisionKinds,
            changed : BOOLEAN]

DecisionShape ==
    /\ request.id \in 0..MaxRequests
    /\ byRun \in Nat /\ published \in 0..MaxRequests
    /\ channel \in [Requests -> DecisionKinds \cup {"empty"}]
    /\ heard \in [Requests -> DecisionKinds \cup {"nothing", "interrupted"}]
    /\ accepted \subseteq Requests \X Deciders \X DecisionKinds
    /\ decider \in [Deciders -> Decided \cup {Resting}]

\* The request that can be decided is the present one; nobody was accepted for
\* it, and the waiting call has heard nothing, or gave up.
OpenIsUnanswered ==
    /\ byRun # 0 => /\ byRun = request.id /\ channel[byRun] = "empty"
                    /\ heard[byRun] \in {"nothing", "interrupted"}
                    /\ \A a \in accepted : a[1] # byRun
    /\ request.at \in {"begun", "waiting"} => request.id # 0 /\ heard[request.id] = "nothing"

\* Requests to come are untouched.
LaterIsEmpty ==
    /\ published <= request.id
    /\ \A d \in Deciders : decider[d] # Resting => decider[d].id <= request.id
    /\ \A id \in Requests : id > request.id =>
          /\ channel[id] = "empty" /\ heard[id] = "nothing"
          /\ \A a \in accepted : a[1] # id

\* Only permanent verdicts grant, and what is granted was accepted, was left
\* over, or can still be taken back by the one who granted it.
GrantHasOwner ==
    /\ \A d \in Deciders : decider[d] # Resting =>
          /\ decider[d].at \in {"look", "grant"} =>
                decider[d].verdict = "permanent" /\ ~decider[d].changed
          /\ decider[d].changed => decider[d].verdict = "permanent"
    /\ granted => \/ \E a \in accepted : a[3] = "permanent"
                  \/ leftOver
                  \/ \E d \in Deciders : decider[d] # Resting /\ decider[d].changed

DecisionInv ==
    DecisionShape /\ OpenIsUnanswered /\ LaterIsEmpty /\ GrantHasOwner /\ AcceptedIsHeard

\* A decision of a client at work, told apart from one at rest.
LEMMA DeciderAtWork ==
    ASSUME DecisionShape, NEW d \in Deciders, decider[d].at \in {"look", "grant", "deliver", "revoke"}
    PROVE  decider[d] # Resting /\ decider[d] \in Decided
BY DEF DecisionShape, Resting

LEMMA DecisionInvStarts == DecisionsInit => DecisionInv
BY DecisionsAssumption
   DEF DecisionsInit, DecisionInv, DecisionShape, OpenIsUnanswered, LaterIsEmpty, GrantHasOwner,
       AcceptedIsHeard, Requests, Resting

\* The steps of the waiting call.
LEMMA CallKeeps ==
    ASSUME DecisionInv,
           \/ BeginRequest \/ Publish \/ CannotPublish \/ Receive
           \/ Interrupt \/ CancelRequest \/ Resolve
    PROVE  DecisionInv'
<1>0. DecisionShape /\ OpenIsUnanswered /\ LaterIsEmpty /\ GrantHasOwner /\ AcceptedIsHeard
  BY DEF DecisionInv
<1>00. request.id \in Nat /\ MaxRequests \in Nat
  BY <1>0, DecisionsAssumption DEF DecisionShape
<1>1. CASE BeginRequest
  <2>1. /\ byRun = 0 /\ request' = [id |-> request.id + 1, at |-> "begun"]
        /\ request.id + 1 \in Requests /\ byRun' = request.id + 1
        /\ UNCHANGED <<channel, published, granted, leftOver, decider, accepted, heard>>
    BY <1>00, <1>1 DEF BeginRequest, Requests, grantVars
  <2>2. /\ request'.id = request.id + 1 /\ request'.at = "begun"
        /\ channel[byRun'] = "empty" /\ heard[byRun'] = "nothing"
        /\ \A a \in accepted : a[1] # byRun'
    BY <1>0, <1>00, <2>1 DEF LaterIsEmpty
  <2>3. DecisionShape'
    BY <1>0, <1>00, <2>1, <2>2 DEF DecisionShape, Requests
  <2>4. OpenIsUnanswered'
    BY <2>1, <2>2, <1>00 DEF OpenIsUnanswered
  <2>5. LaterIsEmpty'
    <3>1. published' <= request'.id
      BY <1>0, <1>00, <2>1, <2>2 DEF LaterIsEmpty, DecisionShape
    <3>2. ASSUME NEW d \in Deciders, decider[d] # Resting PROVE decider[d].id <= request.id + 1
      BY <1>0, <1>00, <3>2 DEF LaterIsEmpty, DecisionShape, Decided, Requests
    <3>3. \A id \in Requests : id > request.id + 1 => id > request.id
      BY <1>00 DEF Requests
    <3> QED
      BY <1>0, <2>1, <2>2, <3>1, <3>2, <3>3 DEF LaterIsEmpty
  <2> QED
    BY <1>0, <2>1, <2>3, <2>4, <2>5 DEF DecisionInv, GrantHasOwner, AcceptedIsHeard
<1>2. CASE Publish
  <2>1. /\ request.at = "begun" /\ published' = request.id
        /\ request'.id = request.id /\ request'.at = "waiting"
        /\ UNCHANGED <<byRun, channel, granted, leftOver, decider, accepted, heard>>
    BY <1>2 DEF Publish, grantVars
  <2> QED
    BY <1>0, <1>00, <2>1 DEF DecisionInv, DecisionShape, OpenIsUnanswered, LaterIsEmpty,
                             GrantHasOwner, AcceptedIsHeard
<1>3. CASE CannotPublish
  <2>1. /\ request'.id = request.id /\ request'.at = "none" /\ byRun' = 0
        /\ UNCHANGED <<published, channel, granted, leftOver, decider, accepted, heard>>
    BY <1>3 DEF CannotPublish, grantVars
  <2> QED
    BY <1>0, <1>00, <2>1 DEF DecisionInv, DecisionShape, OpenIsUnanswered, LaterIsEmpty,
                             GrantHasOwner, AcceptedIsHeard
<1>4. CASE Receive
  <2>1. /\ request.at = "waiting" /\ channel[request.id] # "empty"
        /\ heard' = [heard EXCEPT ![request.id] = channel[request.id]]
        /\ channel' = [channel EXCEPT ![request.id] = "empty"]
        /\ request'.id = request.id /\ request'.at = "received"
        /\ UNCHANGED <<byRun, published, granted, leftOver, decider, accepted>>
    BY <1>4 DEF Receive, grantVars
  <2>2. /\ request.id \in Requests /\ byRun = 0 /\ heard[request.id] = "nothing"
    BY <1>0, <1>00, <2>1 DEF OpenIsUnanswered, DecisionShape, Requests
  <2>3. /\ channel[request.id] \in DecisionKinds
        /\ heard' \in [Requests -> DecisionKinds \cup {"nothing", "interrupted"}]
        /\ channel' \in [Requests -> DecisionKinds \cup {"empty"}]
        /\ \A id \in Requests : id # request.id =>
              heard'[id] = heard[id] /\ channel'[id] = channel[id]
        /\ heard'[request.id] = channel[request.id]
    BY <1>0, <2>1, <2>2 DEF DecisionShape
  <2>4. DecisionShape' /\ OpenIsUnanswered' /\ GrantHasOwner'
    BY <1>0, <2>1, <2>2, <2>3 DEF DecisionShape, OpenIsUnanswered, GrantHasOwner
  <2>5. LaterIsEmpty'
    <3>1. \A id \in Requests : id > request.id => id # request.id
      BY <1>00 DEF Requests
    <3> QED
      BY <1>0, <2>1, <2>3, <3>1 DEF LaterIsEmpty
  <2>6. AcceptedIsHeard'
    <3> SUFFICES ASSUME NEW a \in accepted
                 PROVE  \/ heard'[a[1]] \in {a[3], "interrupted"}
                        \/ heard'[a[1]] = "nothing" /\ channel'[a[1]] = a[3]
      BY <2>1 DEF AcceptedIsHeard
    <3>1. a[1] \in Requests
      BY <1>0 DEF DecisionShape
    <3>2. CASE a[1] = request.id
      <4>1. a[3] \in DecisionKinds
        BY <1>0 DEF DecisionShape
      <4>2. channel[request.id] = a[3]
        BY <1>0, <2>2, <3>2, <4>1 DEF AcceptedIsHeard, DecisionKinds
      <4> QED
        BY <2>3, <3>2, <4>2
    <3>3. CASE a[1] # request.id
      BY <1>0, <2>3, <3>1, <3>3 DEF AcceptedIsHeard
    <3> QED
      BY <3>2, <3>3
  <2> QED
    BY <2>4, <2>5, <2>6 DEF DecisionInv
<1>5. CASE Interrupt
  <2>1. /\ request.at = "waiting"
        /\ heard' = [heard EXCEPT ![request.id] = "interrupted"]
        /\ request'.id = request.id /\ request'.at = "received"
        /\ UNCHANGED <<byRun, channel, published, granted, leftOver, decider, accepted>>
    BY <1>5 DEF Interrupt, grantVars
  <2>2. request.id \in Requests
    BY <1>0, <1>00, <2>1 DEF OpenIsUnanswered, DecisionShape, Requests
  <2>3. /\ heard' \in [Requests -> DecisionKinds \cup {"nothing", "interrupted"}]
        /\ \A id \in Requests : heard'[id] = IF id = request.id THEN "interrupted" ELSE heard[id]
    BY <1>0, <2>1, <2>2 DEF DecisionShape
  <2>4. DecisionShape' /\ GrantHasOwner'
    BY <1>0, <2>1, <2>3 DEF DecisionShape, GrantHasOwner
  <2>5. OpenIsUnanswered'
    BY <1>0, <2>1, <2>2, <2>3 DEF OpenIsUnanswered
  <2>6. LaterIsEmpty'
    BY <1>0, <1>00, <2>1, <2>3 DEF LaterIsEmpty, Requests
  <2>7. AcceptedIsHeard'
    BY <1>0, <2>1, <2>3 DEF AcceptedIsHeard, DecisionShape
  <2> QED
    BY <2>4, <2>5, <2>6, <2>7 DEF DecisionInv
<1>6. CASE CancelRequest
  <2>1. /\ request'.id = request.id /\ request'.at = "resolving" /\ byRun' = 0
        /\ UNCHANGED <<published, channel, granted, leftOver, decider, accepted, heard>>
    BY <1>6 DEF CancelRequest, grantVars
  <2> QED
    BY <1>0, <1>00, <2>1 DEF DecisionInv, DecisionShape, OpenIsUnanswered, LaterIsEmpty,
                             GrantHasOwner, AcceptedIsHeard
<1>7. CASE Resolve
  <2>1. /\ request'.id = request.id /\ request'.at = "none" /\ published' = 0
        /\ UNCHANGED <<byRun, channel, granted, leftOver, decider, accepted, heard>>
    BY <1>7 DEF Resolve, grantVars
  <2> QED
    BY <1>0, <1>00, <2>1 DEF DecisionInv, DecisionShape, OpenIsUnanswered, LaterIsEmpty,
                             GrantHasOwner, AcceptedIsHeard
<1> QED
  BY <1>1, <1>2, <1>3, <1>4, <1>5, <1>6, <1>7

\* The steps of DecideRun.  A step in which only d moves, within its request,
\* and keeps what it says about grants.
LEMMA DeciderMoves ==
    ASSUME DecisionInv, NEW d \in Deciders, NEW r \in Decided \cup {Resting},
           decider' = [decider EXCEPT ![d] = r], r # Resting => r.id <= request.id,
           r # Resting => /\ r.at \in {"look", "grant"} => r.verdict = "permanent" /\ ~r.changed
                          /\ r.changed => r.verdict = "permanent",
           UNCHANGED <<request, byRun, channel, published, accepted, heard>>,
           granted' => \/ \E a \in accepted : a[3] = "permanent"
                       \/ leftOver'
                       \/ \E e \in Deciders : decider'[e] # Resting /\ decider'[e].changed
    PROVE  DecisionInv'
<1>0. DecisionShape /\ OpenIsUnanswered /\ LaterIsEmpty /\ GrantHasOwner /\ AcceptedIsHeard
  BY DEF DecisionInv
<1>1. \A e \in Deciders : decider'[e] = IF e = d THEN r ELSE decider[e]
  BY <1>0 DEF DecisionShape
<1>2. DecisionShape'
  BY <1>0, <1>1 DEF DecisionShape
<1>3. OpenIsUnanswered' /\ AcceptedIsHeard'
  BY <1>0 DEF OpenIsUnanswered, AcceptedIsHeard
<1>4. LaterIsEmpty'
  BY <1>0, <1>1 DEF LaterIsEmpty
<1>5. GrantHasOwner'
  BY <1>0, <1>1 DEF GrantHasOwner
<1> QED
  BY <1>2, <1>3, <1>4, <1>5 DEF DecisionInv

\* Nobody else's grant is forgotten when d was not the one who granted.
LEMMA GrantStays ==
    ASSUME DecisionInv, NEW d \in Deciders, decider[d] = Resting \/ ~decider[d].changed,
           NEW r, decider' = [decider EXCEPT ![d] = r], granted
    PROVE  \/ \E a \in accepted : a[3] = "permanent"
           \/ leftOver
           \/ \E e \in Deciders : decider'[e] # Resting /\ decider'[e].changed
<1>1. \A e \in Deciders : e # d => decider'[e] = decider[e]
  BY DEF DecisionInv, DecisionShape
<1> QED
  BY <1>1 DEF DecisionInv, GrantHasOwner

LEMMA SeeRequestKeeps ==
    ASSUME DecisionInv, NEW d \in Deciders, SeeRequest(d)
    PROVE  DecisionInv'
<1>0. DecisionShape /\ LaterIsEmpty
  BY DEF DecisionInv
<1>1. PICK verdict \in DecisionKinds :
        /\ decider[d].at = "rest" /\ published # 0
        /\ decider' = [decider EXCEPT ![d] =
             [at |-> IF verdict = "permanent" THEN "look" ELSE "deliver",
              id |-> published, verdict |-> verdict, changed |-> FALSE]]
        /\ UNCHANGED <<request, byRun, channel, published, granted, leftOver, accepted, heard>>
  BY DEF SeeRequest, waitVars, grantVars
<1> DEFINE seen == [at |-> IF verdict = "permanent" THEN "look" ELSE "deliver",
                    id |-> published, verdict |-> verdict, changed |-> FALSE]
<1>2. published \in Requests
  BY <1>0, <1>1, DecisionsAssumption DEF DecisionShape, Requests
<1>3. decider[d] = Resting
  BY <1>0, <1>1 DEF DecisionShape, Decided
<1>4. /\ seen \in Decided /\ seen.id = published /\ ~seen.changed
      /\ (seen.at \in {"look", "grant"} => seen.verdict = "permanent")
  BY <1>2 DEF Decided
<1>5. seen.id <= request.id
  BY <1>0, <1>4 DEF LaterIsEmpty
<1>6. decider' = [decider EXCEPT ![d] = seen]
  BY <1>1
<1> HIDE DEF seen
<1>7. granted' => \/ \E a \in accepted : a[3] = "permanent"
                  \/ leftOver'
                  \/ \E e \in Deciders : decider'[e] # Resting /\ decider'[e].changed
  BY <1>1, <1>3, <1>6, GrantStays
<1> QED
  BY <1>1, <1>4, <1>5, <1>6, <1>7, DeciderMoves

\* What a DecideRun at work may become.
LEMMA AtWork ==
    ASSUME DecisionInv, NEW d \in Deciders, decider[d].at \in {"look", "grant", "deliver", "revoke"}
    PROVE  /\ decider[d] # Resting /\ decider[d] \in Decided /\ decider[d].id <= request.id
           /\ decider[d].at \in {"look", "grant"} =>
                decider[d].verdict = "permanent" /\ ~decider[d].changed
           /\ decider[d].changed => decider[d].verdict = "permanent"
<1>1. decider[d] # Resting /\ decider[d] \in Decided
  BY DeciderAtWork DEF DecisionInv
<1> QED
  BY <1>1 DEF DecisionInv, LaterIsEmpty, GrantHasOwner

LEMMA LookUpKeeps ==
    ASSUME DecisionInv, NEW d \in Deciders, LookUp(d)
    PROVE  DecisionInv'
<1>1. /\ decider[d].at = "look"
      /\ UNCHANGED <<request, byRun, channel, published, granted, leftOver, accepted, heard>>
  BY DEF LookUp, waitVars
<1>2. /\ decider[d] \in Decided /\ decider[d].id <= request.id
      /\ decider[d].verdict = "permanent" /\ ~decider[d].changed
  BY <1>1, AtWork
<1>3. ASSUME NEW r \in Decided \cup {Resting}, decider' = [decider EXCEPT ![d] = r],
             r # Resting => r.id = decider[d].id /\ r.verdict = "permanent" /\ ~r.changed
      PROVE  DecisionInv'
  <2>1. granted' => \/ \E a \in accepted : a[3] = "permanent"
                    \/ leftOver'
                    \/ \E e \in Deciders : decider'[e] # Resting /\ decider'[e].changed
    BY <1>1, <1>2, <1>3, GrantStays
  <2> QED
    BY <1>1, <1>2, <1>3, <2>1, DeciderMoves
<1>4. CASE Returns(d)
  <2>1. decider' = [decider EXCEPT ![d] = Resting]
    BY <1>4 DEF Returns
  <2> QED
    BY <1>3, <2>1, Zenon
<1>5. CASE \E at \in {"deliver", "grant"} : GoesTo(d, at)
  <2>1. PICK at \in {"deliver", "grant"} : decider' = [decider EXCEPT ![d] = [decider[d] EXCEPT !.at = at]]
    BY <1>5 DEF GoesTo
  <2>2. /\ [decider[d] EXCEPT !.at = at] \in Decided
        /\ [decider[d] EXCEPT !.at = at].id = decider[d].id
        /\ [decider[d] EXCEPT !.at = at].verdict = "permanent"
        /\ ~[decider[d] EXCEPT !.at = at].changed
    BY <1>2 DEF Decided
  <2> QED
    BY <1>3, <2>1, <2>2
<1> QED
  BY <1>4, <1>5 DEF LookUp

\* Who changes the session can still take it back, or leaves it over.
LEMMA GrantKeeps ==
    ASSUME DecisionInv, NEW d \in Deciders, Grant(d)
    PROVE  DecisionInv'
<1>1. decider[d].at = "grant" /\ UNCHANGED <<request, byRun, channel, published, accepted, heard>>
  BY DEF Grant, waitVars
<1>2. /\ decider[d] \in Decided /\ decider[d].id <= request.id
      /\ decider[d].verdict = "permanent" /\ ~decider[d].changed
  BY <1>1, AtWork
<1>3. CASE decider' = [decider EXCEPT ![d] = [decider[d] EXCEPT !.at = "deliver", !.changed = TRUE]]
  <2> DEFINE r == [decider[d] EXCEPT !.at = "deliver", !.changed = TRUE]
  <2>1. /\ r \in Decided /\ r.id = decider[d].id /\ r.verdict = "permanent" /\ r.changed
        /\ r.at = "deliver"
    BY <1>2 DEF Decided
  <2>2. decider'[d] = r /\ r # Resting
    BY <1>3, <2>1 DEF DecisionInv, DecisionShape, Resting
  <2>3. decider' = [decider EXCEPT ![d] = r]
    BY <1>3
  <2> HIDE DEF r
  <2> QED
    BY <1>1, <1>2, <2>1, <2>2, <2>3, DeciderMoves
<1>4. CASE /\ Returns(d) /\ granted' \in {granted, TRUE}
           /\ leftOver' = (leftOver \/ granted' # granted)
  <2>1. granted' => granted \/ leftOver'
    BY <1>4, Zenon
  <2>2. leftOver => leftOver'
    BY <1>4, Zenon
  <2>3. decider' = [decider EXCEPT ![d] = Resting]
    BY <1>4 DEF Returns
  <2>4. granted' => \/ \E a \in accepted : a[3] = "permanent"
                    \/ leftOver'
                    \/ \E e \in Deciders : decider'[e] # Resting /\ decider'[e].changed
    BY <1>2, <2>1, <2>2, <2>3, GrantStays
  <2> QED
    BY <1>1, <2>3, <2>4, DeciderMoves
<1> QED
  BY <1>3, <1>4 DEF Grant

\* A delivered decision is the only one of its request.
LEMMA DeliverKeeps ==
    ASSUME DecisionInv, NEW d \in Deciders, Deliver(d)
    PROVE  DecisionInv'
<1>0. DecisionShape /\ OpenIsUnanswered /\ LaterIsEmpty /\ GrantHasOwner /\ AcceptedIsHeard
  BY DEF DecisionInv
<1> DEFINE id == decider[d].id
           verdict == decider[d].verdict
<1>1. /\ decider[d].at = "deliver" /\ byRun = id
      /\ channel' = [channel EXCEPT ![id] = verdict] /\ byRun' = 0
      /\ accepted' = accepted \cup {<<id, d, verdict>>}
      /\ decider' = [decider EXCEPT ![d] = Resting]
      /\ UNCHANGED <<request, published, granted, leftOver, heard>>
  BY DEF Deliver, CanDeliver, Returns, grantVars
<1>2. decider[d] # Resting /\ decider[d] \in Decided
  BY <1>0, <1>1, DeciderAtWork
<1>3. /\ id \in Requests /\ id # 0 /\ verdict \in DecisionKinds /\ id = request.id
      /\ heard[id] \in {"nothing", "interrupted"} /\ \A a \in accepted : a[1] # id
  BY <1>0, <1>1, <1>2 DEF OpenIsUnanswered, Decided, Requests
<1>4. /\ decider'[d] = Resting /\ \A e \in Deciders : e # d => decider'[e] = decider[e]
      /\ channel'[id] = verdict
      /\ \A n \in Requests : n # id => channel'[n] = channel[n]
  BY <1>0, <1>1, <1>3 DEF DecisionShape
<1> HIDE DEF id, verdict
<1>5. DecisionShape'
  BY <1>0, <1>1, <1>3 DEF DecisionShape
<1>6. OpenIsUnanswered'
  BY <1>0, <1>1 DEF OpenIsUnanswered
<1>7. LaterIsEmpty'
  BY <1>0, <1>1, <1>3, <1>4 DEF LaterIsEmpty, Requests, DecisionShape
<1>8. GrantHasOwner'
  <2>1. ASSUME granted, ~leftOver
        PROVE  \/ \E a \in accepted' : a[3] = "permanent"
               \/ \E e \in Deciders : decider'[e] # Resting /\ decider'[e].changed
    <3>1. CASE \E a \in accepted : a[3] = "permanent"
      BY <1>1, <3>1
    <3>2. CASE \E e \in Deciders : decider[e] # Resting /\ decider[e].changed
      <4>1. PICK e \in Deciders : decider[e] # Resting /\ decider[e].changed
        BY <3>2
      <4>2. CASE e = d
        <5>1. verdict = "permanent"
          BY <1>0, <4>1, <4>2 DEF GrantHasOwner, verdict
        <5>2. <<id, d, verdict>> \in accepted'
          BY <1>1
        <5>3. <<id, d, verdict>>[3] = "permanent"
          BY <5>1
        <5> QED
          BY <5>2, <5>3
      <4>3. CASE e # d
        BY <1>4, <4>1, <4>3
      <4> QED
        BY <4>2, <4>3
    <3> QED
      BY <1>0, <2>1, <3>1, <3>2 DEF GrantHasOwner
  <2> QED
    BY <1>0, <1>1, <1>4, <2>1 DEF GrantHasOwner
<1>9. AcceptedIsHeard'
  <2> SUFFICES ASSUME NEW a \in accepted'
               PROVE  \/ heard[a[1]] \in {a[3], "interrupted"}
                      \/ heard[a[1]] = "nothing" /\ channel'[a[1]] = a[3]
    BY <1>1 DEF AcceptedIsHeard
  <2>1. CASE a \in accepted
    BY <1>0, <1>3, <1>4, <2>1 DEF AcceptedIsHeard, DecisionShape
  <2>2. CASE a = <<id, d, verdict>>
    BY <1>3, <1>4, <2>2
  <2> QED
    BY <1>1, <2>1, <2>2
<1> QED
  BY <1>5, <1>6, <1>7, <1>8, <1>9 DEF DecisionInv

LEMMA TakeBackKeeps ==
    ASSUME DecisionInv, NEW d \in Deciders, TakeBack(d)
    PROVE  DecisionInv'
<1>1. /\ decider[d].at = "deliver"
      /\ UNCHANGED <<request, byRun, channel, published, granted, leftOver, accepted, heard>>
  BY DEF TakeBack, waitVars, grantVars
<1>2. /\ decider[d] \in Decided /\ decider[d].id <= request.id
      /\ decider[d].changed => decider[d].verdict = "permanent"
  BY <1>1, AtWork
<1>3. CASE ~decider[d].changed
  <2>1. decider' = [decider EXCEPT ![d] = Resting]
    BY <1>3 DEF TakeBack, Returns
  <2>2. granted' => \/ \E a \in accepted : a[3] = "permanent"
                    \/ leftOver'
                    \/ \E e \in Deciders : decider'[e] # Resting /\ decider'[e].changed
    BY <1>1, <1>3, <2>1, GrantStays
  <2> QED
    BY <1>1, <2>1, <2>2, DeciderMoves
<1>4. CASE decider[d].changed
  <2> DEFINE r == [decider[d] EXCEPT !.at = "revoke"]
  <2>1. /\ r \in Decided /\ r.id = decider[d].id /\ r.verdict = "permanent" /\ r.changed
        /\ r.at = "revoke"
    BY <1>2, <1>4 DEF Decided
  <2>2. decider' = [decider EXCEPT ![d] = r]
    BY <1>4 DEF TakeBack, GoesTo
  <2>3. decider'[d] = r /\ r # Resting
    BY <2>1, <2>2 DEF DecisionInv, DecisionShape, Resting
  <2> HIDE DEF r
  <2> QED
    BY <1>1, <1>2, <2>1, <2>2, <2>3, DeciderMoves
<1> QED
  BY <1>3, <1>4

LEMMA RevokeKeeps ==
    ASSUME DecisionInv, NEW d \in Deciders, Revoke(d)
    PROVE  DecisionInv'
<1>1. /\ decider' = [decider EXCEPT ![d] = Resting]
      /\ UNCHANGED <<request, byRun, channel, published, accepted, heard>>
  BY DEF Revoke, Returns, waitVars
<1>2. granted' => leftOver'
  BY Zenon DEF Revoke
<1> QED
  BY <1>1, <1>2, DeciderMoves

\* What was granted and not delivered is left over by a crash.
LEMMA DecisionCrashKeeps ==
    ASSUME DecisionInv, DecisionCrash
    PROVE  DecisionInv'
<1>0. DecisionShape /\ OpenIsUnanswered /\ LaterIsEmpty /\ GrantHasOwner /\ AcceptedIsHeard
  BY DEF DecisionInv
<1>00. request.id \in Nat /\ MaxRequests \in Nat
  BY <1>0, DecisionsAssumption DEF DecisionShape
<1>1. /\ request'.id = request.id /\ request'.at = "none" /\ byRun' = 0 /\ published' = 0
      /\ channel' = [id \in Requests |-> "empty"]
      /\ heard' = [id \in Requests |->
           IF channel[id] # "empty" THEN "interrupted" ELSE heard[id]]
      /\ decider' = [d \in Deciders |-> Resting] /\ UNCHANGED <<granted, accepted>>
  BY DEF DecisionCrash
<1>2. DecisionShape' /\ OpenIsUnanswered'
  BY <1>0, <1>00, <1>1 DEF DecisionShape, OpenIsUnanswered
<1>3. LaterIsEmpty'
  BY <1>0, <1>00, <1>1 DEF LaterIsEmpty, Requests
<1>4. GrantHasOwner'
  <2>1. ASSUME NEW d \in Deciders, decider[d] # Resting, decider[d].changed
        PROVE  decider[d].at \in {"deliver", "revoke"}
    BY <1>0, <2>1 DEF GrantHasOwner, DecisionShape, Decided
  <2>2. granted /\ (\E d \in Deciders : decider[d] # Resting /\ decider[d].changed) => leftOver'
    BY <2>1, Zenon DEF DecisionCrash
  <2>3. leftOver => leftOver'
    BY Zenon DEF DecisionCrash
  <2> QED
    BY <1>0, <1>1, <2>2, <2>3 DEF GrantHasOwner
<1>5. AcceptedIsHeard'
  <2> SUFFICES ASSUME NEW a \in accepted
               PROVE  heard'[a[1]] \in {a[3], "interrupted"}
    BY <1>1 DEF AcceptedIsHeard
  <2>1. a[1] \in Requests /\ a[3] \in DecisionKinds
    BY <1>0 DEF DecisionShape
  <2>2. CASE heard[a[1]] = "nothing" /\ channel[a[1]] = a[3]
    <3>1. channel[a[1]] # "empty"
      BY <2>1, <2>2 DEF DecisionKinds
    <3> QED
      BY <1>1, <2>1, <3>1
  <2>3. CASE heard[a[1]] \in {a[3], "interrupted"}
    BY <1>1, <2>1, <2>3
  <2> QED
    BY <1>0, <2>2, <2>3 DEF AcceptedIsHeard
<1> QED
  BY <1>2, <1>3, <1>4, <1>5 DEF DecisionInv

LEMMA DecisionInvKept == DecisionInv /\ [DecisionsNext]_decisionVars => DecisionInv'
<1> SUFFICES ASSUME DecisionInv, [DecisionsNext]_decisionVars PROVE DecisionInv'
  OBVIOUS
<1>1. CASE \/ BeginRequest \/ Publish \/ CannotPublish \/ Receive \/ Interrupt
           \/ CancelRequest \/ Resolve \/ DecisionCrash
  BY <1>1, CallKeeps, DecisionCrashKeeps
<1>2. ASSUME NEW d \in Deciders,
             SeeRequest(d) \/ LookUp(d) \/ Grant(d) \/ Deliver(d) \/ TakeBack(d) \/ Revoke(d)
      PROVE  DecisionInv'
  BY <1>2, SeeRequestKeeps, LookUpKeeps, GrantKeeps, DeliverKeeps, TakeBackKeeps, RevokeKeeps
<1>3. CASE UNCHANGED decisionVars
  BY <1>3 DEF decisionVars, waitVars, DecisionInv, DecisionShape, OpenIsUnanswered, LaterIsEmpty,
              GrantHasOwner, AcceptedIsHeard
<1> QED
  BY <1>1, <1>2, <1>3 DEF DecisionsNext

\* Whoever was told that a decision is accepted was heard, and a permanent
\* approval that stays was accepted from somebody, or is one whose call could not
\* take it back: its write failed, or the process ended before.
THEOREM DecisionsTakeEffect == DecisionsSpec => []AcceptedTakesEffect
<1>1. DecisionInv => AcceptedTakesEffect
  BY DEF DecisionInv, GrantHasOwner, AcceptedTakesEffect, GrantedIfAccepted
<1> QED
  BY <1>1, DecisionInvStarts, DecisionInvKept, PTL DEF DecisionsSpec

-----------------------------------------------------------------------------
(* Questions: for any options, any number of questions, of posts and of    *)
(* beats, a question that was answered was open, and is answered once.     *)

QuestionShape ==
    /\ ask \in [AskIds -> [at : {"rest", "begun", "waits", "over"},
          result : {"none", "failure", "canceled", "unanswered"} \union Chosen]]
    /\ askCtx \in [AskIds -> {"live", "expired", "canceled"}]
    /\ beat \in [AskIds -> {"off", "on", "told"}]
    /\ waiting \in [AskIds -> {"absent", "open"} \union UserReplies]
    /\ wire \in [AskIds -> Seq({"question", "end"})]
    /\ taken \in [AskIds -> Seq(UserReplies)]
    /\ posts \subseteq [q : AskIds, answer : UserReplies \union {Wrong}]
    /\ dialog \in AskIds \union {"none"}

\* Whoever can answer knows the question from the console, and the tool asks
\* before it tells.
AskedFirst ==
    \A q \in AskIds :
        ask[q].at \in {"rest", "begun"} =>
            /\ wire[q] = <<>> /\ dialog # q /\ beat[q] = "off"
            /\ \A p \in posts : p.q # q

\* What is in the channel is what was taken, and nobody takes a second.
OneAnswer ==
    \A q \in AskIds :
        /\ ask[q].at = "rest" => waiting[q] = "absent" /\ taken[q] = <<>>
        /\ ask[q].at = "begun" => waiting[q] # "absent"
        /\ ask[q].at = "waits" => waiting[q] # "absent"
        /\ ask[q].at = "over" => waiting[q] = "absent"
        /\ waiting[q] = "open" => taken[q] = <<>>
        /\ waiting[q] \in UserReplies => taken[q] = <<waiting[q]>>
        /\ taken[q] = <<>> \/ \E a \in UserReplies : taken[q] = <<a>>
        /\ ask[q].at \in {"rest", "begun", "waits"} => ask[q].result = "none"

QuestionInv ==  QuestionShape /\ AskedFirst /\ OneAnswer /\ QuestionsHold

LEMMA QuestionInvStarts == QuestionInit => QuestionInv
<1> SUFFICES ASSUME QuestionInit PROVE QuestionInv
  OBVIOUS
<1>1. <<>> \in Seq({"question", "end"}) /\ <<>> \in Seq(UserReplies) /\ Len(<<>>) = 0
  OBVIOUS
<1>2. QuestionShape
  BY <1>1, QuestionAssumption DEF QuestionInit, QuestionShape
<1>3. AskedFirst
  BY QuestionAssumption DEF QuestionInit, AskedFirst
<1>4. OneAnswer
  BY QuestionAssumption DEF QuestionInit, OneAnswer, UserReplies
<1>5. QuestionsHold
  BY <1>1, QuestionAssumption DEF QuestionInit, QuestionsHold
<1> QED
  BY <1>2, <1>3, <1>4, <1>5 DEF QuestionInv

\* What a call's end does, and what it leaves alone.
LEMMA ComesShape ==
    ASSUME QuestionInv, NEW q \in AskIds, NEW result, ask[q].at # "over",
           result \in {"failure", "canceled", "unanswered"} \union Chosen,
           result \in Chosen => taken[q] = <<result>>,
           result = "unanswered" => askCtx[q] = "expired" \/ taken[q] = <<"cancel">>,
           Comes(q, result), UNCHANGED <<askCtx, dialog, posts, taken, early>>
    PROVE  QuestionInv'
<1>1. /\ ask' = [ask EXCEPT ![q] = [at |-> "over", result |-> result]]
      /\ waiting' = [waiting EXCEPT ![q] = "absent"]
      /\ beat' = [beat EXCEPT ![q] = IF @ = "on" THEN "told" ELSE @]
      /\ wire' = [wire EXCEPT ![q] = Append(@, "end")] \/ wire' = wire
  BY DEF Comes, Tells
<1>2. wire' \in [AskIds -> Seq({"question", "end"})]
  <2>1. Append(wire[q], "end") \in Seq({"question", "end"})
    BY DEF QuestionInv, QuestionShape
  <2> QED
    BY <1>1, <2>1 DEF QuestionInv, QuestionShape
<1>3. QuestionShape'
  BY <1>1, <1>2 DEF QuestionInv, QuestionShape
<1>4. /\ \A r \in AskIds : r # q => /\ ask'[r] = ask[r] /\ waiting'[r] = waiting[r]
                                    /\ beat'[r] = beat[r] /\ wire'[r] = wire[r]
      /\ ask'[q].at = "over" /\ ask'[q].result = result /\ waiting'[q] = "absent"
  BY <1>1 DEF QuestionInv, QuestionShape
<1>5. AskedFirst'
  BY <1>4 DEF QuestionInv, AskedFirst
<1>6. OneAnswer'
  BY <1>4, QuestionAssumption DEF QuestionInv, OneAnswer, UserReplies
<1>7. QuestionsHold'
  BY <1>4, QuestionAssumption DEF QuestionInv, QuestionsHold
<1> QED
  BY <1>3, <1>5, <1>6, <1>7 DEF QuestionInv

LEMMA AsksKeeps ==
    ASSUME QuestionInv, NEW q \in AskIds, BadQuestion(q) \/ AsksUser(q)
    PROVE  QuestionInv'
<1>1. /\ ask[q].at = "rest" /\ UNCHANGED <<askCtx, dialog, posts, taken, early>>
      /\ \/ Comes(q, "failure")
         \/ /\ ask' = [ask EXCEPT ![q].at = "begun"]
            /\ waiting' = [waiting EXCEPT ![q] = "open"] /\ UNCHANGED <<beat, wire>>
  BY DEF BadQuestion, AsksUser
<1>2. CASE Comes(q, "failure")
  BY <1>1, <1>2, ComesShape, QuestionAssumption
<1>3. CASE /\ ask' = [ask EXCEPT ![q].at = "begun"]
           /\ waiting' = [waiting EXCEPT ![q] = "open"] /\ UNCHANGED <<beat, wire>>
  <2>1. QuestionShape'
    BY <1>1, <1>3 DEF QuestionInv, QuestionShape
  <2>2. /\ \A r \in AskIds : r # q => ask'[r] = ask[r] /\ waiting'[r] = waiting[r]
        /\ ask'[q].at = "begun" /\ ask'[q].result = ask[q].result /\ waiting'[q] = "open"
    BY <1>3 DEF QuestionInv, QuestionShape
  <2>3. AskedFirst'
    BY <1>1, <1>3, <2>2 DEF QuestionInv, AskedFirst
  <2>4. OneAnswer'
    BY <1>1, <1>3, <2>2, QuestionAssumption DEF QuestionInv, OneAnswer, UserReplies
  <2>5. QuestionsHold'
    BY <1>1, <1>3, <2>2, QuestionAssumption DEF QuestionInv, QuestionsHold
  <2> QED
    BY <2>1, <2>3, <2>4, <2>5 DEF QuestionInv
<1> QED
  BY <1>1, <1>2, <1>3

LEMMA ShowsKeeps ==
    ASSUME QuestionInv, NEW q \in AskIds, ShowsQuestion(q)
    PROVE  QuestionInv'
<1>1. /\ ask[q].at = "begun" /\ UNCHANGED <<askCtx, dialog, posts, taken, early>>
      /\ \/ Comes(q, "failure")
         \/ /\ ask' = [ask EXCEPT ![q].at = "waits"] /\ Tells(q, "question")
            /\ beat' = [beat EXCEPT ![q] = "on"] /\ UNCHANGED waiting
  BY DEF ShowsQuestion
<1>2. CASE Comes(q, "failure")
  BY <1>1, <1>2, ComesShape, QuestionAssumption
<1>3. CASE /\ ask' = [ask EXCEPT ![q].at = "waits"] /\ Tells(q, "question")
           /\ beat' = [beat EXCEPT ![q] = "on"] /\ UNCHANGED waiting
  <2>0. Append(wire[q], "question") \in Seq({"question", "end"})
    BY DEF QuestionInv, QuestionShape
  <2>1. QuestionShape'
    BY <1>1, <1>3, <2>0, ZenonT(60) DEF QuestionInv, QuestionShape, Tells
  <2>2. /\ \A r \in AskIds : r # q => ask'[r] = ask[r] /\ wire'[r] = wire[r] /\ beat'[r] = beat[r]
        /\ ask'[q].at = "waits" /\ ask'[q].result = ask[q].result
    BY <1>3 DEF QuestionInv, QuestionShape, Tells
  <2>3. AskedFirst'
    BY <1>1, <1>3, <2>2 DEF QuestionInv, AskedFirst
  <2>4. OneAnswer'
    BY <1>1, <1>3, <2>2, QuestionAssumption DEF QuestionInv, OneAnswer, UserReplies
  <2>5. QuestionsHold'
    BY <1>1, <1>3, <2>2, QuestionAssumption DEF QuestionInv, QuestionsHold
  <2> QED
    BY <2>1, <2>3, <2>4, <2>5 DEF QuestionInv
<1> QED
  BY <1>1, <1>2, <1>3

LEMMA WaitEndsKeeps ==
    ASSUME QuestionInv, NEW q \in AskIds, WaitEnds(q)
    PROVE  QuestionInv'
<1>1. ask[q].at = "waits" /\ UNCHANGED <<askCtx, dialog, posts, taken, early>>
  BY DEF WaitEnds
<1>2. CASE waiting[q] \in UserReplies /\ Comes(q, ResultOf(waiting[q]))
  <2>1. taken[q] = <<waiting[q]>>
    BY <1>2 DEF QuestionInv, OneAnswer
  <2>2. CASE waiting[q] = "cancel"
    <3>1. ResultOf(waiting[q]) = "unanswered" /\ "unanswered" \notin Chosen
      BY <2>2, QuestionAssumption DEF ResultOf
    <3> QED
      BY <1>1, <1>2, <2>1, <2>2, <3>1, ComesShape
  <2>3. CASE waiting[q] # "cancel"
    <3>1. ResultOf(waiting[q]) = waiting[q] /\ waiting[q] \in Chosen /\ waiting[q] # "unanswered"
      BY <1>2, <2>3, QuestionAssumption DEF ResultOf, UserReplies
    <3> QED
      BY <1>1, <1>2, <2>1, <3>1, ComesShape
  <2> QED
    BY <2>2, <2>3
<1>3. CASE askCtx[q] = "expired" /\ Comes(q, "unanswered")
  BY <1>1, <1>3, ComesShape, QuestionAssumption
<1>4. CASE askCtx[q] = "canceled" /\ Comes(q, "canceled")
  BY <1>1, <1>4, ComesShape, QuestionAssumption
<1> QED
  BY <1>2, <1>3, <1>4 DEF WaitEnds

LEMMA CtxEndsKeeps ==
    ASSUME QuestionInv, NEW q \in AskIds, NEW how \in {"expired", "canceled"}, AskCtxEnds(q, how)
    PROVE  QuestionInv'
<1>1. /\ ask[q].at = "waits" /\ askCtx' = [askCtx EXCEPT ![q] = how] /\ askCtx[q] = "live"
      /\ UNCHANGED <<ask, beat, beats, waiting, wire, dialog, posts, postings, taken, early>>
  BY DEF AskCtxEnds
<1>2. QuestionShape'
  BY <1>1 DEF QuestionInv, QuestionShape
<1>3. AskedFirst' /\ OneAnswer'
  BY <1>1 DEF QuestionInv, AskedFirst, OneAnswer
<1>4. \A r \in AskIds : askCtx[r] = "expired" => askCtx'[r] = "expired"
  BY <1>1 DEF QuestionInv, QuestionShape
<1>5. QuestionsHold'
  BY <1>1, <1>4 DEF QuestionInv, QuestionsHold
<1> QED
  BY <1>2, <1>3, <1>5 DEF QuestionInv

LEMMA RepeatsKeeps ==
    ASSUME QuestionInv, NEW q \in AskIds, Repeats(q)
    PROVE  QuestionInv'
<1>1. /\ beat[q] \in {"on", "told"}
      /\ UNCHANGED <<ask, askCtx, waiting, dialog, posts, postings, taken, early>>
      /\ wire' = [wire EXCEPT ![q] = Append(@, "question")] \/ wire' = wire
      /\ beat' = [beat EXCEPT ![q] = "off"] \/ beat' = beat
            \/ beat' = [beat EXCEPT ![q] = beat[q]]
  BY DEF Repeats, Tells
<1>2. ask[q].at \notin {"rest", "begun"}
  BY <1>1 DEF QuestionInv, AskedFirst
<1>3. Append(wire[q], "question") \in Seq({"question", "end"})
  BY DEF QuestionInv, QuestionShape
<1>4. QuestionShape'
  BY <1>1, <1>3, ZenonT(60) DEF QuestionInv, QuestionShape
<1>5. \A r \in AskIds : r # q => wire'[r] = wire[r] /\ beat'[r] = beat[r]
  BY <1>1 DEF QuestionInv, QuestionShape
<1>6. AskedFirst'
  BY <1>1, <1>2, <1>5 DEF QuestionInv, AskedFirst
<1>7. OneAnswer' /\ QuestionsHold'
  BY <1>1 DEF QuestionInv, OneAnswer, QuestionsHold
<1> QED
  BY <1>4, <1>6, <1>7 DEF QuestionInv

LEMMA SeesKeeps ==
    ASSUME QuestionInv, NEW q \in AskIds, Sees(q)
    PROVE  QuestionInv'
<1>1. /\ wire[q] # <<>> /\ wire' = [wire EXCEPT ![q] = Tail(@)]
      /\ dialog' \in {"none", q, dialog}
      /\ UNCHANGED <<ask, askCtx, beat, waiting, posts, taken, early>>
  BY DEF Sees
<1>2. ask[q].at \notin {"rest", "begun"}
  BY <1>1 DEF QuestionInv, AskedFirst
<1>3. Tail(wire[q]) \in Seq({"question", "end"})
  BY <1>1 DEF QuestionInv, QuestionShape
<1>4. QuestionShape'
  BY <1>1, <1>3 DEF QuestionInv, QuestionShape
<1>5. \A r \in AskIds : r # q => wire'[r] = wire[r]
  BY <1>1 DEF QuestionInv, QuestionShape
<1>6. AskedFirst'
  BY <1>1, <1>2, <1>5, QuestionAssumption DEF QuestionInv, AskedFirst
<1>7. OneAnswer' /\ QuestionsHold'
  BY <1>1 DEF QuestionInv, OneAnswer, QuestionsHold
<1> QED
  BY <1>4, <1>6, <1>7 DEF QuestionInv

LEMMA PostsKeeps ==
    ASSUME QuestionInv, NEW q \in AskIds, NEW answer \in UserReplies \union {Wrong},
           Posts(q, answer), dialog = q \/ wire[q] # <<>>, dialog' \in {"none", dialog},
           UNCHANGED <<ask, askCtx, beat, waiting, wire, taken, early>>
    PROVE  QuestionInv'
<1>1. posts' = posts \union {[q |-> q, answer |-> answer]}
  BY DEF Posts
<1>2. ask[q].at \notin {"rest", "begun"}
  BY DEF QuestionInv, AskedFirst
<1>3. QuestionShape'
  BY <1>1 DEF QuestionInv, QuestionShape
<1>4. AskedFirst'
  BY <1>1, <1>2, QuestionAssumption DEF QuestionInv, AskedFirst
<1>5. OneAnswer' /\ QuestionsHold'
  BY DEF QuestionInv, OneAnswer, QuestionsHold
<1> QED
  BY <1>3, <1>4, <1>5 DEF QuestionInv

LEMMA AnsweredKeeps ==
    ASSUME QuestionInv, NEW p \in posts, Answered(p)
    PROVE  QuestionInv'
<1>1. /\ posts' = posts \ {p}
      /\ UNCHANGED <<ask, askCtx, beat, wire, dialog>>
  BY DEF Answered
<1>2. p.q \in AskIds /\ p.answer \in UserReplies \union {Wrong}
         /\ ask[p.q].at \notin {"rest", "begun"}
  BY DEF QuestionInv, QuestionShape, AskedFirst
<1>3. CASE waiting[p.q] = "open" /\ p.answer # Wrong
  <2>1. /\ waiting' = [waiting EXCEPT ![p.q] = p.answer]
        /\ taken' = [taken EXCEPT ![p.q] = Append(@, p.answer)] /\ early' = early
    BY <1>3 DEF Answered
  <2>2. taken[p.q] = <<>> /\ p.answer \in UserReplies
    BY <1>2, <1>3 DEF QuestionInv, OneAnswer
  <2>3. Append(taken[p.q], p.answer) = <<p.answer>> /\ <<p.answer>> \in Seq(UserReplies)
    BY <2>2
  <2>4. QuestionShape'
    BY <1>1, <1>2, <2>1, <2>2, <2>3 DEF QuestionInv, QuestionShape
  <2>5. /\ waiting'[p.q] = p.answer /\ taken'[p.q] = <<p.answer>>
        /\ \A r \in AskIds : r # p.q => waiting'[r] = waiting[r] /\ taken'[r] = taken[r]
    BY <1>2, <2>1, <2>3 DEF QuestionInv, QuestionShape
  <2>6. AskedFirst'
    BY <1>1 DEF QuestionInv, AskedFirst
  <2>7. ask[p.q].at = "waits" /\ ask[p.q].result = "none"
    BY <1>2, <1>3 DEF QuestionInv, OneAnswer, QuestionShape
  <2>8. OneAnswer'
    BY <1>1, <1>2, <2>2, <2>5, <2>7, QuestionAssumption DEF QuestionInv, OneAnswer, UserReplies
  <2>9. QuestionsHold'
    <3>1. Len(taken'[p.q]) = 1
      BY <2>5
    <3> QED
      BY <1>1, <1>2, <2>1, <2>5, <2>7, <3>1, QuestionAssumption DEF QuestionInv, QuestionsHold
  <2> QED
    BY <2>4, <2>6, <2>8, <2>9 DEF QuestionInv
<1>4. CASE ~(waiting[p.q] = "open" /\ p.answer # Wrong)
  <2>1. /\ UNCHANGED <<waiting, taken>>
        /\ early' = (early \/ (ask[p.q].at # "over" /\ waiting[p.q] = "absent"))
    BY <1>4 DEF Answered
  <2>2. ~early'
    BY <1>2, <2>1, ZenonT(60) DEF QuestionInv, QuestionShape, OneAnswer, QuestionsHold
  <2>3. QuestionShape'
    BY <1>1, <2>1 DEF QuestionInv, QuestionShape
  <2>4. AskedFirst' /\ OneAnswer' /\ QuestionsHold'
    BY <1>1, <2>1, <2>2 DEF QuestionInv, AskedFirst, OneAnswer, QuestionsHold
  <2> QED
    BY <2>3, <2>4 DEF QuestionInv
<1> QED
  BY <1>3, <1>4

LEMMA QuestionInvKept == QuestionInv /\ [QuestionNext]_questionVars => QuestionInv'
<1> SUFFICES ASSUME QuestionInv, [QuestionNext]_questionVars PROVE QuestionInv'
  OBVIOUS
<1>1. CASE UNCHANGED questionVars
  BY <1>1 DEF questionVars, QuestionInv, QuestionShape, AskedFirst, OneAnswer, QuestionsHold
<1>2. ASSUME NEW q \in AskIds, Submits(q) PROVE QuestionInv'
  <2>1. PICK answer \in UserReplies : Posts(q, answer)
    BY <1>2 DEF Submits
  <2> QED
    BY <1>2, <2>1, PostsKeeps DEF Submits
<1>3. ASSUME NEW q \in AskIds, ClientPosts(q, Wrong) PROVE QuestionInv'
  BY <1>3, PostsKeeps DEF ClientPosts
<1> QED
  BY <1>1, <1>2, <1>3, AsksKeeps, ShowsKeeps, WaitEndsKeeps, CtxEndsKeeps, RepeatsKeeps,
     SeesKeeps, AnsweredKeeps DEF QuestionNext, QuestionStep

LEMMA QuestionInvHolds == QuestionInv => QuestionTypeOK
BY DEF QuestionInv, QuestionShape, QuestionTypeOK

-----------------------------------------------------------------------------
(* ModelCall: for any answer, any budget and any number of attempts, of    *)
(* faults and of calls, what a run is shown is the beginning of the answer,*)
(* and paid for.                                                           *)

\* The first units of an answer, in their order.
Counts(s) == s \in Seq(Nat) /\ \A i \in 1..Len(s) : s[i] = i

ModelShape ==
    /\ call.stage \in {"idle", "sending", "reading", "waiting", "answered", "failed"}
    /\ call = [stage |-> call.stage, protocol |-> call.protocol, attempt |-> call.attempt,
               emitted |-> call.emitted]
    /\ call.protocol \in Protocols /\ call.emitted \in BOOLEAN
    /\ sent \in [Fields -> Nat] /\ \A f \in Fields : sent[f] <= Meant[f]
    /\ built \in [Fields -> Seq(Nat)] /\ shown \in [Fields -> Seq(Nat)]
    /\ \A f \in Fields : Counts(shown[f])
    /\ account.tokens \in Nat /\ account.stop \in BOOLEAN
    /\ account = [tokens |-> account.tokens, stop |-> account.stop]

\* What a decoder has put together is what the run was shown, as far as the
\* provider has sent it; before an attempt and after one that is repeated the
\* run has been shown nothing.
DecodesWhatItShows ==
    /\ call.stage = "reading" =>
          /\ built = shown /\ \A f \in Fields : Len(built[f]) = sent[f]
          /\ call.protocol = "json" => \A f \in Fields : sent[f] \in {0, Meant[f]}
    /\ call.stage \in {"sending", "waiting"} => ~call.emitted
    /\ call.stage \in {"sending", "waiting", "reading"} /\ ~call.emitted =>
          \A f \in Fields : shown[f] = <<>>
    /\ call.stage = "answered" => built = shown /\ \A f \in Fields : built[f] = Full(f)

ModelInv == ModelShape /\ DecodesWhatItShows /\ ShownIsCovered

LEMMA FullCounts ==
    ASSUME NEW f \in Fields
    PROVE  /\ Full(f) \in Seq(Nat) /\ Len(Full(f)) = Meant[f] /\ Counts(Full(f))
                 /\ Meant[f] \in Nat
           /\ \A s : Counts(s) /\ Len(s) = Meant[f] => s = Full(f)
<1>1. Meant[f] \in Nat
  BY CallBounds
<1>2. Full(f) \in Seq(Nat) /\ Len(Full(f)) = Meant[f] /\ \A i \in 1..Meant[f] : Full(f)[i] = i
  <2>1. Full(f) \in [1..Meant[f] -> Nat] /\ \A i \in 1..Meant[f] : Full(f)[i] = i
    <3>1. Full(f) = [i \in 1..Meant[f] |-> i]
      BY DEF Full
    <3>2. 1..Meant[f] \subseteq Nat
      BY <1>1
    <3> QED
      BY <3>1, <3>2
  <2>2. Full(f) \in Seq(Nat)
    BY <1>1, <2>1
  <2>3. Len(Full(f)) = Meant[f]
    BY <1>1, <2>1
  <2> QED
    BY <2>1, <2>2, <2>3
<1>3. ASSUME NEW s, Counts(s), Len(s) = Meant[f] PROVE s = Full(f)
  <2>1. s \in Seq(Nat) /\ \A i \in 1..Len(s) : s[i] = Full(f)[i]
    BY <1>2, <1>3 DEF Counts
  <2> QED
    BY <1>2, <1>3, <2>1, SeqEqual
<1> QED
  BY <1>1, <1>2, <1>3 DEF Counts

\* The units that follow the first k of an answer go on counting.
LEMMA CountsOn ==
    ASSUME NEW s, Counts(s), NEW u \in Seq(Nat), \A i \in 1..Len(u) : u[i] = Len(s) + i
    PROVE  Counts(s \o u) /\ Len(s \o u) = Len(s) + Len(u)
<1>1. s \in Seq(Nat) /\ s \o u \in Seq(Nat) /\ Len(s \o u) = Len(s) + Len(u)
      /\ \A i \in 1..(Len(s) + Len(u)) : (s \o u)[i] = IF i <= Len(s) THEN s[i] ELSE u[i - Len(s)]
  BY ConcatProperties DEF Counts
<1>2. Len(s) \in Nat /\ Len(u) \in Nat
  BY <1>1
<1>3. ASSUME NEW i \in 1..Len(s \o u) PROVE (s \o u)[i] = i
  <2>1. CASE i <= Len(s)
    BY <1>1, <1>2, <2>1 DEF Counts
  <2>2. CASE i > Len(s)
    <3>1. i - Len(s) \in 1..Len(u)
      BY <1>1, <1>2, <2>2
    <3>2. (s \o u)[i] = u[i - Len(s)]
      BY <1>1, <1>2, <2>2
    <3> QED
      BY <1>2, <3>1, <3>2
  <2> QED
    BY <1>1, <1>2, <2>1, <2>2
<1> QED
  BY <1>1, <1>3 DEF Counts

\* Of an event that repeats the whole, the rest is new.
LEMMA TrimIsTheRest ==
    ASSUME NEW f \in Fields, Counts(built[f]), Len(built[f]) <= Meant[f]
    PROVE  /\ Trim(f) \in Seq(Nat) /\ Len(Trim(f)) = Meant[f] - Len(built[f])
           /\ \A i \in 1..Len(Trim(f)) : Trim(f)[i] = Len(built[f]) + i
<1> DEFINE k == Len(built[f])
<1>1. /\ Full(f) \in Seq(Nat) /\ Len(Full(f)) = Meant[f] /\ Meant[f] \in Nat
      /\ \A i \in 1..Meant[f] : Full(f)[i] = i
  BY FullCounts DEF Counts
<1>2. k \in Nat /\ built[f] \in Seq(Nat) /\ \A i \in 1..k : built[f][i] = i
  BY DEF Counts
<1>3. SubSeq(Full(f), 1, k) = built[f]
  <2>1. /\ SubSeq(Full(f), 1, k) \in Seq(Nat) /\ Len(SubSeq(Full(f), 1, k)) = k
        /\ \A i \in 1..k : SubSeq(Full(f), 1, k)[i] = Full(f)[i]
    <3>1. 1..k \subseteq 1..Meant[f]
      BY <1>1, <1>2
    <3>2. \A i \in 1..k : Full(f)[i] \in Nat
      BY <1>1, <3>1
    <3> HIDE DEF k
    <3> QED
      BY <1>1, <1>2, <3>1, <3>2, SubSeqProperties
  <2>2. \A i \in 1..k : Full(f)[i] = i
    BY <1>1, <1>2
  <2> HIDE DEF k
  <2> QED
    BY <1>2, <2>1, <2>2, SeqEqual DEF k
<1>4. Trim(f) = SubSeq(Full(f), k + 1, Meant[f])
  BY <1>3 DEF Trim
<1>5. /\ SubSeq(Full(f), k + 1, Meant[f]) \in Seq(Nat)
      /\ Len(SubSeq(Full(f), k + 1, Meant[f])) = Meant[f] - k
      /\ \A i \in 1..(Meant[f] - k) : SubSeq(Full(f), k + 1, Meant[f])[i] = Full(f)[k + i]
  <2> HIDE DEF k
  <2>1. k <= Meant[f]
    BY DEF k
  <2>2. \A i \in (k + 1)..Meant[f] : Full(f)[i] \in Nat /\ i \in 1..Len(Full(f))
    BY <1>1, <1>2
  <2>3. Len(SubSeq(Full(f), k + 1, Meant[f])) = Meant[f] - k
    BY <1>1, <1>2, <2>1, <2>2
  <2>4. SubSeq(Full(f), k + 1, Meant[f]) \in Seq(Nat)
    BY <1>1, <1>2, <2>1, <2>2
  <2>5. \A i \in 1..(Meant[f] - k) : SubSeq(Full(f), k + 1, Meant[f])[i] = Full(f)[k + i]
    <3>1. \A i \in 1..Meant[f] - (k + 1) + 1 :
              SubSeq(Full(f), k + 1, Meant[f])[i] = Full(f)[(k + 1) + i - 1]
      BY <1>1, <1>2, <2>2, SubSeqProperties
    <3> QED
      BY <1>1, <1>2, <3>1
  <2> QED
    BY <2>3, <2>4, <2>5
<1>6. \A i \in 1..(Meant[f] - k) : Full(f)[k + i] = k + i
  BY <1>1, <1>2
<1> QED
  BY <1>4, <1>5, <1>6

LEMMA UnitsAreNat ==
    ASSUME NEW out \in [Fields -> Seq(Nat)]
    PROVE  Units(out) \in Nat
<1>1. "text" \in Fields /\ "args" \in Fields
  BY DEF Fields
<1> QED
  BY <1>1 DEF Units

LEMMA UnitsGrow ==
    ASSUME NEW out \in [Fields -> Seq(Nat)], NEW f \in Fields, NEW u \in Seq(Nat)
    PROVE  Units([out EXCEPT ![f] = @ \o u]) = Units(out) + Len(u)
<1> DEFINE grown == [out EXCEPT ![f] = @ \o u]
<1>1. "text" \in Fields /\ "args" \in Fields /\ "text" # "args" /\ f \in {"text", "args"}
  BY DEF Fields
<1>2. Len(out[f] \o u) = Len(out[f]) + Len(u)
  BY ConcatProperties
<1>3. Len(out["text"]) \in Nat /\ Len(out["args"]) \in Nat /\ Len(u) \in Nat
  BY <1>1
<1>4. \A a, b, c \in Nat : (a + b) + c = (a + c) + b /\ a + (b + c) = (a + b) + c
  OBVIOUS
<1>5. CASE f = "text"
  <2>1. grown["text"] = out["text"] \o u /\ grown["args"] = out["args"]
    BY <1>1, <1>5
  <2>2. Len(grown["text"]) + Len(grown["args"]) = (Len(out["text"]) + Len(u)) + Len(out["args"])
    BY <1>2, <1>5, <2>1
  <2> QED
    BY <1>3, <1>4, <2>2 DEF Units
<1>6. CASE f = "args"
  <2>1. grown["args"] = out["args"] \o u /\ grown["text"] = out["text"]
    BY <1>1, <1>6
  <2>2. Len(grown["text"]) + Len(grown["args"]) = Len(out["text"]) + (Len(out["args"]) + Len(u))
    BY <1>2, <1>6, <2>1
  <2> QED
    BY <1>3, <1>4, <2>2 DEF Units
<1> QED
  BY <1>1, <1>5, <1>6

LEMMA ModelInvStarts == ModelInit => ModelInv
<1> SUFFICES ASSUME ModelInit PROVE ModelInv
  OBVIOUS
<1>1. \A f \in Fields : Counts(<<>>)
  BY DEF Counts
<1>2. ModelShape
  <2>1. sent \in [Fields -> Nat] /\ \A f \in Fields : sent[f] <= Meant[f]
    BY CallBounds DEF ModelInit, NothingSent
  <2>2. built \in [Fields -> Seq(Nat)] /\ shown \in [Fields -> Seq(Nat)]
           /\ \A f \in Fields : Counts(shown[f])
    BY <1>1 DEF ModelInit, Nothing
  <2> QED
    BY <2>1, <2>2 DEF ModelInit, ModelShape, Rested, Protocols
<1>3. DecodesWhatItShows
  BY DEF ModelInit, Rested, DecodesWhatItShows
<1>4. ShownIsCovered
  BY DEF ModelInit, Rested, ShownIsCovered
<1> QED
  BY <1>2, <1>3, <1>4 DEF ModelInv

\* The stage of a call changes, and nothing of what the run was shown.
LEMMA MoveKeeps ==
    ASSUME ModelInv, NEW stage \in {"idle", "waiting", "failed"}, MoveTo(stage),
           call.stage \notin {"idle"},
           stage = "waiting" => ~call.emitted /\ call.stage \in {"sending", "waiting", "reading"},
           UNCHANGED shown, account'.tokens = account.tokens, account'.stop \in BOOLEAN,
           account' = [tokens |-> account'.tokens, stop |-> account'.stop],
           sent' \in [Fields -> Nat], \A f \in Fields : sent'[f] <= Meant[f],
           built' \in [Fields -> Seq(Nat)]
    PROVE  ModelInv'
<1>1. /\ call' = [stage |-> stage, protocol |-> call.protocol, attempt |-> call.attempt,
            emitted |-> call.emitted]
  BY DEF MoveTo, ModelInv, ModelShape
<1>2. ModelShape'
  BY <1>1 DEF ModelInv, ModelShape, Counts
<1>3. DecodesWhatItShows'
  BY <1>1 DEF ModelInv, DecodesWhatItShows
<1>4. ShownIsCovered'
  BY <1>1 DEF ModelInv, ShownIsCovered, Units
<1> QED
  BY <1>2, <1>3, <1>4 DEF ModelInv

LEMMA GiveUpKeeps ==
    ASSUME ModelInv, NEW retryable \in BOOLEAN, GiveUp(retryable),
           call.stage \in {"sending", "reading"}, UNCHANGED <<shown, account>>,
           sent' \in [Fields -> Nat], \A f \in Fields : sent'[f] <= Meant[f],
           built' \in [Fields -> Seq(Nat)]
    PROVE  ModelInv'
<1>1. MoveTo("failed") \/ (MoveTo("waiting") /\ ~call.emitted)
  BY DEF GiveUp
<1>2. /\ account'.tokens = account.tokens /\ account'.stop \in BOOLEAN
      /\ account' = [tokens |-> account'.tokens, stop |-> account'.stop]
  BY DEF ModelInv, ModelShape
<1> QED
  BY <1>1, <1>2, MoveKeeps

LEMMA BeginCallKeeps == ASSUME ModelInv, BeginCall PROVE ModelInv'
<1>1. /\ sent' = NothingSent /\ built' = Nothing /\ shown' = Nothing /\ call.stage = "idle"
  BY DEF BeginCall
<1>2. /\ sent' \in [Fields -> Nat] /\ \A f \in Fields : sent'[f] <= Meant[f]
      /\ built' \in [Fields -> Seq(Nat)] /\ shown' \in [Fields -> Seq(Nat)]
      /\ \A f \in Fields : shown'[f] = <<>> /\ Counts(shown'[f])
  BY <1>1, CallBounds DEF NothingSent, Nothing, Counts
<1>3. CASE Spends(Prompt)
  <2>1. account' = [account EXCEPT !.stop = TRUE] /\ UNCHANGED call
    BY <1>3 DEF BeginCall
  <2>2. ModelShape'
    BY <1>2, <2>1 DEF ModelInv, ModelShape, Counts
  <2> QED
    BY <1>1, <2>1, <2>2 DEF ModelInv, DecodesWhatItShows, ShownIsCovered
<1>4. CASE ~Spends(Prompt)
  <2>1. UNCHANGED account /\ \E p \in Protocols : call' = [Rested EXCEPT !.stage = "sending",
           !.protocol = p]
    BY <1>4 DEF BeginCall
  <2>2. /\ call'.stage = "sending" /\ call'.emitted = FALSE /\ call'.protocol \in Protocols
        /\ call' = [stage |-> call'.stage, protocol |-> call'.protocol, attempt |-> call'.attempt,
                    emitted |-> call'.emitted]
    BY <2>1 DEF Rested
  <2>3. ModelShape'
    BY <1>2, <2>1, <2>2 DEF ModelInv, ModelShape, Counts
  <2>4. DecodesWhatItShows'
    BY <1>2, <2>2 DEF DecodesWhatItShows
  <2>5. Units(shown') = 0
    <3>1. "text" \in Fields /\ "args" \in Fields
      BY DEF Fields
    <3> QED
      BY <1>2, <3>1 DEF Units
  <2>6. ShownIsCovered'
    <3>1. account.tokens \in Nat /\ account' = account /\ TokenBudget \in Nat
      BY <2>1, CallBounds DEF ModelInv, ModelShape
    <3>2. TokenBudget > 0 => ~(account.tokens + Prompt >= TokenBudget)
      BY <1>4 DEF Spends
    <3>3. TokenBudget > 0 => account'.tokens + Prompt + Units(shown') < TokenBudget
      BY <2>5, <3>1, <3>2 DEF Prompt
    <3> QED
      BY <3>3 DEF ShownIsCovered, Units
  <2> QED
    BY <2>3, <2>4, <2>6 DEF ModelInv
<1> QED
  BY <1>3, <1>4

\* The sink, on units that go on where the run's output ends: they are passed
\* on and covered, or the call has failed.
LEMMA PassKeeps ==
    ASSUME ModelInv, Reads, NEW f \in Fields, NEW u \in Seq(Nat), Adds(f, u),
           \A i \in 1..Len(u) : u[i] = Len(shown[f]) + i,
           sent' \in [Fields -> Nat], \A g \in Fields : sent'[g] <= Meant[g],
           \A g \in Fields : g # f => sent'[g] = sent[g],
           sent'[f] = Len(shown[f]) + Len(u),
           call.protocol = "json" => sent'[f] = Meant[f]
    PROVE  ModelInv'
<1>1. /\ call.stage = "reading" /\ built = shown
      /\ built' = [built EXCEPT ![f] = @ \o u] /\ Pass(f, u)
  BY DEF Reads, Adds, ModelInv, DecodesWhatItShows
<1>2. /\ shown[f] \in Seq(Nat) /\ shown[f] \o u \in Seq(Nat) /\ Counts(shown[f] \o u)
      /\ Len(shown[f] \o u) = Len(shown[f]) + Len(u)
  BY CountsOn DEF ModelInv, ModelShape, Counts
<1>3. built' \in [Fields -> Seq(Nat)]
  BY <1>1, <1>2 DEF ModelInv, ModelShape
<1>4. CASE MoveTo("failed") /\ UNCHANGED shown
           /\ (account' = [account EXCEPT !.stop = TRUE] \/ UNCHANGED account)
  <2>1. /\ account'.tokens = account.tokens /\ account'.stop \in BOOLEAN
        /\ account' = [tokens |-> account'.tokens, stop |-> account'.stop]
    BY <1>4 DEF ModelInv, ModelShape
  <2> QED
    BY <1>1, <1>3, <1>4, <2>1, MoveKeeps
<1>5. CASE /\ ~Spends(Prompt + Units(shown) + Len(u)) /\ call' = [call EXCEPT !.emitted = TRUE]
           /\ shown' = [shown EXCEPT ![f] = @ \o u] /\ UNCHANGED account
  <2>1. call' = [stage |-> "reading", protocol |-> call.protocol, attempt |-> call.attempt,
           emitted |-> TRUE]
    BY <1>1, <1>5 DEF ModelInv, ModelShape
  <2>2. /\ shown' \in [Fields -> Seq(Nat)] /\ \A g \in Fields : Counts(shown'[g])
              /\ Len(shown'[g]) = sent'[g]
    BY <1>1, <1>2, <1>5 DEF ModelInv, ModelShape, DecodesWhatItShows
  <2>3. ModelShape'
    BY <1>3, <1>5, <2>1, <2>2 DEF ModelInv, ModelShape, Counts
  <2>4. DecodesWhatItShows'
    <3>1. built' = shown'
      BY <1>1, <1>5
    <3>2. call.protocol = "json" => \A g \in Fields : sent'[g] \in {0, Meant[g]}
      BY <1>1 DEF ModelInv, DecodesWhatItShows
    <3> QED
      BY <2>1, <2>2, <3>1, <3>2 DEF DecodesWhatItShows
  <2>5. ShownIsCovered'
    <3>1. Units(shown') = Units(shown) + Len(u)
      BY <1>5, UnitsGrow DEF ModelInv, ModelShape
    <3>2. Units(shown) \in Nat /\ Len(u) \in Nat /\ account.tokens \in Nat
      BY UnitsAreNat DEF ModelInv, ModelShape
    <3>3. TokenBudget \in Nat /\ account' = account
      BY <1>5, CallBounds
    <3>4. TokenBudget > 0 => ~(account.tokens + (Prompt + Units(shown) + Len(u)) >= TokenBudget)
      BY <1>5 DEF Spends
    <3>5. TokenBudget > 0 => account'.tokens + Prompt + Units(shown') < TokenBudget
      BY <3>1, <3>2, <3>3, <3>4 DEF Prompt
    <3> QED
      BY <3>5 DEF ShownIsCovered, Units
  <2> QED
    BY <2>3, <2>4, <2>5 DEF ModelInv
<1> QED
  BY <1>1, <1>4, <1>5 DEF Pass

LEMMA FieldStepKeeps ==
    ASSUME ModelInv, NEW f \in Fields, Delta(f) \/ Repeat(f) \/ Whole(f)
    PROVE  ModelInv'
<1>0. /\ Reads /\ call.stage = "reading" /\ built = shown /\ Len(shown[f]) = sent[f]
            /\ Counts(shown[f])
      /\ sent \in [Fields -> Nat] /\ sent[f] <= Meant[f] /\ sent[f] \in Nat /\ Meant[f] \in Nat
      /\ \A g \in Fields : sent[g] <= Meant[g]
  BY CallBounds DEF Delta, Repeat, Whole, Reads, ModelInv, ModelShape, DecodesWhatItShows
<1>1. CASE Delta(f)
  <2> DEFINE u == <<sent[f] + 1>>
  <2>1. /\ call.protocol # "json" /\ sent[f] < Meant[f]
        /\ sent' = [sent EXCEPT ![f] = @ + 1] /\ Adds(f, u)
    BY <1>1 DEF Delta
  <2>2. u \in Seq(Nat) /\ Len(u) = 1 /\ \A i \in 1..Len(u) : u[i] = Len(shown[f]) + i
    BY <1>0
  <2>3. /\ sent' \in [Fields -> Nat] /\ \A g \in Fields : g # f => sent'[g] = sent[g]
        /\ sent'[f] = Len(shown[f]) + Len(u) /\ sent'[f] <= Meant[f]
    BY <1>0, <2>1, <2>2
  <2>4. \A g \in Fields : sent'[g] <= Meant[g]
    BY <1>0, <2>3
  <2> HIDE DEF u
  <2> QED
    BY <1>0, <2>1, <2>2, <2>3, <2>4, PassKeeps
<1>2. CASE Repeat(f)
  <2>1. call.protocol = "codex" /\ sent' = [sent EXCEPT ![f] = Meant[f]]
    BY <1>2 DEF Repeat
  <2>2. /\ Trim(f) \in Seq(Nat) /\ Len(Trim(f)) = Meant[f] - Len(shown[f])
        /\ \A i \in 1..Len(Trim(f)) : Trim(f)[i] = Len(shown[f]) + i
    BY <1>0, TrimIsTheRest
  <2>3. /\ sent' \in [Fields -> Nat] /\ \A g \in Fields : g # f => sent'[g] = sent[g]
        /\ sent'[f] = Len(shown[f]) + Len(Trim(f)) /\ \A g \in Fields : sent'[g] <= Meant[g]
    <3>1. Len(shown[f]) + Len(Trim(f)) = Meant[f] /\ Meant[f] <= Meant[f]
      BY <1>0, <2>2
    <3>2. sent' \in [Fields -> Nat] /\ sent'[f] = Meant[f]
          /\ \A g \in Fields : g # f => sent'[g] = sent[g]
      BY <1>0, <2>1
    <3> QED
      BY <1>0, <3>1, <3>2
  <2>4. CASE Adds(f, Trim(f))
    BY <1>0, <2>1, <2>2, <2>3, <2>4, PassKeeps
  <2>5. CASE Trim(f) = <<>> /\ UNCHANGED <<built, call, shown, account, modelFaults>>
    <3>1. sent' = sent
      BY <1>0, <2>1, <2>2, <2>5
    <3> QED
      BY <2>5, <3>1 DEF ModelInv, ModelShape, DecodesWhatItShows, ShownIsCovered, Counts, Units
  <2> QED
    BY <1>2, <2>4, <2>5 DEF Repeat
<1>3. CASE Whole(f)
  <2>1. /\ call.protocol = "json" /\ sent[f] < Meant[f]
        /\ sent' = [sent EXCEPT ![f] = Meant[f]] /\ Adds(f, Full(f))
    BY <1>3 DEF Whole
  <2>2. sent[f] = 0
    BY <1>0, <2>1 DEF ModelInv, DecodesWhatItShows
  <2>3. /\ Full(f) \in Seq(Nat) /\ Len(Full(f)) = Meant[f]
        /\ \A i \in 1..Len(Full(f)) : Full(f)[i] = Len(shown[f]) + i
    <3>1. /\ Full(f) \in Seq(Nat) /\ Len(Full(f)) = Meant[f]
          /\ \A i \in 1..Len(Full(f)) : Full(f)[i] = i
      BY FullCounts DEF Counts
    <3>2. Len(shown[f]) = 0
      BY <1>0, <2>2
    <3>3. \A i \in 1..Len(Full(f)) : Full(f)[i] = Len(shown[f]) + i
      BY <1>0, <3>1, <3>2
    <3> QED
      BY <3>1, <3>3
  <2>4. /\ sent' \in [Fields -> Nat] /\ \A g \in Fields : g # f => sent'[g] = sent[g]
        /\ sent'[f] = Len(shown[f]) + Len(Full(f)) /\ \A g \in Fields : sent'[g] <= Meant[g]
        /\ sent'[f] = Meant[f]
    BY <1>0, <2>1, <2>2, <2>3
  <2> QED
    BY <1>0, <2>1, <2>3, <2>4, PassKeeps
<1> QED
  BY <1>1, <1>2, <1>3

LEMMA ModelInvKept == ModelInv /\ [ModelNext]_modelVars => ModelInv'
<1> SUFFICES ASSUME ModelInv, [ModelNext]_modelVars PROVE ModelInv'
  OBVIOUS
<1>0. /\ account.tokens \in Nat /\ account.stop \in BOOLEAN
      /\ account = [tokens |-> account.tokens, stop |-> account.stop]
      /\ sent \in [Fields -> Nat] /\ (\A f \in Fields : sent[f] <= Meant[f])
      /\ built \in [Fields -> Seq(Nat)]
  BY DEF ModelInv, ModelShape
<1>1. CASE UNCHANGED modelVars
  BY <1>1 DEF modelVars, ModelInv, ModelShape, DecodesWhatItShows, ShownIsCovered, Counts, Units
<1>2. CASE SendRequest
  <2>1. call.stage = "sending" /\ sent' = NothingSent /\ built' = Nothing
           /\ UNCHANGED <<shown, account>>
    BY <1>2 DEF SendRequest
  <2>2. /\ sent' \in [Fields -> Nat] /\ (\A f \in Fields : sent'[f] <= Meant[f])
        /\ built' \in [Fields -> Seq(Nat)] /\ \A f \in Fields : built'[f] = <<>> /\ sent'[f] = 0
    BY <2>1, CallBounds DEF NothingSent, Nothing
  <2>3. CASE MoveTo("reading")
    <3>1. call' = [stage |-> "reading", protocol |-> call.protocol, attempt |-> call.attempt,
             emitted |-> call.emitted]
      BY <2>3 DEF MoveTo, ModelInv, ModelShape
    <3>2. \A f \in Fields : shown[f] = <<>>
      BY <2>1 DEF ModelInv, DecodesWhatItShows
    <3>3. built' = shown
      BY <2>2, <3>2 DEF ModelInv, ModelShape
    <3>4. ModelShape'
      <4>1. /\ call'.stage = "reading" /\ call'.protocol \in Protocols
                  /\ call'.emitted \in BOOLEAN
            /\ call' = [stage |-> call'.stage, protocol |-> call'.protocol,
                        attempt |-> call'.attempt, emitted |-> call'.emitted]
        BY <3>1 DEF ModelInv, ModelShape
      <4>2. shown' \in [Fields -> Seq(Nat)] /\ \A f \in Fields : Counts(shown'[f])
        BY <2>1 DEF ModelInv, ModelShape
      <4>3. /\ account'.tokens \in Nat /\ account'.stop \in BOOLEAN
            /\ account' = [tokens |-> account'.tokens, stop |-> account'.stop]
        BY <1>0, <2>1
      <4> QED
        BY <2>2, <4>1, <4>2, <4>3 DEF ModelShape, Counts
    <3>5. DecodesWhatItShows'
      BY <2>1, <2>2, <3>1, <3>2, <3>3 DEF DecodesWhatItShows
    <3>6. ShownIsCovered'
      BY <2>1, <3>1 DEF ModelInv, ShownIsCovered, Units
    <3> QED
      BY <3>4, <3>5, <3>6 DEF ModelInv
  <2>4. ASSUME NEW retryable \in BOOLEAN, GiveUp(retryable) PROVE ModelInv'
    BY <2>1, <2>2, <2>4, GiveUpKeeps
  <2>5. CASE MoveTo("failed")
    BY <1>0, <2>1, <2>2, <2>5, MoveKeeps
  <2> QED
    BY <1>2, <2>3, <2>4, <2>5 DEF SendRequest
<1>3. CASE Break
  BY <1>0, <1>3, GiveUpKeeps DEF Break
<1>4. CASE TryAgain
  <2>1. call.stage = "waiting" /\ UNCHANGED <<sent, built, shown, account>>
    BY <1>4 DEF TryAgain
  <2>2. CASE MoveTo("failed")
    BY <1>0, <2>1, <2>2, MoveKeeps
  <2>3. CASE call' = [call EXCEPT !.stage = "sending", !.attempt = @ + 1, !.emitted = FALSE]
    <3>1. call' = [stage |-> "sending", protocol |-> call.protocol, attempt |-> call.attempt + 1,
                   emitted |-> FALSE]
      BY <2>3 DEF ModelInv, ModelShape
    <3>2. ModelShape'
      <4>1. /\ call'.stage = "sending" /\ call'.protocol \in Protocols
                  /\ call'.emitted \in BOOLEAN
            /\ call' = [stage |-> call'.stage, protocol |-> call'.protocol,
                        attempt |-> call'.attempt, emitted |-> call'.emitted]
        BY <3>1 DEF ModelInv, ModelShape
      <4> QED
        BY <2>1, <4>1 DEF ModelInv, ModelShape, Counts
    <3>3. DecodesWhatItShows'
      BY <2>1, <3>1 DEF ModelInv, DecodesWhatItShows
    <3>4. ShownIsCovered'
      BY <2>1, <3>1 DEF ModelInv, ShownIsCovered, Units
    <3> QED
      BY <3>2, <3>3, <3>4 DEF ModelInv
  <2> QED
    BY <1>4, <2>2, <2>3 DEF TryAgain
<1>5. CASE BodyBreaksOff
  BY <1>0, <1>5, MoveKeeps DEF BodyBreaksOff
<1>6. CASE Finished
  <2>1. call.stage = "reading" /\ sent = Meant /\ UNCHANGED <<sent, built, shown>>
    BY <1>6 DEF Finished, Reads
  <2>2. CASE MoveTo("answered") /\ UNCHANGED account
    <3>1. call' = [stage |-> "answered", protocol |-> call.protocol, attempt |-> call.attempt,
             emitted |-> call.emitted]
      BY <2>2 DEF MoveTo, ModelInv, ModelShape
    <3>2. built = shown /\ \A f \in Fields : Len(built[f]) = Meant[f] /\ Counts(built[f])
      BY <2>1 DEF ModelInv, ModelShape, DecodesWhatItShows
    <3>3. \A f \in Fields : built[f] = Full(f)
      BY <3>2, FullCounts
    <3>4. ModelShape'
      BY <2>1, <2>2, <3>1 DEF ModelInv, ModelShape, Counts
    <3>5. DecodesWhatItShows'
      BY <2>1, <3>1, <3>2, <3>3 DEF DecodesWhatItShows, Full
    <3>6. ShownIsCovered'
      BY <2>1, <2>2, <3>1 DEF ModelInv, ShownIsCovered, Units
    <3> QED
      BY <3>4, <3>5, <3>6 DEF ModelInv
  <2>3. CASE MoveTo("failed") /\ account' = [account EXCEPT !.stop = TRUE]
    <3>1. /\ account'.tokens = account.tokens /\ account'.stop \in BOOLEAN
          /\ account' = [tokens |-> account'.tokens, stop |-> account'.stop]
      BY <1>0, <2>3
    <3> QED
      BY <1>0, <2>1, <2>3, <3>1, MoveKeeps
  <2> QED
    BY <1>6, <2>2, <2>3 DEF Finished
<1>7. CASE Charge
  <2>1. call.stage \in {"answered", "failed"} /\ call' = [call EXCEPT !.stage = "idle"]
           /\ UNCHANGED <<sent, built, shown>>
    BY <1>7 DEF Charge
  <2>2. PICK reported \in {0, Prompt + Units(shown) + 1} :
            account' = [account EXCEPT !.tokens =
                           @ + IF reported > 0 THEN reported ELSE Prompt + Units(shown)]
    BY <1>7 DEF Charge
  <2>3. Units(shown) \in Nat
    BY UnitsAreNat DEF ModelInv, ModelShape
  <2>4. /\ account'.tokens \in Nat /\ account'.stop \in BOOLEAN
        /\ account' = [tokens |-> account'.tokens, stop |-> account'.stop]
    BY <1>0, <2>2, <2>3 DEF Prompt
  <2>5. call' = [stage |-> "idle", protocol |-> call.protocol, attempt |-> call.attempt,
           emitted |-> call.emitted]
    BY <2>1 DEF ModelInv, ModelShape
  <2>6. ModelShape'
    BY <2>1, <2>4, <2>5 DEF ModelInv, ModelShape, Counts
  <2>7. DecodesWhatItShows' /\ ShownIsCovered'
    BY <2>5 DEF DecodesWhatItShows, ShownIsCovered
  <2> QED
    BY <2>6, <2>7 DEF ModelInv
<1>8. CASE CancelModel
  <2>1. UNCHANGED <<call, sent, built, shown, account>>
    BY <1>8 DEF CancelModel
  <2> QED
    BY <2>1 DEF ModelInv, ModelShape, DecodesWhatItShows, ShownIsCovered, Counts, Units
<1> QED
  BY <1>1, <1>2, <1>3, <1>4, <1>5, <1>6, <1>7, <1>8, BeginCallKeeps, FieldStepKeeps DEF ModelNext

LEMMA ModelInvHolds == ModelInv => AnswerIsTrue
<1> SUFFICES ASSUME ModelInv PROVE AnswerIsTrue
  OBVIOUS
<1>1. ASSUME NEW f \in Fields PROVE \A i \in DOMAIN shown[f] : shown[f][i] = i
  <2>1. shown[f] \in Seq(Nat) /\ \A i \in 1..Len(shown[f]) : shown[f][i] = i
    BY DEF ModelInv, ModelShape, Counts
  <2>2. DOMAIN shown[f] = 1..Len(shown[f])
    BY <2>1
  <2> QED
    BY <2>1, <2>2
<1> QED
  BY <1>1 DEF ModelInv, DecodesWhatItShows, AnswerIsTrue, AnswerIsShown

-----------------------------------------------------------------------------
(* Memory: who may read what was remembered.                                *)

Whos == Speakers \cup {Operator}
Scopes == {ProjectScope(s.project) : s \in Speakers} \cup {s.override : s \in Speakers}
            \cup {AgentScope} \cup OperatorScopes
MemoryRecords == [scope : Scopes, note : Notes,
                  status : {"active", "superseded", "forgotten"}, source : Whos,
                  authors : SUBSET Whos, by : Whos]
TaskRecords == [stage : {"write", "reinforce", "count", "evict"}, scope : Scopes,
                note : Notes, over : SUBSET Nat, surplus : SUBSET Nat]

\* A scope of an isolated project, and who has a place in a scope.
Sealed(scope) == \E s \in Speakers : s.isolated /\ scope = ProjectScope(s.project)
\* The operator has one everywhere.
MayHold(who, scope) ==
    /\ who # Operator => (IsIsolated(who) <=> Sealed(scope))
    /\ IsIsolated(who) => scope = ProjectScope(who.project)

\* A memory in which nobody has a hand who has no place there, and which
\* counts as the isolated session's as soon as one has said it.
MemoryFits(r) ==
    /\ r.source \in r.authors
    /\ \A who \in r.authors \cup {r.by} : MayHold(who, r.scope)
    /\ \A who \in r.authors : IsIsolated(who) => IsIsolated(r.source)
ItemsFit(m) ==
    /\ DOMAIN m \subseteq Nat /\ m \in [DOMAIN m -> MemoryRecords]
    /\ \A i \in DOMAIN m : MemoryFits(m[i])

TasksFit ==
    /\ tasks \in [Speakers -> TaskRecords \cup {NoTask}]
    /\ \A s \in Speakers : tasks[s] # NoTask => MayHold(s, tasks[s].scope)

MemoryInv ==
    /\ memoriesMade \in Nat
    /\ ItemsFit(items) /\ TasksFit /\ stored = Restrict(items, Lasting(items))

LEMMA ScopesOf ==
    ASSUME NEW s \in Speakers
    PROVE  ScopeOf(s) \in Scopes /\ MayHold(s, ScopeOf(s)) /\ s # Operator
<1>1. s # Operator /\ (IsIsolated(s) <=> s.isolated)
  BY SpeakerShape DEF IsIsolated
<1>2. \A p, q : ProjectScope(p) = ProjectScope(q) => p = q
  BY DEF ProjectScope
<1>3. \A p : ProjectScope(p)[1] = "project" /\ ProjectScope(p) # AgentScope
  <2>1. \A p : ProjectScope(p)[1] = "project"
    BY DEF ProjectScope
  <2>2. AgentScope[1] = "agent"
    BY DEF AgentScope
  <2> QED
    BY <2>1, <2>2
<1>4. Sealed(ProjectScope(s.project)) <=> s.isolated
  BY <1>2, SpeakerShape DEF Sealed
<1>5. CASE s.isolated
  <2>1. ScopeOf(s) = ProjectScope(s.project)
    BY <1>5 DEF ScopeOf
  <2> QED
    BY <1>1, <1>4, <1>5, <2>1 DEF MayHold, Scopes
<1>6. CASE ~s.isolated /\ s.override # NoScope /\ AllowedOverride(s)
  <2>1. ScopeOf(s) = s.override
    BY <1>6 DEF ScopeOf
  <2>2. ~Sealed(s.override)
    <3>1. ASSUME NEW t \in Speakers, t.isolated, s.override = ProjectScope(t.project)
          PROVE  FALSE
      <4>1. s.override = ProjectScope(s.project)
        BY <1>3, <1>6, <3>1 DEF AllowedOverride
      <4> QED
        BY <1>2, <1>6, <3>1, <4>1, SpeakerShape
    <3> QED
      BY <3>1 DEF Sealed
  <2> QED
    BY <1>1, <1>6, <2>1, <2>2 DEF MayHold, Scopes
<1>7. CASE ~s.isolated /\ ~(s.override # NoScope /\ AllowedOverride(s))
  <2>1. ScopeOf(s) \in {ProjectScope(s.project), AgentScope}
    BY <1>7 DEF ScopeOf
  <2>2. ~Sealed(AgentScope)
    BY <1>3 DEF Sealed
  <2> QED
    BY <1>1, <1>4, <1>7, <2>1, <2>2 DEF MayHold, Scopes
<1> QED
  BY <1>1, <1>5, <1>6, <1>7

LEMMA OperatorFits ==
    ASSUME NEW scope \in OperatorScopes
    PROVE  scope \in Scopes /\ MayHold(Operator, scope)
BY DEF Scopes, MayHold, IsIsolated

\* What lasts is what no isolated session said.
LEMMA LastingIsOpen ==
    ASSUME NEW m, ItemsFit(m), NEW i \in DOMAIN m
    PROVE  i \in Lasting(m) <=> \A who \in m[i].authors : ~IsIsolated(who)
BY DEF ItemsFit, MemoryFits, Lasting

LEMMA MemoryInvHolds == MemoryInv => IsolationKept
<1> SUFFICES ASSUME MemoryInv PROVE IsolationKept
  OBVIOUS
<1>1. /\ DOMAIN stored = Lasting(items) /\ \A i \in DOMAIN stored : stored[i] = items[i]
      /\ Lasting(items) \subseteq DOMAIN items
  BY DEF MemoryInv, Restrict, Lasting
<1>2. \A i \in DOMAIN stored : \A who \in stored[i].authors : ~IsIsolated(who)
  BY <1>1, LastingIsOpen DEF MemoryInv
<1>3. ASSUME NEW s \in Speakers, NEW i \in DOMAIN items, NEW who \in items[i].authors,
             IsIsolated(who), i \in Recalled(s)
      PROVE  who.project = s.project
  <2>1. items[i].scope = ScopeOf(s)
    BY <1>3 DEF Recalled, Found, Active
  <2>2. ScopeOf(s) = ProjectScope(who.project) /\ Sealed(ScopeOf(s))
    BY <1>3, <2>1 DEF MemoryInv, ItemsFit, MemoryFits, MayHold, IsIsolated
  <2>3. ScopeOf(s) = ProjectScope(s.project)
    BY <2>2, ScopesOf DEF MayHold
  <2> QED
    BY <2>2, <2>3 DEF ProjectScope
<1>4. ASSUME NEW i \in DOMAIN items, \A who \in items[i].authors : ~IsIsolated(who)
      PROVE  i \in DOMAIN stored /\ stored[i] = items[i]
  BY <1>1, <1>4, LastingIsOpen DEF MemoryInv
<1>5. ASSUME NEW i \in DOMAIN items, NEW who \in items[i].authors \cup {items[i].by},
             IsIsolated(who)
      PROVE  /\ items[i].scope = ProjectScope(who.project)
             /\ \A other \in items[i].authors : IsIsolated(other) \/ other = Operator
  <2>1. \A w \in items[i].authors \cup {items[i].by} : MayHold(w, items[i].scope)
    BY DEF MemoryInv, ItemsFit, MemoryFits
  <2>2. who # Operator /\ MayHold(who, items[i].scope)
    BY <1>5, <2>1 DEF IsIsolated
  <2>3. Sealed(items[i].scope) /\ items[i].scope = ProjectScope(who.project)
    BY <1>5, <2>2 DEF MayHold
  <2> QED
    BY <2>1, <2>3 DEF MayHold
<1> QED
  BY <1>2, <1>3, <1>4, <1>5 DEF IsolationKept

LEMMA MemoryInvStarts == MemoryInit => MemoryInv
<1> SUFFICES ASSUME MemoryInit PROVE MemoryInv
  OBVIOUS
<1>1. items = <<>> /\ stored = <<>> /\ DOMAIN items = {}
  BY DEF MemoryInit
<1>2. ItemsFit(items)
  BY <1>1 DEF ItemsFit
<1>3. Lasting(items) = {}
  BY <1>1 DEF Lasting
<1>4. Restrict(items, {}) = <<>>
  BY DEF Restrict
<1>5. TasksFit
  BY DEF MemoryInit, TasksFit
<1> QED
  BY <1>1, <1>2, <1>3, <1>4, <1>5 DEF MemoryInit, MemoryInv

\* What is written is what fits, and of it what lasts.
LEMMA CommitKeeps ==
    ASSUME ItemsFit(items), stored = Restrict(items, Lasting(items)),
           NEW m, ItemsFit(m), Commit(m)
    PROVE  ItemsFit(items') /\ stored' = Restrict(items', Lasting(items'))
<1>1. CASE items' = m /\ stored' = Restrict(m, Lasting(m))
  BY <1>1
<1>2. CASE UNCHANGED <<items, stored>>
  BY <1>2
<1> QED
  BY <1>1, <1>2 DEF Commit

\* A change of one memory by somebody who has a place in its scope.
LEMMA OneChanged ==
    ASSUME ItemsFit(items), NEW i \in DOMAIN items, NEW r \in MemoryRecords,
           MemoryFits(r)
    PROVE  ItemsFit([items EXCEPT ![i] = r])
<1> DEFINE m == [items EXCEPT ![i] = r]
<1>1. /\ DOMAIN m = DOMAIN items /\ m[i] = r
      /\ \A j \in DOMAIN items : j # i => m[j] = items[j]
      /\ m \in [DOMAIN m -> MemoryRecords]
  BY DEF ItemsFit
<1> HIDE DEF m
<1>2. ItemsFit(m)
  BY <1>1 DEF ItemsFit
<1> QED
  BY <1>2 DEF m

LEMMA RememberKeeps ==
    ASSUME MemoryInv, NEW scope \in Scopes, NEW note \in Notes, NEW who \in Whos, NEW over,
           MayHold(who, scope), Remember(scope, note, who, over)
    PROVE  /\ ItemsFit(items') /\ stored' = Restrict(items', Lasting(items'))
           /\ memoriesMade' \in Nat
<1> DEFINE same == {i \in Active(scope) : items[i].note = note}
           Merged(m) == [m EXCEPT !.source = IF who = Operator THEN @ ELSE who,
                                  !.authors = @ \cup {who}]
<1>1. ASSUME NEW i \in same PROVE ItemsFit([items EXCEPT ![i] = Merged(items[i])])
  <2> DEFINE r == Merged(items[i])
  <2>1. i \in DOMAIN items /\ items[i].scope = scope /\ items[i] \in MemoryRecords
    BY DEF Active, MemoryInv, ItemsFit
  <2>2. /\ r \in MemoryRecords /\ r.scope = scope /\ r.by = items[i].by
        /\ r.source \in {items[i].source, who} /\ r.authors = items[i].authors \cup {who}
    BY <2>1 DEF MemoryRecords
  <2> HIDE DEF r
  <2>3. MemoryFits(r)
    <3>1. MemoryFits(items[i])
      BY <2>1 DEF MemoryInv, ItemsFit
    <3>2. r.source \in r.authors /\ \A w \in r.authors \cup {r.by} : MayHold(w, r.scope)
      BY <2>1, <2>2, <3>1 DEF MemoryFits
    <3>3. ASSUME NEW w \in r.authors, IsIsolated(w) PROVE IsIsolated(r.source)
      <4>1. who = Operator => r.source = items[i].source
        BY <2>1 DEF r, MemoryRecords
      <4>2. who # Operator => r.source = who
        BY <2>1 DEF r, MemoryRecords
      <4>3. CASE who = Operator
        <5>1. w \in items[i].authors
          BY <2>2, <3>3, <4>3 DEF IsIsolated
        <5> QED
          BY <3>1, <3>3, <4>1, <4>3, <5>1 DEF MemoryFits
      <4>4. CASE who # Operator
        <5>1. w # Operator /\ MayHold(w, scope) /\ Sealed(scope)
          BY <2>2, <3>2, <3>3 DEF MayHold, IsIsolated
        <5> QED
          BY <4>2, <4>4, <5>1 DEF MayHold
      <4> QED
        BY <4>3, <4>4
    <3> QED
      BY <3>2, <3>3 DEF MemoryFits
  <2>4. ItemsFit([items EXCEPT ![i] = r])
    BY <2>1, <2>2, <2>3, OneChanged DEF MemoryInv
  <2> QED
    BY <2>4 DEF r
<1>2. CASE same # {}
  <2>1. /\ memoriesMade' = memoriesMade
        /\ \E i \in same : Commit([items EXCEPT ![i] = Merged(items[i])])
    BY <1>2 DEF Remember
  <2> HIDE DEF same, Merged
  <2>2. PICK i \in same : Commit([items EXCEPT ![i] = Merged(items[i])])
    BY <2>1
  <2> QED
    BY <1>1, <2>1, <2>2, CommitKeeps DEF MemoryInv
<1>3. CASE same = {}
  <2> DEFINE n   == memoriesMade + 1
             new == [scope |-> scope, note |-> note, status |-> "active", source |-> who,
                     authors |-> {who}, by |-> who]
             gone(i) == [items[i] EXCEPT !.status = "superseded", !.by = who]
             m == [i \in DOMAIN items \cup {n} |->
                      IF i = n THEN new
                      ELSE IF i \in over \cap Active(scope) THEN gone(i) ELSE items[i]]
  <2>1. memoriesMade' = n /\ Commit(m)
    BY <1>3 DEF Remember
  <2>2. n \in Nat /\ DOMAIN m = DOMAIN items \cup {n} /\ DOMAIN m \subseteq Nat
    BY DEF MemoryInv, ItemsFit
  <2>3. /\ new \in MemoryRecords /\ new.scope = scope /\ new.source = who
        /\ new.authors = {who} /\ new.by = who
    BY DEF MemoryRecords
  <2>4. MemoryFits(new)
    BY <2>3 DEF MemoryFits
  <2>5. ASSUME NEW i \in Active(scope)
        PROVE  /\ i \in DOMAIN items /\ gone(i) \in MemoryRecords /\ gone(i).scope = scope
               /\ gone(i).source = items[i].source /\ gone(i).authors = items[i].authors
               /\ gone(i).by = who /\ items[i].scope = scope
    <3>1. i \in DOMAIN items /\ items[i].scope = scope /\ items[i] \in MemoryRecords
      BY DEF Active, MemoryInv, ItemsFit
    <3> QED
      BY <3>1 DEF MemoryRecords
  <2>6. \A i \in DOMAIN items : items[i] \in MemoryRecords /\ MemoryFits(items[i])
    BY DEF MemoryInv, ItemsFit
  <2> HIDE DEF new, gone
  <2>7. ASSUME NEW i \in DOMAIN m
        PROVE  m[i] \in MemoryRecords /\ MemoryFits(m[i])
    <3>1. CASE i = n
      BY <2>2, <2>3, <2>4, <3>1
    <3>2. CASE i # n /\ i \in over \cap Active(scope)
      <4>1. m[i] = gone(i)
        BY <2>2, <3>2
      <4>2. MemoryFits(gone(i))
        BY <2>5, <2>6, <3>2 DEF MemoryFits
      <4> QED
        BY <2>5, <3>2, <4>1, <4>2
    <3>3. CASE i # n /\ i \notin over \cap Active(scope)
      <4>1. m[i] = items[i] /\ i \in DOMAIN items
        BY <2>2, <3>3
      <4> QED
        BY <2>6, <4>1
    <3> QED
      BY <3>1, <3>2, <3>3
  <2>8. m = [i \in DOMAIN m |-> m[i]]
    OBVIOUS
  <2> HIDE DEF m
  <2>9. ItemsFit(m)
    <3>1. m \in [DOMAIN m -> MemoryRecords]
      BY <2>7, <2>8
    <3> QED
      BY <2>2, <2>7, <3>1 DEF ItemsFit
  <2> QED
    BY <2>1, <2>2, <2>9, CommitKeeps DEF MemoryInv
<1> QED
  BY <1>2, <1>3

LEMMA ForgetKeeps ==
    ASSUME MemoryInv, NEW scope, NEW i, NEW who \in Whos,
           MayHold(who, scope), Forget(scope, i, who)
    PROVE  /\ ItemsFit(items') /\ stored' = Restrict(items', Lasting(items'))
           /\ memoriesMade' \in Nat
<1>1. CASE i \in DOMAIN items /\ items[i].scope = scope /\ items[i].status # "forgotten"
  <2> DEFINE r == [items[i] EXCEPT !.status = "forgotten", !.by = who]
  <2>1. Commit([items EXCEPT ![i] = r]) /\ memoriesMade' = memoriesMade
    BY <1>1 DEF Forget
  <2>2. items[i] \in MemoryRecords
    BY <1>1 DEF MemoryInv, ItemsFit
  <2>3. /\ r \in MemoryRecords /\ r.scope = items[i].scope /\ r.source = items[i].source
        /\ r.authors = items[i].authors /\ r.by = who
    BY <2>2 DEF MemoryRecords
  <2> HIDE DEF r
  <2>4. MemoryFits(r)
    BY <1>1, <2>3 DEF MemoryInv, ItemsFit, MemoryFits
  <2>5. ItemsFit([items EXCEPT ![i] = r])
    BY <1>1, <2>3, <2>4, OneChanged DEF MemoryInv
  <2> QED
    BY <2>1, <2>5, CommitKeeps DEF MemoryInv
<1>2. CASE ~(i \in DOMAIN items /\ items[i].scope = scope /\ items[i].status # "forgotten")
  BY <1>2 DEF Forget, Unwritten, MemoryInv
<1> QED
  BY <1>1, <1>2

\* The calls of the others are not touched.
LEMMA TaskSet ==
    ASSUME TasksFit, NEW s \in Speakers, NEW doing \in TaskRecords \cup {NoTask},
           doing # NoTask => MayHold(s, doing.scope), Task(s, doing)
    PROVE  TasksFit'
BY DEF TasksFit, Task

LEMMA RememberToolKeeps ==
    ASSUME MemoryInv, NEW s \in Speakers, NEW note \in Notes,
           NEW over \in {{}} \cup {{i} : i \in DOMAIN items}, RememberTool(s, note, over)
    PROVE  MemoryInv'
<1>1. /\ ScopeOf(s) \in Scopes /\ MayHold(s, ScopeOf(s)) /\ s \in Whos
      /\ over \in SUBSET Nat
  BY ScopesOf DEF Whos, MemoryInv, ItemsFit
<1>2. CASE ~spaceOn
  <2>1. Remember(ScopeOf(s), note, s, over) /\ UNCHANGED tasks
    BY <1>2 DEF RememberTool
  <2>2. TasksFit'
    BY <2>1 DEF MemoryInv, TasksFit
  <2> QED
    BY <1>1, <2>1, <2>2, RememberKeeps DEF MemoryInv
<1>3. CASE spaceOn
  <2>1. UNCHANGED <<items, stored, memoriesMade>>
    BY <1>3 DEF RememberTool, Unwritten
  <2> DEFINE again(i) == [NoTask EXCEPT !.stage = "reinforce", !.scope = ScopeOf(s),
                                        !.note = items[i].note, !.over = {i}]
             fresh == [NoTask EXCEPT !.stage = "write", !.scope = ScopeOf(s),
                                     !.note = note, !.over = over]
  <2>2. \/ \E i \in Duplicates(ScopeOf(s), note) : Task(s, again(i))
        \/ Task(s, fresh)
    BY <1>3 DEF RememberTool
  <2>3. fresh \in TaskRecords /\ fresh.scope = ScopeOf(s)
    BY <1>1 DEF TaskRecords, NoTask
  <2>4. ASSUME NEW i \in Duplicates(ScopeOf(s), note)
        PROVE  again(i) \in TaskRecords /\ again(i).scope = ScopeOf(s)
    <3>1. i \in Nat /\ items[i].note \in Notes
      BY DEF Duplicates, Active, MemoryInv, ItemsFit, MemoryRecords
    <3> QED
      BY <1>1, <3>1 DEF TaskRecords, NoTask
  <2> HIDE DEF fresh, again
  <2>5. TasksFit'
    BY <1>1, <2>2, <2>3, <2>4, TaskSet DEF MemoryInv
  <2> QED
    BY <2>1, <2>5 DEF MemoryInv
<1> QED
  BY <1>2, <1>3

LEMMA WriteTaskKeeps == ASSUME MemoryInv, NEW s \in Speakers, Write(s) PROVE MemoryInv'
<1>1. /\ tasks[s] # NoTask /\ tasks[s] \in TaskRecords /\ MayHold(s, tasks[s].scope)
      /\ Remember(tasks[s].scope, tasks[s].note, s, tasks[s].over)
  BY DEF Write, MemoryInv, TasksFit, NoTask
<1>2. tasks[s].scope \in Scopes /\ tasks[s].note \in Notes /\ s \in Whos
  BY <1>1 DEF TaskRecords, Whos
<1>3. /\ ItemsFit(items') /\ stored' = Restrict(items', Lasting(items'))
      /\ memoriesMade' \in Nat
  BY <1>1, <1>2, RememberKeeps
<1> DEFINE then == [tasks[s] EXCEPT !.stage = "count", !.over = {}]
<1>4. then \in TaskRecords /\ then.scope = tasks[s].scope
  BY <1>1 DEF TaskRecords
<1>5. Task(s, NoTask) \/ Task(s, then)
  BY DEF Write
<1> HIDE DEF then
<1>6. TasksFit'
  BY <1>1, <1>4, <1>5, TaskSet DEF MemoryInv
<1> QED
  BY <1>3, <1>6 DEF MemoryInv

LEMMA CountKeeps == ASSUME MemoryInv, NEW s \in Speakers, Count(s) PROVE MemoryInv'
<1>0. tasks[s].stage = "count" /\ UNCHANGED <<items, stored, memoriesMade>>
  BY DEF Count, Unwritten
<1>1. /\ tasks[s] # NoTask /\ tasks[s] \in TaskRecords /\ MayHold(s, tasks[s].scope)
      /\ UNCHANGED <<items, stored, memoriesMade>>
  BY <1>0 DEF MemoryInv, TasksFit, NoTask
<1> DEFINE here == Active(tasks[s].scope)
           then(out) == [tasks[s] EXCEPT !.stage = "evict", !.surplus = out]
<1>2. Task(s, NoTask) \/ \E n : \E out \in kSubset(n, here) : Task(s, then(out))
  BY DEF Count
<1>3. ASSUME NEW out \in SUBSET here
      PROVE  then(out) \in TaskRecords /\ then(out).scope = tasks[s].scope
  <2>1. out \in SUBSET Nat
    BY DEF Active, MemoryInv, ItemsFit
  <2> QED
    BY <1>1, <2>1 DEF TaskRecords
<1>4. \A n : \A out \in kSubset(n, here) : out \in SUBSET here
  BY DEF kSubset
<1> HIDE DEF then, here
<1>5. TasksFit'
  BY <1>1, <1>2, <1>3, <1>4, TaskSet DEF MemoryInv
<1> QED
  BY <1>1, <1>5 DEF MemoryInv

LEMMA EvictKeeps == ASSUME MemoryInv, NEW s \in Speakers, Evict(s) PROVE MemoryInv'
<1>1. /\ tasks[s] # NoTask /\ tasks[s] \in TaskRecords /\ MayHold(s, tasks[s].scope)
      /\ s \in Whos
  BY DEF Evict, MemoryInv, TasksFit, NoTask, Whos
<1> DEFINE then(i) == [tasks[s] EXCEPT !.surplus = @ \ {i}]
<1>2. PICK i \in tasks[s].surplus :
        Forget(tasks[s].scope, i, s) /\ (Task(s, NoTask) \/ Task(s, then(i)))
  BY DEF Evict
<1>3. then(i) \in TaskRecords /\ then(i).scope = tasks[s].scope
  BY <1>1 DEF TaskRecords
<1> HIDE DEF then
<1>4. TasksFit'
  BY <1>1, <1>2, <1>3, TaskSet DEF MemoryInv
<1> QED
  BY <1>1, <1>2, <1>4, ForgetKeeps DEF MemoryInv

LEMMA PurgeKeeps == ASSUME MemoryInv, Purge PROVE MemoryInv'
<1>1. PICK spared \in SUBSET DOMAIN items : Commit(Restrict(items, spared))
  BY DEF Purge
<1>2. UNCHANGED <<tasks, memoriesMade>>
  BY DEF Purge
<1>3. ItemsFit(Restrict(items, spared))
  BY DEF MemoryInv, ItemsFit, Restrict
<1>4. TasksFit'
  BY <1>2 DEF MemoryInv, TasksFit
<1> QED
  BY <1>1, <1>2, <1>3, <1>4, CommitKeeps DEF MemoryInv

\* What a start reads is what lasted, and nothing else.
LEMMA RestartMemoryKeeps == ASSUME MemoryInv, RestartMemory PROVE MemoryInv'
<1>1. /\ items' = stored /\ stored' = stored /\ memoriesMade' = memoriesMade
      /\ tasks' = [s \in Speakers |-> NoTask]
  BY DEF RestartMemory
<1>2. /\ DOMAIN stored = Lasting(items) /\ \A i \in DOMAIN stored : stored[i] = items[i]
      /\ stored = [i \in DOMAIN stored |-> stored[i]] /\ DOMAIN stored \subseteq DOMAIN items
  BY DEF MemoryInv, Restrict, Lasting
<1>3. ItemsFit(stored)
  BY <1>2 DEF MemoryInv, ItemsFit
<1>4. Lasting(stored) = DOMAIN stored
  BY <1>2 DEF Lasting
<1>5. stored = Restrict(stored, Lasting(stored))
  BY <1>2, <1>4 DEF Restrict
<1>6. TasksFit'
  BY <1>1 DEF TasksFit
<1> QED
  BY <1>1, <1>3, <1>5, <1>6 DEF MemoryInv

LEMMA MemoryInvKept == MemoryInv /\ [MemoryNext]_memoryVars => MemoryInv'
<1> SUFFICES ASSUME MemoryInv, [MemoryNext]_memoryVars PROVE MemoryInv'
  OBVIOUS
<1>1. CASE UNCHANGED memoryVars \/ SetSpaceEnabled
  <2>1. UNCHANGED <<items, stored, tasks, memoriesMade>>
    BY <1>1 DEF memoryVars, SetSpaceEnabled
  <2> QED
    BY <2>1 DEF MemoryInv, TasksFit
<1>2. ASSUME NEW s \in Speakers, NEW i, ForgetTool(s, i) PROVE MemoryInv'
  <2>1. Forget(ScopeOf(s), i, s) /\ UNCHANGED tasks /\ MayHold(s, ScopeOf(s)) /\ s \in Whos
    BY <1>2, ScopesOf DEF ForgetTool, Whos
  <2>2. TasksFit'
    BY <2>1 DEF MemoryInv, TasksFit
  <2> QED
    BY <2>1, <2>2, ForgetKeeps DEF MemoryInv
<1>3. ASSUME NEW i, OperatorForgets(i) PROVE MemoryInv'
  <2>1. /\ Forget(items[i].scope, i, Operator) /\ UNCHANGED tasks /\ Operator \in Whos
        /\ MayHold(Operator, items[i].scope)
    BY <1>3 DEF OperatorForgets, Whos, MayHold, IsIsolated
  <2>2. TasksFit'
    BY <2>1 DEF MemoryInv, TasksFit
  <2> QED
    BY <2>1, <2>2, ForgetKeeps DEF MemoryInv
<1>4. ASSUME NEW scope \in OperatorScopes, NEW note \in Notes, NEW over,
             OperatorRemembers(scope, note, over)
      PROVE  MemoryInv'
  <2>1. /\ Remember(scope, note, Operator, over) /\ UNCHANGED tasks /\ Operator \in Whos
        /\ scope \in Scopes /\ MayHold(Operator, scope)
    BY <1>4, OperatorFits DEF OperatorRemembers, Whos
  <2>2. TasksFit'
    BY <2>1 DEF MemoryInv, TasksFit
  <2> QED
    BY <2>1, <2>2, RememberKeeps DEF MemoryInv
<1> QED
  BY <1>1, <1>2, <1>3, <1>4, RememberToolKeeps, WriteTaskKeeps, CountKeeps, EvictKeeps,
     PurgeKeeps, RestartMemoryKeeps DEF MemoryNext

-----------------------------------------------------------------------------
(* Settings: one edit at a time, and each is answered for itself.            *)

SettingValues == [SettingFields -> Nat]
Holding == {"locked", "persisted", "halfway", "done"}
EditRecords == [at : {"asked"} \cup Holding, part : SettingParts,
                wish : UNION {Wishes(part) : part \in SettingParts}, number : Nat,
                base : SettingValues]

SettingsShape ==
    /\ config \in SettingValues /\ files \in SettingValues
    /\ applied \in SettingValues /\ promised \in SettingValues
    /\ editing \in [Editors -> EditRecords \cup {NotEditing}]
    /\ configMu \in Editors \cup {NobodyHolds}
    /\ limits \in [ModelProviders -> Nat]
    /\ query \subseteq [provider : ModelProviders, of : Nat, server : Nat]
    /\ generation \in Nat /\ updates \in Nat

\* Who is past the lock holds it; between updates everything agrees.
LockIsHeld ==
    /\ \A e \in Editors : editing[e].at \in Holding <=> configMu = e
    /\ configMu = NobodyHolds => config = files /\ applied = files /\ promised = files

\* What is changed already, from the file on.
InTurn ==
    \A e \in Editors : editing[e].at \in Holding =>
        /\ promised = editing[e].base
        /\ files = IF editing[e].at = "locked" THEN editing[e].base ELSE Edited(e)
        /\ applied = IF \/ editing[e].at = "done"
                        \/ editing[e].at = "halfway" /\ editing[e].part # "service"
                     THEN Edited(e) ELSE editing[e].base
        /\ config = IF \/ editing[e].at = "done"
                       \/ editing[e].at = "halfway" /\ editing[e].part = "service"
                    THEN Edited(e) ELSE editing[e].base

\* An update that has not reached the router yet is one the router never saw.
NumbersFresh ==
    /\ generation <= updates /\ \A q \in query : q.of <= updates
    /\ \A e \in Editors : editing[e] # NotEditing => editing[e].number <= updates
    /\ \A e, f \in Editors :
          editing[e] # NotEditing /\ editing[f] # NotEditing
            /\ editing[e].number = editing[f].number => e = f
    /\ \A e \in Editors : editing[e].at \in {"asked", "locked", "persisted"} =>
          /\ generation # editing[e].number
          /\ \A q \in query : q.of # editing[e].number

AnswersAreOwn ==
    \A q \in query : q.of = generation => q.server = applied[q.provider]

SettingsInv ==
    SettingsShape /\ LockIsHeld /\ InTurn /\ NumbersFresh /\ AnswersAreOwn /\ LimitsAreOwn

\* The parts share no field.
LEMMA PartsApart ==
    /\ \A p \in ModelProviders : p \in SettingFields /\ p \notin ServiceFields /\ p \notin Servers
    /\ FieldsOf("service") = ServiceFields /\ FieldsOf("providers") = ModelProviders
    /\ FieldsOf("mcp") = Servers
    /\ NobodyHolds \notin Editors
BY SettingsAssumption DEF SettingFields, FieldsOf, NobodyHolds

\* An update changes its part and nothing else.
LEMMA WishedValues ==
    ASSUME NEW base \in SettingValues, NEW edit \in EditRecords
    PROVE  /\ Wished(base, edit) \in SettingValues
           /\ \A f \in SettingFields :
                 f \notin FieldsOf(edit.part) => Wished(base, edit)[f] = base[f]
           /\ Put(base, edit.part, Wished(base, edit)) = Wished(base, edit)
<1>1. edit.number \in Nat
  BY DEF EditRecords
<1>2. Wished(base, edit) \in SettingValues
  BY <1>1 DEF Wished, SettingValues, NotConfigured
<1>3. \A f \in SettingFields : f \notin FieldsOf(edit.part) => Wished(base, edit)[f] = base[f]
  BY DEF Wished
<1>4. Put(base, edit.part, Wished(base, edit)) = Wished(base, edit)
  <2> DEFINE new == Wished(base, edit)
  <2>1. \A f \in SettingFields :
          new[f] = IF f \in FieldsOf(edit.part) THEN new[f] ELSE base[f]
    BY <1>3
  <2> DEFINE both == Put(base, edit.part, new)
  <2>2. new \in SettingValues /\ both \in SettingValues
    BY <1>2 DEF Put, SettingValues
  <2>3. \A f \in SettingFields : both[f] = new[f]
    BY <2>1 DEF Put
  <2> HIDE DEF new, both
  <2>4. both = new
    BY <2>2, <2>3 DEF SettingValues
  <2> QED
    BY <2>4 DEF new, both
<1> QED
  BY <1>2, <1>3, <1>4

LEMMA SettingsInvStarts == SettingsInit => SettingsInv
<1> SUFFICES ASSUME SettingsInit PROVE SettingsInv
  OBVIOUS
<1>1. config \in SettingValues
  BY DEF SettingsInit, SettingValues, NotConfigured
<1>2. SettingsShape
  BY <1>1 DEF SettingsInit, SettingsShape, NotConfigured
<1>3. \A e \in Editors : editing[e] = NotEditing /\ editing[e].at = "idle"
  BY DEF SettingsInit, NotEditing
<1>4. LockIsHeld /\ InTurn
  BY <1>3, PartsApart DEF SettingsInit, LockIsHeld, InTurn, Holding
<1>5. NumbersFresh /\ AnswersAreOwn /\ LimitsAreOwn
  BY <1>3 DEF SettingsInit, NumbersFresh, AnswersAreOwn, LimitsAreOwn, NotConfigured
<1> QED
  BY <1>2, <1>4, <1>5 DEF SettingsInv

LEMMA SettingsInvHolds == SettingsInv => SettingsHold
<1> SUFFICES ASSUME SettingsInv PROVE PromisesKept
  BY DEF SettingsInv, SettingsHold
<1>1. ASSUME NEW f \in SettingFields, files[f] # promised[f]
      PROVE  \E e \in Editors : /\ editing[e].at \in {"persisted", "halfway", "done"}
                                /\ f \in FieldsOf(editing[e].part) /\ files[f] = Edited(e)[f]
  <2>1. configMu \in Editors
    BY <1>1 DEF SettingsInv, SettingsShape, LockIsHeld
  <2> DEFINE e == configMu
  <2>2. editing[e].at \in Holding /\ editing[e] \in EditRecords
    BY <2>1 DEF SettingsInv, LockIsHeld, SettingsShape, NotEditing, Holding
  <2>3. editing[e].at \in {"persisted", "halfway", "done"} /\ files = Edited(e)
    BY <1>1, <2>1, <2>2 DEF SettingsInv, InTurn, Holding
  <2>4. editing[e].base = promised /\ promised \in SettingValues
    BY <2>1, <2>2 DEF SettingsInv, InTurn, SettingsShape
  <2>5. f \in FieldsOf(editing[e].part)
    BY <1>1, <2>2, <2>3, <2>4, WishedValues DEF Edited
  <2> QED
    BY <2>1, <2>3, <2>5
<1> QED
  BY <1>1 DEF PromisesKept, SettingsInv, LockIsHeld

\* One editor takes a step of his own; the others stay where they are.
LEMMA EditsApart ==
    ASSUME SettingsShape, NEW e \in Editors, NEW w \in EditRecords \cup {NotEditing},
           editing' = [editing EXCEPT ![e] = w]
    PROVE  /\ editing' \in [Editors -> EditRecords \cup {NotEditing}] /\ editing'[e] = w
           /\ \A d \in Editors : d # e => editing'[d] = editing[d]
BY DEF SettingsShape

LEMMA AskKeeps == ASSUME SettingsInv, NEW e \in Editors, AskUpdate(e) PROVE SettingsInv'
<1>1. PICK part \in SettingParts : \E wish \in Wishes(part) :
        editing' = [editing EXCEPT ![e] = [at |-> "asked", part |-> part, wish |-> wish,
                                         number |-> updates + 1, base |-> AllGone]]
  BY DEF AskUpdate
<1>2. PICK wish \in Wishes(part) :
        editing' = [editing EXCEPT ![e] = [at |-> "asked", part |-> part, wish |-> wish,
                                         number |-> updates + 1, base |-> AllGone]]
  BY <1>1
<1> DEFINE w == [at |-> "asked", part |-> part, wish |-> wish, number |-> updates + 1,
                 base |-> AllGone]
<1>3. /\ editing[e] = NotEditing /\ updates' = updates + 1 /\ editing[e].at = "idle"
      /\ UNCHANGED <<config, files, applied, configMu, generation, limits, query, promised>>
  BY DEF AskUpdate, valueVars, routerVars, NotEditing
<1>4. AllGone \in SettingValues /\ updates \in Nat
  BY DEF AllGone, SettingValues, NotConfigured, SettingsInv, SettingsShape
<1>5. w \in EditRecords /\ w.at = "asked" /\ w.number = updates + 1
  BY <1>4 DEF EditRecords
<1> HIDE DEF w
<1>6. /\ editing' \in [Editors -> EditRecords \cup {NotEditing}] /\ editing'[e] = w
      /\ \A d \in Editors : d # e => editing'[d] = editing[d]
  <2>1. editing' = [editing EXCEPT ![e] = w]
    BY <1>2 DEF w
  <2> QED
    BY <1>5, <2>1, EditsApart DEF SettingsInv
<1>7. SettingsShape'
  BY <1>3, <1>4, <1>6 DEF SettingsInv, SettingsShape
<1>8. LockIsHeld'
  BY <1>3, <1>5, <1>6 DEF SettingsInv, LockIsHeld, Holding
<1>9. InTurn'
  BY <1>3, <1>5, <1>6 DEF SettingsInv, InTurn, Holding, Edited
<1>10. NumbersFresh'
  <2>1. /\ generation' <= updates' /\ \A q \in query' : q.of <= updates'
        /\ generation # updates + 1 /\ \A q \in query : q.of # updates + 1
    BY <1>3, <1>4 DEF SettingsInv, NumbersFresh, SettingsShape
  <2>2. \A d \in Editors : editing'[d] # NotEditing => editing'[d].number <= updates'
    BY <1>3, <1>4, <1>5, <1>6 DEF SettingsInv, NumbersFresh, SettingsShape, EditRecords
  <2>3. \A d \in Editors : d # e /\ editing'[d] # NotEditing => editing'[d].number # w.number
    BY <1>3, <1>4, <1>5, <1>6 DEF SettingsInv, NumbersFresh, SettingsShape, EditRecords
  <2>4. \A d, f \in Editors :
          editing'[d] # NotEditing /\ editing'[f] # NotEditing
            /\ editing'[d].number = editing'[f].number => d = f
    BY <1>6, <2>3 DEF SettingsInv, NumbersFresh
  <2>5. \A d \in Editors : editing'[d].at \in {"asked", "locked", "persisted"} =>
          /\ generation' # editing'[d].number
          /\ \A q \in query' : q.of # editing'[d].number
    BY <1>3, <1>5, <1>6, <2>1 DEF SettingsInv, NumbersFresh
  <2> QED
    BY <2>1, <2>2, <2>4, <2>5 DEF NumbersFresh
<1>11. AnswersAreOwn' /\ LimitsAreOwn'
  BY <1>3 DEF SettingsInv, AnswersAreOwn, LimitsAreOwn
<1> QED
  BY <1>7, <1>8, <1>9, <1>10, <1>11 DEF SettingsInv

\* An editor goes on with the same request, or leaves: its number stays fresh.
LEMMA NumbersKept ==
    ASSUME NumbersFresh, UNCHANGED <<updates, generation, query>>, NEW e \in Editors,
           \A d \in Editors : d # e => editing'[d] = editing[d],
           \/ editing'[e] = NotEditing
           \/ /\ editing[e] # NotEditing /\ editing'[e] # NotEditing
              /\ editing'[e].number = editing[e].number
              /\ \/ editing[e].at \in {"asked", "locked", "persisted"}
                 \/ editing'[e].at \notin {"asked", "locked", "persisted"}
    PROVE  NumbersFresh'
<1>1. \A d \in Editors : editing'[d] # NotEditing =>
        editing[d] # NotEditing /\ editing'[d].number = editing[d].number
  OBVIOUS
<1>2. \A d \in Editors : editing'[d].at \in {"asked", "locked", "persisted"} =>
        editing'[d].number = editing[d].number /\ editing[d].at \in {"asked", "locked", "persisted"}
  BY DEF NotEditing
<1> QED
  BY <1>1, <1>2 DEF NumbersFresh

LEMMA LockKeeps == ASSUME SettingsInv, NEW e \in Editors, LockAndCopy(e) PROVE SettingsInv'
<1> DEFINE w == [editing[e] EXCEPT !.at = "locked", !.base = config]
<1>1. /\ editing[e].at = "asked" /\ configMu = NobodyHolds /\ configMu' = e
      /\ editing' = [editing EXCEPT ![e] = w]
      /\ UNCHANGED <<config, files, applied, generation, limits, query, promised, updates>>
  BY DEF LockAndCopy, valueVars, routerVars
<1>2. editing[e] \in EditRecords /\ config \in SettingValues /\ editing[e] # NotEditing
  BY <1>1 DEF SettingsInv, SettingsShape, NotEditing
<1>3. /\ w \in EditRecords /\ w.at = "locked" /\ w.base = config /\ w # NotEditing
      /\ w.number = editing[e].number
  BY <1>2 DEF EditRecords, Holding, NotEditing
<1>4. e # NobodyHolds
  BY PartsApart
<1> HIDE DEF w
<1>5. /\ editing' \in [Editors -> EditRecords \cup {NotEditing}] /\ editing'[e] = w
      /\ \A d \in Editors : d # e => editing'[d] = editing[d]
  BY <1>1, <1>3, EditsApart DEF SettingsInv
<1>6. SettingsShape'
  BY <1>1, <1>5 DEF SettingsInv, SettingsShape
<1>7. \A d \in Editors : editing[d].at \notin Holding
  BY <1>1, PartsApart DEF SettingsInv, LockIsHeld
<1>8. LockIsHeld'
  BY <1>1, <1>3, <1>4, <1>5, <1>7 DEF LockIsHeld, Holding
<1>9. InTurn'
  BY <1>1, <1>3, <1>5, <1>7 DEF SettingsInv, LockIsHeld, InTurn
<1>10. NumbersFresh'
  BY <1>1, <1>2, <1>3, <1>5, NumbersKept DEF SettingsInv
<1>11. AnswersAreOwn' /\ LimitsAreOwn'
  BY <1>1 DEF SettingsInv, AnswersAreOwn, LimitsAreOwn
<1> QED
  BY <1>6, <1>8, <1>9, <1>10, <1>11 DEF SettingsInv

\* Who lets go leaves everything as the others find it.
LEMMA LetGoKeeps ==
    ASSUME SettingsInv, NEW e \in Editors, LetGo(e), editing[e].at \in Holding,
           config = files, applied = files, promised' = files,
           UNCHANGED <<config, files, applied, generation, limits, query, updates>>
    PROVE  SettingsInv'
<1>1. editing' = [editing EXCEPT ![e] = NotEditing] /\ configMu' = NobodyHolds
  BY DEF LetGo
<1>2. /\ editing' \in [Editors -> EditRecords \cup {NotEditing}] /\ editing'[e] = NotEditing
      /\ \A d \in Editors : d # e => editing'[d] = editing[d]
  BY <1>1, EditsApart DEF SettingsInv
<1>3. SettingsShape'
  BY <1>1, <1>2 DEF SettingsInv, SettingsShape
<1>4. \A d \in Editors : editing'[d].at \notin Holding /\ d # NobodyHolds
  BY <1>2, PartsApart DEF SettingsInv, LockIsHeld, Holding, NotEditing
<1>5. LockIsHeld' /\ InTurn'
  BY <1>1, <1>4 DEF LockIsHeld, InTurn
<1>6. NumbersFresh'
  BY <1>2, NumbersKept DEF SettingsInv
<1>7. AnswersAreOwn' /\ LimitsAreOwn'
  BY DEF SettingsInv, AnswersAreOwn, LimitsAreOwn
<1> QED
  BY <1>3, <1>5, <1>6, <1>7 DEF SettingsInv

LEMMA RefuseKeeps == ASSUME SettingsInv, NEW e \in Editors, Refuse(e) PROVE SettingsInv'
<1>1. /\ editing[e].at = "locked" /\ LetGo(e)
      /\ UNCHANGED <<config, files, applied, generation, limits, query, promised, updates>>
  BY DEF Refuse, valueVars, routerVars
<1>2. config = files /\ applied = files /\ promised = files /\ editing[e].at \in Holding
  BY <1>1 DEF SettingsInv, InTurn, Holding
<1> QED
  BY <1>1, <1>2, LetGoKeeps

LEMMA AcknowledgeKeeps ==
    ASSUME SettingsInv, NEW e \in Editors, Acknowledge(e) PROVE SettingsInv'
<1>1. /\ editing[e].at = "done" /\ LetGo(e) /\ promised' = Wished(promised, editing[e])
      /\ UNCHANGED <<config, files, applied, generation, limits, query, updates>>
  BY DEF Acknowledge, valueVars, routerVars
<1>2. /\ config = files /\ applied = files /\ files = Edited(e)
      /\ promised = editing[e].base /\ editing[e].at \in Holding
  BY <1>1 DEF SettingsInv, InTurn, Holding
<1>3. promised' = files
  BY <1>1, <1>2 DEF Edited
<1> QED
  BY <1>1, <1>2, <1>3, LetGoKeeps

\* The file, the program and the configuration are changed one after the other.
LEMMA PersistKeeps == ASSUME SettingsInv, NEW e \in Editors, Persist(e) PROVE SettingsInv'
<1> DEFINE w == [editing[e] EXCEPT !.at = "persisted"]
<1>1. /\ editing[e].at = "locked" /\ editing' = [editing EXCEPT ![e] = w]
      /\ files' = Put(files, editing[e].part, Edited(e))
      /\ UNCHANGED <<config, applied, configMu, generation, limits, query, promised, updates>>
  BY DEF Persist, routerVars
<1>2. editing[e] \in EditRecords /\ editing[e] # NotEditing /\ editing[e].base \in SettingValues
  BY <1>1 DEF SettingsInv, SettingsShape, NotEditing, EditRecords
<1>3. /\ w \in EditRecords /\ w.at = "persisted" /\ w.base = editing[e].base
      /\ w.part = editing[e].part /\ w.wish = editing[e].wish
      /\ w.number = editing[e].number /\ w # NotEditing
  BY <1>2 DEF EditRecords, Holding, NotEditing
<1> HIDE DEF w
<1>4. /\ editing' \in [Editors -> EditRecords \cup {NotEditing}] /\ editing'[e] = w
      /\ \A d \in Editors : d # e => editing'[d] = editing[d]
  BY <1>1, <1>3, EditsApart DEF SettingsInv
<1>5. /\ files = editing[e].base /\ promised = editing[e].base /\ applied = editing[e].base
      /\ config = editing[e].base
  BY <1>1 DEF SettingsInv, InTurn, Holding
<1>6. files' = Edited(e) /\ Edited(e) \in SettingValues
  BY <1>1, <1>2, <1>5, WishedValues DEF Edited
<1>7. Edited(e)' = Edited(e)
  BY <1>3, <1>4 DEF Edited, Wished
<1>8. SettingsShape'
  BY <1>1, <1>4, <1>6 DEF SettingsInv, SettingsShape
<1>9. LockIsHeld'
  BY <1>1, <1>3, <1>4, PartsApart DEF SettingsInv, LockIsHeld, Holding
<1>10. \A d \in Editors : d # e => editing'[d].at \notin Holding
  BY <1>1, <1>4 DEF SettingsInv, LockIsHeld, Holding
<1>11. InTurn'
  BY <1>1, <1>3, <1>4, <1>5, <1>6, <1>7, <1>10 DEF InTurn
<1>12. NumbersFresh'
  BY <1>1, <1>2, <1>3, <1>4, NumbersKept DEF SettingsInv
<1>13. AnswersAreOwn' /\ LimitsAreOwn'
  BY <1>1 DEF SettingsInv, AnswersAreOwn, LimitsAreOwn
<1> QED
  BY <1>8, <1>9, <1>11, <1>12, <1>13 DEF SettingsInv

\* One part of the program has the update, or all of it.
LEMMA ApplyKeeps == ASSUME SettingsInv, NEW e \in Editors, Apply(e) PROVE SettingsInv'
<1> DEFINE w == [editing[e] EXCEPT !.at = IF @ = "persisted" THEN "halfway" ELSE "done"]
           part == editing[e].part
           base == editing[e].base
           new == Edited(e)
           first == editing[e].at = "persisted"
<1>1. /\ editing[e].at \in {"persisted", "halfway"} /\ part \in SettingParts
      /\ UNCHANGED <<files, configMu, promised, updates, query>>
  <2>1. editing[e].part \in {"service", "providers", "mcp"}
    BY DEF Apply, ApplyService, ApplyProviders, ApplyServers
  <2> QED
    BY <2>1 DEF Apply, ApplyService, ApplyProviders, ApplyServers, routerVars, SettingParts
<1>2. /\ editing[e] \in EditRecords /\ editing[e] # NotEditing /\ base \in SettingValues
      /\ editing[e].number \in Nat
  BY <1>1 DEF SettingsInv, SettingsShape, NotEditing, EditRecords
<1>3. /\ w \in EditRecords /\ w.at = IF first THEN "halfway" ELSE "done"
      /\ w.base = base /\ w.part = part /\ w.wish = editing[e].wish
      /\ w.number = editing[e].number /\ w # NotEditing
  BY <1>1, <1>2 DEF EditRecords, Holding, NotEditing
<1>4. editing' = [editing EXCEPT ![e] = w]
  <2>1. CASE ApplyService(e)
    BY <2>1 DEF ApplyService
  <2>2. CASE ApplyProviders(e)
    BY <2>2 DEF ApplyProviders
  <2>3. CASE ApplyServers(e)
    BY <2>3 DEF ApplyServers
  <2> QED
    BY <2>1, <2>2, <2>3 DEF Apply
<1>5. /\ new \in SettingValues /\ Put(base, part, new) = new
      /\ \A f \in SettingFields : f \notin FieldsOf(part) => new[f] = base[f]
  BY <1>2, WishedValues DEF Edited
<1>6. /\ files = new /\ promised = base
      /\ applied = IF ~first /\ part # "service" THEN new ELSE base
      /\ config = IF ~first /\ part = "service" THEN new ELSE base
  BY <1>1 DEF SettingsInv, InTurn, Holding
<1>7. /\ applied' = IF first /\ part = "service" THEN base ELSE new
      /\ config' = IF first /\ part # "service" THEN base ELSE new
  <2>1. CASE first
    BY <1>1, <1>5, <1>6, <2>1 DEF Apply, ApplyService, ApplyProviders, ApplyServers
  <2>2. CASE ~first
    BY <1>1, <1>5, <1>6, <2>2 DEF Apply, ApplyService, ApplyProviders, ApplyServers
  <2> QED
    BY <2>1, <2>2
<1>8. \/ /\ first /\ part = "providers" /\ generation' = editing[e].number
         /\ limits' = [p \in ModelProviders |-> NotConfigured]
      \/ ~(first /\ part = "providers") /\ UNCHANGED <<generation, limits>>
  BY <1>1 DEF Apply, ApplyService, ApplyProviders, ApplyServers, routerVars
<1>9. Edited(e)' = new
  <2>1. editing'[e] = w
    BY <1>3, <1>4, EditsApart DEF SettingsInv
  <2> QED
    BY <1>3, <2>1 DEF Edited, Wished
<1>10. \A p \in ModelProviders : ~(first /\ part = "providers") => applied'[p] = applied[p]
  <2> SUFFICES ASSUME NEW p \in ModelProviders, ~(first /\ part = "providers")
               PROVE  applied'[p] = applied[p]
    OBVIOUS
  <2>1. CASE part = "providers"
    BY <1>6, <1>7, <2>1
  <2>2. CASE part \in {"service", "mcp"}
    <3>1. new[p] = base[p]
      BY <1>5, <2>2, PartsApart
    <3> QED
      BY <1>6, <1>7, <3>1
  <2> QED
    BY <1>1, <2>1, <2>2 DEF SettingParts
<1> HIDE DEF w, new, part, base, first
<1>11. /\ editing' \in [Editors -> EditRecords \cup {NotEditing}] /\ editing'[e] = w
       /\ \A d \in Editors : d # e => editing'[d] = editing[d]
  BY <1>3, <1>4, EditsApart DEF SettingsInv
<1>12. SettingsShape'
  <2>1. limits' \in [ModelProviders -> Nat] /\ generation' \in Nat
    BY <1>2, <1>8 DEF SettingsInv, SettingsShape, NotConfigured
  <2>2. applied' \in SettingValues /\ config' \in SettingValues
    BY <1>2, <1>5, <1>7 DEF base
  <2> QED
    BY <1>1, <1>11, <2>1, <2>2 DEF SettingsInv, SettingsShape
<1>13. configMu = e /\ \A d \in Editors : d # e => editing'[d].at \notin Holding
  BY <1>1, <1>11 DEF SettingsInv, LockIsHeld, Holding
<1>14. LockIsHeld'
  BY <1>1, <1>3, <1>11, <1>13, PartsApart DEF LockIsHeld, Holding
<1>15. InTurn'
  <2> SUFFICES ASSUME NEW d \in Editors, editing'[d].at \in Holding
               PROVE  /\ promised' = editing'[d].base
                      /\ files' = IF editing'[d].at = "locked" THEN editing'[d].base
                                  ELSE Edited(d)'
                      /\ applied' = IF \/ editing'[d].at = "done"
                                       \/ editing'[d].at = "halfway"
                                            /\ editing'[d].part # "service"
                                    THEN Edited(d)' ELSE editing'[d].base
                      /\ config' = IF \/ editing'[d].at = "done"
                                      \/ editing'[d].at = "halfway"
                                           /\ editing'[d].part = "service"
                                   THEN Edited(d)' ELSE editing'[d].base
    BY DEF InTurn
  <2>1. d = e
    BY <1>13
  <2> QED
    BY <1>1, <1>3, <1>6, <1>7, <1>9, <1>11, <2>1
<1>16. NumbersFresh'
  <2>1. CASE ~(first /\ part = "providers")
    BY <1>1, <1>2, <1>3, <1>8, <1>11, <2>1, NumbersKept DEF SettingsInv, first
  <2>2. CASE first /\ part = "providers"
    <3>1. /\ generation' = editing[e].number /\ editing[e].number <= updates
          /\ editing[e].at = "persisted" /\ w.at = "halfway"
      BY <1>2, <1>3, <1>8, <2>2 DEF SettingsInv, NumbersFresh, first
    <3>2. \A d \in Editors : d # e /\ editing[d] # NotEditing =>
            editing[d].number # editing[e].number
      BY <1>2 DEF SettingsInv, NumbersFresh
    <3>3. \A d \in Editors : editing'[d].at \in {"asked", "locked", "persisted"} =>
            d # e /\ editing'[d] = editing[d] /\ editing[d] # NotEditing
      BY <1>11, <3>1 DEF NotEditing
    <3>4. \A d \in Editors : editing'[d].at \in {"asked", "locked", "persisted"} =>
            /\ generation' # editing'[d].number
            /\ \A q \in query' : q.of # editing'[d].number
      BY <1>1, <3>1, <3>2, <3>3 DEF SettingsInv, NumbersFresh
    <3>5. \A d \in Editors : editing'[d] # NotEditing =>
            editing[d] # NotEditing /\ editing'[d].number = editing[d].number
      BY <1>2, <1>3, <1>11
    <3> QED
      BY <1>1, <3>1, <3>4, <3>5 DEF SettingsInv, NumbersFresh
  <2> QED
    BY <2>1, <2>2
<1>17. AnswersAreOwn' /\ LimitsAreOwn'
  <2>1. CASE ~(first /\ part = "providers")
    BY <1>1, <1>8, <1>10, <2>1
       DEF SettingsInv, SettingsShape, AnswersAreOwn, LimitsAreOwn
  <2>2. CASE first /\ part = "providers"
    <3>1. \A q \in query : q.of # generation'
      BY <1>2, <1>8, <2>2 DEF SettingsInv, NumbersFresh, first
    <3> QED
      BY <1>1, <1>8, <2>2, <3>1 DEF AnswersAreOwn, LimitsAreOwn
  <2> QED
    BY <2>1, <2>2
<1> QED
  BY <1>12, <1>14, <1>15, <1>16, <1>17 DEF SettingsInv

LEMMA CatalogueKeeps ==
    ASSUME SettingsInv,
           \/ \E p \in ModelProviders : AskCatalogue(p)
           \/ \E q \in query : CatalogueAnswers(q)
    PROVE  SettingsInv'
<1>1. UNCHANGED <<config, files, applied, editing, configMu, generation, promised, updates>>
  BY DEF AskCatalogue, CatalogueAnswers, valueVars
<1>2. LockIsHeld' /\ InTurn'
  BY <1>1 DEF SettingsInv, LockIsHeld, InTurn, Edited, Wished
<1>3. ASSUME NEW p \in ModelProviders, AskCatalogue(p)
      PROVE  SettingsShape' /\ NumbersFresh' /\ AnswersAreOwn' /\ LimitsAreOwn'
  <2> DEFINE inquiry == [provider |-> p, of |-> generation, server |-> applied[p]]
  <2>1. query' = query \cup {inquiry} /\ UNCHANGED limits
    BY <1>3 DEF AskCatalogue
  <2>2. p \in SettingFields /\ applied[p] \in Nat /\ generation \in Nat
    BY PartsApart DEF SettingsInv, SettingsShape, SettingValues
  <2>3. /\ inquiry \in [provider : ModelProviders, of : Nat, server : Nat]
        /\ inquiry.of = generation /\ inquiry.server = applied[inquiry.provider]
    BY <2>2
  <2> HIDE DEF inquiry
  <2>4. SettingsShape'
    BY <1>1, <2>1, <2>3 DEF SettingsInv, SettingsShape
  <2>5. NumbersFresh'
    BY <1>1, <2>1, <2>3 DEF SettingsInv, NumbersFresh
  <2>6. AnswersAreOwn' /\ LimitsAreOwn'
    BY <1>1, <2>1, <2>3 DEF SettingsInv, AnswersAreOwn, LimitsAreOwn
  <2> QED
    BY <2>4, <2>5, <2>6
<1>4. ASSUME NEW q \in query, CatalogueAnswers(q)
      PROVE  SettingsShape' /\ NumbersFresh' /\ AnswersAreOwn' /\ LimitsAreOwn'
  <2>1. /\ query' = query \ {q}
        /\ \/ q.of = generation /\ limits' = [limits EXCEPT ![q.provider] = q.server]
           \/ UNCHANGED limits
    BY <1>4 DEF CatalogueAnswers, Learn
  <2>2. q.provider \in ModelProviders /\ q.server \in Nat
        /\ (q.of = generation => q.server = applied[q.provider])
    BY DEF SettingsInv, SettingsShape, AnswersAreOwn
  <2>3. SettingsShape'
    BY <1>1, <2>1, <2>2 DEF SettingsInv, SettingsShape
  <2>4. NumbersFresh' /\ AnswersAreOwn'
    BY <1>1, <2>1 DEF SettingsInv, NumbersFresh, AnswersAreOwn
  <2>5. LimitsAreOwn'
    BY <1>1, <2>1, <2>2 DEF SettingsInv, SettingsShape, LimitsAreOwn
  <2> QED
    BY <2>3, <2>4, <2>5
<1> QED
  BY <1>2, <1>3, <1>4 DEF SettingsInv

LEMMA SettingsRestartKeeps == ASSUME SettingsInv, RestartService PROVE SettingsInv'
<1>1. /\ config' = files /\ applied' = files /\ promised' = files /\ files' = files
      /\ editing' = [e \in Editors |-> NotEditing] /\ configMu' = NobodyHolds
      /\ generation' = updates /\ limits' = [p \in ModelProviders |-> NotConfigured]
      /\ query' = {} /\ updates' = updates
  BY DEF RestartService
<1>2. \A e \in Editors : editing'[e] = NotEditing /\ editing'[e].at = "idle"
  BY <1>1 DEF NotEditing
<1>3. SettingsShape'
  BY <1>1 DEF SettingsInv, SettingsShape, NotConfigured
<1>4. LockIsHeld' /\ InTurn'
  BY <1>1, <1>2, PartsApart DEF LockIsHeld, InTurn, Holding
<1>5. NumbersFresh'
  BY <1>1, <1>2 DEF SettingsInv, SettingsShape, NumbersFresh
<1>6. AnswersAreOwn' /\ LimitsAreOwn'
  BY <1>1 DEF AnswersAreOwn, LimitsAreOwn
<1> QED
  BY <1>3, <1>4, <1>5, <1>6 DEF SettingsInv

LEMMA SettingsInvKept == SettingsInv /\ [SettingsNext]_settingsVars => SettingsInv'
<1> SUFFICES ASSUME SettingsInv, [SettingsNext]_settingsVars PROVE SettingsInv'
  OBVIOUS
<1>1. ASSUME UNCHANGED <<config, files, applied, editing, configMu, generation, limits, query,
                         promised, updates>>
      PROVE  SettingsInv'
  BY <1>1 DEF SettingsInv, SettingsShape, LockIsHeld, InTurn, NumbersFresh, AnswersAreOwn,
              LimitsAreOwn, Edited, Wished
<1>2. CASE UNCHANGED settingsVars
  BY <1>1, <1>2 DEF settingsVars
<1>3. ASSUME NEW e \in Editors,
             \/ AskUpdate(e) \/ LockAndCopy(e) \/ Refuse(e) \/ Persist(e) \/ Apply(e)
             \/ Acknowledge(e)
      PROVE  SettingsInv'
  BY <1>3, AskKeeps, LockKeeps, RefuseKeeps, PersistKeeps, ApplyKeeps, AcknowledgeKeeps
<1>4. ASSUME NEW p \in ModelProviders, StartProviderOAuth(p) \/ SignedIn(p) PROVE SettingsInv'
  BY <1>1, <1>4 DEF StartProviderOAuth, SignedIn, valueVars, routerVars
<1> QED
  BY <1>2, <1>3, <1>4, CatalogueKeeps, SettingsRestartKeeps DEF SettingsNext

-----------------------------------------------------------------------------
(* RamDisks: a disk is one project's and leaves nothing behind.              *)

DiskRecords == [is : {"bare", "marked", "mounted", "ready"}, process : Nat,
                project : Isolated, data : SUBSET Nat]
DiskTasks == [at : {"clean", "make", "build"}, project : Isolated, disk : Disks \cup {NoDisk}]
RootWrites == [at : {"resolved"}, project : Isolated, root : Disks \cup {NoDisk}]

\* A service that runs has a number of its own; one that is down holds nothing.
ServicesApart ==
    /\ processes \in Nat
    /\ process \in [Services -> Nat] /\ \A s \in Services : process[s] <= processes
    /\ phase \in [Services -> {"down", "starting", "serving", "closing"}]
    /\ \A s, t \in Services : process[s] = process[t] /\ process[s] # 0 => s = t
    /\ \A s \in Services : process[s] = 0 <=> phase[s] = "down"
    /\ \A s \in Services : phase[s] = "down" =>
          /\ \A p \in Isolated : pool[s][p] = NoDisk
          /\ task[s] = NoStep /\ writer[s] = NoStep

DiskShape ==
    /\ \A d \in Disks : host[d] \in DiskRecords \cup {Missing, Removed}
    /\ DOMAIN host = Disks
    /\ pool \in [Services -> [Isolated -> Disks \cup {NoDisk}]]
    /\ task \in [Services -> DiskTasks \cup {NoStep}]
    /\ writer \in [Services -> RootWrites \cup {NoStep}]
    /\ dataDir \in [Services -> SUBSET Nat]

IsOf(record, nr, p) ==
    /\ record \in DiskRecords /\ record.process = nr /\ record.project = p
    /\ record.data \subseteq {nr}

\* What is in the pool is a disk of this process that carries its mark.
PoolOwned ==
    \A s \in Services : \A p \in Isolated : pool[s][p] # NoDisk =>
        IsOf(host[pool[s][p]], process[s], p) /\ host[pool[s][p]].is \in {"marked", "ready"}

\* A disk that is made is the service's own, for a project that has none.
TaskOwned ==
    \A s \in Services : task[s] # NoStep =>
        /\ pool[s][task[s].project] = NoDisk
        /\ task[s].at = "build" =>
              /\ task[s].disk \in Disks
              /\ IsOf(host[task[s].disk], process[s], task[s].project)

\* A root that was found is one of this process, or was removed since.
RootOwned ==
    \A s \in Services : writer[s] # NoStep =>
        /\ writer[s].root \in Disks /\ host[writer[s].root] # Missing
        /\ host[writer[s].root] \in DiskRecords =>
              host[writer[s].root].process \in {process[s], 0}

\* Only an older version left anything in the data directory.
DataDirClean ==
    \A s \in Services :
        dataDir[s] \subseteq {0} /\ (phase[s] = "serving" => dataDir[s] = {})

DiskInv == ServicesApart /\ DiskShape /\ PoolOwned /\ TaskOwned /\ RootOwned /\ DataDirClean

LEMMA DiskInvStarts == RamDisksInit => DiskInv
BY RamDisksAssumption
   DEF RamDisksInit, DiskInv, ServicesApart, DiskShape, PoolOwned, TaskOwned, RootOwned,
       DataDirClean, NoDisk, NoStep

LEMMA DiskInvHolds == DiskInv => IsolationOfDisks
<1> SUFFICES ASSUME DiskInv PROVE IsolationOfDisks
  OBVIOUS
<1>1. DisksInUseStay
  BY DEF DiskInv, PoolOwned, DisksInUseStay, IsOf, DiskRecords, Exists, IsMarked, Missing,
         Removed
<1>2. ASSUME NEW s \in Services PROVE dataDir[s] \subseteq {0}
  BY DEF DiskInv, DataDirClean
<1>3. ASSUME NEW s \in Services, phase[s] = "serving"
      PROVE  dataDir[s] \cup UNION {host[d].data : d \in Pooled(s)} \subseteq {process[s]}
  <2>1. \A d \in Pooled(s) : host[d].data \subseteq {process[s]}
    BY DEF DiskInv, PoolOwned, IsOf, Pooled
  <2>2. dataDir[s] = {}
    BY <1>3 DEF DiskInv, DataDirClean
  <2> QED
    BY <2>1, <2>2
<1> QED
  BY <1>1, <1>2, <1>3 DEF IsolationOfDisks, NothingReturns

\* Two services that hold the same disk are one, and it is for one project.
LEMMA HeldOnce ==
    ASSUME DiskInv, NEW s \in Services, NEW t \in Services
    PROVE  /\ \A p, q \in Isolated : pool[s][p] # NoDisk /\ pool[s][p] = pool[t][q] =>
                  s = t /\ p = q
           /\ task[s].at = "build" => \A q \in Isolated : pool[t][q] # task[s].disk
           /\ task[s].at = "build" /\ task[t].at = "build" /\ task[s].disk = task[t].disk =>
                  s = t
<1>1. ASSUME NEW p \in Isolated, pool[s][p] # NoDisk PROVE process[s] # 0
  BY <1>1 DEF DiskInv, ServicesApart
<1>2. ASSUME task[s].at = "build"
      PROVE  /\ process[s] # 0 /\ task[s].disk \in Disks /\ task[s] # NoStep
             /\ task[s].project \in Isolated
  BY <1>2 DEF DiskInv, ServicesApart, TaskOwned, DiskShape, DiskTasks, NoStep
<1>3. ASSUME NEW p \in Isolated, NEW q \in Isolated,
             pool[s][p] # NoDisk, pool[s][p] = pool[t][q]
      PROVE  s = t /\ p = q
  BY <1>1, <1>3 DEF DiskInv, PoolOwned, IsOf, ServicesApart
<1>4. ASSUME task[s].at = "build", NEW q \in Isolated, pool[t][q] = task[s].disk
      PROVE  FALSE
  <2>1. pool[t][q] # NoDisk
    BY <1>2, <1>4 DEF Disks, NoDisk
  <2>2. process[t] = process[s] /\ q = task[s].project
    BY <1>2, <1>4, <2>1 DEF DiskInv, PoolOwned, TaskOwned, IsOf
  <2> QED
    BY <1>2, <1>4, <2>1, <2>2 DEF DiskInv, ServicesApart, TaskOwned
<1>5. ASSUME task[s].at = "build", task[t].at = "build", task[s].disk = task[t].disk
      PROVE  s = t
  <2>1. process[t] = process[s]
    BY <1>5 DEF DiskInv, TaskOwned, IsOf, NoStep
  <2> QED
    BY <1>2, <1>5, <2>1 DEF DiskInv, ServicesApart
<1> QED
  BY <1>3, <1>4, <1>5

\* A step of the work on the pool that leaves the disks alone.
LEMMA PrepareKeeps ==
    ASSUME DiskInv, NEW s \in Services, NEW p \in Isolated, PrepareDisk(s, p) PROVE DiskInv'
<1> DEFINE w == [at |-> "clean", project |-> p, disk |-> NoDisk]
<1>1. /\ phase[s] # "down" /\ pool[s][p] = NoDisk /\ task' = [task EXCEPT ![s] = w]
      /\ UNCHANGED <<process, phase, processes, host, pool, writer, dataDir>>
  BY DEF PrepareDisk, serviceVars
<1>2. w \in DiskTasks /\ w.at # "build" /\ w.project = p
  BY DEF DiskTasks
<1>3. task' \in [Services -> DiskTasks \cup {NoStep}] /\ task'[s] = w
      /\ \A t \in Services : t # s => task'[t] = task[t]
  BY <1>1, <1>2 DEF DiskInv, DiskShape
<1> HIDE DEF w
<1>4. DiskShape'
  BY <1>1, <1>3 DEF DiskInv, DiskShape, DiskRecords
<1>5. ServicesApart'
  BY <1>1, <1>3 DEF DiskInv, ServicesApart
<1>6. TaskOwned'
  BY <1>1, <1>2, <1>3 DEF DiskInv, TaskOwned
<1>7. PoolOwned' /\ RootOwned' /\ DataDirClean'
  BY <1>1 DEF DiskInv, PoolOwned, RootOwned, DataDirClean
<1> QED
  BY <1>4, <1>5, <1>6, <1>7 DEF DiskInv

\* Only what no running process has made is removed.
LEMMA CleanKeeps == ASSUME DiskInv, NEW s \in Services, Clean(s) PROVE DiskInv'
<1> DEFINE w == [task[s] EXCEPT !.at = "make"]
<1>1. /\ task[s].at = "clean" /\ task' = [task EXCEPT ![s] = w]
      /\ UNCHANGED <<process, phase, processes, pool, writer, dataDir>>
  BY DEF Clean, serviceVars
<1>2. PICK spared \in SUBSET {d \in Disks : IsStale(d)} :
          host' = [d \in Disks |-> IF IsStale(d) /\ d \notin spared THEN Removed ELSE host[d]]
  BY DEF Clean
<1>3. task[s] \in DiskTasks
  BY <1>1 DEF DiskInv, DiskShape, NoStep
<1>4. w \in DiskTasks /\ w.at # "build" /\ w.project = task[s].project
  BY <1>3 DEF DiskTasks
<1>5. task' \in [Services -> DiskTasks \cup {NoStep}] /\ task'[s] = w
      /\ \A t \in Services : t # s => task'[t] = task[t]
  BY <1>1, <1>4 DEF DiskInv, DiskShape
<1> HIDE DEF w
<1>6. \A d \in Disks : host'[d] = host[d] \/ (IsStale(d) /\ host'[d] = Removed)
  BY <1>2
<1>7. DiskShape'
  BY <1>1, <1>2, <1>5 DEF DiskInv, DiskShape, DiskRecords
<1>8. ServicesApart'
  BY <1>1, <1>3, <1>5 DEF DiskInv, ServicesApart, DiskTasks, NoStep
<1>9. ASSUME NEW t \in Services, NEW p \in Isolated, NEW d \in Disks,
             IsOf(host[d], process[t], p)
      PROVE  host'[d] = host[d]
  <2>1. ~IsStale(d)
    BY <1>9 DEF IsStale, IsAlive, IsOf
  <2> QED
    BY <1>6, <2>1
<1>10. PoolOwned'
  <2> SUFFICES ASSUME NEW t \in Services, NEW p \in Isolated, pool[t][p] # NoDisk
               PROVE  /\ IsOf(host'[pool[t][p]], process[t], p)
                      /\ host'[pool[t][p]].is \in {"marked", "ready"}
    BY <1>1 DEF PoolOwned
  <2>1. pool[t][p] \in Disks
    BY DEF DiskInv, DiskShape
  <2> QED
    BY <1>9, <1>1, <2>1 DEF DiskInv, PoolOwned
<1>11. TaskOwned'
  <2> SUFFICES ASSUME NEW t \in Services, task'[t] # NoStep
               PROVE  /\ pool'[t][task'[t].project] = NoDisk
                      /\ task'[t].at = "build" =>
                            /\ task'[t].disk \in Disks
                            /\ IsOf(host'[task'[t].disk], process[t], task'[t].project)
    BY <1>1 DEF TaskOwned
  <2>1. CASE t = s
    BY <1>1, <1>3, <1>4, <1>5, <2>1 DEF DiskInv, TaskOwned, NoStep
  <2>2. CASE t # s
    <3>1. task'[t] = task[t] /\ task[t] \in DiskTasks
      BY <1>5, <2>2 DEF DiskInv, DiskShape
    <3>2. task[t].project \in Isolated
      BY <3>1 DEF DiskTasks
    <3> QED
      BY <1>1, <1>9, <3>1, <3>2 DEF DiskInv, TaskOwned
  <2> QED
    BY <2>1, <2>2
<1>12. RootOwned'
  <2> SUFFICES ASSUME NEW t \in Services, writer[t] # NoStep
               PROVE  /\ writer[t].root \in Disks /\ host'[writer[t].root] # Missing
                      /\ host'[writer[t].root] \in DiskRecords =>
                            host'[writer[t].root].process \in {process[t], 0}
    BY <1>1 DEF RootOwned, DiskRecords
  <2>1. writer[t].root \in Disks
    BY DEF DiskInv, RootOwned
  <2>2. CASE host'[writer[t].root] = host[writer[t].root]
    BY <2>1, <2>2 DEF DiskInv, RootOwned
  <2>3. CASE host'[writer[t].root] = Removed
    BY <2>1, <2>3 DEF Removed, Missing, DiskRecords
  <2> QED
    BY <1>6, <2>1, <2>2, <2>3
<1>13. DataDirClean'
  BY <1>1 DEF DiskInv, DataDirClean
<1> QED
  BY <1>7, <1>8, <1>10, <1>11, <1>12, <1>13 DEF DiskInv

\* What a step must leave for the pools, the disks that are made and the roots
\* that were found to stay their owners': those disks stay, or lose data.
LEMMA OwnersKept ==
    ASSUME DiskInv, DiskShape', UNCHANGED process,
           NEW Away \in SUBSET Disks,
           \A d \in Disks \ Away :
              \/ host'[d] = host[d]
              \/ /\ host[d] \in DiskRecords /\ host'[d] \in DiskRecords
                 /\ host'[d].process = host[d].process /\ host'[d].project = host[d].project
                 /\ host'[d].data \subseteq {host[d].process}
                 /\ host[d].is \in {"marked", "ready"} => host'[d].is \in {"marked", "ready"},
           \A d \in Away : host'[d] # Missing /\ (host'[d] \in DiskRecords => host'[d].process = 0),
           \A s \in Services, p \in Isolated : pool'[s][p] # NoDisk =>
              pool'[s][p] = pool[s][p] /\ pool'[s][p] \notin Away,
           \A s \in Services : task'[s] # NoStep =>
              /\ task'[s] = task[s] /\ pool'[s][task[s].project] = NoDisk
              /\ task[s].at = "build" => task[s].disk \notin Away,
           \A s \in Services : writer'[s] # NoStep => writer'[s] = writer[s]
    PROVE  PoolOwned' /\ TaskOwned' /\ RootOwned'
<1>1. ASSUME NEW s \in Services, NEW p \in Isolated, NEW d \in Disks \ Away,
             IsOf(host[d], process[s], p)
      PROVE  /\ IsOf(host'[d], process[s], p)
             /\ host[d].is \in {"marked", "ready"} => host'[d].is \in {"marked", "ready"}
  BY <1>1 DEF IsOf
<1>2. PoolOwned'
  <2> SUFFICES ASSUME NEW s \in Services, NEW p \in Isolated, pool'[s][p] # NoDisk
               PROVE  /\ IsOf(host'[pool'[s][p]], process[s], p)
                      /\ host'[pool'[s][p]].is \in {"marked", "ready"}
    BY DEF PoolOwned
  <2>1. pool'[s][p] = pool[s][p] /\ pool[s][p] \in Disks \ Away /\ pool[s][p] # NoDisk
    BY DEF DiskInv, DiskShape
  <2> QED
    BY <1>1, <2>1 DEF DiskInv, PoolOwned
<1>3. TaskOwned'
  <2> SUFFICES ASSUME NEW s \in Services, task'[s] # NoStep
               PROVE  /\ pool'[s][task'[s].project] = NoDisk
                      /\ task'[s].at = "build" =>
                            /\ task'[s].disk \in Disks
                            /\ IsOf(host'[task'[s].disk], process[s], task'[s].project)
    BY DEF TaskOwned
  <2>1. task'[s] = task[s] /\ task[s].project \in Isolated
    BY DEF DiskInv, DiskShape, DiskTasks
  <2>2. task[s].at = "build" =>
          task[s].disk \in Disks \ Away /\ IsOf(host[task[s].disk], process[s], task[s].project)
    BY <2>1 DEF DiskInv, TaskOwned
  <2> QED
    BY <1>1, <2>1, <2>2
<1>4. RootOwned'
  <2> SUFFICES ASSUME NEW s \in Services, writer'[s] # NoStep
               PROVE  /\ writer'[s].root \in Disks /\ host'[writer'[s].root] # Missing
                      /\ host'[writer'[s].root] \in DiskRecords =>
                            host'[writer'[s].root].process \in {process[s], 0}
    BY DEF RootOwned
  <2>1. writer'[s] = writer[s] /\ writer[s].root \in Disks /\ host[writer[s].root] # Missing
        /\ (host[writer[s].root] \in DiskRecords =>
              host[writer[s].root].process \in {process[s], 0})
    BY DEF DiskInv, RootOwned
  <2>2. CASE writer[s].root \in Away
    BY <2>1, <2>2
  <2>3. CASE writer[s].root \notin Away
    <3>1. host'[writer[s].root] \in DiskRecords => host'[writer[s].root] # Missing
      BY DEF DiskRecords, Missing
    <3> QED
      BY <2>1, <2>3, <3>1
  <2> QED
    BY <2>2, <2>3
<1> QED
  BY <1>2, <1>3, <1>4

LEMMA MakeKeeps == ASSUME DiskInv, NEW s \in Services, MakeDirectory(s) PROVE DiskInv'
<1>1. /\ task[s].at = "make"
      /\ UNCHANGED <<process, phase, processes, pool, writer, dataDir>>
  BY DEF MakeDirectory, serviceVars
<1> DEFINE r == [is |-> "bare", process |-> process[s], project |-> task[s].project,
                 data |-> {}]
<1>2. PICK d \in Disks :
        /\ host[d] = Missing /\ host' = [host EXCEPT ![d] = r]
        /\ task' = [task EXCEPT ![s].at = "build", ![s].disk = d]
  BY DEF MakeDirectory
<1>3. task[s] \in DiskTasks /\ process[s] \in Nat
  BY <1>1 DEF DiskInv, DiskShape, ServicesApart, NoStep
<1>4. r \in DiskRecords /\ IsOf(r, process[s], task[s].project) /\ r # Missing
  BY <1>3 DEF DiskRecords, DiskTasks, IsOf, Missing
<1> HIDE DEF r
<1> DEFINE w == [task[s] EXCEPT !.at = "build", !.disk = d]
<1>5. w \in DiskTasks /\ w.at = "build" /\ w.disk = d /\ w.project = task[s].project
  BY <1>3 DEF DiskTasks
<1>6. task' = [task EXCEPT ![s] = w]
  BY <1>2
<1> HIDE DEF w
<1>7. task' \in [Services -> DiskTasks \cup {NoStep}] /\ task'[s] = w
      /\ \A t \in Services : t # s => task'[t] = task[t]
  BY <1>5, <1>6 DEF DiskInv, DiskShape
<1>8. host'[d] = r /\ (\A e \in Disks : e # d => host'[e] = host[e]) /\ DOMAIN host' = Disks
  BY <1>2 DEF DiskInv, DiskShape
<1>9. DiskShape'
  BY <1>1, <1>4, <1>7, <1>8 DEF DiskInv, DiskShape
<1>10. ServicesApart'
  BY <1>1, <1>3, <1>7 DEF DiskInv, ServicesApart, DiskTasks, NoStep
<1>11. \A n, p : ~IsOf(host[d], n, p)
  BY <1>2 DEF IsOf, DiskRecords, Missing
<1>12. PoolOwned'
  <2> SUFFICES ASSUME NEW t \in Services, NEW p \in Isolated, pool[t][p] # NoDisk
               PROVE  /\ IsOf(host'[pool[t][p]], process[t], p)
                      /\ host'[pool[t][p]].is \in {"marked", "ready"}
    BY <1>1 DEF PoolOwned
  <2>1. pool[t][p] \in Disks
    BY DEF DiskInv, DiskShape
  <2> QED
    BY <1>8, <1>11, <2>1 DEF DiskInv, PoolOwned
<1>13. TaskOwned'
  <2> SUFFICES ASSUME NEW t \in Services, task'[t] # NoStep
               PROVE  /\ pool[t][task'[t].project] = NoDisk
                      /\ task'[t].at = "build" =>
                            /\ task'[t].disk \in Disks
                            /\ IsOf(host'[task'[t].disk], process[t], task'[t].project)
    BY <1>1 DEF TaskOwned
  <2>1. CASE t = s
    BY <1>1, <1>4, <1>5, <1>7, <1>8, <2>1 DEF DiskInv, TaskOwned, NoStep
  <2>2. CASE t # s
    BY <1>7, <1>8, <1>11, <2>2 DEF DiskInv, TaskOwned
  <2> QED
    BY <2>1, <2>2
<1>14. RootOwned'
  <2> SUFFICES ASSUME NEW t \in Services, writer[t] # NoStep
               PROVE  /\ writer[t].root \in Disks /\ host'[writer[t].root] # Missing
                      /\ host'[writer[t].root] \in DiskRecords =>
                            host'[writer[t].root].process \in {process[t], 0}
    BY <1>1 DEF RootOwned
  <2>1. writer[t].root # d
    BY <1>2 DEF DiskInv, RootOwned
  <2> QED
    BY <1>8, <2>1 DEF DiskInv, RootOwned
<1>15. DataDirClean'
  BY <1>1 DEF DiskInv, DataDirClean
<1> QED
  BY <1>9, <1>10, <1>12, <1>13, <1>14, <1>15 DEF DiskInv

LEMMA BuildKeeps == ASSUME DiskInv, NEW s \in Services, BuildDisk(s) PROVE DiskInv'
<1> DEFINE d == task[s].disk
           r == [host[d] EXCEPT !.is = NextIs[@]]
<1>1. /\ task[s].at = "build" /\ host[d].is \in DOMAIN NextIs
      /\ host' = [host EXCEPT ![d] = r]
      /\ UNCHANGED <<process, phase, processes, pool, task, writer, dataDir>>
  BY DEF BuildDisk, serviceVars
<1>2. d \in Disks /\ IsOf(host[d], process[s], task[s].project)
  BY <1>1 DEF DiskInv, TaskOwned, NoStep
<1>3. NextIs[host[d].is] \in {"marked", "mounted", "ready"}
  BY <1>1 DEF NextIs
<1>4. /\ r \in DiskRecords /\ r.process = host[d].process /\ r.project = host[d].project
      /\ r.data = host[d].data
  BY <1>2, <1>3 DEF IsOf, DiskRecords
<1> HIDE DEF r
<1>5. host'[d] = r /\ (\A e \in Disks : e # d => host'[e] = host[e]) /\ DOMAIN host' = Disks
  BY <1>1, <1>2 DEF DiskInv, DiskShape
<1>6. IsOf(r, process[s], task[s].project) /\ r # Missing
  BY <1>2, <1>4 DEF IsOf, DiskRecords, Missing
<1> HIDE DEF d
<1>7. DiskShape'
  BY <1>1, <1>4, <1>5 DEF DiskInv, DiskShape
<1>8. ServicesApart'
  BY <1>1 DEF DiskInv, ServicesApart
<1>9. PoolOwned'
  <2> SUFFICES ASSUME NEW t \in Services, NEW p \in Isolated, pool[t][p] # NoDisk
               PROVE  /\ IsOf(host'[pool[t][p]], process[t], p)
                      /\ host'[pool[t][p]].is \in {"marked", "ready"}
    BY <1>1 DEF PoolOwned
  <2>1. pool[t][p] \in Disks /\ pool[t][p] # d
    BY <1>1, HeldOnce DEF DiskInv, DiskShape, d
  <2> QED
    BY <1>5, <2>1 DEF DiskInv, PoolOwned
<1>10. TaskOwned'
  <2> SUFFICES ASSUME NEW t \in Services, task[t] # NoStep
               PROVE  /\ pool[t][task[t].project] = NoDisk
                      /\ task[t].at = "build" =>
                            /\ task[t].disk \in Disks
                            /\ IsOf(host'[task[t].disk], process[t], task[t].project)
    BY <1>1 DEF TaskOwned
  <2>1. CASE t = s
    BY <1>1, <1>2, <1>5, <1>6, <2>1 DEF DiskInv, TaskOwned, d
  <2>2. CASE t # s
    <3>1. task[t].at = "build" => task[t].disk # d
      BY <1>1, <2>2, HeldOnce DEF d
    <3> QED
      BY <1>5, <3>1 DEF DiskInv, TaskOwned
  <2> QED
    BY <2>1, <2>2
<1>11. RootOwned'
  BY <1>1, <1>2, <1>4, <1>5, <1>6 DEF DiskInv, RootOwned, IsOf
<1>12. DataDirClean'
  BY <1>1 DEF DiskInv, DataDirClean
<1> QED
  BY <1>7, <1>8, <1>9, <1>10, <1>11, <1>12 DEF DiskInv

LEMMA EnterKeeps == ASSUME DiskInv, NEW s \in Services, EnterPool(s) PROVE DiskInv'
<1> DEFINE d == task[s].disk
           q == task[s].project
<1>1. /\ task[s].at = "build" /\ host[d].is = "ready"
      /\ pool' = [pool EXCEPT ![s][q] = d] /\ task' = [task EXCEPT ![s] = NoStep]
      /\ UNCHANGED <<process, phase, processes, host, writer, dataDir>>
  BY DEF EnterPool, serviceVars
<1>2. /\ d \in Disks /\ IsOf(host[d], process[s], q) /\ q \in Isolated /\ process[s] # 0
      /\ phase[s] # "down"
  BY <1>1 DEF DiskInv, TaskOwned, ServicesApart, DiskShape, DiskTasks, NoStep
<1> HIDE DEF d, q
<1>3. /\ pool' \in [Services -> [Isolated -> Disks \cup {NoDisk}]] /\ pool'[s][q] = d
      /\ \A t \in Services : \A p \in Isolated : t # s \/ p # q => pool'[t][p] = pool[t][p]
  BY <1>1, <1>2 DEF DiskInv, DiskShape
<1>4. task' \in [Services -> DiskTasks \cup {NoStep}] /\ task'[s] = NoStep
      /\ \A t \in Services : t # s => task'[t] = task[t]
  BY <1>1 DEF DiskInv, DiskShape
<1>5. DiskShape'
  BY <1>1, <1>3, <1>4 DEF DiskInv, DiskShape
<1>6. ServicesApart'
  BY <1>1, <1>2, <1>3, <1>4 DEF DiskInv, ServicesApart
<1>7. PoolOwned'
  <2> SUFFICES ASSUME NEW t \in Services, NEW p \in Isolated, pool'[t][p] # NoDisk
               PROVE  /\ IsOf(host[pool'[t][p]], process[t], p)
                      /\ host[pool'[t][p]].is \in {"marked", "ready"}
    BY <1>1 DEF PoolOwned
  <2>1. CASE t = s /\ p = q
    BY <1>1, <1>2, <1>3, <2>1 DEF d
  <2>2. CASE t # s \/ p # q
    BY <1>3, <2>2 DEF DiskInv, PoolOwned
  <2> QED
    BY <2>1, <2>2
<1>8. TaskOwned'
  <2> SUFFICES ASSUME NEW t \in Services, task'[t] # NoStep
               PROVE  /\ pool'[t][task'[t].project] = NoDisk
                      /\ task'[t].at = "build" =>
                            /\ task'[t].disk \in Disks
                            /\ IsOf(host[task'[t].disk], process[t], task'[t].project)
    BY <1>1 DEF TaskOwned
  <2>1. t # s /\ task'[t] = task[t] /\ task[t].project \in Isolated
    BY <1>4 DEF DiskInv, DiskShape, DiskTasks
  <2> QED
    BY <1>3, <2>1 DEF DiskInv, TaskOwned
<1>9. RootOwned' /\ DataDirClean'
  BY <1>1 DEF DiskInv, RootOwned, DataDirClean
<1> QED
  BY <1>5, <1>6, <1>7, <1>8, <1>9 DEF DiskInv

LEMMA UndoKeeps == ASSUME DiskInv, NEW s \in Services, UndoDisk(s) PROVE DiskInv'
<1> DEFINE d == task[s].disk
<1>1. /\ task[s].at = "build" /\ task' = [task EXCEPT ![s] = NoStep]
      /\ host' = [host EXCEPT ![d] = Removed] \/ UNCHANGED host
      /\ UNCHANGED <<process, phase, processes, pool, writer, dataDir>>
  BY DEF UndoDisk, serviceVars
<1>2. d \in Disks
  BY <1>1 DEF DiskInv, TaskOwned, NoStep
<1>3. \A t \in Services : \A p \in Isolated : pool[t][p] # d
  BY <1>1, HeldOnce DEF d
<1>4. \A t \in Services : t # s /\ task[t].at = "build" => task[t].disk # d
  BY <1>1, HeldOnce DEF d
<1> HIDE DEF d
<1>5. task' \in [Services -> DiskTasks \cup {NoStep}] /\ task'[s] = NoStep
      /\ \A t \in Services : t # s => task'[t] = task[t]
  BY <1>1 DEF DiskInv, DiskShape
<1>6. host'[d] \in {host[d], Removed} /\ (\A e \in Disks : e # d => host'[e] = host[e])
      /\ DOMAIN host' = Disks
  BY <1>1, <1>2 DEF DiskInv, DiskShape
<1>7. DiskShape'
  BY <1>1, <1>5, <1>6 DEF DiskInv, DiskShape
<1>8. ServicesApart'
  BY <1>1, <1>5 DEF DiskInv, ServicesApart
<1>9. PoolOwned' /\ TaskOwned' /\ RootOwned'
  <2> DEFINE Away == IF host'[d] = host[d] THEN {} ELSE {d}
  <2>1. \A e \in Disks \ Away : host'[e] = host[e]
    BY <1>6
  <2>2. \A e \in Away : e = d /\ host'[e] = Removed
    BY <1>6
  <2>3. Removed # Missing /\ Removed \notin DiskRecords
    BY DEF Removed, Missing, DiskRecords
  <2>4. \A t \in Services : task'[t] # NoStep => t # s
    BY <1>5
  <2>5. Away \in SUBSET Disks
    BY <1>2
  <2> HIDE DEF Away
  <2>6. \A t \in Services, p \in Isolated : pool'[t][p] = pool[t][p] /\ pool'[t][p] \notin Away
    BY <1>1, <1>3, <2>2
  <2>7. \A t \in Services : task'[t] # NoStep =>
          /\ task'[t] = task[t] /\ pool'[t][task[t].project] = NoDisk
          /\ task[t].at = "build" => task[t].disk \notin Away
    BY <1>1, <1>4, <1>5, <2>2, <2>4 DEF DiskInv, TaskOwned
  <2> QED
    BY <1>1, <1>7, <2>1, <2>2, <2>3, <2>5, <2>6, <2>7, OwnersKept
<1>10. DataDirClean'
  BY <1>1 DEF DiskInv, DataDirClean
<1> QED
  BY <1>7, <1>8, <1>9, <1>10 DEF DiskInv

LEMMA ReleaseKeeps ==
    ASSUME DiskInv, NEW s \in Services, NEW p \in Isolated, Release(s, p) PROVE DiskInv'
<1> DEFINE d == pool[s][p]
           emptied == [host[d] EXCEPT !.is = "marked", !.data = {}]
<1>1. /\ phase[s] # "down" /\ d # NoDisk
      /\ \/ host' = [host EXCEPT ![d] = Removed] /\ pool' = [pool EXCEPT ![s][p] = NoDisk]
         \/ UNCHANGED <<host, pool>>
         \/ host' = [host EXCEPT ![d] = emptied] /\ UNCHANGED pool
      /\ UNCHANGED <<process, phase, processes, task, writer, dataDir>>
  BY DEF Release, serviceVars
<1>2. d \in Disks /\ IsOf(host[d], process[s], p)
  BY <1>1 DEF DiskInv, DiskShape, PoolOwned
<1>3. /\ emptied \in DiskRecords /\ emptied.process = host[d].process
      /\ emptied.project = host[d].project /\ emptied.data = {} /\ emptied.is = "marked"
  BY <1>2 DEF IsOf, DiskRecords
<1>4. \A t \in Services : \A q \in Isolated : pool[t][q] = d => t = s /\ q = p
  BY <1>1, HeldOnce DEF d
<1>5. \A t \in Services : task[t].at = "build" => task[t].disk # d
  BY <1>1, HeldOnce DEF d
<1> HIDE DEF d, emptied
<1>6. /\ pool' \in [Services -> [Isolated -> Disks \cup {NoDisk}]]
      /\ \A t \in Services : \A q \in Isolated : pool'[t][q] \in {pool[t][q], NoDisk}
  <2>1. CASE pool' = [pool EXCEPT ![s][p] = NoDisk]
    <3>1. pool'[s] = [pool[s] EXCEPT ![p] = NoDisk]
          /\ \A t \in Services : t # s => pool'[t] = pool[t]
      BY <2>1 DEF DiskInv, DiskShape
    <3> QED
      BY <2>1, <3>1 DEF DiskInv, DiskShape
  <2>2. CASE UNCHANGED pool
    BY <2>2 DEF DiskInv, DiskShape
  <2> QED
    BY <1>1, <2>1, <2>2
<1>7. /\ host'[d] \in {host[d], Removed, emptied} /\ DOMAIN host' = Disks
      /\ \A e \in Disks : e # d => host'[e] = host[e]
  BY <1>1, <1>2 DEF DiskInv, DiskShape
<1>8. DiskShape'
  BY <1>1, <1>3, <1>6, <1>7 DEF DiskInv, DiskShape
<1>9. ServicesApart'
  BY <1>1, <1>6 DEF DiskInv, ServicesApart
<1>10. Removed # Missing /\ Removed \notin DiskRecords
  BY DEF Removed, Missing, DiskRecords
<1>11. PoolOwned' /\ TaskOwned' /\ RootOwned'
  <2>0. \A t \in Services : task'[t] # NoStep =>
          /\ task'[t] = task[t] /\ pool'[t][task[t].project] = NoDisk
    <3> SUFFICES ASSUME NEW t \in Services, task[t] # NoStep
                 PROVE  pool'[t][task[t].project] = NoDisk
      BY <1>1
    <3>1. task[t].project \in Isolated
      BY DEF DiskInv, DiskShape, DiskTasks
    <3> QED
      BY <1>6, <3>1 DEF DiskInv, TaskOwned
  <2>1. CASE host' = [host EXCEPT ![d] = Removed] /\ pool' = [pool EXCEPT ![s][p] = NoDisk]
    <3>1. \A e \in Disks \ {d} : host'[e] = host[e]
      BY <1>7
    <3>2. \A t \in Services, q \in Isolated : pool'[t][q] # NoDisk =>
            pool'[t][q] = pool[t][q] /\ pool'[t][q] \notin {d}
      <4> SUFFICES ASSUME NEW t \in Services, NEW q \in Isolated, pool'[t][q] # NoDisk
                   PROVE  pool'[t][q] = pool[t][q] /\ pool[t][q] # d
        OBVIOUS
      <4>1. pool'[t][q] = pool[t][q]
        BY <1>6
      <4>2. pool'[s][p] = NoDisk
        BY <2>1 DEF DiskInv, DiskShape
      <4> QED
        BY <1>4, <4>1, <4>2
    <3>3. host'[d] = Removed
      BY <1>2, <2>1 DEF DiskInv, DiskShape
    <3>4. \A e \in {d} :
            host'[e] # Missing /\ (host'[e] \in DiskRecords => host'[e].process = 0)
      BY <1>10, <3>3
    <3>5. {d} \in SUBSET Disks
      BY <1>2
    <3>6. \A t \in Services : task'[t] # NoStep =>
            /\ task'[t] = task[t] /\ pool'[t][task[t].project] = NoDisk
            /\ task[t].at = "build" => task[t].disk \notin {d}
      BY <1>5, <2>0
    <3> QED
      BY <1>1, <1>8, <3>1, <3>2, <3>4, <3>5, <3>6, OwnersKept
  <2>2. CASE UNCHANGED pool /\ host'[d] \in {host[d], emptied}
    <3>1. \A e \in Disks \ {} :
              \/ host'[e] = host[e]
              \/ /\ host[e] \in DiskRecords /\ host'[e] \in DiskRecords
                 /\ host'[e].process = host[e].process /\ host'[e].project = host[e].project
                 /\ host'[e].data \subseteq {host[e].process}
                 /\ host[e].is \in {"marked", "ready"} => host'[e].is \in {"marked", "ready"}
      <4> SUFFICES ASSUME NEW e \in Disks, host'[e] # host[e]
                   PROVE  e = d /\ host'[d] = emptied
        BY <1>2, <1>3 DEF IsOf
      <4> QED
        BY <1>7, <2>2
    <3>2. {} \in SUBSET Disks
      OBVIOUS
    <3>3. \A t \in Services, q \in Isolated : pool'[t][q] # NoDisk =>
            pool'[t][q] = pool[t][q] /\ pool'[t][q] \notin {}
      BY <2>2
    <3>4. \A t \in Services : task'[t] # NoStep =>
            /\ task'[t] = task[t] /\ pool'[t][task[t].project] = NoDisk
            /\ task[t].at = "build" => task[t].disk \notin {}
      BY <2>0
    <3>5. \A e \in {} :
            host'[e] # Missing /\ (host'[e] \in DiskRecords => host'[e].process = 0)
      OBVIOUS
    <3>6. UNCHANGED process /\ \A t \in Services : writer'[t] # NoStep => writer'[t] = writer[t]
      BY <1>1
    <3> HIDE DEF DiskInv
    <3> QED
      BY <1>8, <3>1, <3>2, <3>3, <3>4, <3>5, <3>6, OwnersKept
  <2> QED
    BY <1>1, <1>2, <2>1, <2>2 DEF DiskInv, DiskShape
<1>12. DataDirClean'
  BY <1>1 DEF DiskInv, DataDirClean
<1> QED
  BY <1>8, <1>9, <1>11, <1>12 DEF DiskInv

LEMMA ResolveKeeps ==
    ASSUME DiskInv, NEW s \in Services, NEW p \in Isolated, ResolveRoot(s, p) PROVE DiskInv'
<1> DEFINE w == [at |-> "resolved", project |-> p, root |-> pool[s][p]]
<1>1. /\ phase[s] = "serving" /\ pool[s][p] # NoDisk /\ writer' = [writer EXCEPT ![s] = w]
      /\ UNCHANGED <<process, phase, processes, host, pool, task, dataDir>>
  BY DEF ResolveRoot, serviceVars
<1>2. /\ w \in RootWrites /\ w.root \in Disks
      /\ IsOf(host[w.root], process[s], p)
  BY <1>1 DEF DiskInv, DiskShape, PoolOwned, RootWrites
<1>3. host[w.root] # Missing /\ host[w.root].process = process[s]
  BY <1>2 DEF IsOf, DiskRecords, Missing
<1> HIDE DEF w
<1>4. writer' \in [Services -> RootWrites \cup {NoStep}] /\ writer'[s] = w
      /\ \A t \in Services : t # s => writer'[t] = writer[t]
  BY <1>1, <1>2 DEF DiskInv, DiskShape
<1>5. DiskShape'
  BY <1>1, <1>4 DEF DiskInv, DiskShape
<1>6. ServicesApart'
  BY <1>1, <1>4 DEF DiskInv, ServicesApart
<1>7. RootOwned'
  BY <1>1, <1>2, <1>3, <1>4 DEF DiskInv, RootOwned
<1>8. PoolOwned' /\ TaskOwned' /\ DataDirClean'
  BY <1>1 DEF DiskInv, PoolOwned, TaskOwned, DataDirClean
<1> QED
  BY <1>5, <1>6, <1>7, <1>8 DEF DiskInv

\* What is written on a disk that is somebody's is written by that process.
LEMMA DiskWriteKeeps == ASSUME DiskInv, NEW s \in Services, WriteRoot(s) PROVE DiskInv'
<1> DEFINE d == writer[s].root
           more == [host[d] EXCEPT !.data = @ \cup {process[s]}]
           bare == [is |-> "bare", process |-> 0, project |-> writer[s].project,
                    data |-> {process[s]}]
<1>1. writer[s] # NoStep /\ d \in Disks /\ d # NoDisk /\ host[d] # Missing
      /\ writer[s] \in RootWrites /\ process[s] \in Nat /\ process[s] # 0
  BY DEF WriteRoot, DiskInv, RootOwned, DiskShape, ServicesApart, NoStep, Disks, NoDisk
<1>2. /\ writer' = [writer EXCEPT ![s] = NoStep]
      /\ UNCHANGED <<process, phase, processes, pool, task, dataDir>>
      /\ host' = IF Exists(d) THEN [host EXCEPT ![d] = more] ELSE [host EXCEPT ![d] = bare]
  BY <1>1 DEF WriteRoot, serviceVars
<1>3. Exists(d) => /\ host[d] \in DiskRecords /\ host[d].process \in {process[s], 0}
                   /\ more \in DiskRecords /\ more.process = host[d].process
                   /\ more.project = host[d].project /\ more.is = host[d].is
                   /\ more.data = host[d].data \cup {process[s]}
  <2> SUFFICES ASSUME Exists(d) PROVE host[d] \in DiskRecords
    BY <1>1 DEF DiskInv, RootOwned, DiskRecords
  <2> QED
    BY <1>1 DEF DiskInv, DiskShape, Exists
<1>4. bare \in DiskRecords /\ bare.process = 0 /\ bare # Missing
  BY <1>1 DEF DiskRecords, RootWrites, Missing
<1>5. writer' \in [Services -> RootWrites \cup {NoStep}] /\ writer'[s] = NoStep
      /\ \A t \in Services : t # s => writer'[t] = writer[t]
  BY <1>2 DEF DiskInv, DiskShape
<1>6. Exists(d) => host[d] # Removed /\ host[d] # Missing
  BY DEF Exists
<1>7. ~Exists(d) => host[d] = Removed
  BY <1>1 DEF Exists
<1>8. \A n, p : IsOf(host[d], n, p) => Exists(d)
  BY DEF IsOf, DiskRecords, Exists, Removed, Missing
<1> HIDE DEF d, more, bare
<1>9. /\ host'[d] = IF Exists(d) THEN more ELSE bare
      /\ DOMAIN host' = Disks
      /\ \A e \in Disks : e # d => host'[e] = host[e]
  BY <1>1, <1>2 DEF DiskInv, DiskShape
<1>10. DiskShape'
  BY <1>2, <1>3, <1>4, <1>5, <1>9 DEF DiskInv, DiskShape
<1>11. ServicesApart'
  BY <1>2, <1>5 DEF DiskInv, ServicesApart
<1>12. ASSUME NEW t \in Services, NEW p, NEW e \in Disks, IsOf(host[e], process[t], p),
              process[t] # 0
       PROVE  IsOf(host'[e], process[t], p) /\ host'[e].is = host[e].is
  <2>1. CASE e # d
    BY <1>9, <1>12, <2>1
  <2>2. CASE e = d
    BY <1>3, <1>8, <1>9, <1>12, <2>2 DEF IsOf
  <2> QED
    BY <2>1, <2>2
<1>13. PoolOwned'
  <2> SUFFICES ASSUME NEW t \in Services, NEW p \in Isolated, pool[t][p] # NoDisk
               PROVE  /\ IsOf(host'[pool[t][p]], process[t], p)
                      /\ host'[pool[t][p]].is \in {"marked", "ready"}
    BY <1>2 DEF PoolOwned
  <2>1. pool[t][p] \in Disks /\ process[t] # 0
    BY DEF DiskInv, DiskShape, ServicesApart
  <2> QED
    BY <1>12, <2>1 DEF DiskInv, PoolOwned
<1>14. TaskOwned'
  <2> SUFFICES ASSUME NEW t \in Services, task[t] # NoStep
               PROVE  /\ pool[t][task[t].project] = NoDisk
                      /\ task[t].at = "build" =>
                            /\ task[t].disk \in Disks
                            /\ IsOf(host'[task[t].disk], process[t], task[t].project)
    BY <1>2 DEF TaskOwned
  <2>1. process[t] # 0
    BY DEF DiskInv, ServicesApart
  <2> QED
    BY <1>12, <2>1 DEF DiskInv, TaskOwned
<1>15. RootOwned'
  <2> SUFFICES ASSUME NEW t \in Services, writer'[t] # NoStep
               PROVE  /\ writer'[t].root \in Disks /\ host'[writer'[t].root] # Missing
                      /\ host'[writer'[t].root] \in DiskRecords =>
                            host'[writer'[t].root].process \in {process[t], 0}
    BY <1>2 DEF RootOwned
  <2>1. writer'[t] = writer[t] /\ writer[t].root \in Disks
    BY <1>5 DEF DiskInv, RootOwned
  <2>2. CASE writer[t].root # d
    BY <1>9, <2>1, <2>2, <1>5 DEF DiskInv, RootOwned
  <2>3. CASE writer[t].root = d /\ ~Exists(d)
    BY <1>4, <1>9, <2>1, <2>3
  <2>4. CASE writer[t].root = d /\ Exists(d)
    <3>1. host[d].process \in {process[t], 0}
      BY <1>3, <1>5, <2>1, <2>4 DEF DiskInv, RootOwned
    <3>2. more # Missing
      BY <1>3, <2>4 DEF DiskRecords, Missing
    <3> QED
      BY <1>3, <1>9, <2>1, <2>4, <3>1, <3>2
  <2> QED
    BY <2>2, <2>3, <2>4
<1>16. DataDirClean'
  BY <1>2 DEF DiskInv, DataDirClean
<1> QED
  BY <1>10, <1>11, <1>13, <1>14, <1>15, <1>16 DEF DiskInv

\* A new process has a number nobody has, and holds nothing yet.
LEMMA ServiceStartKeeps == ASSUME DiskInv, NEW s \in Services, StartService(s) PROVE DiskInv'
<1>1. /\ phase[s] = "down" /\ processes' = processes + 1
      /\ process' = [process EXCEPT ![s] = processes + 1]
      /\ phase' = [phase EXCEPT ![s] = "starting"]
      /\ UNCHANGED <<host, pool, task, writer, dataDir>>
  BY DEF StartService
<1>2. /\ \A p \in Isolated : pool[s][p] = NoDisk
      /\ task[s] = NoStep /\ writer[s] = NoStep /\ processes \in Nat
  BY <1>1 DEF DiskInv, ServicesApart
<1>3. /\ process' \in [Services -> Nat] /\ process'[s] = processes + 1
      /\ phase' \in [Services -> {"down", "starting", "serving", "closing"}]
      /\ phase'[s] = "starting"
      /\ \A t \in Services : t # s => process'[t] = process[t] /\ phase'[t] = phase[t]
  BY <1>1, <1>2 DEF DiskInv, ServicesApart
<1>4. ServicesApart'
  <2>1. \A t \in Services : process'[t] <= processes'
    BY <1>1, <1>2, <1>3 DEF DiskInv, ServicesApart
  <2>2. \A t, u \in Services : process'[t] = process'[u] /\ process'[t] # 0 => t = u
    <3>1. \A t \in Services : t # s => process'[t] # process'[s]
      BY <1>2, <1>3 DEF DiskInv, ServicesApart
    <3> QED
      BY <1>3, <3>1 DEF DiskInv, ServicesApart
  <2>3. \A t \in Services : process'[t] = 0 <=> phase'[t] = "down"
    BY <1>2, <1>3 DEF DiskInv, ServicesApart
  <2>4. \A t \in Services : phase'[t] = "down" =>
          /\ \A p \in Isolated : pool'[t][p] = NoDisk
          /\ task'[t] = NoStep /\ writer'[t] = NoStep
    BY <1>1, <1>3 DEF DiskInv, ServicesApart
  <2> QED
    BY <1>1, <1>2, <1>3, <2>1, <2>2, <2>3, <2>4 DEF ServicesApart
<1>5. DiskShape'
  BY <1>1 DEF DiskInv, DiskShape
<1>6. \A t \in Services : t = s \/ process'[t] = process[t]
  BY <1>3
<1>7. PoolOwned'
  BY <1>1, <1>2, <1>6 DEF DiskInv, PoolOwned
<1>8. TaskOwned'
  BY <1>1, <1>2, <1>6 DEF DiskInv, TaskOwned
<1>9. RootOwned'
  BY <1>1, <1>2, <1>6 DEF DiskInv, RootOwned
<1>10. DataDirClean'
  BY <1>1, <1>3 DEF DiskInv, DataDirClean
<1> QED
  BY <1>4, <1>5, <1>7, <1>8, <1>9, <1>10 DEF DiskInv

\* The disks of a pool are emptied, and the data directory is.
LEMMA EmptiedKeeps ==
    ASSUME DiskInv, NEW s \in Services, NEW next \in {"serving", "closing"},
           phase[s] # "down", phase' = [phase EXCEPT ![s] = next],
           dataDir' = [dataDir EXCEPT ![s] = {}], host' = Emptied(s),
           UNCHANGED <<process, processes, pool, task, writer>>
    PROVE  DiskInv'
<1>1. /\ phase' \in [Services -> {"down", "starting", "serving", "closing"}]
      /\ phase'[s] # "down" /\ \A t \in Services : t # s => phase'[t] = phase[t]
  BY DEF DiskInv, ServicesApart
<1>2. ServicesApart'
  BY <1>1 DEF DiskInv, ServicesApart
<1>3. \A d \in Disks :
         \/ host'[d] = host[d]
         \/ /\ host[d] \in DiskRecords /\ host'[d] = [host[d] EXCEPT !.data = {}]
            /\ host'[d] \in DiskRecords
  <2> SUFFICES ASSUME NEW d \in Disks, d \in Pooled(s)
               PROVE  /\ host[d] \in DiskRecords
                      /\ host'[d] = [host[d] EXCEPT !.data = {}] /\ host'[d] \in DiskRecords
    BY DEF Emptied
  <2>1. host[d] \in DiskRecords
    BY DEF Pooled, DiskInv, PoolOwned, IsOf
  <2>2. host'[d] = [host[d] EXCEPT !.data = {}]
    BY DEF Emptied
  <2> QED
    BY <2>1, <2>2 DEF DiskRecords
<1>4. DOMAIN host' = Disks
  BY DEF Emptied
<1>5. DiskShape'
  BY <1>3, <1>4 DEF DiskInv, DiskShape
<1>6. PoolOwned' /\ TaskOwned' /\ RootOwned'
  <2>1. \A d \in Disks \ {} :
          \/ host'[d] = host[d]
          \/ /\ host[d] \in DiskRecords /\ host'[d] \in DiskRecords
             /\ host'[d].process = host[d].process /\ host'[d].project = host[d].project
             /\ host'[d].data \subseteq {host[d].process}
             /\ host[d].is \in {"marked", "ready"} => host'[d].is \in {"marked", "ready"}
    BY <1>3, ZenonT(60) DEF DiskRecords
  <2>2. \A t \in Services, q \in Isolated : pool'[t][q] # NoDisk =>
          pool'[t][q] = pool[t][q] /\ pool'[t][q] \notin {}
    OBVIOUS
  <2>3. \A t \in Services : task'[t] # NoStep =>
          /\ task'[t] = task[t] /\ pool'[t][task[t].project] = NoDisk
          /\ task[t].at = "build" => task[t].disk \notin {}
    BY DEF DiskInv, TaskOwned
  <2>4. \A t \in Services : writer'[t] # NoStep => writer'[t] = writer[t]
    OBVIOUS
  <2>5. {} \in SUBSET Disks
    OBVIOUS
  <2>6. \A e \in {} :
          host'[e] # Missing /\ (host'[e] \in DiskRecords => host'[e].process = 0)
    OBVIOUS
  <2>7. UNCHANGED process
    OBVIOUS
  <2> HIDE DEF DiskInv
  <2> QED
    BY <1>5, <2>1, <2>2, <2>3, <2>4, <2>5, <2>6, <2>7, OwnersKept
<1>7. DataDirClean'
  BY <1>1 DEF DiskInv, DataDirClean, DiskShape
<1> QED
  BY <1>2, <1>5, <1>6, <1>7 DEF DiskInv

LEMMA EndsKeeps == ASSUME DiskInv, NEW s \in Services, Ends(s) PROVE DiskInv'
<1>1. /\ process' = [process EXCEPT ![s] = 0] /\ phase' = [phase EXCEPT ![s] = "down"]
      /\ pool' = [pool EXCEPT ![s] = [p \in Isolated |-> NoDisk]]
      /\ task' = [task EXCEPT ![s] = NoStep] /\ writer' = [writer EXCEPT ![s] = NoStep]
      /\ UNCHANGED <<host, dataDir, processes>>
  BY DEF Ends
<1>2. /\ process' \in [Services -> Nat] /\ process'[s] = 0
      /\ phase' \in [Services -> {"down", "starting", "serving", "closing"}]
      /\ phase'[s] = "down"
      /\ pool' \in [Services -> [Isolated -> Disks \cup {NoDisk}]]
      /\ \A p \in Isolated : pool'[s][p] = NoDisk
      /\ task' \in [Services -> DiskTasks \cup {NoStep}] /\ task'[s] = NoStep
      /\ writer' \in [Services -> RootWrites \cup {NoStep}] /\ writer'[s] = NoStep
  BY <1>1 DEF DiskInv, ServicesApart, DiskShape
<1>3. \A t \in Services : t # s =>
        /\ process'[t] = process[t] /\ phase'[t] = phase[t] /\ pool'[t] = pool[t]
        /\ task'[t] = task[t] /\ writer'[t] = writer[t]
  BY <1>1 DEF DiskInv, ServicesApart, DiskShape
<1>4. ServicesApart'
  <2>1. \A t \in Services : process'[t] <= processes'
    BY <1>1, <1>2, <1>3 DEF DiskInv, ServicesApart
  <2>2. \A t, u \in Services : process'[t] = process'[u] /\ process'[t] # 0 => t = u
    BY <1>2, <1>3 DEF DiskInv, ServicesApart
  <2>3. \A t \in Services : process'[t] = 0 <=> phase'[t] = "down"
    BY <1>2, <1>3 DEF DiskInv, ServicesApart
  <2>4. \A t \in Services : phase'[t] = "down" =>
          /\ \A p \in Isolated : pool'[t][p] = NoDisk
          /\ task'[t] = NoStep /\ writer'[t] = NoStep
    BY <1>2, <1>3 DEF DiskInv, ServicesApart
  <2> QED
    BY <1>1, <1>2, <2>1, <2>2, <2>3, <2>4 DEF DiskInv, ServicesApart
<1>5. DiskShape'
  BY <1>1, <1>2 DEF DiskInv, DiskShape
<1>6. PoolOwned'
  BY <1>1, <1>2, <1>3 DEF DiskInv, PoolOwned
<1>7. TaskOwned'
  BY <1>1, <1>2, <1>3 DEF DiskInv, TaskOwned
<1>8. RootOwned'
  BY <1>1, <1>2, <1>3 DEF DiskInv, RootOwned
<1>9. DataDirClean'
  BY <1>1, <1>2, <1>3 DEF DiskInv, DataDirClean
<1> QED
  BY <1>4, <1>5, <1>6, <1>7, <1>8, <1>9 DEF DiskInv

LEMMA DiskInvKept == DiskInv /\ [RamDisksNext]_diskVars => DiskInv'
<1> SUFFICES ASSUME DiskInv, [RamDisksNext]_diskVars PROVE DiskInv'
  OBVIOUS
<1>1. CASE UNCHANGED diskVars
  BY <1>1 DEF diskVars, DiskInv, ServicesApart, DiskShape, PoolOwned, TaskOwned, RootOwned,
              DataDirClean
<1>2. ASSUME NEW s \in Services, NEW p \in Isolated,
             PrepareDisk(s, p) \/ Release(s, p) \/ ResolveRoot(s, p)
      PROVE  DiskInv'
  BY <1>2, PrepareKeeps, ReleaseKeeps, ResolveKeeps
<1>3. ASSUME NEW s \in Services,
             \/ Clean(s) \/ MakeDirectory(s) \/ BuildDisk(s) \/ EnterPool(s)
             \/ UndoDisk(s) \/ WriteRoot(s) \/ StartService(s)
      PROVE  DiskInv'
  BY <1>3, CleanKeeps, MakeKeeps, BuildKeeps, EnterKeeps, UndoKeeps,
     DiskWriteKeeps, ServiceStartKeeps
<1>4. ASSUME NEW s \in Services, PurgeResidue(s) \/ CloseRuntime(s) PROVE DiskInv'
  <2>1. CASE PurgeResidue(s)
    BY <2>1, EmptiedKeeps DEF PurgeResidue
  <2>2. CASE CloseRuntime(s)
    BY <2>2, EmptiedKeeps DEF CloseRuntime
  <2> QED
    BY <1>4, <2>1, <2>2
<1>5. ASSUME NEW s \in Services, EndProcess(s) \/ Killed(s) PROVE DiskInv'
  BY <1>5, EndsKeeps DEF EndProcess, Killed
<1> QED
  BY <1>1, <1>2, <1>3, <1>4, <1>5 DEF RamDisksNext

-----------------------------------------------------------------------------
(* Places: nothing is left without its owner, for any workspaces, projects *)
(* and sessions, whatever deletion, mount or write fails, and whatever is  *)
(* done without startMu.                                                   *)

Spots == [in : Workspaces, project : Projects \cup {NoProject}, provider : Providers]

\* The operation that holds startMu, and what it carries from step to step.
Holders ==
    {NoOperation}
    \cup [op : {"place"}, session : Sessions, at : Spots]
    \cup [op : {"project"}, project : Projects, at : Workspaces]
    \cup [op : {"prepare"}, project : Projects]
    \cup [op : {"delete"}, todo : SUBSET Sessions, now : Sessions \cup {NoProject}, step : 1..5,
          project : Projects \cup {NoProject}]

PlaceShape ==
    /\ project \in [Projects -> Workspaces \cup {New, Gone}]
    /\ session \in [Sessions -> Spots \cup {Nowhere(New), Nowhere(Gone)}]
    /\ leaves \in [Sessions -> SUBSET {"plans", "notifications", "events", "runs"}]
    /\ running \subseteq Sessions /\ startMu \in Holders

\* A place that may be taken: the project is in the workspace, with its disk.
Kept(at) == at.project # NoProject =>
    /\ project[at.project] = at.in
    /\ at.project \in Ephemeral => at.project \in disks

\* The stores that a deletion has been through.
Passed(step) == {Steps[i] : i \in 1..(step - 1)}

\* What the holder of startMu has found is so as long as it holds it.
FoundHolds ==
    /\ startMu.op = "place" => Kept(startMu.at)
    /\ startMu.op = "project" => project[startMu.project] = New
    /\ startMu.op = "prepare" => SessionsIn(startMu.project) = {}
    /\ startMu.op = "delete" =>
         /\ \A s \in startMu.todo : IsSession(s) /\ s \notin running
         /\ SessionsIn(startMu.project) \subseteq startMu.todo \/ startMu.project = NoProject
         /\ IF startMu.now = NoProject THEN startMu.step = 1
            ELSE startMu.now \in startMu.todo /\ leaves[startMu.now] \cap Passed(startMu.step) = {}

PlaceInv == PlaceShape /\ FoundHolds /\ NothingIsOrphaned

LEMMA SpotsAreSessions ==
    /\ \A at \in Spots : at.in \notin {New, Gone}
    /\ Nowhere(New).in = New /\ Nowhere(Gone).in = Gone
    /\ Nowhere(New).project = NoProject /\ Nowhere(Gone).project = NoProject
    /\ NoProject \notin Ephemeral
BY PlacesAssumption DEF Spots, Nowhere, NoProject, New, Gone

LEMMA HolderIs ==
    ASSUME startMu \in Holders
    PROVE  /\ startMu.op = "idle" => startMu = NoOperation
           /\ startMu.op = "place" =>
                startMu \in [op : {"place"}, session : Sessions, at : Spots]
           /\ startMu.op = "project" =>
                startMu \in [op : {"project"}, project : Projects, at : Workspaces]
           /\ startMu.op = "prepare" => startMu \in [op : {"prepare"}, project : Projects]
           /\ startMu.op = "delete" =>
                startMu \in [op : {"delete"}, todo : SUBSET Sessions, now : Sessions \cup {NoProject},
                             step : 1..5, project : Projects \cup {NoProject}]
BY DEF Holders, NoOperation

LEMMA PlaceInvStarts == PlacesInit => PlaceInv
<1> SUFFICES ASSUME PlacesInit PROVE PlaceInv
  OBVIOUS
<1>1. \A s \in Sessions : session[s] \in {Nowhere(New), Nowhere(Gone)} /\ ~IsSession(s)
  BY SpotsAreSessions DEF PlacesInit, IsSession
<1>2. PlaceShape
  BY <1>1 DEF PlacesInit, PlaceShape, Holders
<1>3. FoundHolds
  BY DEF PlacesInit, FoundHolds, NoOperation
<1>4. NothingIsOrphaned
  BY <1>1 DEF PlacesInit, NothingIsOrphaned, OwnersStay, NoLeftovers
<1> QED
  BY <1>2, <1>3, <1>4 DEF PlaceInv

\* Operations that do not touch what the invariant is about.
LEMMA PlacesUntouched ==
    ASSUME PlaceInv, UNCHANGED <<project, session, leaves, running, disks, startMu>>
    PROVE  PlaceInv'
BY DEF PlaceInv, PlaceShape, FoundHolds, NothingIsOrphaned, OwnersStay, NoLeftovers, IsSession,
       SessionsIn, OnDisk, Kept, Passed

\* An operation begins; a disk may be mounted.
LEMMA PlaceBeginKeeps ==
    ASSUME PlaceInv, startMu' \in Holders, FoundHolds', disks \cap Ephemeral \subseteq disks',
           UNCHANGED <<project, session, leaves, running>>
    PROVE  PlaceInv'
BY DEF PlaceInv, PlaceShape, NothingIsOrphaned, OwnersStay, NoLeftovers, IsSession, OnDisk

LEMMA CreateSessionKeeps ==
    ASSUME PlaceInv, NEW s \in Sessions, NEW w \in Workspaces, NEW p \in Projects \cup {NoProject},
           NEW v \in Providers, BeginCreateSession(s, w, p, v) \/ BeginMoveSession(s, w, p, v)
    PROVE  PlaceInv'
<1> DEFINE at == [in |-> w, project |-> p, provider |-> v]
<1>1. /\ startMu' = [op |-> "place", session |-> s, at |-> at] /\ startMu = NoOperation
      /\ UNCHANGED <<project, session, leaves, running>>
      /\ p # NoProject => project[p] = w
      /\ disks \subseteq disks'
  BY DEF BeginCreateSession, BeginMoveSession, MayBePlaced, Prepare
<1>2. at \in Spots /\ at.in = w /\ at.project = p
  BY DEF Spots
<1>3. p \in Ephemeral => p \in disks'
  <2>1. CASE BeginCreateSession(s, w, p, v)
    BY <2>1 DEF BeginCreateSession, Prepare
  <2>2. CASE BeginMoveSession(s, w, p, v)
    <3> SUFFICES ASSUME p \in Ephemeral PROVE p \in disks'
      OBVIOUS
    <3>1. p = session[s].project /\ IsSession(s) /\ p # NoProject /\ disks' = disks
      BY <2>2, SpotsAreSessions DEF BeginMoveSession
    <3> QED
      BY <3>1 DEF PlaceInv, NothingIsOrphaned, OwnersStay, OnDisk
  <2> QED
    BY <2>1, <2>2
<1> HIDE DEF at
<1>4. startMu' \in Holders /\ startMu'.op = "place" /\ startMu'.at = at
  BY <1>1, <1>2 DEF Holders
<1>5. FoundHolds'
  BY <1>1, <1>2, <1>3, <1>4 DEF FoundHolds, Kept
<1> QED
  BY <1>1, <1>4, <1>5, PlaceBeginKeeps

LEMMA PlaceSessionKeeps == ASSUME PlaceInv, PlaceSession PROVE PlaceInv'
<1>1. /\ startMu \in [op : {"place"}, session : Sessions, at : Spots] /\ startMu' = NoOperation
      /\ UNCHANGED <<project, leaves, running, disks>>
      /\ Kept(startMu.at)
  BY HolderIs DEF PlaceSession, PlaceInv, PlaceShape, FoundHolds
<1>2. CASE UNCHANGED session
  BY <1>1, <1>2, PlaceBeginKeeps DEF Holders, FoundHolds, NoOperation
<1>3. CASE session' = [session EXCEPT ![startMu.session] = startMu.at]
  <2>1. /\ startMu.at \in Spots /\ session' \in [Sessions -> Spots \cup {Nowhere(New), Nowhere(Gone)}]
        /\ \A s \in Sessions : session'[s] = IF s = startMu.session THEN startMu.at ELSE session[s]
    BY <1>1, <1>3 DEF PlaceInv, PlaceShape
  <2>2. PlaceShape'
    BY <1>1, <2>1 DEF PlaceInv, PlaceShape, Holders
  <2>3. FoundHolds'
    BY <1>1 DEF FoundHolds, NoOperation
  <2>4. OwnersStay'
    BY <1>1, <2>1 DEF PlaceInv, NothingIsOrphaned, OwnersStay, IsSession, OnDisk, Kept
  <2>5. NoLeftovers'
    BY <1>1, <2>1, SpotsAreSessions DEF PlaceInv, NothingIsOrphaned, NoLeftovers, IsSession
  <2> QED
    BY <2>2, <2>3, <2>4, <2>5 DEF PlaceInv, NothingIsOrphaned
<1> QED
  BY <1>2, <1>3 DEF PlaceSession

LEMMA SessionRunKeeps ==
    ASSUME PlaceInv, NEW s \in Sessions,
           \/ StartSessionRun(s) \/ EndSessionRun(s)
           \/ \E store \in {"plans", "notifications"} : RunLeaves(s, store)
    PROVE  PlaceInv'
<1>1. /\ UNCHANGED <<project, session, startMu>> /\ IsSession(s) /\ disks \subseteq disks'
      /\ s \in running \/ startMu = NoOperation
      /\ running' \in {running, running \cup {s}, running \ {s}}
      /\ running' = running \cup {s} /\ s \notin running => startMu = NoOperation
      /\ leaves' \in [Sessions -> SUBSET {"plans", "notifications", "events", "runs"}]
      /\ \A r \in Sessions : r # s => leaves'[r] = leaves[r]
  BY DEF StartSessionRun, EndSessionRun, RunLeaves, Prepare, PlaceInv, PlaceShape,
         NothingIsOrphaned, NoLeftovers
<1>2. PlaceShape'
  BY <1>1 DEF PlaceInv, PlaceShape
<1>3. FoundHolds'
  <2>1. CASE startMu = NoOperation
    BY <1>1, <2>1 DEF FoundHolds, NoOperation
  <2>2. CASE s \in running
    <3>1. /\ startMu.op = "delete" => s \notin startMu.todo
          /\ running' \subseteq running
      BY <1>1, <2>2 DEF PlaceInv, FoundHolds
    <3>2. startMu.op = "delete" /\ startMu.now # NoProject =>
             startMu.now \in Sessions /\ leaves'[startMu.now] = leaves[startMu.now]
      BY <1>1, <3>1, HolderIs DEF PlaceInv, PlaceShape, FoundHolds
    <3> QED
      BY <1>1, <3>1, <3>2 DEF PlaceInv, FoundHolds, Kept, SessionsIn, IsSession, Passed
  <2> QED
    BY <1>1, <2>1, <2>2
<1>4. OwnersStay'
  BY <1>1 DEF PlaceInv, NothingIsOrphaned, OwnersStay, IsSession, OnDisk
<1>5. NoLeftovers'
  BY <1>1 DEF PlaceInv, NothingIsOrphaned, NoLeftovers, IsSession
<1> QED
  BY <1>2, <1>3, <1>4, <1>5 DEF PlaceInv, NothingIsOrphaned

LEMMA CreateProjectKeeps ==
    ASSUME PlaceInv, NEW p \in Projects, NEW w \in Workspaces, BeginCreateProject(p, w)
    PROVE  PlaceInv'
<1>1. startMu' \in Holders /\ startMu'.op = "project" /\ startMu'.project = p
  BY DEF BeginCreateProject, Holders
<1>2. FoundHolds'
  BY <1>1 DEF BeginCreateProject, FoundHolds
<1> QED
  BY <1>1, <1>2, PlaceBeginKeeps DEF BeginCreateProject

\* A project that is not there has no sessions.
LEMMA NewIsEmpty ==
    ASSUME PlaceInv, NEW p \in Projects, project[p] \in {New, Gone}
    PROVE  SessionsIn(p) = {}
BY SpotsAreSessions, PlacesAssumption
   DEF PlaceInv, PlaceShape, NothingIsOrphaned, OwnersStay, SessionsIn, IsSession, Nowhere

\* A project without sessions changes, or its disk.
LEMMA EmptyProjectKeeps ==
    ASSUME PlaceInv, NEW p \in Projects, SessionsIn(p) = {}, startMu' \in Holders, FoundHolds',
           project' \in [Projects -> Workspaces \cup {New, Gone}],
           \A q \in Projects : q # p => project'[q] = project[q],
           disks \ {p} \subseteq disks',
           UNCHANGED <<session, leaves, running>>
    PROVE  PlaceInv'
<1>1. PlaceShape'
  BY DEF PlaceInv, PlaceShape
<1>2. OwnersStay'
  <2> SUFFICES ASSUME NEW s \in Sessions, IsSession(s), session[s].project # NoProject
               PROVE  /\ project'[session[s].project] = session[s].in
                      /\ OnDisk(s) => session[s].project \in disks'
    BY DEF OwnersStay, IsSession, OnDisk
  <2>1. session[s].project \in Projects /\ session[s].project # p
    BY SpotsAreSessions DEF PlaceInv, PlaceShape, SessionsIn, Spots
  <2> QED
    BY <2>1 DEF PlaceInv, NothingIsOrphaned, OwnersStay
<1>3. NoLeftovers'
  BY DEF PlaceInv, NothingIsOrphaned, NoLeftovers, IsSession
<1> QED
  BY <1>1, <1>2, <1>3 DEF PlaceInv, NothingIsOrphaned

LEMMA WriteProjectKeeps == ASSUME PlaceInv, WriteProject PROVE PlaceInv'
<1>1. /\ startMu \in [op : {"project"}, project : Projects, at : Workspaces]
      /\ project[startMu.project] = New
      /\ UNCHANGED <<session, leaves, running, disks>>
  BY HolderIs DEF WriteProject, PlaceInv, PlaceShape, FoundHolds
<1>2. PICK p \in Projects : p = startMu.project /\ SessionsIn(p) = {}
  BY <1>1, NewIsEmpty
<1>3. \/ startMu' = NoOperation /\ UNCHANGED project
      \/ /\ project' = [project EXCEPT ![p] = startMu.at]
         /\ startMu' \in {NoOperation, [op |-> "prepare", project |-> p]}
  BY <1>2 DEF WriteProject
<1>4. project' \in [Projects -> Workspaces \cup {New, Gone}]
      /\ \A q \in Projects : q # p => project'[q] = project[q]
  BY <1>1, <1>3 DEF PlaceInv, PlaceShape
<1>5. [op |-> "prepare", project |-> p] \in Holders /\ NoOperation \in Holders
  BY DEF Holders
<1>6. startMu' \in Holders /\ (startMu' = NoOperation \/ (startMu'.op = "prepare" /\ startMu'.project = p))
  BY <1>3, <1>5
<1>7. SessionsIn(p)' = {}
  BY <1>1, <1>2 DEF SessionsIn, IsSession
<1>8. FoundHolds'
  <2>1. CASE startMu' = NoOperation
    BY <2>1 DEF FoundHolds, NoOperation
  <2>2. CASE startMu'.op = "prepare" /\ startMu'.project = p
    BY <1>7, <2>2 DEF FoundHolds
  <2> QED
    BY <1>6, <2>1, <2>2
<1> QED
  BY <1>1, <1>2, <1>4, <1>6, <1>8, EmptyProjectKeeps

LEMMA PrepareProjectKeeps == ASSUME PlaceInv, PrepareProject PROVE PlaceInv'
<1> DEFINE p == startMu.project
<1>1. /\ startMu \in [op : {"prepare"}, project : Projects] /\ SessionsIn(p) = {}
      /\ UNCHANGED <<session, leaves, running>> /\ disks \subseteq disks'
  BY HolderIs DEF PrepareProject, PlaceInv, PlaceShape, FoundHolds, Prepare
<1>2. /\ project' \in [Projects -> Workspaces \cup {New, Gone}]
      /\ \A q \in Projects : q # p => project'[q] = project[q]
  BY <1>1 DEF PrepareProject, PlaceInv, PlaceShape
<1>3. startMu' \in Holders /\ FoundHolds'
  BY DEF PrepareProject, Holders, FoundHolds, NoOperation
<1> QED
  BY <1>1, <1>2, <1>3, EmptyProjectKeeps

LEMMA DeletionBegins ==
    ASSUME PlaceInv, NEW todo \in SUBSET Sessions, NEW p \in Projects \cup {NoProject},
           \A s \in todo : IsSession(s) /\ s \notin running,
           p = NoProject \/ SessionsIn(p) \subseteq todo,
           Deleting(todo, p), UNCHANGED <<project, session, leaves, running, disks>>
    PROVE  PlaceInv'
<1>1. startMu' \in Holders /\ startMu'.op = "delete" /\ startMu'.todo = todo /\ startMu'.project = p
      /\ startMu'.now = NoProject /\ startMu'.step = 1
  BY DEF Deleting, Holders
<1>2. FoundHolds'
  BY <1>1 DEF FoundHolds, IsSession, SessionsIn
<1> QED
  BY <1>1, <1>2, PlaceBeginKeeps

LEMMA DeleteSessionKeeps ==
    ASSUME PlaceInv, NEW s \in Sessions, DeleteSessionLocked(s)
    PROVE  PlaceInv'
<1> DEFINE k == startMu.step
<1>1. /\ startMu \in [op : {"delete"}, todo : SUBSET Sessions, now : Sessions \cup {NoProject},
                      step : 1..5, project : Projects \cup {NoProject}]
      /\ s \in startMu.todo /\ startMu.now \in {NoProject, s}
      /\ UNCHANGED <<project, running, disks>>
  BY HolderIs DEF DeleteSessionLocked, PlaceInv, PlaceShape
<1>2. /\ IsSession(s) /\ \A r \in startMu.todo : IsSession(r) /\ r \notin running
      /\ SessionsIn(startMu.project) \subseteq startMu.todo \/ startMu.project = NoProject
      /\ leaves[s] \cap Passed(k) = {}
  <2>1. /\ \A r \in startMu.todo : IsSession(r) /\ r \notin running
        /\ SessionsIn(startMu.project) \subseteq startMu.todo \/ startMu.project = NoProject
        /\ IF startMu.now = NoProject THEN k = 1
           ELSE startMu.now \in startMu.todo /\ leaves[startMu.now] \cap Passed(k) = {}
    BY <1>1 DEF PlaceInv, FoundHolds
  <2>2. Passed(1) = {}
    BY DEF Passed
  <2> QED
    BY <1>1, <2>1, <2>2
<1>3. CASE UNCHANGED <<session, leaves>> /\ startMu' = NoOperation
  BY <1>1, <1>3, PlaceBeginKeeps DEF Holders, FoundHolds, NoOperation
<1>4. CASE /\ DeleteStep(s, k)
           /\ startMu' = IF k < Len(Steps)
                         THEN [startMu EXCEPT !.now = s, !.step = @ + 1]
                         ELSE [startMu EXCEPT !.now = NoProject, !.step = 1, !.todo = @ \ {s}]
  <2>1. Len(Steps) = 5 /\ Steps[5] = "session" /\ k \in 1..5
    BY <1>1 DEF Steps
  <2>2. leaves' = [leaves EXCEPT ![s] = @ \ {Steps[k]}]
        /\ session' = IF k = 5 THEN [session EXCEPT ![s] = Nowhere(Gone)] ELSE session
    BY <1>4, <2>1 DEF DeleteStep
  <2>3. /\ leaves' \in [Sessions -> SUBSET {"plans", "notifications", "events", "runs"}]
        /\ \A r \in Sessions : r # s => leaves'[r] = leaves[r]
        /\ leaves'[s] = leaves[s] \ {Steps[k]}
    BY <2>2 DEF PlaceInv, PlaceShape
  <2>4. /\ session' \in [Sessions -> Spots \cup {Nowhere(New), Nowhere(Gone)}]
        /\ \A r \in Sessions : r # s \/ k # 5 => session'[r] = session[r]
        /\ k = 5 => session'[s] = Nowhere(Gone)
    BY <2>2 DEF PlaceInv, PlaceShape
  <2>5. leaves'[s] \cap Passed(k + 1) = {}
    <3>1. Passed(k + 1) \subseteq Passed(k) \cup {Steps[k]}
      BY <2>1 DEF Passed
    <3> QED
      BY <1>2, <2>3, <3>1
  <2>6. k = 5 => leaves'[s] = {}
    <3>1. {"plans", "notifications", "events", "runs"} \subseteq Passed(5)
      <4>1. Steps[1] = "plans" /\ Steps[2] = "notifications" /\ Steps[3] = "events" /\ Steps[4] = "runs"
        BY DEF Steps
      <4>2. 1 \in 1..(5 - 1) /\ 2 \in 1..(5 - 1) /\ 3 \in 1..(5 - 1) /\ 4 \in 1..(5 - 1)
        OBVIOUS
      <4> QED
        BY <4>1, <4>2 DEF Passed
    <3> QED
      BY <1>2, <2>3, <3>1 DEF PlaceInv, PlaceShape
  <2>7. NoLeftovers'
    <3>1. s \notin running
      BY <1>1, <1>2
    <3> QED
      BY <1>1, <1>2, <2>3, <2>4, <2>6, <3>1
         DEF PlaceInv, NothingIsOrphaned, NoLeftovers, IsSession
  <2>8. \A r \in Sessions : IsSession(r)' => IsSession(r) /\ session'[r] = session[r]
    BY <2>4, SpotsAreSessions DEF IsSession
  <2>9. OwnersStay'
    BY <1>1, <2>8 DEF PlaceInv, NothingIsOrphaned, OwnersStay, OnDisk
  <2>10. CASE k < 5
    <3>1. startMu' = [startMu EXCEPT !.now = s, !.step = @ + 1]
      BY <1>4, <2>1, <2>10
    <3>2. /\ startMu'.op = "delete" /\ startMu'.now = s /\ startMu'.step = k + 1
          /\ startMu'.todo = startMu.todo /\ startMu'.project = startMu.project
          /\ startMu' \in [op : {"delete"}, todo : SUBSET Sessions, now : Sessions \cup {NoProject},
                           step : 1..5, project : Projects \cup {NoProject}]
      <4>1. k + 1 \in 1..5
        BY <2>1, <2>10
      <4> HIDE DEF k
      <4>2. startMu' = [startMu EXCEPT !.now = s, !.step = k + 1]
        BY <3>1 DEF k
      <4> QED
        BY <1>1, <4>1, <4>2
    <3>3. session' = session
      BY <2>2, <2>10
    <3>4. FoundHolds'
      <4>1. \A r \in startMu.todo : IsSession(r)' /\ r \notin running
        BY <1>2, <3>3 DEF IsSession
      <4>2. SessionsIn(startMu.project)' \subseteq startMu.todo \/ startMu.project = NoProject
        BY <1>2, <3>2, <3>3 DEF SessionsIn, IsSession
      <4>3. s # NoProject /\ leaves'[s] \cap Passed(startMu'.step) = {}
        BY <2>5, <3>2, PlacesAssumption
      <4> QED
        BY <1>1, <3>2, <4>1, <4>2, <4>3 DEF FoundHolds, Passed
    <3> QED
      BY <1>1, <2>3, <2>4, <2>7, <2>9, <3>2, <3>4 DEF PlaceInv, PlaceShape, Holders, NothingIsOrphaned
  <2>11. CASE k = 5
    <3>1. startMu' = [startMu EXCEPT !.now = NoProject, !.step = 1, !.todo = @ \ {s}]
      BY <1>4, <2>1, <2>11
    <3>2. /\ startMu'.op = "delete" /\ startMu'.now = NoProject
          /\ startMu'.step = 1 /\ startMu'.todo = startMu.todo \ {s}
          /\ startMu'.project = startMu.project
          /\ startMu' \in [op : {"delete"}, todo : SUBSET Sessions, now : Sessions \cup {NoProject},
                           step : 1..5, project : Projects \cup {NoProject}]
      <4>1. 1 \in 1..5 /\ startMu.todo \ {s} \in SUBSET Sessions
        BY <1>1
      <4> QED
        BY <1>1, <3>1, <4>1
    <3>3. ~IsSession(s)'
      BY <2>4, <2>11, SpotsAreSessions DEF IsSession
    <3>4. FoundHolds'
      <4>1. \A r \in startMu.todo \ {s} : IsSession(r)' /\ r \notin running
        BY <1>1, <1>2, <2>4 DEF IsSession
      <4>2. SessionsIn(startMu.project)' \subseteq startMu.todo \ {s} \/ startMu.project = NoProject
        BY <1>2, <2>8, <3>2, <3>3 DEF SessionsIn
      <4> QED
        BY <1>1, <3>2, <4>1, <4>2 DEF FoundHolds
    <3> QED
      BY <1>1, <2>3, <2>4, <2>7, <2>9, <3>2, <3>4 DEF PlaceInv, PlaceShape, Holders, NothingIsOrphaned
  <2> QED
    BY <2>1, <2>10, <2>11
<1> QED
  BY <1>3, <1>4 DEF DeleteSessionLocked

LEMMA EndDeleteKeeps ==
    ASSUME PlaceInv, ReleaseDisk \/ EndDelete
    PROVE  PlaceInv'
<1> DEFINE p == startMu.project
<1>1. /\ startMu \in [op : {"delete"}, todo : SUBSET Sessions, now : Sessions \cup {NoProject},
                      step : 1..5, project : Projects \cup {NoProject}]
      /\ startMu.todo = {} /\ UNCHANGED <<session, leaves, running>>
      /\ startMu' \in {startMu, NoOperation}
  BY HolderIs DEF ReleaseDisk, EndDelete, PlaceInv, PlaceShape
<1>2. startMu' \in Holders
  BY <1>1 DEF PlaceInv, PlaceShape, Holders
<1>3. SessionsIn(p) = {} \/ p = NoProject
  BY <1>1 DEF PlaceInv, FoundHolds
<1>4. /\ project' \in [Projects -> Workspaces \cup {New, Gone}]
      /\ \A q \in Projects : q # p => project'[q] = project[q]
      /\ disks \ {p} \subseteq disks'
  BY <1>1 DEF ReleaseDisk, EndDelete, PlaceInv, PlaceShape
<1>5. FoundHolds'
  <2>1. CASE startMu' = NoOperation
    BY <2>1 DEF FoundHolds, NoOperation
  <2>2. CASE startMu' = startMu
    BY <1>1, <2>2 DEF PlaceInv, FoundHolds, IsSession, SessionsIn, Passed
  <2> QED
    BY <1>1, <2>1, <2>2
<1>6. CASE p = NoProject
  <2>1. UNCHANGED project
    BY <1>6, PlacesAssumption DEF ReleaseDisk, EndDelete, PlaceInv, PlaceShape
  <2>2. disks \cap Ephemeral \subseteq disks'
    BY <1>4, <1>6, SpotsAreSessions
  <2> QED
    BY <1>1, <1>2, <1>5, <2>1, <2>2, PlaceBeginKeeps
<1>7. CASE p # NoProject
  BY <1>1, <1>2, <1>3, <1>4, <1>5, <1>7, EmptyProjectKeeps
<1> QED
  BY <1>6, <1>7

LEMMA RestartKeepsPlaces == ASSUME PlaceInv, RestartPlaces PROVE PlaceInv'
<1>1. /\ \A s \in Sessions : /\ session'[s] = IF OnDisk(s) THEN Nowhere(Gone) ELSE session[s]
                             /\ leaves'[s] = IF OnDisk(s) THEN {} ELSE leaves[s]
      /\ running' = {} /\ startMu' = NoOperation /\ UNCHANGED project
  BY DEF RestartPlaces
<1>2. PlaceShape'
  <2>1. /\ session' \in [Sessions -> Spots \cup {Nowhere(New), Nowhere(Gone)}]
        /\ leaves' \in [Sessions -> SUBSET {"plans", "notifications", "events", "runs"}]
    BY DEF RestartPlaces, PlaceInv, PlaceShape
  <2> QED
    BY <1>1, <2>1 DEF PlaceInv, PlaceShape, Holders
<1>3. FoundHolds'
  BY <1>1 DEF FoundHolds, NoOperation
<1>4. OwnersStay'
  BY <1>1, SpotsAreSessions DEF PlaceInv, NothingIsOrphaned, OwnersStay, IsSession, OnDisk
<1>5. NoLeftovers'
  BY <1>1 DEF PlaceInv, NothingIsOrphaned, NoLeftovers, IsSession
<1> QED
  BY <1>2, <1>3, <1>4, <1>5 DEF PlaceInv, NothingIsOrphaned

LEMMA PlaceInvKept == PlaceInv /\ [PlacesNext]_placeVars => PlaceInv'
<1> SUFFICES ASSUME PlaceInv, [PlacesNext]_placeVars PROVE PlaceInv'
  OBVIOUS
<1>1. CASE UNCHANGED placeVars
  BY <1>1, PlacesUntouched DEF placeVars
<1>2. CASE OperationUnlocked
  BY <1>2, PlacesUntouched
     DEF OperationUnlocked, LookAtProjects, BeginEditWorkspace, WriteWorkspace, LookAtSessions,
         DeleteWorkspace, CheckWorkspaces, CheckSessions, ReplaceProviders, locked
<1>3. CASE RestartPlaces
  BY <1>3, RestartKeepsPlaces
<1>4. CASE Operation
  <2>1. ASSUME NEW s \in Sessions, BeginDeleteSession(s) PROVE PlaceInv'
    <3>1. NoProject \in Projects \cup {NoProject} /\ {s} \in SUBSET Sessions
      OBVIOUS
    <3> QED
      BY <2>1, <3>1, DeletionBegins DEF BeginDeleteSession
  <2>2. ASSUME NEW p \in Projects, NEW force \in BOOLEAN, BeginDeleteProject(p, force)
        PROVE  PlaceInv'
    <3>1. /\ SessionsIn(p) \in SUBSET Sessions
          /\ \A s \in SessionsIn(p) : IsSession(s) /\ s \notin running
      BY <2>2 DEF BeginDeleteProject, SessionsIn
    <3> QED
      BY <2>2, <3>1, DeletionBegins DEF BeginDeleteProject
  <2> QED
    BY <1>4, <2>1, <2>2, CreateSessionKeeps, PlaceSessionKeeps, SessionRunKeeps, CreateProjectKeeps,
       WriteProjectKeeps, PrepareProjectKeeps, DeleteSessionKeeps, EndDeleteKeeps DEF Operation
<1> QED
  BY <1>1, <1>2, <1>3, <1>4 DEF PlacesNext

-----------------------------------------------------------------------------
(* The components of MCComponents together: whichever is in focus, what    *)
(* its run checks holds for every value of the constants.                  *)

\* Each component takes its own step or rests.
LEMMA FocusSteps ==
    ASSUME [ComponentsNext]_componentsVars
    PROVE  /\ [RunStoreNext]_runStoreVars /\ [DecisionsNext]_decisionVars
           /\ [ModelNext]_modelVars /\ [BackupNext]_backupVars
           /\ [QuestionNext]_questionVars /\ [QuotaNext]_quotaVars /\ [NoticesNext]_noticeVars
           /\ [StoreNext]_storeVars /\ [PlanStepsNext]_planStepVars
           /\ [MemoryNext]_memoryVars /\ [SettingsNext]_settingsVars
           /\ [RamDisksNext]_diskVars /\ [PlacesNext]_placeVars
           /\ [ContextNext]_contextVars /\ [TagsNext]_tagVars
<1>1. CASE UNCHANGED componentsVars
  BY <1>1 DEF componentsVars
<1>2. CASE ComponentsNext
  BY <1>2 DEF ComponentsNext
<1> QED
  BY <1>1, <1>2

(* Whoever is told that a decision is accepted was heard, a permanent      *)
(* approval was accepted or could not be taken back, and a question that   *)
(* was answered was open and is answered once: application/service.go,     *)
(* harness/question_coordinator.go.                                        *)
THEOREM PeopleAlwaysDecide == ComponentsSpec => []PeopleDecide
<1> DEFINE Inv == DecisionInv /\ QuestionInv
<1>1. ComponentsInit => Inv
  BY DecisionInvStarts, QuestionInvStarts DEF ComponentsInit
<1>2. Inv /\ [ComponentsNext]_componentsVars => Inv'
  BY FocusSteps, DecisionInvKept, QuestionInvKept
<1>3. Inv => PeopleDecide
  BY DEF DecisionInv, GrantHasOwner, AcceptedTakesEffect, GrantedIfAccepted, QuestionInv,
         PeopleDecide
<1> QED
  BY <1>1, <1>2, <1>3, PTL DEF ComponentsSpec

(* A run that was dropped is gone from both copies and a key has one run;  *)
(* the notices fit their limit, tell each thing once and leave nothing of  *)
(* a volatile session on the disk: adapters/filestore/runs.go,             *)
(* adapters/filestore/notifications.go.                                    *)
THEOREM RecordsAreKept == ComponentsSpec => []RecordsHold
<1> DEFINE Inv == RunStoreInv /\ NoticeInv
<1>1. ComponentsInit => Inv
  BY RunStoreInvStarts, NoticeInvStarts DEF ComponentsInit
<1>2. Inv /\ [ComponentsNext]_componentsVars => Inv'
  BY FocusSteps, RunStoreInvKept, NoticeInvKept
<1>3. Inv => RecordsHold
  BY NoticeInvHolds DEF RunStoreInv, RecordsHold
<1> QED
  BY <1>1, <1>2, <1>3, PTL DEF ComponentsSpec

(* What a run is shown is the beginning of the one answer, all of it when  *)
(* the call succeeds, within the budget; and what a redeemer is told of a  *)
(* credit is what the provider did: adapters/openaicompat,                 *)
(* harness/model_budget.go, adapters/codexauth/quota.go.                   *)
THEOREM ProviderIsAlwaysTrue == ComponentsSpec => []ProviderIsTrue
<1> DEFINE Inv == ModelInv /\ QuotaInv
<1>1. ComponentsInit => Inv
  BY ModelInvStarts, QuotaInvStarts DEF ComponentsInit
<1>2. Inv /\ [ComponentsNext]_componentsVars => Inv'
  BY FocusSteps, ModelInvKept, QuotaInvKept
<1>3. Inv => ProviderIsTrue
  BY ModelInvHolds, QuotaInvHolds DEF ProviderIsTrue
<1> QED
  BY <1>1, <1>2, <1>3, PTL DEF ComponentsSpec

(* A backend that cannot start on what a restore left was given a backup   *)
(* that is not of one piece, or something else wrote the directory, or the *)
(* restore did not end: admin_data.go, httpapi/backup.go.                  *)
THEOREM RestoredAlwaysStarts == ComponentsSpec => []RestoredStarts
<1>1. ComponentsInit => BackupInv
  BY BackupInvStarts DEF ComponentsInit
<1>2. BackupInv /\ [ComponentsNext]_componentsVars => BackupInv'
  BY FocusSteps, BackupInvKept
<1> QED
  BY <1>1, <1>2, BackupInvHolds, PTL DEF ComponentsSpec

(* Of two acknowledged entries of a session the later one has the larger   *)
(* sequence; a step of a plan is completed in its turn and on evidence, and*)
(* one plan moves at a time: adapters/filestore/session_repository.go,     *)
(* adapters/filestore/plan_repository.go, tools/native/plans/evidence.go.  *)
THEOREM PastAlwaysHolds == ComponentsSpec => []PastHolds
<1> DEFINE Inv == StoreInv /\ PlansInv
<1>1. ComponentsInit => Inv
  BY StoreInvStarts, PlansInvStarts DEF ComponentsInit
<1>2. Inv /\ [ComponentsNext]_componentsVars => Inv'
  BY FocusSteps, StoreInvKept, PlansInvKept
<1>3. Inv => PastHolds
  BY PlansInvHolds DEF StoreInv, PastHolds
<1> QED
  BY <1>1, <1>2, <1>3, PTL DEF ComponentsSpec

(* What an isolated session said is in no file and is recalled by nobody   *)
(* outside its project, and what sessions that are not isolated said it    *)
(* does not take away; of the operator's, only what lies in its own        *)
(* project's scope: adapters/filestore/memory_repository.go,               *)
(* application/memory.go.                                                  *)
THEOREM IsolationIsKept == ComponentsSpec => []IsolationKept
<1>1. ComponentsInit => MemoryInv
  BY MemoryInvStarts DEF ComponentsInit
<1>2. MemoryInv /\ [ComponentsNext]_componentsVars => MemoryInv'
  BY FocusSteps, MemoryInvKept
<1> QED
  BY <1>1, <1>2, MemoryInvHolds, PTL DEF ComponentsSpec

(* What an editor was told is set stays set until a later update, the      *)
(* program uses what the files say when none is under way, and the limits  *)
(* of a model are those of the server that answers: bootstrap/runtime.go,  *)
(* modelrouter/router.go.                                                  *)
THEOREM SettingsAlwaysHold == ComponentsSpec => []SettingsHold
<1>1. ComponentsInit => SettingsInv
  BY SettingsInvStarts DEF ComponentsInit
<1>2. SettingsInv /\ [ComponentsNext]_componentsVars => SettingsInv'
  BY FocusSteps, SettingsInvKept
<1> QED
  BY <1>1, <1>2, SettingsInvHolds, PTL DEF ComponentsSpec

(* A disk in use stays and is one project's; what an isolated project      *)
(* leaves is never in the data directory, and what is shown of it was      *)
(* written by the process that shows it: bootstrap/ramdisk_pool.go.        *)
THEOREM DisksStayIsolated == ComponentsSpec => []IsolationOfDisks
<1>1. ComponentsInit => DiskInv
  BY DiskInvStarts DEF ComponentsInit
<1>2. DiskInv /\ [ComponentsNext]_componentsVars => DiskInv'
  BY FocusSteps, DiskInvKept
<1> QED
  BY <1>1, <1>2, DiskInvHolds, PTL DEF ComponentsSpec

(* A session is never without its project, nor one on a RAM disk without   *)
(* its disk, and nothing outlives its session in another store:            *)
(* application/service.go, application/admin.go.                           *)
THEOREM NothingIsEverOrphaned == ComponentsSpec => []NothingIsOrphaned
<1>1. ComponentsInit => PlaceInv
  BY PlaceInvStarts DEF ComponentsInit
<1>2. PlaceInv /\ [ComponentsNext]_componentsVars => PlaceInv'
  BY FocusSteps, PlaceInvKept
<1>3. PlaceInv => NothingIsOrphaned
  BY DEF PlaceInv
<1> QED
  BY <1>1, <1>2, <1>3, PTL DEF ComponentsSpec

(* Whatever compactions overlap, a turn's and the user's, everything the  *)
(* user still sees reaches the model, as it is or in a summary:            *)
(* harness/context.go, harness/compaction.go.                              *)
THEOREM NothingIsForgotten == ComponentsSpec => []NothingForgotten
<1>1. ComponentsInit => ContextInv
  BY ContextStarts, ContextAssumption DEF ComponentsInit
<1>2. ContextInv /\ [ComponentsNext]_componentsVars => ContextInv'
  BY FocusSteps, ContextKept, ContextAssumption
<1> QED
  BY <1>1, <1>2, ContextRemembers, ContextAssumption, PTL DEF ComponentsSpec


(* However the text of an answer is cut into pieces, what the user saw is    *)
(* the answer and the thinking that is stored, unless its first marker       *)
(* closes thinking that nothing opened or a marker is longer than what is    *)
(* held back: openaicompat/thinking.go.                                      *)
THEOREM WhatIsShownIsStored == ComponentsSpec => []ShownAsStored
<1>1. ComponentsInit => TagsInv
  BY TagsStart DEF ComponentsInit
<1>2. TagsInv /\ [ComponentsNext]_componentsVars => TagsInv'
  BY FocusSteps, TagsKeep
<1> QED
  BY <1>1, <1>2, TagsShow, PTL DEF ComponentsSpec

-----------------------------------------------------------------------------
(* The types of the components: what their invariants leave open.          *)

PointsInto(points, file) == \A i \in 1..Len(points) : points[i] \in 1..Len(file)

StoreLimits ==
    /\ Len(lines) <= MaxLines /\ (append.at = "write" => Len(lines) < MaxLines)
    /\ breaks \in 0..MaxSessionFaults /\ PointsInto(index.records, lines)
    /\ \A r \in Readers : scan[r].at # "idle" => PointsInto(scan[r].records, lines)

LEMMA StoreTypesStart == StoreInit => StoreLimits
<1> SUFFICES ASSUME StoreInit PROVE StoreLimits
  OBVIOUS
<1>1. Len(<<>>) = 0 /\ PointsInto(<<>>, lines)
  BY EmptySeq DEF PointsInto
<1> QED
  BY <1>1, SessionBounds DEF StoreInit, StoreLimits, Idle, NoIndex

LEMMA StoreTypesKept ==
    ASSUME StoreInv, StoreLimits, [StoreNext]_storeVars
    PROVE  StoreLimits'
<1>1. /\ lines \in Seq(Nat) /\ torn \in {0, 1} /\ Len(lines) \in Nat
      /\ index \in IndexRecords /\ append \in AppendRecords
      /\ scan \in [Readers -> ScanRecords]
  BY LenProperties DEF StoreInv, StoreShape
<1>2. PointsInto(AllLines, lines)
  BY <1>1 DEF PointsInto, AllLines
<1>3. PointsInto(<<>>, lines)
  BY EmptySeq DEF PointsInto
<1>4. MaxLines \in Nat /\ MaxSessionFaults \in Nat
  BY SessionBounds
<1>5. CASE UNCHANGED storeVars
  BY <1>5 DEF storeVars, StoreLimits, PointsInto
<1>6. CASE BeginAppend
  <2>1. PointsInto(index'.records, lines)
    BY <1>2, <1>6 DEF BeginAppend, TakesNumber, StoreLimits
  <2> QED
    BY <1>6, <2>1 DEF BeginAppend, StoreLimits, PointsInto
<1>7. CASE WriteLine
  <2>1. lines' \in Seq(Nat) /\ Len(lines') = Len(lines) + 1
    BY <1>1, <1>7, AppendProperties DEF WriteLine, LineWith, Damaged, AppendRecords, Idle
  <2>2. \A points : PointsInto(points, lines) => PointsInto(points, lines')
    BY <1>1, <2>1 DEF PointsInto
  <2>3. Len(lines') <= MaxLines /\ append'.at # "write"
    BY <1>1, <1>4, <1>7, <2>1 DEF WriteLine, StoreLimits
  <2> QED
    BY <1>7, <2>2, <2>3 DEF WriteLine, StoreLimits
<1>8. CASE WriteFails \/ SyncFails
  BY <1>4, <1>8 DEF WriteFails, SyncFails, StoreFault, StoreLimits, PointsInto, Idle
<1>9. CASE NoteAppended
  <2>1. Len(lines) > 0
    BY <1>9 DEF NoteAppended, StoreInv, NextIsNew
  <2>2. index.records \in Seq(Nat)
    BY <1>1 DEF IndexRecords
  <2>3. PointsInto(Append(index.records, Len(lines)), lines)
    <3>1. PICK p, l, x : p = index.records /\ l = Len(lines) /\ x = Append(p, l)
      OBVIOUS
    <3>2. p \in Seq(Nat) /\ l \in Nat /\ l \in 1..l /\ Len(p) \in Nat
      BY <1>1, <2>1, <2>2, <3>1, LenProperties
    <3>3. Len(x) = Len(p) + 1 /\ x[Len(p) + 1] = l /\ \A i \in 1..Len(p) : x[i] = p[i]
      BY <3>1, <3>2, AppendProperties
    <3>4. \A i \in 1..Len(p) : p[i] \in 1..l
      BY <3>1 DEF StoreLimits, PointsInto
    <3>5. \A i \in 1..Len(x) : x[i] \in 1..l
      BY <3>2, <3>3, <3>4
    <3> QED
      BY <3>1, <3>5 DEF PointsInto
  <2>4. index' \in {index, NoIndex} \/ index'.records = Append(index.records, Len(lines))
    BY <1>9 DEF NoteAppended
  <2>5. PointsInto(index'.records, lines)
    <3>1. NoIndex.records = <<>>
      BY DEF NoIndex
    <3>2. PointsInto(index.records, lines)
      BY DEF StoreLimits
    <3> QED
      BY <1>3, <2>3, <2>4, <3>1, <3>2
  <2> QED
    BY <1>9, <2>5 DEF NoteAppended, StoreLimits, PointsInto, Idle
<1>10. ASSUME NEW r \in Readers, ScanLines(r) \/ StatSize(r) \/ InstallIndex(r)
       PROVE  StoreLimits'
  <2>1. UNCHANGED <<lines, append, breaks>> /\ \A q \in Readers : q # r => scan'[q] = scan[q]
    BY <1>1, <1>10 DEF ScanLines, StatSize, InstallIndex
  <2>2. scan'[r].at # "idle" => PointsInto(scan'[r].records, lines)
    BY <1>1, <1>2, <1>10 DEF ScanLines, StatSize, InstallIndex, StoreLimits, Idle
  <2>3. PointsInto(index'.records, lines)
    BY <1>10 DEF ScanLines, StatSize, InstallIndex, StoreLimits
  <2> QED
    BY <2>1, <2>2, <2>3 DEF StoreLimits, PointsInto
<1>11. CASE RestartStore
  <2>1. index' = NoIndex /\ append' = Idle /\ UNCHANGED lines /\ breaks' = breaks + 1
        /\ breaks < MaxSessionFaults /\ \A r \in Readers : scan'[r] = Idle
    BY <1>11 DEF RestartStore, StoreFault
  <2> QED
    BY <1>3, <1>4, <2>1 DEF StoreLimits, Idle, NoIndex
<1> QED
  BY <1>5, <1>6, <1>7, <1>8, <1>9, <1>10, <1>11 DEF StoreNext

LEMMA StoreTyped ==
    ASSUME StoreInv, StoreLimits
    PROVE  StoreTypeOK
BY DEF StoreInv, StoreLimits, StoreShape, StoreTypeOK, PointsInto, IndexRecords, AppendRecords,
       ScanRecords, Idle

\* RunStore.
RunStoreLimits ==
    created <= MaxStarts /\ protected \subseteq 1..created /\ storeFaults \in 0..MaxStoreFaults

LEMMA RunStoreTypesStart == RunStoreInit => RunStoreLimits
BY RunStoreAssumption DEF RunStoreInit, RunStoreLimits

LEMMA RunStoreTypesKept ==
    ASSUME RunStoreInv, RunStoreLimits, [RunStoreNext]_runStoreVars
    PROVE  RunStoreLimits'
<1>1. created \in Nat /\ MaxStarts \in Nat /\ MaxStoreFaults \in Nat
  BY RunStoreAssumption DEF RunStoreInv, RecordShape
<1>2. \A id, record, guarded :
        Saved(id, record, guarded) \/ NotSaved(id, record, guarded) => storeFaults' \in 0..MaxStoreFaults
  BY <1>1 DEF Saved, NotSaved, RunStoreLimits
<1>3. CASE UNCHANGED runStoreVars
  BY <1>3 DEF runStoreVars, RunStoreLimits
<1>4. ASSUME NEW k \in Keys \cup {NoKey}, StartKey(k) PROVE RunStoreLimits'
  <2>1. created < MaxStarts /\ created' = created + 1 /\ protected' \subseteq protected \cup {created + 1}
    BY <1>4 DEF StartKey
  <2>2. storeFaults' \in 0..MaxStoreFaults
    BY <1>2, <1>4 DEF StartKey
  <2>3. 1..created \cup {created + 1} \subseteq 1..(created + 1)
    BY <1>1
  <2> QED
    BY <1>1, <2>1, <2>2, <2>3 DEF RunStoreLimits
<1>5. ASSUME NEW id \in Ids, SaveRecord(id) \/ ReleaseRun(id) PROVE RunStoreLimits'
  BY <1>2, <1>5 DEF SaveRecord, ReleaseRun, RunStoreLimits
<1>6. CASE TakePruned \/ DeleteRuns({NoKey} \cup Keys) \/ ReloadRuns
  BY <1>1, <1>6 DEF TakePruned, DeleteRuns, ReloadRuns, RunStoreLimits
<1> QED
  BY <1>3, <1>4, <1>5, <1>6 DEF RunStoreNext

LEMMA RunStoreTyped ==
    ASSUME RunStoreInv, RunStoreLimits
    PROVE  RunStoreTypeOK
<1>1. created \in Nat /\ MaxStarts \in Nat
  BY RunStoreAssumption DEF RunStoreInv, RecordShape
<1>2. 1..created \subseteq Ids /\ created \in 0..MaxStarts
  BY <1>1 DEF Ids, RunStoreLimits
<1> QED
  BY <1>2 DEF RunStoreInv, RecordShape, FileWithin, RunStoreLimits, RunStoreTypeOK, RunRecords

\* Notifications.
LEMMA NoticesTyped ==
    ASSUME NoticeInv
    PROVE  NoticesTypeOK
BY DEF NoticeInv, NoticeShape, Well, NoticesTypeOK

\* Quota: a credit that is left has not been a reset.
QuotaLimits ==
    /\ upstream.resets + Cardinality(upstream.credits) <= MaxCredits
    /\ snapshot.resets <= upstream.resets /\ refresher \in Actors \union {"none"}

LEMMA CreditsAreFinite == ASSUME NEW C \in SUBSET CreditIds PROVE IsFiniteSet(C)
<1>1. IsFiniteSet(CreditIds)
  BY QuotaAssumption, FS_Interval DEF CreditIds
<1> QED
  BY <1>1, FS_Subset

LEMMA QuotaTypesStart == QuotaInit => QuotaLimits
<1> SUFFICES ASSUME QuotaInit PROVE QuotaLimits
  OBVIOUS
<1>1. MaxCredits \in Nat /\ Cardinality(CreditIds) = MaxCredits
  BY QuotaAssumption, FS_Interval DEF CreditIds
<1> QED
  BY <1>1 DEF QuotaInit, QuotaLimits, NoQuota

LEMMA QuotaTypesKept ==
    ASSUME QuotaInv, QuotaLimits, [QuotaNext]_quotaVars
    PROVE  QuotaLimits'
<1>1. /\ upstream \in [credits : SUBSET CreditIds, resets : Nat, served : [Redeemers -> SUBSET Nat]]
      /\ snapshot \in QuotaRecords /\ quotaWork \in [Actors -> QuotaWorks]
      /\ upstream.resets \in Nat /\ snapshot.resets \in Nat /\ NoQuota.resets = 0
  BY DEF QuotaInv, QuotaShape, QuotaRecords, NoQuota
<1>2. CASE UNCHANGED quotaVars
  BY <1>2 DEF quotaVars, QuotaLimits
<1>3. CASE TimerTicks \/ SignsOut
  BY <1>3 DEF TimerTicks, SignsOut, QuotaLimits
<1>4. snapshot' \in {snapshot, NoQuota} /\ UNCHANGED upstream /\ refresher' \in {refresher} \cup Actors \cup {"none"}
      => QuotaLimits'
  BY <1>1 DEF QuotaLimits
<1>5. ASSUME NEW a \in Actors, LocksRefresh(a) \/ ReadsUsage(a) PROVE QuotaLimits'
  BY <1>4, <1>5 DEF LocksRefresh, ReadsUsage, Unread
<1>6. ASSUME NEW a \in Actors, StoresWindows(a) PROVE QuotaLimits'
  <2>1. quotaWork[a].seen.resets <= upstream.resets
    BY <1>6 DEF StoresWindows, QuotaInv, ResetsAreSeen
  <2>2. snapshot'.resets = quotaWork[a].seen.resets /\ UNCHANGED <<upstream, refresher>>
    BY <1>1, <1>6 DEF StoresWindows, QuotaRecords
  <2> QED
    BY <2>1, <2>2 DEF QuotaLimits
<1>7. ASSUME NEW a \in Actors, StoresCredits(a) PROVE QuotaLimits'
  <2>1. UNCHANGED upstream /\ refresher' = "none" /\ snapshot'.resets \in {snapshot.resets, 0}
    BY <1>1, <1>7 DEF StoresCredits, QuotaRecords, NoQuota
  <2> QED
    BY <1>1, <2>1 DEF QuotaLimits
<1>8. ASSUME NEW a \in Redeemers, Redeems(a) \/ Picks(a) PROVE QuotaLimits'
  BY <1>4, <1>8 DEF Redeems, Picks, Unread
<1>9. ASSUME NEW a \in Redeemers, Consumes(a) PROVE QuotaLimits'
  <2>1. UNCHANGED refresher /\ snapshot' \in {snapshot, NoQuota}
    BY <1>9 DEF Consumes, Unread
  <2>2. CASE UNCHANGED upstream
    BY <1>4, <2>1, <2>2
  <2>3. CASE \E c \in upstream.credits :
               upstream' = [upstream EXCEPT !.credits = @ \ {c}, !.resets = @ + 1,
                                            !.served[a] = @ \union {c}]
    <3>1. PICK c \in upstream.credits :
               upstream' = [upstream EXCEPT !.credits = @ \ {c}, !.resets = @ + 1,
                                            !.served[a] = @ \union {c}]
      BY <2>3
    <3>2. upstream'.credits = upstream.credits \ {c} /\ upstream'.resets = upstream.resets + 1
      BY <1>1, <3>1
    <3>3. IsFiniteSet(upstream.credits)
      BY <1>1, CreditsAreFinite
    <3>4. PICK C : C = upstream.credits
      OBVIOUS
    <3>5. c \in C /\ IsFiniteSet(C)
      BY <3>3, <3>4
    <3>6. Cardinality(C \ {c}) = Cardinality(C) - 1 /\ Cardinality(C) \in Nat
      BY <3>5, FS_RemoveElement, FS_CardinalityType
    <3> QED
      BY <1>1, <2>1, <3>2, <3>4, <3>6 DEF QuotaLimits
  <2>4. UNCHANGED upstream
        \/ \E c \in upstream.credits :
               upstream' = [upstream EXCEPT !.credits = @ \ {c}, !.resets = @ + 1,
                                            !.served[a] = @ \union {c}]
    <3>1. \A said \in AccountSays(a) : said[1] = "reset" => said[2] \in upstream.credits
      BY DEF AccountSays
    <3> QED
      BY <1>9, <3>1 DEF Consumes
  <2> QED
    BY <2>2, <2>3, <2>4
<1> QED
  BY <1>2, <1>3, <1>5, <1>6, <1>7, <1>8, <1>9 DEF QuotaNext

LEMMA QuotaTyped ==
    ASSUME QuotaInv, QuotaLimits
    PROVE  QuotaTypeOK
<1>1. upstream.credits \subseteq CreditIds /\ upstream.resets \in Nat /\ snapshot \in QuotaRecords
  BY DEF QuotaInv, QuotaShape
<1>2. IsFiniteSet(upstream.credits)
  BY <1>1, CreditsAreFinite
<1>3. upstream.resets \in 0..MaxCredits /\ snapshot.resets \in 0..MaxCredits
  BY <1>1, <1>2, FS_CardinalityType, QuotaAssumption DEF QuotaLimits, QuotaRecords
<1> QED
  BY <1>1, <1>3 DEF QuotaInv, QuotaShape, QuotaLimits, QuotaTypeOK, QuotaRecords, QuotaWorks,
                    QuotaStages, QuotaOutcomes

\* Backup: what is in a directory names what may be there.
SomeFolders == UNION {[F -> Spaces] : F \in SUBSET Folders}
SomeTalks   == UNION {[T -> Spaces \X (Folders \cup {None})] : T \in SUBSET Talks}

BackupLimits ==
    /\ disk \in Contents /\ archive \in Contents
    /\ kept.workspaces \subseteq Spaces /\ kept.projects \in SomeFolders
    /\ writes \in 0..MaxWrites /\ restores \in 0..MaxRestores

LEMMA SomeAre ==
    /\ \A f : f \in SomeFolders <=> DOMAIN f \subseteq Folders /\ f \in [DOMAIN f -> Spaces]
    /\ \A f : f \in SomeTalks <=> DOMAIN f \subseteq Talks
                                  /\ f \in [DOMAIN f -> Spaces \X (Folders \cup {None})]
BY DEF SomeFolders, SomeTalks

LEMMA ContentsAre == Contents = [workspaces : SUBSET Spaces, projects : SomeFolders, sessions : SomeTalks]
BY DEF Contents, SomeFolders, SomeTalks

LEMMA ContentsParts ==
    /\ <<>> \in SomeFolders /\ <<>> \in SomeTalks /\ First \in Spaces
    /\ \A f \in SomeFolders, p \in Folders, w \in Spaces : Including(f, p, w) \in SomeFolders
    /\ \A f \in SomeFolders, p \in Folders : Excluding(f, p) \in SomeFolders
    /\ \A f \in SomeTalks, t \in Talks, w \in Spaces, p \in Folders \cup {None} :
          Including(f, t, <<w, p>>) \in SomeTalks
    /\ \A f \in SomeTalks, t \in Talks : Excluding(f, t) \in SomeTalks
<1>1. <<>> \in SomeFolders /\ <<>> \in SomeTalks
  <2>1. DOMAIN <<>> = {} /\ \A S : <<>> \in [{} -> S]
    OBVIOUS
  <2> QED
    BY <2>1, SomeAre
<1>2. First \in Spaces
  BY BackupBounds DEF First
<1>3. ASSUME NEW f \in SomeFolders, NEW p \in Folders, NEW w \in Spaces
      PROVE  Including(f, p, w) \in SomeFolders /\ Excluding(f, p) \in SomeFolders
  BY <1>3, SomeAre DEF Including, Excluding
<1>4. ASSUME NEW f \in SomeTalks, NEW t \in Talks, NEW v \in Spaces \X (Folders \cup {None})
      PROVE  Including(f, t, v) \in SomeTalks /\ Excluding(f, t) \in SomeTalks
  BY <1>4, SomeAre DEF Including, Excluding
<1>5. \A w \in Spaces, p \in Folders \cup {None} : <<w, p>> \in Spaces \X (Folders \cup {None})
  OBVIOUS
<1>6. \A f \in SomeTalks, t \in Talks, w \in Spaces, p \in Folders \cup {None} :
        Including(f, t, <<w, p>>) \in SomeTalks
  BY <1>4, <1>5
<1>7. \A f \in SomeFolders, p \in Folders : Excluding(f, p) \in SomeFolders
  BY <1>2, <1>3
<1>8. \A f \in SomeTalks, t \in Talks : Excluding(f, t) \in SomeTalks
  BY <1>2, <1>4, <1>5
<1> QED
  BY <1>1, <1>2, <1>3, <1>6, <1>7, <1>8

LEMMA ContentsFields ==
    ASSUME NEW d \in Contents
    PROVE  /\ d.workspaces \subseteq Spaces /\ d.projects \in SomeFolders /\ d.sessions \in SomeTalks
           /\ \A ws \in SUBSET Spaces : [d EXCEPT !.workspaces = ws] \in Contents
           /\ \A ps \in SomeFolders : [d EXCEPT !.projects = ps] \in Contents
           /\ \A ts \in SomeTalks : [d EXCEPT !.sessions = ts] \in Contents
BY ContentsAre

LEMMA NoDataTyped == NoData \in Contents /\ [NoData EXCEPT !.workspaces = {First}] \in Contents
<1>1. NoData \in Contents
  BY ContentsAre, ContentsParts DEF NoData
<1> QED
  BY <1>1, ContentsFields, ContentsParts

LEMMA BackupTypesStart == BackupInit => BackupLimits
BY NoDataTyped, ContentsParts, BackupBounds DEF BackupInit, BackupLimits

LEMMA TalksJoin ==
    ASSUME NEW d \in Contents, NEW e \in Contents
    PROVE  [t \in DOMAIN d.sessions \cup DOMAIN e.sessions |->
              IF t \in DOMAIN e.sessions THEN e.sessions[t] ELSE d.sessions[t]] \in SomeTalks
<1>1. PICK f, g : f = d.sessions /\ g = e.sessions
  OBVIOUS
<1>2. f \in SomeTalks /\ g \in SomeTalks
  BY <1>1, ContentsFields
<1>3. [t \in DOMAIN f \cup DOMAIN g |-> IF t \in DOMAIN g THEN g[t] ELSE f[t]] \in SomeTalks
  BY <1>2, SomeAre
<1> QED
  BY <1>1, <1>3

LEMMA BackupTypesKept ==
    ASSUME BackupInv, BackupLimits, [BackupNext]_backupVars
    PROVE  BackupLimits'
<1>1. {MaxWrites, MaxRestores} \subseteq Nat /\ disk \in Contents /\ archive \in Contents
  BY BackupBounds DEF BackupLimits
<1>2. kept \in [workspaces : SUBSET Spaces, projects : SomeFolders]
  <2>1. kept = [workspaces |-> kept.workspaces, projects |-> kept.projects]
    BY DEF BackupInv, BackupShape
  <2> QED
    BY <2>1 DEF BackupLimits
<1>3. \A removes \in BOOLEAN : Changes(removes) =>
        UNCHANGED <<archive, restores>> /\ writes' \in 0..MaxWrites
  BY <1>1 DEF Changes, BackupLimits
<1>4. CASE UNCHANGED backupVars
  BY <1>4 DEF backupVars, BackupLimits
<1>5. \A ws \in SUBSET Spaces : SaveSpaces(ws) =>
        disk' \in Contents /\ kept' \in [workspaces : SUBSET Spaces, projects : SomeFolders]
  BY <1>1, <1>2, ContentsFields DEF SaveSpaces
<1>6. \A ps \in SomeFolders : SaveFolders(ps) =>
        disk' \in Contents /\ kept' \in [workspaces : SUBSET Spaces, projects : SomeFolders]
  BY <1>1, <1>2, ContentsFields DEF SaveFolders
<1>7. (/\ archive' \in Contents /\ restores' \in 0..MaxRestores /\ writes' \in 0..MaxWrites
       /\ disk' \in Contents /\ kept' \in [workspaces : SUBSET Spaces, projects : SomeFolders])
      => BackupLimits'
  BY DEF BackupLimits
<1>8. /\ archive \in Contents /\ restores \in 0..MaxRestores /\ writes \in 0..MaxWrites
      /\ kept.workspaces \subseteq Spaces /\ kept.projects \in SomeFolders /\ TRUE \in BOOLEAN /\ FALSE \in BOOLEAN
  BY DEF BackupLimits
<1>9. ASSUME NEW w \in Spaces, AddSpace(w) \/ RemoveSpace(w) PROVE BackupLimits'
  <2>1. kept.workspaces \cup {w} \in SUBSET Spaces /\ kept.workspaces \ {w} \in SUBSET Spaces
    BY <1>8
  <2> QED
    BY <1>3, <1>5, <1>7, <1>8, <1>9, <2>1 DEF AddSpace, RemoveSpace
<1>10. ASSUME NEW p \in Folders, RemoveFolder(p) \/ \E w \in Spaces : AddFolder(p, w) PROVE BackupLimits'
  <2>1. Excluding(kept.projects, p) \in SomeFolders
        /\ \A w \in Spaces : Including(kept.projects, p, w) \in SomeFolders
    BY <1>8, ContentsParts
  <2>2. disk' \in Contents /\ kept' \in [workspaces : SUBSET Spaces, projects : SomeFolders]
    BY <1>6, <1>10, <2>1 DEF AddFolder, RemoveFolder
  <2>3. Changes(TRUE) \/ Changes(FALSE)
    BY <1>10 DEF AddFolder, RemoveFolder
  <2> QED
    BY <1>3, <1>7, <1>8, <2>2, <2>3
<1>11. ASSUME NEW t \in Talks,
              RemoveTalk(t) \/ \E w \in Spaces, p \in Folders \cup {None} : AddTalk(t, w, p)
       PROVE  BackupLimits'
  <2>1. disk.sessions \in SomeTalks
    BY <1>1, ContentsFields
  <2>2. \E ts \in SomeTalks : disk' = [disk EXCEPT !.sessions = ts]
    <3>1. CASE RemoveTalk(t)
      BY <2>1, <3>1, ContentsParts DEF RemoveTalk
    <3>2. ASSUME NEW w \in Spaces, NEW p \in Folders \cup {None}, AddTalk(t, w, p)
          PROVE  \E ts \in SomeTalks : disk' = [disk EXCEPT !.sessions = ts]
      BY <2>1, <3>2, ContentsParts DEF AddTalk
    <3> QED
      BY <1>11, <3>1, <3>2
  <2>3. disk' \in Contents
    BY <1>1, <2>2, ContentsFields
  <2>4. UNCHANGED kept /\ (Changes(TRUE) \/ Changes(FALSE))
    BY <1>11 DEF AddTalk, RemoveTalk
  <2> QED
    BY <1>2, <1>3, <1>7, <1>8, <2>3, <2>4
<1>12. CASE BeginBackup \/ BeginRestore \/ HaltRestore \/ StopService
  BY <1>1, <1>2, <1>7, <1>8, <1>12, NoDataTyped
     DEF BeginBackup, BeginRestore, HaltRestore, StopService
<1>13. CASE Copy
  <2>1. Head(walk) \in {"sessions", "projects", "workspaces"}
    BY <1>13, TurnsGoOn DEF Copy, BackupInv, BackupShape, Turns
  <2>2. archive' \in Contents
    BY <1>1, <1>13, <2>1, ContentsFields DEF Copy
  <2> QED
    BY <1>1, <1>2, <1>7, <1>8, <1>13, <2>2 DEF Copy
<1>14. CASE Unpack
  <2>1. Head(unpack) \in {"sessions", "projects", "workspaces"}
    BY <1>14, TurnsGoOn DEF Unpack, BackupInv, BackupShape, Turns
  <2>2. Unpacked("sessions") \in SomeTalks
    BY <1>1, TalksJoin DEF Unpacked
  <2>3. Unpacked("projects") \in SomeFolders /\ Unpacked("workspaces") \subseteq Spaces
    BY <1>1, ContentsFields DEF Unpacked
  <2>4. disk' \in Contents
    BY <1>1, <1>14, <2>1, <2>2, <2>3, ContentsFields DEF Unpack
  <2> QED
    BY <1>1, <1>2, <1>7, <1>8, <1>14, <2>4 DEF Unpack
<1>15. CASE EmptyDirectory
  BY <1>1, <1>2, <1>7, <1>8, <1>15, NoDataTyped DEF EmptyDirectory
<1>16. CASE StartBackend
  BY <1>1, <1>2, <1>7, <1>8, <1>16, ContentsFields DEF StartBackend
<1> QED
  BY <1>4, <1>9, <1>10, <1>11, <1>12, <1>13, <1>14, <1>15, <1>16 DEF BackupNext

LEMMA BackupTyped ==
    ASSUME BackupInv, BackupLimits
    PROVE  BackupTypeOK
<1>1. DOMAIN disk = {"workspaces", "projects", "sessions"}
  BY ContentsAre DEF BackupLimits
<1>2. walk \in Seq(DOMAIN disk) /\ unpack \in Seq(DOMAIN disk)
  <2>1. PICK D : D = DOMAIN disk
    OBVIOUS
  <2>2. "workspaces" \in D /\ "projects" \in D /\ "sessions" \in D
    BY <1>1, <2>1
  <2>3. <<>> \in Seq(D) /\ <<"workspaces">> \in Seq(D) /\ <<"projects", "workspaces">> \in Seq(D)
        /\ <<"sessions", "projects", "workspaces">> \in Seq(D)
    BY <2>2
  <2>4. \A x \in Turns : x \in Seq(D)
    BY <2>3 DEF Turns, Rest1, Rest2, Directories
  <2> QED
    BY <2>1, <2>4 DEF BackupInv, BackupShape
<1>3. DOMAIN kept.projects \subseteq Folders
  BY SomeAre DEF BackupLimits
<1> QED
  BY <1>2, <1>3 DEF BackupInv, BackupShape, BackupLimits, BackupTypeOK

\* PlanSteps: the plans of a session have names of their own and steps within
\* the bound; to write the file in a form changes neither.
Listed(ps) ==
    /\ \A i \in DOMAIN ps : Len(ps[i].steps) <= MaxPlanSteps
    /\ \A i, j \in DOMAIN ps : ps[i].id = ps[j].id => i = j

PlansLimits ==
    /\ Listed(plans) /\ Len(toolLog) <= MaxToolResults
    /\ {atWork, stale} \subseteq BOOLEAN
    /\ planOp \in PlanOps /\ listing \in {"none", "locked", "unlocked"}

LEMMA SameListed ==
    ASSUME NEW ps, NEW qs, Listed(ps), DOMAIN qs = DOMAIN ps,
           \A i \in DOMAIN ps : qs[i].id = ps[i].id /\ qs[i].steps = ps[i].steps
    PROVE  Listed(qs)
BY DEF Listed

LEMMA FormsListed ==
    ASSUME NEW ps \in Seq(Sound), Listed(ps)
    PROVE  Listed(InQueue(ps)) /\ Listed(InParallel(ps))
<1>1. \A i \in DOMAIN ps : ps[i] \in PlanRecords
  BY DEF Sound
<1>2. \A status : \A p \in PlanRecords :
        [p EXCEPT !.status = status].id = p.id /\ [p EXCEPT !.status = status].steps = p.steps
  BY DEF PlanRecords
<1>3. /\ DOMAIN InQueue(ps) = DOMAIN ps
      /\ \A i \in DOMAIN ps : InQueue(ps)[i].id = ps[i].id /\ InQueue(ps)[i].steps = ps[i].steps
  BY <1>1, <1>2 DEF InQueue
<1>4. /\ DOMAIN InParallel(ps) = DOMAIN ps
      /\ \A i \in DOMAIN ps : InParallel(ps)[i].id = ps[i].id /\ InParallel(ps)[i].steps = ps[i].steps
  BY <1>1, <1>2 DEF InParallel
<1>5. Listed(InQueue(ps))
  BY <1>3, SameListed
<1>6. Listed(InParallel(ps))
  BY <1>4, SameListed
<1> QED
  BY <1>5, <1>6

LEMMA PlansTypesStart == PlanStepsInit => PlansLimits
<1> SUFFICES ASSUME PlanStepsInit PROVE PlansLimits
  OBVIOUS
<1>1. Len(<<>>) = 0 /\ DOMAIN <<>> = {}
  OBVIOUS
<1>2. Listed(plans)
  BY <1>1 DEF PlanStepsInit, Listed
<1>3. Len(toolLog) <= MaxToolResults
  BY <1>1, PlanStepBounds DEF PlanStepsInit
<1>4. atWork \in BOOLEAN /\ stale \in BOOLEAN /\ planOp = "idle" /\ listing = "none"
  BY DEF PlanStepsInit
<1> QED
  BY <1>2, <1>3, <1>4 DEF PlansLimits, PlanOps

\* What an operation of the user writes.
LEMMA OneIsListed ==
    ASSUME PlansInv, PlansLimits, NEW i \in DOMAIN plans, NEW p,
           p.id = plans[i].id, Len(p.steps) <= MaxPlanSteps
    PROVE  Listed([plans EXCEPT ![i] = p])
BY DEF PlansLimits, Listed

LEMMA NewPlanIs ==
    ASSUME NEW id, NEW n \in 1..MaxPlanSteps
    PROVE  NewPlan(id, n).id = id /\ Len(NewPlan(id, n).steps) <= MaxPlanSteps
<1>1. NewPlan(id, n).id = id /\ NewPlan(id, n).steps = [s \in 1..n |-> NewStep]
  BY DEF NewPlan
<1>2. [s \in 1..n |-> NewStep] \in [1..n -> {NewStep}] /\ n \in Nat /\ MaxPlanSteps \in Nat
  BY PlanStepBounds
<1>3. Len([s \in 1..n |-> NewStep]) = n
  BY <1>2
<1> QED
  BY <1>1, <1>2, <1>3

LEMMA AddedIsListed ==
    ASSUME PlansInv, PlansLimits, NEW id \in PlanNames, NEW n \in 1..MaxPlanSteps,
           \A i \in DOMAIN plans : plans[i].id # id
    PROVE  Listed(Append(plans, NewPlan(id, n)))
<1>1. PICK p : p = NewPlan(id, n)
  OBVIOUS
<1>2. p.id = id /\ Len(p.steps) <= MaxPlanSteps
  BY <1>1, NewPlanIs
<1>3. plans \in Seq(Sound)
  BY DEF PlansInv
<1>4. PICK m \in Nat : m = Len(plans) /\ DOMAIN plans = 1..m
  BY <1>3
<1>5. DOMAIN Append(plans, p) = 1..(m + 1) /\ Append(plans, p)[m + 1] = p
      /\ \A i \in 1..m : Append(plans, p)[i] = plans[i]
  BY <1>3, <1>4
<1>6. PICK x : x = Append(plans, p)
  OBVIOUS
<1>7. Listed(x)
  BY <1>2, <1>4, <1>5, <1>6 DEF PlansLimits, Listed
<1> QED
  BY <1>1, <1>6, <1>7

LEMMA RemovedIsListed ==
    ASSUME PlansInv, PlansLimits, NEW i \in DOMAIN plans
    PROVE  Listed(RemoveAt(plans, i))
<1>1. plans \in Seq(Sound)
  BY DEF PlansInv
<1>2. PICK m \in Nat : m = Len(plans) /\ DOMAIN plans = 1..m
  BY <1>1
<1>3. i \in 1..m
  BY <1>2
<1>4. PICK front, back : front = SubSeq(plans, 1, i - 1) /\ back = SubSeq(plans, i + 1, m)
  OBVIOUS
<1>5. /\ front \in Seq(Sound) /\ Len(front) = i - 1
      /\ \A j \in 1..(i - 1) : front[j] = plans[j]
  BY <1>1, <1>2, <1>3, <1>4, SubSeqProperties
<1>6. /\ back \in Seq(Sound) /\ Len(back) = m - i
      /\ \A j \in 1..(m - i) : back[j] = plans[i + j]
  <2>1. back \in Seq(Sound) /\ Len(back) = m - i
    BY <1>1, <1>2, <1>3, <1>4, SubSeqProperties
  <2>2. \A j \in 1..(m - i) : back[j] = plans[i + 1 + j - 1]
    BY <1>1, <1>2, <1>3, <1>4, SubSeqProperties
  <2>3. \A j \in 1..(m - i) : i + 1 + j - 1 = i + j
    BY <1>3
  <2> QED
    BY <2>1, <2>2, <2>3
<1>7. PICK x : x = front \o back
  OBVIOUS
<1>8. /\ DOMAIN x = 1..(m - 1) /\ \A j \in 1..(i - 1) : x[j] = plans[j]
      /\ \A j \in i..(m - 1) : x[j] = plans[j + 1]
  <2>1. x \in Seq(Sound) /\ Len(x) = m - 1
    <3>1. x \in Seq(Sound) /\ Len(x) = Len(front) + Len(back)
      BY <1>5, <1>6, <1>7, ConcatProperties
    <3> QED
      BY <1>3, <1>5, <1>6, <3>1
  <2>2. \A j \in 1..(i - 1) : x[j] = front[j]
    BY <1>3, <1>5, <1>6, <1>7, ConcatProperties
  <2>3. \A j \in i..(m - 1) : x[j] = back[j - (i - 1)]
    BY <1>3, <1>5, <1>6, <1>7, ConcatProperties
  <2>4. ASSUME NEW j \in i..(m - 1) PROVE x[j] = plans[j + 1]
    <3>1. PICK k : k = j - (i - 1)
      OBVIOUS
    <3>2. k \in 1..(m - i) /\ i + k = j + 1
      BY <1>3, <3>1
    <3> QED
      BY <1>6, <2>3, <3>1, <3>2
  <2> QED
    BY <1>5, <2>1, <2>2, <2>4
<1>9. \A j \in DOMAIN x : \E k \in 1..m : x[j] = plans[k] /\ k = (IF j < i THEN j ELSE j + 1)
  BY <1>3, <1>8
<1>10. Listed(x)
  <2>1. \A j \in DOMAIN x : Len(x[j].steps) <= MaxPlanSteps
    BY <1>2, <1>9 DEF PlansLimits, Listed
  <2>2. ASSUME NEW j \in DOMAIN x, NEW k \in DOMAIN x, x[j].id = x[k].id PROVE j = k
    <3>1. PICK a \in 1..m : x[j] = plans[a] /\ a = (IF j < i THEN j ELSE j + 1)
      BY <1>9
    <3>2. PICK b \in 1..m : x[k] = plans[b] /\ b = (IF k < i THEN k ELSE k + 1)
      BY <1>9
    <3>3. a = b
      BY <1>2, <2>2, <3>1, <3>2 DEF PlansLimits, Listed
    <3> QED
      BY <1>3, <1>8, <3>1, <3>2, <3>3
  <2> QED
    BY <2>1, <2>2 DEF Listed
<1> QED
  BY <1>2, <1>4, <1>7, <1>10 DEF RemoveAt

LEMMA ReorderedIsListed ==
    ASSUME PlansInv, PlansLimits, NEW o \in Orders, Reorder(o)
    PROVE  Listed(plans')
<1> DEFINE before  == IF lockPlans THEN plans ELSE InParallel(plans)
           ordered == [i \in DOMAIN plans |-> before[o[i]]]
<1>1. plans' = IF lockPlans THEN InQueue(ordered) ELSE InParallel(ordered)
  BY DEF Reorder
<1>2. /\ plans \in Seq(Sound) /\ before \in Seq(Sound)
      /\ DOMAIN before = DOMAIN plans /\ DOMAIN plans = 1..Len(plans)
      /\ Len(plans) \in Nat
  BY ParallelForm DEF PlansInv, InParallel
<1>3. Listed(before)
  BY <1>2, FormsListed DEF PlansLimits
<1> HIDE DEF before
<1>4. \A i \in 1..Len(plans) : o[i] \in 1..Len(plans)
  BY <1>2 DEF Orders
<1>5. ordered \in Seq(Sound)
  <2>1. \A i \in 1..Len(plans) : before[o[i]] \in Sound
    BY <1>2, <1>4
  <2>2. ordered \in [1..Len(plans) -> Sound]
    BY <1>2, <2>1
  <2> QED
    BY <1>2, <2>2
<1>6. Listed(ordered)
  <2>1. \A i, j \in DOMAIN plans : o[i] = o[j] => i = j
    BY DEF Orders
  <2>2. DOMAIN ordered = DOMAIN plans /\ \A i \in DOMAIN plans : ordered[i] = before[o[i]]
    OBVIOUS
  <2> HIDE DEF ordered
  <2> QED
    BY <1>2, <1>3, <1>4, <2>1, <2>2, SMTT(30) DEF Listed
<1> HIDE DEF ordered
<1> QED
  BY <1>1, <1>5, <1>6, FormsListed

LEMMA OperationIsListed ==
    ASSUME PlansInv, PlansLimits, UserOperation
    PROVE  Listed(plans') /\ planOp' = "finish" /\ stale' = FALSE
           /\ UNCHANGED <<toolLog, atWork, listing>>
<1>1. plans \in Seq(Sound) /\ Listed(plans)
  BY DEF PlansInv, PlansLimits
<1>2. \A n \in 1..MaxPlanSteps, id \in PlanNames : NewPlan(id, n) \in Sound
  BY NewIsSound
<1>3. ASSUME NEW id \in PlanNames, NEW n \in 1..MaxPlanSteps, Create(id, n)
      PROVE  Listed(plans') /\ planOp' = "finish" /\ stale' = FALSE
             /\ UNCHANGED <<toolLog, atWork, listing>>
  <2>1. Listed(Append(plans, NewPlan(id, n)))
    BY <1>3, AddedIsListed DEF Create
  <2>2. Append(plans, NewPlan(id, n)) \in Seq(Sound)
    BY <1>1, <1>2
  <2> QED
    BY <1>3, <2>1, <2>2, FormsListed DEF Create, AddPlan, WriteQueue, Changing
<1>4. ASSUME NEW i \in DOMAIN plans, NEW n \in 1..MaxPlanSteps, Rebuild(i, n)
      PROVE  Listed(plans') /\ planOp' = "finish" /\ stale' = FALSE
             /\ UNCHANGED <<toolLog, atWork, listing>>
  <2>1. PICK p : p = NewPlan(plans[i].id, n)
    OBVIOUS
  <2>2. plans[i].id \in PlanNames
    BY <1>1 DEF Sound, PlanRecords
  <2>3. p \in Sound /\ p.id = plans[i].id /\ Len(p.steps) <= MaxPlanSteps
    BY <1>2, <2>1, <2>2, NewPlanIs
  <2>4. Listed([plans EXCEPT ![i] = p])
    BY <2>3, OneIsListed
  <2>5. [plans EXCEPT ![i] = p] \in Seq(Sound)
    BY <1>1, <2>3
  <2> QED
    BY <1>4, <2>1, <2>4, <2>5, FormsListed DEF Rebuild, Mutate, WriteQueue, Changing
<1>5. ASSUME NEW i \in DOMAIN plans, RemovePlan(i)
      PROVE  Listed(plans') /\ planOp' = "finish" /\ stale' = FALSE
             /\ UNCHANGED <<toolLog, atWork, listing>>
  <2>1. Listed(RemoveAt(plans, i))
    BY RemovedIsListed
  <2>2. RemoveAt(plans, i) \in Seq(Sound)
    <3>1. i \in 1..Len(plans) /\ Len(plans) \in Nat
      BY <1>1
    <3>2. SubSeq(plans, 1, i - 1) \in Seq(Sound) /\ SubSeq(plans, i + 1, Len(plans)) \in Seq(Sound)
      BY <1>1, <3>1, SubSeqProperties
    <3> QED
      BY <3>2, ConcatProperties DEF RemoveAt
  <2> QED
    BY <1>5, <2>1, <2>2, FormsListed DEF RemovePlan, WriteQueue, Changing
<1>6. ASSUME NEW n \in 1..MaxPlanSteps, PutPlan(n)
      PROVE  (\E id \in PlanNames : Create(id, n)) \/ (\E i \in DOMAIN plans : Rebuild(i, n))
  BY <1>6, CompatibleIsOne DEF PutPlan
<1>7. DeletePlan => \E i \in DOMAIN plans : RemovePlan(i)
  BY CompatibleIsOne DEF DeletePlan
<1>8. ASSUME NEW o \in Orders, Reorder(o)
      PROVE  Listed(plans') /\ planOp' = "finish" /\ stale' = FALSE
             /\ UNCHANGED <<toolLog, atWork, listing>>
  BY <1>8, ReorderedIsListed DEF Reorder, Changing
<1> QED
  BY <1>3, <1>4, <1>5, <1>6, <1>7, <1>8 DEF UserOperation

LEMMA PlansTypesKept ==
    ASSUME PlansInv, PlansLimits, [PlanStepsNext]_planStepVars
    PROVE  PlansLimits'
<1>1. plans \in Seq(Sound) /\ Listed(plans) /\ toolLog \in Seq(ToolResults) /\ lockPlans \in BOOLEAN
  BY DEF PlansInv, PlansLimits
<1>2. \A lock \in BOOLEAN : Reconcile(lock) => Listed(plans') /\ stale' \in BOOLEAN
  BY <1>1, FormsListed DEF Reconcile
<1>3. ASSUME Listed(plans'), UNCHANGED toolLog, atWork' \in BOOLEAN, stale' \in BOOLEAN,
             planOp' \in PlanOps, listing' \in {"none", "locked", "unlocked"}
      PROVE  PlansLimits'
  BY <1>3 DEF PlansLimits, Listed, PlanOps
<1>4. /\ atWork \in BOOLEAN /\ stale \in BOOLEAN /\ planOp \in PlanOps
      /\ listing \in {"none", "locked", "unlocked"}
      /\ {"idle", "begin", "user", "tool", "finish"} \subseteq PlanOps
  BY DEF PlansLimits, PlanOps
<1>5. CASE UNCHANGED planStepVars
  BY <1>1, <1>3, <1>4, <1>5 DEF planStepVars, Listed
<1>6. CASE PreparePlans \/ Finish \/ ListReconciles \/ BeginPlanRun \/ RunReconciles
  <2>1. Listed(plans') /\ stale' \in BOOLEAN
    BY <1>1, <1>2, <1>6 DEF PreparePlans, Finish, ListReconciles, BeginPlanRun, RunReconciles
  <2> QED
    BY <1>3, <1>4, <1>6, <2>1
       DEF PreparePlans, Finish, ListReconciles, BeginPlanRun, RunReconciles
<1>7. CASE UserOperation
  BY <1>3, <1>4, <1>7, OperationIsListed
<1>8. CASE GiveUpPlans \/ ListPlans \/ StartPlanRun \/ EndPlanRun \/ StopPlans
  <2>1. Listed(plans')
    BY <1>1, <1>8 DEF GiveUpPlans, ListPlans, StartPlanRun, EndPlanRun, StopPlans, Listed
  <2> QED
    BY <1>3, <1>4, <1>8, <2>1 DEF GiveUpPlans, ListPlans, StartPlanRun, EndPlanRun, StopPlans
<1>9. CASE \E lock \in BOOLEAN : SetLock(lock)
  <2>1. Listed(plans')
    BY <1>1, <1>9 DEF SetLock, Listed
  <2> QED
    BY <1>3, <1>4, <1>9, <2>1 DEF SetLock
<1>10. ASSUME NEW result \in ToolResults, ToolEnds(result) PROVE PlansLimits'
  <2>1. Len(toolLog') = Len(toolLog) + 1 /\ Len(toolLog) < MaxToolResults /\ Len(toolLog) \in Nat
    BY <1>1, <1>10 DEF ToolEnds
  <2>2. Len(toolLog') <= MaxToolResults
    BY <2>1, PlanStepBounds
  <2> QED
    BY <1>10, <2>2 DEF ToolEnds, PlansLimits, Listed, PlanOps
<1>11. ASSUME NEW i \in DOMAIN plans, NEW s \in DOMAIN plans[i].steps, NEW to \in StepStatus,
              NEW ids \in SUBSET DOMAIN toolLog, UpdateStep(i, s, to, ids)
       PROVE  PlansLimits'
  <2>1. plans[i] \in Sound
    BY <1>1
  <2>2. plans[i] \in PlanRecords /\ plans[i].steps \in Seq(StepRecords)
    BY <2>1 DEF Sound, PlanRecords
  <2>3. PICK steps : steps = [plans[i].steps EXCEPT ![s] = Moved(plans[i].steps[s], to, ids)]
    OBVIOUS
  <2>4. PICK p : p = Judged(plans[i], steps)
    OBVIOUS
  <2>5. p.id = plans[i].id /\ p.steps = steps
    BY <2>2, <2>4 DEF Judged, PlanRecords
  <2>6. Len(steps) = Len(plans[i].steps)
    BY <2>2, <2>3
  <2>7. Len(p.steps) <= MaxPlanSteps
    BY <1>1, <2>5, <2>6 DEF Listed
  <2>8. Listed([plans EXCEPT ![i] = p])
    BY <2>5, <2>7, OneIsListed
  <2>9. plans' = InQueue([plans EXCEPT ![i] = p]) /\ stale' = FALSE
    BY <1>11, <2>3, <2>4 DEF UpdateStep, Mutate, WriteQueue
  <2>10. p \in Sound
    <3>1. MayMove(plans[i], s) /\ CanMove(plans[i].steps[s], to, ids)
      BY <1>11 DEF UpdateStep
    <3> QED
      BY <1>1, <2>1, <2>3, <2>4, <3>1, MovedIsSound
  <2>11. [plans EXCEPT ![i] = p] \in Seq(Sound)
    BY <1>1, <2>10
  <2>12. Listed(plans')
    BY <2>8, <2>9, <2>11, FormsListed
  <2> QED
    BY <1>3, <1>4, <1>11, <2>9, <2>12 DEF UpdateStep
<1> QED
  BY <1>5, <1>6, <1>7, <1>8, <1>9, <1>10, <1>11 DEF PlanStepsNext

LEMMA PlansTyped ==
    ASSUME PlansInv, PlansLimits
    PROVE  PlanStepsTypeOK
<1>1. plans \in Seq(Sound) /\ Sound \subseteq PlanRecords
  BY DEF PlansInv, Sound
<1>2. plans \in Seq(PlanRecords)
  BY <1>1
<1>3. \A i \in DOMAIN plans : Len(plans[i].steps) \in 1..MaxPlanSteps
  <2>1. \A i \in DOMAIN plans : plans[i] \in PlanRecords /\ Len(plans[i].steps) > 0
    BY <1>1 DEF Sound, HasEarned
  <2>2. \A i \in DOMAIN plans : Len(plans[i].steps) \in Nat
    BY <2>1 DEF PlanRecords
  <2> QED
    BY <2>1, <2>2, PlanStepBounds DEF PlansLimits, Listed
<1> QED
  BY <1>2, <1>3 DEF PlansInv, PlansLimits, Listed, PlanStepsTypeOK, PlanRecords

\* Decisions: what the coordinator still knows is a request.
DecisionLimits ==
    /\ request \in [id : 0..MaxRequests,
                    at : {"none", "begun", "waiting", "received", "resolving"}]
    /\ pending \subseteq Requests /\ granted \in BOOLEAN /\ leftOver \in BOOLEAN
    /\ decisionFaults \in 0..MaxDecisionFaults

LEMMA DecisionTypesStart == DecisionsInit => DecisionLimits
<1> SUFFICES ASSUME DecisionsInit PROVE DecisionLimits
  OBVIOUS
<1>1. 0 \in 0..MaxRequests /\ 0 \in 0..MaxDecisionFaults
  BY DecisionsAssumption
<1> QED
  BY <1>1 DEF DecisionsInit, DecisionLimits

LEMMA DecisionTypesKept ==
    ASSUME DecisionInv, DecisionLimits, [DecisionsNext]_decisionVars
    PROVE  DecisionLimits'
<1>1. MaxRequests \in Nat
  BY DecisionsAssumption
<1>2. CASE UNCHANGED decisionVars
  BY <1>2 DEF decisionVars, DecisionLimits
<1>3. CASE BeginRequest
  <2>1. request.id \in 0..MaxRequests /\ request.id < MaxRequests
    BY <1>3 DEF BeginRequest, DecisionLimits
  <2>2. request.id + 1 \in 0..MaxRequests /\ request.id + 1 \in Requests
    BY <1>1, <2>1 DEF Requests
  <2> QED
    BY <1>3, <2>2 DEF BeginRequest, grantVars, DecisionLimits
<1>4. CASE Publish \/ CannotPublish \/ Receive \/ Interrupt \/ CancelRequest \/ Resolve
  BY <1>4 DEF Publish, CannotPublish, Receive, Interrupt, CancelRequest, Resolve, grantVars,
              DecisionLimits
<1>5. ASSUME (\E d \in Deciders : SeeRequest(d) \/ LookUp(d) \/ Grant(d) \/ Deliver(d)
                                     \/ TakeBack(d) \/ Revoke(d)) \/ DecisionCrash
      PROVE  DecisionLimits'
  <2>1. granted \in BOOLEAN /\ leftOver \in BOOLEAN
    BY Zenon DEF DecisionLimits
  <2>2. granted' \in BOOLEAN
    BY <1>5, <2>1, Zenon DEF SeeRequest, LookUp, Grant, Deliver, TakeBack, Revoke, DecisionCrash,
                             grantVars
  <2>3. leftOver' \in BOOLEAN
    BY <1>5, <2>1, <2>2, Zenon DEF SeeRequest, LookUp, Grant, Deliver, TakeBack, Revoke,
                                   DecisionCrash, grantVars
  <2>4. decisionFaults' = decisionFaults \/ DecisionFault
    BY <1>5, Zenon DEF SeeRequest, LookUp, Grant, Deliver, TakeBack, Revoke, DecisionCrash,
                       grantVars
  <2>5. decisionFaults' \in 0..MaxDecisionFaults
    BY <2>4, DecisionsAssumption DEF DecisionFault, DecisionLimits
  <2>6. /\ request' = request \/ request' = [request EXCEPT !.at = "none"]
        /\ pending' = pending \/ pending' = {}
    BY <1>5 DEF SeeRequest, LookUp, Grant, Deliver, TakeBack, Revoke, DecisionCrash, waitVars
  <2>7. request' \in [id : 0..MaxRequests,
                      at : {"none", "begun", "waiting", "received", "resolving"}]
        /\ pending' \subseteq Requests
    BY <2>6 DEF DecisionLimits
  <2> QED
    BY <2>2, <2>3, <2>5, <2>7, Zenon DEF DecisionLimits
<1> QED
  BY <1>2, <1>3, <1>4, <1>5 DEF DecisionsNext

LEMMA DecisionsTyped ==
    ASSUME DecisionInv, DecisionLimits
    PROVE  DecisionsTypeOK
<1>1. byRun \in 0..MaxRequests
  BY DecisionsAssumption DEF DecisionInv, DecisionShape, OpenIsUnanswered, DecisionLimits
<1>2. \A d \in Deciders : decider[d].at \in {"rest", "look", "grant", "deliver", "revoke"}
  BY DEF DecisionInv, DecisionShape, Decided, Resting
<1> QED
  BY <1>1, <1>2 DEF DecisionInv, DecisionShape, DecisionLimits, DecisionsTypeOK

\* ModelCall: an attempt that is repeated is not the last.
ModelLimits ==
    /\ call.attempt \in 1..MaxAttempts /\ (call.stage = "waiting" => call.attempt < MaxAttempts)
    /\ modelCtx \in {"live", "canceled"}
    /\ modelFaults \in 0..MaxModelFaults /\ modelCalls \in 0..MaxModelCalls

LEMMA ModelTypesStart == ModelInit => ModelLimits
BY CallBounds DEF ModelInit, ModelLimits, Rested

LEMMA ModelTypesKept ==
    ASSUME ModelInv, ModelLimits, [ModelNext]_modelVars
    PROVE  ModelLimits'
<1>1. /\ call = [stage |-> call.stage, protocol |-> call.protocol, attempt |-> call.attempt,
                 emitted |-> call.emitted]
      /\ MaxAttempts \in Nat \ {0} /\ MaxModelFaults \in Nat /\ MaxModelCalls \in Nat
  BY CallBounds DEF ModelInv, ModelShape
<1>2. \A stage : MoveTo(stage) => call'.stage = stage /\ call'.attempt = call.attempt
  BY <1>1 DEF MoveTo
<1>3. ASSUME NEW retryable \in BOOLEAN, GiveUp(retryable)
      PROVE  call'.attempt \in 1..MaxAttempts /\ (call'.stage = "waiting" => call'.attempt < MaxAttempts)
  <2>1. CASE modelCtx # "live" \/ ~retryable \/ call.emitted \/ call.attempt = MaxAttempts
    <3>1. MoveTo("failed")
      BY <1>3, <2>1 DEF GiveUp
    <3> QED
      BY <1>2, <3>1 DEF ModelLimits
  <2>2. CASE ~(modelCtx # "live" \/ ~retryable \/ call.emitted \/ call.attempt = MaxAttempts)
    <3>1. MoveTo("waiting")
      BY <1>3, <2>2 DEF GiveUp
    <3> QED
      BY <1>1, <1>2, <2>2, <3>1 DEF ModelLimits
  <2> QED
    BY <2>1, <2>2
<1>4. modelFaults' = modelFaults \/ ModelFault => modelFaults' \in 0..MaxModelFaults
  BY <1>1 DEF ModelFault, ModelLimits
<1>5. ASSUME call' = call \/ (\E retryable \in BOOLEAN : GiveUp(retryable))
                \/ (\E stage \in {"failed", "reading", "answered", "idle"} : MoveTo(stage))
                \/ call' = [call EXCEPT !.emitted = TRUE],
             modelCtx' = modelCtx \/ modelCtx' = "canceled", UNCHANGED modelCalls,
             modelFaults' = modelFaults \/ ModelFault
      PROVE  ModelLimits'
  <2>1. call'.attempt \in 1..MaxAttempts /\ (call'.stage = "waiting" => call'.attempt < MaxAttempts)
    <3>1. CASE \E stage \in {"failed", "reading", "answered", "idle"} : MoveTo(stage)
      BY <1>2, <3>1 DEF ModelLimits
    <3>2. CASE call' = call \/ call' = [call EXCEPT !.emitted = TRUE]
      BY <1>1, <3>2 DEF ModelLimits
    <3> QED
      BY <1>3, <1>5, <3>1, <3>2
  <2>2. modelCtx' \in {"live", "canceled"}
    BY <1>5 DEF ModelLimits
  <2> QED
    BY <1>4, <1>5, <2>1, <2>2 DEF ModelLimits
<1>6. CASE UNCHANGED modelVars
  BY <1>5, <1>6 DEF modelVars
<1>7. CASE BeginCall
  <2>1. call'.attempt \in 1..MaxAttempts /\ call'.stage # "waiting"
    <3>1. CASE UNCHANGED call
      BY <1>7, <3>1 DEF BeginCall, ModelLimits
    <3>2. CASE \E p \in Protocols : call' = [Rested EXCEPT !.stage = "sending", !.protocol = p]
      BY <1>1, <3>2 DEF Rested
    <3> QED
      BY <1>7, <3>1, <3>2 DEF BeginCall
  <2>2. modelCalls < MaxModelCalls /\ modelCalls' = modelCalls + 1 /\ UNCHANGED <<modelCtx, modelFaults>>
    BY <1>7 DEF BeginCall
  <2> QED
    BY <1>1, <2>1, <2>2 DEF ModelLimits
<1>8. CASE SendRequest \/ Break \/ BodyBreaksOff \/ CancelModel \/ Finished
  BY <1>5, <1>8 DEF SendRequest, Break, BodyBreaksOff, CancelModel, Finished, Outside
<1>9. CASE Charge
  BY <1>5, <1>9 DEF Charge, Outside, MoveTo
<1>10. CASE TryAgain
  <2>1. CASE modelCtx = "live"
    <3>1. /\ call' = [call EXCEPT !.stage = "sending", !.attempt = @ + 1, !.emitted = FALSE]
          /\ call.stage = "waiting" /\ UNCHANGED <<modelCtx, modelFaults, modelCalls>>
      BY <1>10, <2>1 DEF TryAgain, Outside
    <3>2. call'.attempt = call.attempt + 1 /\ call'.stage = "sending"
      BY <1>1, <3>1
    <3>3. call'.attempt \in 1..MaxAttempts
      BY <1>1, <3>1, <3>2 DEF ModelLimits
    <3> QED
      BY <3>1, <3>2, <3>3 DEF ModelLimits
  <2>2. CASE modelCtx # "live"
    BY <1>5, <1>10, <2>2 DEF TryAgain, Outside
  <2> QED
    BY <2>1, <2>2
<1>11. ASSUME NEW f \in Fields, Delta(f) \/ Repeat(f) \/ Whole(f) PROVE ModelLimits'
  <2>1. ASSUME NEW units, Pass(f, units), UNCHANGED Outside PROVE ModelLimits'
    BY <1>5, <2>1 DEF Pass, Outside
  <2>2. CASE UNCHANGED <<call, modelFaults, Outside>>
    BY <1>5, <2>2 DEF Outside
  <2> QED
    BY <1>11, <2>1, <2>2 DEF Delta, Repeat, Whole, Adds
<1> QED
  BY <1>6, <1>7, <1>8, <1>9, <1>10, <1>11 DEF ModelNext

LEMMA ModelTyped ==
    ASSUME ModelInv, ModelLimits
    PROVE  ModelTypeOK
BY DEF ModelInv, ModelShape, ModelLimits, ModelTypeOK

\* Memory: memories are numbered as they are made, and the surplus of a scope
\* is some of them.
MemoryLimits ==
    /\ DOMAIN items \subseteq 1..memoriesMade /\ memoriesMade \in 0..MaxMemories
    /\ \A s \in Speakers : tasks[s].surplus \subseteq 1..memoriesMade
    /\ spaceOn \in BOOLEAN /\ memoryFaults \in 0..MaxMemoryFaults /\ changes \in 0..MaxChanges

LEMMA MemoryTypesStart == MemoryInit => MemoryLimits
<1> SUFFICES ASSUME MemoryInit PROVE MemoryLimits
  OBVIOUS
<1>1. DOMAIN items = {} /\ \A s \in Speakers : tasks[s].surplus = {}
  BY DEF MemoryInit, NoTask
<1> QED
  BY <1>1, SpeakerShape DEF MemoryInit, MemoryLimits

\* What is written has numbers that were given out.
LEMMA CommitNumbers ==
    ASSUME MemoryLimits, NEW m, NEW n \in Nat, DOMAIN m \subseteq 1..n, memoriesMade <= n, Commit(m)
    PROVE  DOMAIN items' \subseteq 1..n /\ memoryFaults' \in 0..MaxMemoryFaults
<1>1. memoriesMade \in Nat /\ DOMAIN items \subseteq 1..memoriesMade /\ MaxMemoryFaults \in Nat
      /\ memoryFaults \in 0..MaxMemoryFaults
  BY SpeakerShape DEF MemoryLimits
<1>2. 1..memoriesMade \subseteq 1..n
  BY <1>1
<1>3. CASE items' = m /\ UNCHANGED memoryFaults
  BY <1>1, <1>3
<1>4. CASE memoryFaults < MaxMemoryFaults /\ memoryFaults' = memoryFaults + 1 /\ UNCHANGED items
  BY <1>1, <1>2, <1>4
<1> QED
  BY <1>3, <1>4 DEF Commit

Numbered ==
    /\ memoriesMade' \in 0..MaxMemories /\ memoriesMade <= memoriesMade'
    /\ DOMAIN items' \subseteq 1..memoriesMade' /\ memoryFaults' \in 0..MaxMemoryFaults

LEMMA RememberNumbers ==
    ASSUME MemoryLimits, NEW scope, NEW note, NEW who, NEW over, Remember(scope, note, who, over)
    PROVE  Numbered
<1>1. memoriesMade \in 0..MaxMemories /\ MaxMemories \in Nat /\ DOMAIN items \subseteq 1..memoriesMade
  BY SpeakerShape DEF MemoryLimits
<1>2. CASE \E i, r : Commit([items EXCEPT ![i] = r]) /\ UNCHANGED memoriesMade
  <2>1. PICK i, r : Commit([items EXCEPT ![i] = r]) /\ UNCHANGED memoriesMade
    BY <1>2
  <2>2. DOMAIN [items EXCEPT ![i] = r] = DOMAIN items
    OBVIOUS
  <2>3. memoriesMade \in Nat /\ memoriesMade <= memoriesMade
    BY <1>1
  <2> QED
    BY <1>1, <2>1, <2>2, <2>3, CommitNumbers DEF Numbered
<1>3. CASE \E m : /\ DOMAIN m = DOMAIN items \cup {memoriesMade + 1} /\ Commit(m)
                  /\ memoriesMade < MaxMemories /\ memoriesMade' = memoriesMade + 1
  <2>1. PICK m : /\ DOMAIN m = DOMAIN items \cup {memoriesMade + 1} /\ Commit(m)
                 /\ memoriesMade < MaxMemories /\ memoriesMade' = memoriesMade + 1
    BY <1>3
  <2>2. PICK n \in Nat : n = memoriesMade + 1
    BY <1>1
  <2>3. DOMAIN m \subseteq 1..n /\ memoriesMade <= n
    BY <1>1, <2>1, <2>2
  <2>4. DOMAIN items' \subseteq 1..n /\ memoryFaults' \in 0..MaxMemoryFaults
    BY <2>1, <2>3, CommitNumbers
  <2> QED
    BY <1>1, <2>1, <2>2, <2>4 DEF Numbered
<1> DEFINE same == {i \in Active(scope) : items[i].note = note}
<1>4. CASE same # {}
  BY <1>2, <1>4 DEF Remember
<1>5. CASE same = {}
  <2>1. /\ memoriesMade < MaxMemories /\ memoriesMade' = memoriesMade + 1
        /\ \E f : Commit([i \in DOMAIN items \cup {memoriesMade + 1} |-> f[i]])
    <3>1. ASSUME NEW new, NEW Superseded(_),
                 Commit([i \in DOMAIN items \cup {memoriesMade + 1} |->
                          IF i = memoriesMade + 1 THEN new
                          ELSE IF i \in over \cap Active(scope) THEN Superseded(items[i])
                          ELSE items[i]])
          PROVE  \E f : Commit([i \in DOMAIN items \cup {memoriesMade + 1} |-> f[i]])
      <4> DEFINE f == [i \in DOMAIN items \cup {memoriesMade + 1} |->
                          IF i = memoriesMade + 1 THEN new
                          ELSE IF i \in over \cap Active(scope) THEN Superseded(items[i])
                          ELSE items[i]]
      <4>1. f = [i \in DOMAIN items \cup {memoriesMade + 1} |-> f[i]]
        OBVIOUS
      <4> QED
        BY <3>1, <4>1
    <3> QED
      BY <1>5, <3>1 DEF Remember
  <2>2. \A f : DOMAIN [i \in DOMAIN items \cup {memoriesMade + 1} |-> f[i]]
                  = DOMAIN items \cup {memoriesMade + 1}
    OBVIOUS
  <2> QED
    BY <1>3, <2>1, <2>2
<1> QED
  BY <1>4, <1>5

LEMMA ForgetNumbers ==
    ASSUME MemoryLimits, NEW scope, NEW i, NEW who, Forget(scope, i, who)
    PROVE  Numbered /\ UNCHANGED memoriesMade
<1>1. memoriesMade \in 0..MaxMemories /\ DOMAIN items \subseteq 1..memoriesMade
      /\ memoriesMade <= memoriesMade /\ memoryFaults \in 0..MaxMemoryFaults /\ memoriesMade \in Nat
  BY SpeakerShape DEF MemoryLimits
<1>2. CASE \E r : Commit([items EXCEPT ![i] = r]) /\ UNCHANGED memoriesMade
  <2>1. PICK r : Commit([items EXCEPT ![i] = r]) /\ UNCHANGED memoriesMade
    BY <1>2
  <2>2. DOMAIN [items EXCEPT ![i] = r] = DOMAIN items
    OBVIOUS
  <2> QED
    BY <1>1, <2>1, <2>2, CommitNumbers DEF Numbered
<1>3. CASE Unwritten
  BY <1>1, <1>3 DEF Unwritten, Numbered
<1> QED
  BY <1>2, <1>3 DEF Forget

LEMMA MemoryTypesKept ==
    ASSUME MemoryInv, MemoryLimits, [MemoryNext]_memoryVars
    PROVE  MemoryLimits'
<1>1. /\ MaxMemories \in Nat /\ MaxMemoryFaults \in Nat /\ MaxChanges \in Nat
      /\ DOMAIN items \subseteq 1..memoriesMade /\ memoriesMade \in 0..MaxMemories
      /\ memoryFaults \in 0..MaxMemoryFaults /\ changes \in 0..MaxChanges
      /\ memoriesMade \in Nat /\ memoriesMade <= memoriesMade
  BY SpeakerShape DEF MemoryLimits
<1>2. Unwritten => Numbered
  BY <1>1 DEF Unwritten, Numbered
<1>3. ASSUME Numbered, spaceOn' \in BOOLEAN, changes' \in 0..MaxChanges,
             \A s \in Speakers : tasks'[s].surplus \subseteq 1..memoriesMade
      PROVE  MemoryLimits'
  <2>1. 1..memoriesMade \subseteq 1..memoriesMade'
    BY <1>1, <1>3 DEF Numbered
  <2> QED
    BY <1>3, <2>1 DEF Numbered, MemoryLimits
<1>4. Change => changes' \in 0..MaxChanges
  BY <1>1 DEF Change
<1>5. (\A s \in Speakers : tasks[s].surplus \subseteq 1..memoriesMade) /\ spaceOn \in BOOLEAN
      /\ (~spaceOn) \in BOOLEAN
  BY DEF MemoryLimits
<1>6. ASSUME NEW s \in Speakers, NEW doing, doing.surplus \subseteq 1..memoriesMade, Task(s, doing)
      PROVE  \A t \in Speakers : tasks'[t].surplus \subseteq 1..memoriesMade
  BY <1>5, <1>6 DEF Task, MemoryInv, TasksFit
<1>7. NoTask.surplus = {}
  BY DEF NoTask
<1>8. CASE UNCHANGED memoryVars
  <2>1. Numbered
    BY <1>1, <1>8 DEF memoryVars, Numbered
  <2> QED
    BY <1>1, <1>3, <1>5, <1>8, <2>1 DEF memoryVars
<1>9. CASE SetSpaceEnabled
  <2>1. Numbered
    BY <1>1, <1>9 DEF SetSpaceEnabled, Numbered
  <2> QED
    BY <1>3, <1>4, <1>5, <1>9, <2>1 DEF SetSpaceEnabled
<1>10. CASE RestartMemory
  <2>1. DOMAIN stored \subseteq DOMAIN items
    BY DEF MemoryInv, Restrict, Lasting
  <2>2. Numbered
    BY <1>1, <1>10, <2>1 DEF RestartMemory, Numbered
  <2>3. \A s \in Speakers : tasks'[s].surplus \subseteq 1..memoriesMade
    BY <1>7, <1>10 DEF RestartMemory
  <2> QED
    BY <1>3, <1>4, <1>5, <1>10, <2>2, <2>3 DEF RestartMemory
<1>11. CASE Purge
  <2>1. PICK spared \in SUBSET DOMAIN items : Commit(Restrict(items, spared))
    BY <1>11 DEF Purge
  <2>2. PICK m : m = Restrict(items, spared)
    OBVIOUS
  <2>3. DOMAIN m \subseteq 1..memoriesMade /\ Commit(m)
    BY <1>1, <2>1, <2>2 DEF Restrict
  <2>4. DOMAIN items' \subseteq 1..memoriesMade /\ memoryFaults' \in 0..MaxMemoryFaults
    BY <1>1, <2>3, CommitNumbers
  <2>5. Numbered
    BY <1>1, <1>11, <2>4 DEF Purge, Numbered
  <2> QED
    BY <1>1, <1>3, <1>5, <1>11, <2>5 DEF Purge
<1>12. ASSUME NEW s \in Speakers, Write(s) PROVE MemoryLimits'
  <2>1. Numbered
    BY <1>12, RememberNumbers DEF Write
  <2>2. tasks[s] # NoTask /\ tasks[s] \in TaskRecords
    BY <1>12 DEF Write, MemoryInv, TasksFit, NoTask
  <2>3. PICK then : then = [tasks[s] EXCEPT !.stage = "count", !.over = {}]
    OBVIOUS
  <2>4. then.surplus = tasks[s].surplus
    BY <2>2, <2>3 DEF TaskRecords
  <2>5. Task(s, NoTask) \/ Task(s, then)
    BY <1>12, <2>3 DEF Write
  <2>6. \A t \in Speakers : tasks'[t].surplus \subseteq 1..memoriesMade
    BY <1>5, <1>6, <1>7, <2>4, <2>5
  <2> QED
    BY <1>1, <1>3, <1>5, <1>12, <2>1, <2>6 DEF Write
<1>13. ASSUME NEW s \in Speakers, Count(s) PROVE MemoryLimits'
  <2>1. Numbered
    BY <1>2, <1>13 DEF Count
  <2>2. tasks[s] # NoTask /\ tasks[s] \in TaskRecords
    <3>1. tasks[s].stage = "count"
      BY <1>13 DEF Count
    <3> QED
      BY <3>1 DEF MemoryInv, TasksFit, NoTask
  <2>3. \A n : \A out \in kSubset(n, Active(tasks[s].scope)) : out \subseteq DOMAIN items
    BY DEF kSubset, Active
  <2>4. \A out : [tasks[s] EXCEPT !.stage = "evict", !.surplus = out].surplus = out
    BY <2>2 DEF TaskRecords
  <2>5. Task(s, NoTask)
        \/ \E out : /\ out \subseteq DOMAIN items
                    /\ Task(s, [tasks[s] EXCEPT !.stage = "evict", !.surplus = out])
    BY <1>13, <2>3 DEF Count
  <2>6. \A t \in Speakers : tasks'[t].surplus \subseteq 1..memoriesMade
    <3>1. CASE Task(s, NoTask)
      BY <1>6, <1>7, <3>1
    <3>2. ASSUME NEW out, out \subseteq DOMAIN items,
                 Task(s, [tasks[s] EXCEPT !.stage = "evict", !.surplus = out])
          PROVE  \A t \in Speakers : tasks'[t].surplus \subseteq 1..memoriesMade
      BY <1>1, <1>6, <2>4, <3>2
    <3> QED
      BY <2>5, <3>1, <3>2
  <2> QED
    BY <1>1, <1>3, <1>5, <1>13, <2>1, <2>6 DEF Count
<1>14. ASSUME NEW s \in Speakers, Evict(s) PROVE MemoryLimits'
  <2>1. tasks[s] # NoTask /\ tasks[s] \in TaskRecords
    BY <1>14 DEF Evict, MemoryInv, TasksFit, NoTask
  <2>2. PICK i \in tasks[s].surplus :
          /\ Forget(tasks[s].scope, i, s)
          /\ Task(s, NoTask) \/ Task(s, [tasks[s] EXCEPT !.surplus = @ \ {i}])
    BY <1>14 DEF Evict
  <2>3. Numbered
    BY <2>2, ForgetNumbers
  <2>4. [tasks[s] EXCEPT !.surplus = @ \ {i}].surplus = tasks[s].surplus \ {i}
    BY <2>1 DEF TaskRecords
  <2>5. \A t \in Speakers : tasks'[t].surplus \subseteq 1..memoriesMade
    BY <1>5, <1>6, <1>7, <2>2, <2>4
  <2> QED
    BY <1>1, <1>3, <1>5, <1>14, <2>3, <2>5 DEF Evict
<1>15. ASSUME NEW s \in Speakers, NEW i, ForgetTool(s, i) PROVE MemoryLimits'
  <2>1. Numbered
    BY <1>15, ForgetNumbers DEF ForgetTool
  <2> QED
    BY <1>1, <1>3, <1>5, <1>15, <2>1 DEF ForgetTool
<1>16. ASSUME NEW s \in Speakers, NEW note \in Notes,
              NEW over \in {{}} \cup {{i} : i \in DOMAIN items}, RememberTool(s, note, over)
       PROVE  MemoryLimits'
  <2>1. Numbered
    BY <1>2, <1>16, RememberNumbers DEF RememberTool
  <2>2. UNCHANGED tasks \/ \E doing : doing.surplus = {} /\ Task(s, doing)
    <3>1. \A x, y, z : [NoTask EXCEPT !.stage = x, !.scope = ScopeOf(s), !.note = y, !.over = z].surplus = {}
      BY DEF NoTask
    <3>2. UNCHANGED tasks \/ \E x, y, z :
            Task(s, [NoTask EXCEPT !.stage = x, !.scope = ScopeOf(s), !.note = y, !.over = z])
      BY <1>16 DEF RememberTool
    <3> QED
      BY <3>1, <3>2
  <2>3. \A t \in Speakers : tasks'[t].surplus \subseteq 1..memoriesMade
    BY <1>5, <1>6, <2>2
  <2> QED
    BY <1>1, <1>3, <1>5, <1>16, <2>1, <2>3 DEF RememberTool
<1>17. ASSUME NEW scope \in OperatorScopes, NEW note \in Notes, NEW over,
              OperatorRemembers(scope, note, over)
       PROVE  MemoryLimits'
  <2>1. Numbered
    BY <1>17, RememberNumbers DEF OperatorRemembers
  <2> QED
    BY <1>3, <1>4, <1>5, <1>17, <2>1 DEF OperatorRemembers
<1>18. ASSUME NEW i \in DOMAIN items, OperatorForgets(i) PROVE MemoryLimits'
  <2>1. Numbered
    BY <1>18, ForgetNumbers DEF OperatorForgets
  <2> QED
    BY <1>1, <1>3, <1>5, <1>18, <2>1 DEF OperatorForgets
<1> QED
  BY <1>8, <1>9, <1>10, <1>11, <1>12, <1>13, <1>14, <1>15, <1>16, <1>17, <1>18 DEF MemoryNext

LEMMA MemoryTyped ==
    ASSUME MemoryInv, MemoryLimits
    PROVE  MemoryTypeOK
<1>1. DOMAIN stored \subseteq DOMAIN items
  BY DEF MemoryInv, Restrict, Lasting
<1>2. \A i \in DOMAIN items : items[i] \in MemoryRecords
  BY DEF MemoryInv, ItemsFit
<1>3. \A s \in Speakers : tasks[s].stage \in {"none", "write", "reinforce", "count", "evict"}
  BY DEF MemoryInv, TasksFit, TaskRecords, NoTask
<1> QED
  BY <1>1, <1>2, <1>3 DEF MemoryLimits, MemoryTypeOK, MemoryRecords, Whos

\* Settings: every value was set by an update there has been.
ValuesUpTo(n)     == [SettingFields -> 0..n]
EditWithin(w, n)  == w # NotEditing => w.number \in 1..n /\ w.base \in ValuesUpTo(n)

SettingsLimits ==
    /\ updates \in 1..MaxUpdates /\ settingFaults \in 0..MaxSettingFaults
    /\ config \in ValuesUpTo(updates) /\ files \in ValuesUpTo(updates)
    /\ applied \in ValuesUpTo(updates) /\ promised \in ValuesUpTo(updates)
    /\ \A e \in Editors : EditWithin(editing[e], updates)
    /\ generation \in 1..updates /\ limits \in [ModelProviders -> 0..updates]
    /\ query \subseteq [provider : ModelProviders, of : 1..updates, server : 1..updates]
    /\ tokens \subseteq CodexProviders /\ signing \subseteq CodexProviders

LEMMA SettingsTypesStart == SettingsInit => SettingsLimits
<1> SUFFICES ASSUME SettingsInit PROVE SettingsLimits
  OBVIOUS
<1>1. updates = 1 /\ MaxUpdates \in Nat \ {0} /\ MaxSettingFaults \in Nat /\ settingFaults = 0
  BY SettingsAssumption DEF SettingsInit
<1>2. config \in ValuesUpTo(1)
  BY DEF SettingsInit, ValuesUpTo, NotConfigured
<1>3. limits \in [ModelProviders -> 0..1]
  BY DEF SettingsInit, NotConfigured
<1>4. \A e \in Editors : editing[e] = NotEditing
  BY DEF SettingsInit
<1> QED
  BY <1>1, <1>2, <1>3, <1>4 DEF SettingsInit, SettingsLimits, EditWithin

LEMMA ValuesMade ==
    ASSUME NEW n \in Nat, NEW base \in ValuesUpTo(n), NEW other \in ValuesUpTo(n), NEW part,
           NEW edit, edit.number \in 1..n
    PROVE  Wished(base, edit) \in ValuesUpTo(n) /\ Put(base, part, other) \in ValuesUpTo(n)
BY DEF Wished, Put, ValuesUpTo, NotConfigured

LEMMA ChangedEdit ==
    ASSUME SettingsInv, SettingsLimits, NEW e \in Editors, NEW w,
           editing' = [editing EXCEPT ![e] = w], EditWithin(w, updates), UNCHANGED updates
    PROVE  \A d \in Editors : EditWithin(editing'[d], updates')
BY DEF SettingsInv, SettingsShape, SettingsLimits, EditWithin

\* A handler at work goes on, or ends.
LEMMA MovedEdit ==
    ASSUME SettingsInv, SettingsLimits, NEW e \in Editors, editing[e] # NotEditing, NEW at,
           \/ editing' = [editing EXCEPT ![e].at = at]
           \/ editing' = [editing EXCEPT ![e] = NotEditing],
           UNCHANGED updates
    PROVE  \A d \in Editors : EditWithin(editing'[d], updates')
<1>1. editing[e] \in EditRecords
  BY DEF SettingsInv, SettingsShape
<1>2. CASE editing' = [editing EXCEPT ![e].at = at]
  <2>1. PICK w : w = [editing[e] EXCEPT !.at = at]
    OBVIOUS
  <2>2. w.number = editing[e].number /\ w.base = editing[e].base
    BY <1>1, <2>1 DEF EditRecords
  <2>3. editing' = [editing EXCEPT ![e] = w]
    BY <1>2, <2>1
  <2>4. EditWithin(w, updates)
    BY <2>2 DEF SettingsLimits, EditWithin
  <2> QED
    BY <2>3, <2>4, ChangedEdit
<1>3. CASE editing' = [editing EXCEPT ![e] = NotEditing]
  <2>1. EditWithin(NotEditing, updates)
    BY DEF EditWithin
  <2> QED
    BY <1>3, <2>1, ChangedEdit
<1> QED
  BY <1>2, <1>3

LEMMA EditorAtWork ==
    ASSUME SettingsInv, SettingsLimits, NEW e \in Editors, editing[e].at # "idle"
    PROVE  /\ editing[e] # NotEditing /\ editing[e].number \in 1..updates
           /\ Edited(e) \in ValuesUpTo(updates)
<1>1. editing[e] # NotEditing
  BY DEF NotEditing
<1>2. editing[e].number \in 1..updates /\ editing[e].base \in ValuesUpTo(updates) /\ updates \in Nat
  BY <1>1 DEF SettingsLimits, EditWithin
<1> QED
  BY <1>1, <1>2, ValuesMade DEF Edited

LEMMA SettingsTypesKept ==
    ASSUME SettingsInv, SettingsLimits, [SettingsNext]_settingsVars
    PROVE  SettingsLimits'
<1>1. /\ updates \in Nat /\ updates \in 1..MaxUpdates /\ settingFaults \in 0..MaxSettingFaults
      /\ config \in ValuesUpTo(updates) /\ files \in ValuesUpTo(updates)
      /\ applied \in ValuesUpTo(updates) /\ promised \in ValuesUpTo(updates)
      /\ generation \in 1..updates /\ limits \in [ModelProviders -> 0..updates]
      /\ query \subseteq [provider : ModelProviders, of : 1..updates, server : 1..updates]
      /\ tokens \subseteq CodexProviders /\ signing \subseteq CodexProviders
      /\ MaxUpdates \in Nat \ {0} /\ MaxSettingFaults \in Nat
  BY SettingsAssumption DEF SettingsLimits
<1>2. ASSUME UNCHANGED updates, settingFaults' \in 0..MaxSettingFaults,
             config' \in ValuesUpTo(updates), files' \in ValuesUpTo(updates),
             applied' \in ValuesUpTo(updates), promised' \in ValuesUpTo(updates),
             \A e \in Editors : EditWithin(editing'[e], updates'),
             generation' \in 1..updates, limits' \in [ModelProviders -> 0..updates],
             query' \subseteq [provider : ModelProviders, of : 1..updates, server : 1..updates],
             tokens' \subseteq CodexProviders, signing' \subseteq CodexProviders
      PROVE  SettingsLimits'
  BY <1>1, <1>2 DEF SettingsLimits
<1>3. UNCHANGED <<editing, updates>> => \A e \in Editors : EditWithin(editing'[e], updates')
  BY DEF SettingsLimits
<1>4. (\A p \in ModelProviders : NotConfigured \in 0..updates)
      /\ [p \in ModelProviders |-> NotConfigured] \in [ModelProviders -> 0..updates]
  BY <1>1 DEF NotConfigured
<1>5. CASE UNCHANGED settingsVars
  BY <1>1, <1>2, <1>3, <1>5 DEF settingsVars
<1>6. ASSUME NEW e \in Editors, AskUpdate(e) PROVE SettingsLimits'
  <2>1. PICK n \in Nat : n = updates + 1
    BY <1>1
  <2>2. updates' = n /\ n \in 1..MaxUpdates /\ 1..updates \subseteq 1..n /\ 0..updates \subseteq 0..n
    BY <1>1, <1>6, <2>1 DEF AskUpdate
  <2>3. ValuesUpTo(updates) \subseteq ValuesUpTo(n)
    BY <2>2 DEF ValuesUpTo
  <2>4. AllGone \in ValuesUpTo(n)
    BY <2>1 DEF AllGone, ValuesUpTo, NotConfigured
  <2>5. \E w : editing' = [editing EXCEPT ![e] = w] /\ w.number = n /\ w.base = AllGone
    <3>1. PICK part \in SettingParts : \E wish \in Wishes(part) :
            editing' = [editing EXCEPT ![e] = [at |-> "asked", part |-> part, wish |-> wish,
                                             number |-> updates + 1, base |-> AllGone]]
      BY <1>6 DEF AskUpdate
    <3>2. PICK wish \in Wishes(part) :
            editing' = [editing EXCEPT ![e] = [at |-> "asked", part |-> part, wish |-> wish,
                                             number |-> updates + 1, base |-> AllGone]]
      BY <3>1
    <3>3. PICK w : w = [at |-> "asked", part |-> part, wish |-> wish, number |-> updates + 1,
                        base |-> AllGone]
      OBVIOUS
    <3>4. editing' = [editing EXCEPT ![e] = w] /\ w.number = n /\ w.base = AllGone
      BY <2>1, <3>2, <3>3
    <3> QED
      BY <3>4
  <2>6. \A d \in Editors : EditWithin(editing'[d], n)
    <3>1. PICK w : editing' = [editing EXCEPT ![e] = w] /\ w.number = n /\ w.base = AllGone
      BY <2>5
    <3>2. EditWithin(w, n)
      BY <2>2, <2>4, <3>1 DEF EditWithin
    <3>3. \A d \in Editors : EditWithin(editing[d], n)
      BY <2>2, <2>3 DEF SettingsLimits, EditWithin
    <3> QED
      BY <3>1, <3>2, <3>3 DEF SettingsInv, SettingsShape
  <2>7. UNCHANGED <<config, files, applied, generation, limits, query, tokens, signing, promised,
                    settingFaults>>
    BY <1>6 DEF AskUpdate, valueVars, routerVars, oauthVars
  <2>8. query \subseteq [provider : ModelProviders, of : 1..n, server : 1..n]
        /\ limits \in [ModelProviders -> 0..n] /\ generation \in 1..n
    BY <1>1, <2>2
  <2> QED
    BY <1>1, <2>2, <2>3, <2>6, <2>7, <2>8 DEF SettingsLimits
<1>7. ASSUME NEW e \in Editors, LockAndCopy(e) PROVE SettingsLimits'
  <2>1. editing[e].at = "asked"
    BY <1>7 DEF LockAndCopy
  <2>2. editing[e] # NotEditing /\ editing[e].number \in 1..updates /\ editing[e] \in EditRecords
    BY <2>1, EditorAtWork DEF SettingsInv, SettingsShape
  <2>3. PICK w : w = [editing[e] EXCEPT !.at = "locked", !.base = config]
    OBVIOUS
  <2>4. editing' = [editing EXCEPT ![e] = w]
    BY <1>7, <2>3 DEF LockAndCopy
  <2>5. EditWithin(w, updates)
    BY <1>1, <2>2, <2>3 DEF EditWithin, EditRecords
  <2>6. UNCHANGED <<valueVars, routerVars, oauthVars, promised, updates, settingFaults>>
    BY <1>7 DEF LockAndCopy
  <2>7. \A d \in Editors : EditWithin(editing'[d], updates')
    BY <2>4, <2>5, <2>6, ChangedEdit
  <2> QED
    BY <1>1, <1>2, <2>6, <2>7 DEF valueVars, routerVars, oauthVars
<1>8. ASSUME NEW e \in Editors, Refuse(e) PROVE SettingsLimits'
  <2>1. editing[e].at # "idle" /\ editing' = [editing EXCEPT ![e] = NotEditing]
        /\ UNCHANGED <<valueVars, routerVars, oauthVars, promised, updates, settingFaults>>
    BY <1>8 DEF Refuse, LetGo
  <2>2. \A d \in Editors : EditWithin(editing'[d], updates')
    BY <2>1, EditorAtWork, MovedEdit
  <2> QED
    BY <1>1, <1>2, <2>1, <2>2 DEF valueVars, routerVars, oauthVars
<1>9. ASSUME NEW e \in Editors, Persist(e) PROVE SettingsLimits'
  <2>1. editing[e].at # "idle" /\ editing' = [editing EXCEPT ![e].at = "persisted"]
        /\ files' = Put(files, editing[e].part, Edited(e))
        /\ UNCHANGED <<config, applied, routerVars, oauthVars, promised, updates, settingFaults>>
    BY <1>9 DEF Persist
  <2>2. editing[e] # NotEditing /\ Edited(e) \in ValuesUpTo(updates) /\ editing[e].number \in 1..updates
    BY <2>1, EditorAtWork
  <2>3. \A d \in Editors : EditWithin(editing'[d], updates')
    BY <2>1, <2>2, MovedEdit
  <2>4. Put(files, editing[e].part, Edited(e)) \in ValuesUpTo(updates)
    BY <1>1, <2>2, ValuesMade
  <2> QED
    BY <1>1, <1>2, <2>1, <2>3, <2>4 DEF routerVars, oauthVars
<1>10. ASSUME NEW e \in Editors, Apply(e) PROVE SettingsLimits'
  <2>1. editing[e].at # "idle" /\ UNCHANGED <<files, promised, updates, settingFaults>>
    BY <1>10 DEF Apply
  <2>2. editing[e] # NotEditing /\ Edited(e) \in ValuesUpTo(updates) /\ editing[e].number \in 1..updates
    BY <2>1, EditorAtWork
  <2>3. \E at : editing' = [editing EXCEPT ![e].at = at]
    BY <1>10 DEF Apply, ApplyService, ApplyProviders, ApplyServers
  <2>4. \A d \in Editors : EditWithin(editing'[d], updates')
    BY <2>1, <2>2, <2>3, MovedEdit
  <2>5. \A part : \A values \in ValuesUpTo(updates) : Put(values, part, Edited(e)) \in ValuesUpTo(updates)
    BY <1>1, <2>2, ValuesMade
  <2>6. applied' \in ValuesUpTo(updates) /\ config' \in ValuesUpTo(updates)
    BY <1>1, <1>10, <2>2, <2>5 DEF Apply, ApplyService, ApplyProviders, ApplyServers
  <2>7. UNCHANGED routerVars \/ /\ generation' = editing[e].number /\ UNCHANGED query
                                /\ limits' = [p \in ModelProviders |-> NotConfigured]
    BY <1>10 DEF Apply, ApplyService, ApplyProviders, ApplyServers, routerVars
  <2>8. tokens' \subseteq tokens /\ signing' \subseteq signing
    BY <1>10 DEF Apply, ApplyService, ApplyProviders, ApplyServers, oauthVars
  <2>9. /\ generation' \in 1..updates /\ limits' \in [ModelProviders -> 0..updates]
        /\ query' \subseteq [provider : ModelProviders, of : 1..updates, server : 1..updates]
    BY <1>1, <1>4, <2>2, <2>7 DEF routerVars
  <2> QED
    BY <1>1, <1>2, <2>1, <2>4, <2>6, <2>8, <2>9
<1>11. ASSUME NEW e \in Editors, Acknowledge(e) PROVE SettingsLimits'
  <2>1. editing[e].at # "idle" /\ editing' = [editing EXCEPT ![e] = NotEditing]
        /\ promised' = Wished(promised, editing[e])
        /\ UNCHANGED <<valueVars, routerVars, oauthVars, updates, settingFaults>>
    BY <1>11 DEF Acknowledge, LetGo
  <2>2. \A d \in Editors : EditWithin(editing'[d], updates')
    BY <2>1, EditorAtWork, MovedEdit
  <2>3. Wished(promised, editing[e]) \in ValuesUpTo(updates)
    BY <1>1, <2>1, EditorAtWork, ValuesMade
  <2> QED
    BY <1>1, <1>2, <2>1, <2>2, <2>3 DEF valueVars, routerVars, oauthVars
<1>12. ASSUME NEW p \in ModelProviders, AskCatalogue(p) PROVE SettingsLimits'
  <2>1. applied[p] \in 1..updates
    BY <1>1, <1>12, PartsApart DEF AskCatalogue, ValuesUpTo, NotConfigured
  <2>2. [provider |-> p, of |-> generation, server |-> applied[p]]
          \in [provider : ModelProviders, of : 1..updates, server : 1..updates]
    BY <1>1, <2>1
  <2>3. query' = query \cup {[provider |-> p, of |-> generation, server |-> applied[p]]}
        /\ UNCHANGED <<valueVars, editing, generation, limits, oauthVars, promised, updates, settingFaults>>
    BY <1>12 DEF AskCatalogue
  <2>4. query' \subseteq [provider : ModelProviders, of : 1..updates, server : 1..updates]
    BY <1>1, <2>2, <2>3
  <2> QED
    BY <1>1, <1>2, <1>3, <2>3, <2>4 DEF valueVars, oauthVars
<1>13. ASSUME NEW p \in ModelProviders, StartProviderOAuth(p) \/ SignedIn(p) PROVE SettingsLimits'
  <2>1. /\ tokens' \subseteq CodexProviders /\ signing' \subseteq CodexProviders
        /\ UNCHANGED <<valueVars, editing, routerVars, promised, updates, settingFaults>>
    BY <1>1, <1>13 DEF StartProviderOAuth, SignedIn
  <2> QED
    BY <1>1, <1>2, <1>3, <2>1 DEF valueVars, routerVars
<1>14. ASSUME NEW q \in query, CatalogueAnswers(q) PROVE SettingsLimits'
  <2>1. q.provider \in ModelProviders /\ q.server \in 0..updates
    BY <1>1
  <2>2. limits' \in [ModelProviders -> 0..updates] /\ query' \subseteq query
    BY <1>1, <1>14, <2>1 DEF CatalogueAnswers, Learn
  <2>3. UNCHANGED <<valueVars, editing, generation, oauthVars, promised, updates, settingFaults>>
    BY <1>14 DEF CatalogueAnswers
  <2> QED
    BY <1>1, <1>2, <1>3, <2>2, <2>3 DEF valueVars, oauthVars
<1>15. CASE RestartService
  <2>1. /\ config' = files /\ applied' = files /\ promised' = files /\ generation' = updates
        /\ settingFaults' \in 0..MaxSettingFaults /\ query' = {} /\ signing' = {}
        /\ limits' = [p \in ModelProviders |-> NotConfigured]
        /\ UNCHANGED <<files, tokens, updates>>
        /\ editing' = [e \in Editors |-> NotEditing]
    BY <1>1, <1>15 DEF RestartService
  <2>2. \A e \in Editors : EditWithin(editing'[e], updates')
    BY <2>1 DEF EditWithin
  <2> QED
    BY <1>1, <1>2, <1>4, <2>1, <2>2
<1> QED
  BY <1>5, <1>6, <1>7, <1>8, <1>9, <1>10, <1>11, <1>12, <1>13, <1>14, <1>15 DEF SettingsNext

LEMMA SettingsTyped ==
    ASSUME SettingsInv, SettingsLimits
    PROVE  SettingsTypeOK
<1>1. MaxUpdates \in Nat /\ updates \in 1..MaxUpdates
  BY SettingsAssumption DEF SettingsLimits
<1>2. 1..updates \subseteq 1..MaxUpdates /\ 0..updates \subseteq 0..MaxUpdates
  BY <1>1
<1>3. {config, files, applied, promised} \subseteq [SettingFields -> 0..MaxUpdates]
  BY <1>2 DEF SettingsLimits, ValuesUpTo
<1>4. /\ limits \in [ModelProviders -> 0..MaxUpdates] /\ generation \in 1..MaxUpdates
      /\ query \subseteq [provider : ModelProviders, of : 1..MaxUpdates, server : 1..MaxUpdates]
  BY <1>2 DEF SettingsLimits
<1>5. \A e \in Editors :
        editing[e].at \in {"idle", "asked", "locked", "persisted", "halfway", "done"}
  BY DEF SettingsInv, SettingsShape, EditRecords, Holding, NotEditing
<1> QED
  BY <1>1, <1>3, <1>4, <1>5 DEF SettingsInv, SettingsShape, SettingsLimits, SettingsTypeOK

\* RamDisks: what was written on a disk was written by a process there was.
DataWithin == \A d \in Disks : host[d] \in DiskRecords => host[d].data \subseteq 0..processes

DiskLimits ==
    processes \in 0..MaxProcesses /\ diskFaults \in 0..MaxDiskFaults /\ DataWithin

LEMMA DiskTypesStart == RamDisksInit => DiskLimits
<1> SUFFICES ASSUME RamDisksInit PROVE DiskLimits
  OBVIOUS
<1>1. \A d \in Disks : host[d] \notin DiskRecords
  BY DEF RamDisksInit, Missing, DiskRecords
<1> QED
  BY <1>1, RamDisksAssumption DEF RamDisksInit, DiskLimits, DataWithin

LEMMA DataStays ==
    ASSUME DiskLimits, processes' = processes \/ processes' = processes + 1,
           \A d \in Disks : \/ host'[d] = host[d] \/ host'[d] \notin DiskRecords
                            \/ host'[d].data \subseteq 0..processes
                            \/ host[d] \in DiskRecords /\ host'[d].data \subseteq host[d].data
    PROVE  DataWithin'
<1>1. processes \in Nat
  BY DEF DiskLimits
<1>2. 0..processes \subseteq 0..processes'
  BY <1>1
<1> QED
  BY <1>2 DEF DiskLimits, DataWithin

LEMMA DiskTypesKept ==
    ASSUME DiskInv, DiskLimits, [RamDisksNext]_diskVars
    PROVE  DiskLimits'
<1>1. /\ processes \in Nat /\ processes \in 0..MaxProcesses /\ diskFaults \in 0..MaxDiskFaults
      /\ MaxProcesses \in Nat /\ MaxDiskFaults \in Nat
      /\ \A s \in Services : process[s] \in 0..processes
  BY RamDisksAssumption DEF DiskLimits, DiskInv, ServicesApart
<1>2. /\ \A d \in Disks : host[d] \in DiskRecords \cup {Missing, Removed} /\ DOMAIN host = Disks
      /\ Missing \notin DiskRecords /\ Removed \notin DiskRecords
      /\ \A d \in Disks : Exists(d) <=> host[d] \in DiskRecords
  BY DEF DiskInv, DiskShape, Missing, Removed, DiskRecords, Exists
<1>3. DiskFault \/ UNCHANGED diskFaults => diskFaults' \in 0..MaxDiskFaults
  BY <1>1 DEF DiskFault
<1>4. ASSUME UNCHANGED processes, diskFaults' \in 0..MaxDiskFaults,
             \A d \in Disks : \/ host'[d] = host[d] \/ host'[d] \notin DiskRecords
                              \/ host'[d].data \subseteq 0..processes
                              \/ host[d] \in DiskRecords /\ host'[d].data \subseteq host[d].data
      PROVE  DiskLimits'
  <2>1. DataWithin'
    BY <1>4, DataStays
  <2> QED
    BY <1>1, <1>4, <2>1 DEF DiskLimits, DataWithin
<1>5. CASE UNCHANGED diskVars
  BY <1>3, <1>4, <1>5 DEF diskVars
<1>6. ASSUME NEW s \in Services, NEW p \in Isolated, PrepareDisk(s, p) \/ ResolveRoot(s, p)
      PROVE  DiskLimits'
  BY <1>3, <1>4, <1>6 DEF PrepareDisk, ResolveRoot, serviceVars
<1>7. ASSUME NEW s \in Services, NEW p \in Isolated, Release(s, p) PROVE DiskLimits'
  <2>1. pool[s][p] \in Disks
    BY <1>7 DEF Release, DiskInv, DiskShape
  <2>2. host[pool[s][p]] \in DiskRecords
    BY <1>7 DEF Release, DiskInv, PoolOwned, IsOf
  <2>3. PICK gone : gone = [host[pool[s][p]] EXCEPT !.is = "marked", !.data = {}]
    OBVIOUS
  <2>4. gone.data = {}
    BY <2>2, <2>3 DEF DiskRecords
  <2>5. \/ host' = [host EXCEPT ![pool[s][p]] = Removed] \/ host' = host
        \/ host' = [host EXCEPT ![pool[s][p]] = gone]
    BY <1>7, <2>3 DEF Release
  <2>6. UNCHANGED processes /\ diskFaults' \in 0..MaxDiskFaults
    BY <1>3, <1>7 DEF Release, serviceVars
  <2> QED
    BY <1>2, <1>4, <2>1, <2>4, <2>5, <2>6
<1>8. ASSUME NEW s \in Services, Clean(s) PROVE DiskLimits'
  <2>1. UNCHANGED processes /\ diskFaults' \in 0..MaxDiskFaults
    BY <1>3, <1>8 DEF Clean, serviceVars
  <2>2. \A d \in Disks : host'[d] \in {host[d], Removed}
    BY <1>8 DEF Clean
  <2> QED
    BY <1>2, <1>4, <2>1, <2>2
<1>9. ASSUME NEW s \in Services, MakeDirectory(s) PROVE DiskLimits'
  <2>1. PICK d \in Disks : \E fresh : fresh.data = {} /\ host' = [host EXCEPT ![d] = fresh]
    BY <1>9 DEF MakeDirectory
  <2>2. PICK fresh : fresh.data = {} /\ host' = [host EXCEPT ![d] = fresh]
    BY <2>1
  <2>3. UNCHANGED processes /\ diskFaults' \in 0..MaxDiskFaults
    BY <1>3, <1>9 DEF MakeDirectory, serviceVars
  <2> QED
    BY <1>2, <1>4, <2>1, <2>2, <2>3
<1>10. ASSUME NEW s \in Services, BuildDisk(s) PROVE DiskLimits'
  <2>1. task[s] \in DiskTasks /\ task[s].at = "build"
    BY <1>10 DEF BuildDisk, DiskInv, DiskShape, NoStep
  <2>2. task[s].disk \in Disks /\ host[task[s].disk] \in DiskRecords
    BY <2>1 DEF DiskInv, TaskOwned, IsOf, NoStep, DiskTasks
  <2>3. PICK formatted : formatted = [host[task[s].disk] EXCEPT !.is = NextIs[@]]
    OBVIOUS
  <2>4. formatted.data = host[task[s].disk].data /\ host' = [host EXCEPT ![task[s].disk] = formatted]
    BY <1>10, <2>2, <2>3 DEF BuildDisk, DiskRecords
  <2>5. UNCHANGED processes /\ diskFaults' \in 0..MaxDiskFaults
    BY <1>3, <1>10 DEF BuildDisk, serviceVars
  <2> QED
    BY <1>2, <1>4, <2>2, <2>4, <2>5
<1>11. ASSUME NEW s \in Services, EnterPool(s) \/ EndProcess(s) \/ Killed(s) PROVE DiskLimits'
  BY <1>3, <1>4, <1>11 DEF EnterPool, EndProcess, Killed, Ends, serviceVars
<1>12. ASSUME NEW s \in Services, UndoDisk(s) PROVE DiskLimits'
  <2>1. \A d \in Disks : host'[d] \in {host[d], Removed}
    BY <1>2, <1>12 DEF UndoDisk
  <2>2. UNCHANGED processes /\ diskFaults' \in 0..MaxDiskFaults
    BY <1>3, <1>12 DEF UndoDisk, serviceVars
  <2> QED
    BY <1>2, <1>4, <2>1, <2>2
<1>13. ASSUME NEW s \in Services, WriteRoot(s) PROVE DiskLimits'
  <2>1. UNCHANGED processes /\ diskFaults' \in 0..MaxDiskFaults
    BY <1>3, <1>13 DEF WriteRoot, serviceVars
  <2>2. process[s] \in 0..processes
    BY <1>1
  <2>3. PICK d, nr : d = writer[s].root /\ nr = process[s]
    OBVIOUS
  <2>4. d \in Disks
    <3>1. writer[s] # NoStep
      BY <1>13 DEF WriteRoot, NoStep
    <3> QED
      BY <2>3, <3>1 DEF DiskInv, RootOwned
  <2>5. \/ UNCHANGED host
        \/ Exists(d) /\ host' = [host EXCEPT ![d].data = @ \cup {nr}]
        \/ \E fresh : fresh.data = {nr} /\ host' = [host EXCEPT ![d] = fresh]
    BY <1>13, <2>3 DEF WriteRoot
  <2>6. CASE Exists(d) /\ host' = [host EXCEPT ![d].data = @ \cup {nr}]
    <3>1. host[d] \in DiskRecords /\ host[d].data \subseteq 0..processes
      BY <1>2, <2>4, <2>6 DEF DiskLimits, DataWithin
    <3>2. PICK grown : grown = [host[d] EXCEPT !.data = @ \cup {nr}]
      OBVIOUS
    <3>3. grown.data = host[d].data \cup {nr} /\ host' = [host EXCEPT ![d] = grown]
      BY <2>6, <3>1, <3>2 DEF DiskRecords
    <3>4. grown.data \subseteq 0..processes
      BY <2>2, <2>3, <3>1, <3>3
    <3> QED
      BY <1>2, <1>4, <2>1, <2>4, <3>3, <3>4
  <2>7. CASE \E fresh : fresh.data = {nr} /\ host' = [host EXCEPT ![d] = fresh]
    BY <1>2, <1>4, <2>1, <2>2, <2>3, <2>4, <2>7
  <2>8. CASE UNCHANGED host
    BY <1>4, <2>1, <2>8
  <2> QED
    BY <2>5, <2>6, <2>7, <2>8
<1>14. ASSUME NEW s \in Services, StartService(s) PROVE DiskLimits'
  <2>1. processes' = processes + 1 /\ processes < MaxProcesses /\ UNCHANGED <<host, diskFaults>>
    BY <1>14 DEF StartService
  <2>2. DataWithin'
    BY <2>1, DataStays
  <2> QED
    BY <1>1, <2>1, <2>2 DEF DiskLimits, DataWithin
<1>15. ASSUME NEW s \in Services, PurgeResidue(s) \/ CloseRuntime(s) PROVE DiskLimits'
  <2>1. host' = Emptied(s) /\ UNCHANGED <<processes, diskFaults>>
    BY <1>15 DEF PurgeResidue, CloseRuntime
  <2>2. \A d \in Pooled(s) : host[d] \in DiskRecords
    <3>1. \A p \in Isolated : pool[s][p] # NoDisk => host[pool[s][p]] \in DiskRecords
      BY DEF DiskInv, PoolOwned, IsOf
    <3> QED
      BY <3>1 DEF Pooled
  <2>3. \A r \in DiskRecords : [r EXCEPT !.data = {}].data = {}
    BY DEF DiskRecords
  <2>4. \A d \in Disks : host'[d] = host[d] \/ host'[d].data = {}
    BY <2>1, <2>2, <2>3 DEF Emptied
  <2> QED
    BY <1>1, <1>4, <2>1, <2>4
<1> QED
  BY <1>5, <1>6, <1>7, <1>8, <1>9, <1>10, <1>11, <1>12, <1>13, <1>14, <1>15 DEF RamDisksNext

LEMMA DisksTyped ==
    ASSUME DiskInv, DiskLimits
    PROVE  RamDisksTypeOK
<1>1. /\ processes \in 0..MaxProcesses /\ MaxProcesses \in Nat /\ diskFaults \in 0..MaxDiskFaults
      /\ processes \in Nat
  BY RamDisksAssumption DEF DiskLimits
<1>2. 0..processes \subseteq 0..MaxProcesses
  BY <1>1
<1>3. process \in [Services -> 0..MaxProcesses]
  BY <1>1 DEF DiskInv, ServicesApart
<1>4. \A d \in Disks : Exists(d) => host[d] \in DiskRecords
  BY DEF DiskInv, DiskShape, Exists
<1>5. \A d \in Disks : Exists(d) => /\ host[d].is \in {"bare", "marked", "mounted", "ready"}
                                    /\ host[d].project \in Isolated
                                    /\ host[d].data \subseteq 0..MaxProcesses
  BY <1>2, <1>4 DEF DiskRecords, DiskLimits, DataWithin
<1>6. (\A s \in Services : task[s].at \in {"idle", "clean", "make", "build"})
      /\ \A s \in Services : writer[s].at \in {"idle", "resolved"}
  BY DEF DiskInv, DiskShape, DiskTasks, RootWrites, NoStep
<1>7. dataDir \in [Services -> SUBSET (0..MaxProcesses)]
  <2>1. {0} \subseteq 0..MaxProcesses
    BY <1>1
  <2> QED
    BY <2>1 DEF DiskInv, DiskShape, DataDirClean
<1> QED
  BY <1>1, <1>3, <1>5, <1>6, <1>7 DEF DiskInv, DiskShape, ServicesApart, RamDisksTypeOK

\* Places: what those remember who work without startMu.
PlacesLimits ==
    /\ workspace \in [Workspaces -> Providers \cup {New, Gone}]
    /\ disks \subseteq Ephemeral /\ enabled \subseteq Providers /\ up \in BOOLEAN
    /\ remover \in {NoOperation} \cup [op : {"sessions", "delete"}, workspace : Workspaces]
    /\ editor \in {NoOperation} \cup [op : {"write"}, workspace : Workspaces, provider : Providers]
    /\ settings \in {NoOperation} \cup [op : {"sessions", "replace"}, keep : SUBSET Providers]
    /\ placeFaults \in 0..MaxPlaceFaults /\ restarts \in 0..MaxRestarts
    /\ unlockedOps \in 0..MaxUnlocked

LEMMA PlacesTypesStart == PlacesInit => PlacesLimits
<1> SUFFICES ASSUME PlacesInit PROVE PlacesLimits
  OBVIOUS
<1>1. workspace \in [Workspaces -> Providers \cup {New, Gone}]
  BY DEF PlacesInit
<1>2. placeFaults \in 0..MaxPlaceFaults /\ restarts \in 0..MaxRestarts /\ unlockedOps \in 0..MaxUnlocked
  BY PlacesAssumption DEF PlacesInit
<1> QED
  BY <1>1, <1>2 DEF PlacesInit, PlacesLimits

\* Whoever holds startMu changes no workspace and no provider.
LEMMA LockedTypes ==
    ASSUME PlacesLimits, UNCHANGED <<workspace, enabled, unlocked>>, disks' \subseteq Ephemeral,
           placeFaults' = placeFaults \/ PlaceFault
    PROVE  PlacesLimits'
<1>1. placeFaults' \in 0..MaxPlaceFaults
  BY PlacesAssumption DEF PlacesLimits, PlaceFault
<1> QED
  BY <1>1 DEF PlacesLimits, unlocked

LEMMA PlacesTypesKept ==
    ASSUME PlaceInv, PlacesLimits, [PlacesNext]_placeVars
    PROVE  PlacesLimits'
<1>1. /\ workspace \in [Workspaces -> Providers \cup {New, Gone}]
      /\ disks \subseteq Ephemeral /\ enabled \subseteq Providers /\ up \in BOOLEAN
      /\ remover \in {NoOperation} \cup [op : {"sessions", "delete"}, workspace : Workspaces]
      /\ editor \in {NoOperation} \cup [op : {"write"}, workspace : Workspaces, provider : Providers]
      /\ settings \in {NoOperation} \cup [op : {"sessions", "replace"}, keep : SUBSET Providers]
      /\ placeFaults \in 0..MaxPlaceFaults /\ restarts \in 0..MaxRestarts
      /\ unlockedOps \in 0..MaxUnlocked
      /\ MaxRestarts \in Nat /\ MaxUnlocked \in Nat
  BY PlacesAssumption DEF PlacesLimits
<1>2. \A p : Prepare(p) => disks' \subseteq Ephemeral
  BY <1>1 DEF Prepare
<1>3. CASE UNCHANGED placeVars
  BY <1>3, LockedTypes DEF placeVars, PlacesLimits, unlocked
<1>4. ASSUME NEW s \in Sessions, NEW w \in Workspaces, NEW p \in Projects \cup {NoProject},
             NEW v \in Providers, BeginCreateSession(s, w, p, v) \/ BeginMoveSession(s, w, p, v)
      PROVE  PlacesLimits'
  BY <1>1, <1>2, <1>4, LockedTypes DEF BeginCreateSession, BeginMoveSession
<1>5. ASSUME NEW s \in Sessions,
             \/ StartSessionRun(s) \/ EndSessionRun(s) \/ BeginDeleteSession(s)
             \/ DeleteSessionLocked(s) \/ \E store \in {"plans", "notifications"} : RunLeaves(s, store)
      PROVE  PlacesLimits'
  <2>1. UNCHANGED <<workspace, enabled, unlocked>>
    BY <1>5 DEF StartSessionRun, EndSessionRun, BeginDeleteSession, DeleteSessionLocked, RunLeaves
  <2>2. disks' \subseteq Ephemeral
    BY <1>1, <1>2, <1>5
       DEF StartSessionRun, EndSessionRun, BeginDeleteSession, DeleteSessionLocked, RunLeaves
  <2>3. placeFaults' = placeFaults \/ PlaceFault
    BY <1>5 DEF StartSessionRun, EndSessionRun, BeginDeleteSession, DeleteSessionLocked, RunLeaves
  <2> QED
    BY <2>1, <2>2, <2>3, LockedTypes
<1>6. ASSUME NEW p \in Projects, \/ \E w \in Workspaces : BeginCreateProject(p, w)
                                 \/ \E force \in BOOLEAN : BeginDeleteProject(p, force)
      PROVE  PlacesLimits'
  BY <1>1, <1>6, LockedTypes DEF BeginCreateProject, BeginDeleteProject
<1>7. CASE PlaceSession \/ WriteProject \/ PrepareProject \/ ReleaseDisk \/ EndDelete
  <2>1. UNCHANGED <<workspace, enabled, unlocked>> /\ (placeFaults' = placeFaults \/ PlaceFault)
    BY <1>7 DEF PlaceSession, WriteProject, PrepareProject, ReleaseDisk, EndDelete
  <2>2. disks' \subseteq Ephemeral
    BY <1>1, <1>2, <1>7 DEF PlaceSession, WriteProject, PrepareProject, ReleaseDisk, EndDelete
  <2> QED
    BY <2>1, <2>2, LockedTypes
<1>8. Unlocked \/ UNCHANGED unlockedOps => unlockedOps' \in 0..MaxUnlocked
  BY <1>1 DEF Unlocked
<1>9. ASSUME NEW w \in Workspaces, LookAtProjects(w) PROVE PlacesLimits'
  BY <1>1, <1>8, <1>9 DEF LookAtProjects, locked, PlacesLimits
<1>10. ASSUME NEW w \in Workspaces, NEW v \in Providers, BeginEditWorkspace(w, v)
       PROVE  PlacesLimits'
  BY <1>1, <1>8, <1>10 DEF BeginEditWorkspace, locked, PlacesLimits
<1>11. CASE WriteWorkspace
  <2>1. editor \in [op : {"write"}, workspace : Workspaces, provider : Providers]
    BY <1>1, <1>11 DEF WriteWorkspace, NoOperation
  <2>2. workspace' \in [Workspaces -> Providers \cup {New, Gone}]
    BY <1>1, <1>11, <2>1 DEF WriteWorkspace
  <2> QED
    BY <1>1, <1>8, <1>11, <2>2 DEF WriteWorkspace, locked, PlacesLimits
<1>12. CASE LookAtSessions
  <2>1. remover \in [op : {"sessions", "delete"}, workspace : Workspaces]
    BY <1>1, <1>12 DEF LookAtSessions, NoOperation
  <2>2. remover' \in {NoOperation} \cup [op : {"sessions", "delete"}, workspace : Workspaces]
    BY <1>12, <2>1 DEF LookAtSessions
  <2> QED
    BY <1>1, <1>8, <1>12, <2>2 DEF LookAtSessions, locked, PlacesLimits
<1>13. CASE DeleteWorkspace
  <2>1. workspace' \in [Workspaces -> Providers \cup {New, Gone}]
    BY <1>1, <1>13 DEF DeleteWorkspace
  <2> QED
    BY <1>1, <1>8, <1>13, <2>1 DEF DeleteWorkspace, locked, PlacesLimits
<1>14. ASSUME NEW keep \in SUBSET Providers, CheckWorkspaces(keep) PROVE PlacesLimits'
  BY <1>1, <1>8, <1>14 DEF CheckWorkspaces, locked, PlacesLimits
<1>15. CASE CheckSessions
  <2>1. settings \in [op : {"sessions", "replace"}, keep : SUBSET Providers]
    BY <1>1, <1>15 DEF CheckSessions, NoOperation
  <2>2. settings' \in {NoOperation} \cup [op : {"sessions", "replace"}, keep : SUBSET Providers]
    BY <1>15, <2>1 DEF CheckSessions
  <2> QED
    BY <1>1, <1>8, <1>15, <2>2 DEF CheckSessions, locked, PlacesLimits
<1>16. CASE ReplaceProviders
  <2>1. settings \in [op : {"sessions", "replace"}, keep : SUBSET Providers]
    BY <1>1, <1>16 DEF ReplaceProviders, NoOperation
  <2>2. enabled' \subseteq Providers
    BY <1>16, <2>1 DEF ReplaceProviders
  <2> QED
    BY <1>1, <1>8, <1>16, <2>2 DEF ReplaceProviders, locked, PlacesLimits
<1>17. CASE RestartPlaces
  <2>1. /\ disks' \subseteq Ephemeral /\ restarts' \in 0..MaxRestarts
        /\ remover' = NoOperation /\ editor' = NoOperation /\ settings' = NoOperation
        /\ UNCHANGED <<workspace, enabled, placeFaults, unlockedOps>>
    BY <1>1, <1>17 DEF RestartPlaces
  <2>2. up' \in BOOLEAN
    <3>1. up' = Structured'
      BY <1>17 DEF RestartPlaces
    <3> QED
      BY <3>1 DEF Structured
  <2> QED
    BY <1>1, <2>1, <2>2 DEF PlacesLimits
<1> QED
  BY <1>3, <1>4, <1>5, <1>6, <1>7, <1>9, <1>10, <1>11, <1>12, <1>13, <1>14, <1>15, <1>16, <1>17
     DEF PlacesNext, Operation, OperationUnlocked

LEMMA PlacesTyped ==
    ASSUME PlaceInv, PlacesLimits
    PROVE  PlacesTypeOK
<1>1. startMu.op \in {"idle", "place", "project", "prepare", "delete"}
  BY DEF PlaceInv, PlaceShape, Holders, NoOperation
<1>2. /\ remover.op \in {"idle", "sessions", "delete"} /\ editor.op \in {"idle", "write"}
      /\ settings.op \in {"idle", "sessions", "replace"}
  BY DEF PlacesLimits, NoOperation
<1>3. \A s \in Sessions :
        session[s] \in [in : Workspaces, project : Projects \cup {NoProject}, provider : Providers]
                       \cup {Nowhere(New), Nowhere(Gone)}
  BY DEF PlaceInv, PlaceShape, Spots
<1> QED
  BY <1>1, <1>2, <1>3 DEF PlaceInv, PlaceShape, PlacesLimits, PlacesTypeOK

\* The invariants of the components, and what they leave open of the types.
ComponentsInv ==
    /\ ContextInv /\ StoreInv /\ RunStoreInv /\ DecisionInv /\ PlaceInv
    /\ TagsInv /\ ModelInv /\ MemoryInv /\ SettingsInv /\ DiskInv
    /\ BackupInv /\ QuestionInv /\ QuotaInv /\ PlansInv /\ NoticeInv

ComponentsLimits ==
    /\ StoreLimits /\ RunStoreLimits /\ DecisionLimits /\ PlacesLimits /\ ModelLimits
    /\ MemoryLimits /\ SettingsLimits /\ DiskLimits /\ BackupLimits /\ QuotaLimits
    /\ PlansLimits

(* Every component keeps to its type and within its bounds.                *)
THEOREM ComponentsAreTyped == ComponentsSpec => []ComponentsTypeOK
<1> DEFINE Inv == ComponentsInv /\ ComponentsLimits
<1>1. ComponentsInit => Inv
  <2> SUFFICES ASSUME ComponentsInit PROVE Inv
    OBVIOUS
  <2>1. ComponentsInv
    BY ContextStarts, ContextAssumption, StoreInvStarts, RunStoreInvStarts, DecisionInvStarts,
       PlaceInvStarts, TagsStart, ModelInvStarts, MemoryInvStarts, SettingsInvStarts,
       DiskInvStarts, BackupInvStarts, QuestionInvStarts, QuotaInvStarts, PlansInvStarts,
       NoticeInvStarts
       DEF ComponentsInit, ComponentsInv
  <2>2. ComponentsLimits
    BY StoreTypesStart, RunStoreTypesStart, DecisionTypesStart, PlacesTypesStart,
       ModelTypesStart, MemoryTypesStart, SettingsTypesStart, DiskTypesStart, BackupTypesStart,
       QuotaTypesStart, PlansTypesStart
       DEF ComponentsInit, ComponentsLimits
  <2> QED
    BY <2>1, <2>2
<1>2. Inv /\ [ComponentsNext]_componentsVars => Inv'
  <2> SUFFICES ASSUME ComponentsInv, ComponentsLimits, [ComponentsNext]_componentsVars PROVE Inv'
    OBVIOUS
  <2>1. ContextInv' /\ StoreInv' /\ RunStoreInv' /\ DecisionInv' /\ PlaceInv'
    BY FocusSteps, ContextKept, ContextAssumption, StoreInvKept, RunStoreInvKept,
       DecisionInvKept, PlaceInvKept
       DEF ComponentsInv
  <2>2. TagsInv' /\ ModelInv' /\ MemoryInv' /\ SettingsInv' /\ DiskInv'
    BY FocusSteps, TagsKeep, ModelInvKept, MemoryInvKept, SettingsInvKept, DiskInvKept
       DEF ComponentsInv
  <2>3. BackupInv' /\ QuestionInv' /\ QuotaInv' /\ PlansInv' /\ NoticeInv'
    BY FocusSteps, BackupInvKept, QuestionInvKept, QuotaInvKept, PlansInvKept, NoticeInvKept
       DEF ComponentsInv
  <2>4. StoreLimits' /\ RunStoreLimits' /\ DecisionLimits' /\ PlacesLimits' /\ ModelLimits'
    BY FocusSteps, StoreTypesKept, RunStoreTypesKept, DecisionTypesKept, PlacesTypesKept,
       ModelTypesKept
       DEF ComponentsInv, ComponentsLimits
  <2>5. MemoryLimits' /\ SettingsLimits' /\ DiskLimits' /\ BackupLimits' /\ QuotaLimits' /\ PlansLimits'
    BY FocusSteps, MemoryTypesKept, SettingsTypesKept, DiskTypesKept, BackupTypesKept,
       QuotaTypesKept, PlansTypesKept
       DEF ComponentsInv, ComponentsLimits
  <2> QED
    BY <2>1, <2>2, <2>3, <2>4, <2>5 DEF ComponentsInv, ComponentsLimits
<1>3. Inv => ComponentsTypeOK
  <2> SUFFICES ASSUME ComponentsInv, ComponentsLimits PROVE ComponentsTypeOK
    OBVIOUS
  <2>1. ContextTypeOK /\ StoreTypeOK /\ RunStoreTypeOK /\ DecisionsTypeOK /\ PlacesTypeOK
    BY ContextTyped, StoreTyped, RunStoreTyped, DecisionsTyped, PlacesTyped
       DEF ComponentsInv, ComponentsLimits
  <2>2. TagsTypeOK /\ ModelTypeOK /\ MemoryTypeOK /\ SettingsTypeOK /\ RamDisksTypeOK
    BY ModelTyped, MemoryTyped, SettingsTyped, DisksTyped
       DEF ComponentsInv, ComponentsLimits, TagsInv
  <2>3. BackupTypeOK /\ QuestionTypeOK /\ QuotaTypeOK /\ PlanStepsTypeOK /\ NoticesTypeOK
    BY BackupTyped, QuestionInvHolds, QuotaTyped, PlansTyped, NoticesTyped
       DEF ComponentsInv, ComponentsLimits
  <2> QED
    BY <2>1, <2>2, <2>3 DEF ComponentsTypeOK
<1> QED
  BY <1>1, <1>2, <1>3, PTL DEF ComponentsSpec

=============================================================================
