-------------------------------- MODULE SignIn --------------------------------
(***************************************************************************)
(* Signing in to a model provider (providerauth/oauth.go).  One flow at a  *)
(* time owns the callback port: Start opens it, and a callback, a timer,   *)
(* Disconnect or a goroutine started for it closes it.  A flow ends in a   *)
(* record with a refresh token, which AccessToken exchanges for the next   *)
(* one while it holds storeMu.  The authorization server accepts a code    *)
(* and a refresh token once.                                               *)
(*                                                                         *)
(* One provider; its records are the token they hold.  What the callback   *)
(* page shows and the contents of the tokens are left out.                 *)
(***************************************************************************)
EXTENDS Naturals, FiniteSets

CONSTANTS
    Callbacks,      \* requests to the callback page
    Askers,         \* requests that need an access token
    MaxFlows,       \* bound: calls of Start
    MaxTokens,      \* bound: refresh tokens issued
    MaxAuthFaults   \* bound: answers of the server and writes that are lost

NoAsker == "nobody"

ASSUME SignInBounds ==
    /\ {MaxFlows, MaxTokens, MaxAuthFaults} \subseteq Nat
    /\ NoAsker \notin Askers /\ IsFiniteSet(Callbacks)

VARIABLES
    flows,      \* flows started so far
    flow,       \* Manager.pending: the flow, 0 for none, and its status
    port,       \* Manager.server and listener: the flow they belong to, or 0
    timers,     \* the flows whose expirePending waits
    closers,    \* goroutines of shutdownCallbackServer
    callback,   \* where each request to the callback page is
    leaving,    \* Disconnect has stopped the flow and will delete the record
    codes,      \* the flows whose code was exchanged
    token,      \* the refresh token of the record, 0 for none
    issued,     \* refresh tokens issued so far
    uses,       \* how often each was presented
    storeMu,    \* who holds the store, or NoAsker
    asker,      \* what each AccessToken holds
    authFaults

flowVars   == <<flows, flow, port, timers, closers, callback, leaving, codes>>
tokenVars  == <<token, issued, uses, storeMu, asker>>
signInVars == <<flowVars, tokenVars, authFaults>>

NoFlow  == [id |-> 0, status |-> "none"]
Away    == [at |-> "away", id |-> 0]

SignInInit ==
    /\ flows = 0 /\ flow = NoFlow /\ port = 0 /\ timers = {} /\ closers = 0
    /\ callback = [c \in Callbacks |-> Away] /\ leaving = FALSE /\ codes = {}
    /\ token = 0 /\ issued = 0 /\ uses = [t \in 1..MaxTokens |-> 0]
    /\ storeMu = NoAsker /\ asker = [a \in Askers |-> 0] /\ authFaults = 0

AuthFault == authFaults < MaxAuthFaults /\ authFaults' = authFaults + 1

(* failPending.                                                            *)
FailFlow(id) ==
    flow' = IF flow.id = id THEN [flow EXCEPT !.status = "failed"] ELSE flow

Start ==
    /\ port = 0 /\ flows < MaxFlows
    /\ flows' = flows + 1 /\ port' = flows + 1 /\ timers' = timers \cup {flows + 1}
    /\ flow' = [id |-> flows + 1, status |-> "pending"]
    /\ UNCHANGED <<closers, callback, leaving, codes, tokenVars, authFaults>>

(* Serve returns with an error; the port stays taken.                      *)
ServeFails ==
    /\ port # 0 /\ FailFlow(port)
    /\ UNCHANGED <<flows, port, timers, closers, callback, leaving, codes, tokenVars, authFaults>>

(* handleCallback: a request for another flow, or a late one, is turned    *)
(* away; one that brings an error or no code ends the flow.                *)
Ends(c, id) ==
    /\ callback' = [callback EXCEPT ![c] = [at |-> "gone", id |-> id]]
    /\ FailFlow(id) /\ closers' = closers + 1

Arrive(c) ==
    /\ callback[c].at = "away" /\ port # 0 /\ flow.id # 0 /\ flow.id \in timers
    /\ \/ Ends(c, flow.id)
       \/ /\ callback' = [callback EXCEPT ![c] = [at |-> "exchange", id |-> flow.id]]
          /\ UNCHANGED <<flow, closers>>
    /\ UNCHANGED <<flows, port, timers, leaving, codes, tokenVars, authFaults>>

(* The code is exchanged; a flow that is no longer pending was canceled.   *)
Exchange(c) ==
    /\ callback[c].at = "exchange"
    /\ LET id == callback[c].id
       IN  \/ Ends(c, id) /\ UNCHANGED codes
           \/ /\ id \notin codes /\ codes' = codes \cup {id}
              /\ callback' = [callback EXCEPT ![c].at =
                   IF flow = [id |-> id, status |-> "pending"] THEN "store" ELSE "gone"]
              /\ UNCHANGED <<flow, closers>>
    /\ UNCHANGED <<flows, port, timers, leaving, tokenVars, authFaults>>

(* putRecord.                                                              *)
StoreRecord(c) ==
    /\ callback[c].at = "store" /\ storeMu = NoAsker
    /\ \/ /\ issued < MaxTokens /\ issued' = issued + 1 /\ token' = issued + 1
          /\ callback' = [callback EXCEPT ![c].at = "stored"]
          /\ UNCHANGED <<flow, closers, authFaults>>
       \/ AuthFault /\ Ends(c, callback[c].id) /\ UNCHANGED <<issued, token>>
    /\ UNCHANGED <<flows, port, timers, leaving, codes, uses, storeMu, asker>>

Complete(c) ==
    /\ callback[c].at = "stored"
    /\ callback' = [callback EXCEPT ![c].at = "gone"] /\ closers' = closers + 1
    /\ flow' = IF flow.id = callback[c].id THEN NoFlow ELSE flow
    /\ UNCHANGED <<flows, port, timers, leaving, codes, tokenVars, authFaults>>

(* It closes the server that is there when it runs.                        *)
ShutdownServer ==
    /\ closers > 0 /\ closers' = closers - 1 /\ port' = 0
    /\ UNCHANGED <<flows, flow, timers, callback, leaving, codes, tokenVars, authFaults>>

(* Bug: the flow has failed, its port stays taken.                         *)
ExpireFlowOnly(id) ==
    /\ id \in timers /\ timers' = timers \ {id} /\ FailFlow(id)
    /\ UNCHANGED <<flows, port, closers, callback, leaving, codes, tokenVars, authFaults>>

(* expirePending, after flowLifetime.                                      *)
ExpireFlow(id) ==
    /\ id \in timers /\ timers' = timers \ {id} /\ FailFlow(id)
    /\ port' = IF flow.id = id THEN 0 ELSE port
    /\ UNCHANGED <<flows, closers, callback, leaving, codes, tokenVars, authFaults>>

(* Disconnect: stopPending, and then the record.                           *)
StopFlow ==
    /\ ~leaving /\ leaving' = TRUE
    /\ IF flow.id # 0 THEN flow' = NoFlow /\ port' = 0 ELSE UNCHANGED <<flow, port>>
    /\ UNCHANGED <<flows, timers, closers, callback, codes, tokenVars, authFaults>>

DeleteRecord ==
    /\ leaving /\ leaving' = FALSE /\ storeMu = NoAsker
    /\ token' = 0
    /\ UNCHANGED <<flows, flow, port, timers, closers, callback, codes, issued, uses, storeMu,
                   asker, authFaults>>

(* Bug: the store is locked for reading and for writing, not in between.   *)
BeginUnlocked(a) ==
    /\ asker[a] = 0 /\ storeMu = NoAsker /\ token # 0
    /\ asker' = [asker EXCEPT ![a] = token]
    /\ UNCHANGED <<flowVars, token, issued, uses, storeMu, authFaults>>

(* AccessToken: an access token that is about to expire is refreshed, with *)
(* the store locked until the answer is saved.                             *)
BeginRefresh(a) ==
    /\ asker[a] = 0 /\ storeMu = NoAsker /\ token # 0
    /\ storeMu' = a /\ asker' = [asker EXCEPT ![a] = token]
    /\ UNCHANGED <<flowVars, token, issued, uses, authFaults>>

Refresh(a) ==
    /\ asker[a] # 0
    /\ uses' = [uses EXCEPT ![asker[a]] = @ + 1]
    /\ asker' = [asker EXCEPT ![a] = 0] /\ storeMu' = NoAsker
    /\ \/ /\ issued < MaxTokens /\ issued' = issued + 1 /\ token' = issued + 1
          /\ UNCHANGED authFaults
       \/ AuthFault /\ UNCHANGED <<issued, token>>
    /\ UNCHANGED flowVars

SignInNext ==
    \/ Start \/ ServeFails \/ ShutdownServer \/ StopFlow \/ DeleteRecord
    \/ \E c \in Callbacks : Arrive(c) \/ Exchange(c) \/ StoreRecord(c) \/ Complete(c)
    \/ \E id \in 1..MaxFlows : ExpireFlow(id)
    \/ \E a \in Askers : BeginRefresh(a) \/ Refresh(a)

(* Timers fire and goroutines run.  No callback ever has to come.          *)
SignInGoesOn == (\E id \in 1..MaxFlows : ExpireFlow(id)) \/ ShutdownServer
SignInFairness == WF_signInVars(SignInGoesOn)

SignInSpec == SignInInit /\ [][SignInNext]_signInVars /\ SignInFairness

SignInTypeOK ==
    /\ flows \in 0..MaxFlows /\ port \in 0..flows /\ timers \subseteq 1..flows
    /\ flow \in [id : 1..flows, status : {"pending", "failed"}] \cup {NoFlow}
    /\ closers \in 0..Cardinality(Callbacks) /\ leaving \in BOOLEAN /\ codes \subseteq 1..flows
    /\ callback \in [Callbacks -> [at : {"away", "exchange", "store", "stored", "gone"},
                                   id : 0..flows]]
    /\ issued \in 0..MaxTokens /\ token \in 0..issued /\ asker \in [Askers -> 0..issued]
    /\ storeMu \in Askers \cup {NoAsker} /\ authFaults \in 0..MaxAuthFaults

(* A refresh token is presented once, whoever asks at the same time: the   *)
(* server takes a second time for theft and ends the sign-in.  (An answer  *)
(* that is lost leaves the old token in the store: oauth.go:270-284.)      *)
TokenPresentedOnce ==
    authFaults = 0 => \A t \in 1..issued : uses[t] <= 1

(* A flow has the callback port and keeps every other sign-in out.  It may *)
(* be abandoned, fail, or be answered twice (oauth.go:171-175, 495-520,    *)
(* 551-566).                                                               *)
PortTaken == port # 0
=============================================================================
