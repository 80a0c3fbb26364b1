------------------------------- MODULE Quota --------------------------------
(* The quota of an account that is signed in: a snapshot, which the timer, *)
(* the change of a setting and a redeemed credit renew one at a time, in   *)
(* two reads each, and the redemption of a credit, which can be sent again *)
(* by its client when the answer was lost.  The account is external: what  *)
(* is known of it is how the code uses it.                                 *)
EXTENDS Naturals, FiniteSets

CONSTANTS
    MaxCredits,    \* the credits of the upstream, the one that expires first is 1
    Redeemers,     \* the clients that redeem, each with a key of its own
    MaxQuotaFaults \* bound: requests to the upstream that fail

VARIABLES
    upstream,    \* the upstream: the credits left, how often it was reset, who was served
    signedIn,   \* whether it takes the authorization
    snapshot,   \* the last known quota: its age in resets, the credits, or none
    refresher,  \* the holder of usageRefreshMu
    quotaWork,  \* [a |-> where the refresh or the redemption is]
    quotaFaults

quotaVars == <<upstream, signedIn, snapshot, refresher, quotaWork, quotaFaults>>

ASSUME QuotaAssumption ==
    MaxCredits \in Nat /\ MaxQuotaFaults \in Nat /\ {"timer", "none"} \intersect Redeemers = {}

-----------------------------------------------------------------------------
CreditIds == 1..MaxCredits
Actors == Redeemers \union {"timer"}
Earliest(C) == IF C = {} THEN 0 ELSE CHOOSE c \in C : \A d \in C : c <= d
NoQuota == [known |-> FALSE, resets |-> 0, credits |-> {}]
AtRest == [at |-> "rest", asked |-> 0, credit |-> 0, outcome |-> "none", resets |-> 0,
           seen |-> NoQuota, fresh |-> FALSE]

QuotaInit ==
    /\ upstream = [credits |-> CreditIds, resets |-> 0, served |-> [a \in Redeemers |-> {}]]
    /\ signedIn = TRUE /\ snapshot = NoQuota /\ refresher = "none"
    /\ quotaWork = [a \in Actors |-> AtRest] /\ quotaFaults = 0

QuotaTypeOK ==
    /\ upstream.credits \subseteq CreditIds /\ upstream.resets \in 0..MaxCredits
    /\ signedIn \in BOOLEAN /\ refresher \in Actors \union {"none"}
    /\ snapshot.known \in BOOLEAN /\ snapshot.resets \in 0..MaxCredits
    /\ snapshot.credits \subseteq CreditIds
    /\ \A a \in Actors :
          /\ quotaWork[a].at \in {"rest", "pick", "consume", "lock", "ask", "windows",
                              "details"}
          /\ quotaWork[a].outcome \in {"none", "error", "reset", "nothing_to_reset", "no_credit",
                                       "already_redeemed"}

QuotaFault == quotaFaults < MaxQuotaFaults /\ quotaFaults' = quotaFaults + 1
NoFault == UNCHANGED quotaFaults
Becomes(a, w) == quotaWork' = [quotaWork EXCEPT ![a] = w]

(* A request to the account that comes to nothing: lost, or, when the      *)
(* authorization is refused, with the snapshot dropped.                    *)
Unread == \/ QuotaFault /\ UNCHANGED snapshot
          \/ ~signedIn /\ NoFault /\ snapshot' = NoQuota

-----------------------------------------------------------------------------
(* RefreshProviderUsage, of the timer or after a reset.  A second refresh  *)
(* of the timer is not begun; all the others wait for their turn.          *)
TimerTicks ==
    /\ quotaWork["timer"].at = "rest"
    /\ Becomes("timer", [AtRest EXCEPT !.at = "lock"])
    /\ UNCHANGED <<upstream, signedIn, snapshot, refresher, quotaFaults>>

(* Bug: refreshes overlap.                                                 *)
LocksNothing(a) ==
    /\ quotaWork[a].at = "lock"
    /\ refresher' = a /\ Becomes(a, [quotaWork[a] EXCEPT !.at = "ask"])
    /\ UNCHANGED <<upstream, signedIn, snapshot, quotaFaults>>

LocksRefresh(a) ==
    /\ quotaWork[a].at = "lock" /\ refresher = "none"
    /\ refresher' = a /\ Becomes(a, [quotaWork[a] EXCEPT !.at = "ask"])
    /\ UNCHANGED <<upstream, signedIn, snapshot, quotaFaults>>

RefreshEnds(a, ok) ==
    Becomes(a, IF a = "timer" THEN AtRest ELSE [quotaWork[a] EXCEPT !.at = "rest", !.fresh = ok])

(* The account answers, with all of it or not at all.                      *)
ReadsUsage(a) ==
    /\ quotaWork[a].at = "ask"
    /\ \/ /\ signedIn /\ NoFault /\ UNCHANGED <<snapshot, refresher>>
          /\ Becomes(a, [quotaWork[a] EXCEPT !.at = "windows",
                           !.seen = [known |-> TRUE, resets |-> upstream.resets,
                                     credits |-> upstream.credits]])
       \/ Unread /\ refresher' = "none" /\ RefreshEnds(a, FALSE)
    /\ UNCHANGED <<upstream, signedIn>>

(* The windows are stored once the whole answer was found to be good.      *)
StoresWindows(a) ==
    /\ quotaWork[a].at = "windows"
    /\ snapshot' = [snapshot EXCEPT !.known = TRUE, !.resets = quotaWork[a].seen.resets]
    /\ Becomes(a, [quotaWork[a] EXCEPT !.at = "details"])
    /\ UNCHANGED <<upstream, signedIn, refresher, quotaFaults>>

(* The details come from a read of their own; where it fails, from what    *)
(* the first one brought along, which may be nothing.                      *)
StoresCredits(a) ==
    /\ quotaWork[a].at = "details" /\ refresher' = "none" /\ RefreshEnds(a, TRUE)
    /\ LET seen == quotaWork[a].seen.credits
           KeptWith(before, C) == snapshot' = [before EXCEPT !.credits = C]
       IN  \/ seen = {} /\ NoFault /\ KeptWith(snapshot, {})
           \/ seen # {} /\ signedIn /\ NoFault /\ upstream.credits # {}
              /\ KeptWith(snapshot, upstream.credits)
           \/ seen # {} /\ (QuotaFault \/ (signedIn /\ NoFault /\ upstream.credits = {}))
              /\ (KeptWith(snapshot, seen) \/ KeptWith(snapshot, {}))
           \/ seen # {} /\ ~signedIn /\ NoFault /\ KeptWith(NoQuota, seen)
    /\ UNCHANGED <<upstream, signedIn>>

-----------------------------------------------------------------------------
(* A client redeems: the console one of the credits it shows, another      *)
(* client whichever expires first.  When the answer was lost it sends the  *)
(* same again, with the same key.                                          *)
Redeems(a) ==
    /\ quotaWork[a].at = "rest" /\ quotaWork[a].outcome \in {"none", "error"}
    /\ \E c \in IF quotaWork[a].outcome = "none" THEN snapshot.credits \union {0}
                ELSE {quotaWork[a].asked} :
          Becomes(a, [AtRest EXCEPT !.at = "pick", !.asked = c, !.credit = c])
    /\ UNCHANGED <<upstream, signedIn, snapshot, refresher, quotaFaults>>

Picks(a) ==
    /\ quotaWork[a].at = "pick"
    /\ \/ /\ quotaWork[a].asked # 0 \/ signedIn
          /\ NoFault /\ UNCHANGED snapshot
          /\ Becomes(a, [quotaWork[a] EXCEPT !.at = "consume",
                           !.credit = IF @ = 0 THEN Earliest(upstream.credits) ELSE @])
       \/ quotaWork[a].asked = 0 /\ Unread /\ Becomes(a, [quotaWork[a] EXCEPT !.at = "consume"])
    /\ UNCHANGED <<upstream, signedIn, refresher>>

(* Bug: each sending has a key of its own.                                 *)
FreshKey(a) == FALSE

(* What the account does: a key is served once, a credit is used once, and *)
(* where none is named it takes the one that expires first.                *)
AlreadyServed(a) == upstream.served[a] # {}

AccountSays(a) ==
    LET c == IF quotaWork[a].credit = 0 THEN Earliest(upstream.credits) ELSE quotaWork[a].credit
    IN  IF AlreadyServed(a) THEN {<<"already_redeemed", 0>>}
        ELSE IF c \notin upstream.credits THEN {<<"no_credit", 0>>}
        ELSE {<<"reset", c>>, <<"nothing_to_reset", 0>>}

Consumes(a) ==
    /\ quotaWork[a].at = "consume" /\ UNCHANGED <<signedIn, refresher>>
    /\ \/ signedIn /\ \E said \in AccountSays(a) :
             /\ upstream' = IF said[1] # "reset" THEN upstream
                           ELSE [upstream EXCEPT !.credits = @ \ {said[2]}, !.resets = @ + 1,
                                                !.served[a] = @ \union {said[2]}]
             /\ UNCHANGED snapshot
             /\ \/ /\ NoFault
                   /\ Becomes(a, [quotaWork[a] EXCEPT !.outcome = said[1],
                                    !.resets = upstream'.resets,
                                    !.at = IF said[1] = "reset" THEN "lock" ELSE "rest"])
                \/ /\ QuotaFault
                   /\ Becomes(a, [quotaWork[a] EXCEPT !.outcome = "error", !.at = "rest"])
       \/ /\ Unread /\ UNCHANGED upstream
          /\ Becomes(a, [quotaWork[a] EXCEPT !.outcome = "error", !.at = "rest"])

(* The account is signed out of, or refuses what it was given.             *)
SignsOut ==
    /\ signedIn /\ signedIn' = FALSE
    /\ UNCHANGED <<upstream, snapshot, refresher, quotaWork, quotaFaults>>

QuotaNext ==
    \/ TimerTicks \/ SignsOut
    \/ \E a \in Actors : LocksRefresh(a) \/ ReadsUsage(a) \/ StoresWindows(a)
                          \/ StoresCredits(a)
    \/ \E a \in Redeemers : Redeems(a) \/ Picks(a) \/ Consumes(a)

-----------------------------------------------------------------------------
(* However often a redemption is sent, one credit is spent, the one that   *)
(* was asked for if any; it is called a reset when it was one; and once    *)
(* the refresh after it is done no refresh that began before it brings the *)
(* old quota back.                                                         *)
QuotaHolds ==
    \A a \in Redeemers :
        LET w == quotaWork[a] IN
        /\ Cardinality(upstream.served[a]) <= 1
        /\ w.asked # 0 => upstream.served[a] \subseteq {w.asked}
        /\ w.outcome \in {"reset", "already_redeemed"} => upstream.served[a] # {}
        /\ w.outcome \in {"no_credit", "nothing_to_reset"} => upstream.served[a] = {}
        /\ w.at = "rest" /\ w.outcome = "reset" /\ w.fresh /\ snapshot.known =>
              snapshot.resets >= w.resets
=============================================================================
