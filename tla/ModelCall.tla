------------------------------ MODULE ModelCall ------------------------------
(***************************************************************************)
(* The calls of a run to its language model: the retries and the decoders  *)
(* of the OpenAI-compatible adapter (adapters/openaicompat) under the      *)
(* token account of the run (harness/model_budget.go).                     *)
(*                                                                         *)
(* The provider is outside: it means one answer, a text and the arguments  *)
(* of a tool call, both counted in units, and sends it in deltas, in one   *)
(* piece, or in deltas that later events repeat in full.  A unit costs one *)
(* token, as the prompt does.                                              *)
(***************************************************************************)
EXTENDS Integers, Sequences

CONSTANTS
    Meant,         \* units the provider means to send: [text |-> , args |-> ]
    MaxAttempts,   \* Model.maxAttempts
    TokenBudget,     \* RunBudget.MaxTokens
    MaxModelFaults,\* bound: connections, streams and events that fail
    MaxModelCalls  \* bound: calls of the run

Fields == {"text", "args"}
Protocols == {"chat", "json", "codex"}

ASSUME CallBounds ==
    /\ Meant \in [Fields -> Nat] /\ MaxAttempts \in Nat \ {0} /\ TokenBudget \in Nat
    /\ MaxModelFaults \in Nat /\ MaxModelCalls \in Nat

VARIABLES
    call,       \* stage, protocol, attempt, and whether output was passed on
    sent,       \* units the provider has sent in this attempt
    built,      \* what the decoder has put together
    shown,      \* what has reached the run in this call
    account,    \* the tracker: tokens, and tokenStop
    modelCtx,   \* the context of the run
    modelFaults, modelCalls

modelVars == <<call, sent, built, shown, account, modelCtx, modelFaults, modelCalls>>

Prompt  == 1
Nothing == [f \in Fields |-> <<>>]
NothingSent  == [f \in Fields |-> 0]
Full(f) == [i \in 1..Meant[f] |-> i]
Rested  == [stage |-> "idle", protocol |-> "chat", attempt |-> 1, emitted |-> FALSE]

ModelInit ==
    /\ call = Rested /\ sent = NothingSent /\ built = Nothing /\ shown = Nothing
    /\ account = [tokens |-> 0, stop |-> FALSE]
    /\ modelCtx = "live" /\ modelFaults = 0 /\ modelCalls = 0

Units(out) == Len(out["text"]) + Len(out["args"])
Spends(tokens) == TokenBudget > 0 /\ account.tokens + tokens >= TokenBudget
ModelFault == modelFaults < MaxModelFaults /\ modelFaults' = modelFaults + 1
MoveTo(stage) == call' = [call EXCEPT !.stage = stage]
Outside == <<modelCtx, modelCalls>>

-----------------------------------------------------------------------------
(* streamWithBudget.                                                       *)

(* A prompt that would use the budget up is not sent, and no call follows. *)
BeginCall ==
    /\ call.stage = "idle" /\ modelCalls < MaxModelCalls /\ modelCalls' = modelCalls + 1
    /\ ~account.stop /\ ~Spends(0)
    /\ sent' = NothingSent /\ built' = Nothing /\ shown' = Nothing
    /\ IF Spends(Prompt) THEN account' = [account EXCEPT !.stop = TRUE] /\ UNCHANGED call
       ELSE /\ UNCHANGED account
            /\ \E p \in Protocols : call' = [Rested EXCEPT !.stage = "sending", !.protocol = p]
    /\ UNCHANGED <<modelCtx, modelFaults>>

(* Bug: the arguments of a tool call are passed on uncounted.              *)
PassUncounted(f, units) ==
    IF f = "text" /\ Spends(Prompt + Units(shown) + Len(units))
    THEN /\ MoveTo("failed") /\ account' = [account EXCEPT !.stop = TRUE]
         /\ UNCHANGED <<shown, modelFaults>>
    ELSE /\ call' = [call EXCEPT !.emitted = TRUE]
         /\ shown' = [shown EXCEPT ![f] = @ \o units] /\ UNCHANGED <<account, modelFaults>>

(* The sink: what the budget does not cover is not passed on, and the run  *)
(* may fail to take what is.  Neither is retried.                          *)
Pass(f, units) ==
    \/ /\ Spends(Prompt + Units(shown) + Len(units))
       /\ MoveTo("failed") /\ account' = [account EXCEPT !.stop = TRUE]
       /\ UNCHANGED <<shown, modelFaults>>
    \/ /\ ~Spends(Prompt + Units(shown) + Len(units))
       /\ \/ /\ call' = [call EXCEPT !.emitted = TRUE]
             /\ shown' = [shown EXCEPT ![f] = @ \o units] /\ UNCHANGED modelFaults
          \/ ModelFault /\ MoveTo("failed") /\ UNCHANGED shown
       /\ UNCHANGED account

(* The call is over: its reported usage is charged, or the estimate.       *)
Charge ==
    /\ call.stage \in {"answered", "failed"} /\ call' = [call EXCEPT !.stage = "idle"]
    /\ \E reported \in IF call.stage = "answered" THEN {0, Prompt + Units(shown) + 1} ELSE {0} :
          account' = [account EXCEPT !.tokens = @ +
                         IF reported > 0 THEN reported ELSE Prompt + Units(shown)]
    /\ UNCHANGED <<sent, built, shown, Outside, modelFaults>>

-----------------------------------------------------------------------------
(* Model.Stream and streamCodex.                                           *)

(* Bug: an attempt is repeated whatever the run has seen of it.            *)
GiveUpOrRepeat(retryable) ==
    MoveTo(IF modelCtx # "live" \/ ~retryable \/ call.attempt = MaxAttempts
         THEN "failed" ELSE "waiting")

(* An attempt that has shown nothing is repeated.                          *)
GiveUp(retryable) ==
    MoveTo(IF modelCtx # "live" \/ ~retryable \/ call.emitted \/ call.attempt = MaxAttempts
         THEN "failed" ELSE "waiting")

(* executeAttempt: the request is answered, or it is not: no authorization,*)
(* no connection, or a status that tells whether to try again.             *)
SendRequest ==
    /\ call.stage = "sending"
    /\ \/ modelCtx = "live" /\ MoveTo("reading") /\ UNCHANGED modelFaults
       \/ ModelFault /\ \E retryable \in BOOLEAN : GiveUp(retryable)
       \/ modelCtx # "live" /\ MoveTo("failed") /\ UNCHANGED modelFaults
    /\ sent' = NothingSent /\ built' = Nothing
    /\ UNCHANGED <<shown, account, Outside>>

(* The stream is cut, or carries an error that can be repeated or not.     *)
Break ==
    /\ call.stage = "reading" /\ ModelFault
    /\ \E retryable \in BOOLEAN : GiveUp(retryable)
    /\ UNCHANGED <<sent, built, shown, account, Outside>>

(* The wait before the next attempt, which a cancel ends.                  *)
TryAgain ==
    /\ call.stage = "waiting"
    /\ IF modelCtx = "live"
       THEN call' = [call EXCEPT !.stage = "sending", !.attempt = @ + 1, !.emitted = FALSE]
       ELSE MoveTo("failed")
    /\ UNCHANGED <<sent, built, shown, account, Outside, modelFaults>>

CancelModel ==
    /\ modelCtx = "live" /\ call.stage # "idle" /\ modelCtx' = "canceled"
    /\ UNCHANGED <<call, sent, built, shown, account, modelCalls, modelFaults>>

(* The body of a canceled request breaks off.                              *)
BodyBreaksOff ==
    /\ call.stage = "reading" /\ modelCtx # "live" /\ MoveTo("failed")
    /\ UNCHANGED <<sent, built, shown, account, Outside, modelFaults>>

-----------------------------------------------------------------------------
(* The decoders.                                                           *)

Reads == call.stage = "reading" /\ modelCtx = "live"
Adds(f, units) == built' = [built EXCEPT ![f] = @ \o units] /\ Pass(f, units)

(* One delta of the text or of the arguments.                              *)
Delta(f) ==
    /\ Reads /\ call.protocol # "json" /\ sent[f] < Meant[f]
    /\ sent' = [sent EXCEPT ![f] = @ + 1] /\ Adds(f, <<sent[f] + 1>>)
    /\ UNCHANGED Outside

(* Bug: what a later event repeats is taken for new.                       *)
TrimNothing(f) == Full(f)

(* appendCodexArguments and consumeCodexCompleted: of an event that repeats*)
(* the whole only the rest is new, and nothing when it does not continue   *)
(* what there is.                                                          *)
Trim(f) ==
    IF SubSeq(Full(f), 1, Len(built[f])) = built[f]
    THEN SubSeq(Full(f), Len(built[f]) + 1, Meant[f]) ELSE <<>>

(* output_item.done, function_call_arguments.done, response.completed.     *)
Repeat(f) ==
    /\ Reads /\ call.protocol = "codex"
    /\ sent' = [sent EXCEPT ![f] = Meant[f]]
    /\ IF Trim(f) = <<>> THEN UNCHANGED <<built, call, shown, account, modelFaults>>
       ELSE Adds(f, Trim(f))
    /\ UNCHANGED Outside

(* decodeJSONResponse: the text, then the arguments, of a whole answer.    *)
Whole(f) ==
    /\ Reads /\ call.protocol = "json" /\ sent[f] < Meant[f]
    /\ f = "args" => sent["text"] = Meant["text"]
    /\ sent' = [sent EXCEPT ![f] = Meant[f]] /\ Adds(f, Full(f))
    /\ UNCHANGED Outside

(* finish_reason, [DONE] or response.completed; a stream that ends without *)
(* it is Break.  The usage event may be the one that goes over the budget. *)
Finished ==
    /\ Reads /\ sent = Meant
    /\ \/ MoveTo("answered") /\ UNCHANGED account
       \/ /\ Spends(Prompt + Units(shown) + 1)
          /\ MoveTo("failed") /\ account' = [account EXCEPT !.stop = TRUE]
    /\ UNCHANGED <<sent, built, shown, Outside, modelFaults>>

ModelNext ==
    \/ BeginCall \/ SendRequest \/ Break \/ TryAgain \/ BodyBreaksOff \/ Finished \/ Charge \/ CancelModel
    \/ \E f \in Fields : Delta(f) \/ Repeat(f) \/ Whole(f)

ModelSpec == ModelInit /\ [][ModelNext]_modelVars

-----------------------------------------------------------------------------
ModelTypeOK ==
    /\ call.stage \in {"idle", "sending", "reading", "waiting", "answered", "failed"}
    /\ call.protocol \in Protocols /\ call.attempt \in 1..MaxAttempts /\ call.emitted \in BOOLEAN
    /\ sent \in [Fields -> Nat] /\ \A f \in Fields : sent[f] <= Meant[f]
    /\ built \in [Fields -> Seq(Nat)] /\ shown \in [Fields -> Seq(Nat)]
    /\ account.tokens \in Nat /\ account.stop \in BOOLEAN
    /\ modelCtx \in {"live", "canceled"}
    /\ modelFaults \in 0..MaxModelFaults /\ modelCalls \in 0..MaxModelCalls

(* What a run has seen of an answer is its beginning, each part once, over *)
(* all attempts and repetitions, and the answer it is given is the one it  *)
(* has seen, complete.                                                     *)
AnswerIsShown ==
    /\ \A f \in Fields : \A i \in DOMAIN shown[f] : shown[f][i] = i
    /\ call.stage = "answered" => built = shown /\ \A f \in Fields : built[f] = Full(f)

(* Nothing reaches a run that its token budget does not cover.             *)
ShownIsCovered ==
    call.stage # "idle" /\ TokenBudget > 0 =>
        account.tokens + Prompt + Units(shown) < TokenBudget

(* What a run is shown is the answer, and it is paid for.                  *)
AnswerIsTrue == AnswerIsShown /\ ShownIsCovered
=============================================================================
