----------------------------- MODULE Questions ------------------------------
(* A run asks its user to choose (the tool ask_user): the coordinator      *)
(* keeps the questions that wait, the console shows one dialog at a time   *)
(* over the events of all sessions, and an answer travels back by its own  *)
(* request.  The tool repeats the event, waits for a limited time, and     *)
(* goes on without an answer.                                              *)
EXTENDS Naturals, Sequences, FiniteSets

CONSTANTS
    AskIds,      \* the questions asked, each by a session of its own
    Chosen,      \* the answers a user may choose or write, "cancel" not among them
    MaxWaiting,  \* questions that may wait at a time
    MaxBeats,    \* bound: repetitions of a question
    MaxPosts     \* bound: answers postings

VARIABLES
    ask,       \* [q |-> where the call is, what came of it]
    askCtx,    \* [q |-> how the context of the call stands]
    beat,      \* [q |-> the goroutine that repeats: at work, told to stop, gone]
    beats,     \* bound: how often a question was repeated
    waiting,   \* the coordinator: [q |-> absent, open, or the answer in its channel]
    wire,      \* [q |-> events on their way to the console]
    dialog,    \* the question the console shows, or "none"
    posts,     \* answers on their way to the service
    postings,      \* bound: how many there were
    taken,  \* history: [q |-> the answers taken]
    early      \* history: an answer was turned away as if nobody asked, too early

questionVars == <<ask, askCtx, beat, beats, waiting, wire, dialog, posts, postings,
                  taken, early>>

UserReplies == Chosen \union {"cancel"}
Wrong == "no option"

\* An answer is none of the words the model has for having none.
ASSUME QuestionAssumption ==
    /\ MaxWaiting \in Nat \ {0} /\ MaxBeats \in Nat /\ MaxPosts \in Nat
    /\ {"cancel", Wrong, "absent", "open", "none", "failure", "canceled", "unanswered"}
          \intersect Chosen = {}
    /\ "none" \notin AskIds

-----------------------------------------------------------------------------

QuestionInit ==
    /\ ask = [q \in AskIds |-> [at |-> "rest", result |-> "none"]]
    /\ askCtx = [q \in AskIds |-> "live"]
    /\ beat = [q \in AskIds |-> "off"] /\ beats = 0
    /\ waiting = [q \in AskIds |-> "absent"]
    /\ wire = [q \in AskIds |-> <<>>]
    /\ dialog = "none"
    /\ posts = {} /\ postings = 0
    /\ taken = [q \in AskIds |-> <<>>] /\ early = FALSE

QuestionTypeOK ==
    /\ \A q \in AskIds :
          /\ ask[q].at \in {"rest", "begun", "waits", "over"}
          /\ ask[q].result \in {"none", "failure", "canceled", "unanswered"} \union Chosen
          /\ askCtx[q] \in {"live", "expired", "canceled"}
          /\ beat[q] \in {"off", "on", "told"}
          /\ waiting[q] \in {"absent", "open"} \union UserReplies
          /\ \A n \in DOMAIN wire[q] : wire[q][n] \in {"question", "end"}
          /\ taken[q] \in Seq(UserReplies)
    /\ dialog \in AskIds \union {"none"}
    /\ posts \subseteq [q : AskIds, answer : UserReplies \union {Wrong}]

-----------------------------------------------------------------------------
Tells(q, e) == wire' = [wire EXCEPT ![q] = Append(@, e)]

(* Bug: the coordinator keeps the question of a call that timed out.       *)
ComesAndStays(q, result) ==
    /\ ask' = [ask EXCEPT ![q] = [at |-> "over", result |-> result]]
    /\ UNCHANGED waiting
    /\ beat' = [beat EXCEPT ![q] = IF @ = "on" THEN "told" ELSE @]
    /\ Tells(q, "end")

(* The end of a call: the coordinator forgets the question, the goroutine  *)
(* is told to stop, and the end of the tool is told to the console, save   *)
(* perhaps where the run was canceled and its events are closed.           *)
Comes(q, result) ==
    /\ ask' = [ask EXCEPT ![q] = [at |-> "over", result |-> result]]
    /\ waiting' = [waiting EXCEPT ![q] = "absent"]
    /\ beat' = [beat EXCEPT ![q] = IF @ = "on" THEN "told" ELSE @]
    /\ Tells(q, "end") \/ (askCtx[q] = "canceled" /\ UNCHANGED wire)

(* A question without text, or with options that are none, too many, empty *)
(* or alike, is not asked.                                                 *)
BadQuestion(q) ==
    /\ ask[q].at = "rest" /\ Comes(q, "failure")
    /\ UNCHANGED <<askCtx, beats, dialog, posts, postings, taken, early>>

(* Begin, before the user can see the question; there is a limit.          *)
Waiters == {q \in AskIds : waiting[q] # "absent"}

AsksUser(q) ==
    /\ ask[q].at = "rest"
    /\ IF Cardinality(Waiters) >= MaxWaiting
       THEN Comes(q, "failure")
       ELSE /\ ask' = [ask EXCEPT ![q].at = "begun"]
            /\ waiting' = [waiting EXCEPT ![q] = "open"] /\ UNCHANGED <<beat, wire>>
    /\ UNCHANGED <<askCtx, beats, dialog, posts, postings, taken, early>>

ShowsQuestion(q) ==
    /\ ask[q].at = "begun"
    /\ \/ /\ ask' = [ask EXCEPT ![q].at = "waits"] /\ Tells(q, "question")
          /\ beat' = [beat EXCEPT ![q] = "on"] /\ UNCHANGED waiting
       \/ Comes(q, "failure")
    /\ UNCHANGED <<askCtx, beats, dialog, posts, postings, taken, early>>

(* Wait takes the answer or the end of the context, whichever it sees      *)
(* first when both are there.                                              *)
ResultOf(answer) == IF answer = "cancel" THEN "unanswered" ELSE answer

WaitEnds(q) ==
    /\ ask[q].at = "waits"
    /\ \/ waiting[q] \in UserReplies /\ Comes(q, ResultOf(waiting[q]))
       \/ askCtx[q] = "expired" /\ Comes(q, "unanswered")
       \/ askCtx[q] = "canceled" /\ Comes(q, "canceled")
    /\ UNCHANGED <<askCtx, beats, dialog, posts, postings, taken, early>>

AskCtxEnds(q, how) ==
    /\ ask[q].at = "waits" /\ askCtx[q] = "live"
    /\ askCtx' = [askCtx EXCEPT ![q] = how]
    /\ UNCHANGED <<ask, beat, beats, waiting, wire, dialog, posts, postings, taken, early>>

(* The question again; one told to stop may be at it for the last time.    *)
Repeats(q) ==
    /\ beat[q] \in {"on", "told"}
    /\ \/ /\ beats < MaxBeats /\ beats' = beats + 1 /\ Tells(q, "question")
          /\ beat' = [beat EXCEPT ![q] = IF @ = "told" THEN "off" ELSE @]
       \/ /\ beat[q] = "told" \/ askCtx[q] # "live"
          /\ beat' = [beat EXCEPT ![q] = "off"] /\ UNCHANGED <<beats, wire>>
    /\ UNCHANGED <<ask, askCtx, waiting, dialog, posts, postings, taken, early>>

-----------------------------------------------------------------------------
(* The console.  A question is shown when its session is, and not again    *)
(* while it is open; the end of any tool closes the dialog.                *)
Sees(q) ==
    /\ wire[q] # <<>>
    /\ wire' = [wire EXCEPT ![q] = Tail(@)]
    /\ IF Head(wire[q]) = "end" THEN dialog' = "none" ELSE dialog' \in {q, dialog}
    /\ UNCHANGED <<ask, askCtx, beat, beats, waiting, posts, postings, taken, early>>

(* What the user wrote, or else what is selected, or that there will be no *)
(* answer.                                                                 *)
Posts(q, answer) ==
    /\ postings < MaxPosts /\ postings' = postings + 1
    /\ posts' = posts \union {[q |-> q, answer |-> answer]}

Submits(q) ==
    /\ dialog = q /\ dialog' = "none"
    /\ \E answer \in UserReplies : Posts(q, answer)
    /\ UNCHANGED <<ask, askCtx, beat, beats, waiting, wire, taken, early>>

(* Another client that knows the question, and offers what it likes.       *)
ClientPosts(q, answer) ==
    /\ wire[q] # <<>> /\ Posts(q, answer)
    /\ UNCHANGED <<ask, askCtx, beat, beats, waiting, wire, dialog, taken, early>>

(* Bug: a later answer takes the place of the first.                       *)
AnsweredAgain(p) ==
    /\ posts' = posts \ {p}
    /\ IF waiting[p.q] # "absent" /\ p.answer # Wrong
       THEN /\ waiting' = [waiting EXCEPT ![p.q] = p.answer]
            /\ taken' = [taken EXCEPT ![p.q] = Append(@, p.answer)]
       ELSE UNCHANGED <<waiting, taken>>
    /\ UNCHANGED <<ask, askCtx, beat, beats, wire, dialog, postings, early>>

(* Answer: only for a question that waits, only an option of it, and only  *)
(* once.                                                                   *)
Answered(p) ==
    /\ posts' = posts \ {p}
    /\ IF waiting[p.q] = "open" /\ p.answer # Wrong
       THEN /\ waiting' = [waiting EXCEPT ![p.q] = p.answer]
            /\ taken' = [taken EXCEPT ![p.q] = Append(@, p.answer)] /\ UNCHANGED early
       ELSE /\ UNCHANGED <<waiting, taken>>
            /\ early' = (early \/ (ask[p.q].at # "over" /\ waiting[p.q] = "absent"))
    /\ UNCHANGED <<ask, askCtx, beat, beats, wire, dialog, postings>>

-----------------------------------------------------------------------------
QuestionStep == \E q \in AskIds : ShowsQuestion(q) \/ WaitEnds(q)

QuestionNext ==
    \/ QuestionStep
    \/ \E q \in AskIds :
          \/ BadQuestion(q) \/ AsksUser(q) \/ Repeats(q) \/ Sees(q) \/ Submits(q)
          \/ \E how \in {"expired", "canceled"} : AskCtxEnds(q, how)
          \/ ClientPosts(q, Wrong)
    \/ \E p \in posts : Answered(p)

-----------------------------------------------------------------------------
(* A question comes to the one answer that was taken for it, whatever else *)
(* was sent for it or for another; an answer taken is lost only where the  *)
(* time was up meanwhile; no answer is turned away while the tool has yet  *)
(* to come back and took none; and a question that is over does not stand  *)
(* in the way of the next.                                                 *)
QuestionsHold ==
    /\ ~early
    /\ \A q \in AskIds :
          /\ Len(taken[q]) <= 1
          /\ ask[q].result \in Chosen => taken[q] = <<ask[q].result>>
          /\ ask[q].result = "unanswered" =>
                askCtx[q] = "expired" \/ taken[q] = <<"cancel">>
          /\ ask[q].at = "over" => waiting[q] = "absent"

(* Whoever asked is never left waiting.                                    *)
QuestionWaits == \E q \in AskIds : ask[q].at \in {"begun", "waits"}
=============================================================================
