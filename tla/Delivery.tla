------------------------------ MODULE Delivery ------------------------------
(***************************************************************************)
(* One alert on its way to the Telegram channel (internal/deliver): first  *)
(* Dispatch sends it, as a card photo or, when that fails, as plain text;  *)
(* later EditSignal edits the analyst note into it.  Both go through       *)
(* Telegram.call, which tries a request several times.                     *)
(*                                                                         *)
(* SignalPipeline has each of the two as a single step with three          *)
(* outcomes; this module opens that step.  Requests and answers may be     *)
(* lost, and a request the client has given up on may still arrive.  The   *)
(* channel belongs to Telegram and is modelled from its use here: the only *)
(* duplicate it refuses is an edit that would change nothing.              *)
(***************************************************************************)
EXTENDS Integers, Sequences

CONSTANT MaxAttempts    \* tries of one call (NewTelegram: 5)

ASSUME DeliveryAssumption == MaxAttempts \in Nat \ {0}

Sends == {"sendPhoto", "sendMessage"}
Edits == {"editMessageCaption", "editMessageText"}
Methods == Sends \cup Edits

VARIABLES
    stage,      \* the method being called, or how Dispatch or EditSignal ended
    tries,      \* per method: the tries its call has made
    wire,       \* the last try: none yet, on its way, or its answer
    ended,      \* the context of Dispatch or EditSignal is over
    late,       \* per method: requests given up on that may still arrive
    chat,       \* the messages of the channel, in the order of their ids
    msgId,      \* the id Dispatch returned
    unclear     \* history, per method: tries that may have had an effect unknown to the client

vars == <<stage, tries, wire, ended, late, chat, msgId, unclear>>

Stages == Methods \cup {"render", "sent", "failed", "edited", "editFailed"}

\* What the client makes of an answer (call and classifyByStatus).
Usable == {"ok"}                \* 200, ok = true, with the message
Bare == {"bare"}                \* 200, ok = true, no message object
Transient == {"limited", "unavailable"}         \* 429 and 5xx, parseable or not
Permanent == {"refused", "garbled"}             \* another 4xx; 200 and not JSON
Answers == Usable \cup Bare \cup Transient \cup Permanent

\* The answers after which the request may have been carried out.
Doubtful == {"unavailable", "garbled", "bare"}

Message == [photo : BOOLEAN, note : BOOLEAN]
Wire == [is : Answers \cup {"idle", "sent", "lost"}, id : Nat]

Idle == [is |-> "idle", id |-> 0]

TypeOK ==
    /\ stage \in Stages
    /\ tries \in [Methods -> 0..MaxAttempts]
    /\ wire \in Wire
    /\ ended \in BOOLEAN
    /\ late \in [Methods -> Nat]
    /\ chat \in Seq(Message)
    /\ msgId \in Nat
    /\ unclear \in [Methods -> Nat]

Init ==
    /\ stage = "render"
    /\ tries = [m \in Methods |-> 0]
    /\ wire = Idle
    /\ ended = FALSE
    /\ late = [m \in Methods |-> 0]
    /\ chat = <<>>
    /\ msgId = 0
    /\ unclear = [m \in Methods |-> 0]

InCall == stage \in Methods

-----------------------------------------------------------------------------
(* Telegram.                                                               *)

\* A caption belongs to a photo, a text to a message without one, and an edit
\* that changes nothing is refused.
Editable(m) ==
    /\ msgId \in DOMAIN chat
    /\ ~chat[msgId].note
    /\ chat[msgId].photo <=> m = "editMessageCaption"

Post(m) == chat' = Append(chat, [photo |-> m = "sendPhoto", note |-> FALSE])
ShowNote == chat' = [chat EXCEPT ![msgId].note = TRUE]

CarriesOut(m) == IF m \in Sends THEN Post(m) ELSE Editable(m) /\ ShowNote

TelegramTakes ==
    /\ InCall
    /\ wire.is = "sent"
    /\ CarriesOut(stage)
    /\ \E a \in {"ok", "bare", "garbled", "unavailable"} :
           wire' = [is |-> a, id |-> Len(chat) + 1]
    /\ UNCHANGED <<stage, tries, ended, late, msgId, unclear>>

TelegramRefuses ==
    /\ InCall
    /\ wire.is = "sent"
    /\ \E a \in {"limited", "unavailable", "refused"} : wire' = [is |-> a, id |-> 0]
    /\ UNCHANGED <<stage, tries, ended, late, chat, msgId, unclear>>

\* A request the client no longer waits for arrives, or never does.
LateArrival(m) ==
    /\ late[m] > 0
    /\ late' = [late EXCEPT ![m] = @ - 1]
    /\ CarriesOut(m) \/ UNCHANGED chat
    /\ UNCHANGED <<stage, tries, wire, ended, msgId, unclear>>

-----------------------------------------------------------------------------
(* Telegram.call: at most MaxAttempts tries with a growing wait between    *)
(* them, cut short by the end of the context.                              *)

Try ==
    /\ InCall
    /\ wire.is = "idle"
    /\ ~ended
    /\ tries' = [tries EXCEPT ![stage] = @ + 1]
    /\ wire' = [is |-> "sent", id |-> 0]
    /\ UNCHANGED <<stage, ended, late, chat, msgId, unclear>>

\* Fault: the photo's error is Dispatch's error.
CallFailsWithoutFallback(why) ==
    /\ stage' = IF stage \in Sends THEN "failed" ELSE "editFailed"
    /\ wire' = [is |-> why, id |-> 0]

\* The call returns an error.  Dispatch goes on from photo to text and
\* EditSignal from caption to text, unless the context has ended.
CallFails(why) ==
    LET fallback == IF stage = "sendPhoto" THEN "sendMessage" ELSE "editMessageText"
    IN  IF stage \in {"sendPhoto", "editMessageCaption"} /\ ~ended
        THEN stage' = fallback /\ wire' = Idle
        ELSE /\ stage' = IF stage \in Sends THEN "failed" ELSE "editFailed"
             /\ wire' = [is |-> why, id |-> 0]

\* Fault: a call that was acknowledged is not the end of Dispatch.
CallSucceedsOn ==
    IF stage = "sendPhoto"
    THEN stage' = "sendMessage" /\ msgId' = wire.id /\ wire' = Idle
    ELSE /\ stage' = IF stage \in Sends THEN "sent" ELSE "edited"
         /\ msgId' = IF stage \in Sends THEN wire.id ELSE msgId
         /\ UNCHANGED wire

CallSucceeds ==
    /\ stage' = IF stage \in Sends THEN "sent" ELSE "edited"
    /\ msgId' = IF stage \in Sends THEN wire.id ELSE msgId
    /\ UNCHANGED wire

\* The backoff gives a call up after fifteen minutes.  Tries and waits between them
\* are much shorter, but Telegram may ask for a wait of any length (limited): the
\* try it answered so, or a later one, may be the last.
Overdue(why) == why = "limited" \/ tries[stage] > 1

Retry(why) ==
    \/ ~ended /\ tries[stage] < MaxAttempts /\ wire' = Idle /\ UNCHANGED stage
    \/ (ended \/ tries[stage] = MaxAttempts \/ Overdue(why)) /\ CallFails(why)

Unclear == unclear' = [unclear EXCEPT ![stage] = @ + 1]

\* No answer: the client's 20 s are over, the connection breaks while the body
\* is read, or the context ends.  The request may still be on its way.
TransportError ==
    /\ InCall
    /\ wire.is \in (Answers \cup {"sent"})
    /\ late' = IF wire.is = "sent" THEN [late EXCEPT ![stage] = @ + 1] ELSE late
    /\ Unclear
    /\ Retry("lost")
    /\ UNCHANGED <<tries, ended, chat, msgId>>

\* Fault: a refused edit counts as made, since it may only have been unchanged.
SucceedsRefused == wire.is \in Usable \cup (IF stage \in Edits THEN {"bare", "refused"} ELSE {})

\* An answer without a message is a success for an edit only.
Succeeds == wire.is \in Usable \cup (IF stage \in Edits THEN Bare ELSE {})

Answered ==
    /\ InCall
    /\ wire.is \in Answers
    /\ \/ Succeeds /\ CallSucceeds /\ UNCHANGED unclear
       \/ /\ ~Succeeds
          /\ IF wire.is \in Transient THEN Retry(wire.is) ELSE CallFails(wire.is)
          /\ IF wire.is \in Doubtful THEN Unclear ELSE UNCHANGED unclear
          /\ UNCHANGED msgId
    /\ UNCHANGED <<tries, ended, late, chat>>

\* The context is over before the next try: its request is not sent.
WaitEnds ==
    /\ InCall
    /\ wire.is = "idle"
    /\ ended
    /\ CallFails("lost")
    /\ UNCHANGED <<tries, ended, late, chat, msgId, unclear>>

-----------------------------------------------------------------------------
(* Dispatch and EditSignal.                                                *)

\* Dispatch renders the card; without one it sends the text at once.
Dispatch ==
    /\ stage = "render"
    /\ stage' \in Sends
    /\ UNCHANGED <<tries, wire, ended, late, chat, msgId, unclear>>

\* The enrich stage edits with a context of its own, which has no deadline.
EditSignal ==
    /\ stage = "sent"
    /\ stage' = "editMessageCaption"
    /\ wire' = Idle
    /\ ended' = FALSE
    /\ UNCHANGED <<tries, late, chat, msgId, unclear>>

\* deliverTimeout during Dispatch, a shutdown during either.
ContextEnds ==
    /\ InCall
    /\ ~ended
    /\ ended' = TRUE
    /\ UNCHANGED <<stage, tries, wire, late, chat, msgId, unclear>>

Client == Dispatch \/ EditSignal \/ Try \/ TransportError \/ Answered \/ WaitEnds

Next ==
    \/ Client
    \/ ContextEnds
    \/ TelegramTakes
    \/ TelegramRefuses
    \/ \E m \in Methods : LateArrival(m)

Spec == Init /\ [][Next]_vars

-----------------------------------------------------------------------------
(* Properties.                                                             *)

Acknowledged == stage \in Edits \cup {"sent", "edited", "editFailed"}

\* The channel gets a second copy of an alert only for a try whose effect the
\* client could not learn: retries and the two paths of Dispatch never post
\* twice by themselves, whenever a late request arrives.
CopiesExplained ==
    Len(chat) <= unclear["sendPhoto"] + unclear["sendMessage"]
                 + (IF Acknowledged THEN 1 ELSE 0)
                 + (IF stage \in Sends /\ wire.is \in Usable \cup Doubtful THEN 1 ELSE 0)

GivenUp(m) ==
    \/ tries[m] = MaxAttempts \/ tries[m] > 1
    \/ tries[m] > 0 /\ wire.is \in Permanent \cup Bare \cup {"limited"}

\* "The alert is never lost to the image" (Dispatch): an error means that the
\* plain text was given up as well, by a refusal, a wait that was asked for or
\* several tries, unless the context had ended.  In the same way EditSignal fails
\* only after the text edit has.
BothPathsFailed ==
    /\ stage = "failed" => ended \/ GivenUp("sendMessage")
    /\ stage = "editFailed" => ended \/ GivenUp("editMessageText")

\* What EditSignal reports is what the recorded message shows.  The exception
\* is an edit whose answer was lost: its repetition is refused because it
\* would change nothing, so a note that is there is reported as missing.
EditReported ==
    /\ stage \in {"sent", "edited"} => msgId \in DOMAIN chat
    /\ stage = "edited" => chat[msgId].note
    /\ stage = "editFailed" /\ chat[msgId].note =>
           unclear["editMessageCaption"] + unclear["editMessageText"] > 0
=============================================================================
