--------------------------- MODULE DeliveryProofs ---------------------------
(***************************************************************************)
(* Proofs about Delivery, for any number of tries: copies are explained by *)
(* lost answers, an alert is not lost to its image, and an edit's outcome  *)
(* is what the channel shows.                                              *)
(***************************************************************************)
EXTENDS Delivery, TLAPS

\* The calls come one after the other; a call between its tries has one left,
\* and one with a try out has made it.
CallInv ==
    /\ stage = "render" => \A m \in Methods : tries[m] = 0
    /\ stage = "sendPhoto" => tries["sendMessage"] = 0
    /\ stage \in Sends \cup {"sent"} =>
           tries["editMessageCaption"] = 0 /\ tries["editMessageText"] = 0
    /\ stage = "editMessageCaption" => tries["editMessageText"] = 0
    /\ InCall /\ wire.is = "idle" => tries[stage] < MaxAttempts
    /\ InCall /\ wire.is # "idle" => tries[stage] > 0
    /\ stage = "render" => wire.is = "idle"

\* Requests and doubts of the two calls that post.
Posting(f) == f["sendPhoto"] + f["sendMessage"]

\* The copy that is acknowledged, or whose answer is on its way.
Credit == (IF Acknowledged THEN 1 ELSE 0)
          + (IF stage \in Sends /\ wire.is \in Usable \cup Doubtful THEN 1 ELSE 0)

\* Requests that may still post something have been counted.
CopiesInv == Len(chat) + Posting(late) <= Posting(unclear) + Credit

Editing == stage \in Edits \cup {"edited", "editFailed"}

\* The recorded message exists; its note comes from the running call's answered
\* edit, from one whose answer was lost, or there is none.
NoteInv ==
    /\ Acknowledged => msgId \in DOMAIN chat
    /\ stage \in Sends /\ wire.is = "ok" => wire.id \in DOMAIN chat
    /\ \A m \in Edits : late[m] > 0 => unclear[m] > 0
    /\ ~Editing => /\ \A i \in DOMAIN chat : ~chat[i].note
                   /\ \A m \in Edits : late[m] = 0
    /\ stage \in Edits /\ wire.is \in {"ok", "bare"} => chat[msgId].note
    /\ stage = "edited" => chat[msgId].note
    /\ Editing /\ chat[msgId].note =>
           \/ unclear["editMessageCaption"] + unclear["editMessageText"] > 0
           \/ stage \in Edits /\ wire.is \in Usable \cup Doubtful
           \/ stage = "edited"

IndInv == TypeOK /\ CallInv /\ CopiesInv /\ BothPathsFailed /\ NoteInv

\* What a request that is carried out does to the channel.
LEMMA Posted ==
    ASSUME chat \in Seq(Message), NEW m \in Sends, Post(m)
    PROVE  /\ chat' \in Seq(Message)
           /\ Len(chat') = Len(chat) + 1
           /\ \A i \in DOMAIN chat : i \in DOMAIN chat' /\ chat'[i] = chat[i]
           /\ \A i \in DOMAIN chat' : i \in DOMAIN chat \/ (i = Len(chat) + 1 /\ ~chat'[i].note)
  <1> DEFINE p == [photo |-> m = "sendPhoto", note |-> FALSE]
  <1>1. p \in Message /\ ~p.note
    BY DEF Message
  <1>2. chat' = Append(chat, p)
    BY DEF Post
  <1> HIDE DEF p
  <1> QED
    BY <1>1, <1>2

\* What an edit that is made does to the channel.
LEMMA NoteShown ==
    ASSUME chat \in Seq(Message), NEW m \in Edits, Editable(m), ShowNote
    PROVE  /\ chat' \in Seq(Message)
           /\ Len(chat') = Len(chat)
           /\ DOMAIN chat' = DOMAIN chat
           /\ msgId \in DOMAIN chat
           /\ chat'[msgId].note
           /\ \A i \in DOMAIN chat : i # msgId => chat'[i] = chat[i]
  <1> DEFINE p == [chat[msgId] EXCEPT !.note = TRUE]
  <1>1. msgId \in DOMAIN chat
    BY DEF Editable
  <1>2. chat[msgId] \in Message
    BY <1>1
  <1>3. p \in Message /\ p.note
    BY <1>2 DEF Message
  <1>4. chat' = [chat EXCEPT ![msgId] = p]
    BY <1>1 DEF ShowNote
  <1> HIDE DEF p
  <1> QED
    BY <1>1, <1>3, <1>4

\* Either way the channel stays a sequence of messages and loses none.
LEMMA CarriedOut ==
    ASSUME chat \in Seq(Message), NEW m \in Methods, CarriesOut(m)
    PROVE  /\ chat' \in Seq(Message)
           /\ Len(chat') = Len(chat) + (IF m \in Sends THEN 1 ELSE 0)
           /\ \A i \in DOMAIN chat : i \in DOMAIN chat'
  <1>1. CASE m \in Sends
    BY <1>1, Posted DEF CarriesOut
  <1>2. CASE m \notin Sends
    <2>1. m \in Edits /\ Editable(m) /\ ShowNote
      BY <1>2 DEF CarriesOut, Methods
    <2> QED
      BY <1>2, <2>1, NoteShown
  <1> QED
    BY <1>1, <1>2

\* The fields of the records written to wire.
LEMMA WireFields ==
    /\ Idle \in Wire /\ Idle.is = "idle"
    /\ \A a \in Answers \cup {"idle", "sent", "lost"}, n \in Nat :
           /\ [is |-> a, id |-> n] \in Wire
           /\ [is |-> a, id |-> n].is = a
           /\ [is |-> a, id |-> n].id = n
  BY DEF Idle, Wire

\* Nothing has been tried or posted at the start.
LEMMA InitInd == Init => IndInv
  <1> SUFFICES ASSUME Init PROVE IndInv
    OBVIOUS
  <1>1. TypeOK
    <2>1. stage \in Stages /\ wire \in Wire /\ ended \in BOOLEAN /\ msgId \in Nat
      BY WireFields DEF Init, Stages
    <2>2. chat \in Seq(Message)
      BY DEF Init
    <2>3. tries \in [Methods -> 0..MaxAttempts]
      BY DeliveryAssumption DEF Init
    <2>4. late \in [Methods -> Nat] /\ unclear \in [Methods -> Nat]
      BY DEF Init
    <2> QED
      BY <2>1, <2>2, <2>3, <2>4 DEF TypeOK
  <1>2. CallInv
    BY WireFields DEF Init, CallInv, InCall, Sends, Edits, Methods
  <1>3. CopiesInv
    BY DEF Init, CopiesInv, Posting, Credit, Acknowledged, Sends, Edits, Methods
  <1>4. BothPathsFailed /\ NoteInv
    BY DEF Init, BothPathsFailed, GivenUp, NoteInv, Editing, Acknowledged, Sends, Edits, Methods
  <1> QED
    BY <1>1, <1>2, <1>3, <1>4 DEF IndInv

\* The state after a call that failed: the next call of the same operation, or
\* its end.
LEMMA Failed ==
    ASSUME TypeOK, InCall, NEW why \in Answers \cup {"lost"}, CallFails(why)
    PROVE  /\ stage' \in Stages /\ wire' \in Wire
           /\ \/ /\ stage = "sendPhoto" /\ stage' = "sendMessage" /\ wire'.is = "idle"
              \/ /\ stage = "editMessageCaption" /\ stage' = "editMessageText"
                 /\ wire'.is = "idle"
              \/ /\ stage \in Sends /\ stage' = "failed" /\ wire'.is = why
                 /\ stage = "sendPhoto" => ended
              \/ /\ stage \in Edits /\ stage' = "editFailed" /\ wire'.is = why
                 /\ stage = "editMessageCaption" => ended
  <1>1. why \in Answers \cup {"idle", "sent", "lost"} /\ 0 \in Nat
    OBVIOUS
  <1>2. CASE stage \in {"sendPhoto", "editMessageCaption"} /\ ~ended
    BY <1>2, WireFields DEF CallFails, Stages, Methods, Sends, Edits
  <1>3. CASE ~(stage \in {"sendPhoto", "editMessageCaption"} /\ ~ended)
    <2>1. wire' = [is |-> why, id |-> 0]
          /\ stage' = IF stage \in Sends THEN "failed" ELSE "editFailed"
      BY <1>3 DEF CallFails
    <2>2. wire' \in Wire /\ wire'.is = why
      BY <1>1, <2>1, WireFields
    <2>3. stage \in Sends \/ stage \in Edits
      BY DEF InCall, Methods
    <2>4. stage \in Sends => stage' = "failed"
      BY <2>1
    <2>5. stage \in Edits => stage' = "editFailed"
      BY <2>1 DEF Sends, Edits
    <2>6. stage = "sendPhoto" => ended
      BY <1>3
    <2>7. stage = "editMessageCaption" => ended
      BY <1>3
    <2>8. {"failed", "editFailed"} \subseteq Stages
      BY DEF Stages
    <2> QED
      BY <2>2, <2>3, <2>4, <2>5, <2>6, <2>7, <2>8
  <1> QED
    BY <1>2, <1>3

\* What a failed try does: another one, if there is one left, or the call fails.
LEMMA Retried ==
    ASSUME TypeOK, InCall, NEW why \in Answers \cup {"lost"}, Retry(why)
    PROVE  \/ /\ stage' = stage /\ wire' = Idle
              /\ ~ended /\ tries[stage] < MaxAttempts
           \/ /\ CallFails(why)
              /\ ended \/ tries[stage] = MaxAttempts \/ Overdue(why)
  <1>1. tries[stage] \in 0..MaxAttempts
    BY DEF TypeOK, InCall
  <1> QED
    BY <1>1, DeliveryAssumption DEF Retry

\* Counting one more, or one less, for a method.
LEMMA Counted ==
    ASSUME NEW f \in [Methods -> Nat], NEW m \in Methods
    PROVE  /\ [f EXCEPT ![m] = @ + 1] \in [Methods -> Nat]
           /\ Posting(f) \in Nat
           /\ Posting([f EXCEPT ![m] = @ + 1]) = Posting(f) + (IF m \in Sends THEN 1 ELSE 0)
           /\ f[m] > 0 => Posting([f EXCEPT ![m] = @ - 1])
                            = Posting(f) - (IF m \in Sends THEN 1 ELSE 0)
  BY DEF Posting, Methods, Sends, Edits

\* Every step keeps the types.
LEMMA TypeStep == TypeOK /\ CallInv /\ [Next]_vars => TypeOK'
  <1> SUFFICES ASSUME TypeOK, CallInv, [Next]_vars PROVE TypeOK'
    OBVIOUS
  <1>0. Methods \subseteq Stages
    BY DEF Stages
  <1>1. CASE Dispatch
    BY <1>0, <1>1 DEF Dispatch, TypeOK, Methods
  <1>2. CASE EditSignal
    BY <1>0, <1>2, WireFields DEF EditSignal, TypeOK, Methods, Edits
  <1>3. CASE Try
    <2>1. stage \in Methods /\ tries[stage] \in 0..MaxAttempts /\ tries[stage] < MaxAttempts
      BY <1>3 DEF Try, CallInv, InCall, TypeOK
    <2>2. tries[stage] + 1 \in 0..MaxAttempts
      BY <2>1, DeliveryAssumption
    <2>3. tries' \in [Methods -> 0..MaxAttempts]
      BY <1>3, <2>2 DEF Try, TypeOK
    <2>4. wire' \in Wire
      BY <1>3, WireFields DEF Try
    <2> QED
      BY <1>3, <2>3, <2>4 DEF Try, TypeOK
  <1>4. CASE TransportError
    <2>1. InCall /\ Retry("lost")
      BY <1>4 DEF TransportError
    <2>2. stage' \in Stages /\ wire' \in Wire
      BY <2>1, Retried, Failed, WireFields DEF TypeOK
    <2>3. late' \in [Methods -> Nat]
      BY <1>4 DEF TransportError, TypeOK, InCall
    <2>4. unclear' \in [Methods -> Nat]
      BY <1>4, <2>1, Counted DEF TransportError, Unclear, TypeOK, InCall
    <2> QED
      BY <1>4, <2>2, <2>3, <2>4 DEF TransportError, TypeOK
  <1>5. CASE Answered
    <2>1. InCall /\ wire.is \in Answers
      BY <1>5 DEF Answered
    <2>2. stage' \in Stages /\ wire' \in Wire /\ msgId' \in Nat
      <3>1. CASE Succeeds /\ CallSucceeds
        <4>1. wire.id \in Nat
          BY DEF TypeOK, Wire
        <4> QED
          BY <3>1, <4>1 DEF CallSucceeds, Stages, TypeOK
      <3>2. CASE (Retry(wire.is) \/ CallFails(wire.is)) /\ UNCHANGED msgId
        BY <2>1, <3>2, Retried, Failed, WireFields DEF TypeOK
      <3> QED
        BY <1>5, <3>1, <3>2 DEF Answered
    <2>3. unclear' \in [Methods -> Nat]
      <3>1. Unclear \/ UNCHANGED unclear
        BY <1>5 DEF Answered
      <3>2. stage \in Methods /\ unclear \in [Methods -> Nat]
        BY <2>1 DEF TypeOK, InCall
      <3> QED
        BY <3>1, <3>2, Counted DEF Unclear
    <2> QED
      BY <1>5, <2>2, <2>3 DEF Answered, TypeOK
  <1>6. CASE WaitEnds
    <2>1. stage' \in Stages /\ wire' \in Wire
      BY <1>6, Failed DEF WaitEnds
    <2> QED
      BY <1>6, <2>1 DEF WaitEnds, TypeOK
  <1>7. CASE ContextEnds
    BY <1>7 DEF ContextEnds, TypeOK
  <1>8. CASE TelegramTakes
    <2>1. chat' \in Seq(Message)
      BY <1>8, CarriedOut DEF TelegramTakes, TypeOK, InCall
    <2>2. wire' \in Wire
      <3>1. PICK a \in {"ok", "bare", "garbled", "unavailable"} :
               wire' = [is |-> a, id |-> Len(chat) + 1]
        BY <1>8 DEF TelegramTakes
      <3>2. a \in Answers /\ Len(chat) + 1 \in Nat
        BY DEF Answers, Usable, Bare, Transient, Permanent, TypeOK
      <3> QED
        BY <3>1, <3>2, WireFields
    <2> QED
      BY <1>8, <2>1, <2>2 DEF TelegramTakes, TypeOK
  <1>9. CASE TelegramRefuses
    <2>1. wire' \in Wire
      <3>1. PICK a \in {"limited", "unavailable", "refused"} : wire' = [is |-> a, id |-> 0]
        BY <1>9 DEF TelegramRefuses
      <3>2. a \in Answers
        BY DEF Answers, Usable, Bare, Transient, Permanent
      <3> QED
        BY <3>1, <3>2, WireFields
    <2> QED
      BY <1>9, <2>1 DEF TelegramRefuses, TypeOK
  <1>10. ASSUME NEW m \in Methods, LateArrival(m) PROVE TypeOK'
    <2>1. chat' \in Seq(Message)
      BY <1>10, CarriedOut DEF LateArrival, TypeOK
    <2>2. late' \in [Methods -> Nat]
      BY <1>10 DEF LateArrival, TypeOK
    <2> QED
      BY <1>10, <2>1, <2>2 DEF LateArrival, TypeOK
  <1>11. CASE UNCHANGED vars
    BY <1>11 DEF vars, TypeOK
  <1> QED
    BY <1>1, <1>2, <1>3, <1>4, <1>5, <1>6, <1>7, <1>8, <1>9, <1>10, <1>11 DEF Next, Client

\* A call between its tries has one left and one with a try out has made it.
LEMMA CallStep == TypeOK /\ CallInv /\ [Next]_vars => CallInv'
  <1> SUFFICES ASSUME TypeOK, CallInv, [Next]_vars PROVE CallInv'
    OBVIOUS
  <1> USE DEF Methods, Sends, Edits, InCall
  <1>0. "idle" \notin Answers \cup {"lost"}
    BY DEF Answers, Usable, Bare, Transient, Permanent
  <1>f. ASSUME NEW why \in Answers \cup {"lost"}, InCall, wire.is # "idle" \/ ended,
               CallFails(why), UNCHANGED tries
        PROVE  CallInv'
    <2>1. tries \in [Methods -> 0..MaxAttempts]
      BY DEF TypeOK
    <2>2. stage' # "render" /\ stage' # "sendPhoto" /\ stage' # "sent"
      BY <1>f, Failed
    <2>3. CASE stage = "sendPhoto" /\ stage' = "sendMessage" /\ wire'.is = "idle"
      BY <1>f, <2>3, DeliveryAssumption DEF CallInv
    <2>4. CASE stage = "editMessageCaption" /\ stage' = "editMessageText" /\ wire'.is = "idle"
      BY <1>f, <2>4, DeliveryAssumption DEF CallInv
    <2>5. CASE stage' \in {"failed", "editFailed"}
      BY <2>5 DEF CallInv
    <2> QED
      BY <1>f, <2>3, <2>4, <2>5, Failed
  <1>r. ASSUME NEW why \in Answers \cup {"lost"}, InCall, wire.is # "idle", Retry(why),
               UNCHANGED tries
        PROVE  CallInv'
    <2>1. CASE CallFails(why)
      BY <1>f, <1>r, <2>1
    <2>2. CASE stage' = stage /\ wire' = Idle /\ tries[stage] < MaxAttempts
      BY <1>r, <2>2, WireFields DEF CallInv
    <2> QED
      BY <1>r, <2>1, <2>2, Retried
  <1>1. CASE Dispatch
    BY <1>1, DeliveryAssumption DEF Dispatch, CallInv
  <1>2. CASE EditSignal
    BY <1>2, DeliveryAssumption, WireFields DEF EditSignal, CallInv
  <1>3. CASE Try
    <2>1. tries[stage] \in 0..MaxAttempts /\ tries' = [tries EXCEPT ![stage] = @ + 1]
          /\ stage' = stage /\ stage \in Methods
      BY <1>3 DEF Try, TypeOK
    <2>2. wire'.is = "sent"
      BY <1>3, WireFields DEF Try
    <2>3. tries'[stage] > 0
      BY <2>1, DeliveryAssumption DEF TypeOK
    <2>4. \A m \in Methods : m # stage => tries'[m] = tries[m]
      BY <2>1 DEF TypeOK
    <2> QED
      BY <2>1, <2>2, <2>3, <2>4 DEF CallInv
  <1>4. CASE TransportError
    <2>1. wire.is # "idle"
      BY <1>4, <1>0 DEF TransportError
    <2> QED
      BY <1>4, <1>r, <2>1 DEF TransportError
  <1>5. CASE Answered
    <2>1. InCall /\ wire.is \in Answers /\ wire.is # "idle" /\ UNCHANGED tries
      BY <1>5, <1>0 DEF Answered
    <2>2. CASE CallSucceeds
      BY <2>1, <2>2 DEF CallSucceeds, CallInv
    <2> QED
      BY <1>5, <1>f, <1>r, <2>1, <2>2 DEF Answered
  <1>6. CASE WaitEnds
    BY <1>6, <1>f DEF WaitEnds
  <1>7. CASE ContextEnds
    BY <1>7 DEF ContextEnds, CallInv
  <1>8. CASE TelegramTakes
    <2>1. PICK a \in {"ok", "bare", "garbled", "unavailable"} :
             wire' = [is |-> a, id |-> Len(chat) + 1]
      BY <1>8 DEF TelegramTakes
    <2>2. wire'.is # "idle"
      BY <2>1
    <2> QED
      BY <1>8, <2>2 DEF TelegramTakes, CallInv
  <1>9. CASE TelegramRefuses
    <2>1. PICK a \in {"limited", "unavailable", "refused"} : wire' = [is |-> a, id |-> 0]
      BY <1>9 DEF TelegramRefuses
    <2>2. wire'.is # "idle"
      BY <2>1
    <2> QED
      BY <1>9, <2>2 DEF TelegramRefuses, CallInv
  <1>10. ASSUME NEW m \in Methods, LateArrival(m) PROVE CallInv'
    BY <1>10 DEF LateArrival, CallInv
  <1>11. CASE UNCHANGED vars
    BY <1>11 DEF vars, CallInv
  <1> QED
    BY <1>1, <1>2, <1>3, <1>4, <1>5, <1>6, <1>7, <1>8, <1>9, <1>10, <1>11 DEF Next, Client

-----------------------------------------------------------------------------
(* Copies.                                                                 *)

\* No step leaves a copy unexplained.
LEMMA CopiesStep == TypeOK /\ TypeOK' /\ CopiesInv /\ [Next]_vars => CopiesInv'
  <1> SUFFICES ASSUME TypeOK, TypeOK', CopiesInv, [Next]_vars PROVE CopiesInv'
    OBVIOUS
  <1>0. /\ Len(chat) \in Nat /\ Len(chat') \in Nat
        /\ Posting(late) \in Nat /\ Posting(unclear) \in Nat
        /\ Posting(late') \in Nat /\ Posting(unclear') \in Nat
        /\ Credit \in Nat /\ Credit' \in Nat
    <2>1. /\ Len(chat) \in Nat /\ Len(chat') \in Nat
          /\ Credit \in Nat /\ Credit' \in Nat
      BY DEF TypeOK, Credit
    <2>2. \A f \in [Methods -> Nat] : Posting(f) \in Nat
      BY DEF Posting, Methods, Sends
    <2>3. /\ late \in [Methods -> Nat] /\ late' \in [Methods -> Nat]
          /\ unclear \in [Methods -> Nat] /\ unclear' \in [Methods -> Nat]
      BY DEF TypeOK
    <2> QED
      BY <2>1, <2>2, <2>3
  <1>c. Len(chat) + Posting(late) <= Posting(unclear) + Credit
    BY DEF CopiesInv
  \* It is enough that copies and late requests grow no more than doubts and
  \* credit do.
  <1>q. ASSUME Len(chat') + Posting(late') <= Posting(unclear') + Credit'
        PROVE  CopiesInv'
    BY <1>q DEF CopiesInv
  <1>f. ASSUME NEW why \in Answers \cup {"lost"}, InCall, CallFails(why)
        PROVE  Credit' = (IF stage \in Edits THEN 1 ELSE 0)
    BY <1>f, Failed DEF Credit, Acknowledged, Sends, Edits, InCall, Methods, Usable, Doubtful
  <1>r. ASSUME NEW why \in Answers \cup {"lost"}, InCall, Retry(why)
        PROVE  Credit' = (IF stage \in Edits THEN 1 ELSE 0)
    <2>1. CASE CallFails(why)
      BY <1>f, <1>r, <2>1
    <2>2. CASE stage' = stage /\ wire' = Idle
      BY <1>r, <2>2, WireFields
         DEF Credit, Acknowledged, Sends, Edits, InCall, Methods, Usable, Doubtful
    <2> QED
      BY <1>r, <2>1, <2>2, Retried
  <1>e. InCall => Credit = (IF stage \in Edits THEN 1 ELSE 0)
                           + (IF stage \in Sends /\ wire.is \in Usable \cup Doubtful
                              THEN 1 ELSE 0)
    BY DEF Credit, Acknowledged, InCall, Methods, Sends, Edits
  <1>1. CASE Dispatch
    <2>1. Credit = Credit' \/ (Credit = 0 /\ Credit' \in {0, 1})
      BY <1>1 DEF Dispatch, Credit, Acknowledged, Sends, Edits
    <2> QED
      BY <1>0, <1>1, <1>c, <1>q, <2>1 DEF Dispatch, Credit
  <1>2. CASE EditSignal
    <2>1. Credit = 1 /\ Credit' = 1
      BY <1>2, WireFields DEF EditSignal, Credit, Acknowledged, Sends, Edits
    <2> QED
      BY <1>0, <1>2, <1>c, <1>q, <2>1 DEF EditSignal
  <1>3. CASE Try
    <2>1. wire'.is = "sent" /\ stage' = stage /\ wire.is = "idle"
      BY <1>3, WireFields DEF Try
    <2>2. Credit' = Credit
      BY <2>1 DEF Credit, Acknowledged, Usable, Doubtful
    <2> QED
      BY <1>0, <1>3, <1>c, <1>q, <2>2 DEF Try
  <1>4. CASE TransportError
    <2>1. InCall /\ Credit' = (IF stage \in Edits THEN 1 ELSE 0)
      BY <1>4, <1>r DEF TransportError
    <2>2. stage \in Methods /\ (stage \in Edits <=> stage \notin Sends)
      BY <2>1 DEF InCall, Methods, Edits, Sends
    <2>3. Posting(unclear') = Posting(unclear) + (IF stage \in Sends THEN 1 ELSE 0)
      BY <1>4, <2>2, Counted DEF TransportError, Unclear, TypeOK
    <2>4. CASE wire.is = "sent"
      <3>1. Posting(late') = Posting(late) + (IF stage \in Sends THEN 1 ELSE 0)
        BY <1>4, <2>2, <2>4, Counted DEF TransportError, TypeOK
      <3>2. Credit = IF stage \in Edits THEN 1 ELSE 0
        BY <1>e, <2>1, <2>2, <2>4 DEF Usable, Doubtful
      <3>3. chat' = chat
        BY <1>4 DEF TransportError
      <3> QED
        BY <1>0, <1>c, <1>q, <2>1, <2>2, <2>3, <3>1, <3>2, <3>3
    <2>5. CASE wire.is # "sent"
      <3>1. late' = late /\ chat' = chat
        BY <1>4, <2>5 DEF TransportError
      <3> QED
        BY <1>0, <1>c, <1>e, <1>q, <2>1, <2>2, <2>3, <3>1
    <2> QED
      BY <2>4, <2>5
  <1>5. CASE Answered
    <2>1. InCall /\ wire.is \in Answers /\ chat' = chat /\ late' = late
      BY <1>5 DEF Answered
    <2>2. stage \in Methods /\ (stage \in Edits <=> stage \notin Sends)
      BY <2>1 DEF InCall, Methods, Edits, Sends
    <2>3. CASE Succeeds /\ CallSucceeds /\ UNCHANGED unclear
      <3>1. Credit' = 1
        BY <2>1, <2>3 DEF CallSucceeds, Credit, Acknowledged, Sends, Edits
      <3>2. Credit <= 1 /\ Credit \in Nat
        BY <1>e, <2>1, <2>2
      <3> QED
        BY <1>0, <1>c, <1>q, <2>1, <2>3, <3>1, <3>2
    <2>4. CASE /\ ~Succeeds
               /\ Retry(wire.is) \/ CallFails(wire.is)
               /\ IF wire.is \in Doubtful THEN Unclear ELSE UNCHANGED unclear
      <3>1. Credit' = IF stage \in Edits THEN 1 ELSE 0
        BY <1>f, <1>r, <2>1, <2>4
      <3>2. CASE wire.is \in Doubtful
        <4>1. Posting(unclear') = Posting(unclear) + (IF stage \in Sends THEN 1 ELSE 0)
          BY <2>2, <2>4, <3>2, Counted DEF TypeOK, Unclear
        <4> QED
          BY <1>0, <1>c, <1>e, <1>q, <2>1, <2>2, <3>1, <4>1
      <3>3. CASE wire.is \notin Doubtful
        <4>1. wire.is \notin Usable \cup Doubtful
          BY <2>4, <3>3 DEF Succeeds
        <4>2. unclear' = unclear
          BY <2>4, <3>3
        <4> QED
          BY <1>0, <1>c, <1>e, <1>q, <2>1, <2>2, <3>1, <4>1, <4>2
      <3> QED
        BY <3>2, <3>3
    <2> QED
      BY <1>5, <2>3, <2>4 DEF Answered
  <1>6. CASE WaitEnds
    <2>1. Credit' = (IF stage \in Edits THEN 1 ELSE 0) /\ InCall
      BY <1>6, <1>f DEF WaitEnds
    <2>2. wire.is \notin Usable \cup Doubtful
      BY <1>6 DEF WaitEnds, Usable, Doubtful
    <2> QED
      BY <1>0, <1>6, <1>c, <1>e, <1>q, <2>1, <2>2 DEF WaitEnds
  <1>7. CASE ContextEnds
    <2>1. Credit' = Credit
      BY <1>7 DEF ContextEnds, Credit, Acknowledged
    <2> QED
      BY <1>7, <1>c, <1>q, <2>1 DEF ContextEnds
  <1>8. CASE TelegramTakes
    <2>1. PICK a \in {"ok", "bare", "garbled", "unavailable"} :
             wire' = [is |-> a, id |-> Len(chat) + 1]
      BY <1>8 DEF TelegramTakes
    <2>2. wire'.is \in Usable \cup Doubtful
      BY <2>1 DEF Usable, Doubtful
    <2>3. wire.is \notin Usable \cup Doubtful /\ stage' = stage /\ InCall
      BY <1>8 DEF TelegramTakes, Usable, Doubtful
    <2>4. Credit' = Credit + (IF stage \in Sends THEN 1 ELSE 0)
      BY <2>2, <2>3 DEF Credit, Acknowledged
    <2>5. Len(chat') = Len(chat) + (IF stage \in Sends THEN 1 ELSE 0)
      BY <1>8, <2>3, CarriedOut DEF TelegramTakes, TypeOK, InCall
    <2>6. late' = late /\ unclear' = unclear
      BY <1>8 DEF TelegramTakes
    <2>7. Credit \in Nat
      BY DEF Credit
    <2> QED
      BY <1>0, <1>c, <1>q, <2>4, <2>5, <2>6, <2>7
  <1>9. CASE TelegramRefuses
    <2>1. wire.is \notin Usable \cup Doubtful /\ stage' = stage
      BY <1>9 DEF TelegramRefuses, Usable, Doubtful
    <2>2. Credit' >= Credit /\ Credit \in Nat /\ Credit' \in Nat
      BY <2>1 DEF Credit, Acknowledged
    <2> QED
      BY <1>0, <1>9, <1>c, <1>q, <2>2 DEF TelegramRefuses
  <1>10. ASSUME NEW m \in Methods, LateArrival(m) PROVE CopiesInv'
    <2>1. Credit' = Credit /\ Credit \in Nat
      BY <1>10 DEF LateArrival, Credit, Acknowledged
    <2>2. Posting(late') = Posting(late) - (IF m \in Sends THEN 1 ELSE 0)
      BY <1>10, Counted DEF LateArrival, TypeOK
    <2>3. Len(chat') \in Nat /\ Len(chat') <= Len(chat) + (IF m \in Sends THEN 1 ELSE 0)
      BY <1>0, <1>10, CarriedOut DEF LateArrival, TypeOK
    <2>4. unclear' = unclear
      BY <1>10 DEF LateArrival
    <2> QED
      BY <1>0, <1>c, <1>q, <2>1, <2>2, <2>3, <2>4
  <1>11. CASE UNCHANGED vars
    BY <1>11 DEF vars, CopiesInv, Credit, Acknowledged
  <1> QED
    BY <1>1, <1>2, <1>3, <1>4, <1>5, <1>6, <1>7, <1>8, <1>9, <1>10, <1>11 DEF Next, Client

-----------------------------------------------------------------------------
(* Neither operation fails before its second path has.                     *)

\* Operations fail only for the reasons BothPathsFailed names.
LEMMA PathsStep ==
    TypeOK /\ CallInv /\ BothPathsFailed /\ [Next]_vars => BothPathsFailed'
  <1> SUFFICES ASSUME TypeOK, CallInv, BothPathsFailed, [Next]_vars PROVE BothPathsFailed'
    OBVIOUS
  <1>0. "failed" \notin Methods \cup {"render", "sent"}
        /\ "editFailed" \notin Methods \cup {"render", "sent"}
    BY DEF Methods, Sends, Edits
  \* Operations that go on have not failed.
  <1>n. ASSUME stage' \in Methods \cup {"sent", "edited"} PROVE BothPathsFailed'
    BY <1>0, <1>n DEF BothPathsFailed
  \* The last call fails for one of the reasons of GivenUp.
  <1>f. ASSUME NEW why \in Answers \cup {"lost"}, InCall, CallFails(why),
               UNCHANGED <<tries, ended>>,
               \/ ended
               \/ tries[stage] = MaxAttempts
               \/ tries[stage] > 0 /\ why \in Permanent \cup Bare
               \/ tries[stage] > 0 /\ Overdue(why)
        PROVE  BothPathsFailed'
    <2>1. stage \in {"sendPhoto", "sendMessage", "editMessageCaption", "editMessageText"}
      BY <1>f DEF InCall, Methods, Sends, Edits
    <2>2. CASE stage' \in Methods
      BY <1>n, <2>2
    <2>3. CASE stage \in Sends /\ stage' = "failed" /\ wire'.is = why
      <3>1. stage = "sendPhoto" => ended
        BY <1>f, <2>3, Failed DEF Sends, Edits
      <3>2. ended' \/ GivenUp("sendMessage")'
        BY <1>f, <2>1, <2>3, <3>1 DEF GivenUp, Overdue, Sends
      <3> QED
        BY <2>3, <3>2 DEF BothPathsFailed
    <2>4. CASE stage \in Edits /\ stage' = "editFailed" /\ wire'.is = why
      <3>1. stage = "editMessageCaption" => ended
        BY <1>f, <2>4, Failed DEF Sends, Edits
      <3>2. ended' \/ GivenUp("editMessageText")'
        BY <1>f, <2>1, <2>4, <3>1 DEF GivenUp, Overdue, Edits
      <3> QED
        BY <2>4, <3>2 DEF BothPathsFailed
    <2> QED
      BY <1>f, <2>2, <2>3, <2>4, Failed DEF Methods, Sends, Edits
  <1>1. CASE Dispatch
    BY <1>1, <1>n DEF Dispatch, Methods
  <1>2. CASE EditSignal
    BY <1>2, <1>n DEF EditSignal, Methods, Edits
  <1>3. CASE Try
    BY <1>3, <1>n DEF Try, InCall
  <1>4. CASE TransportError
    <2>1. InCall /\ Retry("lost") /\ UNCHANGED <<tries, ended>>
      BY <1>4 DEF TransportError
    <2>2. CASE stage' = stage
      BY <1>n, <2>1, <2>2 DEF InCall
    <2>4. tries[stage] > 0
      BY <1>4, <2>1 DEF TransportError, CallInv, Answers, Usable, Bare, Transient, Permanent
    <2>3. CASE CallFails("lost") /\ (ended \/ tries[stage] = MaxAttempts \/ Overdue("lost"))
      BY <1>f, <2>1, <2>3, <2>4
    <2> QED
      BY <2>1, <2>2, <2>3, Retried
  <1>5. CASE Answered
    <2>1. InCall /\ wire.is \in Answers /\ UNCHANGED <<tries, ended>>
      BY <1>5 DEF Answered
    <2>2. wire.is # "idle"
      BY <2>1 DEF Answers, Usable, Bare, Transient, Permanent
    <2>3. tries[stage] > 0
      BY <2>1, <2>2 DEF CallInv
    <2>4. CASE CallSucceeds
      BY <1>n, <2>4 DEF CallSucceeds
    <2>5. CASE wire.is \in Transient /\ Retry(wire.is)
      <3>1. CASE stage' = stage
        BY <1>n, <2>1, <3>1 DEF InCall
      <3>2. CASE CallFails(wire.is) /\ (ended \/ tries[stage] = MaxAttempts \/ Overdue(wire.is))
        BY <1>f, <2>1, <2>3, <3>2
      <3> QED
        BY <2>1, <2>5, <3>1, <3>2, Retried
    <2>6. CASE wire.is \notin Transient /\ ~Succeeds /\ CallFails(wire.is)
      <3>1. wire.is \in Permanent \cup Bare
        BY <2>1, <2>6 DEF Answers, Succeeds
      <3> QED
        BY <1>f, <2>1, <2>3, <2>6, <3>1
    <2> QED
      BY <1>5, <2>4, <2>5, <2>6 DEF Answered
  <1>6. CASE WaitEnds
    BY <1>6, <1>f DEF WaitEnds
  <1>7. CASE ContextEnds
    BY <1>7, <1>n DEF ContextEnds, InCall
  <1>8. CASE TelegramTakes
    BY <1>8, <1>n DEF TelegramTakes, InCall
  <1>9. CASE TelegramRefuses
    BY <1>9, <1>n DEF TelegramRefuses, InCall
  <1>10. ASSUME NEW m \in Methods, LateArrival(m) PROVE BothPathsFailed'
    BY <1>10 DEF LateArrival, BothPathsFailed, GivenUp
  <1>11. CASE UNCHANGED vars
    BY <1>11 DEF vars, BothPathsFailed, GivenUp
  <1> QED
    BY <1>1, <1>2, <1>3, <1>4, <1>5, <1>6, <1>7, <1>8, <1>9, <1>10, <1>11 DEF Next, Client

-----------------------------------------------------------------------------
(* What an edit reports is what the channel shows.                         *)

\* Doubts about the edits.
EditDoubt == unclear["editMessageCaption"] + unclear["editMessageText"] > 0

\* A further doubt about one edit is a doubt about the edits.
LEMMA Doubted ==
    ASSUME TypeOK, stage \in Edits, Unclear
    PROVE  EditDoubt' /\ \A m \in Edits : unclear'[m] > 0 \/ unclear'[m] = unclear[m]
  BY DEF TypeOK, Unclear, EditDoubt, Methods, Edits, Sends

\* A doubt is not forgotten.
LEMMA StillDoubted ==
    ASSUME TypeOK, stage \in Methods, Unclear
    PROVE  /\ EditDoubt => EditDoubt'
           /\ \A m \in Edits : unclear[m] > 0 => unclear'[m] > 0
           /\ unclear'[stage] > 0
  <1>1. unclear \in [Methods -> Nat] /\ unclear' = [unclear EXCEPT ![stage] = @ + 1]
    BY DEF TypeOK, Unclear
  <1>2. \A m \in Methods : unclear[m] \in Nat /\ unclear'[m] >= unclear[m] /\ unclear'[m] \in Nat
    BY <1>1
  <1>3. unclear'[stage] = unclear[stage] + 1
    BY <1>1
  <1>4. Edits \subseteq Methods /\ "editMessageCaption" \in Methods /\ "editMessageText" \in Methods
    BY DEF Methods, Edits
  <1> QED
    BY <1>2, <1>3, <1>4 DEF EditDoubt

\* No step separates what an edit reports from what the channel shows.
LEMMA NoteStep == TypeOK /\ CallInv /\ NoteInv /\ [Next]_vars => NoteInv'
  <1> SUFFICES ASSUME TypeOK, CallInv, NoteInv, [Next]_vars PROVE NoteInv'
    OBVIOUS
  <1>a. /\ Acknowledged <=> Editing \/ stage = "sent"
        /\ InCall => (stage \in Edits <=> stage \notin Sends)
    BY DEF Acknowledged, Editing, InCall, Methods, Sends, Edits
  <1>1. CASE Dispatch
    BY <1>1 DEF Dispatch, NoteInv, Acknowledged, Editing, Sends, Edits, CallInv
  <1>2. CASE EditSignal
    <2>1. wire'.is = "idle" /\ stage = "sent" /\ stage' = "editMessageCaption"
          /\ UNCHANGED <<late, chat, msgId, unclear>>
      BY <1>2, WireFields DEF EditSignal
    <2> QED
      BY <2>1 DEF NoteInv, Acknowledged, Editing, Sends, Edits
  <1>3. CASE Try
    <2>1. wire'.is = "sent" /\ stage' = stage /\ wire.is = "idle"
          /\ UNCHANGED <<late, chat, msgId, unclear>>
      BY <1>3, WireFields DEF Try
    <2> QED
      BY <2>1 DEF NoteInv, Acknowledged, Editing, Usable, Doubtful
  \* A call that fails or tries again: the doubts grow with the answers that
  \* may stand for an edit made, and with the requests left on their way.
  <1>f. ASSUME InCall, UNCHANGED <<chat, msgId>>,
               \/ stage' = stage /\ wire'.is = "idle"
               \/ stage \in Sends /\ stage' = "sendMessage" /\ wire'.is = "idle"
               \/ stage \in Edits /\ stage' = "editMessageText" /\ wire'.is = "idle"
               \/ stage \in Sends /\ stage' = "failed"
               \/ stage \in Edits /\ stage' = "editFailed",
               EditDoubt => EditDoubt',
               stage \in Edits /\ wire.is \in Usable \cup Doubtful => EditDoubt',
               \A m \in Edits : late'[m] > 0 => unclear'[m] > 0,
               stage \in Sends => \A m \in Edits : late'[m] = late[m]
        PROVE  NoteInv'
    <2>1. CASE stage \in Sends
      <3>1. ~Editing /\ ~Editing' /\ ~Acknowledged' /\ stage' \notin Edits
            /\ stage' # "edited"
        BY <1>f, <2>1 DEF Editing, Acknowledged, Sends, Edits
      <3>2. wire'.is # "ok" \/ stage' \notin Sends
        BY <1>f, <2>1 DEF Sends, Edits
      <3> QED
        BY <1>f, <2>1, <3>1, <3>2 DEF NoteInv
    <2>2. CASE stage \in Edits
      <3>1. Editing /\ Editing' /\ Acknowledged /\ stage' \notin Sends /\ stage' # "edited"
            /\ stage # "edited"
        BY <1>f, <2>2 DEF Editing, Acknowledged, Sends, Edits
      <3>2. stage' \in Edits => wire'.is = "idle"
        BY <1>f, <2>2 DEF Sends, Edits
      <3>3. chat'[msgId'].note => EditDoubt'
        BY <1>f, <2>2, <3>1 DEF NoteInv, EditDoubt
      <3> QED
        BY <1>f, <3>1, <3>2, <3>3 DEF NoteInv, EditDoubt
    <2> QED
      BY <1>a, <1>f, <2>1, <2>2
  <1>g. ASSUME NEW why \in Answers \cup {"lost"}, InCall, Retry(why) \/ CallFails(why)
        PROVE  \/ stage' = stage /\ wire'.is = "idle"
               \/ stage \in Sends /\ stage' = "sendMessage" /\ wire'.is = "idle"
               \/ stage \in Edits /\ stage' = "editMessageText" /\ wire'.is = "idle"
               \/ stage \in Sends /\ stage' = "failed"
               \/ stage \in Edits /\ stage' = "editFailed"
    BY <1>g, Failed, Retried, WireFields DEF Sends, Edits
  <1>4. CASE TransportError
    <2>1. InCall /\ Retry("lost") /\ Unclear /\ UNCHANGED <<chat, msgId>>
          /\ late' = IF wire.is = "sent" THEN [late EXCEPT ![stage] = @ + 1] ELSE late
      BY <1>4 DEF TransportError
    <2>2. EditDoubt => EditDoubt'
      BY <2>1, StillDoubted DEF InCall
    <2>3. stage \in Edits => EditDoubt'
      BY <2>1, Doubted
    <2>4. \A m \in Edits : late'[m] > 0 => unclear'[m] > 0
      <3> SUFFICES ASSUME NEW m \in Edits, late'[m] > 0 PROVE unclear'[m] > 0
        OBVIOUS
      <3>1. CASE m = stage
        BY <2>1, <3>1, StillDoubted DEF InCall
      <3>2. CASE m # stage
        <4>1. late'[m] = late[m]
          BY <2>1, <3>2 DEF TypeOK, Methods
        <4> QED
          BY <2>1, <4>1, StillDoubted DEF InCall, NoteInv
      <3> QED
        BY <3>1, <3>2
    <2>5. stage \in Sends => \A m \in Edits : late'[m] = late[m]
      BY <2>1 DEF TypeOK, Methods, Sends, Edits
    <2> QED
      BY <1>f, <1>g, <2>1, <2>2, <2>3, <2>4, <2>5
  <1>5. CASE Answered
    <2>1. InCall /\ wire.is \in Answers /\ UNCHANGED <<late, chat>>
      BY <1>5 DEF Answered
    <2>2. CASE Succeeds /\ CallSucceeds /\ UNCHANGED unclear
      <3>1. CASE stage \in Sends
        <4>1. stage' = "sent" /\ msgId' = wire.id
          BY <2>2, <3>1 DEF CallSucceeds
        <4>2. wire.is = "ok"
          BY <1>a, <2>1, <2>2, <3>1 DEF Succeeds, Usable
        <4> QED
          BY <2>1, <2>2, <3>1, <4>1, <4>2 DEF NoteInv, Acknowledged, Editing, Sends, Edits
      <3>2. CASE stage \in Edits
        <4>1. stage' = "edited" /\ msgId' = msgId
          BY <2>2, <3>2 DEF CallSucceeds, Sends, Edits
        <4>2. wire.is \in {"ok", "bare"}
          BY <2>2, <3>2 DEF Succeeds, Usable, Bare
        <4> QED
          BY <2>1, <2>2, <3>2, <4>1, <4>2 DEF NoteInv, Acknowledged, Editing, Sends, Edits
      <3> QED
        BY <1>a, <2>1, <3>1, <3>2
    <2>3. CASE /\ ~Succeeds
               /\ Retry(wire.is) \/ CallFails(wire.is)
               /\ IF wire.is \in Doubtful THEN Unclear ELSE UNCHANGED unclear
               /\ UNCHANGED msgId
      <3>1. EditDoubt => EditDoubt'
        BY <2>1, <2>3, StillDoubted DEF InCall, EditDoubt
      <3>2. wire.is \notin Usable
        BY <2>3 DEF Succeeds
      <3>3. stage \in Edits /\ wire.is \in Usable \cup Doubtful => EditDoubt'
        BY <2>3, <3>2, Doubted
      <3>4. \A m \in Edits : late'[m] > 0 => unclear'[m] > 0
        BY <2>1, <2>3, StillDoubted DEF InCall, NoteInv
      <3> QED
        BY <1>f, <1>g, <2>1, <2>3, <3>1, <3>3, <3>4
    <2> QED
      BY <1>5, <2>2, <2>3 DEF Answered
  <1>6. CASE WaitEnds
    <2>1. InCall /\ CallFails("lost") /\ wire.is = "idle" /\ UNCHANGED <<late, chat, msgId, unclear>>
      BY <1>6 DEF WaitEnds
    <2>2. wire.is \notin Usable \cup Doubtful
      BY <2>1 DEF Usable, Doubtful
    <2>3. \A m \in Edits : late'[m] > 0 => unclear'[m] > 0
      BY <2>1 DEF NoteInv
    <2> QED
      BY <1>f, <1>g, <2>1, <2>2, <2>3 DEF EditDoubt
  <1>7. CASE ContextEnds
    BY <1>7 DEF ContextEnds, NoteInv, Acknowledged, Editing
  <1>8. CASE TelegramTakes
    <2>1. PICK a \in {"ok", "bare", "garbled", "unavailable"} :
             wire' = [is |-> a, id |-> Len(chat) + 1]
      BY <1>8 DEF TelegramTakes
    <2>2. wire'.is \in Usable \cup Doubtful /\ wire'.id = Len(chat) + 1 /\ stage' = stage
          /\ UNCHANGED <<late, msgId, unclear>> /\ CarriesOut(stage) /\ InCall
      BY <1>8, <2>1 DEF TelegramTakes, Usable, Doubtful
    <2>3. CASE stage \in Sends
      <3>1. Post(stage) /\ ~Editing /\ ~Acknowledged /\ stage' \notin Edits /\ stage' # "edited"
        BY <2>2, <2>3 DEF CarriesOut, Editing, Acknowledged, Sends, Edits
      <3>2. /\ \A i \in DOMAIN chat' : i \in DOMAIN chat \/ ~chat'[i].note
            /\ \A i \in DOMAIN chat : chat'[i] = chat[i]
            /\ Len(chat) + 1 \in DOMAIN chat'
        BY <2>3, <3>1, Posted DEF TypeOK
      <3>3. ~Editing' /\ ~Acknowledged'
        BY <2>2, <3>1 DEF Editing, Acknowledged
      <3> QED
        BY <2>2, <3>1, <3>2, <3>3 DEF NoteInv
    <2>4. CASE stage \in Edits
      <3>1. Editable(stage) /\ ShowNote /\ Editing /\ Acknowledged
            /\ stage \notin Sends /\ stage # "edited"
        BY <2>2, <2>4 DEF CarriesOut, Editing, Acknowledged, Sends, Edits
      <3>2. DOMAIN chat' = DOMAIN chat /\ chat'[msgId].note
        BY <2>4, <3>1, NoteShown DEF TypeOK
      <3>3. Editing' /\ Acknowledged' /\ stage' \in Edits
        BY <2>2, <2>4, <3>1 DEF Editing, Acknowledged
      <3> QED
        BY <2>2, <3>1, <3>2, <3>3 DEF NoteInv
    <2> QED
      BY <1>a, <2>2, <2>3, <2>4
  <1>9. CASE TelegramRefuses
    <2>1. PICK a \in {"limited", "unavailable", "refused"} : wire' = [is |-> a, id |-> 0]
      BY <1>9 DEF TelegramRefuses
    <2>2. wire'.is \notin {"ok", "bare"} /\ stage' = stage /\ wire.is = "sent"
          /\ UNCHANGED <<late, chat, msgId, unclear>>
      BY <1>9, <2>1 DEF TelegramRefuses
    <2>3. wire.is \notin Usable \cup Doubtful
      BY <2>2 DEF Usable, Doubtful
    <2> QED
      BY <2>2, <2>3 DEF NoteInv, Acknowledged, Editing
  <1>10. ASSUME NEW m \in Methods, LateArrival(m) PROVE NoteInv'
    <2>1. late[m] > 0 /\ late' = [late EXCEPT ![m] = @ - 1]
          /\ (CarriesOut(m) \/ UNCHANGED chat) /\ UNCHANGED <<stage, wire, msgId, unclear>>
      BY <1>10 DEF LateArrival
    <2>2. \A k \in Edits : late'[k] > 0 => late[k] > 0
      BY <2>1 DEF TypeOK, Methods
    <2>3. ~Editing => m \in Sends /\ \A k \in Edits : late'[k] = late[k]
      BY <2>1 DEF NoteInv, Methods, TypeOK
    <2>4. UNCHANGED <<Editing, Acknowledged>>
      BY <2>1 DEF Editing, Acknowledged
    <2>5. CASE UNCHANGED chat
      BY <2>1, <2>2, <2>3, <2>4, <2>5 DEF NoteInv
    <2>6. CASE m \in Sends /\ Post(m)
      <3>1. /\ \A i \in DOMAIN chat' : i \in DOMAIN chat \/ ~chat'[i].note
            /\ \A i \in DOMAIN chat : i \in DOMAIN chat' /\ chat'[i] = chat[i]
        BY <2>6, Posted DEF TypeOK
      <3>2. stage \in Edits \cup {"edited"} => Acknowledged
        BY DEF Acknowledged
      <3>3. Editing => Acknowledged
        BY <1>a
      <3> QED
        BY <2>1, <2>2, <2>3, <2>4, <3>1, <3>2, <3>3 DEF NoteInv
    <2>7. CASE m \in Edits /\ Editable(m) /\ ShowNote
      <3>1. DOMAIN chat' = DOMAIN chat /\ chat'[msgId].note
        BY <2>7, NoteShown DEF TypeOK
      <3>2. Editing
        BY <2>3, <2>7 DEF Sends, Edits
      <3>3. unclear[m] > 0
        BY <2>1, <2>7 DEF NoteInv
      <3>4. EditDoubt
        BY <2>7, <3>3 DEF EditDoubt, TypeOK, Edits, Methods
      <3> QED
        BY <2>1, <2>2, <2>4, <3>1, <3>2, <3>4 DEF NoteInv, EditDoubt
    <2> QED
      BY <2>1, <2>5, <2>6, <2>7 DEF CarriesOut, Methods
  <1>11. CASE UNCHANGED vars
    BY <1>11 DEF vars, NoteInv, Acknowledged, Editing
  <1> QED
    BY <1>1, <1>2, <1>3, <1>4, <1>5, <1>6, <1>7, <1>8, <1>9, <1>10, <1>11 DEF Next, Client

-----------------------------------------------------------------------------
\* Channel, requests and operations stay consistent in every reachable state.
THEOREM Inductive == Spec => []IndInv
  <1>1. IndInv /\ [Next]_vars => IndInv'
    BY TypeStep, CallStep, CopiesStep, PathsStep, NoteStep DEF IndInv
  <1> QED
    BY <1>1, InitInd, PTL DEF Spec

\* Every variable keeps its type, and no call makes more than MaxAttempts tries.
THEOREM TypeCorrect == Spec => []TypeOK
  <1>1. IndInv => TypeOK
    BY DEF IndInv
  <1> QED
    BY <1>1, Inductive, PTL

\* However many tries, losses and late requests there are, every copy beyond
\* the acknowledged one answers to a try whose effect the client did not learn.
THEOREM CopiesAreExplained == Spec => []CopiesExplained
  <1>1. IndInv => CopiesExplained
    <2> SUFFICES ASSUME IndInv PROVE CopiesExplained
      OBVIOUS
    <2>1. /\ Len(chat) \in Nat
          /\ late["sendPhoto"] \in Nat /\ late["sendMessage"] \in Nat
          /\ unclear["sendPhoto"] \in Nat /\ unclear["sendMessage"] \in Nat
      BY DEF IndInv, TypeOK, Methods, Sends
    <2>2. Len(chat) + (late["sendPhoto"] + late["sendMessage"])
            <= unclear["sendPhoto"] + unclear["sendMessage"]
               + ((IF Acknowledged THEN 1 ELSE 0)
                  + (IF stage \in Sends /\ wire.is \in Usable \cup Doubtful THEN 1 ELSE 0))
      BY DEF IndInv, CopiesInv, Posting, Credit
    <2> QED
      BY <2>1, <2>2 DEF CopiesExplained
  <1> QED
    BY <1>1, Inductive, PTL

\* An error means that the plain text was given up too, or the context ended.
THEOREM NotLostToImage == Spec => []BothPathsFailed
  <1>1. IndInv => BothPathsFailed
    BY DEF IndInv
  <1> QED
    BY <1>1, Inductive, PTL

\* An edit's success is shown; a note that is shown and reported as missing
\* was made by an edit whose answer was lost.
THEOREM EditsAreReported == Spec => []EditReported
  <1>1. IndInv => EditReported
    BY DEF IndInv, NoteInv, EditReported, Acknowledged, Editing, Edits
  <1> QED
    BY <1>1, Inductive, PTL
=============================================================================
