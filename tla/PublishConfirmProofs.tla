------------------------ MODULE PublishConfirmProofs ------------------------
(***************************************************************************)
(* Without a return, a nil error of Publish means that the broker routed   *)
(* the publication: for any number of publications, refusals and messages. *)
(***************************************************************************)
EXTENDS PublishConfirm, TLAPS

Publication == [msg : Messages, answer : Outcomes]

(* The channels follow the publications: only the newest read confirmation   *)
(* can be unconsumed, and until something is returned there is exactly one   *)
(* confirmation to come for a waiting publication and none otherwise.        *)
ChannelsInStep ==
    /\ confirms # 0 => confirms = read
    /\ ~ReturnedUpTo(Last) =>
          /\ returns = 0
          /\ Waiting => \/ confirms = 0 /\ read = Last - 1
                        \/ confirms = Last /\ read = Last
          /\ channel = "open" /\ ~Waiting => confirms = 0 /\ read = Last

(* The strengthening of SuccessMeansRouted that every step preserves. *)
IInv == TypeOK /\ ChannelsInStep /\ SuccessMeansRouted

(* The initial state of a channel: nothing published, nothing to come. *)
LEMMA InitIInv == Init => IInv
<1> SUFFICES ASSUME Init PROVE IInv
  OBVIOUS
<1>1. Last = 0 /\ Len(fate) = 0 /\ ~Waiting
  BY DEF Init, Last, Waiting
<1>2. log \in Seq(Publication) /\ fate \in Seq(Fates)
  BY DEF Init
<1>3. TypeOK
  BY <1>1, <1>2 DEF Init, TypeOK, Publication
<1>4. ChannelsInStep
  BY <1>1 DEF Init, ChannelsInStep
<1>5. SuccessMeansRouted
  BY <1>1 DEF SuccessMeansRouted
<1> QED
  BY <1>3, <1>4, <1>5 DEF IInv

(* Answering the waiting publication changes nothing but its answer. *)
LEMMA AnswerStep ==
    ASSUME TypeOK, Waiting, NEW a \in Outcomes \ {"waiting"}, Answer(a)
    PROVE  /\ log' \in Seq(Publication)
           /\ Last' = Last
           /\ Last \in Nat \ {0}
           /\ log'[Last].answer = a
           /\ \A k \in 1..Last : k # Last => log'[k] = log[k]
           /\ ~Waiting'
<1> DEFINE row == [log[Last] EXCEPT !.answer = a]
<1>1. log \in Seq(Publication) /\ Last \in Nat \ {0} /\ Last = Len(log)
  BY DEF TypeOK, Waiting, Last, Publication
<1>2. log[Last] \in Publication
  BY <1>1
<1>3. row \in Publication /\ row.answer = a
  BY <1>2 DEF Publication
<1>4. log' = [log EXCEPT ![Last] = row]
  BY DEF Answer
<1> HIDE DEF row
<1>5. log' \in Seq(Publication) /\ Len(log') = Len(log)
  BY <1>1, <1>3, <1>4
<1>6. log'[Last] = row /\ \A k \in 1..Last : k # Last => log'[k] = log[k]
  BY <1>1, <1>3, <1>4
<1>7. Last' = Last
  BY <1>1, <1>5 DEF Last
<1>8. ~Waiting'
  BY <1>3, <1>6, <1>7 DEF Waiting
<1> QED
  BY <1>1, <1>3, <1>5, <1>6, <1>7, <1>8

(* Publish appends one waiting publication. *)
LEMMA PublishStep ==
    ASSUME TypeOK, NEW m \in Messages, Publish(m)
    PROVE  /\ log' \in Seq(Publication)
           /\ Last \in Nat
           /\ Last' = Last + 1
           /\ log'[Last + 1].answer = "waiting"
           /\ \A k \in 1..Last : log'[k] = log[k]
           /\ \A k \in 1..Last : log[k].answer # "waiting"
           /\ Waiting'
<1> DEFINE row == [msg |-> m, answer |-> "waiting"]
<1>1. row \in Publication /\ row.answer = "waiting"
  BY DEF Publication, Outcomes
<1>2. log \in Seq(Publication) /\ Last \in Nat /\ Last = Len(log)
  BY DEF TypeOK, Last, Publication
<1>3. log' = Append(log, row)
  BY DEF Publish
<1> HIDE DEF row
<1>4. /\ log' \in Seq(Publication) /\ Len(log') = Len(log) + 1
      /\ log'[Len(log) + 1] = row
      /\ \A k \in 1..Len(log) : log'[k] = log[k]
  BY <1>1, <1>2, <1>3
<1>5. Last' = Last + 1
  BY <1>2, <1>4 DEF Last
<1>6. \A k \in 1..Last : log[k].answer # "waiting"
  BY <1>2 DEF TypeOK, Publish, Waiting
<1>7. Waiting'
  BY <1>1, <1>2, <1>4, <1>5 DEF Waiting
<1> QED
  BY <1>1, <1>2, <1>4, <1>5, <1>6, <1>7

(* The steps of the publisher, the broker and the reader keep the types. *)
LEMMA TypeStep == TypeOK /\ [Next]_vars => TypeOK'
<1> SUFFICES ASSUME TypeOK, [Next]_vars PROVE TypeOK'
  OBVIOUS
<1>1. ASSUME NEW m \in Messages, Publish(m) PROVE TypeOK'
  <2>1. \A k \in 1..Last' : log'[k].answer = "waiting" => k = Last'
    <3> SUFFICES ASSUME NEW k \in 1..Last', log'[k].answer = "waiting", k # Last'
                 PROVE  FALSE
      OBVIOUS
    <3>1. k \in 1..Last
      BY <1>1, PublishStep
    <3> QED
      BY <1>1, <3>1, PublishStep
  <2>2. Len(fate) \in Nat /\ Last \in Nat /\ Len(fate) <= Last'
    BY <1>1, PublishStep DEF TypeOK
  <2> QED
    BY <1>1, <2>1, <2>2, PublishStep DEF TypeOK, Publish, Publication
<1>2. ASSUME NEW f \in Fates, BrokerHandles(f) PROVE TypeOK'
  BY <1>2 DEF TypeOK, BrokerHandles, Last
<1>3. CASE ReadReturn
  BY <1>3 DEF TypeOK, ReadReturn, Last
<1>4. CASE ReadConfirmation
  BY <1>4 DEF TypeOK, ReadConfirmation, Last
<1>5. CASE CloseChannel
  BY <1>5 DEF TypeOK, CloseChannel, Last
<1>6. ASSUME NEW a \in Outcomes \ {"waiting"}, Waiting, Answer(a),
             UNCHANGED <<fate, read, returnRead>>,
             returns' \in {0, returns}, confirms' \in {0, confirms},
             channel' \in {"open", "closed"}
      PROVE  TypeOK'
  <2>1. \A k \in 1..Last' : log'[k].answer = "waiting" => k = Last'
    BY <1>6, AnswerStep DEF TypeOK
  <2>2. /\ log' \in Seq(Publication) /\ Last' = Last
        /\ Len(fate) \in Nat /\ read \in Nat
    BY <1>6, AnswerStep DEF TypeOK
  <2> QED
    BY <1>6, <2>1, <2>2 DEF TypeOK, Publication
<1>7. CASE TakeReturn
  BY <1>7, <1>6 DEF TypeOK, TakeReturn, Last, Outcomes
<1>8. CASE TakeConfirmation
  BY <1>8, <1>6, Zenon DEF TypeOK, TakeConfirmation, Outcomes
<1>9. CASE FindClosed
  BY <1>9, <1>6, Zenon DEF TypeOK, FindClosed, Outcomes
<1>10. CASE Cancel
  BY <1>10, <1>6, Zenon DEF TypeOK, Cancel, Outcomes
<1>11. CASE UNCHANGED vars
  BY <1>11 DEF TypeOK, vars, Last
<1> QED
  BY <1>1, <1>2, <1>3, <1>4, <1>5, <1>7, <1>8, <1>9, <1>10, <1>11
     DEF Next, Broker, Reader, Wait

(* A publication that is answered keeps what was said of it: only the answer *)
(* that is given now has to be checked.                                      *)
LEMMA AnswerKeepsSuccess ==
    ASSUME IInv, Waiting, NEW a \in Outcomes \ {"waiting"}, Answer(a), UNCHANGED fate,
           a = "ok" /\ ~ReturnedUpTo(Last) => Last <= Len(fate) /\ fate[Last] = "routed"
    PROVE  SuccessMeansRouted'
<1>1. /\ Last' = Last /\ Last \in Nat \ {0} /\ log'[Last].answer = a
      /\ \A k \in 1..Last : k # Last => log'[k] = log[k]
  BY AnswerStep DEF IInv
<1>2. \A k : ReturnedUpTo(k)' <=> ReturnedUpTo(k)
  BY DEF ReturnedUpTo
<1>3. ASSUME NEW k \in 1..Last, log'[k].answer = "ok", ~ReturnedUpTo(k)
      PROVE  k <= Len(fate) /\ fate[k] = "routed"
  <2>1. CASE k = Last
    BY <1>1, <1>3, <2>1
  <2>2. CASE k # Last
    BY <1>1, <1>3, <2>2 DEF IInv, SuccessMeansRouted
  <2> QED
    BY <2>1, <2>2
<1> QED
  BY <1>1, <1>2, <1>3, Zenon DEF SuccessMeansRouted

(* Every step keeps the channels in step with the publications, and with it *)
(* the meaning of a success.                                                 *)
LEMMA IInvStep == IInv /\ [Next]_vars => IInv'
<1> SUFFICES ASSUME IInv, [Next]_vars PROVE ChannelsInStep' /\ SuccessMeansRouted'
  BY TypeStep DEF IInv
<1>t. TypeOK /\ TypeOK'
  BY TypeStep DEF IInv
<1>1. ASSUME NEW m \in Messages, Publish(m)
      PROVE  ChannelsInStep' /\ SuccessMeansRouted'
  <2>1. /\ Last \in Nat /\ Last' = Last + 1 /\ Waiting'
        /\ \A k \in 1..Last : log'[k] = log[k]
        /\ log'[Last + 1].answer = "waiting"
    BY <1>1, <1>t, PublishStep
  <2>2. ReturnedUpTo(Last)' <=> ReturnedUpTo(Last)
    <3>1. fate' = fate /\ Len(fate) \in Nat /\ Len(fate) <= Last
      BY <1>1, <1>t DEF TypeOK, Publish
    <3>2. \A j \in 1..Len(fate) : j <= Last' /\ j <= Last
      BY <2>1, <3>1
    <3> QED
      BY <3>1, <3>2 DEF ReturnedUpTo
  <2>3. ChannelsInStep'
    <3>1. channel = "open" /\ ~Waiting /\ UNCHANGED <<returns, confirms, read, channel>>
      BY <1>1 DEF Publish
    <3>2. (Last + 1) - 1 = Last
      BY <2>1
    <3> QED
      BY <2>1, <2>2, <3>1, <3>2 DEF IInv, ChannelsInStep
  <2>4. SuccessMeansRouted'
    BY <1>1, <1>t, <2>1 DEF IInv, TypeOK, SuccessMeansRouted, ReturnedUpTo, Publish
  <2> QED
    BY <2>3, <2>4
<1>2. ASSUME NEW f \in Fates, BrokerHandles(f)
      PROVE  ChannelsInStep' /\ SuccessMeansRouted'
  <2>1. /\ Len(fate') = Len(fate) + 1 /\ Len(fate') <= Last
        /\ \A k \in 1..Len(fate) : fate'[k] = fate[k]
        /\ Last' = Last /\ Last \in Nat /\ Len(fate) \in Nat
        /\ Waiting' <=> Waiting
    BY <1>2, <1>t DEF TypeOK, BrokerHandles, Waiting, Last
  <2>2. \A k \in 1..Last : ReturnedUpTo(k) => ReturnedUpTo(k)'
    BY <2>1, <1>t DEF ReturnedUpTo
  <2>3. ReturnedUpTo(Last) => ReturnedUpTo(Last)'
    BY <2>1, <1>t DEF ReturnedUpTo
  <2>4. ChannelsInStep'
    BY <1>2, <2>1, <2>3, <1>t DEF IInv, ChannelsInStep, BrokerHandles
  <2>5. SuccessMeansRouted'
    BY <1>2, <2>1, <2>2, <1>t DEF IInv, SuccessMeansRouted, BrokerHandles
  <2> QED
    BY <2>4, <2>5
<1>3. CASE ReadReturn
  <2>1. ReturnedUpTo(Last) /\ ReturnedUpTo(Last)' /\ (Waiting' <=> Waiting)
    <3>1. /\ read + 1 \in 1..Len(fate) /\ fate[read + 1] = "unroutable"
          /\ read + 1 <= Last
      <4>1. /\ read \in Nat /\ Len(fate) \in Nat /\ Last \in Nat /\ Len(fate) <= Last
        BY <1>t DEF TypeOK, Last
      <4>2. read < Len(fate) /\ fate[read + 1] = "unroutable"
        BY <1>3 DEF ReadReturn
      <4> QED
        BY <4>1, <4>2
    <3>2. ReturnedUpTo(Last)
      BY <3>1 DEF ReturnedUpTo
    <3>3. UNCHANGED <<log, fate>>
      BY <1>3 DEF ReadReturn
    <3> QED
      BY <3>2, <3>3, Zenon DEF ReturnedUpTo, Waiting, Last
  <2> QED
    BY <1>3, <2>1 DEF IInv, ChannelsInStep, SuccessMeansRouted, ReturnedUpTo,
                      ReadReturn, Last
<1>4. CASE ReadConfirmation
  <2>1. /\ (Waiting' <=> Waiting) /\ Last' = Last /\ Last \in Nat
        /\ ReturnedUpTo(Last)' <=> ReturnedUpTo(Last)
    BY <1>4, <1>t DEF TypeOK, ReadConfirmation, ReturnedUpTo, Waiting, Last
  <2>2. SuccessMeansRouted'
    BY <1>4 DEF IInv, SuccessMeansRouted, ReturnedUpTo, ReadConfirmation, Last
  <2> QED
    BY <1>4, <1>t, <2>1, <2>2 DEF IInv, TypeOK, ChannelsInStep, ReadConfirmation
<1>5. CASE CloseChannel
  BY <1>5, <1>t DEF IInv, TypeOK, ChannelsInStep, SuccessMeansRouted, ReturnedUpTo,
                    CloseChannel, Waiting, Last
<1>6. CASE TakeReturn
  <2>1. ReturnedUpTo(Last)
    BY <1>6 DEF IInv, ChannelsInStep, TakeReturn
  <2>2. CASE Answer("returned")
    <3>1. Last' = Last /\ SuccessMeansRouted'
      BY <1>6, <1>t, <2>2, AnswerStep, AnswerKeepsSuccess DEF TakeReturn, Outcomes
    <3>2. ReturnedUpTo(Last)'
      BY <1>6, <2>1, <3>1 DEF ReturnedUpTo, TakeReturn
    <3> QED
      BY <1>6, <3>1, <3>2 DEF IInv, ChannelsInStep, TakeReturn
  <2>3. CASE UNCHANGED log
    BY <1>6, <2>1, <2>3 DEF IInv, ChannelsInStep, SuccessMeansRouted, ReturnedUpTo,
                            TakeReturn, Last
  <2> QED
    BY <1>6, <2>2, <2>3 DEF TakeReturn
<1>7. CASE TakeConfirmation
  <2> DEFINE a == IF fate[confirms] = "refused" THEN "refused" ELSE "ok"
  <2>1. /\ Last' = Last /\ Last \in Nat /\ ~Waiting'
        /\ a \in Outcomes \ {"waiting"} /\ Answer(a)
    BY <1>7, <1>t, AnswerStep DEF TakeConfirmation, Outcomes
  <2>2. ~ReturnedUpTo(Last) => confirms = Last /\ read = Last
    BY <1>7 DEF IInv, ChannelsInStep, TakeConfirmation
  <2>3. a = "ok" /\ ~ReturnedUpTo(Last) => Last <= Len(fate) /\ fate[Last] = "routed"
    BY <1>7, <1>t, <2>1, <2>2 DEF TypeOK, Fates, ReturnedUpTo, TakeConfirmation
  <2>4. SuccessMeansRouted'
    BY <1>7, <2>1, <2>3, AnswerKeepsSuccess DEF TakeConfirmation
  <2>5. ReturnedUpTo(Last)' <=> ReturnedUpTo(Last)
    BY <1>7, <2>1 DEF ReturnedUpTo, TakeConfirmation
  <2> QED
    BY <1>7, <2>1, <2>2, <2>4, <2>5 DEF IInv, ChannelsInStep, TakeConfirmation
<1>8. CASE FindClosed \/ Cancel
  <2>1. PICK a \in {"closed", "cancelled"} : Answer(a)
    BY <1>8 DEF FindClosed, Cancel
  <2>2. Last' = Last /\ ~Waiting' /\ SuccessMeansRouted'
    BY <1>8, <1>t, <2>1, AnswerStep, AnswerKeepsSuccess DEF FindClosed, Cancel, Outcomes
  <2>3. (ReturnedUpTo(Last)' <=> ReturnedUpTo(Last)) /\ channel' # "open"
    BY <1>8, <2>2 DEF ReturnedUpTo, FindClosed, Cancel
  <2> QED
    BY <1>8, <2>2, <2>3 DEF IInv, ChannelsInStep, FindClosed, Cancel
<1>9. CASE UNCHANGED vars
  BY <1>9 DEF IInv, ChannelsInStep, SuccessMeansRouted, ReturnedUpTo, Waiting, Last, vars
<1> QED
  BY <1>1, <1>2, <1>3, <1>4, <1>5, <1>6, <1>7, <1>8, <1>9 DEF Next, Broker, Reader, Wait

(* The bookkeeping of a channel keeps its types: the reader never overtakes  *)
(* the broker, and at most the last publication is unanswered.               *)
THEOREM TypeCorrect == Spec => []TypeOK
<1>1. Init => TypeOK
  BY InitIInv DEF IInv
<1> QED
  BY <1>1, TypeStep, PTL DEF Spec

(* Publish answers nil only for publications the broker has routed, until    *)
(* something is returned on the channel: the reason why                      *)
(* waitForAMQPPublishOutcome may ignore delivery tags while all events are   *)
(* routable.                                                                *)
THEOREM SuccessIsRouted == Spec => []SuccessMeansRouted
<1>1. IInv => SuccessMeansRouted
  BY DEF IInv
<1> QED
  BY <1>1, InitIInv, IInvStep, PTL DEF Spec
=============================================================================
