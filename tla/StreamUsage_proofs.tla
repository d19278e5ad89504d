--------------------------- MODULE StreamUsage_proofs --------------------------
(***************************************************************************)
(* Proofs about StreamUsage.  The module has no parameter that grows, so   *)
(* what the theorems add to the runs is the argument: which of the facts   *)
(* about the generator each property rests on.                             *)
(*                                                                         *)
(* The two writers of the Usage row do not talk to each other.  What keeps *)
(* the row right is that both decide from facts that no longer change once *)
(* the generator is in its finally (Settled), and that the background task *)
(* finds the row written unless the client has gone (InOrder).             *)
(***************************************************************************)
EXTENDS StreamUsage, TLAPS

(* From its finally on the generator's `status' is backed by what it        *)
(* received or sent; before it nothing was tracked as sent or written.      *)
Settled ==
  /\ gen \in Entered /\ status = "ok" => output \/ completed
  /\ gen = "atError" => status = "fail"
  /\ tracked => completed
  /\ gen \notin Entered => ~completed
  /\ gen \notin Entered \/ gen = "removing" => finish = "none"

(* While the client is there: the finish task has written the row before    *)
(* the response ends, and so before the background task looks at it.        *)
InOrder ==
  client = "here" =>
    /\ status \in {"ok", "fail"}
    /\ gen = "closing" => finish = "done"
    /\ task = "over" => finish = "done"
    /\ background \in {"idle", "done"}
    /\ background = "done" => task = "over"
    /\ row = IF finish = "done" THEN status ELSE "started"

IInv == /\ TypeOK /\ Settled /\ InOrder
        /\ ReleasedOnce /\ OkHasEvidence /\ UndisturbedRow

-------------------------------------------------------------------------------
LEMMA InitIInv == Init => IInv
<1> SUFFICES ASSUME Init PROVE IInv
  OBVIOUS
<1>1. deleteFlag \in BOOLEAN
  BY ConstantsAssumption DEF Init
<1>2. TypeOK
  BY <1>1 DEF Init, TypeOK, GenState, Statuses
<1>3. QED
  BY <1>2 DEF Init, IInv, Settled, InOrder, ReleasedOnce, OkHasEvidence,
              UndisturbedRow, Entered

(* Entering the finally of the generator, from anywhere before it, keeps the *)
(* invariant if the status fits: the slot is given back, and the evidence    *)
(* for the status is fixed from now on.                                      *)
LEMMA EnterFinallyKeeps ==
  ASSUME IInv, gen \notin Entered,
         NEW st \in Statuses \ {"started"}, NEW done \in BOOLEAN,
         EnterFinally(st, done),
         st = "ok" => output \/ done,
         client = "here" => st # "interrupted",
         tracked' \in BOOLEAN, tracked' => done,
         UNCHANGED <<client, task, output, conv, deleteFlag, background, row,
                     resp>>
  PROVE  IInv'
<1>1. /\ gen' \in {"removing", "finishing"}
      /\ finish' = IF gen' = "removing" THEN "none" ELSE "running"
      /\ status' = st /\ completed' = done /\ releases' = 1
  BY DEF EnterFinally, StartFinish, IInv, Settled, ReleasedOnce
<1>2. TypeOK'
  BY <1>1 DEF IInv, TypeOK, GenState, AtYield, InAwait, Statuses
<1>3. finish = "none" /\ ~completed /\ (client = "here" => row = "started")
  BY DEF IInv, Settled, InOrder
<1>4. Settled'
  BY <1>1 DEF Settled, Entered
<1>5. InOrder' /\ UndisturbedRow'
  BY <1>1, <1>3 DEF IInv, InOrder, UndisturbedRow, Statuses
<1>6. ReleasedOnce' /\ OkHasEvidence'
  BY <1>1, <1>3 DEF IInv, ReleasedOnce, OkHasEvidence, Entered
<1>7. QED
  BY <1>2, <1>4, <1>5, <1>6 DEF IInv

LEMMA StepIInv == IInv /\ [Next]_vars => IInv'
<1> SUFFICES ASSUME IInv, [Next]_vars
             PROVE  IInv'
  OBVIOUS
<1> USE DEF IInv, TypeOK, Settled, InOrder, ReleasedOnce, OkHasEvidence,
            UndisturbedRow, Entered, GenState, AtYield, InAwait, Statuses
<1>1. CASE GeneratorStep
  <2> USE DEF StayOut
  <2>1. CASE Start           BY <2>1 DEF Start
  <2>2. CASE Opened          BY <2>2 DEF Opened
  <2>3. CASE ReadNoChoices   BY <2>3 DEF ReadNoChoices
  <2>4. CASE ReadChunk
    <3>1. output' \in BOOLEAN /\ conv' \in BOOLEAN /\ (output => output')
      <4>1. /\ output' = output \/ output' = TRUE
            /\ conv' = conv \/ conv' = TRUE
        BY <2>4, Zenon DEF ReadChunk
      <4>2. output \in BOOLEAN /\ conv \in BOOLEAN
        OBVIOUS
      <4>3. QED  BY ONLY <4>1, <4>2
    <3>2. QED  BY <2>4, <3>1 DEF ReadChunk
  <2>5. CASE ReadEnd         BY <2>5 DEF ReadEnd
  <2>6. CASE UpstreamRaises  BY <2>6 DEF UpstreamRaises
  <2>7. CASE Sent
    <3>1. CASE gen = "atChunk" \/ gen = "atFinal"
      <4>1. /\ gen' \in {"reading", "atDone"}
            /\ StayOut
            /\ UNCHANGED <<client, task, output, conv, deleteFlag, tracked,
                           background, row, resp>>
        BY <2>7, <3>1, Zenon DEF Sent
      <4>2. QED  BY <3>1, <4>1
    <3>2. CASE gen = "atDone"
      <4>1. EnterFinally(status, TRUE) /\ tracked' = TRUE
        BY <2>7, <3>2 DEF Sent
      <4>2. QED  BY <2>7, <3>2, <4>1, EnterFinallyKeeps DEF Sent
    <3>3. CASE gen = "atEnd"
      <4>1. EnterFinally(status, TRUE) /\ tracked' = tracked
        BY <2>7, <3>3 DEF Sent
      <4>2. QED  BY <2>7, <3>3, <4>1, EnterFinallyKeeps DEF Sent
    <3>4. CASE gen = "atError"
      BY <2>7, <3>4, EnterFinallyKeeps DEF Sent
    <3>5. QED  BY <2>7, <3>1, <3>2, <3>3, <3>4 DEF Sent
  <2>8. CASE Removed         BY <2>8 DEF Removed, StartFinish
  <2>9. CASE Finished        BY <2>9 DEF Finished
  <2>10. CASE FinishRaised   BY <2>10 DEF FinishRaised
  <2>11. CASE Closed         BY <2>11 DEF Closed
  <2>12. QED
    BY <1>1, <2>1, <2>2, <2>3, <2>4, <2>5, <2>6, <2>7, <2>8, <2>9, <2>10, <2>11
       DEF GeneratorStep, UpstreamEnds
<1>2. CASE Disconnect        BY <1>2 DEF Disconnect, StayOut
<1>3. CASE Cancellation
  <2> USE DEF StayOut, Cancelled
  <2>1. CASE CancelUnstarted  BY <2>1 DEF CancelUnstarted
  <2>2. CASE CancelUpstream   BY <2>2, EnterFinallyKeeps DEF CancelUpstream
  <2>3. CASE CancelRemoving   BY <2>3 DEF CancelRemoving
  <2>4. CASE CancelFinishing  BY <2>4 DEF CancelFinishing
  <2>5. CASE CancelSend       BY <2>5 DEF CancelSend
  <2>6. QED  BY <1>3, <2>1, <2>2, <2>3, <2>4, <2>5 DEF Cancellation
<1>4. CASE Finalise          BY <1>4, EnterFinallyKeeps DEF Finalise
<1>5. CASE FinishWrites      BY <1>5 DEF FinishWrites
<1>6. CASE BackgroundReads   BY <1>6 DEF BackgroundReads, StayOut
<1>7. CASE BackgroundWrites  BY <1>7 DEF BackgroundWrites, StayOut
<1>8. CASE UNCHANGED vars    BY <1>8 DEF vars
<1>9. QED
  BY <1>1, <1>2, <1>3, <1>4, <1>5, <1>6, <1>7, <1>8 DEF Next

-------------------------------------------------------------------------------
(* The facts the writers decide from hold in every reachable state.          *)
THEOREM Inductive == Spec => []IInv
BY InitIInv, StepIInv, PTL DEF Spec

(* Types of the stream model.                                                *)
THEOREM TypeCorrect == Spec => []TypeOK
<1>1. IInv => TypeOK
  BY DEF IInv
<1>2. QED  BY <1>1, Inductive, PTL

(* chat.py:329-338: a generator that has started gives its slot back, and    *)
(* does so once, on whatever way it leaves.                                  *)
THEOREM GivesBackOnce == Spec => []ReleasedOnce
<1>1. IInv => ReleasedOnce
  BY DEF IInv
<1>2. QED  BY <1>1, Inductive, PTL

(* chat.py:114-150, 308-327: neither writer says "ok" of a stream that       *)
(* received nothing and sent no [DONE].                                      *)
THEOREM OkIsBacked == Spec => []OkHasEvidence
<1>1. IInv => OkHasEvidence
  BY DEF IInv
<1>2. QED  BY <1>1, Inductive, PTL

(* While the client stays, the background task changes nothing: the row says *)
(* what the generator decided.                                               *)
THEOREM NoDisturbance == Spec => []UndisturbedRow
<1>1. IInv => UndisturbedRow
  BY DEF IInv
<1>2. QED  BY <1>1, Inductive, PTL

(* chat.py:339-345: the conversation is deleted only by a generator that     *)
(* resumed from its last yield, under the response task.                     *)
THEOREM RemovesOnlyComplete == Spec => RemoveOnlyComplete
<1> DEFINE Deletion == gen' = "removing" /\ gen # "removing" =>
                         gen \in {"atDone", "atEnd"} /\ task = "body"
<1>1. ASSUME IInv, Next
      PROVE  Deletion
  <2> USE <1>1 DEF EnterFinally, StartFinish
  <2>1. CASE GeneratorStep
    BY <2>1 DEF GeneratorStep, UpstreamEnds, Start, Opened, ReadNoChoices,
                ReadChunk, ReadEnd, UpstreamRaises, Sent, Removed, Finished,
                FinishRaised, Closed
  <2>2. CASE Cancellation
    BY <2>2 DEF Cancellation, CancelUnstarted, CancelUpstream, CancelRemoving,
                CancelFinishing, CancelSend
  <2>3. CASE Finalise
    BY <2>3 DEF Finalise
  <2>4. CASE Disconnect \/ FinishWrites \/ BackgroundReads \/ BackgroundWrites
    BY <2>4 DEF Disconnect, FinishWrites, BackgroundReads, BackgroundWrites
  <2>5. QED  BY <2>1, <2>2, <2>3, <2>4 DEF Next
<1>2. ASSUME UNCHANGED vars
      PROVE  Deletion
  BY <1>2 DEF vars
<1>3. IInv /\ [Next]_vars => [Deletion]_vars
  BY <1>1, <1>2
<1>4. QED
  BY <1>3, Inductive, PTL DEF Spec, RemoveOnlyComplete

(* chat.py:304-311: a stream with output is called interrupted only when it  *)
(* is finalised at a yield, and only its finish task writes that.            *)
THEOREM OutputIsKept == Spec => OutputLostOnlyAtSend
<1> DEFINE Kept ==
      output =>
        /\ status' = "interrupted" /\ status # "interrupted" => gen \in AtYield
        /\ row' = "interrupted" /\ row # "interrupted" => finish = "running"
<1>1. ASSUME Next
      PROVE  Kept
  <2> USE <1>1 DEF EnterFinally, StartFinish, StayOut
  <2>1. CASE GeneratorStep
    BY <2>1 DEF GeneratorStep, UpstreamEnds, Start, Opened, ReadNoChoices,
                ReadChunk, ReadEnd, UpstreamRaises, Sent, Removed, Finished,
                FinishRaised, Closed
  <2>2. CASE Cancellation
    BY <2>2 DEF Cancellation, CancelUnstarted, CancelUpstream, CancelRemoving,
                CancelFinishing, CancelSend
  <2>3. CASE Finalise
    BY <2>3 DEF Finalise
  <2>4. CASE Disconnect \/ FinishWrites \/ BackgroundReads \/ BackgroundWrites
    BY <2>4 DEF Disconnect, FinishWrites, BackgroundReads, BackgroundWrites
  <2>5. QED  BY <2>1, <2>2, <2>3, <2>4 DEF Next
<1>2. ASSUME UNCHANGED vars
      PROVE  Kept
  BY <1>2 DEF vars
<1>3. [Next]_vars => [Kept]_vars
  BY <1>1, <1>2
<1>4. QED
  BY <1>3, PTL DEF Spec, OutputLostOnlyAtSend
-------------------------------------------------------------------------------
(* The part of UsageSettles that needs no fairness: while the row says       *)
(* "started" the background task is still to come or at work, whatever       *)
(* happened to the generator, unless a commit raised.                        *)
OpenRowHasWriter ==
  row = "started" =>
    \/ task = "body"
    \/ task = "over" /\ background \in {"idle", "settling"}
    \/ "failed" \in {finish, background}

(* A task that is done has written or found the row written, and only a      *)
(* raising commit of the finish task ends the response without one.          *)
Settling ==
  /\ background = "done" => row # "started"
  /\ task = "failed" => finish = "failed"

(* chat.py:126-127: no way out of the generator, not even that it never      *)
(* starts, leaves the row open with nobody left to settle it.                *)
THEOREM RowKeepsAWriter == Spec => []OpenRowHasWriter
<1>1. Init => Settling
  BY DEF Init, Settling
<1>2. IInv /\ Settling /\ [Next]_vars => Settling'
  <2> SUFFICES ASSUME IInv, Settling, [Next]_vars
               PROVE  Settling'
    OBVIOUS
  <2> USE DEF Settling, IInv, TypeOK, StayOut, EnterFinally, StartFinish
  <2>1. CASE GeneratorStep
    <3>1. UNCHANGED <<row, background>>
      BY <2>1 DEF GeneratorStep, UpstreamEnds, Start, Opened, ReadNoChoices,
                  ReadChunk, ReadEnd, UpstreamRaises, Sent, Removed, Finished,
                  FinishRaised, Closed
    <3>2. task' = "failed" => finish' = "failed"
      BY <2>1 DEF GeneratorStep, UpstreamEnds, Start, Opened, ReadNoChoices,
                  ReadChunk, ReadEnd, UpstreamRaises, Sent, Removed, Finished,
                  FinishRaised, Closed, Settled, Entered
    <3>3. QED  BY <3>1, <3>2
  <2>2. CASE Cancellation
    BY <2>2 DEF Cancellation, CancelUnstarted, CancelUpstream, CancelRemoving,
                CancelFinishing, CancelSend, Cancelled
  <2>3. CASE Finalise
    BY <2>3 DEF Finalise
  <2>4. CASE FinishWrites
    BY <2>4 DEF FinishWrites, Statuses
  <2>5. CASE Disconnect \/ BackgroundReads \/ BackgroundWrites \/ UNCHANGED vars
    BY <2>5 DEF Disconnect, BackgroundReads, BackgroundWrites, vars
  <2>6. QED  BY <2>1, <2>2, <2>3, <2>4, <2>5 DEF Next
<1>3. IInv /\ Settling => OpenRowHasWriter
  BY DEF IInv, TypeOK, Settling, OpenRowHasWriter
<1>4. QED  BY <1>1, <1>2, <1>3, Inductive, PTL DEF Spec
===============================================================================
