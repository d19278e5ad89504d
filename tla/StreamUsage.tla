----------------------------- MODULE StreamUsage ------------------------------
(***************************************************************************)
(* One streamed chat completion (server/api/chat.py, _stream_response)     *)
(* from the moment the slot and the pending Usage row are handed to the    *)
(* generator until everybody who can still touch the row is done.          *)
(*                                                                         *)
(* Four parties act on it:                                                 *)
(*  - the response task, which drives the generator and sends its chunks;  *)
(*  - the generator, which awaits worker threads, yields chunks and runs   *)
(*    its finally;                                                         *)
(*  - the finish task, started in the finally and shielded from            *)
(*    cancellation, which writes the row without looking at it;            *)
(*  - the background task of the response, which runs in a thread after    *)
(*    the response task and settles the row if it still says "started".    *)
(*                                                                         *)
(* When the client disconnects the response task is cancelled, and so is   *)
(* every await it makes afterwards.  If it is in an await of the generator *)
(* the generator sees CancelledError there.  If it is sending, the         *)
(* generator stays suspended at its yield until the interpreter finalises  *)
(* it, which raises GeneratorExit at the yield.                            *)
(*                                                                         *)
(* Abstracted: the text of chunks (whether any output was received), the   *)
(* token counts, and the two chunks of an upstream error (one yield).      *)
(***************************************************************************)
EXTENDS Naturals

CONSTANTS DbFaults,       \* TRUE: a commit of the Usage row may raise
          DeleteFlags     \* values of entry.delete_conversation_after

ASSUME ConstantsAssumption == /\ DbFaults \in BOOLEAN
                              /\ DeleteFlags \subseteq BOOLEAN

VARIABLES
  client,     \* "here" or "gone"
  task,       \* the response task: "body", "over", or "failed"
  gen,        \* where the generator is
  output,     \* full_content or full_reasoning is not empty (and the tracker)
  conv,       \* conversation_id is known
  deleteFlag, \* entry.delete_conversation_after
  completed,  \* the local completed
  tracked,    \* tracker["completed"]
  status,     \* the local status
  releases,   \* how often the generator has called pool.release
  finish,     \* the finish task: "none", "running", "done", "failed"
  background, \* "idle", "settling" (it read "started"), "done", "failed"
  row,        \* Usage.status
  resp        \* the upstream response: "none", "open", "closed"

vars == <<client, task, gen, output, conv, deleteFlag, completed, tracked,
          status, releases, finish, background, row, resp>>

AtYield  == {"atChunk", "atFinal", "atDone", "atEnd", "atError"}
InAwait  == {"opening", "reading", "removing", "finishing", "closing"}
GenState == {"unstarted", "never", "dead"} \cup AtYield \cup InAwait
Statuses == {"started", "ok", "interrupted", "fail"}

-------------------------------------------------------------------------------
(* The finally of the generator.  How the generator gets there says what    *)
(* `status' and `completed' are by then.                                    *)

StartFinish == finish' = "running" /\ gen' = "finishing"

EnterFinally(st, done) ==
  /\ status' = st
  /\ completed' = done
  /\ releases' = releases + 1
  /\ IF done /\ conv /\ deleteFlag
     THEN gen' = "removing" /\ UNCHANGED finish
     ELSE StartFinish

StayOut == UNCHANGED <<status, completed, releases, finish>>

-------------------------------------------------------------------------------
(* The generator, driven by the response task *)

Start ==
  /\ task = "body" /\ gen = "unstarted"
  /\ gen' = "opening"
  /\ StayOut
  /\ UNCHANGED <<client, task, output, conv, deleteFlag, tracked, background,
                 row, resp>>

Opened ==
  /\ task = "body" /\ gen = "opening"
  /\ gen' = "reading"
  /\ resp' = "open"
  /\ StayOut
  /\ UNCHANGED <<client, task, output, conv, deleteFlag, tracked, background, row>>

(* a line that leads to no chunk: at most the conversation id is taken      *)
ReadNoChoices ==
  /\ task = "body" /\ gen = "reading"
  /\ conv' \in {conv, TRUE}
  /\ StayOut
  /\ UNCHANGED <<client, task, gen, output, deleteFlag, tracked, background,
                 row, resp>>

ReadChunk ==
  /\ task = "body" /\ gen = "reading"
  /\ output' \in {output, TRUE}
  /\ conv' \in {conv, TRUE}
  /\ gen' \in {"atChunk", "atFinal"}
  /\ StayOut
  /\ UNCHANGED <<client, task, deleteFlag, tracked, background, row, resp>>

ReadEnd ==
  /\ task = "body" /\ gen = "reading"
  /\ gen' = "atEnd"
  /\ StayOut
  /\ UNCHANGED <<client, task, output, conv, deleteFlag, tracked, background,
                 row, resp>>

UpstreamRaises ==
  /\ task = "body" /\ gen \in {"opening", "reading"}
  /\ gen' = "atError"
  /\ status' = "fail"
  /\ UNCHANGED <<client, task, output, conv, deleteFlag, completed, tracked,
                 releases, finish, background, row, resp>>

(* the chunk was sent, the generator resumes after its yield *)
Sent ==
  /\ task = "body"
  /\ \/ gen = "atChunk" /\ gen' = "reading" /\ StayOut /\ UNCHANGED tracked
     \/ gen = "atFinal" /\ gen' = "atDone" /\ StayOut /\ UNCHANGED tracked
     \/ gen = "atDone" /\ EnterFinally(status, TRUE) /\ tracked' = TRUE
     \/ gen = "atEnd" /\ EnterFinally(status, TRUE) /\ UNCHANGED tracked
     \/ gen = "atError" /\ EnterFinally(status, FALSE) /\ UNCHANGED tracked
  /\ UNCHANGED <<client, task, output, conv, deleteFlag, background, row, resp>>

(* mutant: the slot is given back again after the removal *)
Removed_ReleasesAgain ==
  /\ gen = "removing"
  /\ StartFinish
  /\ releases' = releases + 1
  /\ UNCHANGED <<client, task, output, conv, deleteFlag, completed, tracked,
                 status, background, row, resp>>

(* remove_conversation returned or raised an Exception *)
Removed ==
  /\ gen = "removing"
  /\ StartFinish
  /\ UNCHANGED <<client, task, output, conv, deleteFlag, completed, tracked,
                 status, releases, background, row, resp>>

Finished ==
  /\ gen = "finishing" /\ finish = "done"
  /\ gen' = "closing"
  /\ StayOut
  /\ UNCHANGED <<client, task, output, conv, deleteFlag, tracked, background,
                 row, resp>>

(* the exception of the finish task leaves the generator and, if the        *)
(* response task drives it, the response: no background task then           *)
FinishRaised ==
  /\ gen = "finishing" /\ finish = "failed"
  /\ gen' = "dead"
  /\ task' = IF task = "body" THEN "failed" ELSE task
  /\ StayOut
  /\ UNCHANGED <<client, output, conv, deleteFlag, tracked, background, row, resp>>

Closed ==
  /\ gen = "closing"
  /\ gen' = "dead"
  /\ task' = IF task = "body" THEN "over" ELSE task
  /\ resp' = IF resp = "open" THEN "closed" ELSE resp
  /\ StayOut
  /\ UNCHANGED <<client, output, conv, deleteFlag, tracked, background, row>>

-------------------------------------------------------------------------------
(* Disconnection *)

Disconnect ==
  /\ client = "here"
  /\ client' = "gone"
  /\ StayOut
  /\ UNCHANGED <<task, gen, output, conv, deleteFlag, tracked, background, row,
                 resp>>

Cancelled == client = "gone" /\ task = "body"

(* the generator never runs *)
CancelUnstarted ==
  /\ Cancelled /\ gen = "unstarted"
  /\ gen' = "never"
  /\ task' = "over"
  /\ StayOut
  /\ UNCHANGED <<client, output, conv, deleteFlag, tracked, background, row, resp>>

(* mutant: a status that no reader of the table knows *)
CancelUpstream_OtherWord ==
  /\ Cancelled /\ gen \in {"opening", "reading"}
  /\ EnterFinally(IF output THEN "ok" ELSE "cancelled", FALSE)
  /\ UNCHANGED <<client, task, output, conv, deleteFlag, tracked, background,
                 row, resp>>

(* mutant: the status is left as it was *)
CancelUpstream_KeepsStatus ==
  /\ Cancelled /\ gen \in {"opening", "reading"}
  /\ EnterFinally(status, FALSE)
  /\ UNCHANGED <<client, task, output, conv, deleteFlag, tracked, background,
                 row, resp>>

(* mutant: interrupted whatever was received *)
CancelUpstream_Interrupted ==
  /\ Cancelled /\ gen \in {"opening", "reading"}
  /\ EnterFinally("interrupted", FALSE)
  /\ UNCHANGED <<client, task, output, conv, deleteFlag, tracked, background,
                 row, resp>>

(* CancelledError in the try block *)
CancelUpstream ==
  /\ Cancelled /\ gen \in {"opening", "reading"}
  /\ EnterFinally(IF output THEN "ok" ELSE "interrupted", FALSE)
  /\ UNCHANGED <<client, task, output, conv, deleteFlag, tracked, background,
                 row, resp>>

(* CancelledError is no Exception: it leaves the finally at once *)
CancelRemoving ==
  /\ Cancelled /\ gen = "removing"
  /\ gen' = "dead"
  /\ task' = "over"
  /\ StayOut
  /\ UNCHANGED <<client, output, conv, deleteFlag, tracked, background, row, resp>>

(* CancelledError is swallowed, the shielded finish task goes on *)
CancelFinishing ==
  /\ Cancelled /\ gen = "finishing"
  /\ gen' = "closing"
  /\ StayOut
  /\ UNCHANGED <<client, task, output, conv, deleteFlag, tracked, background,
                 row, resp>>

(* the response task leaves the generator suspended at its yield *)
CancelSend ==
  /\ Cancelled /\ gen \in AtYield
  /\ task' = "over"
  /\ StayOut
  /\ UNCHANGED <<client, gen, output, conv, deleteFlag, tracked, background,
                 row, resp>>

(* mutant: completed is set before the last yield instead of after it *)
Finalise_CompletedEarly ==
  /\ task = "over" /\ gen \in AtYield
  /\ EnterFinally(IF gen = "atError" THEN status ELSE "interrupted",
                  gen \in {"atDone", "atEnd"})
  /\ UNCHANGED <<client, task, output, conv, deleteFlag, tracked, background,
                 row, resp>>

(* GeneratorExit at the yield; in the error handler nothing catches it *)
Finalise ==
  /\ task = "over" /\ gen \in AtYield
  /\ EnterFinally(IF gen = "atError" THEN status ELSE "interrupted", FALSE)
  /\ UNCHANGED <<client, task, output, conv, deleteFlag, tracked, background,
                 row, resp>>

-------------------------------------------------------------------------------
(* The two writers of the row *)

(* _finish_usage, in a thread of the finish task *)
FinishWrites ==
  /\ finish = "running"
  /\ \/ row' = status /\ finish' = "done"
     \/ DbFaults /\ finish' = "failed" /\ UNCHANGED row
  /\ UNCHANGED <<client, task, gen, output, conv, deleteFlag, completed,
                 tracked, status, releases, background, resp>>

(* mutant: the background task does not look at the status *)
BackgroundReads_Always ==
  /\ task = "over" /\ background = "idle"
  /\ background' = "settling"
  /\ StayOut
  /\ UNCHANGED <<client, task, gen, output, conv, deleteFlag, tracked, row, resp>>

(* mutant: the background task relies on the generator having run *)
BackgroundReads_IfRun ==
  /\ task = "over" /\ background = "idle"
  /\ background' = IF row = "started" /\ gen # "never" THEN "settling" ELSE "done"
  /\ StayOut
  /\ UNCHANGED <<client, task, gen, output, conv, deleteFlag, tracked, row, resp>>

(* _finish_stream_usage, in a thread of the background task *)
BackgroundReads ==
  /\ task = "over" /\ background = "idle"
  /\ background' = IF row = "started" THEN "settling" ELSE "done"
  /\ StayOut
  /\ UNCHANGED <<client, task, gen, output, conv, deleteFlag, tracked, row, resp>>

BackgroundWrites ==
  /\ background = "settling"
  /\ \/ /\ row' = IF tracked \/ output THEN "ok" ELSE "interrupted"
        /\ background' = "done"
     \/ DbFaults /\ background' = "failed" /\ UNCHANGED row
  /\ StayOut
  /\ UNCHANGED <<client, task, gen, output, conv, deleteFlag, tracked, resp>>

-------------------------------------------------------------------------------
Init ==
  /\ client = "here"
  /\ task = "body"
  /\ gen = "unstarted"
  /\ output = FALSE
  /\ conv = FALSE
  /\ deleteFlag \in DeleteFlags
  /\ completed = FALSE
  /\ tracked = FALSE
  /\ status = "ok"
  /\ releases = 0
  /\ finish = "none"
  /\ background = "idle"
  /\ row = "started"
  /\ resp = "none"

UpstreamEnds == ReadEnd \/ UpstreamRaises

GeneratorStep ==
  \/ Start \/ Opened \/ ReadNoChoices \/ ReadChunk \/ UpstreamEnds \/ Sent
  \/ Removed \/ Finished \/ FinishRaised \/ Closed

Cancellation ==
  \/ CancelUnstarted \/ CancelUpstream \/ CancelRemoving \/ CancelFinishing
  \/ CancelSend

Next ==
  \/ GeneratorStep \/ Disconnect \/ Cancellation \/ Finalise
  \/ FinishWrites \/ BackgroundReads \/ BackgroundWrites

Spec == Init /\ [][Next]_vars

(* Worker threads and ready tasks run; the interpreter finalises abandoned  *)
(* generators; an upstream that keeps sending lines stops at last.  Nothing *)
(* makes the client disconnect.                                             *)
Fairness ==
  /\ WF_vars(GeneratorStep) /\ SF_vars(UpstreamEnds)
  /\ WF_vars(Finalise) /\ WF_vars(Cancellation)
  /\ WF_vars(FinishWrites) /\ WF_vars(BackgroundReads) /\ WF_vars(BackgroundWrites)

FairSpec == Spec /\ Fairness

-------------------------------------------------------------------------------
(* Properties *)

(* Every variable has its type. *)
TypeOK ==
  /\ client \in {"here", "gone"}
  /\ task \in {"body", "over", "failed"}
  /\ gen \in GenState
  /\ output \in BOOLEAN /\ conv \in BOOLEAN /\ deleteFlag \in BOOLEAN
  /\ completed \in BOOLEAN /\ tracked \in BOOLEAN
  /\ status \in Statuses \ {"started"}
  /\ releases \in Nat
  /\ finish \in {"none", "running", "done", "failed"}
  /\ background \in {"idle", "settling", "done", "failed"}
  /\ row \in Statuses
  /\ resp \in {"none", "open", "closed"}

Entered == {"removing", "finishing", "closing", "dead"}

(* A generator that has started gives its slot back exactly once, on every  *)
(* way out: end, error, cancellation in an await, finalisation at a yield   *)
(* (chat.py:329-338).                                                       *)
ReleasedOnce == releases = IF gen \in Entered THEN 1 ELSE 0

(* The conversation is deleted only after the whole answer went out to the  *)
(* client without a cancellation (chat.py:339-345).                         *)
RemoveOnlyComplete ==
  [][gen' = "removing" /\ gen # "removing" =>
       gen \in {"atDone", "atEnd"} /\ task = "body"]_vars

(* "ok" is written only for a stream that sent its [DONE] or had received   *)
(* some output, whichever of the two writers wrote it.                      *)
OkHasEvidence == row = "ok" => output \/ completed

(* Without a disconnection the two writers do not disturb each other: once  *)
(* written the row says whether the upstream raised.                        *)
UndisturbedRow ==
  client = "here" => row \in {"started", status} /\ row # "interrupted"

(* The row does not say "started" for ever: whatever happens to the         *)
(* generator, one of the two writers settles it (chat.py:126-127), unless   *)
(* the commit of one of them raised.                                        *)
UsageSettles == <>[](row # "started" \/ "failed" \in {finish, background})

(* "When output has been received the request itself succeeded; only        *)
(* otherwise is it really interrupted" (chat.py:308-309).  That holds of    *)
(* every way but one: only a generator that is finalised at a yield calls a *)
(* stream with output interrupted, and only the finish task carries that to *)
(* the row.                                                                 *)
OutputLostOnlyAtSend ==
  [][output =>
       /\ status' = "interrupted" /\ status # "interrupted" => gen \in AtYield
       /\ row' = "interrupted" /\ row # "interrupted" => finish = "running"]_vars
===============================================================================
