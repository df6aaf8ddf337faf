------------------------------ MODULE RunsSync ------------------------------
(***************************************************************************)
(* One runs.sync request (internal/remote/handler.go, RunsSync): the        *)
(* outputs listed by each run's result.json are measured and described to   *)
(* the server, which answers with upload URLs; then each file is uploaded   *)
(* and the upload confirmed.  Answers are matched to outputs by position.   *)
(*                                                                          *)
(* Between one access of a file and the next the file may change or vanish: *)
(* every access finds what it finds, and fails or not whatever the one      *)
(* before it did.  What is inside a file is left out.  The code describes   *)
(* it by result.json's digest and size, which it does not check, and by a   *)
(* checksum of its own; whether what is uploaded later still agrees is for  *)
(* the storage to compare: here it takes or refuses any upload.             *)
(***************************************************************************)
EXTENDS Integers, Sequences

CONSTANTS
  Shape,                 \* Shape[r]: how many outputs run r's result.json lists
  MaxRateLimitRetries,   \* handler.go:130
  NoAnswer, NoContent

ASSUME ShapeAssumption ==
  /\ Shape \in Seq(Nat)
  /\ MaxRateLimitRetries \in Nat

VARIABLES
  pc,         \* the next step of the request
  run, todo,  \* the run being collected, and its outputs not looked at yet
  sent,       \* sent[r]: the outputs described to the server
  queue,      \* outputPaths: what to upload, with its place in the request
  attempt,    \* of the SyncRuns call
  resp,       \* the answer's runs
  at,         \* the place in queue, 0 until the uploads begin
  failed,     \* failedOutputs
  cloud,      \* cloud[o]: whose file is stored for o, and is that confirmed?
  puts        \* which output was uploaded to whose URL (history)

vars == <<pc, run, todo, sent, queue, attempt, resp, at, failed, cloud, puts>>

collect == <<run, todo, sent, queue>>

Runs     == DOMAIN Shape
Outputs  == UNION {{<<r, i>> : i \in 1..Shape[r]} : r \in Runs}
Offers   == {"no_upload", "upload", "upload_and_confirm"}
Places   == [run : Runs, index : Nat, out : Outputs]
Answered == [for : Outputs, offer : Offers]
Answers  == Seq([run : Runs, outs : Seq(Answered)])
Records  == [content : {NoContent} \cup Outputs, confirmed : BOOLEAN]
Ends     == {"answered", "refused", "gone"}

ASSUME NothingAssumption == NoAnswer \notin Answers /\ NoContent \notin Outputs

TypeOK ==
  /\ pc \in {"auth", "collect", "sync", "upload", "confirm"} \cup Ends
  /\ run \in 0..Len(Shape)
  /\ todo \in Seq(Outputs)
  /\ sent \in [Runs -> Seq(Outputs)]
  /\ queue \in Seq(Places)
  /\ attempt \in 0..MaxRateLimitRetries
  /\ resp \in {NoAnswer} \cup Answers
  /\ at \in 0..(Len(queue) + 1)
  /\ failed \in Seq(Outputs)
  /\ cloud \in [Outputs -> Records]
  /\ puts \subseteq [from : Outputs, to : Outputs]

Init ==
  /\ pc = "auth"
  /\ run = 0
  /\ todo = <<>>
  /\ sent = [r \in Runs |-> <<>>]
  /\ queue = <<>>
  /\ attempt = 0
  /\ resp = NoAnswer
  /\ at = 0
  /\ failed = <<>>
  /\ cloud = [o \in Outputs |-> [content |-> NoContent, confirmed |-> FALSE]]
  /\ puts = {}

-----------------------------------------------------------------------------
(* At any moment.                                                            *)

Crash ==
  /\ pc \notin Ends
  /\ pc' = "gone"
  /\ UNCHANGED <<collect, attempt, resp, at, failed, cloud, puts>>

-----------------------------------------------------------------------------
(* Collecting the outputs.                                                   *)

\* getClient.
Authenticate ==
  /\ pc = "auth"
  /\ pc' \in {"collect", "refused"}
  /\ UNCHANGED <<collect, attempt, resp, at, failed, cloud, puts>>

\* result.json is read, or it is unreadable and the run is sent without outputs.
ReadResult ==
  /\ pc = "collect"
  /\ todo = <<>>
  /\ run < Len(Shape)
  /\ run' = run + 1
  /\ \/ todo' = [i \in 1..Shape[run + 1] |-> <<run + 1, i>>]
     \/ UNCHANGED todo
  /\ UNCHANGED <<pc, sent, queue, attempt, resp, at, failed, cloud, puts>>

\* safeJoinWithinBase, Stat or computeMD5Checksum fails, or Stat finds the file
\* too large.
RefuseOutput ==
  /\ pc = "collect"
  /\ todo # <<>>
  /\ failed' = Append(failed, Head(todo))
  /\ todo' = Tail(todo)
  /\ UNCHANGED <<pc, run, sent, queue, attempt, resp, at, cloud, puts>>

\* A mistake: a count of the run's outputs that is not kept up.
PlaceNotCounted(o) == 1

\* len(runInfo.Outputs) - 1 after the append, counted from 1.
PlaceInRequest(o) == Len(sent[o[1]]) + 1

\* All four succeed.
MeasureOutput ==
  LET o == Head(todo) IN
  /\ pc = "collect"
  /\ todo # <<>>
  /\ sent' = [sent EXCEPT ![run] = Append(@, o)]
  /\ queue' = Append(queue, [run |-> run, index |-> PlaceInRequest(o), out |-> o])
  /\ todo' = Tail(todo)
  /\ UNCHANGED <<pc, run, attempt, resp, at, failed, cloud, puts>>

Collected ==
  /\ pc = "collect"
  /\ todo = <<>>
  /\ run = Len(Shape)
  /\ pc' = "sync"
  /\ UNCHANGED <<collect, attempt, resp, at, failed, cloud, puts>>

-----------------------------------------------------------------------------
(* The SyncRuns call and its retries.                                        *)

\* The runs of an answer: some of those sent, in their order.
Increasing ==
  {order \in UNION {[1..n -> Runs] : n \in 0..Len(Shape)} :
     \A i, j \in DOMAIN order : i < j => order[i] < order[j]}

\* Of every run, the first outputs, each with or without an upload.
SyncAnswered ==
  /\ pc = "sync"
  /\ \E order \in Increasing, offer \in [Outputs -> Offers],
        shown \in [Runs -> 0..Len(queue)] :
       /\ \A r \in Runs : shown[r] <= Len(sent[r])
       /\ resp' = [i \in DOMAIN order |->
            [run  |-> order[i],
             outs |-> [k \in 1..shown[order[i]] |->
               [for |-> sent[order[i]][k], offer |-> offer[sent[order[i]][k]]]]]]
  /\ pc' = "upload"
  /\ at' = 1
  /\ UNCHANGED <<collect, attempt, failed, cloud, puts>>

\* A mistake: the last attempt is one later.
LastAttemptLate == attempt > MaxRateLimitRetries

LastAttempt == attempt = MaxRateLimitRetries

\* 429: wait and try again...
SyncRateLimited ==
  /\ pc = "sync"
  /\ ~LastAttempt
  /\ attempt' = attempt + 1
  /\ UNCHANGED <<pc, collect, resp, at, failed, cloud, puts>>

\* A mistake: the loop is left, not the function.
SyncGivesUpOnLoop ==
  /\ pc = "sync"
  /\ LastAttempt
  /\ pc' = "upload"
  /\ at' = 1
  /\ UNCHANGED <<collect, attempt, resp, failed, cloud, puts>>

\* ...up to the last attempt.
SyncGivesUp ==
  /\ pc = "sync"
  /\ LastAttempt
  /\ pc' = "refused"
  /\ UNCHANGED <<collect, attempt, resp, at, failed, cloud, puts>>

\* Any other error, 202 included.
SyncFails ==
  /\ pc = "sync"
  /\ pc' = "refused"
  /\ UNCHANGED <<collect, attempt, resp, at, failed, cloud, puts>>

-----------------------------------------------------------------------------
(* The uploads, one queue entry after another.                               *)

Uploading == pc = "upload" /\ at <= Len(queue)

Place == queue[at]

\* The answer may have fewer runs or outputs than the request.
HasPlace == Place.run <= Len(resp) /\ Place.index <= Len(resp[Place.run].outs)

\* What the answer says at the output's place: whose record it is does not show.
Reply == resp[Place.run].outs[Place.index]

Wanted == HasPlace /\ Reply.offer # "no_upload"

Advance == at' = at + 1

\* A mistake: an index that continue does not advance.
SkipWithoutAdvancing ==
  /\ Uploading
  /\ ~Wanted
  /\ UNCHANGED vars

SkipOutput ==
  /\ Uploading
  /\ ~Wanted
  /\ Advance
  /\ UNCHANGED <<pc, collect, attempt, resp, failed, cloud, puts>>

\* A mistake: no continue after the failure.
OpenFailsAndGoesOn ==
  /\ Uploading
  /\ Wanted
  /\ failed' = Append(failed, Place.out)
  /\ pc' = "confirm"
  /\ UNCHANGED <<collect, attempt, resp, at, cloud, puts>>

OpenFails ==
  /\ Uploading
  /\ Wanted
  /\ failed' = Append(failed, Place.out)
  /\ Advance
  /\ UNCHANGED <<pc, collect, attempt, resp, cloud, puts>>

Stored(to, from) == cloud' = [cloud EXCEPT ![to].content = from]

Upload ==
  /\ Uploading
  /\ Wanted
  /\ Stored(Reply.for, Place.out)
  /\ puts' = puts \cup {[from |-> Place.out, to |-> Reply.for]}
  /\ IF Reply.offer = "upload_and_confirm" THEN pc' = "confirm" /\ UNCHANGED at
     ELSE Advance /\ UNCHANGED pc
  /\ UNCHANGED <<collect, attempt, resp, failed>>

\* Refused, or stored and the answer lost.
UploadFails ==
  /\ Uploading
  /\ Wanted
  /\ puts' = puts \cup {[from |-> Place.out, to |-> Reply.for]}
  /\ UNCHANGED cloud \/ Stored(Reply.for, Place.out)
  /\ failed' = Append(failed, Place.out)
  /\ Advance
  /\ UNCHANGED <<pc, collect, attempt, resp>>

Confirmed == cloud' = [cloud EXCEPT ![Reply.for].confirmed = TRUE]

Confirm ==
  /\ pc = "confirm"
  /\ Confirmed
  /\ Advance
  /\ pc' = "upload"
  /\ UNCHANGED <<collect, attempt, resp, failed, puts>>

\* A mistake: the failure is only logged.
ConfirmFailsQuietly ==
  /\ pc = "confirm"
  /\ Advance
  /\ pc' = "upload"
  /\ UNCHANGED <<collect, attempt, resp, failed, cloud, puts>>

\* Refused, answered with 202, or confirmed and the answer lost.
ConfirmFails ==
  /\ pc = "confirm"
  /\ Confirmed \/ UNCHANGED cloud
  /\ failed' = Append(failed, Place.out)
  /\ Advance
  /\ pc' = "upload"
  /\ UNCHANGED <<collect, attempt, resp, puts>>

Answer ==
  /\ pc = "upload"
  /\ at > Len(queue)
  /\ pc' = "answered"
  /\ UNCHANGED <<collect, attempt, resp, at, failed, cloud, puts>>

-----------------------------------------------------------------------------
Work ==
  \/ Authenticate
  \/ ReadResult \/ RefuseOutput \/ MeasureOutput \/ Collected
  \/ SyncAnswered \/ SyncRateLimited \/ SyncGivesUp \/ SyncFails
  \/ SkipOutput \/ OpenFails \/ Upload \/ UploadFails
  \/ Confirm \/ ConfirmFails
  \/ Answer

Next == Work \/ Crash

\* The handler is one thread that nothing blocks: files are read at once, calls
\* end with the client's timeout of 30 s, and so do the waits.
Spec == Init /\ [][Next]_vars /\ WF_vars(Work)

-----------------------------------------------------------------------------
(* Properties.                                                               *)

\* The answer has the runs of the request at their places.
Aligned == resp # NoAnswer /\ \A i \in DOMAIN resp : resp[i].run = i

\* Whatever was refused at collection, left out at the end of the answer or
\* skipped, an upload goes to the URL of its own output: the place counted
\* while collecting is the place in the answer (outputIndex, handler.go:844).
AddressedToItself == Aligned => \A u \in puts : u.from = u.to

\* A file is looked at, measured and opened at different times, and any of these,
\* the upload and the confirmation may fail: nothing that was refused while
\* collecting is stored (786-815), and no upload is confirmed that did not happen,
\* at whatever place the answer has it (887-925).
ConfirmedIsUploaded ==
  \A o \in Outputs :
    /\ cloud[o].content # NoContent =>
         \E k \in DOMAIN sent[cloud[o].content[1]] :
           sent[cloud[o].content[1]][k] = cloud[o].content
    /\ cloud[o].confirmed => cloud[o].content # NoContent

\* The uploads read the server's answer: after any mix of 429s and errors, there
\* is one.  The loop of push.finalize falls through here; this one does not.
UploadsFollowAnswer == at > 0 => resp # NoAnswer

FailedOutputs == {failed[i] : i \in DOMAIN failed}

Passed(o) == at > 0 /\ \A k \in at..Len(queue) : queue[k].out # o

\* The server asked for this upload.
Asked(o) ==
  \E i \in DOMAIN resp : \E k \in DOMAIN resp[i].outs :
    resp[i].outs[k].for = o /\ resp[i].outs[k].offer # "no_upload"

ToConfirm(o) ==
  \E i \in DOMAIN resp : \E k \in DOMAIN resp[i].outs :
    resp[i].outs[k] = [for |-> o, offer |-> "upload_and_confirm"]

\* When an answer lost a run, places do not tell what it asked for.
Fate(o) ==
  IF o \in FailedOutputs THEN "failed"
  ELSE IF ~Passed(o) THEN "pending"
  ELSE IF ~Aligned \/ ~Asked(o) THEN "unasked"
  ELSE IF cloud[o].content # NoContent /\ (ToConfirm(o) => cloud[o].confirmed) THEN "delivered"
  ELSE "pending"

Deliveries == INSTANCE OutputDelivery WITH
  fate     <- [o \in Outputs |-> Fate(o)],
  answered <- pc = "answered"

\* Through refused files, retries, lost answers and failed uploads, every output
\* the server asked for is delivered or collected as failed before the answer,
\* and its fate never changes.
DeliversAsPromised == Deliveries!Spec

\* The request ends, whatever the server answers and the files do.
RequestEnds == <>(pc \in Ends)
=============================================================================
