---------------------------- MODULE RunsSync_proofs ----------------------------
(***************************************************************************)
(* Proofs about RunsSync, for any runs with any number of outputs and any   *)
(* number of retries.                                                       *)
(***************************************************************************)
EXTENDS RunsSync, TLAPS

\* Outputs are described in the order of result.json, each once, and the queue
\* knows the place of each of them.
QueueInv ==
  /\ todo # <<>> => run \in Runs
  /\ \A i \in 1..Len(todo) : todo[i][1] = run
  /\ \A i, j \in 1..Len(todo) : i < j => todo[i][2] < todo[j][2]
  /\ \A r \in Runs : r > run => sent[r] = <<>>
  /\ \A r \in Runs : \A k \in 1..Len(sent[r]) : sent[r][k][1] = r
  /\ \A r \in Runs : \A k, l \in 1..Len(sent[r]) :
       k < l => sent[r][k][2] < sent[r][l][2]
  /\ \A i \in 1..Len(todo) : \A k \in 1..Len(sent[run]) : sent[run][k][2] < todo[i][2]
  /\ \A q \in 1..Len(queue) :
       /\ queue[q].index \in 1..Len(sent[queue[q].run])
       /\ sent[queue[q].run][queue[q].index] = queue[q].out
  /\ \A r \in Runs : \A k \in 1..Len(sent[r]) :
       \E q \in 1..Len(queue) : queue[q].out = sent[r][k]

\* An answer has outputs of the request at their places in a run; nothing is
\* uploaded before there is one.
AnswerInv ==
  /\ pc \in {"auth", "collect", "sync"} => at = 0 /\ resp = NoAnswer
  /\ pc \in {"upload", "confirm", "answered"} => at > 0
  /\ UploadsFollowAnswer
  /\ at = 0 => /\ puts = {}
               /\ \A o \in Outputs : cloud[o].content = NoContent /\ ~cloud[o].confirmed
  /\ resp # NoAnswer =>
       \A i \in 1..Len(resp) : \A k \in 1..Len(resp[i].outs) :
         /\ k <= Len(sent[resp[i].run])
         /\ resp[i].outs[k].for = sent[resp[i].run][k]
  /\ pc = "confirm" =>
       /\ at <= Len(queue)
       /\ HasPlace
       /\ Reply.offer = "upload_and_confirm"
       /\ cloud[Reply.for].content # NoContent

\* What is behind the upload loop, and did not fail, is where it was asked for.
DeliveryInv ==
  \A o \in Outputs :
    Aligned /\ Passed(o) /\ Asked(o) /\ o \notin FailedOutputs =>
      cloud[o].content # NoContent /\ (ToConfirm(o) => cloud[o].confirmed)

RunsInv ==
  /\ TypeOK
  /\ QueueInv
  /\ AnswerInv
  /\ AddressedToItself
  /\ ConfirmedIsUploaded
  /\ DeliveryInv

-----------------------------------------------------------------------------
(* Outputs, places and answers.                                              *)

LEMMA SeqElement ==
  ASSUME NEW S, NEW s \in Seq(S)
  PROVE  /\ Len(s) \in Nat /\ DOMAIN s = 1..Len(s)
         /\ \A i \in 1..Len(s) : s[i] \in S
OBVIOUS

LEMMA ShapeType ==
  /\ Len(Shape) \in Nat /\ Runs = 1..Len(Shape)
  /\ \A r \in Runs : Shape[r] \in Nat
BY ShapeAssumption DEF Runs

LEMMA OutputIs ==
  /\ \A o \in Outputs : o[1] \in Runs /\ o[2] \in Int /\ o = <<o[1], o[2]>>
  /\ \A r \in Runs : \A i \in 1..Shape[r] : <<r, i>> \in Outputs
<1>1. \A r \in Runs : \A i \in 1..Shape[r] : <<r, i>> \in Outputs
  BY DEF Outputs
<1>2. ASSUME NEW o \in Outputs
      PROVE  o[1] \in Runs /\ o[2] \in Int /\ o = <<o[1], o[2]>>
  <2>1. PICK r \in Runs : o \in {<<r, i>> : i \in 1..Shape[r]}
    BY DEF Outputs
  <2>2. PICK i \in 1..Shape[r] : o = <<r, i>>
    BY <2>1
  <2> QED
    BY <2>2
<1> QED
  BY <1>1, <1>2

\* The entry of the queue the loop is at.
LEMMA PlaceType ==
  ASSUME TypeOK, QueueInv, at > 0, at <= Len(queue)
  PROVE  /\ at \in 1..Len(queue) /\ Len(queue) \in Nat
         /\ Place \in Places /\ Place.run \in Runs /\ Place.out \in Outputs
         /\ Place.index \in 1..Len(sent[Place.run])
         /\ sent[Place.run][Place.index] = Place.out
<1>1. at \in 1..Len(queue) /\ Len(queue) \in Nat /\ queue \in Seq(Places)
  BY DEF TypeOK
<1>2. Place \in Places
  BY <1>1 DEF Place
<1> QED
  BY <1>1, <1>2 DEF Places, Place, QueueInv

LEMMA ReplyType ==
  ASSUME TypeOK, QueueInv, AnswerInv, at > 0, at <= Len(queue), HasPlace
  PROVE  /\ resp \in Answers /\ Len(resp) \in Nat /\ Place.run \in 1..Len(resp)
         /\ resp[Place.run].run \in Runs
         /\ resp[Place.run].outs \in Seq(Answered)
         /\ Place.index \in 1..Len(resp[Place.run].outs)
         /\ Reply \in Answered /\ Reply.for \in Outputs /\ Reply.offer \in Offers
         /\ Reply.for = sent[resp[Place.run].run][Place.index]
<1>1. resp \in Answers
  BY DEF TypeOK, AnswerInv, UploadsFollowAnswer
<1>2. Place.run \in Nat \ {0} /\ Place.index \in Nat \ {0}
  <2>1. Place.run \in 1..Len(Shape) /\ Len(Shape) \in Nat
    BY PlaceType, ShapeType
  <2>2. Len(sent[Place.run]) \in Nat
    BY PlaceType DEF TypeOK
  <2> QED
    BY <2>1, <2>2, PlaceType
<1>3. Len(resp) \in Nat /\ Place.run \in 1..Len(resp)
  BY <1>1, <1>2 DEF HasPlace, Answers
<1>4. resp[Place.run] \in [run : Runs, outs : Seq(Answered)]
  BY <1>1, <1>3, SeqElement DEF Answers
<1>5. Place.index \in 1..Len(resp[Place.run].outs)
  BY <1>2, <1>4 DEF HasPlace
<1>6. Reply \in Answered
  BY <1>4, <1>5 DEF Reply
<1>7. Reply.for = sent[resp[Place.run].run][Place.index]
  BY <1>1, <1>3, <1>5, NothingAssumption DEF AnswerInv, Reply
<1> QED
  BY <1>1, <1>3, <1>4, <1>5, <1>6, <1>7 DEF Answered

\* When the answer has every run at its place, the reply read is the output's own.
LEMMA ReplyIsOwn ==
  ASSUME TypeOK, QueueInv, AnswerInv, at > 0, at <= Len(queue), HasPlace, Aligned
  PROVE  Reply.for = Place.out
<1>1. resp[Place.run].run = Place.run
  BY ReplyType DEF Aligned, Answers
<1> QED
  BY <1>1, PlaceType, ReplyType

\* No other reply is about that output.
LEMMA ReplyOnly ==
  ASSUME TypeOK, QueueInv, AnswerInv, at > 0, at <= Len(queue), Aligned,
         NEW i \in DOMAIN resp, NEW k \in DOMAIN resp[i].outs,
         resp[i].outs[k].for = Place.out
  PROVE  HasPlace /\ Reply = resp[i].outs[k]
<1>1. resp \in Answers /\ resp # NoAnswer
  BY DEF TypeOK, AnswerInv, UploadsFollowAnswer
<1>2. /\ Len(resp) \in Nat /\ DOMAIN resp = 1..Len(resp)
      /\ resp[i] \in [run : Runs, outs : Seq(Answered)]
  BY <1>1, SeqElement DEF Answers
<1>3. /\ resp[i].outs \in Seq(Answered) /\ Len(resp[i].outs) \in Nat
      /\ DOMAIN resp[i].outs = 1..Len(resp[i].outs)
  BY <1>2
<1>4. i \in Runs /\ resp[i].run = i
  BY <1>2 DEF Aligned
<1>5. k \in 1..Len(sent[i]) /\ sent[i][k] = Place.out
  BY <1>1, <1>2, <1>3, <1>4 DEF AnswerInv
<1>6. i = Place.run
  <2>1. sent[i][k][1] = i
    BY <1>4, <1>5 DEF QueueInv
  <2>2. sent[Place.run][Place.index][1] = Place.run
    BY PlaceType DEF QueueInv
  <2> QED
    BY <1>5, <2>1, <2>2, PlaceType
<1>7. k = Place.index
  <2>1. sent[i] \in Seq(Outputs) /\ Len(sent[i]) \in Nat
    BY <1>4 DEF TypeOK
  <2>2. Place.index \in 1..Len(sent[i]) /\ sent[i][Place.index] = Place.out
    BY <1>6, PlaceType
  <2>3. Place.out[2] \in Int
    BY PlaceType, OutputIs
  <2>4. \A l, n \in 1..Len(sent[i]) : l < n => sent[i][l][2] < sent[i][n][2]
    BY <1>4 DEF QueueInv
  <2>5. ~(k < Place.index) /\ ~(Place.index < k)
    BY <1>5, <2>2, <2>3, <2>4
  <2> QED
    BY <1>5, <2>1, <2>2, <2>5
<1> QED
  BY <1>2, <1>3, <1>6, <1>7 DEF HasPlace, Reply

-----------------------------------------------------------------------------
(* Types.                                                                    *)

LEMMA TypeInit == Init => TypeOK
BY ShapeAssumption, ShapeType, OutputIs
   DEF Init, TypeOK, Records

\* The steps before the uploads.
LEMMA TypeCollect ==
  ASSUME TypeOK, QueueInv,
         Authenticate \/ ReadResult \/ RefuseOutput \/ MeasureOutput \/ Collected
  PROVE  TypeOK'
<1>1. CASE Authenticate \/ Collected
  BY <1>1 DEF Authenticate, Collected, TypeOK, collect, Ends
<1>2. CASE ReadResult
  <2>1. run' \in 0..Len(Shape) /\ run + 1 \in Runs
    BY <1>2, ShapeType DEF ReadResult, TypeOK
  <2>2. todo' \in Seq(Outputs)
    <3>1. CASE UNCHANGED todo
      BY <3>1 DEF TypeOK
    <3>2. CASE todo' = [i \in 1..Shape[run + 1] |-> <<run + 1, i>>]
      <4>1. Shape[run + 1] \in Nat
        BY <2>1, ShapeType
      <4>2. \A i \in 1..Shape[run + 1] : <<run + 1, i>> \in Outputs
        BY <2>1, OutputIs
      <4> QED
        BY <3>2, <4>1, <4>2
    <3> QED
      BY <1>2, <3>1, <3>2 DEF ReadResult
  <2>3. UNCHANGED <<pc, sent, queue, attempt, resp, at, failed, cloud, puts>>
    BY <1>2 DEF ReadResult
  <2> QED
    BY <2>1, <2>2, <2>3 DEF TypeOK
<1>3. ASSUME todo # <<>>
      PROVE  Head(todo) \in Outputs /\ Tail(todo) \in Seq(Outputs)
  BY <1>3 DEF TypeOK
<1>4. CASE RefuseOutput
  <2>1. todo' \in Seq(Outputs) /\ failed' \in Seq(Outputs)
    BY <1>3, <1>4 DEF RefuseOutput, TypeOK
  <2> QED
    BY <1>4, <2>1 DEF RefuseOutput, TypeOK
<1>5. CASE MeasureOutput
  <2> DEFINE o == Head(todo)
  <2>1. o \in Outputs /\ todo' \in Seq(Outputs) /\ run \in Runs
    BY <1>3, <1>5 DEF MeasureOutput, TypeOK, QueueInv
  <2>2. sent[run] \in Seq(Outputs) /\ PlaceInRequest(o) \in Nat
    <3>1. sent[run] \in Seq(Outputs) /\ sent[o[1]] \in Seq(Outputs)
      BY <2>1, OutputIs DEF TypeOK
    <3> QED
      BY <3>1 DEF PlaceInRequest
  <2>3. sent' = [sent EXCEPT ![run] = Append(sent[run], o)]
    BY <1>5 DEF MeasureOutput
  <2>4. queue' = Append(queue, [run |-> run, index |-> PlaceInRequest(o), out |-> o])
    BY <1>5 DEF MeasureOutput
  <2> HIDE DEF o
  <2>5. sent' \in [Runs -> Seq(Outputs)]
    BY <2>1, <2>2, <2>3 DEF TypeOK
  <2>6. queue' \in Seq(Places) /\ at \in 0..(Len(queue') + 1)
    <3>1. [run |-> run, index |-> PlaceInRequest(o), out |-> o] \in Places
      BY <2>1, <2>2 DEF Places
    <3> QED
      BY <2>4, <3>1 DEF TypeOK
  <2>7. UNCHANGED <<pc, run, attempt, resp, at, failed, cloud, puts>>
    BY <1>5 DEF MeasureOutput
  <2> QED
    BY <2>1, <2>5, <2>6, <2>7 DEF TypeOK
<1> QED
  BY <1>1, <1>2, <1>4, <1>5

\* An answer is one, and it is made of the outputs sent.
LEMMA AnswerMade ==
  ASSUME TypeOK, SyncAnswered
  PROVE  /\ resp' \in Answers
         /\ \A i \in 1..Len(resp') : \A k \in 1..Len(resp'[i].outs) :
              /\ resp'[i].run \in Runs
              /\ k <= Len(sent[resp'[i].run])
              /\ resp'[i].outs[k].for = sent[resp'[i].run][k]
<1>1. PICK order \in Increasing, offer \in [Outputs -> Offers],
           shown \in [Runs -> 0..Len(queue)] :
        /\ \A r \in Runs : shown[r] <= Len(sent[r])
        /\ resp' = [i \in DOMAIN order |->
             [run  |-> order[i],
              outs |-> [k \in 1..shown[order[i]] |->
                [for |-> sent[order[i]][k], offer |-> offer[sent[order[i]][k]]]]]]
  BY DEF SyncAnswered
<1>2. PICK n \in Nat : order \in [1..n -> Runs]
  <2>1. PICK n \in 0..Len(Shape) : order \in [1..n -> Runs]
    BY DEF Increasing
  <2> QED
    BY <2>1, ShapeType
<1> DEFINE Outs(r) == [k \in 1..shown[r] |->
                        [for |-> sent[r][k], offer |-> offer[sent[r][k]]]]
<1>3. ASSUME NEW r \in Runs
      PROVE  /\ Outs(r) \in Seq(Answered) /\ Len(Outs(r)) = shown[r]
             /\ \A k \in 1..shown[r] : k <= Len(sent[r]) /\ Outs(r)[k].for = sent[r][k]
  <2>1. sent[r] \in Seq(Outputs) /\ Len(sent[r]) \in Nat
    BY DEF TypeOK
  <2>2. shown[r] \in Nat /\ shown[r] <= Len(sent[r])
    BY <1>1 DEF TypeOK
  <2>3. \A k \in 1..shown[r] : k \in 1..Len(sent[r]) /\ sent[r][k] \in Outputs
    BY <2>1, <2>2
  <2>4. \A k \in 1..shown[r] : [for |-> sent[r][k], offer |-> offer[sent[r][k]]] \in Answered
    BY <2>3 DEF Answered
  <2>5. Outs(r) \in Seq(Answered) /\ Len(Outs(r)) = shown[r]
    BY <2>2, <2>4
  <2> QED
    BY <2>3, <2>5
<1>4. resp' = [i \in 1..n |-> [run |-> order[i], outs |-> Outs(order[i])]]
  BY <1>1, <1>2
<1> HIDE DEF Outs
<1>5. \A i \in 1..n : [run |-> order[i], outs |-> Outs(order[i])]
                        \in [run : Runs, outs : Seq(Answered)]
  BY <1>2, <1>3
<1>6. resp' \in Seq([run : Runs, outs : Seq(Answered)]) /\ Len(resp') = n
  BY <1>4, <1>5
<1>7. ASSUME NEW i \in 1..n
      PROVE  /\ resp'[i].run = order[i] /\ order[i] \in Runs
             /\ resp'[i].outs = Outs(order[i])
  BY <1>2, <1>4
<1>8. ASSUME NEW i \in 1..n, NEW k \in 1..Len(resp'[i].outs)
      PROVE  /\ resp'[i].run \in Runs
             /\ k <= Len(sent[resp'[i].run])
             /\ resp'[i].outs[k].for = sent[resp'[i].run][k]
  BY <1>3, <1>7, <1>8
<1> QED
  BY <1>6, <1>8 DEF Answers

LEMMA TypeSync ==
  ASSUME TypeOK, SyncAnswered \/ SyncRateLimited \/ SyncGivesUp \/ SyncFails
  PROVE  TypeOK'
<1>1. CASE SyncAnswered
  <2>1. resp' \in Answers
    BY <1>1, AnswerMade
  <2>2. /\ pc' = "upload" /\ at' = 1
        /\ UNCHANGED <<run, todo, sent, queue, attempt, failed, cloud, puts>>
    BY <1>1 DEF SyncAnswered, collect
  <2>3. Len(queue) \in Nat
    BY DEF TypeOK
  <2> QED
    BY <2>1, <2>2, <2>3 DEF TypeOK
<1>2. CASE SyncRateLimited
  BY <1>2, ShapeAssumption DEF SyncRateLimited, LastAttempt, TypeOK, collect
<1>3. CASE SyncGivesUp
  BY <1>3 DEF SyncGivesUp, TypeOK, collect, Ends
<1>4. CASE SyncFails
  BY <1>4 DEF SyncFails, TypeOK, collect, Ends
<1> QED
  BY <1>1, <1>2, <1>3, <1>4

\* An upload stores a content at the output it is addressed to.
LEMMA StoredType ==
  ASSUME TypeOK, NEW to \in Outputs, NEW from \in Outputs, Stored(to, from)
  PROVE  /\ cloud' \in [Outputs -> Records]
         /\ cloud'[to].content = from
         /\ \A o \in Outputs :
              /\ cloud'[o].confirmed = cloud[o].confirmed
              /\ o # to => cloud'[o] = cloud[o]
<1>1. /\ cloud \in [Outputs -> Records]
      /\ cloud' = [cloud EXCEPT ![to] = [cloud[to] EXCEPT !.content = from]]
  BY DEF Stored, TypeOK
<1>2. cloud[to] \in Records
  BY <1>1
<1>3. /\ [cloud[to] EXCEPT !.content = from] \in Records
      /\ [cloud[to] EXCEPT !.content = from].content = from
      /\ [cloud[to] EXCEPT !.content = from].confirmed = cloud[to].confirmed
  BY <1>2 DEF Records
<1> QED
  BY <1>1, <1>3

LEMMA ConfirmedType ==
  ASSUME TypeOK, Reply.for \in Outputs, Confirmed
  PROVE  /\ cloud' \in [Outputs -> Records]
         /\ cloud'[Reply.for].confirmed
         /\ \A o \in Outputs :
              /\ cloud'[o].content = cloud[o].content
              /\ o # Reply.for => cloud'[o] = cloud[o]
<1> DEFINE to == Reply.for
<1>1. /\ cloud \in [Outputs -> Records]
      /\ cloud' = [cloud EXCEPT ![to] = [cloud[to] EXCEPT !.confirmed = TRUE]]
      /\ to \in Outputs
  BY DEF Confirmed, TypeOK
<1> HIDE DEF to
<1>2. cloud[to] \in Records
  BY <1>1
<1>3. /\ [cloud[to] EXCEPT !.confirmed = TRUE] \in Records
      /\ [cloud[to] EXCEPT !.confirmed = TRUE].confirmed = TRUE
      /\ [cloud[to] EXCEPT !.confirmed = TRUE].content = cloud[to].content
  BY <1>2 DEF Records
<1>4. /\ cloud' \in [Outputs -> Records]
      /\ cloud'[to].confirmed
      /\ \A o \in Outputs :
           /\ cloud'[o].content = cloud[o].content
           /\ o # to => cloud'[o] = cloud[o]
  BY <1>1, <1>3
<1> QED
  BY <1>4 DEF to

\* Where an upload takes place.
LEMMA UploadAt ==
  ASSUME TypeOK, QueueInv, AnswerInv, Uploading, Wanted
  PROVE  Place.out \in Outputs /\ Reply.for \in Outputs
<1>1. at > 0 /\ at <= Len(queue) /\ HasPlace
  BY DEF Uploading, Wanted, AnswerInv
<1> QED
  BY <1>1, PlaceType, ReplyType

\* The steps of the upload loop that only move on, or collect a failure.
LEMMA TypePassing ==
  ASSUME TypeOK, QueueInv, AnswerInv, at > 0, at <= Len(queue),
         cloud' \in [Outputs -> Records],
         puts' \subseteq [from : Outputs, to : Outputs],
         failed' = failed \/ failed' = Append(failed, Place.out),
         at' \in {at, at + 1}, pc' \in {"upload", "confirm"},
         UNCHANGED <<collect, attempt, resp>>
  PROVE  TypeOK'
<1>1. failed' \in Seq(Outputs)
  <2>1. Place.out \in Outputs /\ failed \in Seq(Outputs)
    BY PlaceType DEF TypeOK
  <2> QED
    BY <2>1
<1>2. at' \in 0..(Len(queue) + 1)
  BY PlaceType DEF TypeOK
<1> QED
  BY <1>1, <1>2 DEF TypeOK, collect

LEMMA TypeUpload ==
  ASSUME TypeOK, QueueInv, AnswerInv,
         \/ SkipOutput \/ OpenFails \/ Upload \/ UploadFails \/ Confirm \/ ConfirmFails
         \/ Answer
  PROVE  TypeOK'
<1>1. pc = "upload" \/ pc = "confirm" => at > 0
  BY DEF AnswerInv
<1>2. cloud \in [Outputs -> Records] /\ puts \subseteq [from : Outputs, to : Outputs]
  BY DEF TypeOK
<1>3. CASE SkipOutput \/ OpenFails
  BY <1>1, <1>2, <1>3, TypePassing DEF SkipOutput, OpenFails, Uploading, Advance
<1>4. CASE Upload \/ UploadFails
  <2>1. /\ Uploading /\ Wanted
        /\ puts' = puts \cup {[from |-> Place.out, to |-> Reply.for]}
        /\ UNCHANGED cloud \/ Stored(Reply.for, Place.out)
        /\ UNCHANGED <<collect, attempt, resp>>
    BY <1>4 DEF Upload, UploadFails
  <2>2. cloud' \in [Outputs -> Records] /\ puts' \subseteq [from : Outputs, to : Outputs]
    BY <1>2, <2>1, UploadAt, StoredType
  <2>3. /\ failed' = failed \/ failed' = Append(failed, Place.out)
        /\ at' \in {at, at + 1} /\ pc' \in {"upload", "confirm"}
    BY <1>4 DEF Upload, UploadFails, Uploading, Advance
  <2> QED
    BY <1>1, <2>1, <2>2, <2>3, TypePassing DEF Uploading
<1>5. CASE Confirm \/ ConfirmFails
  <2>1. pc = "confirm" /\ at > 0 /\ at <= Len(queue) /\ HasPlace
    BY <1>1, <1>5 DEF Confirm, ConfirmFails, AnswerInv
  <2>2. cloud' \in [Outputs -> Records]
    BY <1>2, <1>5, <2>1, ReplyType, ConfirmedType DEF Confirm, ConfirmFails
  <2>3. /\ failed' = failed \/ failed' = Append(failed, Place.out)
        /\ at' \in {at, at + 1} /\ pc' \in {"upload", "confirm"} /\ puts' = puts
        /\ UNCHANGED <<collect, attempt, resp>>
    BY <1>5 DEF Confirm, ConfirmFails, Advance
  <2> QED
    BY <1>2, <2>1, <2>2, <2>3, TypePassing
<1>6. CASE Answer
  BY <1>6 DEF Answer, TypeOK, collect, Ends
<1> QED
  BY <1>3, <1>4, <1>5, <1>6

LEMMA TypeNext ==
  ASSUME TypeOK, QueueInv, AnswerInv, [Next]_vars
  PROVE  TypeOK'
<1>1. CASE Crash \/ UNCHANGED vars
  BY <1>1 DEF Crash, vars, collect, TypeOK, Ends
<1> QED
  BY <1>1, TypeCollect, TypeSync, TypeUpload DEF Next, Work

-----------------------------------------------------------------------------
(* What is described to the server, and the queue.                           *)

LEMMA QueueInvInit == Init => QueueInv
BY ShapeType DEF Init, QueueInv

LEMMA QueueInvRead ==
  ASSUME TypeOK, QueueInv, ReadResult
  PROVE  QueueInv'
<1>1. /\ todo = <<>> /\ run + 1 \in Runs /\ run' = run + 1 /\ run \in Int
      /\ UNCHANGED <<sent, queue>>
  BY ShapeType DEF ReadResult, TypeOK
<1>2. sent[run + 1] = <<>>
  BY <1>1, ShapeType DEF QueueInv
<1>3. /\ \A i \in 1..Len(todo') : todo'[i][1] = run'
      /\ \A i, j \in 1..Len(todo') : i < j => todo'[i][2] < todo'[j][2]
  <2>1. CASE UNCHANGED todo
    BY <1>1, <2>1
  <2>2. CASE todo' = [i \in 1..Shape[run + 1] |-> <<run + 1, i>>]
    <3>1. Shape[run + 1] \in Nat
      BY <1>1, ShapeType
    <3>2. Len(todo') = Shape[run + 1]
      BY <2>2, <3>1
    <3> QED
      BY <1>1, <2>2, <3>1, <3>2
  <2> QED
    BY <2>1, <2>2 DEF ReadResult
<1>4. \A r \in Runs : r > run' => sent'[r] = <<>>
  BY <1>1, ShapeType DEF QueueInv
<1>5. \A i \in 1..Len(todo') : \A k \in 1..Len(sent'[run']) :
        sent'[run'][k][2] < todo'[i][2]
  BY <1>1, <1>2
<1> QED
  BY <1>1, <1>3, <1>4, <1>5 DEF QueueInv

\* The rest of a list of outputs.
LEMMA TodoTail ==
  ASSUME TypeOK, QueueInv, todo # <<>>, todo' = Tail(todo)
  PROVE  /\ Len(todo) \in Nat \ {0} /\ Head(todo) = todo[1] /\ Head(todo) \in Outputs
         /\ Len(todo') = Len(todo) - 1
         /\ \A i \in 1..Len(todo') : i + 1 \in 1..Len(todo) /\ todo'[i] = todo[i + 1]
<1>1. todo \in Seq(Outputs)
  BY DEF TypeOK
<1> QED
  BY <1>1

LEMMA QueueInvRefuse ==
  ASSUME TypeOK, QueueInv, RefuseOutput
  PROVE  QueueInv'
<1>1. todo # <<>> /\ todo' = Tail(todo) /\ UNCHANGED <<run, sent, queue>>
  BY DEF RefuseOutput
<1>2. \A i, j \in 1..Len(todo') : i < j => todo'[i][2] < todo'[j][2]
  BY <1>1, TodoTail DEF QueueInv
<1>3. \A i \in 1..Len(todo') : todo'[i][1] = run
  BY <1>1, TodoTail DEF QueueInv
<1>4. \A i \in 1..Len(todo') : \A k \in 1..Len(sent[run]) : sent[run][k][2] < todo'[i][2]
  BY <1>1, TodoTail DEF QueueInv
<1>5. todo' # <<>> => run' \in Runs
  BY <1>1 DEF QueueInv
<1>6. sent' = sent /\ queue' = queue /\ run' = run
  BY <1>1
<1>7. /\ \A r \in Runs : r > run' => sent'[r] = <<>>
      /\ \A r \in Runs : \A k \in 1..Len(sent'[r]) : sent'[r][k][1] = r
  BY <1>6 DEF QueueInv
<1>8. \A r \in Runs : \A k, l \in 1..Len(sent'[r]) : k < l => sent'[r][k][2] < sent'[r][l][2]
  BY <1>6 DEF QueueInv
<1>9. \A q \in 1..Len(queue') :
        /\ queue'[q].index \in 1..Len(sent'[queue'[q].run])
        /\ sent'[queue'[q].run][queue'[q].index] = queue'[q].out
  BY <1>6 DEF QueueInv
<1>10. \A r \in Runs : \A k \in 1..Len(sent'[r]) :
         \E q \in 1..Len(queue') : queue'[q].out = sent'[r][k]
  BY <1>6 DEF QueueInv
<1> QED
  BY <1>2, <1>3, <1>4, <1>5, <1>6, <1>7, <1>8, <1>9, <1>10 DEF QueueInv

LEMMA QueueInvMeasure ==
  ASSUME TypeOK, QueueInv, MeasureOutput
  PROVE  QueueInv'
<1> DEFINE o == Head(todo)
           n == Len(sent[run]) + 1
<1>1. /\ todo # <<>> /\ todo' = Tail(todo) /\ run' = run /\ run \in Runs
      /\ o \in Outputs /\ o = todo[1] /\ Len(todo) \in Nat \ {0} /\ o[1] = run
  <2>1. todo # <<>> /\ todo' = Tail(todo) /\ run' = run
    BY DEF MeasureOutput
  <2>2. o \in Outputs /\ o = todo[1] /\ Len(todo) \in Nat \ {0}
    BY <2>1, TodoTail
  <2>3. run \in Runs /\ todo[1][1] = run
    BY <2>1, <2>2 DEF QueueInv
  <2> QED
    BY <2>1, <2>2, <2>3
<1>2. /\ sent' = [sent EXCEPT ![run] = Append(sent[run], o)]
      /\ queue' = Append(queue, [run |-> run, index |-> n, out |-> o])
  BY <1>1 DEF MeasureOutput, PlaceInRequest
<1> HIDE DEF o
<1>3. /\ sent \in [Runs -> Seq(Outputs)]
      /\ sent[run] \in Seq(Outputs) /\ n \in Nat \ {0}
      /\ queue \in Seq(Places) /\ Len(queue) \in Nat
  BY <1>1 DEF TypeOK
<1>4. /\ \A r \in Runs \ {run} : sent'[r] = sent[r]
      /\ Len(sent'[run]) = n /\ sent'[run][n] = o
      /\ \A k \in 1..Len(sent[run]) : sent'[run][k] = sent[run][k]
  BY <1>1, <1>2, <1>3
<1>5. /\ Len(queue') = Len(queue) + 1
      /\ queue'[Len(queue) + 1] = [run |-> run, index |-> n, out |-> o]
      /\ \A q \in 1..Len(queue) : queue'[q] = queue[q]
  BY <1>2, <1>3
<1>6. sent'[run][n] = o
  BY <1>4
<1> HIDE DEF n
<1>7. /\ n = Len(sent[run]) + 1 /\ Len(sent[run]) \in Nat
      /\ 1..n = 1..Len(sent[run]) \cup {n}
  BY <1>3 DEF n
<1>8. /\ \A i, j \in 1..Len(todo') : i < j => todo'[i][2] < todo'[j][2]
      /\ \A i \in 1..Len(todo') : todo'[i][1] = run
  BY <1>1, TodoTail DEF QueueInv
<1>9. \A r \in Runs : r > run => sent'[r] = <<>>
  BY <1>1, <1>4, ShapeType DEF QueueInv
<1>10. \A r \in Runs : \A k \in 1..Len(sent'[r]) : sent'[r][k][1] = r
  <2> SUFFICES ASSUME NEW r \in Runs, NEW k \in 1..Len(sent'[r])
               PROVE  sent'[r][k][1] = r
    OBVIOUS
  <2>1. CASE r = run /\ k = n
    BY <1>1, <1>6, <2>1
  <2>2. CASE ~(r = run /\ k = n)
    <3>1. k \in 1..Len(sent[r]) /\ sent'[r][k] = sent[r][k]
      BY <1>4, <1>7, <2>2
    <3> QED
      BY <3>1 DEF QueueInv
  <2> QED
    BY <2>1, <2>2
<1>11. \A k \in 1..Len(sent[run]) : sent[run][k][2] < o[2]
  <2>1. 1 \in 1..Len(todo)
    BY <1>1
  <2> QED
    BY <1>1, <2>1 DEF QueueInv
<1>12. \A r \in Runs : \A k, l \in 1..Len(sent'[r]) :
         k < l => sent'[r][k][2] < sent'[r][l][2]
  <2> SUFFICES ASSUME NEW r \in Runs, NEW k \in 1..Len(sent'[r]), NEW l \in 1..Len(sent'[r]),
                      k < l
               PROVE  sent'[r][k][2] < sent'[r][l][2]
    OBVIOUS
  <2>1. CASE r # run
    BY <1>4, <2>1 DEF QueueInv
  <2>2. CASE r = run /\ l # n
    <3>1. k \in 1..Len(sent[run]) /\ l \in 1..Len(sent[run])
      BY <1>4, <1>7, <2>2
    <3>2. sent[run][k][2] < sent[run][l][2]
      BY <1>1, <3>1 DEF QueueInv
    <3> QED
      BY <1>4, <2>2, <3>1, <3>2
  <2>3. CASE r = run /\ l = n
    <3>1. k \in 1..Len(sent[run])
      BY <1>4, <1>7, <2>3
    <3> QED
      BY <1>4, <1>6, <1>11, <2>3, <3>1
  <2> QED
    BY <2>1, <2>2, <2>3
<1>13. \A i \in 1..Len(todo') : \A k \in 1..Len(sent'[run]) : sent'[run][k][2] < todo'[i][2]
  <2> SUFFICES ASSUME NEW i \in 1..Len(todo'), NEW k \in 1..Len(sent'[run])
               PROVE  sent'[run][k][2] < todo'[i][2]
    OBVIOUS
  <2>1. i + 1 \in 1..Len(todo) /\ 1 \in 1..Len(todo) /\ 1 < i + 1 /\ todo'[i] = todo[i + 1]
    BY <1>1, TodoTail
  <2>2. CASE k = n
    BY <1>1, <1>6, <2>1, <2>2 DEF QueueInv
  <2>3. CASE k \in 1..Len(sent[run])
    BY <1>4, <2>1, <2>3 DEF QueueInv
  <2> QED
    BY <1>4, <1>7, <2>2, <2>3
<1>14. \A q \in 1..Len(queue') :
         /\ queue'[q].index \in 1..Len(sent'[queue'[q].run])
         /\ sent'[queue'[q].run][queue'[q].index] = queue'[q].out
  <2> SUFFICES ASSUME NEW q \in 1..Len(queue')
               PROVE  /\ queue'[q].index \in 1..Len(sent'[queue'[q].run])
                      /\ sent'[queue'[q].run][queue'[q].index] = queue'[q].out
    OBVIOUS
  <2>1. CASE q = Len(queue) + 1
    BY <1>4, <1>5, <1>6, <1>7, <2>1
  <2>2. CASE q \in 1..Len(queue)
    <3>1. queue'[q] = queue[q] /\ queue[q] \in Places
      BY <1>3, <1>5, <2>2, SeqElement
    <3>2. /\ queue[q].index \in 1..Len(sent[queue[q].run])
          /\ sent[queue[q].run][queue[q].index] = queue[q].out
      BY <2>2 DEF QueueInv
    <3>3. CASE queue[q].run = run
      BY <1>4, <1>7, <3>1, <3>2, <3>3
    <3>4. CASE queue[q].run # run
      <4>1. queue[q].run \in Runs
        BY <3>1 DEF Places
      <4> QED
        BY <1>4, <3>1, <3>2, <3>4, <4>1
    <3> QED
      BY <3>3, <3>4
  <2> QED
    BY <1>3, <1>5, <2>1, <2>2
<1>15. \A r \in Runs : \A k \in 1..Len(sent'[r]) :
         \E q \in 1..Len(queue') : queue'[q].out = sent'[r][k]
  <2> SUFFICES ASSUME NEW r \in Runs, NEW k \in 1..Len(sent'[r])
               PROVE  \E q \in 1..Len(queue') : queue'[q].out = sent'[r][k]
    OBVIOUS
  <2>1. CASE r = run /\ k = n
    <3>1. Len(queue) + 1 \in 1..Len(queue') /\ queue'[Len(queue) + 1].out = o
      BY <1>3, <1>5
    <3> QED
      BY <1>6, <2>1, <3>1
  <2>2. CASE ~(r = run /\ k = n)
    <3>1. k \in 1..Len(sent[r]) /\ sent'[r][k] = sent[r][k]
      BY <1>4, <1>7, <2>2
    <3>2. PICK q \in 1..Len(queue) : queue[q].out = sent[r][k]
      BY <3>1 DEF QueueInv
    <3>3. q \in 1..Len(queue') /\ queue'[q] = queue[q]
      BY <1>3, <1>5
    <3> QED
      BY <3>1, <3>2, <3>3
  <2> QED
    BY <2>1, <2>2
<1> QED
  BY <1>1, <1>8, <1>9, <1>10, <1>12, <1>13, <1>14, <1>15 DEF QueueInv

LEMMA QueueInvNext ==
  ASSUME TypeOK, QueueInv, [Next]_vars
  PROVE  QueueInv'
<1>1. ASSUME UNCHANGED collect
      PROVE  QueueInv'
  BY <1>1 DEF collect, QueueInv
<1>2. CASE ReadResult \/ RefuseOutput \/ MeasureOutput
  BY <1>2, QueueInvRead, QueueInvRefuse, QueueInvMeasure
<1>3. CASE ~(ReadResult \/ RefuseOutput \/ MeasureOutput)
  <2>1. UNCHANGED collect
    BY <1>3 DEF Next, Work, Crash, Authenticate, Collected, SyncAnswered,
                SyncRateLimited, SyncGivesUp, SyncFails, SkipOutput, OpenFails, Upload,
                UploadFails, Confirm, ConfirmFails, Answer, vars, collect
  <2> QED
    BY <1>1, <2>1
<1> QED
  BY <1>2, <1>3

-----------------------------------------------------------------------------
(* The answer, the uploads and the confirmations.                            *)

LEMMA AnswerInvInit == Init => AnswerInv
BY DEF Init, AnswerInv, UploadsFollowAnswer

\* Before the answer.
LEMMA AnswerInvCollect ==
  ASSUME TypeOK, QueueInv, AnswerInv,
         Authenticate \/ ReadResult \/ RefuseOutput \/ MeasureOutput \/ Collected
  PROVE  AnswerInv'
<1>1. /\ pc \in {"auth", "collect"} /\ pc' \in {"collect", "refused", "sync"}
      /\ UNCHANGED <<at, resp, puts, cloud>>
  BY DEF Authenticate, ReadResult, RefuseOutput, MeasureOutput, Collected
<1> QED
  BY <1>1 DEF AnswerInv, UploadsFollowAnswer

LEMMA AnswerInvSync ==
  ASSUME TypeOK, QueueInv, AnswerInv,
         SyncAnswered \/ SyncRateLimited \/ SyncGivesUp \/ SyncFails
  PROVE  AnswerInv'
<1>1. pc = "sync" /\ at = 0 /\ resp = NoAnswer /\ puts' = puts /\ sent' = sent
  BY DEF SyncAnswered, SyncRateLimited, SyncGivesUp, SyncFails, AnswerInv, collect
<1>2. CASE SyncAnswered
  <2>1. pc' = "upload" /\ at' = 1
    BY <1>2 DEF SyncAnswered
  <2>2. resp' # NoAnswer
    BY <1>2, AnswerMade, NothingAssumption
  <2>3. \A i \in 1..Len(resp') : \A k \in 1..Len(resp'[i].outs) :
          /\ k <= Len(sent'[resp'[i].run])
          /\ resp'[i].outs[k].for = sent'[resp'[i].run][k]
    BY <1>1, <1>2, AnswerMade
  <2> QED
    BY <2>1, <2>2, <2>3 DEF AnswerInv, UploadsFollowAnswer
<1>3. CASE SyncRateLimited \/ SyncGivesUp \/ SyncFails
  <2>1. pc' \in {"sync", "refused"} /\ UNCHANGED <<at, resp, cloud>>
    BY <1>1, <1>3 DEF SyncRateLimited, SyncGivesUp, SyncFails
  <2> QED
    BY <1>1, <2>1 DEF AnswerInv, UploadsFollowAnswer
<1> QED
  BY <1>2, <1>3

\* In the loop: what is uploaded and confirmed.
LEMMA AnswerInvLoop ==
  ASSUME TypeOK, QueueInv, AnswerInv, at > 0, at' \in {at, at + 1},
         UNCHANGED <<resp, sent, queue>>, pc' \in {"upload", "answered", "gone"}
  PROVE  AnswerInv'
<1>1. at \in Int /\ at' # 0
  BY DEF TypeOK
<1>2. resp' # NoAnswer => \A i \in 1..Len(resp') : \A k \in 1..Len(resp'[i].outs) :
        /\ k <= Len(sent'[resp'[i].run])
        /\ resp'[i].outs[k].for = sent'[resp'[i].run][k]
  BY DEF AnswerInv
<1>3. at' > 0 /\ resp' # NoAnswer
  BY <1>1 DEF AnswerInv, UploadsFollowAnswer
<1> QED
  BY <1>1, <1>2, <1>3 DEF AnswerInv, UploadsFollowAnswer

LEMMA AnswerInvUpload ==
  ASSUME TypeOK, QueueInv, AnswerInv,
         \/ SkipOutput \/ OpenFails \/ Upload \/ UploadFails \/ Confirm \/ ConfirmFails
         \/ Answer
  PROVE  AnswerInv'
<1>1. at > 0 /\ pc \in {"upload", "confirm"} /\ UNCHANGED <<resp, sent, queue>>
  BY DEF AnswerInv, SkipOutput, OpenFails, Upload, UploadFails, Confirm, ConfirmFails,
         Answer, Uploading, collect
<1>2. at' \in {at, at + 1} /\ pc' \in {"upload", "confirm", "answered"}
  BY DEF SkipOutput, OpenFails, Upload, UploadFails, Confirm, ConfirmFails,
         Answer, Uploading, Advance
<1>3. CASE pc' # "confirm"
  BY <1>1, <1>2, <1>3, AnswerInvLoop
<1>4. CASE pc' = "confirm"
  <2>1. Upload /\ Reply.offer = "upload_and_confirm" /\ UNCHANGED at
    BY <1>1, <1>4 DEF SkipOutput, OpenFails, Upload, UploadFails, Confirm, ConfirmFails,
                      Answer, Uploading
  <2>2. /\ Uploading /\ Wanted
        /\ Stored(Reply.for, Place.out)
        /\ at <= Len(queue) /\ HasPlace
    BY <2>1 DEF Upload, Uploading, Wanted
  <2>3. cloud'[Reply.for].content # NoContent
    BY <2>2, UploadAt, StoredType, NothingAssumption
  <2>4. at' <= Len(queue') /\ HasPlace' /\ Reply' = Reply
    BY <1>1, <2>1, <2>2 DEF HasPlace, Reply, Place
  <2>5. resp' # NoAnswer => \A i \in 1..Len(resp') : \A k \in 1..Len(resp'[i].outs) :
          /\ k <= Len(sent'[resp'[i].run])
          /\ resp'[i].outs[k].for = sent'[resp'[i].run][k]
    BY <1>1 DEF AnswerInv
  <2>6. at' > 0 /\ resp' # NoAnswer /\ at' # 0
    BY <1>1, <2>1 DEF AnswerInv, UploadsFollowAnswer
  <2>7. cloud'[Reply'.for].content # NoContent /\ Reply'.offer = "upload_and_confirm"
    BY <2>1, <2>3, <2>4
  <2> QED
    BY <1>4, <2>4, <2>5, <2>6, <2>7 DEF AnswerInv, UploadsFollowAnswer
<1> QED
  BY <1>3, <1>4

LEMMA AnswerInvNext ==
  ASSUME TypeOK, QueueInv, AnswerInv, [Next]_vars
  PROVE  AnswerInv'
<1>1. ASSUME UNCHANGED <<pc, at, resp, puts, cloud, queue, sent>>
      PROVE  AnswerInv'
  BY <1>1 DEF AnswerInv, UploadsFollowAnswer, HasPlace, Reply, Place
<1>2. CASE UNCHANGED vars
  BY <1>1, <1>2 DEF vars, collect
<1>3. CASE Crash
  <2>1. pc' = "gone" /\ UNCHANGED <<at, resp, puts, cloud, queue, sent>>
    BY <1>3 DEF Crash, collect
  <2> QED
    BY <2>1 DEF AnswerInv, UploadsFollowAnswer
<1> QED
  BY <1>2, <1>3, AnswerInvCollect, AnswerInvSync, AnswerInvUpload DEF Next, Work

\* Who writes what: the uploads, the confirmations, the call of the server.
LEMMA WhoWrites ==
  ASSUME [Next]_vars
  PROVE  /\ UNCHANGED puts \/ Upload \/ UploadFails
         /\ UNCHANGED cloud \/ Upload \/ UploadFails \/ Confirm \/ ConfirmFails
         /\ UNCHANGED sent \/ MeasureOutput
         /\ UNCHANGED <<resp, at>> \/ SyncAnswered \/ SkipOutput \/ OpenFails \/ Upload
              \/ UploadFails \/ Confirm \/ ConfirmFails
BY DEF Next, Work, Crash, Authenticate, ReadResult, RefuseOutput, MeasureOutput,
       Collected, SyncAnswered, SyncRateLimited, SyncGivesUp, SyncFails, SkipOutput,
       OpenFails, Upload, UploadFails, Confirm, ConfirmFails, Answer, vars, collect

LEMMA AddressedNext ==
  ASSUME TypeOK, QueueInv, AnswerInv, AddressedToItself, [Next]_vars
  PROVE  AddressedToItself'
<1>1. CASE Upload \/ UploadFails
  <2>1. /\ UNCHANGED resp /\ at > 0 /\ at <= Len(queue) /\ HasPlace
        /\ puts' = puts \cup {[from |-> Place.out, to |-> Reply.for]}
    BY <1>1 DEF Upload, UploadFails, Uploading, Wanted, AnswerInv
  <2>2. Aligned => Reply.for = Place.out
    BY <2>1, ReplyIsOwn
  <2> QED
    BY <2>1, <2>2 DEF AddressedToItself, Aligned
<1>2. CASE UNCHANGED puts /\ SyncAnswered
  <2>1. puts = {}
    BY <1>2 DEF SyncAnswered, AnswerInv
  <2> QED
    BY <1>2, <2>1 DEF AddressedToItself
<1>3. CASE UNCHANGED puts /\ ~SyncAnswered
  <2>1. UNCHANGED resp
    BY <1>3, WhoWrites DEF SkipOutput, OpenFails, Upload, UploadFails, Confirm, ConfirmFails
  <2> QED
    BY <1>3, <2>1 DEF AddressedToItself, Aligned
<1> QED
  BY <1>1, <1>2, <1>3, WhoWrites

\* What the server was told of.
LEMMA PlaceWasSent ==
  ASSUME TypeOK, QueueInv, at > 0, at <= Len(queue)
  PROVE  \E k \in DOMAIN sent[Place.out[1]] : sent[Place.out[1]][k] = Place.out
<1>1. /\ Place.run \in Runs /\ Place.index \in 1..Len(sent[Place.run])
      /\ sent[Place.run][Place.index] = Place.out
  BY PlaceType
<1>2. Place.out[1] = Place.run
  BY <1>1 DEF QueueInv
<1>3. DOMAIN sent[Place.run] = 1..Len(sent[Place.run])
  BY <1>1, SeqElement DEF TypeOK
<1> QED
  BY <1>1, <1>2, <1>3

LEMMA ConfirmedNext ==
  ASSUME TypeOK, QueueInv, AnswerInv, ConfirmedIsUploaded, [Next]_vars
  PROVE  ConfirmedIsUploaded'
<1>1. CASE UNCHANGED <<cloud, sent>>
  BY <1>1 DEF ConfirmedIsUploaded
<1>2. CASE MeasureOutput
  <2>1. UNCHANGED cloud /\ \A o \in Outputs : cloud[o].content = NoContent /\ ~cloud[o].confirmed
    BY <1>2 DEF MeasureOutput, AnswerInv
  <2> QED
    BY <2>1 DEF ConfirmedIsUploaded
<1>3. CASE (Upload \/ UploadFails) /\ cloud' # cloud
  <2>1. Uploading /\ Wanted /\ Stored(Reply.for, Place.out) /\ UNCHANGED sent
    BY <1>3 DEF Upload, UploadFails, collect
  <2>2. PICK to \in Outputs : to = Reply.for
    BY <2>1, UploadAt
  <2>3. PICK from \in Outputs : from = Place.out
    BY <2>1, UploadAt
  <2>4. /\ cloud'[to].content = from
        /\ \A o \in Outputs : /\ cloud'[o].confirmed = cloud[o].confirmed
                              /\ o # to => cloud'[o] = cloud[o]
    BY <2>1, <2>2, <2>3, StoredType
  <2>5. \E k \in DOMAIN sent[from[1]] : sent[from[1]][k] = from
    BY <2>1, <2>3, PlaceWasSent DEF Uploading, AnswerInv
  <2>6. ASSUME NEW o \in Outputs
        PROVE  /\ cloud'[o].content # NoContent =>
                    \E k \in DOMAIN sent[cloud'[o].content[1]] :
                      sent[cloud'[o].content[1]][k] = cloud'[o].content
               /\ cloud'[o].confirmed => cloud'[o].content # NoContent
    <3>1. CASE o = to
      BY <2>4, <2>5, <3>1, NothingAssumption
    <3>2. CASE o # to
      BY <2>4, <3>2 DEF ConfirmedIsUploaded
    <3> QED
      BY <3>1, <3>2
  <2> QED
    BY <2>1, <2>6 DEF ConfirmedIsUploaded
<1>4. CASE (Confirm \/ ConfirmFails) /\ cloud' # cloud
  <2>1. Confirmed /\ pc = "confirm" /\ UNCHANGED sent
    BY <1>4 DEF Confirm, ConfirmFails, collect
  <2>2. /\ Reply.for \in Outputs /\ cloud[Reply.for].content # NoContent
    BY <2>1, ReplyType DEF AnswerInv
  <2>3. \A o \in Outputs : /\ cloud'[o].content = cloud[o].content
                           /\ o # Reply.for => cloud'[o] = cloud[o]
    BY <2>1, <2>2, ConfirmedType
  <2> QED
    BY <2>1, <2>2, <2>3 DEF ConfirmedIsUploaded
<1>5. Upload \/ UploadFails \/ Confirm \/ ConfirmFails => UNCHANGED sent
  BY DEF Upload, UploadFails, Confirm, ConfirmFails, collect
<1> QED
  BY <1>1, <1>2, <1>3, <1>4, <1>5, WhoWrites

-----------------------------------------------------------------------------
(* What becomes of an output.                                                *)

LEMMA FailedOnly ==
  ASSUME TypeOK
  PROVE  /\ UNCHANGED failed => FailedOutputs' = FailedOutputs
         /\ \A o : failed' = Append(failed, o) => FailedOutputs' = FailedOutputs \cup {o}
<1>1. failed \in Seq(Outputs) /\ Len(failed) \in Nat /\ DOMAIN failed = 1..Len(failed)
  BY DEF TypeOK
<1>2. ASSUME NEW o, failed' = Append(failed, o)
      PROVE  FailedOutputs' = FailedOutputs \cup {o}
  <2>1. /\ DOMAIN failed' = 1..Len(failed) \cup {Len(failed) + 1}
        /\ failed'[Len(failed) + 1] = o
        /\ \A i \in 1..Len(failed) : failed'[i] = failed[i]
    BY <1>1, <1>2
  <2> QED
    BY <1>1, <2>1 DEF FailedOutputs
<1> QED
  BY <1>2 DEF FailedOutputs

\* One turn of the loop passes the output it is at, and no other.
LEMMA PassedOnly ==
  ASSUME TypeOK, QueueInv, at > 0, UNCHANGED queue, at' \in {at, at + 1},
         NEW o \in Outputs
  PROVE  /\ Passed(o) => Passed(o)'
         /\ Passed(o)' => Passed(o) \/ (at' = at + 1 /\ at <= Len(queue) /\ o = Place.out)
<1>1. at \in Nat /\ Len(queue) \in Nat
  BY DEF TypeOK
<1>2. at'..Len(queue) \subseteq at..Len(queue) /\ at' > 0
  BY <1>1
<1>3. Passed(o) => Passed(o)'
  BY <1>2 DEF Passed
<1>4. ASSUME Passed(o)', ~Passed(o)
      PROVE  at' = at + 1 /\ at <= Len(queue) /\ o = Place.out
  <2>1. PICK k \in at..Len(queue) : queue[k].out = o
    BY <1>4 DEF Passed
  <2>2. k \notin at'..Len(queue)
    BY <1>4, <2>1 DEF Passed
  <2>3. at' = at + 1 /\ k = at
    BY <1>1, <2>1, <2>2
  <2> QED
    BY <1>1, <2>1, <2>3 DEF Place
<1> QED
  BY <1>3, <1>4

\* What the server asks for is in the queue.
LEMMA AskedIsQueued ==
  ASSUME TypeOK, QueueInv, SyncAnswered, NEW o \in Outputs, Asked(o)'
  PROVE  \E q \in 1..Len(queue) : queue[q].out = o
<1>1. resp' \in Seq([run : Runs, outs : Seq(Answered)]) /\ DOMAIN resp' = 1..Len(resp')
  BY AnswerMade, SeqElement DEF Answers
<1>2. PICK i \in 1..Len(resp') : \E k \in DOMAIN resp'[i].outs : resp'[i].outs[k].for = o
  BY <1>1 DEF Asked
<1>3. resp'[i] \in [run : Runs, outs : Seq(Answered)]
  BY <1>1, SeqElement
<1>4. resp'[i].run \in Runs /\ resp'[i].outs \in Seq(Answered)
  BY <1>3
<1>5. PICK k \in 1..Len(resp'[i].outs) : resp'[i].outs[k].for = o
  BY <1>2, <1>4, SeqElement
<1>6. k <= Len(sent[resp'[i].run]) /\ sent[resp'[i].run][k] = o
  BY <1>5, AnswerMade
<1>7. k \in 1..Len(sent[resp'[i].run])
  BY <1>4, <1>6, SeqElement DEF TypeOK
<1>8. \A r \in Runs : \A n \in 1..Len(sent[r]) :
        \E q \in 1..Len(queue) : queue[q].out = sent[r][n]
  BY DEF QueueInv
<1>9. \E q \in 1..Len(queue) : queue[q].out = sent[resp'[i].run][k]
  BY <1>4, <1>7, <1>8
<1> QED
  BY <1>6, <1>9

LEMMA SameAnswer ==
  ASSUME UNCHANGED resp, NEW o \in Outputs
  PROVE  Aligned' = Aligned /\ Asked(o)' = Asked(o) /\ ToConfirm(o)' = ToConfirm(o)
BY DEF Aligned, Asked, ToConfirm

LEMMA DeliveryInvInit == Init => DeliveryInv
BY DEF Init, DeliveryInv, Aligned

\* A step of the loop has to care for the output it passes only.
LEMMA DeliveryLoop ==
  ASSUME TypeOK, QueueInv, DeliveryInv, at > 0, UNCHANGED <<resp, queue>>,
         at' \in {at, at + 1}, FailedOutputs \subseteq FailedOutputs',
         \A o \in Outputs :
           /\ cloud[o].content # NoContent => cloud'[o].content # NoContent
           /\ cloud[o].confirmed => cloud'[o].confirmed,
         at' = at + 1 /\ at <= Len(queue) /\ Aligned /\ Asked(Place.out)
           /\ Place.out \notin FailedOutputs' =>
             /\ cloud'[Place.out].content # NoContent
             /\ ToConfirm(Place.out) => cloud'[Place.out].confirmed
  PROVE  DeliveryInv'
<1> SUFFICES ASSUME NEW o \in Outputs,
                    Aligned', Passed(o)', Asked(o)', o \notin FailedOutputs'
             PROVE  /\ cloud'[o].content # NoContent
                    /\ ToConfirm(o)' => cloud'[o].confirmed
  BY DEF DeliveryInv
<1>1. Aligned /\ Asked(o) /\ ToConfirm(o)' = ToConfirm(o) /\ o \notin FailedOutputs
  BY SameAnswer
<1>2. CASE Passed(o)
  BY <1>1, <1>2 DEF DeliveryInv
<1>3. CASE ~Passed(o)
  <2>1. at' = at + 1 /\ at <= Len(queue) /\ o = Place.out
    BY <1>3, PassedOnly
  <2> QED
    BY <1>1, <2>1
<1> QED
  BY <1>2, <1>3

LEMMA DeliveryUpload ==
  ASSUME TypeOK, QueueInv, AnswerInv, DeliveryInv, Upload
  PROVE  DeliveryInv'
<1>1. /\ Uploading /\ Wanted
      /\ Stored(Reply.for, Place.out)
      /\ UNCHANGED <<resp, queue, failed>>
      /\ at > 0 /\ at <= Len(queue) /\ HasPlace
      /\ \/ Reply.offer = "upload_and_confirm" /\ UNCHANGED at
         \/ Reply.offer # "upload_and_confirm" /\ at' = at + 1
  BY DEF Upload, Uploading, Wanted, Advance, collect, AnswerInv
<1>2. /\ cloud'[Reply.for].content # NoContent
      /\ \A o \in Outputs : /\ cloud'[o].confirmed = cloud[o].confirmed
                            /\ o # Reply.for => cloud'[o] = cloud[o]
  BY <1>1, UploadAt, StoredType, NothingAssumption
<1>3. FailedOutputs' = FailedOutputs
  BY <1>1, FailedOnly
<1>4. ASSUME at' = at + 1, Aligned
      PROVE  cloud'[Place.out].content # NoContent /\ ~ToConfirm(Place.out)
  <2>1. Reply.for = Place.out
    BY <1>1, <1>4, ReplyIsOwn
  <2>2. Reply.offer # "upload_and_confirm"
    BY <1>1, <1>4 DEF TypeOK
  <2>3. ASSUME NEW i \in DOMAIN resp, NEW k \in DOMAIN resp[i].outs,
               resp[i].outs[k] = [for |-> Place.out, offer |-> "upload_and_confirm"]
        PROVE  FALSE
    <3>1. resp[i].outs[k].for = Place.out /\ resp[i].outs[k].offer = "upload_and_confirm"
      BY <2>3
    <3> QED
      BY <1>1, <1>4, <2>2, <3>1, ReplyOnly
  <2> QED
    BY <1>2, <2>1, <2>3 DEF ToConfirm
<1>5. \A o \in Outputs :
        /\ cloud[o].content # NoContent => cloud'[o].content # NoContent
        /\ cloud[o].confirmed => cloud'[o].confirmed
  BY <1>2
<1> QED
  BY <1>1, <1>3, <1>4, <1>5, DeliveryLoop

LEMMA DeliveryConfirm ==
  ASSUME TypeOK, QueueInv, AnswerInv, DeliveryInv, Confirm
  PROVE  DeliveryInv'
<1>1. /\ pc = "confirm" /\ Confirmed /\ at' = at + 1 /\ UNCHANGED <<resp, queue, failed>>
      /\ at > 0 /\ at <= Len(queue) /\ HasPlace /\ cloud[Reply.for].content # NoContent
  BY DEF Confirm, Advance, collect, AnswerInv
<1>2. /\ Reply.for \in Outputs
      /\ cloud'[Reply.for].confirmed
      /\ \A o \in Outputs : /\ cloud'[o].content = cloud[o].content
                            /\ o # Reply.for => cloud'[o] = cloud[o]
  BY <1>1, ReplyType, ConfirmedType
<1>3. FailedOutputs' = FailedOutputs
  BY <1>1, FailedOnly
<1>4. Aligned => cloud'[Place.out].content # NoContent /\ cloud'[Place.out].confirmed
  BY <1>1, <1>2, ReplyIsOwn
<1>5. \A o \in Outputs :
        /\ cloud[o].content # NoContent => cloud'[o].content # NoContent
        /\ cloud[o].confirmed => cloud'[o].confirmed
  BY <1>2
<1> QED
  BY <1>1, <1>3, <1>4, <1>5, DeliveryLoop

\* A failure is collected, whatever became of the call.
LEMMA DeliveryFailed ==
  ASSUME TypeOK, QueueInv, AnswerInv, DeliveryInv, OpenFails \/ UploadFails \/ ConfirmFails
  PROVE  DeliveryInv'
<1>1. /\ at' = at + 1 /\ UNCHANGED <<resp, queue>> /\ failed' = Append(failed, Place.out)
      /\ at > 0
  BY DEF OpenFails, UploadFails, ConfirmFails, Uploading, Advance, collect, AnswerInv
<1>2. FailedOutputs' = FailedOutputs \cup {Place.out}
  BY <1>1, FailedOnly
<1>3. \A o \in Outputs :
        /\ cloud[o].content # NoContent => cloud'[o].content # NoContent
        /\ cloud[o].confirmed => cloud'[o].confirmed
  <2>1. CASE UNCHANGED cloud
    BY <2>1
  <2>2. CASE UploadFails /\ cloud' # cloud
    <3>1. /\ Uploading /\ Wanted
          /\ Stored(Reply.for, Place.out)
      BY <2>2 DEF UploadFails
    <3>2. /\ cloud'[Reply.for].content # NoContent
          /\ \A o \in Outputs : /\ cloud'[o].confirmed = cloud[o].confirmed
                                /\ o # Reply.for => cloud'[o] = cloud[o]
      BY <3>1, UploadAt, StoredType, NothingAssumption
    <3> QED
      BY <3>2
  <2>3. CASE ConfirmFails /\ cloud' # cloud
    <3>1. pc = "confirm" /\ Confirmed
      BY <2>3 DEF ConfirmFails
    <3>2. Reply.for \in Outputs
      BY <1>1, <3>1, ReplyType DEF AnswerInv
    <3>3. /\ cloud'[Reply.for].confirmed
          /\ \A o \in Outputs : /\ cloud'[o].content = cloud[o].content
                                /\ o # Reply.for => cloud'[o] = cloud[o]
      BY <3>1, <3>2, ConfirmedType
    <3> QED
      BY <3>3
  <2> QED
    BY <2>1, <2>2, <2>3 DEF OpenFails
<1> QED
  BY <1>1, <1>2, <1>3, DeliveryLoop

\* An output that is skipped was not asked for.
LEMMA DeliverySkip ==
  ASSUME TypeOK, QueueInv, AnswerInv, DeliveryInv, SkipOutput
  PROVE  DeliveryInv'
<1>1. /\ at' = at + 1 /\ UNCHANGED <<resp, queue, failed, cloud>>
      /\ at > 0 /\ at <= Len(queue) /\ ~Wanted
  BY DEF SkipOutput, Uploading, Advance, collect, AnswerInv
<1>2. FailedOutputs' = FailedOutputs
  BY <1>1, FailedOnly
<1>3. ASSUME Aligned, Asked(Place.out)
      PROVE  FALSE
  <2>1. PICK i \in DOMAIN resp : \E k \in DOMAIN resp[i].outs :
          resp[i].outs[k].for = Place.out /\ resp[i].outs[k].offer # "no_upload"
    BY <1>3 DEF Asked
  <2>2. PICK k \in DOMAIN resp[i].outs :
          resp[i].outs[k].for = Place.out /\ resp[i].outs[k].offer # "no_upload"
    BY <2>1
  <2> QED
    BY <1>1, <1>3, <2>2, ReplyOnly DEF Wanted
<1> QED
  BY <1>1, <1>2, <1>3, DeliveryLoop

LEMMA DeliveryNext ==
  ASSUME TypeOK, QueueInv, AnswerInv, DeliveryInv, [Next]_vars
  PROVE  DeliveryInv'
<1>1. CASE at' = 0
  <2>1. ~Aligned' \/ \A o \in Outputs : ~Passed(o)'
    BY <1>1 DEF Passed
  <2> QED
    BY <2>1 DEF DeliveryInv
<1>2. CASE SyncAnswered
  <2>1. at' = 1 /\ resp' # NoAnswer
    BY <1>2, AnswerMade, NothingAssumption DEF SyncAnswered
  <2>2. ASSUME NEW o \in Outputs, Asked(o)', Passed(o)'
        PROVE  FALSE
    <3>1. PICK q \in 1..Len(queue) : queue[q].out = o
      BY <1>2, <2>2, AskedIsQueued
    <3>2. UNCHANGED queue
      BY <1>2 DEF SyncAnswered, collect
    <3> QED
      BY <2>1, <2>2, <3>1, <3>2 DEF Passed
  <2> QED
    BY <2>2 DEF DeliveryInv
<1>3. CASE /\ at > 0
           /\ ~(SkipOutput \/ OpenFails \/ Upload \/ UploadFails \/ Confirm \/ ConfirmFails)
  <2>1. UNCHANGED <<at, resp, queue, failed, cloud>>
    BY <1>3 DEF AnswerInv, Next, Work, Crash, Authenticate, ReadResult, RefuseOutput,
                MeasureOutput, Collected, SyncAnswered, SyncRateLimited, SyncGivesUp,
                SyncFails, Answer, vars, collect
  <2>2. FailedOutputs' = FailedOutputs
    BY <2>1, FailedOnly
  <2>3. at' # at + 1
    BY <2>1 DEF TypeOK
  <2> QED
    BY <1>3, <2>1, <2>2, <2>3, DeliveryLoop
<1>4. at = 0 => at' = 0 \/ SyncAnswered
  BY WhoWrites DEF AnswerInv, SkipOutput, OpenFails, Upload, UploadFails, Confirm,
                   ConfirmFails, Uploading
<1>5. at \in Nat
  BY DEF TypeOK
<1> QED
  BY <1>1, <1>2, <1>3, <1>4, <1>5, DeliverySkip, DeliveryFailed, DeliveryUpload,
     DeliveryConfirm

-----------------------------------------------------------------------------
(* The safety properties.                                                    *)

THEOREM RunsInvHolds == Spec => []RunsInv
<1>1. Init => RunsInv
  BY TypeInit, QueueInvInit, AnswerInvInit, DeliveryInvInit
     DEF RunsInv, Init, AddressedToItself, ConfirmedIsUploaded, Aligned
<1>2. RunsInv /\ [Next]_vars => RunsInv'
  BY TypeNext, QueueInvNext, AnswerInvNext, AddressedNext, ConfirmedNext, DeliveryNext
     DEF RunsInv
<1> QED
  BY <1>1, <1>2, PTL DEF Spec

\* The state of a request stays in its ranges, the place in the queue included.
THEOREM RunsTypeCorrect == Spec => []TypeOK
<1>1. RunsInv => TypeOK
  BY DEF RunsInv
<1> QED
  BY <1>1, RunsInvHolds, PTL

\* An upload goes to the URL of its own output, whatever was refused, skipped or
\* left out before it (outputIndex, handler.go:844).
THEOREM UploadsFindTheirPlace == Spec => []AddressedToItself
<1>1. RunsInv => AddressedToItself
  BY DEF RunsInv
<1> QED
  BY <1>1, RunsInvHolds, PTL

\* Wherever the answer has an output, nothing is confirmed that was not uploaded,
\* and nothing is stored that was refused while collecting (RunsSync,
\* handler.go:786-925).
THEOREM ConfirmedAfterUpload == Spec => []ConfirmedIsUploaded
<1>1. RunsInv => ConfirmedIsUploaded
  BY DEF RunsInv
<1> QED
  BY <1>1, RunsInvHolds, PTL

\* However often the call is retried, no upload begins without its answer
\* (handler.go:858).
THEOREM AnswerComesFirst == Spec => []UploadsFollowAnswer
<1>1. RunsInv => UploadsFollowAnswer
  BY DEF RunsInv, AnswerInv
<1> QED
  BY <1>1, RunsInvHolds, PTL

-----------------------------------------------------------------------------
(* RunsSync implements OutputDelivery.                                       *)

\* Behind the loop nothing is pending any more.
LEMMA FateIs ==
  ASSUME DeliveryInv, NEW o \in Outputs
  PROVE  Fate(o) = IF o \in FailedOutputs THEN "failed"
                   ELSE IF ~Passed(o) THEN "pending"
                   ELSE IF ~Aligned \/ ~Asked(o) THEN "unasked"
                   ELSE "delivered"
BY DEF DeliveryInv, Fate

LEMMA FateIsAfter ==
  ASSUME DeliveryInv', NEW o \in Outputs
  PROVE  Fate(o)' = IF o \in FailedOutputs' THEN "failed"
                    ELSE IF ~Passed(o)' THEN "pending"
                    ELSE IF ~Aligned' \/ ~Asked(o)' THEN "unasked"
                    ELSE "delivered"
BY DEF DeliveryInv, Fate

LEMMA FatesDecided ==
  ASSUME NEW D \in SUBSET Outputs, NEW f \in {"delivered", "failed", "unasked"},
         \A o \in D : Fate(o) = "pending",
         \A o \in Outputs : Fate(o)' = IF o \in D THEN f ELSE Fate(o),
         pc # "answered", pc' # "answered"
  PROVE  Deliveries!Decide
<1> DEFINE now == [o \in Outputs |-> Fate(o)]
<1>1. D \in SUBSET {o \in Outputs : now[o] = "pending"}
  OBVIOUS
<1>2. [o \in Outputs |-> Fate(o)'] = [o \in Outputs |-> IF o \in D THEN f ELSE now[o]]
  OBVIOUS
<1> QED
  BY <1>1, <1>2 DEF Deliveries!Decide, Deliveries!Fates

LEMMA FatesKept ==
  ASSUME \A o \in Outputs : Fate(o)' = Fate(o), pc = "answered" <=> pc' = "answered"
  PROVE  UNCHANGED <<[o \in Outputs |-> Fate(o)], pc = "answered">>
OBVIOUS

\* One output changes its fate, from pending.
LEMMA OneFate ==
  ASSUME NEW x \in Outputs, Fate(x)' = Fate(x) \/ Fate(x) = "pending",
         \A o \in Outputs \ {x} : Fate(o)' = Fate(o),
         Fate(x)' \in {"pending", "delivered", "failed", "unasked"},
         pc # "answered", pc' # "answered"
  PROVE  [Deliveries!Decide]_<<[o \in Outputs |-> Fate(o)], pc = "answered">>
<1>1. CASE Fate(x)' = Fate(x)
  BY <1>1, FatesKept
<1>2. CASE Fate(x)' # Fate(x)
  <2>1. Fate(x) = "pending" /\ Fate(x)' \in {"delivered", "failed", "unasked"}
    BY <1>2
  <2>2. \A o \in Outputs : Fate(o)' = IF o \in {x} THEN Fate(x)' ELSE Fate(o)
    OBVIOUS
  <2> QED
    BY <2>1, <2>2, FatesDecided
<1> QED
  BY <1>1, <1>2

\* A turn of the loop decides the fate of the output it is at, or none.
LEMMA FateLoop ==
  ASSUME TypeOK, QueueInv, DeliveryInv, DeliveryInv',
         at > 0, at <= Len(queue), at' \in {at, at + 1}, UNCHANGED <<resp, queue>>,
         failed' = failed \/ failed' = Append(failed, Place.out),
         pc # "answered", pc' # "answered"
  PROVE  [Deliveries!Decide]_<<[o \in Outputs |-> Fate(o)], pc = "answered">>
<1>1. PICK x \in Outputs : x = Place.out
  BY PlaceType
<1>2. ~Passed(x)
  <2>1. at \in at..Len(queue) /\ queue[at].out = x
    BY <1>1, PlaceType DEF Place
  <2> QED
    BY <2>1 DEF Passed
<1>3. FailedOutputs' = FailedOutputs \/ FailedOutputs' = FailedOutputs \cup {x}
  BY <1>1, FailedOnly
<1>4. ASSUME NEW o \in Outputs \ {x}
      PROVE  Fate(o)' = Fate(o)
  <2>1. Passed(o)' <=> Passed(o)
    BY <1>1, <1>4, PassedOnly
  <2>2. Aligned' = Aligned /\ Asked(o)' = Asked(o)
    BY SameAnswer
  <2>3. o \in FailedOutputs' <=> o \in FailedOutputs
    BY <1>3
  <2> QED
    BY <2>1, <2>2, <2>3, FateIs, FateIsAfter
<1>5. Fate(x)' = Fate(x) \/ Fate(x) = "pending"
  BY <1>1, <1>2, <1>3, FateIs, FateIsAfter
<1>6. Fate(x)' \in {"pending", "delivered", "failed", "unasked"}
  BY <1>1, FateIsAfter
<1> QED
  BY <1>1, <1>4, <1>5, <1>6, OneFate

LEMMA FateBefore ==
  ASSUME TypeOK, QueueInv, AnswerInv, DeliveryInv, DeliveryInv', at = 0, at' = 0,
         \/ UNCHANGED failed
         \/ \E x \in Outputs : failed' = Append(failed, x),
         pc # "answered", pc' # "answered"
  PROVE  [Deliveries!Decide]_<<[o \in Outputs |-> Fate(o)], pc = "answered">>
<1>1. ASSUME NEW o \in Outputs
      PROVE  ~Passed(o) /\ ~Passed(o)'
  BY DEF Passed
<1>2. CASE UNCHANGED failed
  <2>1. \A o \in Outputs : Fate(o)' = Fate(o)
    BY <1>1, <1>2, FailedOnly, FateIs, FateIsAfter
  <2> QED
    BY <2>1, FatesKept
<1>3. CASE \E x \in Outputs : failed' = Append(failed, x)
  <2>1. PICK x \in Outputs : failed' = Append(failed, x)
    BY <1>3
  <2>2. FailedOutputs' = FailedOutputs \cup {x}
    BY <2>1, FailedOnly
  <2>3. /\ Fate(x)' = Fate(x) \/ Fate(x) = "pending"
        /\ Fate(x)' \in {"pending", "delivered", "failed", "unasked"}
    BY <1>1, <2>2, FateIs, FateIsAfter
  <2>4. \A o \in Outputs \ {x} : Fate(o)' = Fate(o)
    BY <1>1, <2>2, FateIs, FateIsAfter
  <2> QED
    BY <2>3, <2>4, OneFate
<1> QED
  BY <1>2, <1>3

\* The answer tells which outputs are not asked for: those that were not sent.
LEMMA FateAnswered ==
  ASSUME TypeOK, QueueInv, AnswerInv, DeliveryInv, DeliveryInv', SyncAnswered
  PROVE  Deliveries!Decide
<1>1. /\ pc # "answered" /\ pc' # "answered" /\ at = 0 /\ at' = 1
      /\ UNCHANGED <<failed, queue>>
  BY DEF SyncAnswered, AnswerInv, collect
<1>2. FailedOutputs' = FailedOutputs
  BY <1>1, FailedOnly
<1>3. ASSUME NEW o \in Outputs
      PROVE  Fate(o) = IF o \in FailedOutputs THEN "failed" ELSE "pending"
  BY <1>1, FateIs DEF Passed
<1>4. ASSUME NEW o \in Outputs, Passed(o)'
      PROVE  ~Asked(o)'
  <2> SUFFICES ASSUME Asked(o)' PROVE FALSE
    OBVIOUS
  <2>1. PICK q \in 1..Len(queue) : queue[q].out = o
    BY AskedIsQueued
  <2> QED
    BY <1>1, <1>4, <2>1 DEF Passed
<1>5. ASSUME NEW o \in Outputs
      PROVE  Fate(o)' = IF o \in FailedOutputs THEN "failed"
                        ELSE IF Passed(o)' THEN "unasked" ELSE "pending"
  BY <1>2, <1>4, FateIsAfter
<1> DEFINE D == {o \in Outputs : o \notin FailedOutputs /\ Passed(o)'}
<1>6. /\ \A o \in D : Fate(o) = "pending"
      /\ \A o \in Outputs : Fate(o)' = IF o \in D THEN "unasked" ELSE Fate(o)
  BY <1>3, <1>5
<1>7. D \in SUBSET Outputs
  OBVIOUS
<1> HIDE DEF D
<1> QED
  BY <1>1, <1>6, <1>7, FatesDecided

\* With the queue behind it, the handler answers with every fate decided.
LEMMA AnswerDecided ==
  ASSUME TypeOK, QueueInv, AnswerInv, DeliveryInv, DeliveryInv', Answer
  PROVE  Deliveries!Answer
<1>1. /\ pc = "upload" /\ at > Len(queue) /\ at > 0 /\ pc' = "answered"
      /\ UNCHANGED <<at, queue, failed, resp>>
  BY DEF Answer, collect, AnswerInv
<1>2. ASSUME NEW o \in Outputs
      PROVE  Passed(o) /\ Passed(o)'
  <2>1. at..Len(queue) = {}
    BY <1>1 DEF TypeOK
  <2> QED
    BY <1>1, <2>1 DEF Passed
<1>3. ASSUME NEW o \in Outputs
      PROVE  Fate(o)' = Fate(o) /\ Fate(o) \in {"delivered", "failed", "unasked"}
  <2>1. Aligned' = Aligned /\ Asked(o)' = Asked(o) /\ FailedOutputs' = FailedOutputs
    BY <1>1, SameAnswer, FailedOnly
  <2> QED
    BY <1>2, <2>1, FateIs, FateIsAfter
<1>4. [o \in Outputs |-> Fate(o)'] = [o \in Outputs |-> Fate(o)]
  BY <1>3
<1> QED
  BY <1>1, <1>3, <1>4 DEF Deliveries!Answer, Deliveries!Fates

LEMMA DeliveryStep ==
  ASSUME RunsInv, RunsInv', [Next]_vars
  PROVE  [Deliveries!Decide \/ Deliveries!Answer]_<<[o \in Outputs |-> Fate(o)],
                                                   pc = "answered">>
<1>1. TypeOK /\ QueueInv /\ AnswerInv /\ DeliveryInv /\ DeliveryInv'
  BY DEF RunsInv
<1>2. CASE SyncAnswered
  BY <1>1, <1>2, FateAnswered
<1>3. CASE Answer
  BY <1>1, <1>3, AnswerDecided
<1>4. CASE SkipOutput \/ OpenFails \/ Upload \/ UploadFails \/ Confirm \/ ConfirmFails
  <2>1. /\ at > 0 /\ at <= Len(queue) /\ at' \in {at, at + 1} /\ UNCHANGED <<resp, queue>>
        /\ failed' = failed \/ failed' = Append(failed, Place.out)
        /\ pc # "answered" /\ pc' # "answered"
    BY <1>1, <1>4 DEF AnswerInv, SkipOutput, OpenFails, Upload, UploadFails, Confirm,
                      ConfirmFails, Uploading, Advance, collect
  <2> QED
    BY <1>1, <2>1, FateLoop
<1>5. CASE Authenticate \/ ReadResult \/ RefuseOutput \/ MeasureOutput \/ Collected
            \/ SyncRateLimited \/ SyncGivesUp \/ SyncFails
  <2>1. at = 0 /\ at' = 0 /\ pc # "answered" /\ pc' # "answered"
    BY <1>1, <1>5 DEF AnswerInv, Authenticate, ReadResult, RefuseOutput, MeasureOutput,
                      Collected, SyncRateLimited, SyncGivesUp, SyncFails
  <2>2. UNCHANGED failed \/ \E x \in Outputs : failed' = Append(failed, x)
    BY <1>1, <1>5, TodoTail DEF Authenticate, ReadResult, RefuseOutput, MeasureOutput,
                            Collected, SyncRateLimited, SyncGivesUp, SyncFails
  <2> QED
    BY <1>1, <2>1, <2>2, FateBefore
<1>6. CASE Crash \/ UNCHANGED vars
  <2>1. /\ UNCHANGED <<at, resp, queue, failed>>
        /\ pc = "answered" <=> pc' = "answered"
    BY <1>6 DEF Crash, vars, collect, Ends
  <2>2. ASSUME NEW o \in Outputs
        PROVE  Fate(o)' = Fate(o)
    <3>1. Aligned' = Aligned /\ Asked(o)' = Asked(o) /\ FailedOutputs' = FailedOutputs
      BY <1>1, <2>1, SameAnswer, FailedOnly
    <3>2. Passed(o)' = Passed(o)
      BY <2>1 DEF Passed
    <3> QED
      BY <1>1, <3>1, <3>2, FateIs, FateIsAfter
  <2> QED
    BY <2>1, <2>2, FatesKept
<1> QED
  BY <1>2, <1>3, <1>4, <1>5, <1>6 DEF Next, Work

LEMMA DeliveryStart ==
  ASSUME Init
  PROVE  Deliveries!Init
<1>1. FailedOutputs = {} /\ at = 0 /\ pc # "answered"
  BY DEF Init, FailedOutputs
<1>2. \A o \in Outputs : Fate(o) = "pending"
  BY <1>1 DEF Fate, Passed
<1> QED
  BY <1>1, <1>2 DEF Deliveries!Init

\* Through refused files, retries, lost answers and failed uploads every output the
\* server asked for is delivered or failed before the answer, once and for all
\* (RunsSync, handler.go:704): the request implements OutputDelivery.
THEOREM ImplementsDelivery == Spec => DeliversAsPromised
<1>1. Init => Deliveries!Init
  BY DeliveryStart
<1>2. RunsInv /\ RunsInv' /\ [Next]_vars
        => [Deliveries!Decide \/ Deliveries!Answer]_<<[o \in Outputs |-> Fate(o)],
                                                     pc = "answered">>
  BY DeliveryStep
<1> QED
  BY <1>1, <1>2, RunsInvHolds, PTL DEF Spec, DeliversAsPromised, Deliveries!Spec

-----------------------------------------------------------------------------
(* How far a request has to go: what RequestEnds rests on beside fairness.   *)

PhasesLeft ==
  CASE pc = "auth"                  -> 4
    [] pc = "collect"               -> 3
    [] pc = "sync"                  -> 2
    [] pc \in {"upload", "confirm"} -> 1
    [] OTHER                        -> 0

RunsLeft == IF pc = "collect" THEN Len(Shape) - run ELSE 0

\* In a run, its outputs; then attempts; then entries of the queue, two steps each.
StepsLeft ==
  CASE pc = "collect" -> Len(todo)
    [] pc = "sync"    -> MaxRateLimitRetries - attempt
    [] pc = "upload"  -> 2 * (Len(queue) + 1 - at)
    [] pc = "confirm" -> 2 * (Len(queue) + 1 - at) - 1
    [] OTHER          -> 0

\* In lexicographic order.
Closer ==
  \/ PhasesLeft' < PhasesLeft
  \/ /\ PhasesLeft' = PhasesLeft
     /\ \/ RunsLeft' < RunsLeft
        \/ RunsLeft' = RunsLeft /\ StepsLeft' < StepsLeft

\* The request comes closer to its end with every step.
EndApproaches == Closer

LEMMA MeasureType ==
  ASSUME RunsInv
  PROVE  PhasesLeft \in Nat /\ RunsLeft \in Nat /\ StepsLeft \in Nat
<1>1. Len(Shape) \in Nat /\ run \in 0..Len(Shape)
  BY ShapeType DEF RunsInv, TypeOK
<1>2. Len(todo) \in Nat
  BY SeqElement DEF RunsInv, TypeOK
<1>3. Len(queue) \in Nat /\ at \in 0..(Len(queue) + 1)
  BY SeqElement DEF RunsInv, TypeOK
<1>4. MaxRateLimitRetries \in Nat /\ attempt \in 0..MaxRateLimitRetries
  BY ShapeAssumption DEF RunsInv, TypeOK
<1>5. pc = "confirm" => at <= Len(queue)
  BY DEF RunsInv, AnswerInv
<1> QED
  BY <1>1, <1>2, <1>3, <1>4, <1>5 DEF PhasesLeft, RunsLeft, StepsLeft

LEMMA WorkComesCloser ==
  ASSUME RunsInv, Work \/ Crash
  PROVE  Closer
<1>1. CASE Authenticate \/ Collected \/ SyncAnswered \/ SyncGivesUp \/ SyncFails \/ Answer \/ Crash
  <2>1. PhasesLeft' < PhasesLeft
    BY <1>1 DEF Authenticate, Collected, SyncAnswered, SyncGivesUp, SyncFails, Answer, Crash,
       PhasesLeft, Ends, RunsInv, TypeOK
  <2> QED
    BY <2>1 DEF Closer
<1>2. CASE ReadResult
  <2>1. pc = "collect" /\ pc' = "collect" /\ run' = run + 1 /\ run \in Nat /\ Len(Shape) \in Nat
    BY <1>2, ShapeType DEF ReadResult, RunsInv, TypeOK
  <2> QED
    BY <2>1 DEF Closer, PhasesLeft, RunsLeft
<1>3. CASE RefuseOutput \/ MeasureOutput
  <2>1. /\ pc = "collect" /\ pc' = "collect" /\ run' = run
        /\ todo # <<>> /\ todo' = Tail(todo) /\ todo \in Seq(Outputs)
    BY <1>3 DEF RefuseOutput, MeasureOutput, RunsInv, TypeOK
  <2>2. Len(todo') < Len(todo)
    BY <2>1
  <2> QED
    BY <2>1, <2>2 DEF Closer, PhasesLeft, RunsLeft, StepsLeft
<1>4. CASE SyncRateLimited
  <2>1. /\ pc = "sync" /\ pc' = "sync" /\ attempt' = attempt + 1
        /\ attempt \in Nat /\ MaxRateLimitRetries \in Nat
    BY <1>4, ShapeAssumption DEF SyncRateLimited, RunsInv, TypeOK
  <2> QED
    BY <2>1 DEF Closer, PhasesLeft, RunsLeft, StepsLeft
<1>5. CASE SkipOutput \/ OpenFails \/ Upload \/ UploadFails
  <2>1. /\ pc = "upload" /\ queue' = queue /\ Len(queue) \in Nat /\ at \in Nat
        /\ \/ pc' = "upload" /\ at' = at + 1
           \/ pc' = "confirm" /\ at' = at
    BY <1>5, SeqElement DEF SkipOutput, OpenFails, Upload, UploadFails, Uploading, Advance, collect,
       RunsInv, TypeOK
  <2> QED
    BY <2>1 DEF Closer, PhasesLeft, RunsLeft, StepsLeft
<1>6. CASE Confirm \/ ConfirmFails
  <2>1. /\ pc = "confirm" /\ pc' = "upload" /\ at' = at + 1
        /\ queue' = queue /\ Len(queue) \in Nat /\ at \in Nat
    BY <1>6, SeqElement DEF Confirm, ConfirmFails, Advance, collect, RunsInv, TypeOK
  <2> QED
    BY <2>1 DEF Closer, PhasesLeft, RunsLeft, StepsLeft
<1> QED
  BY <1>1, <1>2, <1>3, <1>4, <1>5, <1>6 DEF Work

\* Whatever the server answers and the files do, every step brings the request
\* closer to its end: neither a 429, an output that is passed over nor one that
\* fails is met again (RunsSync, handler.go:704).
THEOREM EveryStepCounts ==
  Spec => [](<<PhasesLeft, RunsLeft, StepsLeft>> \in Nat \X Nat \X Nat) /\ [][EndApproaches]_vars
<1>1. RunsInv => <<PhasesLeft, RunsLeft, StepsLeft>> \in Nat \X Nat \X Nat
  BY MeasureType
<1>2. RunsInv /\ [Next]_vars => [EndApproaches]_vars
  BY WorkComesCloser DEF Next, EndApproaches
<1> QED
  BY <1>1, <1>2, RunsInvHolds, PTL DEF Spec
=============================================================================
