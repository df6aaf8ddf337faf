------------------------ MODULE AdapterProcess_proofs ------------------------
(***************************************************************************)
(* Proofs about AdapterProcess, for every input, every reply of the API and *)
(* every interval of the limiter.                                           *)
(***************************************************************************)
EXTENDS AdapterProcess, FiniteSetTheorems, TLAPS

InService == {"dispatch", "authenticate", "call"}

\* While a line is being served, it is the one line read without an answer.
LoopInv ==
  /\ input \in Seq(Kinds) /\ Len(input) <= MaxLines
  /\ closed \in BOOLEAN
  /\ read \in 0..Len(input)
  /\ pc \in InService \cup {"reading", "answered", "gone"}
  /\ exit \in {-1, 0, 1, 2} /\ (exit = -1 <=> pc # "gone")
  /\ out \in Seq(0..MaxLines)
  /\ pc \in InService \cup {"answered"} => read # 0
  /\ pc \in InService => Nonempty(read)
  /\ exit = 0 => closed
  /\ pc # "gone" => Place(read) = Len(out) + (IF pc \in InService THEN 1 ELSE 0)
  /\ AnswersMatchLines

\* The limiter remembers the last of the admissions.
LimiterInv ==
  /\ clock \in Times
  /\ lastAt \in [Limited -> Times \cup {-1}]
  /\ admitted \in [Limited -> Seq(Times)]
  /\ refused \in [Limited -> SUBSET Times]
  /\ \A op \in Limited :
       lastAt[op] = IF admitted[op] = <<>> THEN -1 ELSE admitted[op][Len(admitted[op])]
  /\ LimiterExact

AnswerCodes == ProtocolCodes \cup {"ok"}

AnswerInv ==
  /\ answer \in [code : AnswerCodes \cup {"none"}, reply : SomeReplies \cup {NoReply}]
  /\ pc # "answered" => answer = Nothing
  /\ StatusReaches

-----------------------------------------------------------------------------
(* Places of answers.                                                        *)

LEMMA PlaceType ==
  ASSUME NEW n \in Nat
  PROVE  /\ IsFiniteSet({m \in 1..n : Nonempty(m)})
         /\ Place(n) \in Nat
<1>1. IsFiniteSet(1..n)
  BY FS_Interval
<1>2. {m \in 1..n : Nonempty(m)} \in SUBSET (1..n)
  OBVIOUS
<1>3. IsFiniteSet({m \in 1..n : Nonempty(m)})
  BY <1>1, <1>2, FS_Subset
<1> QED
  BY <1>3, FS_CardinalityType DEF Place

LEMMA PlaceOfNone == Place(0) = 0
<1>1. {m \in 1..0 : Nonempty(m)} = {}
  OBVIOUS
<1> QED
  BY <1>1, FS_EmptySet DEF Place

LEMMA PlaceStep ==
  ASSUME NEW n \in Nat
  PROVE  Place(n + 1) = Place(n) + (IF Nonempty(n + 1) THEN 1 ELSE 0)
<1> DEFINE S == {m \in 1..n : Nonempty(m)}
<1>1. CASE Nonempty(n + 1)
  <2>1. {m \in 1..(n + 1) : Nonempty(m)} = S \cup {n + 1}
    BY <1>1
  <2>2. n + 1 \notin S
    OBVIOUS
  <2>3. IsFiniteSet(S)
    BY PlaceType
  <2> HIDE DEF S
  <2>4. Cardinality(S \cup {n + 1}) = Cardinality(S) + 1
    BY <2>2, <2>3, FS_AddElement
  <2> QED
    BY <1>1, <2>1, <2>4 DEF Place, S
<1>2. CASE ~Nonempty(n + 1)
  <2>1. {m \in 1..(n + 1) : Nonempty(m)} = S
    BY <1>2
  <2>2. Place(n) \in Nat
    BY PlaceType
  <2> QED
    BY <1>2, <2>1, <2>2 DEF Place
<1> QED
  BY <1>1, <1>2

LEMMA PlaceMonotone ==
  ASSUME NEW m \in Nat, NEW n \in Nat, m <= n
  PROVE  Place(m) <= Place(n)
<1>1. {k \in 1..m : Nonempty(k)} \in SUBSET {k \in 1..n : Nonempty(k)}
  OBVIOUS
<1> QED
  BY <1>1, PlaceType, FS_Subset DEF Place

\* Answers of different lines have different places.
LEMMA PlaceBefore ==
  ASSUME NEW m \in Nat, NEW n \in Nat, m < n, Nonempty(n)
  PROVE  Place(m) < Place(n)
<1>1. n - 1 \in Nat /\ m <= n - 1 /\ (n - 1) + 1 = n
  OBVIOUS
<1>2. Place(n) = Place(n - 1) + 1
  BY <1>1, PlaceStep
<1>3. Place(m) <= Place(n - 1)
  BY <1>1, PlaceMonotone
<1>4. Place(m) \in Nat /\ Place(n - 1) \in Nat
  BY <1>1, PlaceType
<1> QED
  BY <1>2, <1>3, <1>4

\* Lines written later change no place.
LEMMA PlaceKept ==
  ASSUME NEW n \in Nat, \A m \in 1..n : input'[m] = input[m]
  PROVE  Place(n)' = Place(n)
<1>1. {m \in 1..n : input'[m] # "empty"} = {m \in 1..n : input[m] # "empty"}
  OBVIOUS
<1> QED
  BY <1>1 DEF Place, Nonempty

-----------------------------------------------------------------------------
(* The loop.                                                                 *)


LEMMA LoopInvInit == Init => LoopInv
<1> SUFFICES ASSUME Init PROVE LoopInv
  OBVIOUS
<1>1. Place(0) = 0
  BY PlaceOfNone
<1>2. AnswersMatchLines
  BY <1>1 DEF Init, AnswersMatchLines
<1>3. /\ input \in Seq(Kinds) /\ Len(input) = 0
      /\ out \in Seq(0..MaxLines) /\ Len(out) = 0
  BY DEF Init
<1>4. Place(read) = 0
  BY <1>1 DEF Init
<1>5. MaxLines \in Nat
  BY AdapterAssumption
<1>6. read = 0 /\ pc = "reading" /\ exit = -1 /\ closed \in BOOLEAN
  BY DEF Init
<1>7. pc \notin InService
  BY <1>6 DEF InService
<1> QED
  BY <1>2, <1>3, <1>4, <1>5, <1>6, <1>7 DEF LoopInv

\* Steps that leave the lines, the answers and the end of the process alone,
\* and whether a line is being served.
LEMMA LoopInvKept ==
  ASSUME LoopInv, UNCHANGED <<input, closed, read, exit, out>>,
         pc' = pc \/ (pc \in InService /\ pc' \in InService)
                   \/ (pc = "answered" /\ pc' = "reading")
  PROVE  LoopInv'
<1>1. \A n \in 1..read : Nonempty(n)' = Nonempty(n) /\ Place(n)' = Place(n)
  BY PlaceKept DEF Nonempty, LoopInv
<1>2. Place(read)' = Place(read) /\ Nonempty(read)' = Nonempty(read)
  BY PlaceKept DEF Place, Nonempty
<1>3. AnswersMatchLines'
  BY <1>1, <1>2 DEF LoopInv, AnswersMatchLines, InService
<1> QED
  BY <1>2, <1>3 DEF LoopInv, InService

LEMMA LoopInvReply ==
  ASSUME LoopInv, pc \in InService,
         NEW code, NEW reply, Reply(code, reply)
  PROVE  LoopInv'
<1> DEFINE id == IF Line = "not_json" THEN 0 ELSE read
<1>1. /\ UNCHANGED <<input, closed, read, exit>>
      /\ out' = Append(out, id)
      /\ pc' = "answered"
  BY DEF Reply
<1>2. id \in 0..MaxLines /\ out' \in Seq(0..MaxLines) /\ Len(out') = Len(out) + 1
  BY <1>1, AdapterAssumption DEF LoopInv
<1>3. \A n \in 1..read : Place(n)' = Place(n) /\ Nonempty(n)' = Nonempty(n)
  BY <1>1, PlaceKept DEF Nonempty, LoopInv
<1>4. read \in 1..read /\ Place(read) = Len(out) + 1 /\ Place(read)' = Len(out')
  <2>1. read \in Nat /\ read # 0 /\ pc # "gone"
    BY DEF LoopInv, InService
  <2>2. Place(read) = Len(out) + 1
    BY <2>1 DEF LoopInv
  <2>3. Place(read)' = Place(read)
    BY <1>1, <1>3, <2>1 DEF Place, Nonempty
  <2> QED
    BY <1>2, <2>1, <2>2, <2>3
<1>5. ASSUME NEW n \in 1..read, Nonempty(n)', Place(n)' <= Len(out')
      PROVE  out'[Place(n)'] = IF input'[n] = "not_json" THEN 0 ELSE n
  <2>1. CASE n = read
    BY <1>1, <1>3, <1>4, <2>1 DEF Line, LoopInv
  <2>2. CASE n # read
    <3>1. Place(n) < Place(read)
      BY <1>4, <2>2, PlaceBefore DEF LoopInv, InService
    <3>2. n \in Nat /\ Place(n) \in Nat /\ Place(n - 1) \in Nat /\ Place(n) = Place(n - 1) + 1
      <4>1. n - 1 \in Nat /\ (n - 1) + 1 = n
        OBVIOUS
      <4>2. Place(n - 1) \in Nat /\ Place(n) = Place(n - 1) + 1
        BY <1>3, <1>5, <4>1, PlaceStep, PlaceType
      <4> QED
        BY <4>2
    <3>3. Place(n) \in 1..Len(out)
      BY <1>4, <3>1, <3>2
    <3>4. out'[Place(n)] = out[Place(n)]
      BY <1>1, <3>3, <1>2 DEF LoopInv
    <3> QED
      BY <1>1, <1>3, <1>5, <3>3, <3>4 DEF LoopInv, AnswersMatchLines
  <2> QED
    BY <2>1, <2>2
<1>6. exit' # 0
  BY <1>1 DEF LoopInv, InService
<1>7. AnswersMatchLines'
  <2>1. \A n \in 1..read' : Nonempty(n)' /\ Place(n)' <= Len(out') =>
          out'[Place(n)'] = IF input'[n] = "not_json" THEN 0 ELSE n
    BY <1>1, <1>5
  <2>2. Place(read)' - Len(out') = 0
    BY <1>2, <1>4 DEF LoopInv
  <2> QED
    BY <1>1, <1>6, <2>1, <2>2 DEF AnswersMatchLines
<1> QED
  BY <1>1, <1>2, <1>4, <1>6, <1>7 DEF LoopInv, InService

LEMMA LoopInvRead ==
  ASSUME LoopInv, More, read' = read + 1, UNCHANGED <<input, closed, exit, out>>,
         pc' = IF Nonempty(read + 1) THEN "dispatch" ELSE pc
  PROVE  LoopInv'
<1>1. /\ read \in Nat /\ read < Len(input) /\ pc = "reading" /\ exit # 0
      /\ Place(read) = Len(out) /\ Len(out) \in Nat
  BY DEF LoopInv, More, InService
<1>2. \A n \in 1..(read + 1) : Nonempty(n)' = Nonempty(n) /\ Place(n)' = Place(n)
  BY <1>1, PlaceKept DEF Nonempty
<1>3. /\ Place(read)' = Place(read')
      /\ Nonempty(read)' = Nonempty(read')
  BY DEF Place, Nonempty
<1>4. Place(read + 1) = Place(read) + (IF Nonempty(read + 1) THEN 1 ELSE 0)
  BY <1>1, PlaceStep
<1>5. Place(read') = Len(out') + (IF Nonempty(read + 1) THEN 1 ELSE 0)
  BY <1>1, <1>4
<1>6. ASSUME NEW n \in 1..(read + 1), Nonempty(n), Place(n) <= Len(out)
      PROVE  out[Place(n)] = IF input[n] = "not_json" THEN 0 ELSE n
  <2>1. n # read + 1
    BY <1>1, <1>4, <1>6
  <2> QED
    BY <1>1, <1>6, <2>1 DEF LoopInv, AnswersMatchLines
<1>7. AnswersMatchLines'
  BY <1>1, <1>2, <1>3, <1>5, <1>6 DEF AnswersMatchLines
<1> QED
  BY <1>1, <1>3, <1>5, <1>7 DEF LoopInv, InService

\* The process ends, with status 0 only after the last line.
LEMMA LoopInvEnd ==
  ASSUME LoopInv, pc # "gone", NEW status \in {0, 1, 2}, EndWith(status), UNCHANGED read,
         status = 0 => pc = "reading" /\ read = Len(input) /\ closed
  PROVE  LoopInv'
<1>1. /\ UNCHANGED <<input, closed, read, out>> /\ pc' = "gone" /\ exit' = status
      /\ read \in Nat /\ Len(out) \in Nat
  BY DEF EndWith, LoopInv
<1>2. \A n \in 1..read : Nonempty(n)' = Nonempty(n) /\ Place(n)' = Place(n)
  BY <1>1, PlaceKept DEF Nonempty
<1>3. Place(read)' = Place(read)
  BY <1>1 DEF Place, Nonempty
<1>4. /\ Place(read) - Len(out) \in {0, 1}
      /\ status = 0 => Place(read) = Len(out)
  BY <1>1 DEF LoopInv, InService
<1>5. AnswersMatchLines'
  BY <1>1, <1>2, <1>3, <1>4 DEF LoopInv, AnswersMatchLines
<1> QED
  BY <1>1, <1>5 DEF LoopInv, InService

LEMMA LoopInvWrite ==
  ASSUME LoopInv, NEW kind \in Kinds, Write(kind)
  PROVE  LoopInv'
<1>1. /\ UNCHANGED <<closed, read, pc, exit, out>> /\ ~closed /\ exit # 0
      /\ Len(input) < MaxLines /\ input' = Append(input, kind)
      /\ read \in 0..Len(input)
  BY DEF Write, LoopInv
<1>2. /\ input' \in Seq(Kinds) /\ Len(input') = Len(input) + 1
      /\ \A n \in 1..Len(input) : input'[n] = input[n]
  BY <1>1 DEF LoopInv
<1>3. \A n \in 1..read : Nonempty(n)' = Nonempty(n) /\ Place(n)' = Place(n) /\ input'[n] = input[n]
  BY <1>1, <1>2, PlaceKept DEF Nonempty
<1>4. Place(read)' = Place(read)
  <2>1. {m \in 1..read : input'[m] # "empty"} = {m \in 1..read : input[m] # "empty"}
    BY <1>3
  <2> QED
    BY <1>1, <2>1 DEF Place, Nonempty
<1>5. read # 0 => Nonempty(read)' = Nonempty(read)
  BY <1>1, <1>3 DEF Nonempty
<1>6. AnswersMatchLines'
  BY <1>1, <1>3, <1>4 DEF LoopInv, AnswersMatchLines
<1> QED
  BY <1>1, <1>2, <1>4, <1>5, <1>6, AdapterAssumption DEF LoopInv, InService

LEMMA LoopInvNext == LoopInv /\ [Next]_vars => LoopInv'
<1> SUFFICES ASSUME LoopInv, [Next]_vars PROVE LoopInv'
  OBVIOUS
<1>1. CASE UNCHANGED vars \/ Tick
  BY <1>1, LoopInvKept DEF vars, Tick
<1>2. ASSUME NEW kind \in Kinds, Write(kind) PROVE LoopInv'
  BY <1>2, LoopInvWrite
<1>3. CASE Close
  <2>1. UNCHANGED <<input, read, pc, exit, out>> /\ closed' = TRUE
    BY <1>3 DEF Close
  <2>2. \A n \in 1..read : Nonempty(n)' = Nonempty(n) /\ Place(n)' = Place(n)
    BY <2>1 DEF Nonempty, Place
  <2>3. Place(read)' = Place(read) /\ Nonempty(read)' = Nonempty(read)
    BY <2>1 DEF Nonempty, Place
  <2>4. AnswersMatchLines'
    BY <2>1, <2>2, <2>3 DEF LoopInv, AnswersMatchLines
  <2> QED
    BY <2>1, <2>3, <2>4 DEF LoopInv, InService
<1>4. CASE ReadLine \/ SkipEmpty
  BY <1>4, LoopInvRead DEF ReadLine, SkipEmpty, More, Nonempty
<1>5. CASE StopAtLongLine \/ EndOfInput \/ Die
  BY <1>5, LoopInvEnd DEF StopAtLongLine, EndOfInput, Die, More
<1>6. CASE NextLine \/ Serve \/ Authenticated
  BY <1>6, LoopInvKept DEF NextLine, Serve, Authenticated, InService
<1>7. CASE AnswerBroken \/ AnswerInvalid \/ Refuse \/ NotAuthenticated \/ NoDownload
  BY <1>7, LoopInvReply DEF AnswerBroken, AnswerInvalid, Refuse, NotAuthenticated, NoDownload,
     InService
<1>8. ASSUME NEW reply \in SomeReplies, Called(reply) PROVE LoopInv'
  BY <1>8, LoopInvReply DEF Called, InService
<1>9. CASE Admit
  <2>1. CASE Line = "pull.prepare"
    BY <1>9, <2>1, LoopInvKept DEF Admit, InService
  <2>2. CASE Line # "pull.prepare"
    BY <1>9, <2>2, LoopInvReply DEF Admit, InService
  <2> QED
    BY <2>1, <2>2
<1> QED
  BY <1>1, <1>2, <1>3, <1>4, <1>5, <1>6, <1>7, <1>8, <1>9 DEF Next, Work

-----------------------------------------------------------------------------
(* The limiter.                                                              *)

LEMMA LimiterInvInit == Init => LimiterInv
BY AdapterAssumption DEF Init, LimiterInv, LimiterExact, Times

LEMMA LimiterInvAdmit ==
  ASSUME LimiterInv, NEW op \in Limited, Allows(op),
         UNCHANGED clock,
         lastAt' = [lastAt EXCEPT ![op] = clock],
         admitted' = [admitted EXCEPT ![op] = Append(@, clock)],
         refused' = [refused EXCEPT ![op] = {}]
  PROVE  LimiterInv'
<1>1. /\ admitted[op] \in Seq(Times) /\ clock \in Times
      /\ admitted'[op] = Append(admitted[op], clock)
      /\ Len(admitted'[op]) = Len(admitted[op]) + 1
      /\ admitted'[op] # <<>>
      /\ admitted'[op][Len(admitted'[op])] = clock
  BY DEF LimiterInv
<1>2. Interval[op] \in Nat /\ Times \subseteq Int
  BY AdapterAssumption DEF Limited, Times
<1>3. ASSUME NEW i \in 1..(Len(admitted'[op]) - 1)
      PROVE  admitted'[op][i + 1] - admitted'[op][i] >= Interval[op]
  <2>1. i \in 1..Len(admitted[op]) /\ admitted'[op][i] = admitted[op][i]
    BY <1>1
  <2>2. CASE i = Len(admitted[op])
    <3>1. lastAt[op] = admitted[op][i] /\ lastAt[op] \in Times
      BY <1>1, <2>1, <2>2 DEF LimiterInv
    <3>2. clock - lastAt[op] >= Interval[op]
      BY <3>1, AdapterAssumption DEF Allows, Times
    <3> QED
      BY <1>1, <2>1, <2>2, <3>1, <3>2
  <2>3. CASE i # Len(admitted[op])
    <3>1. i \in 1..(Len(admitted[op]) - 1) /\ admitted'[op][i + 1] = admitted[op][i + 1]
      BY <1>1, <2>1, <2>3
    <3> QED
      BY <2>1, <3>1 DEF LimiterInv, LimiterExact
  <2> QED
    BY <2>2, <2>3
<1>4. refused'[op] = {}
  BY DEF LimiterInv
<1>5. \A o \in Limited \ {op} :
        admitted'[o] = admitted[o] /\ refused'[o] = refused[o] /\ lastAt'[o] = lastAt[o]
  BY DEF LimiterInv
<1>6. LimiterExact'
  BY <1>3, <1>4, <1>5 DEF LimiterInv, LimiterExact
<1>7. /\ clock' \in Times
      /\ lastAt' \in [Limited -> Times \cup {-1}]
      /\ admitted' \in [Limited -> Seq(Times)]
      /\ refused' \in [Limited -> SUBSET Times]
      /\ lastAt'[op] = clock
  BY DEF LimiterInv
<1> QED
  BY <1>1, <1>5, <1>6, <1>7 DEF LimiterInv

LEMMA LimiterInvRefuse ==
  ASSUME LimiterInv, NEW op \in Limited, ~Allows(op),
         UNCHANGED <<clock, lastAt, admitted>>,
         refused' = [refused EXCEPT ![op] = @ \cup {clock}]
  PROVE  LimiterInv'
<1>1. lastAt[op] # -1 /\ ~(clock - lastAt[op] >= Interval[op])
  BY DEF Allows
<1>2. admitted[op] # <<>> /\ lastAt[op] = admitted[op][Len(admitted[op])]
  BY <1>1 DEF LimiterInv
<1>3. /\ clock \in Int /\ lastAt[op] \in Int /\ Interval[op] \in Int
      /\ clock - lastAt[op] < Interval[op]
  BY <1>1, AdapterAssumption DEF LimiterInv, Limited, Times
<1>4. /\ \A t \in refused'[op] : t \in refused[op] \/ t = clock
      /\ \A o \in Limited \ {op} : refused'[o] = refused[o]
  BY DEF LimiterInv
<1>5. LimiterExact'
  BY <1>2, <1>3, <1>4 DEF LimiterInv, LimiterExact
<1> QED
  BY <1>5 DEF LimiterInv

LEMMA LimiterInvNext == LimiterInv /\ [Next]_vars => LimiterInv'
<1> SUFFICES ASSUME LimiterInv, [Next]_vars PROVE LimiterInv'
  OBVIOUS
<1>1. CASE UNCHANGED <<clock, limiter>>
  BY <1>1 DEF limiter, LimiterInv, LimiterExact
<1>2. CASE Tick
  BY <1>2, AdapterAssumption DEF Tick, limiter, LimiterInv, LimiterExact, Times
<1>3. CASE Admit
  <2>1. UNCHANGED clock
    BY <1>3 DEF Admit, Reply
  <2> QED
    BY <1>3, <2>1, LimiterInvAdmit DEF Admit, AdmittedNow
<1>4. CASE Refuse
  BY <1>4, LimiterInvRefuse DEF Refuse, Reply
<1>5. CASE UNCHANGED vars
  BY <1>1, <1>5 DEF vars, limiter
<1>6. ASSUME NEW kind \in Kinds, Write(kind) PROVE LimiterInv'
  BY <1>1, <1>6 DEF Write
<1>7. CASE Close \/ Die \/ ReadLine \/ SkipEmpty \/ StopAtLongLine \/ EndOfInput \/ NextLine
  BY <1>1, <1>7 DEF Close, Die, ReadLine, SkipEmpty, StopAtLongLine, EndOfInput, NextLine, EndWith
<1>8. CASE AnswerBroken \/ AnswerInvalid \/ Serve \/ Authenticated \/ NotAuthenticated \/ NoDownload
  BY <1>1, <1>8 DEF AnswerBroken, AnswerInvalid, Serve, Authenticated, NotAuthenticated,
     NoDownload, Reply
<1>9. ASSUME NEW reply \in SomeReplies, Called(reply) PROVE LimiterInv'
  BY <1>1, <1>9 DEF Called, Reply
<1> QED
  BY <1>2, <1>3, <1>4, <1>5, <1>6, <1>7, <1>8, <1>9 DEF Next, Work

-----------------------------------------------------------------------------
(* The codes of answers.                                                     *)

LEMMA OrderIs ==
  /\ DOMAIN Order = 1..5
  /\ Order[1] = "auth_required" /\ Order[2] = "forbidden" /\ Order[3] = "not_found"
  /\ Order[4] = "conflict" /\ Order[5] = "rate_limited"
BY DEF Order

\* A text without words is an error of the server, any other one of the codes.
LEMMA FirstCodeType ==
  ASSUME NEW text
  PROVE  FirstCode(text) \in ProtocolCodes
<1> DEFINE found == {i \in DOMAIN Order : Order[i] \in text}
           first == CHOOSE i \in found : \A j \in found : i <= j
<1>1. CASE found = {}
  BY <1>1 DEF FirstCode, ProtocolCodes
<1>2. CASE found # {}
  <2>1. found \subseteq 1..5
    BY OrderIs
  <2>2. \E i \in found : \A j \in found : i <= j
    <3> HIDE DEF found
    <3>1. CASE 1 \in found
      BY <2>1, <3>1
    <3>2. CASE 1 \notin found /\ 2 \in found
      BY <2>1, <3>2
    <3>3. CASE 1 \notin found /\ 2 \notin found /\ 3 \in found
      BY <2>1, <3>3
    <3>4. CASE 1 \notin found /\ 2 \notin found /\ 3 \notin found /\ 4 \in found
      BY <2>1, <3>4
    <3>5. CASE 1 \notin found /\ 2 \notin found /\ 3 \notin found /\ 4 \notin found
      <4>1. PICK i \in found : TRUE
        BY <1>2
      <4>2. \A j \in found : j = 5
        BY <2>1, <3>5
      <4> QED
        BY <4>1, <4>2
    <3> QED
      BY <3>1, <3>2, <3>3, <3>4, <3>5
  <2>3. first \in found
    <3> HIDE DEF found
    <3> QED
      BY <2>2
  <2>4. Order[first] \in Words
    BY <2>3 DEF Words
  <2> QED
    BY <1>2, <2>4 DEF FirstCode, ProtocolCodes
<1> QED
  BY <1>1, <1>2

LEMMA OneWord ==
  ASSUME NEW i \in 1..5
  PROVE  FirstCode({Order[i]}) = Order[i]
<1>1. {j \in DOMAIN Order : Order[j] \in {Order[i]}} = {i}
  BY OrderIs
<1>2. (CHOOSE j \in {i} : \A k \in {i} : j <= k) = i
  OBVIOUS
<1> QED
  BY <1>1, <1>2 DEF FirstCode

LEMMA ToRemoteErrorType ==
  ASSUME NEW reply
  PROVE  ToRemoteError(reply) \in ProtocolCodes
<1>1. "rate_limited" \in Words
  BY OrderIs DEF Words
<1> QED
  BY <1>1, FirstCodeType DEF ToRemoteError, ProtocolCodes

\* What StatusReaches says of an answer, of the reply alone.
LEMMA StatusMapped ==
  ASSUME NEW r \in Replies
  PROVE  /\ r.status = "limited" => ToRemoteError(r) = "rate_limited"
         /\ r.json /\ r.words = {} /\ r.code = "none" =>
              /\ r.status = "unauthorized" => ToRemoteError(r) = "auth_required"
              /\ r.status = "forbidden"    => ToRemoteError(r) = "forbidden"
              /\ r.status = "missing"      => ToRemoteError(r) = "not_found"
         /\ r.json /\ r.words = {} /\ r.code = "unknown" /\ r.status \notin {"ok", "limited"} =>
              ToRemoteError(r) = "server_error"
<1>1. r.status = "limited" => ToRemoteError(r) = "rate_limited"
  BY DEF ToRemoteError
<1>2. ASSUME r.json, r.words = {}, r.code = "none",
             r.status \in {"unauthorized", "forbidden", "missing"}
      PROVE  ToRemoteError(r) = StatusCode(r.status)
  <2>1. PICK i \in 1..5 : StatusCode(r.status) = Order[i]
    BY <1>2, OrderIs DEF StatusCode
  <2>2. Order[i] \in Words
    BY OrderIs DEF Words
  <2>3. ErrorText(r) = ErrorWords(r) /\ ErrorWords(r) = {} \cup ({StatusCode(r.status)} \cap Words)
    BY <1>2 DEF ErrorText, ErrorWords
  <2>4. ErrorText(r) = {Order[i]}
    BY <2>1, <2>2, <2>3
  <2> QED
    BY <1>2, <2>1, <2>4, OneWord DEF ToRemoteError
<1>3. ASSUME r.json, r.words = {}, r.code = "unknown", r.status \notin {"ok", "limited"}
      PROVE  ToRemoteError(r) = "server_error"
  <2>1. "unknown" \notin Words
    BY OrderIs DEF Words
  <2>2. ErrorText(r) = {}
    BY <1>3, <2>1 DEF ErrorText, ErrorWords
  <2> QED
    BY <1>3, <2>2 DEF ToRemoteError, FirstCode
<1> QED
  BY <1>1, <1>2, <1>3 DEF StatusCode

LEMMA AnswerInvInit == Init => AnswerInv
BY DEF Init, AnswerInv, Nothing, StatusReaches

\* No answer is about to be read: there is nothing to say of one.
LEMMA AnswerInvNothing ==
  ASSUME answer' = Nothing
  PROVE  AnswerInv'
BY DEF AnswerInv, Nothing, StatusReaches

LEMMA AnswerInvReply ==
  ASSUME NEW code \in AnswerCodes, Reply(code, NoReply)
  PROVE  AnswerInv'
BY DEF AnswerInv, Reply, StatusReaches, AnswerCodes

LEMMA AnswerInvCalled ==
  ASSUME NEW reply \in SomeReplies, Called(reply)
  PROVE  AnswerInv'
<1> DEFINE code == CASE reply.status = "ok"   -> "ok"
                     [] Line = "runs.sync"    -> "server_error"
                     [] Line = "auth.whoami"  -> "ok"
                     [] OTHER                 -> ToRemoteError(reply)
<1>1. /\ answer' = [code |-> code, reply |-> reply] /\ pc' = "answered"
      /\ Line' = Line
  BY DEF Called, Reply, Line
<1>2. code \in AnswerCodes
  BY ToRemoteErrorType DEF AnswerCodes, ProtocolCodes
<1>3. reply \in Replies
  BY AdapterAssumption
<1>4. Line \in {"call", "pull.prepare"} /\ reply.status # "ok" => code = ToRemoteError(reply)
  OBVIOUS
<1> HIDE DEF code
<1>5. answer'.code = code /\ answer'.reply = reply
  BY <1>1
<1>6. StatusReaches'
  BY <1>1, <1>3, <1>4, <1>5, StatusMapped DEF StatusReaches
<1> QED
  BY <1>1, <1>2, <1>5, <1>6 DEF AnswerInv

LEMMA AnswerInvNext == LoopInv /\ AnswerInv /\ [Next]_vars => AnswerInv'
<1> SUFFICES ASSUME LoopInv, AnswerInv, [Next]_vars PROVE AnswerInv'
  OBVIOUS
<1>1. CASE UNCHANGED <<answer, pc, read, input>>
  BY <1>1 DEF AnswerInv, StatusReaches, Line
<1>2. CASE UNCHANGED vars \/ Tick \/ Close
  BY <1>1, <1>2 DEF vars, Tick, Close
<1>3. ASSUME NEW kind \in Kinds, Write(kind) PROVE AnswerInv'
  <2>1. UNCHANGED <<answer, pc, read>> /\ input' = Append(input, kind)
    BY <1>3 DEF Write
  <2>2. CASE pc # "answered"
    BY <2>1, <2>2, AnswerInvNothing DEF AnswerInv
  <2>3. CASE pc = "answered"
    <3>1. Line' = Line
      BY <2>1, <2>3 DEF Line, LoopInv
    <3> QED
      BY <2>1, <3>1 DEF AnswerInv, StatusReaches
  <2> QED
    BY <2>2, <2>3
<1>4. CASE ReadLine \/ SkipEmpty \/ StopAtLongLine \/ EndOfInput \/ Serve \/ Authenticated
  BY <1>4, AnswerInvNothing DEF ReadLine, SkipEmpty, StopAtLongLine, EndOfInput, Serve,
     Authenticated, More, AnswerInv
<1>5. CASE NextLine \/ Die
  BY <1>5, AnswerInvNothing DEF NextLine, Die
<1>6. CASE AnswerBroken \/ AnswerInvalid \/ Refuse \/ NoDownload
  <2>1. {"unsupported_protocol", "invalid_request", "rate_limited", "not_found"} \subseteq AnswerCodes
    BY OrderIs DEF AnswerCodes, ProtocolCodes, Words
  <2> QED
    BY <1>6, <2>1, AnswerInvReply DEF AnswerBroken, AnswerInvalid, Refuse, NoDownload
<1>7. CASE NotAuthenticated
  <2>1. {"server_error", "ok", "auth_required"} \subseteq AnswerCodes
    BY OrderIs DEF AnswerCodes, ProtocolCodes, Words
  <2> QED
    BY <1>7, <2>1, AnswerInvReply DEF NotAuthenticated
<1>8. CASE Admit
  <2>1. CASE Line = "pull.prepare"
    BY <1>8, <2>1, AnswerInvNothing DEF Admit, AnswerInv
  <2>2. CASE Line # "pull.prepare"
    BY <1>8, <2>2, AnswerInvReply DEF Admit, AnswerCodes, ProtocolCodes
  <2> QED
    BY <2>1, <2>2
<1>9. ASSUME NEW reply \in SomeReplies, Called(reply) PROVE AnswerInv'
  BY <1>9, AnswerInvCalled
<1> QED
  BY <1>2, <1>3, <1>4, <1>5, <1>6, <1>7, <1>8, <1>9 DEF Next, Work

-----------------------------------------------------------------------------
(* The theorems.                                                             *)

AdapterInv == LoopInv /\ LimiterInv /\ AnswerInv

LEMMA AdapterInvHolds == Spec => []AdapterInv
<1>1. Init => AdapterInv
  BY LoopInvInit, LimiterInvInit, AnswerInvInit DEF AdapterInv
<1>2. AdapterInv /\ [Next]_vars => AdapterInv'
  BY LoopInvNext, LimiterInvNext, AnswerInvNext DEF AdapterInv
<1> QED
  BY <1>1, <1>2, PTL DEF Spec

\* The state of the process stays in its ranges.
THEOREM AdapterTypeCorrect == Spec => []TypeOK
<1>1. AdapterInv => TypeOK
  BY DEF AdapterInv, LoopInv, LimiterInv, AnswerInv, AnswerCodes, InService, TypeOK
<1> QED
  BY <1>1, AdapterInvHolds, PTL

\* Whatever epack writes and however calls end, the k-th line that is not empty
\* gets the k-th answer, under its id, and a process that ends with status 0 has
\* answered them all (run, main.go:65).
THEOREM OneAnswerPerLine == Spec => []AnswersMatchLines
<1>1. AdapterInv => AnswersMatchLines
  BY DEF AdapterInv, LoopInv
<1> QED
  BY <1>1, AdapterInvHolds, PTL

\* The limiter admits no faster than its intervals and refuses no more than they
\* demand, whatever the intervals (allowRateLimited, handler.go:269).
THEOREM LimiterIsExact == Spec => []LimiterExact
<1>1. AdapterInv => LimiterExact
  BY DEF AdapterInv, LimiterInv
<1> QED
  BY <1>1, AdapterInvHolds, PTL

\* For every reply of the API: a 429 stays one, and the status supplies a missing
\* code (toRemoteError, handler.go:1434).
THEOREM StatusAlwaysReaches == Spec => []StatusReaches
<1>1. AdapterInv => StatusReaches
  BY DEF AdapterInv, AnswerInv
<1> QED
  BY <1>1, AdapterInvHolds, PTL
-----------------------------------------------------------------------------
(* How much is left to do: what EveryLineServed rests on beside fairness.    *)

\* A line takes at most five steps: read, authenticate, call, answer, go on.
Stage ==
  CASE pc = "dispatch"     -> 4
    [] pc = "authenticate" -> 3
    [] pc = "call"         -> 2
    [] pc = "answered"     -> 1
    [] OTHER               -> 0

\* The steps to the end of the process, were epack to write no more.
Left == IF pc = "gone" THEN 0 ELSE 1 + 5 * (Len(input) - read) + Stage

LeftFalls ==
  /\ Work => Left' < Left
  /\ (\E kind \in Kinds : Write(kind)) => Left' <= Left + 5
  /\ ~(\E kind \in Kinds : Write(kind)) => Left' <= Left

LEMMA LeftType ==
  ASSUME LoopInv
  PROVE  Left \in Nat /\ Stage \in 0..4 /\ Len(input) - read \in Nat
<1>1. Len(input) \in Nat /\ read \in Nat /\ read <= Len(input) /\ Stage \in 0..4
  BY DEF LoopInv, Stage
<1> QED
  BY <1>1 DEF Left

\* The steps that take a line further.
LEMMA StageFalls ==
  ASSUME LoopInv, UNCHANGED <<input, read>>, pc # "gone", pc' # "gone", Stage' < Stage
  PROVE  Left' < Left
<1>1. Stage' \in 0..4
  BY DEF Stage
<1> QED
  BY <1>1, LeftType DEF Left

LEMMA WorkLowersLeft ==
  ASSUME LoopInv, Work
  PROVE  Left' < Left
<1>1. Len(input) \in Nat /\ read \in Nat /\ read <= Len(input) /\ Stage \in 0..4
  BY LeftType DEF LoopInv
<1>2. CASE ReadLine \/ SkipEmpty
  <2>1. /\ pc = "reading" /\ read < Len(input) /\ read' = read + 1 /\ input' = input
        /\ pc' \in {"reading", "dispatch"}
    BY <1>2 DEF ReadLine, SkipEmpty, More
  <2>2. Stage = 0 /\ Stage' \in {0, 4}
    BY <2>1 DEF Stage
  <2> QED
    BY <1>1, <2>1, <2>2 DEF Left
<1>3. CASE StopAtLongLine \/ EndOfInput
  <2>1. pc = "reading" /\ pc' = "gone"
    BY <1>3 DEF StopAtLongLine, EndOfInput, EndWith, More
  <2> QED
    BY <1>1, <2>1 DEF Left
<1>4. CASE NextLine
  BY <1>4, StageFalls DEF NextLine, Stage
<1>5. CASE AnswerBroken \/ AnswerInvalid \/ Refuse \/ NotAuthenticated \/ NoDownload
  BY <1>5, StageFalls DEF AnswerBroken, AnswerInvalid, Refuse, NotAuthenticated, NoDownload,
     Reply, Stage
<1>6. CASE \E reply \in SomeReplies : Called(reply)
  BY <1>6, StageFalls DEF Called, Reply, Stage
<1>7. CASE Serve \/ Authenticated
  BY <1>7, StageFalls DEF Serve, Authenticated, Stage
<1>8. CASE Admit
  <2>1. /\ UNCHANGED <<input, read>> /\ pc = "dispatch"
        /\ pc' \in {"authenticate", "answered"}
    BY <1>8 DEF Admit, Reply
  <2> QED
    BY <2>1, StageFalls DEF Stage
<1> QED
  BY <1>2, <1>3, <1>4, <1>5, <1>6, <1>7, <1>8 DEF Work

LEMMA OthersLeaveLeft ==
  ASSUME LoopInv, Die \/ Tick \/ Close \/ UNCHANGED vars
  PROVE  Left' <= Left
<1>1. CASE Die
  BY <1>1, LeftType DEF Die, EndWith, Left
<1>2. CASE Tick \/ Close \/ UNCHANGED vars
  <2>1. UNCHANGED <<input, read, pc>>
    BY <1>2 DEF Tick, Close, vars
  <2> QED
    BY <2>1, LeftType DEF Left, Stage
<1> QED
  BY <1>1, <1>2

LEMMA WriteRaisesLeft ==
  ASSUME LoopInv, NEW kind \in Kinds, Write(kind)
  PROVE  Left' <= Left + 5
<1>1. UNCHANGED <<pc, read>> /\ Len(input') = Len(input) + 1
  BY DEF Write, LoopInv
<1>2. Stage' = Stage
  BY <1>1 DEF Stage
<1> QED
  BY <1>1, <1>2, LeftType DEF Left, LoopInv

\* Whatever epack writes and however calls end, the process serves a line in at most
\* five steps of its own and needs one more to end: it does not come back to a
\* line, and neither a failed call nor a refusal makes more work (run, main.go:65).
THEOREM EveryStepServes == Spec => [](Left \in Nat) /\ [][LeftFalls]_vars
<1>1. AdapterInv => Left \in Nat
  BY LeftType DEF AdapterInv
<1>2. AdapterInv /\ [Next]_vars => [LeftFalls]_vars
  <2> SUFFICES ASSUME LoopInv, Next PROVE LeftFalls
    BY DEF AdapterInv
  <2>1. Work => Left' < Left
    BY WorkLowersLeft
  <2>2. (\E kind \in Kinds : Write(kind)) => Left' <= Left + 5
    BY WriteRaisesLeft
  <2>3. Left \in Nat /\ (Left' < Left => Left' <= Left)
    <3>1. LoopInv'
      BY LoopInvNext
    <3>2. Left' \in Nat
      BY <3>1 DEF LoopInv, Left, Stage
    <3> QED
      BY <3>2, LeftType
  <2>4. ~(\E kind \in Kinds : Write(kind)) => Left' <= Left
    BY <2>1, <2>3, OthersLeaveLeft DEF Next
  <2> QED
    BY <2>1, <2>2, <2>4 DEF LeftFalls
<1> QED
  BY <1>1, <1>2, AdapterInvHolds, PTL DEF Spec
=============================================================================
