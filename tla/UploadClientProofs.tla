-------------------------- MODULE UploadClientProofs --------------------------
(***************************************************************************)
(* Theorems about the page's side of an upload, for any number of uploads  *)
(* and chunks, over a network that loses, delays and repeats requests.     *)
(*                                                                         *)
(* That no chunk is skipped needs what a good answer says (AnswerInv).     *)
(* That a cancelled upload is not published needs that its completion was  *)
(* never requested: a request outlives the upload it belongs to, so that   *)
(* every one that is still around has to be looked at (RequestInv), from   *)
(* the moment the id of the upload is on its way to the page (FreshInv).   *)
(***************************************************************************)
EXTENDS UploadClient, TLAPS

\* the completion of upload u was never requested, and it is not published
Untouched(u) ==
    /\ dest # u
    /\ \A r \in requests : r.op = "complete" => r.id # u

PcInv ==
    /\ pc \in {"chunk", "check", "pause"} => id # None /\ index \in Chunks
    /\ pc = "pause" => attempt < MaxAttempts
    /\ pc \in {"idle", "create"} => id = None

RequestInv ==
    \A r \in requests :
        /\ r.op = "chunk" => r.index \in Chunks
        /\ r.op = "complete" => r.id \in made \ withdrawn

FreshInv ==
    pc = "create" /\ answer.is = "ok" =>
        answer.id \in made \ withdrawn /\ Untouched(answer.id)

AnswerInv == pc \in {"chunk", "check"} /\ answer.is = "ok" => index \in parts[id]

CancelInv ==
    /\ id \in withdrawn => cancelled
    /\ id # None /\ pc # "complete" => Untouched(id)
    /\ withdrawn \subseteq made
    /\ dest \in made \cup {None}

IInv ==
    /\ TypeOK /\ PcInv /\ RequestInv /\ FreshInv /\ AnswerInv /\ CancelInv
    /\ NoChunkSkipped /\ CancelledNotPublished /\ ProgressShown

-----------------------------------------------------------------------------
LEMMA InitIInv == Init => IInv
<1> SUFFICES ASSUME Init PROVE IInv
  OBVIOUS
<1> USE DEF Init, Store!Init
<1>1. TypeOK
  <2>1. /\ 1 \in 1 .. ChunkCount + 1 /\ 1 \in 1 .. MaxAttempts /\ 0 \in 0 .. MaxTimers
        /\ Nothing \in [is : {"none", "ok", "no"}, id : Uploads \cup {None}]
    BY ClientAssumption DEF MaxAttempts, Nothing
  <2>2. QED
    BY <2>1 DEF TypeOK
<1>2. PcInv /\ RequestInv /\ FreshInv /\ AnswerInv
  BY DEF PcInv, RequestInv, FreshInv, AnswerInv
<1>3. CancelInv /\ NoChunkSkipped /\ CancelledNotPublished /\ ProgressShown
  BY DEF CancelInv, NoChunkSkipped, CancelledNotPublished, ProgressShown, Active
<1>4. QED
  BY <1>1, <1>2, <1>3 DEF IInv

\* finishUpload(): what is left of the upload are requests, but no new completion
LEMMA FinishIInv ==
    ASSUME IInv, NEW left, \A r \in left : r \in requests \/ (r \in Requests /\ r.op = "delete"),
           Finish(left), timers' \in 0 .. MaxTimers, UNCHANGED <<hidden, storeVars>>,
           withdrawn \subseteq withdrawn', withdrawn' \subseteq made,
           \A u \in withdrawn' \ withdrawn : Untouched(u)
    PROVE  IInv'
<1> USE DEF IInv, Finish, storeVars
<1>1. left \subseteq Requests
  BY DEF TypeOK
<1>2. TypeOK'
  <2>1. /\ withdrawn' \subseteq Uploads /\ 1 \in 1 .. ChunkCount + 1 /\ 1 \in 1 .. MaxAttempts
        /\ Nothing \in [is : {"none", "ok", "no"}, id : Uploads \cup {None}]
    BY ClientAssumption DEF TypeOK, MaxAttempts, Nothing
  <2>2. QED
    BY <1>1, <2>1 DEF TypeOK
<1>3. PcInv' /\ FreshInv' /\ AnswerInv' /\ NoChunkSkipped' /\ ProgressShown'
  BY DEF PcInv, FreshInv, AnswerInv, NoChunkSkipped, ProgressShown, Active
<1>4. RequestInv'
  BY DEF RequestInv, Untouched
<1>5. CancelInv' /\ CancelledNotPublished'
  BY ClientAssumption DEF CancelInv, CancelledNotPublished, Untouched, TypeOK
<1>6. QED
  BY <1>2, <1>3, <1>4, <1>5

LEMMA DeletesFit ==
    ASSUME TypeOK, NEW u \in Uploads \cup {None}
    PROVE  \A r \in requests \cup Deletes(u) :
               r \in requests \/ (r \in Requests /\ r.op = "delete")
BY DEF Deletes, Request, Requests

\* the loop goes on with chunk i of upload u, or with the completion
LEMMA ProceedIInv ==
    ASSUME IInv, pc # "idle", NEW u \in made \ withdrawn, NEW i \in 1 .. ChunkCount + 1,
           Proceed(u, i), ~cancelled, 1 .. (i - 1) \subseteq parts[u], Untouched(u),
           UNCHANGED <<storeVars, withdrawn>>
    PROVE  IInv'
<1> USE DEF IInv, storeVars
<1>1. /\ id' = u /\ index' = i /\ attempt' = 1 /\ answer' = Nothing
      /\ UNCHANGED <<cancelled, hidden, timers>>
      /\ \/ i <= ChunkCount /\ pc' = "chunk" /\ requests' = requests \cup {Request("chunk", u, i)}
         \/ i > ChunkCount /\ pc' = "complete" /\ requests' = requests \cup {Request("complete", u, 0)}
  BY ClientAssumption DEF Proceed, Send
<1>2. Request("chunk", u, i) \in Requests /\ Request("complete", u, 0) \in Requests
  BY ClientAssumption DEF Request, Requests, TypeOK
<1>3. TypeOK'
  BY <1>1, <1>2, ClientAssumption DEF TypeOK, Waiting, MaxAttempts, Nothing
<1>4. PcInv'
  BY <1>1, ClientAssumption DEF PcInv, Chunks, TypeOK
<1>5. RequestInv'
  BY <1>1, ClientAssumption DEF RequestInv, Request, Chunks
<1>6. FreshInv' /\ AnswerInv' /\ NoChunkSkipped' /\ CancelledNotPublished' /\ ProgressShown'
  BY <1>1 DEF FreshInv, AnswerInv, Nothing, NoChunkSkipped, CancelledNotPublished,
              ProgressShown, Active
<1>7. CancelInv'
  BY <1>1 DEF CancelInv, Untouched, Request
<1>8. QED
  BY <1>3, <1>4, <1>5, <1>6, <1>7

\* the handler asks again about the chunk it is at
LEMMA SendIInv ==
    ASSUME IInv, pc \in {"chunk", "pause"}, NEW op \in {"chunk", "check"}, Send(op, id, index),
           attempt' \in 1 .. MaxAttempts, UNCHANGED <<id, index, cancelled, hidden, timers, storeVars, withdrawn>>
    PROVE  IInv'
<1> USE DEF IInv, storeVars
<1>1. /\ pc' = op /\ requests' = requests \cup {Request(op, id, index)} /\ answer' = Nothing
      /\ index \in Chunks /\ id # None
  BY DEF Send, PcInv
<1>2. Request(op, id, index) \in Requests
  BY <1>1, ClientAssumption DEF Request, Requests, TypeOK, Chunks
<1>3. TypeOK'
  BY <1>1, <1>2 DEF TypeOK, Waiting, Nothing
<1>4. PcInv' /\ FreshInv' /\ AnswerInv' /\ NoChunkSkipped' /\ CancelledNotPublished' /\ ProgressShown'
  BY <1>1 DEF PcInv, FreshInv, AnswerInv, Nothing, NoChunkSkipped, CancelledNotPublished,
              ProgressShown, Active
<1>5. RequestInv'
  BY <1>1 DEF RequestInv, Request
<1>6. CancelInv'
  BY <1>1 DEF CancelInv, Untouched, Request
<1>7. QED
  BY <1>3, <1>4, <1>5, <1>6

-----------------------------------------------------------------------------
\* the handler goes on with an answer, or after a pause
LEMMA HandlerIInv ==
    ASSUME IInv, Handler
    PROVE  IInv'
<1> USE DEF IInv
<1>1. ASSUME NEW u \in Uploads \cup {None}, GivesUp(u),
             UNCHANGED storeVars, withdrawn \subseteq withdrawn', withdrawn' \subseteq made,
             \A t \in withdrawn' \ withdrawn : Untouched(t)
      PROVE  IInv'
  <2>1. Finish(requests \cup Deletes(u)) /\ UNCHANGED hidden /\ timers' \in 0 .. MaxTimers
    BY <1>1 DEF GivesUp, TypeOK
  <2>2. QED
    BY <1>1, <2>1, DeletesFit, FinishIInv
<1>2. ASSUME Finish(requests), timers' \in 0 .. MaxTimers, UNCHANGED <<hidden, storeVars, withdrawn>>
      PROVE  IInv'
  BY <1>2, FinishIInv DEF CancelInv
<1>3. ASSUME Fails, UNCHANGED <<storeVars, withdrawn>>
      PROVE  IInv'
  <2>1. CASE GivesUp(id)
    BY <1>1, <1>3, <2>1 DEF CancelInv, TypeOK
  <2>2. CASE Pauses
    BY <1>2, <1>3, <2>2 DEF Pauses, TypeOK
  <2>3. QED
    BY <1>3, <2>1, <2>2 DEF Fails
<1>4. CASE NotCreated \/ NotCompleted
  BY <1>3, <1>4 DEF NotCreated, NotCompleted
<1>5. CASE Completed
  <2>1. timers' \in 0 .. MaxTimers
    BY <1>5, ClientAssumption DEF Completed, TypeOK
  <2>2. QED
    BY <1>2, <1>5, <2>1 DEF Completed
<1>6. CASE Created
  <2>1. answer.id \in made \ withdrawn /\ Untouched(answer.id) /\ answer.id \in Uploads
    BY <1>6 DEF Created, FreshInv, TypeOK
  <2>2. CASE cancelled
    <3>1. GivesUp(answer.id) /\ withdrawn' = withdrawn \cup {answer.id} /\ UNCHANGED storeVars
      BY <1>6, <2>2 DEF Created, Proceed
    <3>2. QED
      BY <1>1, <2>1, <3>1 DEF CancelInv
  <2>3. CASE ~cancelled
    <3>1. /\ Proceed(answer.id, 1) /\ UNCHANGED <<storeVars, withdrawn>> /\ pc # "idle"
          /\ 1 \in 1 .. ChunkCount + 1 /\ 1 .. (1 - 1) \subseteq parts[answer.id]
      BY <1>6, <2>3, ClientAssumption DEF Created
    <3>2. QED
      BY <2>1, <2>3, <3>1, ProceedIInv
  <2>4. QED
    BY <2>2, <2>3
<1>7. CASE ChunkSent \/ ChunkFound
  <2>1. /\ Proceed(id, index + 1) /\ UNCHANGED <<storeVars, withdrawn>>
        /\ pc \in {"chunk", "check"} /\ answer.is = "ok"
    BY <1>7 DEF ChunkSent, ChunkFound
  <2>2. /\ id \in made /\ id \in Uploads /\ index \in Chunks /\ index \in parts[id]
        /\ 1 .. (index - 1) \subseteq parts[id] /\ Untouched(id)
    BY <2>1 DEF PcInv, TypeOK, AnswerInv, NoChunkSkipped, CancelInv
  <2>3. CASE cancelled
    <3>1. GivesUp(id)
      BY <2>1, <2>3 DEF Proceed
    <3>2. QED
      BY <1>1, <2>1, <2>2, <3>1 DEF CancelInv
  <2>4. CASE ~cancelled
    <3>1. id \notin withdrawn
      BY <2>4 DEF CancelInv
    <3>2. index + 1 \in 1 .. ChunkCount + 1 /\ 1 .. ((index + 1) - 1) \subseteq parts[id]
      BY <2>2, ClientAssumption DEF Chunks
    <3>3. QED
      BY <2>1, <2>2, <2>4, <3>1, <3>2, ProceedIInv
  <2>5. QED
    BY <2>3, <2>4
<1>8. CASE ChunkLost
  BY <1>8, SendIInv DEF ChunkLost, TypeOK
<1>9. CASE ChunkMissing
  <2>1. CASE attempt < MaxAttempts
    <3>1. /\ pc = "check" /\ pc' = "pause" /\ answer' = Nothing
          /\ UNCHANGED <<id, index, attempt, cancelled, requests, hidden, timers, storeVars, withdrawn>>
      BY <1>9, <2>1 DEF ChunkMissing
    <3>2. TypeOK'
      BY <3>1 DEF TypeOK, Nothing, storeVars
    <3>3. PcInv' /\ RequestInv' /\ FreshInv' /\ AnswerInv'
      BY <2>1, <3>1 DEF PcInv, RequestInv, FreshInv, AnswerInv, storeVars
    <3>4. CancelInv' /\ NoChunkSkipped' /\ CancelledNotPublished' /\ ProgressShown'
      BY <3>1 DEF CancelInv, Untouched, NoChunkSkipped, CancelledNotPublished, ProgressShown,
                  Active, storeVars
    <3>5. QED
      BY <3>2, <3>3, <3>4
  <2>2. CASE ~(attempt < MaxAttempts)
    BY <1>3, <1>9, <2>2 DEF ChunkMissing
  <2>3. QED
    BY <2>1, <2>2
<1>10. CASE TriesAgain
  <2>1. CASE cancelled
    BY <1>1, <1>10, <2>1 DEF TriesAgain, CancelInv, TypeOK
  <2>2. CASE ~cancelled
    <3>1. /\ pc = "pause" /\ Send("chunk", id, index) /\ attempt' = attempt + 1
          /\ UNCHANGED <<id, index, cancelled, hidden, timers, storeVars, withdrawn>>
      BY <1>10, <2>2 DEF TriesAgain
    <3>2. attempt' \in 1 .. MaxAttempts
      BY <3>1 DEF PcInv, TypeOK, MaxAttempts
    <3>3. QED
      BY <3>1, <3>2, SendIInv
  <2>3. QED
    BY <2>1, <2>2
<1>11. QED
  BY <1>4, <1>5, <1>6, <1>7, <1>8, <1>9, <1>10 DEF Handler

\* a file is chosen, an upload is cancelled, a timer hides the progress
LEMMA UserIInv ==
    ASSUME IInv, Choose \/ Cancel \/ Hides
    PROVE  IInv'
<1> USE DEF IInv
<1>1. CASE Choose
  <2>1. /\ pc = "idle" /\ pc' = "create" /\ answer' = Nothing /\ hidden' = FALSE
        /\ requests' = requests \cup {Request("create", None, 0)}
        /\ UNCHANGED <<id, index, attempt, cancelled, timers, storeVars, withdrawn>>
    BY <1>1 DEF Choose, Send, Active
  <2>2. Request("create", None, 0) \in Requests
    BY DEF Request, Requests
  <2>3. TypeOK'
    BY <2>1, <2>2 DEF TypeOK, Waiting, Nothing, storeVars
  <2>4. PcInv' /\ FreshInv' /\ AnswerInv' /\ NoChunkSkipped' /\ CancelledNotPublished' /\ ProgressShown'
    BY <2>1 DEF PcInv, FreshInv, AnswerInv, Nothing, NoChunkSkipped, CancelledNotPublished,
                ProgressShown, storeVars
  <2>5. RequestInv' /\ CancelInv'
    BY <2>1 DEF RequestInv, CancelInv, PcInv, Untouched, Request, storeVars
  <2>6. QED
    BY <2>3, <2>4, <2>5
<1>2. CASE Cancel
  <2>1. id \in Uploads \cup {None} /\ (id # None => id \in made)
    BY DEF TypeOK
  <2>2. /\ withdrawn \subseteq withdrawn' /\ withdrawn' \subseteq made
        /\ \A u \in withdrawn' \ withdrawn : u = id /\ id # None /\ pc # "complete" /\ Untouched(u)
    BY <1>2, <2>1 DEF Cancel, CancelInv
  <2>3. CASE pc = "chunk"
    <3>1. Finish(requests \cup Deletes(id)) /\ UNCHANGED <<hidden, storeVars>> /\ timers' \in 0 .. MaxTimers
      BY <1>2, <2>3 DEF Cancel, GivesUp, TypeOK
    <3>2. QED
      BY <2>1, <2>2, <3>1, DeletesFit, FinishIInv
  <2>4. CASE pc # "chunk"
    <3>1. /\ cancelled' = TRUE /\ requests' = requests \cup Deletes(id)
          /\ UNCHANGED <<pc, id, index, attempt, answer, hidden, timers, storeVars>>
      BY <1>2, <2>4 DEF Cancel
    <3>2. \A r \in requests' : r \in requests \/ (r \in Requests /\ r.op = "delete")
      BY <2>1, <3>1, DeletesFit
    <3>3. TypeOK'
      BY <2>2, <3>1, <3>2 DEF TypeOK, storeVars
    <3>4. PcInv' /\ AnswerInv' /\ NoChunkSkipped' /\ ProgressShown'
      BY <3>1 DEF PcInv, AnswerInv, NoChunkSkipped, ProgressShown, Active, storeVars
    <3>5. FreshInv'
      BY <2>2, <3>1, <3>2 DEF FreshInv, PcInv, Untouched, storeVars
    <3>6. RequestInv'
      BY <2>2, <3>1, <3>2 DEF RequestInv, Untouched, storeVars
    <3>7. CancelInv' /\ CancelledNotPublished'
      BY <2>2, <3>1, <3>2 DEF CancelInv, CancelledNotPublished, Untouched, storeVars
    <3>8. QED
      BY <3>3, <3>4, <3>5, <3>6, <3>7
  <2>5. QED
    BY <2>3, <2>4
<1>3. CASE Hides
  <2>1. /\ timers' = timers - 1 /\ timers > 0 /\ hidden' = (hidden \/ ~Active)
        /\ UNCHANGED <<clientVars, answer, requests, storeVars, withdrawn>>
    BY <1>3 DEF Hides
  <2>2. timers' \in 0 .. MaxTimers /\ hidden' \in BOOLEAN
    BY <2>1, ClientAssumption DEF TypeOK
  <2>3. TypeOK'
    BY <2>1, <2>2 DEF TypeOK, clientVars, storeVars
  <2>4. ProgressShown'
    BY <2>1 DEF ProgressShown, Active, clientVars
  <2>5. PcInv' /\ RequestInv' /\ FreshInv' /\ AnswerInv'
    BY <2>1 DEF PcInv, RequestInv, FreshInv, AnswerInv, Untouched, clientVars, storeVars
  <2>6. CancelInv' /\ NoChunkSkipped' /\ CancelledNotPublished'
    BY <2>1 DEF CancelInv, NoChunkSkipped, CancelledNotPublished, Untouched, clientVars, storeVars
  <2>7. QED
    BY <2>3, <2>4, <2>5, <2>6
<1>4. QED
  BY <1>1, <1>2, <1>3

-----------------------------------------------------------------------------
\* a step of the network or the server that has left the handler alone: what is to be shown
\* is what it does to the answer and to the store
LEMMA NetworkIInv ==
    ASSUME IInv, UNCHANGED <<clientVars, hidden, timers, withdrawn>>,
           TypeOK', FreshInv', AnswerInv',
           requests' \subseteq requests, made \subseteq made',
           \A u \in Uploads : parts[u] \subseteq parts'[u],
           \/ dest' = dest
           \/ \E r \in requests : r.op = "complete" /\ dest' = r.id
    PROVE  IInv'
<1> USE DEF IInv, clientVars
<1>1. PcInv' /\ RequestInv' /\ ProgressShown'
  BY DEF PcInv, RequestInv, ProgressShown, Active
<1>2. NoChunkSkipped'
  BY DEF NoChunkSkipped, TypeOK
<1>3. dest' \in made' \cup {None} /\ CancelledNotPublished'
  BY DEF CancelInv, RequestInv, CancelledNotPublished
<1>4. CancelInv'
  BY <1>3 DEF CancelInv, Untouched
<1>5. QED
  BY <1>1, <1>2, <1>3, <1>4

\* what a request of the handler may have got as an answer
LEMMA AnswersFits ==
    ASSUME IInv, NEW r \in requests, NEW a \in {"ok", "no"}, NEW u \in Uploads \cup {None},
           Answers(r, a, u), UNCHANGED clientVars
    PROVE  /\ requests' \subseteq requests
           /\ answer' \in [is : {"none", "ok", "no"}, id : Uploads \cup {None}]
           /\ \/ answer' = answer
              \/ /\ r.op = pc /\ r.id = Current.id /\ r.index = Current.index
                 /\ answer' = [is |-> a, id |-> u]
BY DEF IInv, TypeOK, Answers, Current, Request

\* the server serves a request
LEMMA ServesIInv ==
    ASSUME IInv, NEW r \in requests, Serves(r)
    PROVE  IInv'
<1> USE DEF IInv
<1>1. UNCHANGED <<clientVars, hidden, timers, withdrawn>> /\ r \in Requests
  BY DEF Serves, TypeOK
<1>2. PICK a \in {"ok", "no"} :
         \/ /\ r.op = "create"
            /\ \E u \in Uploads : Store!Create(u) /\ Answers(r, a, u)
         \/ r.op = "chunk" /\ Store!Add(r.id, r.index) /\ Answers(r, a, None)
         \/ /\ r.op = "check" /\ r.index \in parts[r.id]
            /\ Answers(r, a, None)
            /\ UNCHANGED storeVars
         \/ r.op = "complete" /\ Store!Publish(r.id) /\ Answers(r, a, None)
         \/ r.op = "delete" /\ Store!Drop(r.id) /\ Answers(r, a, None)
  BY DEF Serves
<1>3. CASE r.op = "create"
  <2>1. PICK u \in Uploads : Store!Create(u) /\ Answers(r, a, u)
    BY <1>2, <1>3
  <2>2. /\ u \notin made /\ made' = made \cup {u} /\ open' = open \cup {u}
        /\ UNCHANGED <<parts, dest>>
    BY <2>1 DEF Store!Create
  <2>3. /\ requests' \subseteq requests
        /\ answer' \in [is : {"none", "ok", "no"}, id : Uploads \cup {None}]
        /\ \/ answer' = answer
           \/ r.op = pc /\ answer' = [is |-> a, id |-> u]
    BY <1>1, <2>1, AnswersFits
  <2>4. TypeOK'
    BY <1>1, <2>2, <2>3 DEF TypeOK, clientVars
  <2>5. u \notin withdrawn /\ dest # u /\ \A q \in requests : q.op = "complete" => q.id # u
    BY <2>2, ClientAssumption DEF CancelInv, RequestInv
  <2>6. FreshInv'
    BY <1>1, <2>2, <2>3, <2>5 DEF FreshInv, Untouched, clientVars
  <2>7. AnswerInv'
    BY <1>1, <1>3, <2>2, <2>3 DEF AnswerInv, clientVars
  <2>8. QED
    BY <1>1, <2>2, <2>3, <2>4, <2>6, <2>7, NetworkIInv
<1>4. CASE r.op \in {"chunk", "check"}
  <2>1. /\ Answers(r, a, None)
        /\ \/ r.op = "check" /\ r.index \in parts[r.id] /\ UNCHANGED parts
           \/ /\ r.op = "chunk" /\ r.id \in open
              /\ parts' = [parts EXCEPT ![r.id] = @ \cup {r.index}]
        /\ UNCHANGED <<made, open, dest>>
    BY <1>2, <1>4 DEF Store!Add, storeVars
  <2>2. /\ requests' \subseteq requests
        /\ answer' \in [is : {"none", "ok", "no"}, id : Uploads \cup {None}]
        /\ \/ answer' = answer
           \/ r.op = pc /\ r.id = Current.id /\ r.index = Current.index
    BY <1>1, <2>1, AnswersFits
  <2>3. r.op = "chunk" => r.id \in Uploads /\ r.index \in Chunks
    BY <2>1 DEF TypeOK, RequestInv
  <2>4. /\ parts' \in [Uploads -> SUBSET Chunks]
        /\ \A u \in Uploads : parts[u] \subseteq parts'[u]
        /\ r.index \in parts'[r.id]
    BY <1>4, <2>1, <2>3 DEF TypeOK
  <2>5. TypeOK'
    BY <1>1, <2>1, <2>2, <2>4 DEF TypeOK, clientVars
  <2>6. FreshInv'
    BY <1>1, <1>4, <2>1, <2>2 DEF FreshInv, Untouched, clientVars
  <2>7. AnswerInv'
    <3>1. SUFFICES ASSUME pc \in {"chunk", "check"}, answer'.is = "ok" PROVE index \in parts'[id]
      BY <1>1 DEF AnswerInv, clientVars
    <3>2. id \in Uploads /\ Current.id = id /\ Current.index = index
      BY <3>1 DEF PcInv, TypeOK, Current, Request
    <3>3. QED
      BY <2>2, <2>4, <3>1, <3>2 DEF AnswerInv
  <2>8. QED
    BY <1>1, <2>1, <2>2, <2>4, <2>5, <2>6, <2>7, NetworkIInv
<1>5. CASE r.op \in {"complete", "delete"}
  <2>1. /\ Answers(r, a, None)
        /\ r.id \in open /\ open' = open \ {r.id} /\ UNCHANGED <<made, parts>>
        /\ dest' = dest \/ (r.op = "complete" /\ dest' = r.id)
    BY <1>2, <1>5 DEF Store!Publish, Store!Drop
  <2>2. /\ requests' \subseteq requests
        /\ answer' \in [is : {"none", "ok", "no"}, id : Uploads \cup {None}]
        /\ answer' = answer \/ r.op = pc
    BY <1>1, <2>1, AnswersFits
  <2>3. TypeOK'
    BY <1>1, <2>1, <2>2 DEF TypeOK, clientVars
  <2>4. FreshInv'
    BY <1>1, <1>5, <2>1, <2>2 DEF FreshInv, Untouched, clientVars
  <2>5. AnswerInv'
    BY <1>1, <1>5, <2>1, <2>2 DEF AnswerInv, clientVars
  <2>6. QED
    BY <1>1, <2>1, <2>2, <2>3, <2>4, <2>5, NetworkIInv
<1>6. QED
  BY <1>1, <1>3, <1>4, <1>5 DEF Requests

\* a request fails, or the sweep removes an upload
LEMMA FailureIInv ==
    ASSUME IInv, Breaks \/ \E u \in Uploads : Expires(u)
    PROVE  IInv'
<1> USE DEF IInv
<1>1. CASE Breaks
  <2>1. /\ requests' \subseteq requests /\ answer' = [is |-> "no", id |-> None]
        /\ UNCHANGED <<clientVars, hidden, timers, storeVars, withdrawn>>
    BY <1>1 DEF Breaks
  <2>2. TypeOK'
    BY <2>1 DEF TypeOK, clientVars, storeVars
  <2>3. FreshInv' /\ AnswerInv'
    BY <2>1 DEF FreshInv, AnswerInv
  <2>4. QED
    BY <2>1, <2>2, <2>3, NetworkIInv DEF storeVars
<1>2. CASE \E u \in Uploads : Expires(u)
  <2>1. /\ open' \subseteq open
        /\ UNCHANGED <<made, parts, dest, clientVars, answer, requests, hidden, timers, withdrawn>>
    BY <1>2 DEF Expires, Store!Drop
  <2>2. TypeOK'
    BY <2>1 DEF TypeOK, clientVars
  <2>3. FreshInv' /\ AnswerInv'
    BY <2>1 DEF FreshInv, Untouched, AnswerInv, clientVars
  <2>4. QED
    BY <2>1, <2>2, <2>3, NetworkIInv
<1>3. QED
  BY <1>1, <1>2

-----------------------------------------------------------------------------
LEMMA NextIInv ==
    ASSUME IInv, [Next]_vars
    PROVE  IInv'
<1>1. CASE Choose \/ Cancel \/ Hides
  BY <1>1, UserIInv
<1>2. CASE Handler
  BY <1>2, HandlerIInv
<1>3. CASE \E r \in requests : Serves(r)
  BY <1>3, ServesIInv
<1>4. CASE Breaks \/ \E u \in Uploads : Expires(u)
  BY <1>4, FailureIInv
<1>5. CASE UNCHANGED vars
  BY <1>5 DEF IInv, TypeOK, PcInv, RequestInv, FreshInv, AnswerInv, CancelInv, Untouched,
              NoChunkSkipped, CancelledNotPublished, ProgressShown, Active,
              vars, clientVars, storeVars
<1>6. QED
  BY <1>1, <1>2, <1>3, <1>4, <1>5 DEF Next

LEMMA Inductive == Spec => []IInv
<1>1. IInv /\ [Next]_vars => IInv'
  BY NextIInv
<1>2. QED
  BY InitIInv, <1>1, PTL DEF Spec

\* The variables of the page and of the server stay what they are declared to be.
THEOREM TypeCorrect == Spec => []TypeOK
<1>1. IInv => TypeOK
  BY DEF IInv
<1>2. QED
  BY Inductive, <1>1, PTL

\* The page goes on to the next chunk, and in the end to the completion, only when the server
\* holds every chunk before.
THEOREM ChunksCorrect == Spec => []NoChunkSkipped
<1>1. IInv => NoChunkSkipped
  BY DEF IInv
<1>2. QED
  BY Inductive, <1>1, PTL

\* An upload that was cancelled before its completion was requested is never published,
\* whatever requests the server still gets.
THEOREM CancelCorrect == Spec => []CancelledNotPublished
<1>1. IInv => CancelledNotPublished
  BY DEF IInv
<1>2. QED
  BY Inductive, <1>1, PTL

\* The progress of the active upload is on the screen: the timer of an earlier upload does not
\* hide it.
THEOREM ProgressCorrect == Spec => []ProgressShown
<1>1. IInv => ProgressShown
  BY DEF IInv
<1>2. QED
  BY Inductive, <1>1, PTL

=============================================================================
