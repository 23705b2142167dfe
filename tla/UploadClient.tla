------------------------------ MODULE UploadClient ------------------------------
(***************************************************************************)
(* The page's side of a chunked upload: the functions of                   *)
(* internal/app/static/app.js from activeUpload to cancelUpload.           *)
(*                                                                         *)
(* The server is UploadStore behind a network: a request may be served     *)
(* late, refused, lost, or served without its answer getting back.  A      *)
(* request that the page has given up, by abort or because it failed, may  *)
(* still be served.  One upload is active at a time: the file input is     *)
(* disabled meanwhile.  The texts and the numbers of the progress line are *)
(* left out.                                                               *)
(***************************************************************************)
EXTENDS Naturals, FiniteSets

CONSTANTS
    Uploads,     \* upload ids: bounds how many uploads are created
    None,        \* null
    ChunkCount,  \* chunks of a file
    MaxTimers    \* bound on the timers that hide the progress, pending at a time

ASSUME ClientAssumption ==
    /\ None \notin Uploads
    /\ ChunkCount \in Nat
    /\ MaxTimers \in Nat

VARIABLES
    pc,             \* where the onchange handler waits
    id, index,      \* upload.id and the chunk it is at
    attempt,        \* the attempt of sendChunkWithRetry
    cancelled,      \* upload.cancelled
    answer,         \* the answer on its way to the handler
    requests,       \* requests the server may still serve; equal ones are one
    hidden,         \* uploadProgress.hidden
    timers,         \* pending timers that will hide it
    made, open, parts, dest,   \* the server: see UploadStore
    withdrawn       \* history: uploads that were cancelled before their completion was requested

clientVars == <<pc, id, index, attempt, cancelled>>
storeVars == <<made, open, parts, dest>>
vars == <<clientVars, answer, requests, hidden, timers, storeVars, withdrawn>>

Chunks == 1 .. ChunkCount
Store == INSTANCE UploadStore

MaxAttempts == 3

Waiting == {"create", "chunk", "check", "complete"}
Requests ==
    [op : {"create", "chunk", "check", "complete", "delete"}, id : Uploads \cup {None},
     index : Nat]

TypeOK ==
    /\ pc \in Waiting \cup {"idle", "pause"}
    /\ id \in made \cup {None}
    /\ index \in 1 .. ChunkCount + 1
    /\ attempt \in 1 .. MaxAttempts
    /\ cancelled \in BOOLEAN
    /\ answer \in [is : {"none", "ok", "no"}, id : Uploads \cup {None}]
    /\ requests \subseteq Requests
    /\ hidden \in BOOLEAN
    /\ timers \in 0 .. MaxTimers
    /\ made \subseteq Uploads /\ open \subseteq made
    /\ parts \in [Uploads -> SUBSET Chunks]
    /\ dest \in Uploads \cup {None}
    /\ withdrawn \subseteq Uploads

Nothing == [is |-> "none", id |-> None]

Init ==
    /\ pc = "idle" /\ id = None /\ index = 1 /\ attempt = 1 /\ cancelled = FALSE
    /\ answer = Nothing
    /\ requests = {}
    /\ hidden = TRUE /\ timers = 0
    /\ Store!Init
    /\ withdrawn = {}

Active == pc # "idle"

Request(op, u, i) == [op |-> op, id |-> u, index |-> i]

\* the request whose answer the handler waits for
Current == Request(pc, id, IF pc \in {"chunk", "check"} THEN index ELSE 0)

-----------------------------------------------------------------------------
(* The steps of the handler.                                               *)

\* the handler waits for the answer to a new request; a request that is still on its way and one
\* that repeats it are merged
Send(op, u, i) ==
    /\ pc' = op
    /\ requests' = requests \cup {Request(op, u, i)}
    /\ answer' = Nothing

\* finishUpload(), with the requests that are left
Finish(left) ==
    /\ pc' = "idle" /\ id' = None /\ index' = 1 /\ attempt' = 1 /\ cancelled' = FALSE
    /\ answer' = Nothing
    /\ requests' = left

Deletes(u) == IF u = None THEN {} ELSE {Request("delete", u, 0)}

\* the catch branch of a cancelled upload: the server is told, nobody waits for its answer
GivesUp(u) ==
    /\ Finish(requests \cup Deletes(u))
    /\ UNCHANGED <<hidden, timers>>

\* the catch branch of any other error: the server keeps what it has
Pauses ==
    /\ Finish(requests)
    /\ UNCHANGED <<hidden, timers>>

Fails == IF cancelled THEN GivesUp(id) ELSE Pauses

\* Deviation: the flag is not looked at after the last chunk.
ProceedToComplete(u, i) ==
    IF cancelled /\ i <= ChunkCount
    THEN GivesUp(u)
    ELSE /\ IF i <= ChunkCount
            THEN Send("chunk", u, i)
            ELSE Send("complete", u, 0)
         /\ id' = u /\ index' = i /\ attempt' = 1
         /\ UNCHANGED <<cancelled, hidden, timers>>

\* the head of the loop over the chunks of upload u, and what follows it
Proceed(u, i) ==
    IF cancelled
    THEN GivesUp(u)
    ELSE /\ IF i <= ChunkCount
            THEN Send("chunk", u, i)
            ELSE Send("complete", u, 0)
         /\ id' = u /\ index' = i /\ attempt' = 1
         /\ UNCHANGED <<cancelled, hidden, timers>>

\* a file is chosen
Choose ==
    /\ ~Active
    /\ Send("create", None, 0)
    /\ hidden' = FALSE
    /\ UNCHANGED <<id, index, attempt, cancelled, timers, storeVars, withdrawn>>

Created ==
    /\ pc = "create" /\ answer.is = "ok"
    /\ Proceed(answer.id, 1)
    /\ withdrawn' = IF cancelled THEN withdrawn \cup {answer.id} ELSE withdrawn
    /\ UNCHANGED storeVars

NotCreated ==
    /\ pc = "create" /\ answer.is = "no"
    /\ Fails
    /\ UNCHANGED <<storeVars, withdrawn>>

\* sendChunk() resolves
ChunkSent ==
    /\ pc = "chunk" /\ answer.is = "ok"
    /\ Proceed(id, index + 1)
    /\ UNCHANGED <<storeVars, withdrawn>>

\* sendChunk() rejects: the page asks whether the chunk got there all the same
ChunkLost ==
    /\ pc = "chunk" /\ answer.is = "no"
    /\ Send("check", id, index)
    /\ UNCHANGED <<id, index, attempt, cancelled, hidden, timers, storeVars, withdrawn>>

\* chunkReceived() says yes
ChunkFound ==
    /\ pc = "check" /\ answer.is = "ok"
    /\ Proceed(id, index + 1)
    /\ UNCHANGED <<storeVars, withdrawn>>

\* Deviation: the last attempt ends the loop without an error.
ChunkMissingGoesOn ==
    /\ pc = "check" /\ answer.is = "no"
    /\ IF attempt < MaxAttempts
       THEN /\ pc' = "pause" /\ answer' = Nothing
            /\ UNCHANGED <<id, index, attempt, cancelled, requests, hidden, timers>>
       ELSE Proceed(id, index + 1)
    /\ UNCHANGED <<storeVars, withdrawn>>

\* ... or no, or cannot tell
ChunkMissing ==
    /\ pc = "check" /\ answer.is = "no"
    /\ IF attempt < MaxAttempts
       THEN /\ pc' = "pause" /\ answer' = Nothing
            /\ UNCHANGED <<id, index, attempt, cancelled, requests, hidden, timers>>
       ELSE Fails
    /\ UNCHANGED <<storeVars, withdrawn>>

\* Deviation: the attempts are not counted.
TriesAgainUncounted ==
    /\ pc = "pause"
    /\ IF cancelled
       THEN GivesUp(id)
       ELSE /\ Send("chunk", id, index)
            /\ UNCHANGED <<id, index, attempt, cancelled, hidden, timers>>
    /\ UNCHANGED <<storeVars, withdrawn>>

\* the pause before the next attempt is over
TriesAgain ==
    /\ pc = "pause"
    /\ IF cancelled
       THEN GivesUp(id)
       ELSE /\ attempt' = attempt + 1
            /\ Send("chunk", id, index)
            /\ UNCHANGED <<id, index, cancelled, hidden, timers>>
    /\ UNCHANGED <<storeVars, withdrawn>>

Completed ==
    /\ pc = "complete" /\ answer.is = "ok"
    /\ timers < MaxTimers
    /\ timers' = timers + 1
    /\ Finish(requests)
    /\ UNCHANGED <<hidden, storeVars, withdrawn>>

NotCompleted ==
    /\ pc = "complete" /\ answer.is = "no"
    /\ Fails
    /\ UNCHANGED <<storeVars, withdrawn>>

\* a timer that hides the progress fires
Hides ==
    /\ timers > 0
    /\ timers' = timers - 1
    /\ hidden' = (hidden \/ ~Active)
    /\ UNCHANGED <<clientVars, answer, requests, storeVars, withdrawn>>

\* The cancel button.  A chunk that is being sent is aborted, which ends the handler at once;
\* in any other place the handler finds the flag when it goes on.
Cancel ==
    /\ Active /\ ~cancelled
    /\ IF pc = "chunk"
       THEN GivesUp(id)
       ELSE /\ cancelled' = TRUE
            /\ requests' = requests \cup Deletes(id)
            /\ UNCHANGED <<pc, id, index, attempt, answer, hidden, timers>>
    /\ withdrawn' = IF pc = "complete" \/ id = None THEN withdrawn ELSE withdrawn \cup {id}
    /\ UNCHANGED storeVars

-----------------------------------------------------------------------------
(* The network and the server.                                             *)

\* request r has been dealt with; if the handler waits for it, it gets answer a
Answers(r, a, u) ==
    /\ requests' = requests \ {r}
    /\ answer' = IF r = Current /\ answer.is = "none" THEN [is |-> a, id |-> u] ELSE answer

\* the server serves request r; its answer may get lost on the way
Serves(r) ==
    /\ r \in requests
    /\ \E a \in {"ok", "no"} :
         \/ /\ r.op = "create"
            /\ \E u \in Uploads : Store!Create(u) /\ Answers(r, a, u)
         \/ r.op = "chunk" /\ Store!Add(r.id, r.index) /\ Answers(r, a, None)
         \/ /\ r.op = "check" /\ r.index \in parts[r.id]
            /\ Answers(r, a, None)
            /\ UNCHANGED storeVars
         \/ r.op = "complete" /\ Store!Publish(r.id) /\ Answers(r, a, None)
         \/ r.op = "delete" /\ Store!Drop(r.id) /\ Answers(r, a, None)
    /\ UNCHANGED <<clientVars, hidden, timers, withdrawn>>

\* The handler is told that its request has failed: refused by the server, or cut off on the way,
\* so that it may still get served.  (A question for the state of the upload changes nothing.)
Breaks ==
    /\ pc \in Waiting /\ answer.is = "none"
    /\ answer' = [is |-> "no", id |-> None]
    /\ \/ requests' = requests \ {Current}
       \/ pc # "check" /\ UNCHANGED requests
    /\ UNCHANGED <<clientVars, hidden, timers, storeVars, withdrawn>>

\* the sweep removes an upload
Expires(u) ==
    /\ Store!Drop(u)
    /\ UNCHANGED <<clientVars, answer, requests, hidden, timers, withdrawn>>

-----------------------------------------------------------------------------
\* the handler goes on
Handler ==
    \/ Created \/ NotCreated \/ ChunkSent \/ ChunkLost \/ ChunkFound \/ ChunkMissing
    \/ TriesAgain \/ Completed \/ NotCompleted

Next ==
    \/ Choose \/ Cancel \/ Handler \/ Hides
    \/ \E r \in requests : Serves(r)
    \/ Breaks
    \/ \E u \in Uploads : Expires(u)

Spec == Init /\ [][Next]_vars

\* The browser goes on with what it has an answer for, and a request is answered or fails.  The
\* page sets no time limit; it is the network and the browser that give a dead connection up.
FairSpec ==
    /\ Spec
    /\ WF_vars(Handler)
    /\ WF_vars(Hides)
    /\ WF_vars(Breaks)

-----------------------------------------------------------------------------
(* Properties.                                                             *)

\* The page goes on to the next chunk, and in the end to the completion, only when the server
\* has stored every chunk before: after lost requests, lost answers and retries in any order.
\* (The upload as a whole may have been dropped since.)
NoChunkSkipped == id # None => 1 .. (index - 1) \subseteq parts[id]

\* An upload that was cancelled before its completion was requested is never published, not
\* even by a request that the page has given up and the server serves late.
CancelledNotPublished == dest \notin withdrawn

\* The progress of an upload stays on the screen while it is active: the timer of the upload
\* before it does not hide it.
ProgressShown == Active => ~hidden

\* An upload ends, whatever the network does: no retry goes on for ever.
Settles == Active ~> ~Active

=============================================================================
