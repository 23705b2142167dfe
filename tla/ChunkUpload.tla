------------------------------ MODULE ChunkUpload ------------------------------
(***************************************************************************)
(* The chunked upload of internal/server/upload.go: the map server.uploads *)
(* under uploadMu, one mutex per upload, the temporary file of an upload   *)
(* and the one destination path that all the uploads here compete for.     *)
(*                                                                         *)
(* A slot is one HTTP request in progress; it serves any number of         *)
(* requests one after the other.  Holding uploadMu while waiting for the   *)
(* mutex of an upload, as the sweep of expired uploads does, takes several *)
(* steps, and so does completing an upload between Stat and Rename.  All   *)
(* other work under the mutex of an upload is one step, enabled when that  *)
(* mutex is free: nobody else touches the temporary file.                  *)
(***************************************************************************)
EXTENDS Naturals, FiniteSets

CONSTANTS
    Slots,        \* requests that can be in progress at the same time
    Uploads,      \* upload ids: bounds how many uploads are created
    Chunks,       \* chunk indexes of an upload
    None,         \* no upload, no file, no holder
    DiskFails,    \* TRUE iff a write, a sync or a removal on disk may fail
    Restarts      \* TRUE iff the server may be restarted

Ops == {"create", "status", "chunk", "complete", "cancel"}

ASSUME UploadAssumption ==
    /\ IsFiniteSet(Chunks)
    /\ None \notin Slots \cup Uploads \cup Chunks
    /\ None \notin Ops
    /\ DiskFails \in BOOLEAN
    /\ Restarts \in BOOLEAN

VARIABLES
    known,             \* ids in server.uploads
    received,          \* upload.Received: the chunks marked as received
    old,               \* uploads whose UpdatedAt lies uploadLifetime back
    uploadMu, mu,      \* holders of server.uploadMu and of upload.mu
    made, temp,        \* uploads that were prepared; those whose temporary file exists
    stored,            \* the chunks that the file of an upload really holds
    dest,              \* the upload whose file is at the destination, or None
    pc, op, up, ix,    \* slot: control, operation, upload, chunk
    todo,              \* uploads the sweep of a slot has still to look at
    cancelled,         \* history: uploads for which a cancellation was answered with 204
    removed            \* history: those whose file it had removed, or found gone, under upload.mu

slotVars == <<pc, op, up, ix, todo>>
diskVars == <<made, temp, stored, dest>>
history == <<cancelled, removed>>
vars == <<known, received, old, uploadMu, mu, diskVars, slotVars, history>>

TypeOK ==
    /\ known \in SUBSET Uploads
    /\ received \in [Uploads -> SUBSET Chunks]
    /\ old \in SUBSET Uploads
    /\ uploadMu \in Slots \cup {None}
    /\ mu \in [Uploads -> Slots \cup {None}]
    /\ made \in SUBSET Uploads
    /\ temp \in SUBSET made
    /\ stored \in [Uploads -> SUBSET Chunks]
    /\ dest \in Uploads \cup {None}
    /\ pc \in [Slots -> {"idle", "find", "sweep", "act", "rename", "forget", "remove"}]
    /\ op \in [Slots -> Ops \cup {None}]
    /\ up \in [Slots -> Uploads \cup {None}]
    /\ ix \in [Slots -> Chunks \cup {None}]
    /\ todo \in [Slots -> SUBSET Uploads]
    /\ cancelled \in SUBSET Uploads /\ removed \in SUBSET cancelled

Init ==
    /\ known = {} /\ old = {} /\ made = {} /\ temp = {}
    /\ cancelled = {} /\ removed = {}
    /\ received = [u \in Uploads |-> {}]
    /\ stored = [u \in Uploads |-> {}]
    /\ uploadMu = None
    /\ mu = [u \in Uploads |-> None]
    /\ dest = None
    /\ pc = [w \in Slots |-> "idle"]
    /\ op = [w \in Slots |-> None]
    /\ up = [w \in Slots |-> None]
    /\ ix = [w \in Slots |-> None]
    /\ todo = [w \in Slots |-> {}]

-----------------------------------------------------------------------------
\* request w moves on
Goto(w, where) == pc' = [pc EXCEPT ![w] = where] /\ UNCHANGED <<op, up, ix, todo>>

\* request w is answered
Answer(w) ==
    /\ pc' = [pc EXCEPT ![w] = "idle"]
    /\ op' = [op EXCEPT ![w] = None]
    /\ up' = [up EXCEPT ![w] = None]
    /\ ix' = [ix EXCEPT ![w] = None]
    /\ todo' = [todo EXCEPT ![w] = {}]

\* request w starts: operation o on upload u, chunk i if it is a chunk
Begin(w, o, u, i, where) ==
    /\ pc' = [pc EXCEPT ![w] = where]
    /\ op' = [op EXCEPT ![w] = o]
    /\ up' = [up EXCEPT ![w] = u]
    /\ ix' = [ix EXCEPT ![w] = i]
    /\ UNCHANGED todo

\* createChunkUpload up to the map: the destination does not exist, the file is prepared
CreateBegins(w, u) ==
    /\ pc[w] = "idle"
    /\ u \notin made
    /\ dest = None
    /\ made' = made \cup {u}
    /\ temp' = temp \cup {u}
    /\ Begin(w, "create", u, None, "find")
    /\ UNCHANGED <<known, received, old, uploadMu, mu, stored, dest, history>>

\* a request names an upload that was created, whether the map still has it or not; the id is
\* random, so that nobody knows it before the answer to the creation
RequestBegins(w, o, u, i) ==
    /\ pc[w] = "idle"
    /\ u \in made
    /\ \A v \in Slots : op[v] = "create" => up[v] # u
    /\ i \in IF o = "chunk" THEN Chunks ELSE {None}
    /\ Begin(w, o, u, i, IF o = "cancel" THEN "act" ELSE "find")
    /\ UNCHANGED <<known, received, old, uploadMu, mu, diskVars, history>>

-----------------------------------------------------------------------------
(* findUpload, and the end of createChunkUpload: uploadMu and the sweep.   *)

FindLocks(w) ==
    /\ pc[w] = "find"
    /\ uploadMu = None
    /\ uploadMu' = w
    /\ pc' = [pc EXCEPT ![w] = "sweep"]
    /\ todo' = [todo EXCEPT ![w] = known]
    /\ UNCHANGED <<known, received, old, mu, diskVars, op, up, ix, history>>

\* one turn of cleanupExpiredUploadsLocked, which waits for the mutex of upload u
Sweep(w, u) ==
    /\ pc[w] = "sweep"
    /\ u \in todo[w]
    /\ mu[u] = None
    /\ IF u \in old
       THEN known' = known \ {u} /\ temp' = temp \ {u}
       ELSE UNCHANGED <<known, temp>>
    /\ todo' = [todo EXCEPT ![w] = @ \ {u}]
    /\ UNCHANGED <<received, old, uploadMu, mu, made, stored, dest, pc, op, up, ix, history>>

\* the expired upload goes, but its file cannot be removed and nobody looks at the error
SweepFails(w, u) ==
    /\ DiskFails
    /\ pc[w] = "sweep"
    /\ u \in todo[w] \cap old \cap temp
    /\ mu[u] = None
    /\ known' = known \ {u}
    /\ todo' = [todo EXCEPT ![w] = @ \ {u}]
    /\ UNCHANGED <<received, old, uploadMu, mu, diskVars, pc, op, up, ix, history>>

\* the lookup itself; a new upload is put in the map instead
Found(w) ==
    /\ pc[w] = "sweep"
    /\ todo[w] = {}
    /\ uploadMu' = None
    /\ IF op[w] = "create"
       THEN known' = known \cup {up[w]} /\ Answer(w)
       ELSE /\ UNCHANGED known
            /\ IF up[w] \in known THEN Goto(w, "act") ELSE Answer(w)
    /\ UNCHANGED <<received, old, mu, diskVars, history>>

-----------------------------------------------------------------------------
(* The requests, once they have found their upload.                        *)

\* chunkUploadStatus
Status(w) ==
    /\ pc[w] = "act" /\ op[w] = "status"
    /\ mu[up[w]] = None
    /\ old' = old \ {up[w]}
    /\ Answer(w)
    /\ UNCHANGED <<known, received, uploadMu, mu, diskVars, history>>

\* Deviation: a missing temporary file is created again.
ChunkCreatesFile(w) ==
    /\ pc[w] = "act" /\ op[w] = "chunk"
    /\ mu[up[w]] = None
    /\ temp' = temp \cup {up[w]}
    /\ stored' = [stored EXCEPT ![up[w]] = @ \cup {ix[w]}]
    /\ received' = [received EXCEPT ![up[w]] = @ \cup {ix[w]}]
    /\ old' = old \ {up[w]}
    /\ Answer(w)
    /\ UNCHANGED <<known, uploadMu, mu, made, dest, history>>

\* uploadChunk: the body was read before the mutex; a missing file means 410
ChunkStored(w) ==
    /\ pc[w] = "act" /\ op[w] = "chunk"
    /\ mu[up[w]] = None
    /\ IF up[w] \in temp
       THEN /\ stored' = [stored EXCEPT ![up[w]] = @ \cup {ix[w]}]
            /\ received' = [received EXCEPT ![up[w]] = @ \cup {ix[w]}]
            /\ old' = old \ {up[w]}
       ELSE UNCHANGED <<stored, received, old>>
    /\ Answer(w)
    /\ UNCHANGED <<known, uploadMu, mu, made, temp, dest, history>>

\* WriteAt or Close fails: the chunk is not marked; a chunk that was whole before stays whole,
\* because a retry writes the same bytes
ChunkFails(w) ==
    /\ DiskFails
    /\ pc[w] = "act" /\ op[w] = "chunk"
    /\ mu[up[w]] = None
    /\ up[w] \in temp
    /\ Answer(w)
    /\ UNCHANGED <<known, received, old, uploadMu, mu, diskVars, history>>

\* Deviation: the marks are not looked at; the file has its full size from the beginning.
CompleteChecksFile(w) ==
    /\ pc[w] = "act" /\ op[w] = "complete"
    /\ mu[up[w]] = None
    /\ IF dest = None /\ up[w] \in temp
       THEN mu' = [mu EXCEPT ![up[w]] = w] /\ Goto(w, "rename")
       ELSE UNCHANGED mu /\ Answer(w)
    /\ UNCHANGED <<known, received, old, uploadMu, diskVars, history>>

\* completeChunkUpload under upload.mu up to Rename: every chunk marked, no file at the
\* destination, the temporary file still there; otherwise 409 or 410
CompleteChecks(w) ==
    /\ pc[w] = "act" /\ op[w] = "complete"
    /\ mu[up[w]] = None
    /\ IF received[up[w]] = Chunks /\ dest = None /\ up[w] \in temp
       THEN mu' = [mu EXCEPT ![up[w]] = w] /\ Goto(w, "rename")
       ELSE UNCHANGED mu /\ Answer(w)
    /\ UNCHANGED <<known, received, old, uploadMu, diskVars, history>>

\* Deviation: the mutex of the upload is not released after the rename.
CompleteKeepsMutex(w) ==
    /\ pc[w] = "rename"
    /\ dest' = up[w]
    /\ temp' = temp \ {up[w]}
    /\ Goto(w, "forget")
    /\ UNCHANGED <<known, received, old, uploadMu, mu, made, stored, history>>

\* Rename replaces whatever is at the destination by now
CompleteRenames(w) ==
    /\ pc[w] = "rename"
    /\ dest' = up[w]
    /\ temp' = temp \ {up[w]}
    /\ mu' = [mu EXCEPT ![up[w]] = None]
    /\ Goto(w, "forget")
    /\ UNCHANGED <<known, received, old, uploadMu, made, stored, history>>

\* Sync or Rename fails: the upload stays as it is
CompleteFails(w) ==
    /\ DiskFails
    /\ pc[w] = "rename"
    /\ mu' = [mu EXCEPT ![up[w]] = None]
    /\ Answer(w)
    /\ UNCHANGED <<known, received, old, uploadMu, diskVars, history>>

\* the upload leaves the map: 201
CompleteForgets(w) ==
    /\ pc[w] = "forget"
    /\ uploadMu = None
    /\ known' = known \ {up[w]}
    /\ Answer(w)
    /\ UNCHANGED <<received, old, uploadMu, mu, diskVars, history>>

\* cancelChunkUpload: out of the map first; 204 also if the map does not have it
CancelForgets(w) ==
    /\ pc[w] = "act" /\ op[w] = "cancel"
    /\ uploadMu = None
    /\ known' = known \ {up[w]}
    /\ IF up[w] \in known
       THEN Goto(w, "remove") /\ UNCHANGED cancelled
       ELSE Answer(w) /\ cancelled' = cancelled \cup {up[w]}
    /\ UNCHANGED <<received, old, uploadMu, mu, diskVars, removed>>

\* Deviation: cancelling only takes the upload out of the map.
CancelKeepsFile(w) ==
    /\ pc[w] = "remove"
    /\ cancelled' = cancelled \cup {up[w]}
    /\ removed' = removed \cup {up[w]}
    /\ Answer(w)
    /\ UNCHANGED <<known, received, old, uploadMu, mu, diskVars>>

\* ... then the file goes, if it is still there
CancelRemoves(w) ==
    /\ pc[w] = "remove"
    /\ mu[up[w]] = None
    /\ temp' = temp \ {up[w]}
    /\ cancelled' = cancelled \cup {up[w]}
    /\ removed' = removed \cup {up[w]}
    /\ Answer(w)
    /\ UNCHANGED <<known, received, old, uploadMu, mu, made, stored, dest>>

\* Remove fails: 500
CancelFails(w) ==
    /\ DiskFails
    /\ pc[w] = "remove"
    /\ mu[up[w]] = None
    /\ up[w] \in temp
    /\ Answer(w)
    /\ UNCHANGED <<known, received, old, uploadMu, mu, diskVars, history>>

-----------------------------------------------------------------------------
\* twenty-four hours pass without a chunk or a status request for upload u
Ages(u) ==
    /\ u \in known \ old
    /\ old' = old \cup {u}
    /\ UNCHANGED <<known, received, uploadMu, mu, diskVars, slotVars, history>>

\* the process ends and a new one starts: the map and the requests are gone, the files stay
Restart ==
    /\ Restarts
    /\ known' = {} /\ old' = {}
    /\ received' = [u \in Uploads |-> {}]
    /\ uploadMu' = None
    /\ mu' = [u \in Uploads |-> None]
    /\ pc' = [w \in Slots |-> "idle"]
    /\ op' = [w \in Slots |-> None]
    /\ up' = [w \in Slots |-> None]
    /\ ix' = [w \in Slots |-> None]
    /\ todo' = [w \in Slots |-> {}]
    /\ UNCHANGED <<diskVars, history>>

-----------------------------------------------------------------------------
\* a request that has been accepted makes its next step
Serve(w) ==
    \/ FindLocks(w) \/ (\E u \in Uploads : Sweep(w, u) \/ SweepFails(w, u)) \/ Found(w)
    \/ Status(w) \/ ChunkStored(w) \/ ChunkFails(w)
    \/ CompleteChecks(w) \/ CompleteRenames(w) \/ CompleteFails(w) \/ CompleteForgets(w)
    \/ CancelForgets(w) \/ CancelRemoves(w) \/ CancelFails(w)

Accept(w) ==
    \E u \in Uploads :
      \/ CreateBegins(w, u)
      \/ \E o \in Ops \ {"create"}, i \in Chunks \cup {None} : RequestBegins(w, o, u, i)

Next ==
    \/ \E w \in Slots : Accept(w) \/ Serve(w)
    \/ \E u \in Uploads : Ages(u)
    \/ Restart

Spec == Init /\ [][Next]_vars

\* The handlers run and their locks are obtained: Go's mutexes do not starve a waiter.
FairSpec == Spec /\ \A w \in Slots : SF_vars(Serve(w))

-----------------------------------------------------------------------------
(* Properties.                                                             *)

\* A file that an upload put at its destination holds every chunk, whatever was retried,
\* failed half way, cancelled or swept in between.
DestinationComplete == dest # None => stored[dest] = Chunks

\* The cancellation that takes an upload out of the map and then removes its file, or finds it
\* gone, is final: an upload that was not at its destination by then does not appear there later,
\* although completions, chunks and other cancellations of it may be under way.  A 204 to a
\* cancellation that did not find the upload any more only promises that no request finds it
\* from then on: a completion that has found it before may still publish it.
CancelledStaysAway ==
    [][/\ \A u \in removed : dest' = u => dest = u
       /\ \A w \in Slots : pc[w] = "sweep" /\ pc'[w] = "act" => up[w] \notin cancelled]_vars

\* A temporary file has somebody who will move or remove it: the map knows its upload, or the
\* request that creates or cancels that upload is not answered yet.
Owned(u) ==
    \/ u \in known
    \/ \E w \in Slots : up[w] = u /\ (op[w] = "create" \/ pc[w] = "remove")

\* A temporary file is left behind only by a restart or by a removal that fails: no race of
\* chunks, completions, cancellations and sweeps ever loses one.
TemporaryOwned ==
    [][\A u \in temp' :
         \/ Owned(u)'
         \/ u \in temp /\ ~Owned(u)
         \/ Restart \/ \E w \in Slots : CancelFails(w) \/ SweepFails(w, u)]_vars

\* The two kinds of mutex never wait for each other: every accepted request is answered.
EveryRequestAnswered == \A w \in Slots : pc[w] # "idle" ~> pc[w] = "idle"

\* upload_test.go, server_test.go: an upload to a name that exists is refused with 409 and
\* leaves the existing file unchanged.
DestinationNeverReplaced == [][dest # None => dest' = dest]_vars

-----------------------------------------------------------------------------
(* The upload implements the store that UploadClient is written against:   *)
(* neither a race nor a restart publishes a part of a file, a file that    *)
(* was dropped, or a file twice.                                           *)

Store == INSTANCE UploadStore WITH open <- temp, parts <- stored

\* Every step of the handlers, of the sweep and of a restart is one of the store, or none.
ImplementsStore == Store!Spec

=============================================================================
