--------------------------- MODULE ChunkUploadProofs ---------------------------
(***************************************************************************)
(* Theorems about chunked uploads, for any number of requests, uploads and *)
(* chunks, with failing disk operations and restarts.                      *)
(*                                                                         *)
(* That a published file is complete is not inductive: it needs that marks *)
(* never run ahead of the file (MarkInv), and that between the check and   *)
(* the rename nobody else can move or remove the file (RenameInv).  That a *)
(* cancellation which removed the file is final needs that the file does   *)
(* not come back (CancelInv), and that no request finds an upload after a  *)
(* 204 needs that nobody can cancel an upload whose creation has still to  *)
(* put it in the map (MapInv).                                             *)
(***************************************************************************)
EXTENDS ChunkUpload, TLAPS

SlotInv ==
    \A w \in Slots : pc[w] # "idle" =>
        up[w] \in made /\ (op[w] = "chunk" => ix[w] \in Chunks)

RenameInv ==
    \A w \in Slots : pc[w] = "rename" =>
        mu[up[w]] = w /\ up[w] \in temp /\ stored[up[w]] = Chunks

MarkInv == \A u \in Uploads : received[u] \subseteq stored[u]

CancelInv == cancelled \subseteq made /\ removed \cap temp = {}

IInv ==
    /\ TypeOK /\ SlotInv /\ RenameInv /\ MarkInv /\ DestinationComplete /\ CancelInv

SlotTypes ==
    /\ pc \in [Slots -> {"idle", "find", "sweep", "act", "rename", "forget", "remove"}]
    /\ op \in [Slots -> Ops \cup {None}]
    /\ up \in [Slots -> Uploads \cup {None}]
    /\ ix \in [Slots -> Chunks \cup {None}]
    /\ todo \in [Slots -> SUBSET Uploads]

-----------------------------------------------------------------------------
(* What moving, answering and accepting a request do to the slots.         *)

LEMMA GotoSlots ==
    ASSUME TypeOK, SlotInv, NEW w \in Slots, pc[w] # "idle",
           NEW where \in {"find", "sweep", "act", "rename", "forget", "remove"},
           Goto(w, where), made' = made
    PROVE  /\ SlotTypes' /\ SlotInv'
           /\ up' = up /\ pc' = [pc EXCEPT ![w] = where]
<1>1. pc' = [pc EXCEPT ![w] = where] /\ UNCHANGED <<op, up, ix, todo>>
  BY DEF Goto
<1>2. SlotTypes'
  BY <1>1 DEF TypeOK, SlotTypes
<1>3. SlotInv'
  BY <1>1 DEF TypeOK, SlotInv
<1>4. QED
  BY <1>1, <1>2, <1>3

LEMMA AnswerSlots ==
    ASSUME TypeOK, SlotInv, NEW w \in Slots, Answer(w), made' = made
    PROVE  /\ SlotTypes' /\ SlotInv'
           /\ \A v \in Slots : pc'[v] # "idle" => v # w /\ pc'[v] = pc[v] /\ up'[v] = up[v]
<1>1. SlotTypes'
  BY DEF Answer, TypeOK, SlotTypes
<1>2. \A v \in Slots \ {w} : /\ pc'[v] = pc[v] /\ up'[v] = up[v]
                             /\ op'[v] = op[v] /\ ix'[v] = ix[v]
  BY DEF Answer, TypeOK
<1>3. pc'[w] = "idle"
  BY DEF Answer, TypeOK
<1>4. SlotInv'
  BY <1>2, <1>3 DEF SlotInv
<1>5. QED
  BY <1>1, <1>2, <1>3, <1>4

LEMMA BeginSlots ==
    ASSUME TypeOK, SlotInv, NEW w \in Slots, NEW o \in Ops, NEW u \in Uploads, u \in made',
           NEW i \in Chunks \cup {None}, o = "chunk" => i \in Chunks,
           NEW where \in {"find", "act"}, Begin(w, o, u, i, where), made \subseteq made'
    PROVE  /\ SlotTypes' /\ SlotInv'
           /\ \A v \in Slots : pc'[v] = "rename" => pc[v] = "rename" /\ up'[v] = up[v]
<1>1. SlotTypes'
  BY DEF Begin, TypeOK, SlotTypes
<1>2. \A v \in Slots \ {w} : /\ pc'[v] = pc[v] /\ up'[v] = up[v]
                             /\ op'[v] = op[v] /\ ix'[v] = ix[v]
  BY DEF Begin, TypeOK
<1>3. pc'[w] = where /\ up'[w] = u /\ op'[w] = o /\ ix'[w] = i
  BY DEF Begin, TypeOK
<1>4. SlotInv'
  BY <1>2, <1>3 DEF SlotInv
<1>5. QED
  BY <1>1, <1>2, <1>3, <1>4

-----------------------------------------------------------------------------
LEMMA InitIInv == Init => IInv
BY UploadAssumption
   DEF Init, IInv, TypeOK, SlotInv, RenameInv, MarkInv, DestinationComplete, CancelInv

\* steps that touch neither files nor marks nor the mutexes of uploads
LEMMA RequestsOnly ==
    ASSUME IInv, SlotTypes', SlotInv',
           known' \in SUBSET Uploads, old' \in SUBSET Uploads, uploadMu' \in Slots \cup {None},
           UNCHANGED <<received, mu, diskVars, removed>>,
           cancelled \subseteq cancelled', cancelled' \subseteq made,
           \A v \in Slots : pc'[v] = "rename" => pc[v] = "rename" /\ up'[v] = up[v]
    PROVE  IInv'
<1>1. TypeOK'
  BY DEF IInv, TypeOK, SlotTypes, diskVars
<1>2. RenameInv'
  BY DEF IInv, RenameInv, diskVars
<1>3. MarkInv' /\ DestinationComplete' /\ CancelInv'
  BY DEF IInv, MarkInv, DestinationComplete, CancelInv, diskVars
<1>4. QED
  BY <1>1, <1>2, <1>3 DEF IInv

\* steps that end the file of an upload whose mutex is free
LEMMA FileGoes ==
    ASSUME IInv, NEW u \in Uploads, mu[u] = None, SlotTypes', SlotInv',
           known' \in SUBSET Uploads, temp' = temp \ {u},
           \/ UNCHANGED history
           \/ cancelled' = cancelled \cup {u} /\ removed' = removed \cup {u} /\ u \in made,
           UNCHANGED <<received, old, uploadMu, mu, made, stored, dest>>,
           \A v \in Slots : pc'[v] = "rename" => pc[v] = "rename" /\ up'[v] = up[v]
    PROVE  IInv'
<1>1. TypeOK'
  BY DEF IInv, TypeOK, SlotTypes, history
<1>2. RenameInv'
  BY UploadAssumption DEF IInv, RenameInv
<1>3. MarkInv' /\ DestinationComplete' /\ CancelInv'
  BY DEF IInv, MarkInv, DestinationComplete, CancelInv, history
<1>4. QED
  BY <1>1, <1>2, <1>3 DEF IInv

LEMMA SlotsFit == TypeOK => SlotTypes
BY DEF TypeOK, SlotTypes

-----------------------------------------------------------------------------
\* a request is accepted
LEMMA AcceptIInv ==
    ASSUME IInv, NEW w \in Slots, Accept(w)
    PROVE  IInv'
<1> USE DEF IInv
<1>1. ASSUME NEW u \in Uploads, CreateBegins(w, u)
      PROVE  IInv'
  <2>1. /\ Begin(w, "create", u, None, "find")
        /\ u \notin made /\ made' = made \cup {u} /\ temp' = temp \cup {u}
        /\ UNCHANGED <<known, received, old, uploadMu, mu, stored, dest, history>>
    BY <1>1 DEF CreateBegins
  <2>2. /\ SlotTypes' /\ SlotInv'
        /\ \A v \in Slots : pc'[v] = "rename" => pc[v] = "rename" /\ up'[v] = up[v]
    BY <2>1, BeginSlots DEF Ops
  <2>3. TypeOK'
    BY <2>1, <2>2 DEF TypeOK, SlotTypes, history
  <2>4. RenameInv'
    BY <2>1, <2>2 DEF RenameInv
  <2>5. MarkInv' /\ DestinationComplete' /\ CancelInv'
    BY <2>1 DEF MarkInv, DestinationComplete, CancelInv, TypeOK, history
  <2>6. QED
    BY <2>2, <2>3, <2>4, <2>5
<1>2. ASSUME NEW u \in Uploads, NEW o \in Ops \ {"create"}, NEW i \in Chunks \cup {None},
             RequestBegins(w, o, u, i)
      PROVE  IInv'
  <2>1. /\ Begin(w, o, u, i, IF o = "cancel" THEN "act" ELSE "find")
        /\ u \in made /\ (o = "chunk" => i \in Chunks)
        /\ UNCHANGED <<known, received, old, uploadMu, mu, diskVars, history>>
    BY <1>2 DEF RequestBegins
  <2>2. PICK where \in {"find", "act"} : Begin(w, o, u, i, where)
    BY <2>1
  <2>3. made' = made
    BY <2>1 DEF diskVars
  <2>4. /\ SlotTypes' /\ SlotInv'
        /\ \A v \in Slots : pc'[v] = "rename" => pc[v] = "rename" /\ up'[v] = up[v]
    BY <2>1, <2>2, <2>3, BeginSlots
  <2>5. QED
    BY <2>1, <2>4, RequestsOnly DEF TypeOK, CancelInv, history
<1>3. QED
  BY <1>1, <1>2 DEF Accept

\* the sweep and the lookup
LEMMA LookupIInv ==
    ASSUME IInv, NEW w \in Slots,
           \/ FindLocks(w) \/ Found(w)
           \/ \E u \in Uploads : Sweep(w, u) \/ SweepFails(w, u)
    PROVE  IInv'
<1> USE DEF IInv
<1>1. CASE FindLocks(w)
  <2>1. /\ pc[w] = "find" /\ pc' = [pc EXCEPT ![w] = "sweep"]
        /\ todo' = [todo EXCEPT ![w] = known]
        /\ UNCHANGED <<op, up, ix, made>>
    BY <1>1 DEF FindLocks, diskVars
  <2>2. SlotTypes'
    BY <2>1 DEF TypeOK, SlotTypes
  <2>3. SlotInv'
    BY <2>1 DEF TypeOK, SlotInv
  <2>4. \A v \in Slots : pc'[v] = "rename" => pc[v] = "rename" /\ up'[v] = up[v]
    BY <2>1 DEF TypeOK
  <2>5. QED
    BY <1>1, <2>2, <2>3, <2>4, RequestsOnly DEF FindLocks, TypeOK, CancelInv, history
<1>2. CASE Found(w)
  <2>1. /\ pc[w] = "sweep" /\ uploadMu' = None
        /\ UNCHANGED <<received, old, mu, diskVars, history>> /\ made' = made
    BY <1>2 DEF Found, diskVars
  <2>2. /\ known' \in SUBSET Uploads
        /\ Answer(w) \/ Goto(w, "act")
    BY <1>2, <2>1 DEF Found, TypeOK, SlotInv
  <2>3. /\ SlotTypes' /\ SlotInv'
        /\ \A v \in Slots : pc'[v] = "rename" => pc[v] = "rename" /\ up'[v] = up[v]
    <3>1. CASE Answer(w)
      BY <2>1, <3>1, AnswerSlots
    <3>2. CASE Goto(w, "act")
      <4>1. /\ SlotTypes' /\ SlotInv'
            /\ up' = up /\ pc' = [pc EXCEPT ![w] = "act"]
        BY <2>1, <3>2, GotoSlots
      <4>2. QED
        BY <4>1 DEF TypeOK
    <3>3. QED
      BY <2>2, <3>1, <3>2
  <2>4. QED
    BY <2>1, <2>2, <2>3, RequestsOnly DEF TypeOK, CancelInv, history
<1>3. ASSUME NEW u \in Uploads, Sweep(w, u) \/ SweepFails(w, u)
      PROVE  IInv'
  <2>1. /\ todo' = [todo EXCEPT ![w] = @ \ {u}]
        /\ UNCHANGED <<pc, op, up, ix, made, received, old, uploadMu, mu, stored, dest, history>>
        /\ mu[u] = None
    BY <1>3 DEF Sweep, SweepFails, diskVars
  <2>2. SlotTypes'
    BY <2>1 DEF TypeOK, SlotTypes
  <2>3. SlotInv'
    BY <2>1 DEF SlotInv
  <2>4. known' \in SUBSET Uploads
    BY <1>3 DEF Sweep, SweepFails, TypeOK
  <2>5. temp' = temp \/ temp' = temp \ {u}
    BY <1>3 DEF Sweep, SweepFails, diskVars, TypeOK
  <2>6. CASE temp' = temp
    BY <2>1, <2>2, <2>3, <2>4, <2>6, RequestsOnly DEF diskVars, TypeOK, CancelInv, history
  <2>7. CASE temp' = temp \ {u}
    BY <2>1, <2>2, <2>3, <2>4, <2>7, FileGoes
  <2>8. QED
    BY <2>5, <2>6, <2>7
<1>4. QED
  BY <1>1, <1>2, <1>3

-----------------------------------------------------------------------------
\* the steps that answer a request and leave the mutexes of the uploads alone
LEMMA AnswersIInv ==
    ASSUME IInv, NEW w \in Slots,
           \/ Status(w) \/ ChunkFails(w) \/ CompleteForgets(w) \/ CancelFails(w)
           \/ CancelForgets(w) \/ CancelRemoves(w)
    PROVE  IInv'
<1> USE DEF IInv
<1>1. made' = made /\ pc[w] # "idle" /\ up[w] \in made
  BY DEF Status, ChunkFails, CompleteForgets, CancelFails, CancelForgets, CancelRemoves,
         diskVars, SlotInv
<1>2. Answer(w) \/ Goto(w, "remove")
  BY DEF Status, ChunkFails, CompleteForgets, CancelFails, CancelForgets, CancelRemoves
<1>3. /\ SlotTypes' /\ SlotInv'
      /\ \A v \in Slots : pc'[v] = "rename" => pc[v] = "rename" /\ up'[v] = up[v]
  <2>1. CASE Answer(w)
    BY <1>1, <2>1, AnswerSlots
  <2>2. CASE Goto(w, "remove")
    <3>1. /\ SlotTypes' /\ SlotInv'
          /\ up' = up /\ pc' = [pc EXCEPT ![w] = "remove"]
      BY <1>1, <2>2, GotoSlots
    <3>2. QED
      BY <3>1 DEF TypeOK
  <2>3. QED
    BY <1>2, <2>1, <2>2
<1>4. CASE CancelRemoves(w)
  <2>1. /\ mu[up[w]] = None /\ temp' = temp \ {up[w]}
        /\ cancelled' = cancelled \cup {up[w]} /\ removed' = removed \cup {up[w]}
        /\ UNCHANGED <<known, received, old, uploadMu, mu, made, stored, dest>>
    BY <1>4 DEF CancelRemoves
  <2>2. up[w] \in Uploads
    BY <1>1 DEF TypeOK
  <2>3. known' \in SUBSET Uploads
    BY <2>1 DEF TypeOK
  <2>4. QED
    BY <1>1, <1>3, <2>1, <2>2, <2>3, FileGoes
<1>5. CASE ~CancelRemoves(w)
  <2>1. /\ known' \in SUBSET Uploads /\ old' \in SUBSET Uploads
        /\ UNCHANGED <<uploadMu, received, mu, diskVars, removed>>
        /\ cancelled \subseteq cancelled' /\ cancelled' \subseteq made
    BY <1>1, <1>5 DEF Status, ChunkFails, CompleteForgets, CancelFails, CancelForgets, TypeOK,
                      CancelInv, history
  <2>2. uploadMu' \in Slots \cup {None}
    BY <2>1 DEF TypeOK
  <2>3. QED
    BY <1>3, <2>1, <2>2, RequestsOnly
<1>6. QED
  BY <1>4, <1>5

LEMMA ChunkStoredIInv ==
    ASSUME IInv, NEW w \in Slots, ChunkStored(w)
    PROVE  IInv'
<1> USE DEF IInv
<1>1. /\ pc[w] = "act" /\ op[w] = "chunk" /\ Answer(w)
      /\ UNCHANGED <<known, uploadMu, mu, made, temp, dest, history>>
  BY DEF ChunkStored
<1>2. up[w] \in Uploads /\ ix[w] \in Chunks
  BY <1>1 DEF SlotInv, TypeOK
<1>3. /\ SlotTypes' /\ SlotInv'
      /\ \A v \in Slots : pc'[v] # "idle" => v # w /\ pc'[v] = pc[v] /\ up'[v] = up[v]
  BY <1>1, AnswerSlots
<1>4. CASE up[w] \notin temp
  <2>1. UNCHANGED <<stored, received, old>>
    BY <1>4 DEF ChunkStored
  <2>2. QED
    BY <1>1, <1>3, <2>1, RequestsOnly DEF diskVars, TypeOK, CancelInv, history
<1>5. CASE up[w] \in temp
  <2>1. /\ stored' = [stored EXCEPT ![up[w]] = @ \cup {ix[w]}]
        /\ received' = [received EXCEPT ![up[w]] = @ \cup {ix[w]}]
        /\ old' = old \ {up[w]}
    BY <1>5 DEF ChunkStored
  <2>2. \A u \in Uploads : /\ stored[u] \subseteq stored'[u] /\ stored'[u] \subseteq Chunks
                           /\ received'[u] \subseteq stored'[u]
    BY <1>2, <2>1 DEF TypeOK, MarkInv
  <2>3. /\ stored' \in [Uploads -> SUBSET Chunks]
        /\ received' \in [Uploads -> SUBSET Chunks]
    BY <1>2, <2>1 DEF TypeOK
  <2>4. TypeOK'
    BY <1>1, <1>3, <2>1, <2>3 DEF TypeOK, SlotTypes, history
  <2>5. RenameInv'
    <3> SUFFICES ASSUME NEW v \in Slots, pc'[v] = "rename"
                 PROVE  /\ mu'[up'[v]] = v /\ up'[v] \in temp' /\ stored'[up'[v]] = Chunks
      BY DEF RenameInv
    <3>1. /\ pc[v] = "rename" /\ up'[v] = up[v]
      BY <1>3
    <3>2. mu[up[v]] = v /\ up[v] \in temp /\ stored[up[v]] = Chunks
      BY <3>1 DEF RenameInv
    <3>3. up[v] \in Uploads
      BY <3>2 DEF TypeOK
    <3>4. QED
      BY <1>1, <2>2, <3>1, <3>2, <3>3
  <2>6. MarkInv' /\ CancelInv'
    BY <1>1, <2>2 DEF MarkInv, CancelInv, history
  <2>7. DestinationComplete'
    BY <1>1, <2>2 DEF DestinationComplete, TypeOK
  <2>8. QED
    BY <1>3, <2>4, <2>5, <2>6, <2>7
<1>6. QED
  BY <1>4, <1>5

\* a completion takes the mutex of its upload, renames the file or gives up
LEMMA CompleteIInv ==
    ASSUME IInv, NEW w \in Slots,
           CompleteChecks(w) \/ CompleteRenames(w) \/ CompleteFails(w)
    PROVE  IInv'
<1> USE DEF IInv
<1>1. /\ pc[w] # "idle" /\ made' = made
      /\ UNCHANGED <<known, received, old, uploadMu, stored, history>>
  BY DEF CompleteChecks, CompleteRenames, CompleteFails, diskVars
<1>2. up[w] \in made /\ up[w] \in Uploads
  BY <1>1 DEF SlotInv, TypeOK
<1>3. MarkInv'
  BY <1>1 DEF MarkInv
<1>4. CASE CompleteChecks(w) /\ Answer(w) /\ UNCHANGED mu
  <2>1. UNCHANGED <<diskVars, cancelled, received, mu>>
    BY <1>4 DEF CompleteChecks, diskVars, history
  <2>2. /\ SlotTypes' /\ SlotInv'
        /\ \A v \in Slots : pc'[v] = "rename" => pc[v] = "rename" /\ up'[v] = up[v]
    BY <1>1, <1>4, AnswerSlots
  <2>3. QED
    BY <1>1, <2>1, <2>2, RequestsOnly DEF TypeOK, CancelInv, history
<1>5. CASE /\ CompleteChecks(w) /\ received[up[w]] = Chunks /\ dest = None /\ up[w] \in temp
           /\ mu' = [mu EXCEPT ![up[w]] = w] /\ Goto(w, "rename")
  <2>1. UNCHANGED <<temp, dest>> /\ mu[up[w]] = None
    BY <1>5 DEF CompleteChecks, diskVars
  <2>2. SlotTypes' /\ SlotInv' /\ up' = up /\ pc' = [pc EXCEPT ![w] = "rename"]
    BY <1>1, <1>5, GotoSlots
  <2>3. mu' \in [Uploads -> Slots \cup {None}]
    BY <1>5 DEF TypeOK
  <2>4. TypeOK'
    BY <1>1, <2>1, <2>2, <2>3 DEF TypeOK, SlotTypes, history
  <2>5. stored[up[w]] = Chunks
    <3>1. received[up[w]] \subseteq stored[up[w]] /\ stored[up[w]] \in SUBSET Chunks
      BY <1>2 DEF MarkInv, TypeOK
    <3>2. QED
      BY <1>5, <3>1
  <2>6. RenameInv'
    <3> SUFFICES ASSUME NEW v \in Slots, pc'[v] = "rename"
                 PROVE  /\ mu'[up'[v]] = v /\ up'[v] \in temp' /\ stored'[up'[v]] = Chunks
      BY DEF RenameInv
    <3>1. CASE v = w
      BY <1>1, <1>2, <1>5, <2>1, <2>2, <2>5, <3>1 DEF TypeOK
    <3>2. CASE v # w
      <4>1. pc[v] = "rename"
        BY <2>2, <3>2 DEF TypeOK
      <4>2. mu[up[v]] = v /\ up[v] \in temp /\ stored[up[v]] = Chunks
        BY <4>1 DEF RenameInv
      <4>3. up[v] # up[w]
        BY <2>1, <4>2, UploadAssumption
      <4>4. mu'[up[v]] = mu[up[v]]
        BY <1>5, <4>2, <4>3 DEF TypeOK
      <4>5. QED
        BY <1>1, <2>1, <2>2, <4>2, <4>4
    <3>3. QED
      BY <3>1, <3>2
  <2>7. DestinationComplete' /\ CancelInv'
    BY <1>1, <2>1 DEF DestinationComplete, CancelInv, history
  <2>8. QED
    BY <1>3, <2>2, <2>4, <2>6, <2>7
<1>6. CASE CompleteRenames(w) \/ CompleteFails(w)
  <2>1. /\ pc[w] = "rename" /\ mu' = [mu EXCEPT ![up[w]] = None]
        /\ Answer(w) \/ Goto(w, "forget")
        /\ \/ UNCHANGED <<temp, dest>>
           \/ dest' = up[w] /\ temp' = temp \ {up[w]}
    BY <1>6 DEF CompleteRenames, CompleteFails, diskVars
  <2>2. /\ SlotTypes' /\ SlotInv'
        /\ \A v \in Slots : pc'[v] = "rename" =>
                                v # w /\ pc[v] = "rename" /\ up'[v] = up[v]
    <3>1. CASE Answer(w)
      BY <1>1, <3>1, AnswerSlots
    <3>2. CASE Goto(w, "forget")
      <4>1. SlotTypes' /\ SlotInv' /\ up' = up /\ pc' = [pc EXCEPT ![w] = "forget"]
        BY <1>1, <3>2, GotoSlots
      <4>2. QED
        BY <4>1 DEF TypeOK
    <3>3. QED
      BY <2>1, <3>1, <3>2
  <2>3. mu[up[w]] = w /\ up[w] \in temp /\ stored[up[w]] = Chunks
    BY <2>1 DEF RenameInv
  <2>4. /\ mu' \in [Uploads -> Slots \cup {None}] /\ temp' \subseteq temp
        /\ dest' \in Uploads \cup {None}
    BY <1>2, <2>1 DEF TypeOK
  <2>5. TypeOK'
    BY <1>1, <2>2, <2>4 DEF TypeOK, SlotTypes, history
  <2>6. RenameInv'
    <3> SUFFICES ASSUME NEW v \in Slots, pc'[v] = "rename"
                 PROVE  /\ mu'[up'[v]] = v /\ up'[v] \in temp' /\ stored'[up'[v]] = Chunks
      BY DEF RenameInv
    <3>1. v # w /\ pc[v] = "rename" /\ up'[v] = up[v]
      BY <2>2
    <3>2. mu[up[v]] = v /\ up[v] \in temp /\ stored[up[v]] = Chunks
      BY <3>1 DEF RenameInv
    <3>3. up[v] # up[w]
      BY <2>3, <3>1, <3>2
    <3>4. mu'[up[v]] = mu[up[v]] /\ up[v] \in temp'
      BY <2>1, <3>2, <3>3 DEF TypeOK
    <3>5. QED
      BY <1>1, <3>1, <3>2, <3>4
  <2>7. DestinationComplete' /\ CancelInv'
    BY <1>1, <2>1, <2>3, <2>4 DEF DestinationComplete, CancelInv, history
  <2>8. QED
    BY <1>3, <2>2, <2>5, <2>6, <2>7
<1>7. QED
  BY <1>4, <1>5, <1>6 DEF CompleteChecks

LEMMA AgesIInv ==
    ASSUME IInv, NEW u \in Uploads, Ages(u)
    PROVE  IInv'
BY DEF Ages, IInv, TypeOK, SlotInv, RenameInv, MarkInv, DestinationComplete, CancelInv,
       diskVars, slotVars, history

LEMMA RestartIInv ==
    ASSUME IInv, Restart
    PROVE  IInv'
<1>1. TypeOK'
  BY DEF Restart, IInv, TypeOK, diskVars, history
<1>2. SlotInv' /\ RenameInv'
  BY DEF Restart, SlotInv, RenameInv
<1>3. MarkInv' /\ DestinationComplete' /\ CancelInv'
  BY DEF Restart, IInv, TypeOK, MarkInv, DestinationComplete, CancelInv, diskVars, history
<1>4. QED
  BY <1>1, <1>2, <1>3 DEF IInv

LEMMA NextIInv == IInv /\ [Next]_vars => IInv'
<1> SUFFICES ASSUME IInv, [Next]_vars PROVE IInv'
  OBVIOUS
<1>1. ASSUME NEW w \in Slots, Accept(w) PROVE IInv'
  BY <1>1, AcceptIInv
<1>2. ASSUME NEW w \in Slots, Serve(w) PROVE IInv'
  BY <1>2, LookupIInv, AnswersIInv, ChunkStoredIInv, CompleteIInv DEF Serve
<1>3. ASSUME NEW u \in Uploads, Ages(u) PROVE IInv'
  BY <1>3, AgesIInv
<1>4. CASE Restart
  BY <1>4, RestartIInv
<1>5. CASE UNCHANGED vars
  BY <1>5 DEF vars, IInv, TypeOK, SlotInv, RenameInv, MarkInv, DestinationComplete, CancelInv,
              diskVars, slotVars, history
<1>6. QED
  BY <1>1, <1>2, <1>3, <1>4, <1>5 DEF Next

LEMMA Inductive == Spec => []IInv
BY InitIInv, NextIInv, PTL DEF Spec

-----------------------------------------------------------------------------
\* Type correctness of upload.go, for any number of requests, uploads and chunks.
THEOREM TypeCorrect == Spec => []TypeOK
<1>1. IInv => TypeOK
  BY DEF IInv
<1>2. QED
  BY <1>1, Inductive, PTL

\* The file that completeChunkUpload moved to the destination holds every chunk.
THEOREM DestinationCorrect == Spec => []DestinationComplete
<1>1. IInv => DestinationComplete
  BY DEF IInv
<1>2. QED
  BY <1>1, Inductive, PTL

\* The handlers of upload.go implement the store: a chunk goes to a file that exists, only a
\* whole file is published, and one that was dropped never is, over failures and restarts.
THEOREM StoreCorrect == Spec => ImplementsStore
<1>1. Init => Store!Init
  BY DEF Init, Store!Init
<1>2. IInv /\ [Next]_vars => [Store!Next]_(Store!vars)
  <2> SUFFICES ASSUME IInv, Next PROVE Store!Next \/ UNCHANGED diskVars
    BY DEF vars, diskVars, Store!vars
  <2> USE DEF Store!Next
  <2>1. ASSUME NEW w \in Slots, NEW u \in Uploads, CreateBegins(w, u)
        PROVE  Store!Create(u)
    BY <2>1 DEF CreateBegins, Store!Create
  <2>2. ASSUME NEW w \in Slots, ChunkStored(w)
        PROVE  Store!Next \/ UNCHANGED diskVars
    <3>1. up[w] \in Uploads /\ ix[w] \in Chunks
      BY <2>2 DEF ChunkStored, IInv, SlotInv, TypeOK
    <3>2. CASE up[w] \in temp
      <4>1. Store!Add(up[w], ix[w])
        BY <2>2, <3>2 DEF ChunkStored, Store!Add
      <4>2. QED
        BY <3>1, <4>1
    <3>3. CASE up[w] \notin temp
      BY <2>2, <3>3 DEF ChunkStored, diskVars
    <3>4. QED
      BY <3>2, <3>3
  <2>3. ASSUME NEW w \in Slots, CompleteRenames(w)
        PROVE  Store!Next
    <3>1. up[w] \in temp /\ stored[up[w]] = Chunks /\ up[w] \in Uploads
      BY <2>3 DEF CompleteRenames, IInv, RenameInv, TypeOK
    <3>2. Store!Publish(up[w])
      BY <2>3, <3>1 DEF CompleteRenames, Store!Publish
    <3>3. QED
      BY <3>1, <3>2
  <2>4. ASSUME NEW u \in Uploads, temp' = temp \ {u}, UNCHANGED <<made, stored, dest>>
        PROVE  Store!Next \/ UNCHANGED diskVars
    <3>1. CASE u \in temp
      BY <2>4, <3>1 DEF Store!Drop
    <3>2. CASE u \notin temp
      BY <2>4, <3>2 DEF diskVars
    <3>3. QED
      BY <3>1, <3>2
  <2>5. ASSUME NEW w \in Slots, NEW u \in Uploads, Sweep(w, u)
        PROVE  Store!Next \/ UNCHANGED diskVars
    <3>1. temp' = temp \ {u} \/ temp' = temp
      BY <2>5 DEF Sweep
    <3>2. QED
      BY <2>4, <2>5, <3>1 DEF Sweep, diskVars
  <2>6. ASSUME NEW w \in Slots, CancelRemoves(w)
        PROVE  Store!Next \/ UNCHANGED diskVars
    <3>1. up[w] \in Uploads
      BY <2>6 DEF CancelRemoves, IInv, SlotInv, TypeOK
    <3>2. QED
      BY <2>4, <2>6, <3>1 DEF CancelRemoves
  <2>7. \/ UNCHANGED diskVars
        \/ \E w \in Slots : \/ \E u \in Uploads : CreateBegins(w, u) \/ Sweep(w, u)
                            \/ ChunkStored(w) \/ CompleteRenames(w) \/ CancelRemoves(w)
    BY DEF Next, Accept, Serve, RequestBegins, FindLocks, SweepFails, Found, Status, ChunkFails,
           CompleteChecks, CompleteFails, CompleteForgets, CancelForgets, CancelFails, Ages,
           Restart
  <2>8. QED
    BY <2>1, <2>2, <2>3, <2>5, <2>6, <2>7
<1>3. QED
  BY <1>1, <1>2, Inductive, PTL DEF Spec, ImplementsStore, Store!Spec

-----------------------------------------------------------------------------
(* Why no temporary file is lost.                                          *)

\* where the requests that own a file are, and that a completion forgets only a file that moved
OwnerInv ==
    \A w \in Slots :
        /\ op[w] = "create" => pc[w] \in {"find", "sweep"}
        /\ pc[w] = "forget" => up[w] \notin temp

\* the slots that a step leaves alone keep what OwnerInv says of them
LEMMA OthersOwn ==
    ASSUME IInv, OwnerInv, NEW w \in Slots,
           \A v \in Slots \ {w} : pc'[v] = pc[v] /\ op'[v] = op[v] /\ up'[v] = up[v],
           \A u \in made : u \in temp' => u \in temp,
           op'[w] = "create" => pc'[w] \in {"find", "sweep"},
           pc'[w] = "forget" => up'[w] \notin temp'
    PROVE  OwnerInv'
<1> SUFFICES ASSUME NEW v \in Slots, v # w
             PROVE  /\ op'[v] = "create" => pc'[v] \in {"find", "sweep"}
                    /\ pc'[v] = "forget" => up'[v] \notin temp'
  BY DEF OwnerInv
<1>1. pc[v] = "forget" => up[v] \notin temp /\ up[v] \in made
  BY DEF OwnerInv, IInv, SlotInv
<1>2. QED
  BY <1>1 DEF OwnerInv

LEMMA OwnerKept == IInv /\ OwnerInv /\ [Next]_vars => OwnerInv'
<1> SUFFICES ASSUME IInv, OwnerInv, [Next]_vars PROVE OwnerInv'
  OBVIOUS
<1> USE DEF IInv
<1>1. ASSUME NEW w \in Slots, NEW u \in Uploads, CreateBegins(w, u) PROVE OwnerInv'
  <2>1. /\ \A v \in Slots \ {w} : pc'[v] = pc[v] /\ op'[v] = op[v] /\ up'[v] = up[v]
        /\ pc'[w] = "find"
        /\ \A t \in made : t \in temp' => t \in temp
    BY <1>1 DEF CreateBegins, Begin, TypeOK
  <2>2. QED
    BY <2>1, OthersOwn
<1>2. ASSUME NEW w \in Slots, NEW u \in Uploads, NEW o \in Ops \ {"create"},
             NEW i \in Chunks \cup {None}, RequestBegins(w, o, u, i)
      PROVE  OwnerInv'
  <2>1. /\ \A v \in Slots \ {w} : pc'[v] = pc[v] /\ op'[v] = op[v] /\ up'[v] = up[v]
        /\ pc'[w] \in {"find", "act"} /\ op'[w] = o /\ temp' = temp
    BY <1>2 DEF RequestBegins, Begin, TypeOK, diskVars
  <2>2. QED
    BY <2>1, OthersOwn
<1>3. ASSUME NEW w \in Slots, Serve(w) PROVE OwnerInv'
  <2>1. \A u \in made : u \in temp' => u \in temp
    BY <1>3 DEF Serve, FindLocks, Sweep, SweepFails, Found, Status, ChunkStored, ChunkFails,
                CompleteChecks, CompleteRenames, CompleteFails, CompleteForgets, CancelForgets,
                CancelRemoves, CancelFails, diskVars
  <2>2. CASE Answer(w)
    <3>1. /\ \A v \in Slots \ {w} : pc'[v] = pc[v] /\ op'[v] = op[v] /\ up'[v] = up[v]
          /\ pc'[w] = "idle" /\ op'[w] = None
      BY <2>2 DEF Answer, TypeOK
    <3>2. op'[w] # "create"
      BY <3>1, UploadAssumption DEF Ops
    <3>3. QED
      BY <2>1, <3>1, <3>2, OthersOwn
  <2>3. CASE ~Answer(w)
    <3>1. \A v \in Slots \ {w} : pc'[v] = pc[v] /\ op'[v] = op[v] /\ up'[v] = up[v]
      BY <1>3, <2>3 DEF Serve, FindLocks, Sweep, SweepFails, Found, Status, ChunkStored, ChunkFails,
                CompleteChecks, CompleteRenames, CompleteFails, CompleteForgets, CancelForgets,
                CancelRemoves, CancelFails, Goto, TypeOK
    <3>2. op' = op /\ up' = up
      BY <1>3, <2>3 DEF Serve, FindLocks, Sweep, SweepFails, Found, Status, ChunkStored, ChunkFails,
                CompleteChecks, CompleteRenames, CompleteFails, CompleteForgets, CancelForgets,
                CancelRemoves, CancelFails, Goto
    <3>3. op[w] = "create" => pc'[w] \in {"find", "sweep"}
      BY <1>3, <2>3 DEF Serve, FindLocks, Sweep, SweepFails, Found, Status, ChunkStored, ChunkFails,
                CompleteChecks, CompleteRenames, CompleteFails, CompleteForgets, CancelForgets,
                CancelRemoves, CancelFails, Goto, TypeOK, OwnerInv
    <3>4. pc'[w] = "forget" => up[w] \notin temp'
      BY <1>3, <2>3 DEF Serve, FindLocks, Sweep, SweepFails, Found, Status, ChunkStored, ChunkFails,
                CompleteChecks, CompleteRenames, CompleteFails, CompleteForgets, CancelForgets,
                CancelRemoves, CancelFails, Goto, TypeOK
    <3>5. QED
      BY <2>1, <3>1, <3>2, <3>3, <3>4, OthersOwn
  <2>4. QED
    BY <2>2, <2>3
<1>4. CASE Restart
  BY <1>4, UploadAssumption DEF Restart, OwnerInv, Ops
<1>5. CASE UNCHANGED vars \/ \E u \in Uploads : Ages(u)
  BY <1>5 DEF Ages, OwnerInv, vars, slotVars, diskVars
<1>6. QED
  BY <1>1, <1>2, <1>3, <1>4, <1>5 DEF Next, Accept

LEMMA OwnerAlways == Spec => [](IInv /\ OwnerInv)
<1>1. Init => IInv /\ OwnerInv
  BY InitIInv, UploadAssumption DEF Init, OwnerInv, Ops
<1>2. IInv /\ OwnerInv /\ [Next]_vars => (IInv /\ OwnerInv)'
  BY NextIInv, OwnerKept
<1>3. QED
  BY <1>1, <1>2, PTL DEF Spec

\* No race of chunks, completions, cancellations and sweeps ever loses the temporary file of an
\* upload: only a restart or a failed removal leaves one without somebody who will remove it.
THEOREM TemporaryCorrect == Spec => TemporaryOwned
<1> DEFINE A == \A u \in temp' :
                  \/ Owned(u)'
                  \/ u \in temp /\ ~Owned(u)
                  \/ Restart \/ \E w \in Slots : CancelFails(w) \/ SweepFails(w, u)
<1>1. IInv /\ OwnerInv /\ [Next]_vars => [A]_vars
  <2> SUFFICES ASSUME IInv, OwnerInv, Next, NEW u \in temp', ~Restart,
                      u \in temp => Owned(u),
                      ~ \E w \in Slots : CancelFails(w) \/ SweepFails(w, u)
               PROVE  Owned(u)'
    OBVIOUS
  <2> USE DEF IInv
  <2>1. ASSUME NEW w \in Slots, NEW t \in Uploads, CreateBegins(w, t) PROVE Owned(u)'
    <3>1. /\ pc[w] = "idle" /\ known' = known /\ temp' = temp \cup {t}
          /\ \A v \in Slots \ {w} : pc'[v] = pc[v] /\ op'[v] = op[v] /\ up'[v] = up[v]
          /\ up'[w] = t /\ op'[w] = "create"
      BY <2>1 DEF CreateBegins, Begin, TypeOK
    <3>2. \A v \in Slots : op[v] = "create" \/ pc[v] = "remove" => v # w
      BY <3>1 DEF OwnerInv
    <3>3. CASE u = t
      BY <3>1, <3>3 DEF Owned
    <3>4. CASE u # t
      BY <3>1, <3>2, <3>4 DEF Owned
    <3>5. QED
      BY <3>3, <3>4
  <2>2. ASSUME NEW w \in Slots, NEW t \in Uploads, NEW o \in Ops \ {"create"},
               NEW i \in Chunks \cup {None}, RequestBegins(w, o, t, i)
        PROVE  Owned(u)'
    <3>1. /\ pc[w] = "idle" /\ known' = known /\ temp' = temp
          /\ \A v \in Slots \ {w} : pc'[v] = pc[v] /\ op'[v] = op[v] /\ up'[v] = up[v]
      BY <2>2 DEF RequestBegins, Begin, TypeOK, diskVars
    <3>2. \A v \in Slots : op[v] = "create" \/ pc[v] = "remove" => v # w
      BY <3>1 DEF OwnerInv
    <3>3. QED
      BY <3>1, <3>2 DEF Owned
  <2>3. ASSUME NEW w \in Slots, Serve(w) PROVE Owned(u)'
    <3>1. Owned(u)
      BY <2>3 DEF Serve, FindLocks, Sweep, SweepFails, Found, Status, ChunkStored, ChunkFails,
                  CompleteChecks, CompleteRenames, CompleteFails, CompleteForgets,
                  CancelForgets, CancelRemoves, CancelFails, diskVars
    <3>2. \A v \in Slots \ {w} : pc'[v] = pc[v] /\ op'[v] = op[v] /\ up'[v] = up[v]
      BY <2>3 DEF Serve, FindLocks, Sweep, SweepFails, Found, Status, ChunkStored, ChunkFails,
                  CompleteChecks, CompleteRenames, CompleteFails, CompleteForgets,
                  CancelForgets, CancelRemoves, CancelFails, Goto, Answer, TypeOK
    <3>3. CASE u \in known
      <4>1. CASE \E t \in Uploads : Sweep(w, t) \/ SweepFails(w, t)
        BY <3>3, <4>1 DEF Sweep, SweepFails, Owned
      <4>2. CASE CompleteForgets(w)
        BY <3>3, <4>2 DEF CompleteForgets, OwnerInv, Owned, diskVars
      <4>3. CASE CancelForgets(w)
        <5>1. CASE u = up[w]
          <6>1. pc'[w] = "remove" /\ up'[w] = u
            BY <3>3, <4>3, <5>1 DEF CancelForgets, Goto, TypeOK
          <6>2. QED
            BY <6>1 DEF Owned
        <5>2. CASE u # up[w]
          BY <3>3, <4>3, <5>2 DEF CancelForgets, Owned
        <5>3. QED
          BY <5>1, <5>2
      <4>4. CASE Found(w)
        BY <3>3, <4>4 DEF Found, Owned
      <4>5. QED
        BY <2>3, <3>3, <4>1, <4>2, <4>3, <4>4
           DEF Serve, FindLocks, Status, ChunkStored, ChunkFails, CompleteChecks,
               CompleteRenames, CompleteFails, CancelRemoves, CancelFails, Owned
    <3>4. CASE u \notin known
      <4>1. PICK v \in Slots : up[v] = u /\ (op[v] = "create" \/ pc[v] = "remove")
        BY <3>1, <3>4 DEF Owned
      <4>2. CASE v # w
        BY <3>2, <4>1, <4>2 DEF Owned
      <4>3. CASE v = w /\ op[w] = "create"
        <5>1. pc[w] \in {"find", "sweep"}
          BY <4>3 DEF OwnerInv
        <5>2. CASE Found(w)
          BY <4>1, <4>3, <5>2 DEF Found, Owned
        <5>3. CASE FindLocks(w) \/ \E t \in Uploads : Sweep(w, t) \/ SweepFails(w, t)
          BY <4>1, <4>3, <5>3 DEF FindLocks, Sweep, SweepFails, Owned
        <5>4. QED
          BY <2>3, <5>1, <5>2, <5>3
             DEF Serve, Status, ChunkStored, ChunkFails, CompleteChecks, CompleteRenames,
                 CompleteFails, CompleteForgets, CancelForgets, CancelRemoves, CancelFails
      <4>4. CASE v = w /\ pc[w] = "remove"
        <5>1. CancelRemoves(w)
          BY <2>3, <4>4
             DEF Serve, FindLocks, Sweep, SweepFails, Found, Status, ChunkStored, ChunkFails,
                 CompleteChecks, CompleteRenames, CompleteFails, CompleteForgets, CancelForgets
        <5>2. QED
          BY <4>1, <4>4, <5>1 DEF CancelRemoves
      <4>5. QED
        BY <4>1, <4>2, <4>3, <4>4
    <3>5. QED
      BY <3>3, <3>4
  <2>4. ASSUME NEW t \in Uploads, Ages(t) PROVE Owned(u)'
    BY <2>4 DEF Ages, Owned, slotVars, diskVars
  <2>5. QED
    BY <2>1, <2>2, <2>3, <2>4 DEF Next, Accept
<1>2. QED
  BY <1>1, OwnerAlways, PTL DEF Spec, TemporaryOwned

-----------------------------------------------------------------------------
(* Why a cancellation is final.                                            *)

\* an upload that was cancelled is out of the map and does not get back into it: no other request
\* names an upload whose creation is not answered
MapInv ==
    /\ cancelled \cap known = {}
    /\ \A w \in Slots : pc[w] = "remove" => up[w] \notin known
    /\ \A w \in Slots : op[w] = "create" =>
           /\ up[w] \notin cancelled
           /\ \A v \in Slots : pc[v] # "idle" /\ op[v] # "create" => up[v] # up[w]

\* the step of a request that puts no upload in the map
LEMMA ServeKeepsMap ==
    ASSUME MapInv, NEW w \in Slots, pc[w] # "idle",
           \A v \in Slots \ {w} : pc'[v] = pc[v] /\ op'[v] = op[v] /\ up'[v] = up[v],
           \/ pc'[w] = "idle" /\ op'[w] # "create"
           \/ op'[w] = op[w] /\ up'[w] = up[w],
           known' \subseteq known,
           pc'[w] = "remove" => up'[w] \notin known',
           \/ cancelled' = cancelled
           \/ /\ cancelled' = cancelled \cup {up[w]}
              /\ op[w] # "create" /\ up[w] \notin known'
    PROVE  MapInv'
<1>1. cancelled' \cap known' = {}
  BY DEF MapInv
<1>2. \A v \in Slots : pc'[v] = "remove" => up'[v] \notin known'
  BY DEF MapInv
<1>3. ASSUME NEW v \in Slots, op'[v] = "create"
      PROVE  /\ up'[v] \notin cancelled'
             /\ \A x \in Slots : pc'[x] # "idle" /\ op'[x] # "create" => up'[x] # up'[v]
  <2>1. CASE v = w /\ pc'[w] = "idle" /\ op'[w] # "create"
    BY <1>3, <2>1
  <2>2. CASE op[v] = "create" /\ up'[v] = up[v]
    <3>1. /\ up[v] \notin cancelled
          /\ \A x \in Slots : pc[x] # "idle" /\ op[x] # "create" => up[x] # up[v]
      BY <2>2 DEF MapInv
    <3>2. up'[v] \notin cancelled'
      BY <2>2, <3>1
    <3>3. \A x \in Slots : pc'[x] # "idle" /\ op'[x] # "create" =>
              pc[x] # "idle" /\ op[x] # "create" /\ up'[x] = up[x]
      OBVIOUS
    <3>4. QED
      BY <2>2, <3>1, <3>2, <3>3
  <2>3. QED
    BY <1>3, <2>1, <2>2
<1>4. QED
  BY <1>1, <1>2, <1>3 DEF MapInv

LEMMA MapKept == IInv /\ OwnerInv /\ MapInv /\ [Next]_vars => MapInv'
<1> SUFFICES ASSUME IInv, OwnerInv, MapInv, [Next]_vars PROVE MapInv'
  OBVIOUS
<1> USE DEF IInv
<1>1. ASSUME NEW w \in Slots, NEW u \in Uploads, CreateBegins(w, u) PROVE MapInv'
  <2>1. /\ \A v \in Slots \ {w} : pc'[v] = pc[v] /\ op'[v] = op[v] /\ up'[v] = up[v]
        /\ pc'[w] = "find" /\ op'[w] = "create" /\ up'[w] = u /\ u \notin made
        /\ known' = known /\ cancelled' = cancelled
    BY <1>1 DEF CreateBegins, Begin, TypeOK, history
  <2>2. u \notin cancelled /\ \A v \in Slots : pc[v] # "idle" => up[v] # u
    BY <2>1 DEF CancelInv, SlotInv
  <2>3. \A v \in Slots : op[v] = "create" => pc[v] # "idle"
    BY DEF OwnerInv
  <2>4. QED
    BY <2>1, <2>2, <2>3 DEF MapInv
<1>2. ASSUME NEW w \in Slots, NEW u \in Uploads, NEW o \in Ops \ {"create"},
             NEW i \in Chunks \cup {None}, RequestBegins(w, o, u, i)
      PROVE  MapInv'
  <2>1. /\ \A v \in Slots \ {w} : pc'[v] = pc[v] /\ op'[v] = op[v] /\ up'[v] = up[v]
        /\ pc'[w] \in {"find", "act"} /\ op'[w] # "create" /\ up'[w] = u
        /\ \A v \in Slots : op[v] = "create" => up[v] # u
        /\ known' = known /\ cancelled' = cancelled
    BY <1>2 DEF RequestBegins, Begin, TypeOK, history
  <2>2. QED
    BY <2>1 DEF MapInv
<1>3. ASSUME NEW w \in Slots, Serve(w) PROVE MapInv'
  <2>1. /\ \A v \in Slots \ {w} : pc'[v] = pc[v] /\ op'[v] = op[v] /\ up'[v] = up[v]
        /\ pc[w] # "idle"
        /\ \/ pc'[w] = "idle" /\ op'[w] # "create"
           \/ op'[w] = op[w] /\ up'[w] = up[w]
    BY <1>3, UploadAssumption
       DEF Serve, FindLocks, Sweep, SweepFails, Found, Status, ChunkStored, ChunkFails,
                CompleteChecks, CompleteRenames, CompleteFails, CompleteForgets, CancelForgets,
                CancelRemoves, CancelFails, Goto, Answer, TypeOK, Ops
  <2>2. CASE Found(w) /\ op[w] = "create"
    <3>1. /\ known' = known \cup {up[w]} /\ cancelled' = cancelled
          /\ pc'[w] = "idle" /\ op'[w] # "create"
      BY <2>2, UploadAssumption DEF Found, Answer, TypeOK, Ops, history
    <3>2. \A v \in Slots : pc[v] = "remove" => op[v] # "create"
      BY DEF OwnerInv
    <3>3. QED
      BY <2>1, <2>2, <3>1, <3>2 DEF MapInv
  <2>3. CASE CancelForgets(w)
    <3>1. /\ op[w] = "cancel" /\ known' = known \ {up[w]}
          /\ up'[w] = up[w] \/ pc'[w] = "idle"
          /\ cancelled' = cancelled \/ cancelled' = cancelled \cup {up[w]}
      BY <2>3 DEF CancelForgets, Goto, Answer, TypeOK
    <3>2. QED
      BY <2>1, <3>1, ServeKeepsMap
  <2>4. CASE CancelRemoves(w)
    <3>1. /\ op[w] # "create" /\ up[w] \notin known
          /\ known' = known /\ pc'[w] = "idle" /\ cancelled' = cancelled \cup {up[w]}
      BY <2>4 DEF CancelRemoves, Answer, OwnerInv, MapInv, TypeOK
    <3>2. QED
      BY <2>1, <3>1, ServeKeepsMap
  <2>5. CASE ~(Found(w) /\ op[w] = "create") /\ ~CancelForgets(w) /\ ~CancelRemoves(w)
    <3>1. /\ known' \subseteq known /\ cancelled' = cancelled /\ pc'[w] # "remove"
      BY <1>3, <2>5
         DEF Serve, FindLocks, Sweep, SweepFails, Found, Status, ChunkStored, ChunkFails,
             CompleteChecks, CompleteRenames, CompleteFails, CompleteForgets, CancelFails,
             Goto, Answer, TypeOK, history
    <3>2. QED
      BY <2>1, <3>1, ServeKeepsMap
  <2>6. QED
    BY <2>2, <2>3, <2>4, <2>5
<1>4. CASE Restart
  BY <1>4, UploadAssumption DEF Restart, MapInv, Ops
<1>5. CASE UNCHANGED vars \/ \E u \in Uploads : Ages(u)
  BY <1>5 DEF Ages, MapInv, vars, slotVars, history
<1>6. QED
  BY <1>1, <1>2, <1>3, <1>4, <1>5 DEF Next, Accept

LEMMA MapAlways == Spec => [](IInv /\ OwnerInv /\ MapInv)
<1>1. Init => MapInv
  BY UploadAssumption DEF Init, MapInv, Ops
<1>2. IInv /\ OwnerInv /\ MapInv /\ [Next]_vars => MapInv'
  BY MapKept
<1>3. QED
  BY <1>1, <1>2, OwnerAlways, PTL DEF Spec

\* The cancellation that removed the file of an upload, or found it gone, is final: only a
\* completion whose file still exists renames it.  And after any 204 no request finds the upload:
\* it has left the map, and the only request that would put it there is over.
THEOREM CancelCorrect == Spec => CancelledStaysAway
<1> DEFINE A == /\ \A u \in removed : dest' = u => dest = u
                /\ \A w \in Slots : pc[w] = "sweep" /\ pc'[w] = "act" => up[w] \notin cancelled
<1>1. IInv /\ OwnerInv /\ MapInv /\ [Next]_vars => [A]_vars
  <2> SUFFICES ASSUME IInv, MapInv, Next PROVE A
    OBVIOUS
  <2>1. ASSUME NEW u \in removed, dest' = u PROVE dest = u
    <3>1. dest' = dest \/ \E w \in Slots : CompleteRenames(w)
      BY DEF Next, Accept, Serve, CreateBegins, RequestBegins, FindLocks, Sweep, SweepFails,
             Found, Status, ChunkStored, ChunkFails, CompleteChecks, CompleteFails,
             CompleteForgets, CancelForgets, CancelRemoves, CancelFails, Ages, Restart, diskVars
    <3>2. ASSUME NEW w \in Slots, CompleteRenames(w) PROVE FALSE
      BY <2>1, <3>2 DEF CompleteRenames, IInv, RenameInv, CancelInv
    <3>3. QED
      BY <2>1, <3>1, <3>2
  <2>2. ASSUME NEW w \in Slots, pc[w] = "sweep", pc'[w] = "act" PROVE up[w] \notin cancelled
    <3>1. ~ \E v \in Slots : Accept(v)
      BY <2>2 DEF Accept, CreateBegins, RequestBegins, Begin, IInv, TypeOK
    <3>2. ~Restart /\ ~ \E u \in Uploads : Ages(u)
      BY <2>2 DEF Restart, Ages, slotVars
    <3>3. PICK v \in Slots : Serve(v)
      BY <3>1, <3>2 DEF Next
    <3>4. Found(w)
      BY <2>2, <3>3
         DEF Serve, FindLocks, Sweep, SweepFails, Found, Status, ChunkStored, ChunkFails,
             CompleteChecks, CompleteRenames, CompleteFails, CompleteForgets, CancelForgets,
             CancelRemoves, CancelFails, Goto, Answer, IInv, TypeOK
    <3>5. up[w] \in known
      BY <2>2, <3>4 DEF Found, Answer, IInv, TypeOK
    <3>6. QED
      BY <3>5 DEF MapInv
  <2>3. QED
    BY <2>1, <2>2
<1>2. QED
  BY <1>1, MapAlways, PTL DEF Spec, CancelledStaysAway

-----------------------------------------------------------------------------
(* Why the two kinds of mutex never wait for each other.                   *)

\* who holds a mutex: uploadMu the request that sweeps, the mutex of an upload its completion
LockInv ==
    \A w \in Slots :
        /\ uploadMu = w <=> pc[w] = "sweep"
        /\ \A u \in Uploads : mu[u] = w => pc[w] = "rename" /\ up[w] = u

\* request w may have to wait: somebody holds the mutex that its next step takes
Waits(w) ==
    \/ /\ uploadMu # None
       /\ pc[w] \in {"find", "forget"} \/ (pc[w] = "act" /\ op[w] = "cancel")
    \/ pc[w] = "sweep" /\ \E u \in todo[w] : mu[u] # None
    \/ /\ mu[up[w]] # None
       /\ pc[w] = "remove" \/ (pc[w] = "act" /\ op[w] # "cancel")

\* of the requests in progress there is always one that does not wait
SomebodyMoves ==
    (\E w \in Slots : pc[w] # "idle") => \E w \in Slots : pc[w] # "idle" /\ ~Waits(w)

\* the requests that a step leaves alone keep what LockInv says of them
LEMMA OthersLock ==
    ASSUME LockInv, NEW w \in Slots,
           \A v \in Slots \ {w} : pc'[v] = pc[v] /\ up'[v] = up[v],
           \A v \in Slots \ {w} : uploadMu' = v <=> uploadMu = v,
           \A u \in Uploads : \A v \in Slots \ {w} : mu'[u] = v => mu[u] = v,
           uploadMu' = w <=> pc'[w] = "sweep",
           \A u \in Uploads : mu'[u] = w => pc'[w] = "rename" /\ up'[w] = u
    PROVE  LockInv'
BY DEF LockInv

LEMMA LockKept == IInv /\ LockInv /\ [Next]_vars => LockInv'
<1> SUFFICES ASSUME IInv, LockInv, [Next]_vars PROVE LockInv'
  OBVIOUS
<1> USE UploadAssumption DEF IInv
<1>1. ASSUME NEW w \in Slots, Accept(w) PROVE LockInv'
  <2>1. /\ pc[w] = "idle" /\ pc'[w] \in {"find", "act"}
        /\ \A v \in Slots \ {w} : pc'[v] = pc[v] /\ up'[v] = up[v]
        /\ UNCHANGED <<uploadMu, mu>>
    BY <1>1 DEF Accept, CreateBegins, RequestBegins, Begin, TypeOK
  <2>2. QED
    BY <2>1, OthersLock DEF LockInv
<1>2. ASSUME NEW w \in Slots, Serve(w) PROVE LockInv'
  <2>1. CASE FindLocks(w)
    <3>1. /\ pc[w] = "find" /\ pc'[w] = "sweep" /\ uploadMu = None /\ uploadMu' = w
          /\ \A v \in Slots \ {w} : pc'[v] = pc[v] /\ up'[v] = up[v]
          /\ mu' = mu
      BY <2>1 DEF FindLocks, TypeOK
    <3>2. QED
      BY <3>1, OthersLock DEF LockInv
  <2>2. CASE \E u \in Uploads : Sweep(w, u) \/ SweepFails(w, u)
    BY <2>2 DEF Sweep, SweepFails, LockInv
  <2>3. CASE Found(w)
    <3>1. /\ pc[w] = "sweep" /\ pc'[w] \in {"idle", "act"} /\ uploadMu' = None
          /\ \A v \in Slots \ {w} : pc'[v] = pc[v] /\ up'[v] = up[v]
          /\ mu' = mu
      BY <2>3 DEF Found, Answer, Goto, TypeOK
    <3>2. uploadMu = w
      BY <3>1 DEF LockInv
    <3>3. QED
      BY <3>1, <3>2, OthersLock DEF LockInv
  <2>4. CASE \/ Status(w) \/ ChunkStored(w) \/ ChunkFails(w) \/ CompleteForgets(w)
             \/ CancelForgets(w) \/ CancelRemoves(w) \/ CancelFails(w)
    <3>1. /\ pc[w] \in {"act", "forget", "remove"} /\ pc'[w] \in {"idle", "remove"}
          /\ \A v \in Slots \ {w} : pc'[v] = pc[v] /\ up'[v] = up[v]
          /\ UNCHANGED <<uploadMu, mu>>
      BY <2>4 DEF Status, ChunkStored, ChunkFails, CompleteForgets, CancelForgets,
                  CancelRemoves, CancelFails, Answer, Goto, TypeOK
    <3>2. QED
      BY <3>1, OthersLock DEF LockInv
  <2>5. CASE CompleteChecks(w)
    <3>1. /\ pc[w] = "act" /\ uploadMu' = uploadMu
          /\ \A v \in Slots \ {w} : pc'[v] = pc[v] /\ up'[v] = up[v]
      BY <2>5 DEF CompleteChecks, Answer, Goto, TypeOK
    <3>2. \/ pc'[w] = "idle" /\ mu' = mu
          \/ /\ pc'[w] = "rename" /\ up'[w] = up[w] /\ up[w] \in Uploads
             /\ mu' = [mu EXCEPT ![up[w]] = w]
      BY <2>5 DEF CompleteChecks, Answer, Goto, TypeOK
    <3>3. \A u \in Uploads : mu[u] # w
      BY <3>1 DEF LockInv
    <3>4. /\ \A u \in Uploads : \A v \in Slots \ {w} : mu'[u] = v => mu[u] = v
          /\ \A u \in Uploads : mu'[u] = w => pc'[w] = "rename" /\ up'[w] = u
      BY <3>2, <3>3 DEF TypeOK
    <3>5. uploadMu' = w <=> pc'[w] = "sweep"
      BY <3>1, <3>2 DEF LockInv
    <3>6. QED
      BY <3>1, <3>4, <3>5, OthersLock
  <2>6. CASE CompleteRenames(w) \/ CompleteFails(w)
    <3>1. /\ pc[w] = "rename" /\ pc'[w] \in {"idle", "forget"} /\ uploadMu' = uploadMu
          /\ \A v \in Slots \ {w} : pc'[v] = pc[v] /\ up'[v] = up[v]
          /\ mu' = [mu EXCEPT ![up[w]] = None]
      BY <2>6 DEF CompleteRenames, CompleteFails, Answer, Goto, TypeOK
    <3>2. /\ \A u \in Uploads : \A v \in Slots \ {w} : mu'[u] = v => mu[u] = v
          /\ \A u \in Uploads : mu'[u] # w
      BY <3>1 DEF LockInv, TypeOK
    <3>3. QED
      BY <3>1, <3>2, OthersLock DEF LockInv
  <2>7. QED
    BY <1>2, <2>1, <2>2, <2>3, <2>4, <2>5, <2>6 DEF Serve
<1>3. CASE Restart
  BY <1>3 DEF Restart, LockInv
<1>4. CASE UNCHANGED vars \/ \E u \in Uploads : Ages(u)
  BY <1>4 DEF Ages, LockInv, vars, slotVars
<1>5. QED
  BY <1>1, <1>2, <1>3, <1>4 DEF Next

LEMMA LockAlways == Spec => [](IInv /\ LockInv)
<1>1. Init => IInv /\ LockInv
  BY InitIInv, UploadAssumption DEF Init, LockInv
<1>2. IInv /\ LockInv /\ [Next]_vars => (IInv /\ LockInv)'
  BY NextIInv, LockKept
<1>3. QED
  BY <1>1, <1>2, PTL DEF Spec

\* The sweep waits for the mutexes of uploads while it holds uploadMu, but whoever holds the mutex
\* of an upload wants no other one: no set of requests waits in a circle, however many there are.
THEOREM LockCorrect == Spec => []SomebodyMoves
<1>1. IInv /\ LockInv => SomebodyMoves
  <2> SUFFICES ASSUME IInv, LockInv, NEW w \in Slots, pc[w] # "idle"
               PROVE  \E v \in Slots : pc[v] # "idle" /\ ~Waits(v)
    BY DEF SomebodyMoves
  <2> USE DEF IInv
  <2>1. ASSUME NEW u \in Uploads, mu[u] # None
        PROVE  \E v \in Slots : pc[v] # "idle" /\ ~Waits(v)
    <3>1. PICK v \in Slots : mu[u] = v
      BY <2>1 DEF TypeOK
    <3>2. pc[v] = "rename"
      BY <3>1 DEF LockInv
    <3>3. QED
      BY <3>2 DEF Waits
  <2>2. CASE uploadMu # None
    <3>1. PICK v \in Slots : uploadMu = v
      BY <2>2 DEF TypeOK
    <3>2. pc[v] = "sweep" /\ todo[v] \in SUBSET Uploads
      BY <3>1 DEF LockInv, TypeOK
    <3>3. CASE \E u \in todo[v] : mu[u] # None
      BY <2>1, <3>2, <3>3
    <3>4. CASE \A u \in todo[v] : mu[u] = None
      BY <3>2, <3>4 DEF Waits
    <3>5. QED
      BY <3>3, <3>4
  <2>3. CASE uploadMu = None /\ \A u \in Uploads : mu[u] = None
    <3>1. up[w] \in Uploads /\ todo[w] \in SUBSET Uploads
      BY DEF SlotInv, TypeOK
    <3>2. QED
      BY <2>3, <3>1 DEF Waits
  <2>4. QED
    BY <2>1, <2>2, <2>3
<1>2. QED
  BY <1>1, LockAlways, PTL

=============================================================================
