--------------------------- MODULE FileManagerProofs ---------------------------
(***************************************************************************)
(* Theorems about the file panel, for any number of directories, entries,  *)
(* searches and overlapping tasks.                                         *)
(*                                                                         *)
(* That a request was confirmed needs that the dialog of a task holds no   *)
(* ok from its last use, and that dialogs come one at a time, dragging     *)
(* included (DialogInv).  That the checkbox over all rows tells the truth  *)
(* needs what the observer has yet to be told: it may still show the       *)
(* selection of the rows before while there are rows without a checkbox    *)
(* (SelectInv), and only then (BoxInv).                                    *)
(***************************************************************************)
EXTENDS FileManager, TLAPS

\* the parts of TypeOK
TableOK ==
    /\ currentPath \in Dirs
    /\ rows \subseteq Entries
    /\ boxed \subseteq rows
    /\ checked \subseteq boxed
    /\ hidden \subseteq rows
    /\ records \subseteq rows
    /\ query \in Queries
    /\ allChecked \in BOOLEAN

PanelOK ==
    /\ menu \in BOOLEAN
    /\ contextEntries \subseteq Entries
    /\ drag \subseteq Entries
    /\ clipboard \in [paths : SUBSET Entries, mode : {"none", "copy", "move"}]
    /\ dialogs \subseteq DialogKinds

TaskStates ==
    [wait : {"nothing", "dialog", "answer", "listing"}, kind : DialogKinds \cup {"paste", "load"},
     dir : Dirs, paths : SUBSET Entries, chosen : SUBSET Entries, pressed : BOOLEAN]

\* a row without a checkbox is one that the observer has yet to be told of
BoxInv == rows \ boxed \subseteq records

\* what SelectAllAgrees says, whenever every row that is yet to be told of has its checkbox
SelectInv ==
    records \subseteq boxed /\ rows # {}
        => (allChecked <=> rows # hidden /\ rows \ hidden \subseteq checked)

\* one dialog at a time, and none while something is dragged; it holds no ok
DialogInv ==
    \A k \in Tasks : task[k].wait = "dialog" =>
        /\ task[k].kind \in DialogKinds \ dialogs
        /\ drag = {}
        /\ \A j \in Tasks : task[j].wait = "dialog" => j = k

\* a task that asks or sends is about what was chosen for it
ChosenInv == \A k \in Tasks : task[k].wait \in {"dialog", "answer"} => task[k].paths = task[k].chosen

TableInv == TableOK /\ BoxInv /\ SelectInv
TaskInv == task \in [Tasks -> TaskStates] /\ DialogInv /\ ChosenInv /\ SentAsConfirmed
IInv == TableInv /\ PanelOK /\ TaskInv

LEMMA TypeParts == TypeOK <=> TableOK /\ PanelOK /\ task \in [Tasks -> TaskStates]
BY DEF TypeOK, TableOK, PanelOK, TaskStates

-----------------------------------------------------------------------------
LEMMA InitIInv == Init => IInv
<1> SUFFICES ASSUME Init PROVE IInv
  OBVIOUS
<1> USE FileManagerAssumption DEF Init
<1>1. TableInv
  BY DEF TableInv, TableOK, BoxInv, SelectInv
<1>2. PanelOK
  BY DEF PanelOK, NoClipboard
<1>3. TaskInv
  BY DEF TaskInv, TaskStates, Idle, DialogInv, ChosenInv, SentAsConfirmed
<1>4. QED
  BY <1>1, <1>2, <1>3 DEF IInv

\* whatever the view becomes, the checkbox over all rows agrees with it
LEMMA ViewAgrees ==
    ASSUME TableInv, NEW q \in Queries, ApplyView(q), boxed' \in {boxed, rows}, query' = q,
           UNCHANGED <<currentPath, rows, checked>>
    PROVE  TableInv'
BY DEF TableInv, TableOK, BoxInv, SelectInv, ApplyView, UpdateSelection

LEMMA TickAgrees ==
    ASSUME TableInv, Settled, NEW ticked, ticked \subseteq rows, Ticked(ticked)
    PROVE  TableInv'
BY DEF TableInv, TableOK, BoxInv, SelectInv, Settled, Ticked, UpdateSelection

\* the steps of rows, search and selection
LEMMA TableSteps ==
    ASSUME IInv, Observe \/ Search \/ TickAll \/ \E r \in Entries : Tick(r)
    PROVE  IInv'
<1> USE DEF IInv
<1>1. UNCHANGED <<menuVars, drag, clipboard, dialogs, task>>
  BY DEF Observe, Search, TickAll, Tick, Ticked
<1>2. PanelOK' /\ TaskInv'
  BY <1>1 DEF PanelOK, TaskInv, DialogInv, ChosenInv, SentAsConfirmed, menuVars
<1>3. CASE Observe
  <2>1. CASE records \subseteq boxed
    BY <1>2, <1>3, <2>1 DEF Observe, TableInv, TableOK, BoxInv, SelectInv
  <2>2. CASE ~(records \subseteq boxed)
    BY <1>2, <1>3, <2>2, ViewAgrees DEF Observe, TableInv, TableOK
  <2>3. QED
    BY <2>1, <2>2
<1>4. CASE Search
  BY <1>2, <1>4, ViewAgrees DEF Search
<1>5. CASE TickAll \/ \E r \in Entries : Tick(r)
  <2>1. Settled /\ \E ticked : ticked \subseteq rows /\ Ticked(ticked)
    BY <1>5 DEF TickAll, Tick, Reachable, TableInv, TableOK
  <2>2. QED
    BY <1>2, <2>1, TickAgrees
<1>6. QED
  BY <1>3, <1>4, <1>5

-----------------------------------------------------------------------------
\* a task that is left neither with a dialog nor with a request needs nothing
LEMMA TaskGoesOn ==
    ASSUME TaskInv, NEW k \in Tasks, NEW new \in TaskStates, new.wait \in {"nothing", "listing"},
           task' = [task EXCEPT ![k] = new], UNCHANGED <<drag, dialogs>>
    PROVE  TaskInv'
<1> USE DEF TaskInv
<1>1. /\ task' \in [Tasks -> TaskStates] /\ task'[k] = new
      /\ \A j \in Tasks \ {k} : task'[j] = task[j]
  OBVIOUS
<1>2. DialogInv' /\ ChosenInv' /\ SentAsConfirmed'
  BY <1>1 DEF DialogInv, ChosenInv, SentAsConfirmed
<1>3. QED
  BY <1>1, <1>2

\* a task asks when no other does
LEMMA AskIInv ==
    ASSUME TaskInv, NEW k \in Tasks, NEW kind \in DialogKinds, NEW entries \in SUBSET Entries,
           Ask(k, kind, entries), drag' = {}, \A j \in Tasks : task[j].wait # "dialog"
    PROVE  TaskInv' /\ dialogs' \subseteq dialogs
<1> USE DEF TaskInv
<1> DEFINE new == [Idle EXCEPT !.wait = "dialog", !.kind = kind,
                               !.paths = entries, !.chosen = entries]
<1>1. /\ new \in TaskStates /\ new.wait = "dialog" /\ new.kind = kind
      /\ new.paths = new.chosen
  BY FileManagerAssumption DEF Idle, TaskStates
<1> HIDE DEF new
<1>2. dialogs' = dialogs \ {kind} /\ task' = [task EXCEPT ![k] = new]
  BY DEF Ask, new
<1>3. /\ task' \in [Tasks -> TaskStates] /\ task'[k] = new
      /\ \A j \in Tasks \ {k} : task'[j] = task[j]
  BY <1>1, <1>2
<1>4. DialogInv' /\ ChosenInv' /\ SentAsConfirmed'
  BY <1>1, <1>2, <1>3 DEF DialogInv, ChosenInv, SentAsConfirmed
<1>5. QED
  BY <1>2, <1>3, <1>4

\* a dialog closes: with ok only if ok was pressed
LEMMA DialogIInv ==
    ASSUME TaskInv, dialogs \subseteq DialogKinds, NEW k \in Tasks,
           NEW button \in {"ok", "cancel", "escape"}, DialogCloses(k, button)
    PROVE  TaskInv' /\ dialogs' \subseteq DialogKinds
<1> USE DEF TaskInv
<1>1. /\ task[k].wait = "dialog" /\ task[k].kind \in DialogKinds \ dialogs
      /\ \A j \in Tasks \ {k} : task[j].wait # "dialog"
      /\ UNCHANGED drag
  BY DEF DialogCloses, DialogInv
<1>2. dialogs' \subseteq DialogKinds /\ (task[k].kind \in dialogs' => button = "ok")
  BY <1>1 DEF DialogCloses
<1>3. CASE task' = [task EXCEPT ![k] = Idle]
  <2>1. Idle \in TaskStates /\ Idle.wait = "nothing"
    BY FileManagerAssumption DEF Idle, TaskStates
  <2>2. /\ task' \in [Tasks -> TaskStates] /\ task'[k].wait = "nothing"
        /\ \A j \in Tasks \ {k} : task'[j] = task[j]
    BY <1>3, <2>1
  <2>3. DialogInv' /\ ChosenInv' /\ SentAsConfirmed'
    BY <1>1, <2>2 DEF DialogInv, ChosenInv, SentAsConfirmed
  <2>4. QED
    BY <1>2, <2>2, <2>3
<1>4. CASE task[k].kind \in dialogs' /\ Send(k, button = "ok")
  <2>1. task' = [task EXCEPT ![k].wait = "answer", ![k].pressed = TRUE]
    BY <1>2, <1>4 DEF Send
  <2>2. /\ task' \in [Tasks -> TaskStates]
        /\ task'[k].wait = "answer" /\ task'[k].pressed
        /\ task'[k].paths = task[k].paths /\ task'[k].chosen = task[k].chosen
        /\ \A j \in Tasks \ {k} : task'[j] = task[j]
    BY <2>1 DEF TaskStates
  <2>3. DialogInv' /\ ChosenInv' /\ SentAsConfirmed'
    BY <1>1, <2>2 DEF DialogInv, ChosenInv, SentAsConfirmed
  <2>4. QED
    BY <1>2, <2>2, <2>3
<1>5. QED
  BY <1>3, <1>4 DEF DialogCloses

-----------------------------------------------------------------------------
\* the answer for a listing: new rows, which have no checkboxes yet, or none
LEMMA ListingIInv ==
    ASSUME IInv, NEW k \in Tasks, ListingArrives(k)
    PROVE  IInv'
<1> USE DEF IInv
<1>1. Idle \in TaskStates /\ Idle.wait = "nothing"
  BY FileManagerAssumption DEF Idle, TaskStates
<1>2. TaskInv'
  BY <1>1, TaskGoesOn DEF ListingArrives
<1>3. clipboard' = clipboard \/ PasteReturns
  BY DEF ListingArrives
<1>4. PanelOK'
  BY <1>3 DEF ListingArrives, PasteReturns, PanelOK, NoClipboard, menuVars
<1>5. task[k].dir \in Dirs
  BY DEF ListingArrives, TaskInv, TaskStates
<1>6. CASE Show(task[k].dir)
  BY <1>2, <1>4, <1>5, <1>6 DEF Show, TableInv, TableOK, BoxInv, SelectInv
<1>7. CASE UNCHANGED tableVars
  BY <1>2, <1>4, <1>7 DEF TableInv, TableOK, BoxInv, SelectInv, tableVars
<1>8. QED
  BY <1>6, <1>7 DEF ListingArrives

\* the other steps of a task leave the table alone
LEMMA TaskSteps ==
    ASSUME IInv, NEW k \in Tasks, TaskStep(k)
    PROVE  IInv'
<1> USE DEF IInv
<1>1. ASSUME UNCHANGED tableVars, PanelOK', TaskInv' PROVE IInv'
  BY <1>1 DEF TableInv, TableOK, BoxInv, SelectInv, tableVars
<1>2. PanelOK /\ TaskInv /\ contextEntries \in SUBSET Entries /\ drag \in SUBSET Entries
  BY DEF PanelOK
<1>3. CASE ListingArrives(k)
  BY <1>3, ListingIInv
<1>4. CASE Navigate(k) \/ UploadEnds(k) \/ MenuOpens(k)
  <2>1. PICK d \in Dirs : Load(k, d)
    BY <1>4 DEF Navigate, UploadEnds, MenuOpens, TableInv, TableOK
  <2>2. [Idle EXCEPT !.wait = "listing", !.dir = d] \in TaskStates
    BY FileManagerAssumption DEF Idle, TaskStates
  <2>3. UNCHANGED <<tableVars, drag, clipboard, dialogs>>
    BY <1>4 DEF Navigate, UploadEnds, MenuOpens
  <2>4. TaskInv'
    BY <2>1, <2>2, <2>3, TaskGoesOn DEF Load, Idle
  <2>5. PanelOK'
    BY <1>4, <2>3 DEF Navigate, UploadEnds, MenuOpens, HideContextMenu, PanelOK, menuVars
  <2>6. QED
    BY <1>1, <2>3, <2>4, <2>5
<1>5. CASE AnswerArrives(k)
  <2>1. PICK new \in TaskStates : new.wait \in {"nothing", "listing"} /\ task' = [task EXCEPT ![k] = new]
    <3>1. Idle \in TaskStates /\ Idle.wait = "nothing"
      BY FileManagerAssumption DEF Idle, TaskStates
    <3>2. \A kind \in {"paste", "load"} :
             /\ [Idle EXCEPT !.wait = "listing", !.dir = currentPath, !.kind = kind] \in TaskStates
             /\ [Idle EXCEPT !.wait = "listing", !.dir = currentPath, !.kind = kind].wait = "listing"
      BY FileManagerAssumption DEF Idle, TaskStates, TableInv, TableOK
    <3>3. QED
      BY <1>5, <3>1, <3>2 DEF AnswerArrives
  <2>2. UNCHANGED <<tableVars, menuVars, drag, clipboard, dialogs>>
    BY <1>5 DEF AnswerArrives
  <2>3. TaskInv'
    BY <2>1, <2>2, TaskGoesOn
  <2>4. PanelOK'
    BY <2>2 DEF PanelOK, menuVars
  <2>5. QED
    BY <1>1, <2>2, <2>3, <2>4
<1>6. CASE \E button \in {"ok", "cancel", "escape"} : DialogCloses(k, button)
  <2>1. TaskInv' /\ dialogs' \subseteq DialogKinds
    BY <1>2, <1>6, DialogIInv DEF PanelOK
  <2>2. UNCHANGED <<tableVars, menuVars, drag, clipboard>>
    BY <1>6 DEF DialogCloses
  <2>3. PanelOK'
    BY <2>1, <2>2 DEF PanelOK, menuVars
  <2>4. QED
    BY <1>1, <2>1, <2>2, <2>3
<1>7. CASE MenuPastes(k)
  <2> DEFINE new == [Idle EXCEPT !.wait = "answer", !.kind = "paste", !.paths = clipboard.paths,
                                 !.chosen = clipboard.paths]
  <2>1. /\ new \in TaskStates /\ new.wait = "answer" /\ new.kind = "paste"
        /\ new.paths = new.chosen
    BY FileManagerAssumption DEF Idle, TaskStates, PanelOK
  <2>2. task' = [task EXCEPT ![k] = new] /\ UNCHANGED <<tableVars, drag, clipboard, dialogs>>
    BY <1>7 DEF MenuPastes
  <2> HIDE DEF new
  <2>3. /\ task' \in [Tasks -> TaskStates] /\ task'[k] = new
        /\ \A j \in Tasks \ {k} : task'[j] = task[j]
    BY <2>1, <2>2 DEF TaskInv
  <2>4. DialogInv' /\ ChosenInv'
    BY <2>1, <2>2, <2>3 DEF TaskInv, DialogInv, ChosenInv
  <2>5. SentAsConfirmed'
    BY <2>1, <2>3 DEF TaskInv, SentAsConfirmed, DialogKinds
  <2>6. PanelOK'
    BY <1>7, <2>2 DEF MenuPastes, HideContextMenu, PanelOK
  <2>7. QED
    BY <1>1, <2>2, <2>3, <2>4, <2>5, <2>6 DEF TaskInv
<1>8. CASE MenuAsks(k) \/ ButtonAsks(k)
  <2>1. PICK kind \in DialogKinds, entries \in SUBSET Entries : Ask(k, kind, entries)
    BY <1>2, <1>8 DEF MenuAsks, ButtonAsks, DialogKinds, TableInv, TableOK
  <2>2. /\ UNCHANGED <<tableVars, drag, clipboard>> /\ drag = {}
        /\ \A j \in Tasks : task[j].wait # "dialog"
    BY <1>8 DEF MenuAsks, ButtonAsks, Reachable
  <2>3. TaskInv' /\ dialogs' \subseteq dialogs
    BY <1>2, <2>1, <2>2, AskIInv
  <2>4. PanelOK'
    BY <1>8, <2>2, <2>3 DEF MenuAsks, ButtonAsks, HideContextMenu, PanelOK, menuVars
  <2>5. QED
    BY <1>1, <2>2, <2>3, <2>4
<1>9. CASE \E r \in Entries : DragDrops(k, r)
  <2>1. /\ Ask(k, "confirm", drag) /\ drag # {} /\ drag' = {}
        /\ UNCHANGED <<tableVars, menuVars, clipboard>>
    BY <1>9 DEF DragDrops
  <2>2. \A j \in Tasks : task[j].wait # "dialog"
    BY <2>1 DEF TaskInv, DialogInv
  <2>3. TaskInv' /\ dialogs' \subseteq dialogs
    BY <1>2, <2>1, <2>2, AskIInv DEF DialogKinds
  <2>4. PanelOK'
    BY <2>1, <2>3 DEF PanelOK, menuVars
  <2>5. QED
    BY <1>1, <2>1, <2>3, <2>4
<1>10. QED
  BY <1>3, <1>4, <1>5, <1>6, <1>7, <1>8, <1>9 DEF TaskStep

\* the context menu, the clipboard and dragging
LEMMA PanelSteps ==
    ASSUME IInv, \/ OpenMenu \/ MenuCloses \/ DragEnds \/ (\E r \in Entries : DragStarts(r))
                 \/ \E mode \in {"copy", "move"} : MenuCopies(mode)
    PROVE  IInv'
<1> USE DEF IInv
<1>1. UNCHANGED <<tableVars, dialogs, task>>
  BY DEF OpenMenu, MenuCloses, DragEnds, DragStarts, MenuCopies
<1>2. drag' \in {drag, {}} \/ \A k \in Tasks : task[k].wait # "dialog"
  BY DEF OpenMenu, MenuCloses, DragEnds, DragStarts, MenuCopies, Reachable
<1>3. TableInv'
  BY <1>1 DEF TableInv, TableOK, BoxInv, SelectInv, tableVars
<1>4. TaskInv'
  BY <1>1, <1>2 DEF TaskInv, DialogInv, ChosenInv, SentAsConfirmed
<1>5. \A r \in rows : ChosenAt(r) \subseteq Entries
  BY DEF ChosenAt, Selected, TableInv, TableOK
<1>6. PanelOK'
  <2>1. CASE OpenMenu
    BY <1>5, <2>1 DEF OpenMenu, PanelOK
  <2>2. CASE MenuCloses \/ DragEnds
    BY <2>2 DEF MenuCloses, DragEnds, HideContextMenu, PanelOK, menuVars
  <2>3. CASE \E r \in Entries : DragStarts(r)
    BY <1>5, <2>3 DEF DragStarts, PanelOK, TableInv, TableOK, menuVars
  <2>4. CASE \E mode \in {"copy", "move"} : MenuCopies(mode)
    <3>1. PICK mode \in {"copy", "move"} : MenuCopies(mode)
      BY <2>4
    <3>2. clipboard' = [paths |-> contextEntries, mode |-> mode] /\ contextEntries \in SUBSET Entries
      BY <3>1 DEF MenuCopies, PanelOK
    <3>3. clipboard' \in [paths : SUBSET Entries, mode : {"none", "copy", "move"}]
      BY <3>2
    <3>4. QED
      BY <3>1, <3>3 DEF MenuCopies, HideContextMenu, PanelOK
  <2>5. QED
    BY <2>1, <2>2, <2>3, <2>4
<1>7. QED
  BY <1>3, <1>4, <1>6

-----------------------------------------------------------------------------
LEMMA NextIInv ==
    ASSUME IInv, [Next]_vars
    PROVE  IInv'
<1>1. CASE Observe \/ Search \/ TickAll \/ \E r \in Entries : Tick(r)
  BY <1>1, TableSteps
<1>2. CASE \/ OpenMenu \/ MenuCloses \/ DragEnds \/ (\E r \in Entries : DragStarts(r))
           \/ \E mode \in {"copy", "move"} : MenuCopies(mode)
  BY <1>2, PanelSteps
<1>3. CASE \E k \in Tasks : TaskStep(k)
  BY <1>3, TaskSteps
<1>4. CASE UNCHANGED vars
  BY <1>4 DEF IInv, TableInv, TableOK, BoxInv, SelectInv, PanelOK, TaskInv, DialogInv, ChosenInv,
              SentAsConfirmed, vars, tableVars, menuVars
<1>5. QED
  BY <1>1, <1>2, <1>3, <1>4 DEF Next

LEMMA Inductive == Spec => []IInv
<1>1. IInv /\ [Next]_vars => IInv'
  BY NextIInv
<1>2. QED
  BY InitIInv, <1>1, PTL DEF Spec

\* The table, the panel and the tasks stay what they are declared to be: only rows that are
\* there have a checkbox, are checked, hidden, or yet to be told of.
THEOREM TypeCorrect == Spec => []TypeOK
<1>1. IInv => TypeOK
  BY TypeParts DEF IInv, TableInv, TaskInv
<1>2. QED
  BY Inductive, <1>1, PTL

\* Nothing is deleted, moved or pasted but what was chosen for it, and a request that asks first
\* is sent only after an ok in its own dialog.
THEOREM RequestsCorrect == Spec => []SentAsConfirmed
<1>1. IInv => SentAsConfirmed
  BY DEF IInv, TaskInv
<1>2. QED
  BY Inductive, <1>1, PTL

\* The checkbox over all rows tells the truth whenever the user can see it.
THEOREM SelectCorrect == Spec => []SelectAllAgrees
<1>1. IInv => SelectAllAgrees
  BY DEF IInv, TableInv, SelectInv, SelectAllAgrees, Settled
<1>2. QED
  BY Inductive, <1>1, PTL

\* No paste that is in progress takes something copied off the clipboard.
THEOREM CopyCorrect == Spec => CopiedStays
<1>1. [Next]_vars => [clipboard.mode = "copy" => clipboard'.mode # "none"]_clipboard
  <2> SUFFICES ASSUME [Next]_vars, clipboard' # clipboard, clipboard.mode = "copy"
               PROVE  clipboard'.mode # "none"
    OBVIOUS
  <2>1. ASSUME NEW k \in Tasks, TaskStep(k) PROVE FALSE
    <3>1. CASE ListingArrives(k)
      BY <3>1 DEF ListingArrives, PasteReturns
    <3>2. CASE ~ListingArrives(k)
      BY <2>1, <3>2 DEF TaskStep, Navigate, UploadEnds, AnswerArrives, DialogCloses, MenuPastes,
                        MenuOpens, MenuAsks, ButtonAsks, DragDrops
    <3>3. QED
      BY <3>1, <3>2
  <2>2. ASSUME NEW r \in Entries, Tick(r) \/ DragStarts(r) PROVE FALSE
    BY <2>2 DEF Tick, Ticked, DragStarts
  <2>3. ~(Observe \/ Search \/ TickAll \/ OpenMenu \/ MenuCloses \/ DragEnds)
    BY DEF Observe, Search, TickAll, Ticked, OpenMenu, MenuCloses, DragEnds
  <2>4. \E mode \in {"copy", "move"} : MenuCopies(mode)
    BY <2>1, <2>2, <2>3 DEF Next, vars
  <2>5. QED
    BY <2>4 DEF MenuCopies
<1>2. QED
  BY <1>1, PTL DEF Spec, CopiedStays

=============================================================================
