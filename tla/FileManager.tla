------------------------------- MODULE FileManager -------------------------------
(***************************************************************************)
(* The file panel of the page: internal/app/static/file-manager.js and the *)
(* functions of app.js that load listings, ask and send operations.        *)
(*                                                                         *)
(* Handlers run one at a time, but a handler that waits for a dialog or    *)
(* for an answer goes on when rows, selection and clipboard have changed.  *)
(* Callbacks of the MutationObserver run before the next event.            *)
(*                                                                         *)
(* A row stands for its path.  Whether an operation succeeds, and what the *)
(* server lists afterwards, is open.  The order of rows, the count of the  *)
(* selected ones, names that are typed, the destination of a request and   *)
(* the editor are left out.                                                *)
(***************************************************************************)
EXTENDS Naturals, FiniteSets

CONSTANTS
    Dirs,       \* directories
    Root,       \* the first one
    Entries,    \* files and directories that can be listed
    Folders,    \* those of them that are directories
    Home,       \* the directory that holds an entry
    Queries,    \* the sets of entries that a text in the search field can match
    Tasks       \* async functions in progress at a time

ASSUME FileManagerAssumption ==
    /\ Root \in Dirs
    /\ Folders \subseteq Entries
    /\ Home \in [Entries -> Dirs]
    /\ Queries \subseteq SUBSET Entries
    /\ Entries \in Queries

VARIABLES
    currentPath,
    rows,            \* the rows of the table
    boxed,           \* those that have a checkbox (.file-select)
    checked,         \* those whose checkbox is checked
    hidden,          \* those that the search hides
    records,         \* rows that were added and are not yet told to the observer
    query,           \* what the search field matches
    allChecked,      \* selectAll.checked
    menu,            \* the context menu is shown
    contextEntries,
    drag,            \* the paths of the drag in progress
    clipboard,
    dialogs,         \* the <dialog> elements whose returnValue is ok
    task             \* what every task waits for

tableVars == <<currentPath, rows, boxed, checked, hidden, records, query, allChecked>>
menuVars == <<menu, contextEntries>>
vars == <<tableVars, menuVars, drag, clipboard, dialogs, task>>

DialogKinds == {"confirm", "prompt"}
NoClipboard == [paths |-> {}, mode |-> "none"]

\* A task waits for its dialog, for the answer to its request, or for a listing.  A history
\* variable of each: the entries that were chosen for it, and whether ok was pressed for it.
Idle == [wait |-> "nothing", kind |-> "load", dir |-> Root, paths |-> {}, chosen |-> {},
         pressed |-> FALSE]

TypeOK ==
    /\ currentPath \in Dirs
    /\ rows \subseteq Entries
    /\ boxed \subseteq rows
    /\ checked \subseteq boxed
    /\ hidden \subseteq rows
    /\ records \subseteq rows
    /\ query \in Queries
    /\ allChecked \in BOOLEAN
    /\ menu \in BOOLEAN
    /\ contextEntries \subseteq Entries
    /\ drag \subseteq Entries
    /\ clipboard \in [paths : SUBSET Entries, mode : {"none", "copy", "move"}]
    /\ dialogs \subseteq DialogKinds
    /\ task \in [Tasks -> [wait : {"nothing", "dialog", "answer", "listing"},
                           kind : DialogKinds \cup {"paste", "load"},
                           dir : Dirs, paths : SUBSET Entries, chosen : SUBSET Entries,
                           pressed : BOOLEAN]]

Init ==
    /\ currentPath = Root
    /\ rows = {} /\ boxed = {} /\ checked = {} /\ hidden = {} /\ records = {}
    /\ query = Entries
    /\ allChecked = FALSE
    /\ menu = FALSE /\ contextEntries = {}
    /\ drag = {}
    /\ clipboard = NoClipboard
    /\ dialogs = {}
    /\ task = [k \in Tasks |-> Idle]

\* the next event may come: the observer has been told everything
Settled == records = {}

\* the user can reach the page itself: no modal dialog is open and nothing is being dragged
Reachable == Settled /\ drag = {} /\ \A k \in Tasks : task[k].wait # "dialog"

-----------------------------------------------------------------------------
(* Selection and view.                                                     *)

\* selectedEntries()
Selected == rows \cap checked

\* what a menu or a drag that starts at row r is about: the selection if r is part of it
ChosenAt(r) == IF r \in Selected THEN Selected ELSE {r}

\* updateSelection(), with the rows that are visible and those that are checked by then
UpdateSelection(visible, ticked) ==
    allChecked' = (visible # {} /\ visible \subseteq ticked)

\* Deviation: the search leaves the selection alone.
ApplyViewOnly(q) ==
    /\ hidden' = rows \ q
    /\ records' = rows
    /\ UNCHANGED allChecked

\* applyView(): appending a row again to sort it is a mutation of the table, too
ApplyView(q) ==
    /\ hidden' = rows \ q
    /\ records' = rows
    /\ UpdateSelection(rows \cap q, checked)

\* Deviation: rows that have their checkbox are enhanced again.
ObserveAll ==
    /\ records # {}
    /\ boxed' = rows
    /\ ApplyView(query)
    /\ UNCHANGED <<currentPath, rows, checked, query, menuVars, drag, clipboard, dialogs, task>>

\* the callback of the MutationObserver, and enhanceRows
Observe ==
    /\ records # {}
    /\ IF records \subseteq boxed
       THEN records' = {} /\ UNCHANGED <<boxed, hidden, allChecked>>
       ELSE boxed' = rows /\ ApplyView(query)
    /\ UNCHANGED <<currentPath, rows, checked, query, menuVars, drag, clipboard, dialogs, task>>

\* the search text or the order changes
Search ==
    /\ Reachable
    /\ \E q \in Queries : query' = q /\ ApplyView(q)
    /\ UNCHANGED <<currentPath, rows, boxed, checked, menuVars, drag, clipboard, dialogs, task>>

Ticked(ticked) ==
    /\ checked' = ticked
    /\ UpdateSelection(rows \ hidden, ticked)
    /\ UNCHANGED <<currentPath, rows, boxed, hidden, records, query, menuVars, drag, clipboard,
                   dialogs, task>>

\* the checkbox of a row
Tick(r) ==
    /\ Reachable
    /\ r \in boxed \ hidden
    /\ \/ r \in checked /\ Ticked(checked \ {r})
       \/ r \notin checked /\ Ticked(checked \cup {r})

\* the checkbox over all rows
TickAll ==
    /\ Reachable
    /\ \/ allChecked /\ Ticked(checked \ (rows \ hidden))
       \/ ~allChecked /\ Ticked(checked \cup (rows \ hidden))

-----------------------------------------------------------------------------
(* Tasks: listings, dialogs and requests.                                  *)

\* task k is called to load directory d
Load(k, d) == task' = [task EXCEPT ![k] = [Idle EXCEPT !.wait = "listing", !.dir = d]]

\* the panel is opened or refreshed, a path is opened, ...
Navigate(k) ==
    /\ Reachable
    /\ task[k] = Idle
    /\ \E d \in Dirs : Load(k, d)
    /\ UNCHANGED <<tableVars, menuVars, drag, clipboard, dialogs>>

\* an upload is complete: it loads the current directory, whatever the user is doing
UploadEnds(k) ==
    /\ Settled
    /\ task[k] = Idle
    /\ Load(k, currentPath)
    /\ UNCHANGED <<tableVars, menuVars, drag, clipboard, dialogs>>

\* loadFiles() shows what the server lists: new rows without checkboxes
Show(d) ==
    /\ currentPath' = d
    /\ \E listed \in SUBSET {e \in Entries : Home[e] = d} : rows' = listed /\ records' = listed
    /\ boxed' = {} /\ checked' = {} /\ hidden' = {}
    /\ UNCHANGED <<query, allChecked>>

\* Deviation: what the clipboard holds is not looked at.
PasteClears == clipboard' = NoClipboard

\* pasteClipboard() goes on when its request has been answered and the listing is there: what
\* was cut is gone.  The clipboard is the one of this moment; if there is none the task fails.
PasteReturns ==
    clipboard' = IF clipboard.mode = "move" THEN NoClipboard ELSE clipboard

\* the answer to a request for a listing: the rows, an error, or none at all
ListingArrives(k) ==
    /\ Settled
    /\ task[k].wait = "listing"
    /\ task' = [task EXCEPT ![k] = Idle]
    /\ \/ /\ Show(task[k].dir)
          /\ IF task[k].kind = "paste" THEN PasteReturns ELSE UNCHANGED clipboard
       \/ /\ task[k].kind = "paste" /\ PasteReturns
          /\ UNCHANGED tableVars
       \/ UNCHANGED <<tableVars, clipboard>>
    /\ UNCHANGED <<menuVars, drag, dialogs>>

\* operation(), archiveRequest() and the functions that do the same: a good answer is followed
\* by a listing of the directory that is the current one by then
AnswerArrives(k) ==
    /\ Settled
    /\ task[k].wait = "answer"
    /\ \/ task' = [task EXCEPT ![k] = [Idle EXCEPT
                         !.wait = "listing", !.dir = currentPath,
                         !.kind = IF task[k].kind = "paste" THEN "paste" ELSE "load"]]
       \/ task' = [task EXCEPT ![k] = Idle]
    /\ UNCHANGED <<tableVars, menuVars, drag, clipboard, dialogs>>

\* Deviation: the dialog keeps the returnValue of its last use.
AskAgain(k, kind, entries) ==
    /\ task[k] = Idle
    /\ UNCHANGED dialogs
    /\ task' = [task EXCEPT ![k] = [Idle EXCEPT !.wait = "dialog", !.kind = kind,
                                                !.paths = entries, !.chosen = entries]]

\* task k opens customConfirm() or customPrompt() about some entries
Ask(k, kind, entries) ==
    /\ task[k] = Idle
    /\ dialogs' = dialogs \ {kind}
    /\ task' = [task EXCEPT ![k] = [Idle EXCEPT !.wait = "dialog", !.kind = kind,
                                                !.paths = entries, !.chosen = entries]]

\* Deviation: the request is about what is selected now.
SendSelected(k, pressed) ==
    task' = [task EXCEPT ![k].wait = "answer", ![k].paths = Selected, ![k].pressed = pressed]

\* the request of the task, about the entries it was called with
Send(k, pressed) ==
    task' = [task EXCEPT ![k].wait = "answer", ![k].pressed = pressed]

\* The dialog closes with ok or with cancel, which is its returnValue then, or with Escape, which
\* leaves the value alone.  The task goes on when the value is ok; a name that is typed may
\* still end it.
DialogCloses(k, button) ==
    /\ Settled
    /\ task[k].wait = "dialog"
    /\ dialogs' = CASE button = "ok"     -> dialogs \cup {task[k].kind}
                     [] button = "cancel" -> dialogs \ {task[k].kind}
                     [] button = "escape" -> dialogs
    /\ \/ /\ task[k].kind \in dialogs'
          /\ Send(k, button = "ok")
       \/ /\ task[k].kind \in dialogs' => task[k].kind = "prompt"
          /\ task' = [task EXCEPT ![k] = Idle]
    /\ UNCHANGED <<tableVars, menuVars, drag, clipboard>>

-----------------------------------------------------------------------------
(* The context menu, the buttons and dragging.                             *)

\* a right click on a row, or beside the rows
OpenMenu ==
    /\ Reachable
    /\ menu' = TRUE
    /\ \/ \E r \in rows \ hidden : contextEntries' = ChosenAt(r)
       \/ contextEntries' = {}
    /\ UNCHANGED <<tableVars, drag, clipboard, dialogs, task>>

HideContextMenu == menu' = FALSE /\ contextEntries' = {}

\* a click elsewhere, Escape, a resize; a menu entry that does nothing else here
MenuCloses ==
    /\ Settled
    /\ menu
    /\ HideContextMenu
    /\ UNCHANGED <<tableVars, drag, clipboard, dialogs, task>>

\* copy and cut: setClipboard()
MenuCopies(mode) ==
    /\ Reachable
    /\ menu /\ contextEntries # {}
    /\ clipboard' = [paths |-> contextEntries, mode |-> mode]
    /\ HideContextMenu
    /\ UNCHANGED <<tableVars, drag, dialogs, task>>

\* paste: the request goes out at once
MenuPastes(k) ==
    /\ Reachable
    /\ menu /\ contextEntries = {}
    /\ clipboard # NoClipboard
    /\ task[k] = Idle
    /\ task' = [task EXCEPT ![k] = [Idle EXCEPT !.wait = "answer", !.kind = "paste",
                                                !.paths = clipboard.paths,
                                                !.chosen = clipboard.paths]]
    /\ HideContextMenu
    /\ UNCHANGED <<tableVars, drag, clipboard, dialogs>>

\* open a directory
MenuOpens(k) ==
    /\ Reachable
    /\ menu /\ \E e \in Folders : contextEntries = {e}
    /\ task[k] = Idle
    /\ \E d \in Dirs : Load(k, d)
    /\ HideContextMenu
    /\ UNCHANGED <<tableVars, drag, clipboard, dialogs>>

\* delete, extract, rename and compress: removeEntries() and the others ask first
MenuAsks(k) ==
    /\ Reachable
    /\ menu /\ contextEntries # {}
    /\ \E kind \in DialogKinds : Ask(k, kind, contextEntries)
    /\ HideContextMenu
    /\ UNCHANGED <<tableVars, drag, clipboard>>

\* the delete button of a row: deleteEntry(); the button that makes a directory
ButtonAsks(k) ==
    /\ Reachable
    /\ \/ \E r \in rows \ hidden : Ask(k, "confirm", {r})
       \/ Ask(k, "prompt", {})
    /\ UNCHANGED <<tableVars, menuVars, drag, clipboard>>

\* a row is dragged
DragStarts(r) ==
    /\ Reachable
    /\ r \in boxed \ hidden
    /\ drag' = ChosenAt(r)
    /\ UNCHANGED <<tableVars, menuVars, clipboard, dialogs, task>>

\* ... and dropped on a directory
DragDrops(k, r) ==
    /\ Settled
    /\ drag # {}
    /\ r \in (boxed \ hidden) \cap Folders
    /\ Ask(k, "confirm", drag)
    /\ drag' = {}
    /\ UNCHANGED <<tableVars, menuVars, clipboard>>

\* ... or anywhere else
DragEnds ==
    /\ Settled
    /\ drag # {}
    /\ drag' = {}
    /\ UNCHANGED <<tableVars, menuVars, clipboard, dialogs, task>>

-----------------------------------------------------------------------------
TaskStep(k) ==
    \/ Navigate(k) \/ UploadEnds(k) \/ ListingArrives(k) \/ AnswerArrives(k)
    \/ \E button \in {"ok", "cancel", "escape"} : DialogCloses(k, button)
    \/ MenuPastes(k) \/ MenuOpens(k) \/ MenuAsks(k) \/ ButtonAsks(k)
    \/ \E r \in Entries : DragDrops(k, r)

Next ==
    \/ Observe \/ Search \/ TickAll
    \/ OpenMenu \/ MenuCloses \/ DragEnds
    \/ \E r \in Entries : Tick(r) \/ DragStarts(r)
    \/ \E mode \in {"copy", "move"} : MenuCopies(mode)
    \/ \E k \in Tasks : TaskStep(k)

Spec == Init /\ [][Next]_vars

\* The browser calls the observer.
FairSpec == Spec /\ WF_vars(Observe)

-----------------------------------------------------------------------------
(* Properties.                                                             *)

\* A request is about exactly the entries that were chosen when its menu, its drag or its
\* button was used, however often the rows and the selection have been replaced since, and a
\* request that asks first is sent only if the user pressed ok in its own dialog.
SentAsConfirmed ==
    \A k \in Tasks : task[k].wait = "answer" =>
        /\ task[k].paths = task[k].chosen
        /\ task[k].kind \in DialogKinds => task[k].pressed

\* The checkbox over all rows is checked exactly when every visible row is: after every
\* listing, search, sort and click.  (An empty listing does not reset it.)
SelectAllAgrees ==
    Settled /\ rows # {} => (allChecked <=> rows # hidden /\ rows \ hidden \subseteq checked)

\* What was copied can be pasted again and again: no paste that is still in progress takes it
\* off the clipboard when it ends.  (Something cut meanwhile is lost: README, "Known weaknesses".)
CopiedStays == [][clipboard.mode = "copy" => clipboard'.mode # "none"]_clipboard

\* The observer changes the table that it observes, and still comes to rest.
ObserverRests == records # {} ~> records = {}

=============================================================================
