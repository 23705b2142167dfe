# Verification of termdock

termdock is a Go program that serves one terminal and a file manager to a browser: a PTY that
outlives the WebSocket connections that use it, uploads in chunks, tmux control, archives, a
cloudflared tunnel in front of it all, and the page that runs in the browser. This directory holds
TLA+ models of the parts where goroutines, timers, locks, child processes, events and late answers
meet, the TLC configurations that check them, and proofs of the most important results for every
value of the constants.

    tlc -config MCSessionSafety.cfg MCPersistentSession.tla     # one run
    tlapm SessionManagerProofs.tla                              # one proof module

`PROJECT.json` lists the runs, which source lines every definition stands for, the hazards with
the properties that cover them, and for every property a plausible bug ("Deviation" in the
modules) that makes TLC find it violated.

## 1. Inventory

| Component | Source | State | Operations | Talks to |
| --- | --- | --- | --- | --- |
| PTY session | `server/persistent_session.go` | attachment (client, id, time of detachment), closed, done, wake channel, write lock | attach, detach, publish, ping, write, close, reapDetached | terminal process (calls), manager (channel `done`), handlers (shared state) |
| WebSocket bridge | `server/server.go` `webSocket`, `bridge` | input goroutine, heartbeat, idle timer | forward input, resize, ping, leave | PTY session |
| Session manager | `server/server.go` `terminalSession`, `closeTerminalSession`; `session/limiter.go` | `server.session` under `sessionMu`, the limiter | look up or start, clean up, end at logout | PTY session, authentication |
| Terminal process | `terminal/terminal.go` | PTY master, child process, closeOnce | Start, Read, Write, Resize, Close | kernel |
| Chunked upload | `server/upload.go` | `uploads` under `uploadMu`, one mutex per upload, temporary files | create, status, chunk, complete, cancel, sweep | file system |
| tmux targets | `server/tmux.go` | `defaultTmux` under `tmuxMu`, target of the session | attach, select window, detach, kill, create, rename, set default | tmux server, PTY, session |
| Tunnel manager | `tunnel/manager.go` | child process, restart delay, status | Start, Stop, superviseFixed, consume | cloudflared, application |
| Application | `app/app.go`, `cmd/webterm/main.go` | control, context | start tunnel, serve, stop, exit | all |
| Authentication | `auth/manager.go` | token, sessions | Exchange, Validate, Revoke, prune | HTTP handlers |
| File operations | `server/operations.go`, `server/server.go` | none but the file system | copy, move, rename, delete, simple upload | file system |
| Archives | `server/archive.go` | none but the file system | create, extract | file system |
| Configuration | `config/config.go` | none | merge defaults, file, environment | application |
| Client address | `server/address.go` | none | choose an address | HTTP handlers |
| Browser connection | `app/static/app.js` 1-19 | `socket`, `reconnectTimer`, `stopped`, the part that is shown | connect, reconnect, log in, restore, log out | server (WebSocket, cookie) |
| Browser upload | `app/static/app.js` 34-41 | `activeUpload`, its request, the progress line | upload chunk by chunk, retry, cancel | chunked upload (HTTP) |
| Browser file panel | `app/static/file-manager.js`, `app.js` 20-33, 44-49 | rows, selection, view, context menu, clipboard, dialogs | list, select, search, copy, cut, paste, drag, ask, send | file operations (HTTP) |
| Browser editor, tmux panel | `app/static/app.js` 29, 41, 51-64 | file that is edited, list of sessions | open, save, create | file operations, tmux targets |
| Terminal emulator | `app/static/xterm*.js` | | | vendored |
| Installation | `scripts/`, `packaging/` | | | static |

(Paths are relative to `src/internal/` where they start with a package.)

What is hard here, and what makes each part correct:

* **PTY session.** One reader, one reaper, and a handler and an input goroutine per connection
  share the attachment. The lock is dropped around every call that may block: closing a
  connection, writing to it, writing to the PTY, closing the terminal. So a decision taken under
  the lock may be old when it is carried out. Correct means that a late detach never takes the
  session from its successor, writes to WebSockets are serialised, a displaced keyboard is
  silenced, a detached session is reaped exactly when its *present* detachment has lasted, and
  closing ends every goroutine.
* **Session manager.** The slot of the limiter is released in four places (replacement of a
  closed session, failed start, cleanup goroutine, logout) that race. Correct means that the
  limiter counts the current session and nothing else, nobody is locked out, an old cleanup
  goroutine never evicts the successor, and logout returns whatever the teardown does.
* **Terminal process.** Interactive shells ignore SIGTERM, and closing the PTY master does not
  hang them up while a Read is in flight; Close is called by several goroutines. It must always
  return, with the shell dead and waited for once.
* **Chunked upload.** Two kinds of locks taken in both orders, a sweep that removes uploads under
  the feet of requests that already found them, failing disk operations, restarts. A published
  file must be complete, a cancellation that removed the file final, temporary files must not be lost.
* **tmux targets.** Four pieces of state (tmux's sessions, the client in the PTY, the recorded
  target, the default) and no lock that covers them, named by names that tmux takes in its own way.
  Between requests they should agree.
* **Browser.** Handlers run one at a time, but they wait for sockets, timers, answers and dialogs,
  and go on when everything else may have changed. A page should have one connection, or something
  that will bring one, until it is logged out. An upload should end over any network, publish only
  whole files, and not publish one that was cancelled. A request about files should be about those
  the user chose and confirmed, whatever has been listed, selected or copied since.
* **Tunnel manager.** Stop may run at any point of the restart loop. One process at a time, a
  backoff that follows the failures, and after Stop nothing is left and nothing comes back.

## 2. Plan

Modules in the order in which they were written; a composition is named with what it composes.

1. `SessionLease` (abstract), `PersistentSession`, implementing it
2. `SessionManager`: the manager over sessions that are reduced to their lease
3. `ChunkUpload`, implementing `UploadStore` (abstract: create, add a chunk, publish, drop)
4. `TmuxTargets`
5. `TerminalClose`
6. `TunnelManager`, with the application that uses it
7. `BrowserConnection`
8. `UploadClient`: the browser's side of the upload, composed with `UploadStore` over a network
9. `FileManager`
10. Proofs: `PersistentSessionProofs`, `SessionManagerProofs`, `ProcessProofs` (about `TerminalClose`
    and `TunnelManager`), `TmuxTargetsProofs`, `ChunkUploadProofs`, `BrowserConnectionProofs`,
    `UploadClientProofs`, `FileManagerProofs`

The upload is checked end to end in two halves that meet in `UploadStore`: `ChunkUpload` shows that
handlers, locks, failing disks and restarts implement the store, and `UploadClient` takes the store
as its server and adds the network and the page. In the same way `SessionLease` stands between one
session and the manager of sessions.

What could be added: a model of authentication composed with the manager, for the request that was let in before a logout; the window size over reconnects; the editor.

## 3. Modules

A block of code under a mutex is one step, because nobody else sees its middle; every lock that
is held over something that may block (`writeMu`, `uploadMu` in the sweep, the mutex of an upload
between Stat and Rename, `tmuxMu` in a rename) has its holder in a variable. Control is complete;
bytes, names, wording of errors and the window size are left out.

**SessionLease** says what a session promises: one holder at most, a connection that lost the
session never gets it back, a closed session is never held.

**PersistentSession** (`MCPersistentSession`). `client`, `clientID`, `detachedAt`, `closed` are the
fields of the struct, `wake` the token in `wakeReaper`, `writeMu` its holder. `hpc`, `ipc`, `rdpc`,
`rppc` are the program counters of handlers, input goroutines, reader and reaper, next to what each
captured under the lock (`hid`, `hold`, `rdConn`, `rdID`, `rpSaw`). `stage` is the progress of the
one `close()` that found the session open. `detachedAt` holds the id of the attachment that ended
instead of a time: an attachment ends once, so two detachments differ as clock readings would.
`ripe` says that the retention of that detachment has passed. A write to an open connection may
return or hang; a write to a dead one fails.

**SessionManager** (`MCSessionManager`). `session` and `active` are `server.session` and the
limiter. A session is reduced to who closed it, who is attached, and how far its PTY is. `maxLifetime` is the configured
one, chosen at the start and never changed. The
handlers do the lookup and the one retry of `webSocket`; `cleanup` is the goroutine that
`terminalSession` starts; `lpc`, `gpc` are the logout handler and the goroutine it waits for at most
five seconds. `Stuck` are sessions whose shell may survive even SIGKILL. `Begins` lets a behaviour start
with nothing, or with a session that an earlier connection has left behind (`LeftBehind`), a state that
an earlier request, which the run does not pay for, would have reached.

**TerminalClose** (`MCTerminalClose`). `once`, `onceDone` are `closeOnce`; `sent` are the signals
under way; `reading` is a Read in flight, which keeps the master open after `file.Close()`; `exited`
is the buffered channel of the goroutine in `process.Wait()`. Definitions that every module has carry the
name of this one here (`TerminalSpec`, `TerminalNext`), so that `ProcessProofs` can extend it next to
`TunnelManager`.

**ChunkUpload** (`MCChunkUpload`). `known` is the map, `received` the bit vector of an upload,
`stored` what the file really holds, `temp` the temporary files on disk. A slot is a request in
progress and serves any number of them one after the other. All uploads here compete for one
destination, `dest`. The file of one upload is only touched under its mutex, so that a handler's
work under it is one step, except between Stat and Rename, where other uploads matter. Two history variables tell
apart what a 204 may mean: `cancelled` are the uploads for which any cancellation was confirmed, also
one that found nothing in the map, and `removed` those of which a cancellation has removed the file, or
found it gone.

**UploadStore** says what an upload promises to those who use it: a chunk goes to a file that exists,
a file is published as a whole only, and one that was dropped never is.

**TmuxTargets** (`MCTmuxTargets`). Every tmux command, write to the PTY and locked block is a step
of a request. What is typed is taken to be executed at once, and the client in the PTY to be the
only one. `at` and `cur` are the session and the target a request has read and goes on to use after
the unlock. Names are not identities: `Resolve` is the session tmux takes `-t name` for, the one of that
name or else the only one whose name is `Longer`, and `Stored` the name that a new or renamed session
gets, which has no dots. What tmux makes of `-t` with a dot depends on its windows and panes and is not
modelled; it counts as not found, and no property relies on it. Two history variables say
how far the requests were in order. `undisturbed`: they came one at a time so far, no command failed
after another one had taken effect, nobody used the keyboard, and tmux took every name literally.
`orderly`: the same, but only of the requests that may change the sessions or the default, of which
renames may overlap with each other.

**TunnelManager** (`MCTunnelManager`). `app` is the control of `Run` through Start, serving and
Stop; `sup` the goroutine that waits for the process; `cmd`, `running` what `manager.mu` guards.
`LaunchChecks`, `LaunchForks` and `Records` are apart because Stop fits between them. `watched` are
the processes that a goroutine of os/exec will kill when the context is cancelled. `mode` is chosen
at the start. `failures` counts what the delay is meant to reflect; it steers nothing.

**BrowserConnection** (`MCBrowserConnection`). `socket`, `reconnectTimer`, `stopped` are the variables
of these names, `view` the part of the page that is shown. `ready` is the state of every WebSocket
object, because one that was given up closes later; `timers` are the timers that will fire, whether
the page remembers them or not; `call`, `answer` are the requests whose answers continue an async
function. Every event handler is an action. The server is reduced to `cookie`: it accepts an upgrade
only while it accepts the cookie.

**UploadClient** (`MCUploadClient`). `pc` is the place where the `onchange` handler waits; `id`,
`index`, `attempt`, `cancelled` are the fields and loop variables. A request of the page sits in
`requests` until the server serves it, which may be after the page gave it up, and `answer` is what
comes back, if it does. `requests` is a set: a retry of a chunk that is still on its way is merged with
it. That the server has stored a chunk is said of the file it had, which may have been dropped since. The server is `UploadStore`.

**FileManager** (`MCFileManager`). `rows`, `boxed`, `checked`, `hidden` are what the table shows;
`records` is what the MutationObserver has not been told yet, and no other event comes before it is
(`Settled`). `task` are the async functions in progress and what each waits for: a dialog, an answer
or a listing. `dialogs` is the `returnValue` of the two dialogs, which outlives a use. History fields
of a task say which entries were chosen for it and whether ok was pressed.

Actions of what is not code of this repository (tmux, cloudflared, the kernel, the user) are
marked external in the map.

## 4. Runs

| Run | Question | Instance |
| --- | --- | --- |
| `session_safety` | Are writes serialised, late detaches harmless, late input bounded, is the reaper's decision about the present detachment, is the lease implemented? | 2 connections that both type and may both be dropped, retention and idle timeout; symmetric, 2.5 M states |
| `session_liveness` | Do displaced handlers return, is a detached session reaped, does a close end everything, although writes may hang? | 2 connections, retention; 0.2 M states |
| `session_idle` (violation) | Does the idle timeout close the session? | 1 connection, no retention |
| `manager` | Is the limiter exact, is no open session evicted, do retries meet another session? Does a logout return although a teardown hangs, do closed sessions leave by themselves, does the lifetime end a session? | 2 sessions of which one may be stuck, 1 request, which finds nothing or a session left behind, 1 logout, with and without a maximum lifetime; 0.33 M states |
| `upload` | Do the handlers implement the store? Final cancellations, no lost temporary file, no deadlock, with failing disk and restarts? | 2 requests at a time, 2 uploads of 1 chunk; 0.52 M states |
| `upload_replace` (violation) | Is an existing file left unchanged? | 2 uploads to one name |
| `tmux` | Do target, client and default agree between requests that come in order and name sessions as tmux does, and is `tmuxMu` released? | 2 requests at a time, keyboard use, missing windows, PTYs one after the other, 3 names: one begins with another, one has a dot; 2.6 M states |
| `terminal` | Does every Close return, with the shell dead and waited for once? | 3 callers, a shell that ignores SIGTERM; 326 states |
| `tunnel` | One process, the right backoff, does a fixed tunnel come back, is Stop final? | both modes, 3 process ids, delays 2, 4, 8, 15; 4.7 k states |
| `browser_connection` | One connection at most, always one on the way, none while it is stopped, back again after every loss? | 3 sockets, 2 timers, 2 requests in flight; 11 k states |
| `browser_files` | Is a request about what was chosen and confirmed, is the checkbox over all rows true, does a copy survive its pastes, does the observer rest? | 2 entries of which one is a directory, 2 directories, 2 tasks; 1.9 M states |
| `browser_upload` | Is a chunk skipped, a cancelled upload published, does every upload end? | 2 uploads, 2 chunks, 3 attempts; 0.2 M states |

Why these bounds are enough for the cases that matter:

* An attachment displaces only the one before it, and a handler that is displaced can only be late
  with a detach, a ping or an input. Two connections show every such pair.
* Two sessions are the fewest where one is replaced by another; a request meets at most two
  sessions because it looks up at most twice. One request suffices, because other connections matter
  to it only through the session they leave behind: a run begins with nothing or with such a session
  (`LeftBehind`). The safety properties of the manager are proved for any
  number of requests and logouts.
* Two requests are what a lock-order problem needs; one upload can be swept by one and completed by
  the other. The number of chunks matters to `ImplementsStore` only, which is proved for any number.
* Three names are one that tmux can take for another (`w_1` for `w_1b`) and one that it changes (`w.1` to
  `w_1`); two sessions that a short name could mean are as good as none.
* Three process ids let a new process start while the last one is still recorded in `manager.cmd`.
  The delays double twice, are capped once and are reset, as 2 s to 5 min do.
* Three sockets are one that closes slowly, its successor, and one too many; two timers are the one
  that is remembered and one that was forgotten; two requests let a logout race a login.
* Two entries can be selected both, in part and not at all; two tasks overlap, and one is enough to
  replace the rows under the other.
* Two chunks have a first and a last; two uploads let requests of one outlive it into the next.

Bounds that cap something unbounded: `Conns` (each attaches once), `Sessions` and `Uploads` (ids are
never used again), `Sockets`, `Timers`, `Calls`, `Tasks` and `Ptys` (as many at a time), `MaxTimers`.
Where they run out, new requests fail or are not accepted, which only shortens behaviours. Deadlock is
checked in every run; where the system really ends, an action that changes nothing says what the end
looks like (`Terminated`, `Finished`, `AllReturned`).

### Fairness

* Goroutines that can run do run, and a lock that keeps being released is obtained in the end
  (strong fairness of the step that takes it): Go's `sync.Mutex` hands a waiter the lock after a
  millisecond, and its scheduler does not starve goroutines.
* `select` picks at random among ready cases, so a case that is ready again and again is taken
  (`SF` of `PauseCancelled`).
* Timers fire. Detachments ripen, the grace period ends, the pause elapses.
* The handler that holds `tmuxMu` runs and its tmux commands return; nothing else is assumed of tmux or
  of other requests.
* The models of the server assume nothing of the browser, of the user, of input, of cloudflared, or of `WriteMessage` on
  a connection that is open. `PersistentSession` takes the PTY to be hung up once the shell is dead.
* The browser calls its observer, fires timers, closes a socket that is closing, and goes on with what
  it has an answer for; a request is answered or fails. `app.js:38` sets no time limit, so
  that this is what the network and the browser owe: they give up a connection that is dead. `Reconnects` also takes for granted that a
  page which tries again and again with a good cookie is let in some time.
* A restart of the binary that can succeed is not refused for ever (`FixedTunnelComesBack` only).

`DisplacedHandlerReturns` makes one exception: the output goroutine may hang for ever in a write to the
connection that is attached *now*, with `writeMu` held, and a displaced handler that wants to ping then
waits with it. `ping` has a deadline, but only once it holds the lock. A write that takes its time and
returns excuses nobody.

## 5. Proofs

TLAPS checks these for every value of the constants; TLC checked each invariant first. Every safety
property of a run that passes, and every refinement, is a theorem of the specification that the run
checks, without the fairness and over all its initial states.

`ImplementsLease` of `SessionManager` is proved and not run: with one connection nothing can be
displaced, and with two the manager has too many states. `session_safety` checks the
lease of one session with two connections.

**PersistentSessionProofs** (assumption `SessionAssumption`: finitely many connections, and the names of
the free lock, of the reader and of the nil connection are not connections). `TypeCorrect`,
`OneWriterCorrect`, `LateInputCorrect`, `AttachmentCorrect`, `ReaperCorrect`, and `LeaseCorrect`, which says
that the session implements `SessionLease`: an attach is a Take, a current detach a Lose, the first close
the End, everything else a stutter. None of these is inductive alone. `IInv` adds that `writeMu` has one
owner who is inside a write (`WriterInv`); that attachments are numbered and the current one is the last
(`AttachInv`), so that a late detach never matches a successor; that the reader gives up a current
attachment only if its connection is dead (`ReaderInv`); that a connection whose input came late is
displaced (`InputInv`); and that the detachment the reaper is about to confirm is over or has run out
(`ReaperInv`). There is one lemma for each of these parts, with a step for every action that touches its
variables; the other actions leave the part `Same`.

**SessionManagerProofs** (assumption `ManagerAssumption`: finitely many sessions, a limit of at least
one, the nil values are not sessions or connections). `TypeCorrect`, `SlotCorrect`, `LimitCorrect`,
`OwnershipCorrect`, `RetryCorrect`, `EvictionCorrect`, and `LeaseCorrect`, which says that every session
implements `SessionLease`. `SlotMatchesSession` alone is not inductive: the cleanup goroutine clears the
slot if its session is current, which leaves an open session without an owner unless that point is
reached with a closed session only. So the invariant `IInv` adds which program points are reached only
after a close (`ClosedPoints`), that a logout goroutine exists only for a session that was taken
(`LogoutPoints`), what handlers hold (`HandlerPoints`) and that sessions which refused a request are
closed for good (`RefusedPoints`). It holds with nothing
running, and with a session left behind. The key lemma is `FreeSlot`: a request that must start a session finds
every slot free, because the only one ever taken is that of the closed session it replaces. There is
one lemma per group of actions, with a step for every action.

**ProcessProofs**, about the two kinds of processes the program starts and has to get rid of.

* The shell (assumption: the absence of a caller is not a caller). `TerminalTypeCorrect`, `ReturnCorrect`,
  `WaitCorrect`, for any number of callers. The invariant ties the caller inside `closeOnce` to its
  program point (`OnceInv`) and to where the outcome of `Wait` is: still with the goroutine, in the
  channel, or consumed with the shell reaped (`OutcomeInv`).
* cloudflared (assumption: finite ids, positive initial delay, not above the maximum).
  `TunnelTypeCorrect` and `OneTunnelCorrect`, for both modes. The invariant says that the only process
  that can be alive is the child of the goroutine that waits for it, and that it lets go of its child
  when it is dead (`ChildInv`).
* The safety half of `StopIsFinal`: `StopCorrect` (when `Run` has returned, either the tunnel is over or
  the context is cancelled and os/exec watches every process that is left) and `NoRestartCorrect` (once the
  context is cancelled, no process is started but the one the supervisor was starting already). Both rest
  on who can have cancelled the context (`ContextInv`). That the processes which are left do end is
  liveness and stays with TLC.
* `BackoffCorrect`: the delay is at all times, and not only in a pause, the initial one doubled once per
  recent failure, or the maximum (`DelayInv`). `Doubled` is a recursive function; that it exists and what it
  returns is proved by induction in the form that quantifies over sets instead of operators
  (`SetInduction`, from the well-foundedness of the naturals).

**TmuxTargetsProofs** (assumption `TmuxAssumption`: the nil value is no request, name or PTY, and the name
tmux gives to a session is one it leaves alone). `TypeCorrect`, `TargetCorrect` (`TargetMatchesClient`),
`DefaultCorrect` (`DefaultExists`) and `LockCorrect`, for any number of requests, tmux sessions and PTYs
one after the other, and whatever names begin with each other. Both agreements speak of the moments
between requests only, so what must be inductive is what holds in the middle of one: which arguments a
request has at which point (`RequestInv`, along the `Path` of its operation), who has `tmuxMu` (`LockInv`),
that undisturbed requests come one at a time (`SingleInv`), that of orderly ones only renames overlap
(`OrderInv`), that what such a request made sure of with tmux still holds (`SessionInv`, `FoundInv`), that
the default exists or a request is about to repair it (`DefaultInv`), that a client needs a PTY that runs
(`ClientInv`), and what the client shows at every point, namely the recorded target or what the request
will record (`MatchInv`: `Agrees`, with what the request remembers of its first look in `Remembers`). That
renames may overlap in `DefaultCorrect` is the work of `tmuxMu`: `OthersWait` says that while one of them is
inside, no other is about to change anything. `ResolveSession` is all that is used of how tmux finds
a session by its name. `LockCorrect` says that the mutex, which is not reentrant, is only ever held by a
rename that is not about to lock it again; `LockReleased`, the liveness, stays with TLC.

**ChunkUploadProofs** (assumption `UploadAssumption`: finitely many chunks, the nil value is no slot,
upload, chunk or operation). `TypeCorrect`, `DestinationCorrect` (a published file holds every chunk),
`CancelCorrect`, `TemporaryCorrect`, `LockCorrect`, and `StoreCorrect`, which says that the handlers
implement `UploadStore`. That a published file is whole is not inductive: it needs that marks never run ahead of
the file (`MarkInv`), and that nobody else moves or removes the file between the check and the rename,
because the completion holds the mutex of the upload (`RenameInv`). A cancellation that removed the
file is final because the upload has no file any more and gets none again (`CancelInv`); that no request
finds an upload after any 204 needs that nothing puts one back into the map (`MapInv`, `MapAlways`). A
temporary file is not lost because a completion takes an upload out of the map only when its file has
moved (`OwnerInv`). `LockCorrect` is the
safety half of `EveryRequestAnswered`: whenever requests are in progress, one of them does not wait for a
mutex, because `uploadMu` is held by a request that sweeps, and the mutex of an upload by a completion
that is about to rename and wants no other (`LockInv`).

**BrowserConnectionProofs** (assumption: `undefined` is no socket and no timer). `TypeCorrect`,
`OneSocketCorrect`, `ConnectsCorrect`, for any number of sockets, timers and requests. That no socket
but the current one is live needs nothing else; that a page which is wanted has a socket or a timer needs
that a timer which is remembered is pending, and one that is pending is remembered.

**UploadClientProofs** (assumption `ClientAssumption`: the nil value is no upload). `TypeCorrect`,
`ChunksCorrect`, `CancelCorrect`, and `ProgressCorrect` (`ProgressShown`: the timer of an earlier upload
does not hide the progress of the active one). The difficulty is that requests outlive the upload they
belong to. That no chunk is skipped needs that a good answer to the request the page waits for means that
the chunk is there (`AnswerInv`); that a cancelled upload stays unpublished needs that no completion of
it is under way, whatever else is (`RequestInv`), from the moment its id travels to the page (`FreshInv`).
`NetworkIInv` is the one lemma for everything the server and the network do.

**FileManagerProofs** (assumption `FileManagerAssumption`: what `Root`, `Folders`, `Home` and `Queries`
are about). `TypeCorrect`, `RequestsCorrect` (`SentAsConfirmed`), `SelectCorrect` (`SelectAllAgrees`) and
`CopyCorrect` (`CopiedStays`), for any number of entries and overlapping tasks. That a request was confirmed
needs that the value of a dialog is reset before each use and that dialogs come one at a time, which a
drag that ends in one must not break (`DialogInv`). That the checkbox over all rows agrees needs that the
callback of the observer which ends a round of mutations finds it in agreement already (`SelectInv`),
because every row without a checkbox starts another round (`BoxInv`).

Only model-checked: liveness, because the prover does neither fairness arguments nor ENABLED. These are
`DisplacedHandlerReturns`, `DetachedIsReaped`, `CloseEndsEverything`, `LogoutReturns`, `ClosedSessionLeaves`,
`LifetimeEndsSession`, `EveryRequestAnswered`, `LockReleased`, `CloseReturns`, `StopIsFinal`,
`FixedTunnelComesBack`, `Reconnects`, `ObserverRests` and `Settles`.

## 6. Where code and documents disagree

Two runs expect a violation:

* `session_idle`. `config.go` and `docs/quick-start.md` say that `idle_timeout` closes the idle PTY. The
  handler only ends its connection; the session stays for `session_retention`, and for ever if that is
  zero.
* `upload_replace`. An upload to an existing name is refused with 409 and leaves the file alone, say the
  tests. Two uploads that complete together both pass `os.Stat`, and the second `os.Rename` replaces the
  file of the first.

### Known weaknesses

Stated in the MC modules, and checked by no run; add the property to a configuration to see the trace.

* `ReaperSparesAttached` (`MCPersistentSession`). The reaper releases the lock between its last look and
  `close()`: a browser that reattaches right then is accepted and closed.
* `LivePTYsWithinLimit` (`MCSessionManager`). Logout and the replacement of a closed session give the
  slot back before the old shell is gone, so that more than `max_sessions` PTYs run for a moment.
  The comment in the code chooses this deliberately, so that a login right after a logout succeeds.
* `ConfirmedStaysAway` (`MCChunkUpload`). A cancellation that finds no upload in the map is answered with
  204. If that is because an earlier cancellation waits for the mutex of the upload, which a completion
  holds, the completion publishes the file after the 204; likewise after a cancellation that failed with
  500, and after an expiry whose removal failed, for a completion that had found the upload before.
* `AttachTypedOnce` (`MCTmuxTargets`). Two concurrent requests both read "no target" and both type
  `attach-session`, the second into the tmux client of the first.
* tmux takes `-t name` also for the only session whose name begins with `name` (the code never writes
  `=name`). With `dev2` alone, attaching to `dev` shows `dev2` and records `dev`; killing `dev` ends
  `dev2`, and a default of `dev2` stays.
* The handlers allow dots in names, and tmux turns them into underscores: creating `work.main` makes the
  default `work.main`, and the session is called `work_main`.
* `DefaultSetExists` (`MCTmuxTargets`). For both reasons a default may be set that does not exist, and for
  a third one: a request to set the default has passed `has-session`, waits for `tmuxMu` while a rename of
  that session is under way, and writes the old name right after the unlock.
* `TargetMatchesClient` without `undisturbed`. `select-window` fails after `switch-client` has moved the
  client; the target then names the old session. The property is also lost with two requests at a time
  (a rename between the read and the clear of a detach). `DefaultExists` without `orderly`: besides the
  above, two requests that change sessions or the default overlap (a kill between the creation of a
  session and its becoming the default).
* `NoTunnelAfterExit` (`MCTunnelManager`). Interrupted while it waits for the URL, `Start` returns without
  Stop; and Stop may miss a process that is launched but not recorded. In both cases only the goroutine
  of os/exec ends the process, and the program may exit first.
* Temporary files of unfinished uploads survive a restart for ever, because the map is in memory only,
  and so does a file whose removal failed (`TemporaryOwned` allows exactly these).
* `ExpiryNoticed` (`MCBrowserConnection`). The page shows the login form when a socket closes with 1008 or
  4401, but the server refuses an upgrade without a good cookie with 401, which a browser reports as
  1006: a page whose cookie has ended tries again for ever. In the same way two tabs displace each other
  for ever.
* `LogoutEnds` (`MCBrowserConnection`). If the request of a logout fails, the page stays as it is, stopped;
  and a login or a restore that is answered after the click starts the connection again.
* `EndsWithoutFile` (`MCUploadClient`). The answer to a completion is lost, or a cancellation comes too
  late: the page says that the upload is paused or cancelled although the file is there. "Choose the same
  file again to continue" creates a new upload, which starts with the first chunk. A DELETE that is lost
  leaves the file until the sweep.
* The file panel: an empty listing leaves the checkbox over all rows and the count as they were; rows that
  a search hides stay selected, so that operations on the selection include them; a paste of something
  cut clears whatever was cut while it was in progress; extracting and compressing go to the directory
  that is shown when the dialog closes; listings, and the contents of two files that are opened one after
  the other, may arrive in the wrong order, and saving then writes the one into the other.
* `app.js:13` remembers the size that was sent last over a reconnect, so that the PTY of a new session
  keeps its default size until the window changes.

## 7. Not modelled

* Authentication: every operation is one locked block over one map. What is missing is its composition
  with the manager (a request let in before a logout starts a session after it).
* File operations and archives: sequential walks over a file system; what can go wrong is partial output
  and the gap between Lstat and Rename, the like of which `upload_replace` shows.
* Configuration: a pure merge of defaults, file and environment, covered by unit tests.
* The editor and the tmux panel of the page, terminal input and output, the status line.
* Client address: a pure function of a header and an address, covered by unit tests.
* Resizing, downloads, the contents of listings: they change no state the properties read.
* Reuse of process ids by the kernel, and a background job that keeps the terminal open after the shell
  is dead, so that Read never returns; the slot of such a session is freed by the next connection.
* Vendored JavaScript, shell scripts, packaging.
