# A verification project for dblab

dblab is a terminal client for PostgreSQL, MySQL, SQLite, Oracle and SQL Server, written in Go
on Bubble Tea. This directory holds TLA+ models of its concurrent and stateful parts, the TLC
configurations that check them on small instances, and TLAPS proofs of what matters most for every
instance: how a batch of statements is executed, cancelled and reported, what a session keeps while
its requests overlap, and what the screen, the editor, the pool, the history file, the catalog tree
and the plan directives guarantee.

Paths below are relative to the repository (`pkg/client/client.go` is `src/pkg/client/client.go`).

## 1. The system

### 1.1 Components and how they interact

| component | code | state it keeps | operations | modelled by |
|---|---|---|---|---|
| query execution | `client.AsyncQuery`, `runConcurrentlyCmd` | semaphore, result channel, wait group, context, one goroutine per statement | run a batch, cancel it | `AsyncQuery`, `QueryBatch` |
| TUI session | `bubbletui.Model.Update`, `editor.go` | the requests under way, `cancelQuery` | execute the editor or a line, describe a table or view, ctrl+c | `Session` |
| result set panel | `resultset.go` | tabs, `tablesMetadata`, `activeTab`, viewport | show results, metadata, notices; move between tabs | `ResultSet` |
| sidebar catalog | `sidebar.go` | the catalog tree | reload after DDL, replace the tree, pick a relation | `Catalog` (when), `Browse` (what) |
| query editor | `editor.go` | text, cursor, mode, pending operator, register | keys of both modes, run all or one line, insert a picked query | `Editor` |
| focus, modals, mode, status bar | `bubbletui.go`, `query_history.go`, `schema.go`, `status_bar.go`, `editor.go` | `focus`, `fullScreen`, one flag and one size per panel, two modals, the editor's mode, what the bar shows | keys, window sizes, modal messages | `Focus` |
| query history | `internal/history/hitstory.go`, `saveQueriesCmd` | a gob file | read, append and rewrite | `HistoryFile` |
| connection pool | `client.New`, `SetActiveSchema`, `database/sql` | connections and their session settings | set up, run statements, switch schema | `ConnPool` |
| metadata and catalogs | `client.go`, `postgres.go`, `mysql.go`, ... | none | one query after another | `Dialect`, `Browse`; one step of `Session` |
| query plans, their parsers and diff | `pkg/plan` | none | parse, normalise, compare, guard | `PlanTree`, `PlanDiff`, `PlanGuard` |
| plan baselines | `pkg/plan/baseline.go` | a directory per query, a file per name | save, list, load | `Baselines` |
| plan directives | `client/plan.go` | a transaction or a pinned connection per directive | plan, analyze, baseline save, diff, list | `Plans` |
| profiles | `internal/profiles` | a JSON file, its temporary file, the OS keyring | load, save, delete | `Profiles` |
| connect menu | `bubbletui/connect.go` | a list of profiles and a cursor | load, pick, delete | `ConnectMenu` |
| connection form | `pkg/form` | step, cursor, one input per option | keys | `Form` |
| connection strings and tunnel | `pkg/connection`, `pkg/sshdb` | dialers registered by name | validate, build, register | `Connection` |
| start-up | `cmd/root.go`, `cmd/connect.go`, `app.New` | the options of a launch | flags, form, `--save-as`, `connect` | `Startup` |
| configuration file, key bindings | `pkg/config` | none | decode once | no, see section 6 |

Everything the user sees goes through one function, `Model.Update`, run by Bubble Tea in one
goroutine. It never blocks: what takes time it returns as a *command*, which Bubble Tea runs in a
goroutine of its own and whose result comes back to `Update` as a message. Commands are started in
order, but nothing orders their messages. A batch is one such command; inside it
`AsyncQuery` starts a goroutine per statement. A batch's answer goes to the result set, which
returns another command that rewrites the history file, and to the sidebar, which may return one
that reads the catalog again. All of them share one `database/sql` pool.

So the hard behaviours are: messages in any order; one field (`cancelQuery`) shared by all
requests; three widgets with one focus; goroutines with early returns under a cancelled context; a
file rewritten by concurrent commands and processes; settings that belong to one connection of a
pool.

### 1.2 What makes each component correct

- *Query execution.* Every statement answers exactly once, no send blocks or panics, never more
  than `maxConcurrency` connections, nothing left behind, results in statement order, and a
  cancelled batch comes back.
- *Session.* ctrl+c cancels a running batch before it may quit; the switch never points at a batch
  that is over; every answer leaves a panel to show; the tree catches up with DDL.
- *Focus.* Exactly one panel is lit, the one with the focus; it has the size of the current layout;
  closing a modal gives the focus back; the bar shows the mode and schema in use.
- *Editor.* The cursor stays in the text; no key or message loses a line but those that erase; a
  query from the history arrives as a statement of its own; ctrl+r runs its line and no other; an
  operator never fires on a key that was meant as text.
- *Catalog and metadata.* A tree put together from many queries has what was there all the while and
  nothing that never was; the tabs shown together describe the relation that was selected.
- *History.* Every executed statement is kept, in order, in a file that can be read.
- *Pool.* Statements run with the settings the user asked for.
- *Start-up.* What is typed goes to the input under the cursor; a profile that is listed can be
  used; the keyring keeps no password of a profile that is gone; a session opened from a profile
  logs in with a password saved for it; a connection through the tunnel finds its dialer. Where two
  profiles share a service of the keyring, the code does less; section 5.
- *Plans.* A row of an EXPLAIN is in the tree below the row it belongs to, and none is lost but
  those two of the parsers do not read; a diff accounts for
  every node of both trees once and is quiet exactly when nothing it looks at changed; it compares
  with the newest baseline of the name; what EXPLAIN ANALYZE executes is rolled back, and asking
  for a plan leaves the connection the next statement gets as it was.

`PROJECT.json` lists the hazards, each at its line with the properties aimed at it.

## 2. Modules

```
QueryBatch  <== implemented by ==  AsyncQuery
   (one "running" phase of a batch of Session stands for a QueryBatch)
Session  = Model.Update  +  INSTANCE ResultSet  +  INSTANCE Catalog
Browse   = sidebar and Client.Metadata, over  Dialect
   (a reload of Catalog, and "Describe" of Session, query by query)
Focus        Editor        HistoryFile        ConnPool
Startup  = Form  +  Profiles  <--  ConnectMenu,  over  Connection
Plans    = Baselines  +  PlanGuard  +  PlanDiff  -->  PlanTree
MCxxx extends xxx with the values a .cfg cannot write
xxxProofs extends xxx: AsyncQuery, Session, Focus, Editor, ConnPool, Browse,
                       Plans;  StoreProofs extends HistoryFile and Startup
```

**`QueryBatch`** is what a batch promises: each statement gets one answer, `cancelled` only after
the user killed the batch, and one report with the answers in statement order, after the last of
them.

**`AsyncQuery`** is the code. A goroutine's `pc` names the statement it executes next, so that every
receive, send and deferred call is a step. `Spawn`, `SpawnCloser` are the loop of `AsyncQuery`;
`AcquireToken` and `GiveUp` the two cases of its `select`; `Start`, `Answer` the call of the
database on the three branches (plan, read, exec) with every error path; `Send`, `CloseRows`,
`ReleaseToken`, `Done` the end of the goroutine and its deferred calls; `CloseChannel` the closer;
`Receive`, `Return` the collector; `Cancel` the user. `SendResult` requires a free slot and an open
channel, so that `CanSend` says the code neither blocks nor panics there.

**`Session`** gives every request a phase (idle, fired, running, answered, shown) and has one action
per message `Update` handles, per command that returns, and per key of the user. `QuerySuccessMsg`
is the whole handler: the kill switch is cleared, the result set replaces its tabs and hands the
batch to `saveQueriesCmd`, the sidebar asks for a reload. `ResultSet` and `Catalog` hold those
components' state; each of their operations is conjoined with the session's. A batch whose text
has no statement is allowed where the code allows it.

**`Focus`** has one action per key and message that moves the focus, resizes panels or changes the
mode or schema. `inbox` counts the commands and messages under way; any may be delivered next. The
flags and sizes of the three panels are separate variables set by hand in every transition, as in
the code.

**`Editor`** is the text behind the editor: lines of tokens (words, semicolons, picked queries), a
cursor, the modes with `dd`, `yy`, `p`, `x` and their register, what ctrl+e and ctrl+r make of the
text, and the keys that `Model.Update` passes on to the panel that *now* has the focus. A query from
the history is a message under way, so that anything may be typed before it arrives. The textarea
is a library: `Put`, `SetValue` and `InsertLines` say what the editor gets from it.

**`Dialect`** is pure: for each of the five drivers, what the queries about the database answer, as
functions of the database. An answer is reduced to the places its rows are about (a schema and a
name), which is what tells a right tab from a homonym's. **`Browse`** reads with them, one query per
step, while anybody creates, drops and replaces relations (`Alter`): the reads of the catalog (at the
start and after a DDL), and the requests for the tabs of a node. `always` and `ever` of a read are
history: what existed during all of it, and at some time of it; `raced` has the requests that
overlapped.

**`HistoryFile`** splits a save where other goroutines and processes can see it: the read, the
truncation, and the two writes of the gob encoder (types, then value). Two encoders write each part
at the same offset, which is why a file is described by the parts it has.

**`ConnPool`** models `database/sql` as handing out a free connection if there is one and a new one
otherwise, keeping at most `MaxIdle`; `setting` is what `SET SESSION` and `set search_path` change.

**`Connection`** is pure: `ValidateOpts`, `BuildConnectionFromOpts` and what `SSHTunnel` registers,
as functions of the options. A connection string is the record of what it carries. **`Form`** is the
wizard, one action per step and key with the inputs that have the focus as a set. **`Profiles`**
runs each save and delete as a job of single steps (keyring, temporary file, write, rename), any of
which may fail or be the last one before the process dies. An entry of the keyring is filed under a
service and a user, both texts: the service of a profile's password is its name, that of its tunnel's
the name with "-ssh" behind it (`SSHService`), and nothing in the model keeps the second from being
another profile's name, as nothing in the code does. **`ConnectMenu`** is the list over it:
commands that load it or delete from it, answered in any order. **`Startup`** composes them: one dblab
at a time is launched with flags, with the form or as `dblab connect`, with or without
`--save-as`; the profile file and the keyring are what survives it. A delete under way when
the menu is left with `enter` goes on beside the session (`JobRuns`), and stops with the process.

The invariants of `Startup` name what they exempt. `lost` holds the passwords of listed profiles that a
delete removed, because it was stopped before it rewrote the file or because they were filed under
the SSH service and user of the profile it deleted; `loose` those of a save that did not get to the
file, or was saved over. `given` has the names and options of all saves. `overlapped` is set once two
deletes ran at once, because each rewrites the whole file from what it
read: `ctrl+d` on an item while the previous delete has not answered brings a deleted profile back
without its password.

**`PlanTree`** is pure: from the rows, elements or lines of an answer to a tree of operators. A tree
numbers its nodes in the order they are printed and keeps each one's parent, so that the pointers the
parsers build become a function. XML nests (`Nested`), SQLite names the parent's id (`Referred`), Oracle
and MySQL's iterator trees are parsed with a stack (`OracleStack`, `IteratorStack`), each popped by its
own rule. JSON is read from the first element down (`Visited`): PostgreSQL's parser follows everything
below it, and never gets to a second plan; MySQL's goes on with the first operation of a block it knows
(`Inner`), the entries of a join, the blocks of a union or of a derived table (`MySQLFollowed`), and
with nothing else. `From` says which row each node was made of. **`PlanDiff`** is `Diff`: the three
greedy passes of `pairChildren` over the children of every pair, and what `compareNodes` looks at. An
alignment is the set of its pairs; the order in which they are printed is left out. **`PlanGuard`** is
the policy for EXPLAIN ANALYZE, which sees the first word of a statement and the calls its regular
expressions look for. What the statement *does* is a set of its own in `Plans` (`does`): rows a rollback
brings back, or something lasting; a statement that begins with WITH, calls a function or reads a view
may do either, whatever its text shows. **`Baselines`** is the directory of one query; a save truncates
the file in one step and writes it in the next.

**`Plans`** runs statements with and without directives in several goroutines, as a batch does, over
one pool. `AnalyzeBegins` and `AnalyzeEnds` are the transaction of `runAnalyzeIsolated`,
`ShowplanOn`, `ShowplanRead` and `ShowplanOff` the pinned connection of `runSQLServerExplain` with
its deferred calls; `SaveBegins` and `SaveEnds`, `Latest` and `Load` what a directive does with the
baselines. Any call may fail, which stands for a refusal of the server, a cancel and a full disk.
Four variables are history: `effects` is what directives did to the database and a rollback has not
undone, with the statement that did it, `spoilt`
the connections that went back to the pool with SHOWPLAN on because dblab could not know or did not
look, `calm` the diffs during which no baseline was replaced, and `floor` (in a job) the age of the
newest baseline when the diff was asked for.

## 3. Runs

| run | instance | shows |
|---|---|---|
| `async` | 3 statements, one per branch, 2 tokens | the safety properties, refinement of `QueryBatch`, and that cancelled batches return |
| `session` | 2 batches, 1 table, 1 view, texts of 0, 1 and 7 statements, a user who waits | panels, kill switch, catalog, cancellation |
| `blank_line` | as `session` | **violation** of README.md:602: a line of blanks crashes the TUI |
| `focus` | 2 schemas, 1 message of each sort under way | focus, layout, mode, schema, modals |
| `editor` | texts of 5 tokens and line ends, 1 query to pick | cursor, lines, statements, operators |
| `browse` | 5 drivers, 2 schemas, 2 names, 2 databases, 3 events | the tree and the tabs while the database changes |
| `history` | 4 saves, with failures and crashes | what always holds of the file |
| `history_race` | 3 saves, no fault | **violation** of README.md:624: two overlapping saves wipe what was saved before |
| `pool` | 3 connections, 3 goroutines, 2 schemas | settings hold while the pool has needed one connection |
| `pool_readonly` | as `pool` | **violation** of README.md:197: the second concurrent statement may write |
| `startup` | 2 names, one the SSH service of the other, 2 launches, flags of every sort | the form, the profiles and the tunnel |
| `plans` | 5 dialects, 2 goroutines, 2 connections, 2 names | parsing, comparing, baselines, and what directives leave behind |

### Bounds and why they are enough

- `async`: with 3 statements and 2 tokens one goroutine waits for a token while two hold one; one
  of each branch meets every error path. The proofs remove the bound.
- `session`: two batches are enough for a switch that belongs to the wrong one, a table and a view
  have different numbers of tabs; 7 is above `maxQueries` (5), and both batches run DDL. Whether
  the user waits is the constant `Overlap`: with `FALSE` a request is made only when nothing is
  under way, which is what the documentation describes; with `TRUE` at any time.
- `focus`: `MaxInFlight` bounds each sort of command or message, so that a modal can be closed by a
  late message of another one. `Racing = FALSE` keeps two mode changes, or two schema switches,
  from being under way together; they overtake each other otherwise, and the properties that
  depend on it name it.
- `editor`: `MaxTokens` (5) counts line ends, so that there are texts of three lines with a
  statement on one of them, and statements over two lines. `MaxQueries` is 2 instead of 5, so that
  the cut happens. `MaxPicks = 1`: a second pick only queues behind the first. `MaxRegister` keeps the
  line in the register to one token; longer ones are pasted like it. The proofs have no bound.
- `browse`: two schemas make homonyms; of the two names one is folded to the other by PostgreSQL and
  Oracle, as a quoted one is. `Budget` (3) counts changes, requests and reloads together, and
  `MaxChanges` (2) is a drop and a creation: a relation can come back as one of another kind between
  two queries. Two requests can overlap. The proofs have no bound.
- `history`: a race takes two saves, and one each before and after it; a fault may hit any of them.
- `pool`: `MaxIdle` (2, the default of `database/sql`) is below the number of connections, so that
  some are closed and lose their settings. `MaxPicks = 1` keeps one schema switch at a time.
- `startup`: two launches, since one writes what the next reads. The second of the two names is the
  first with "-ssh" behind it, and the users of the tunnels are also users of the databases, so that
  saving or deleting the first profile meets the password of the second; three sets of profiles may be
  there at the start (none, the second, both). `Flags` has one of each sort
  the code tells apart (none, with SSL, a URL over SSH, a URL over SSH with `--driver`). `Typed`
  limits the inputs whose text varies to the limit, the only one the form checks.

- `plans`: PostgreSQL has some thirty plans and two statements, so that any two plans are compared
  (a save and a diff): all sequences of up to two scans of three kinds, three-child ones that make
  the passes of the diff compete, changes of one column each, and joins two levels down. Oracle has
  every indentation of up to four rows, MySQL's iterator trees every one of up to four lines, which
  is where a stack can pop one too many or too few. One PostgreSQL answer has two plans, as a rule makes
  them; MySQL's JSON has a join, a union, a derived table, and of what its parser drops a window,
  the SELECT of an INSERT and the subquery of a condition. The statements have one of each sort the
  guard tells apart, and three it does not: a WITH that deletes, a function, and a view that
  advances a sequence. SQLite has three statements: two saves and a
  diff. The two names share a file after sanitizing, as do two default names within a second; two
  goroutines are enough for a save during a diff and for a statement that gets the other's connection.

`startup`, `plans` and `browse` disable the deadlock check, because launches, statements and requests
are bounded. In `editor` there is always a key. In the others the modules have an explicit stuttering
step where the program stops or ends (`Terminated`, `Stopped`, `Crashed`, `AllEnded`).

### Fairness

- `AsyncQuery`: every step of a goroutine that can run is weakly fair, because the Go scheduler is.
  Nothing makes the database answer; a driver is relied on only to return when its context is
  cancelled, as the comment on client.go:274-275 does. `select` is weakly fair as a whole, not
  each case.
- `Session`: messages are delivered, and a *cancelled* batch returns (which `CancelReturns` shows
  of `AsyncQuery`). A batch that is not cancelled may run for ever.
- `Focus`: the messages that close a modal are delivered. Fetches may take for ever.

## 4. Proofs

Eight modules hold theorems. None has a bound of the runs: the sets of statements, batches, schemas,
saves, connections, relations, goroutines, profiles, flags and launches are arbitrary, and so are the
length of a text and the rows of a plan.

| module | theorem | property |
|---|---|---|
| `AsyncQueryProofs` | `Inductive`, `TypeCorrect` | `IInv`, `TypeOK` |
| | `SendsNeverBlock` | `CanSend` |
| | `ConnectionBound` | `ConnectionsCapped` |
| | `CleanAfterReport` | `NothingLeftBehind` |
| | `ReportOrdered` | `ReportInOrder` |
| | `Refinement` | `Implements` |
| `SessionProofs` | `TypeCorrect` | `TypeOK` |
| | `PanelIsThere` | `PanelExists` |
| | `SwitchAlive` | `SwitchIsLive` |
| | `QuitOnlyIdle`, if `~Overlap` | `QuitsWhenIdle` |
| | `TreeIsCurrent`, if `~Overlap` | `TreeCurrent` |
| `FocusProofs` | `TypeCorrect` | `TypeOK` |
| | `OnePanelLit` | `OnlyFocusIsLit` |
| | `ScreenNeverBlank` | `NeverBlank` |
| | `ScreenLaidOut` | `LaidOut` |
| | `StatusBarCorrect` | `StatusBarTrue` |
| `EditorProofs` | `TypeCorrect` | `TypeOK` |
| | `TypingIsPlain` | `NoOperatorWhileTyping` |
| | `NoLineLost` | `LinesKept` |
| | `PicksStandAlone` | `PickStandsAlone` |
| | `LinesRunAlone` | `SingleRunsItsLine` |
| `StoreProofs` | `HistoryTypeCorrect`, `StartupTypeCorrect` | `HistoryTypeOK`, `TypeOK` |
| | `AlwaysReadable` | `StaysReadable` |
| | `SerialSavesKept` | `SerialKept` |
| | `EntriesInOrder` | `OldestFirst` |
| | `ListedCanBeUsed` | `ListedHasSecret` |
| | `NoSecretStays` | `NoSecretLeftBehind` |
| | `PickedPasswordBelongs` | `PasswordBelongs` |
| | `TunnelFindsDialer` | `TunnelReady` |
| | `TypingReachesCursor` | `TypingGoesToCursor` |
| `ConnPoolProofs` | `TypeCorrect`, `ReadOnlyUntilSecond` | `TypeOK`, `ReadOnlyOnFirst` |
| | `SettingsUntilSecond`, if `MaxPicks <= 1` | `SettingsOnFirst` |
| `BrowseProofs` | `TypeCorrect` | `TypeOK` |
| | `TreeIsFaithful` | `TreeFaithful` |
| | `TabsAreAboutSelected` | `TabsDescribeSelected` |
| | `ShowsTheLast` | `ShowsLastSelected` |
| `PlansProofs` | `AnalyzesAreUndone` | `AnalyzeUndone` |
| | `RunsAreReal` | `RunsForReal` |
| | `DiffsWithNewest` | `ComparesWithNewest` |
| | `RowsArePlaced` | `RowsKept` |
| | `DiffsAlignOnce` | `AlignedOnce` |
| | `ReorderingsAreQuiet` | `ReorderingIsQuiet` |

The assumptions are those the modules state about their constants (`BatchAssumption`,
`SessionAssumption`, `PoolAssumption`, `DialectAssumption`, ...), which TLC evaluates in the runs, and
the conditions in the table, which are hypotheses of the theorems: with `Overlap = TRUE`, or two schema
switches at once, TLC finds the property violated. Five say something of the world:

- `EditorAssumption`: a query of the history is no semicolon and no white space, since the history
  has the parts between semicolons that were not empty (bubbletui.go:629-640).
- `ProfilesAssumption`: a profile file found at the start is a finite map of well-formed options, since
  it was written from a Go map of `Options`, whose fields are strings; `StartupAssumption` says the
  same of the flags.
- `SomeDocuments`: an answer has a row; rows have a depth, or ids in SQLite, which prints a row below
  its parent (rows that name each other would be no tree, and the parser would lose them); and
  DBMS_XPLAN prints one tree in preorder, so that a row is at most one deeper than the last. Oracle's
  parser pops by the length of its stack and would put a row that skips a level, and those after it, in
  the wrong place.
- `ServicesAssumption`: a name with "-ssh" behind it is not that name, and no two names give the same.
- `CallsSeen`: no call of a MySQL statement is a sequence's or dblink's, because the regular expressions
  that look for those are applied to PostgreSQL only (safety.go:120-129).

Some of it is induction over data: the stack of a parser, the newest of a set, the order of a list.
The library's induction theorems take a predicate, which no installed prover can instantiate, but an
induction about *one* set needs no predicate: it is a proof that the set of counterexamples has no
least element. `Least` gets that from `WFMin`, `InductionUpTo` and `Greatest` follow, and `Recursion`
says that a function defined by its value before exists, which makes the recursive functions of the
model equal to their definitions.

None of the properties is inductive. What makes them so is what the code relies on silently.

*A batch* (`IInv` of `AsyncQueryProofs`):

- the semaphore holds one token per goroutine between its `select` and its deferred release
  (`TokensInv`), and the wait group counts the goroutines that have started and not finished
  (`WaitGroupInv`): the two counters are cardinalities of sets of goroutines;
- a connection is only held between `Start` and `CloseRows` (`ConnInv`), hence by a goroutine with
  a token, hence `ConnectionsCapped`;
- each result sent is in the channel or collected, once (`ChannelInv`): the elements of both are
  the goroutines that have sent, and their lengths add up to its cardinality. One that has not
  sent yet makes that smaller than `N`, so the channel has a free slot;
- the channel is closed only over goroutines that are done (`CloseInv`), because the wait group is
  zero and no goroutine is unborn.

`ReportOrdered` needs that sorting a permutation of `1..N` gives the identity: the k-th element is
the one with k-1 smaller ones (lemma `SortedCollected`). `Refinement` maps each
step to `Answer`, `Kill`, `Return` or a stutter of `QueryBatch`.

*The session*: a batch not yet running has a live context (`FreshIsLive`), so the switch that
`QuerySuccessMsg` clears and a new execution overwrites is never one of the past. For a user who waits
there is at most one request or reload under way (`OneAtATime`), hence the switch is that of the batch
that runs (`Armed`), and a reload that was read after the last DDL is what the tree gets (`HasRead`).

*Focus*: the messages under way form a bag of known sorts (`InboxOK`); each transition sets the flags
and sizes of all panels it touches (`PanelsInv`); a modal that has the focus is open (`ModalsOK`); and
the mode and the schema the bar shows differ from the current ones only while a message that will
correct them is under way (`ModeInv`, `SchemaInv`).

*The editor*: `Placed` says the text has a line, the cursor is on one of them and within it. Each way
of changing the text is cut and glued from sequences (`PutSpliced`, `LinesJoined`, `LineReplaced`),
and the proof is that the cursor goes along.

*Lines of a text*: how often a text has a line is the cardinality of its places. Every operator, paste
and pick gives each line of the old text, but the one it puts into the register, a place of its own
in the new one (`AsManyCopies`), so that there are no fewer.

*The statements of a text*: a semicolon, or the end, ends a statement if there is something between it
and the semicolon before (`Solid`). If nothing is left at the end of a text, those of the text and of
what follows it are not mixed (`FirstPart`, `SecondPart`), so that the statements of both are those of
the one and then those of the other (`StatementsOfTwo`, by an induction over the tokens). The lines
of a text are joined by line ends, which change no statement (`JoinedTwo`, `AfterLineEnd`). A picked
query on a line of its own is such a text (`PickedText`), and so is each line that ends its statements
(`OneLineMore`); what is cut off at `MaxQueries` line by line is cut off the whole (`CappedThen`).

*The history file*: whatever part of the file is missing after a truncation, some save has still to
write it (`WillBeWritten`), hence a race without faults ends in a file that can be read. Saves that
never overlap work on what was saved before (`OneAtATime`). What any save has read or is about to
write is in order and older than what it appends (`OrderInv`), whatever was lost in a race.

*Profiles and keyring*: as long as deletes do not overlap, each job is between two of its steps, and
says which of the two stores is ahead of the other: a save has put the password before the file, a
delete has removed it after (`StoreInv`, of `Serial`, `JobInv`, `Listed`, `Left` and `SavedInv`).
So a profile in the file without its secret is one of a delete under way or cut off, or one whose
secret a delete took for that of its tunnel (`lost` has both), and a secret without profile one of a
save under way or cut off. Whatever a save writes under an SSH service that is another profile's name
leaves that profile a password, if the wrong one; so the collision matters to `lost` only when a profile
is deleted. The temporary file has what some job wrote from what it read, which is still the file, since
only one job rewrites it at a time. Where the password of a picked profile comes from needs no such
restriction: by `RingInv` every entry of the keyring was given to some save, as the password or as the
SSH password of the profile whose service it is, and `PickedInv` follows it to the launch; that no two
names have one SSH service leaves one other profile it may be from.

*The form*: of each step's inputs the one with the focus is that under the cursor, and none has it
where none is shown (`FormInv`); the cursor is reset or kept by every way from one step to another.
*The tunnel*: options are well-formed wherever they come from (`ShellInv`), so a launch that goes on
over SSH has registered the dialer of the driver that opens it, by both ways to name a driver
(`OpenedDriver`, `URLDriver`, `FieldsDriver`).

*The pool*: while one connection was opened, it is the idle one or the one that is held (`OneConn`), and
its settings are what the session asked for, or a schema switch is about to make them so. Two switches
at once may reach the connection in one order and the status bar in the other, hence `MaxPicks <= 1`.

*The catalog*: a record of a read is `Complete` (what existed all the while was found or its query
is still to come), `Sound` (what was found existed at some time) and `UpToDate` with the database;
`Queue` says which schemas are left. *The tabs*: what was read so far is about the node (`Described`),
and a relation whose rows were found is still there for its columns while nothing changes
(`StillThere`). *The panel*: a request that did not overlap another is the only one under way.

*The plan directives*: an effect that a rollback undoes is one of a goroutine whose transaction is open,
and that goroutine is between `AnalyzeBegins` and `AnalyzeEnds`, which ends it on every path.
One that lasts was done by a statement that passed `Guard`, so not by one whose first word or calls
show it (`ShowsEffects`, which is stated on the statement, without the dialect; for MySQL `CallsSeen`
is needed). A connection in the pool with SHOWPLAN on is one of `spoilt`.

*Baselines*: until a diff that nobody disturbs has answered, the directory has a baseline as new as the
newest there was when it was asked; and once it has picked a name, the file of that name is one
(`CalmInv`). A save that goes on meanwhile only adds newer ones.

*The tree of a plan*: after each row, the rows on a parser's stack are below one another, the row
itself is on top, and every row so far is on the stack or was closed by one that is not deeper
(`StackInv`). So what is below the top is the nearest row before it that is less deep, which is where
the answer puts it (`TopIsEnclosed`), or nothing is. One lemma (`PushKeeps`) serves both parsers, since
each pops down to the first row that is less deep; for Oracle, which pops by length, that takes
the invariant that depths on the stack count from 0 (`OracleInv`). `Rooted` adds a root unless there
is exactly one (`RootedKeeps`). The rows the JSON parsers came to are in the order they are printed,
and each but the first is inside one of those before it, on which it was followed (`VisitInv`,
`VisitKeeps`); so its parent is that of the row around it (`JSONTree`). What PostgreSQL's follows is
everything inside, so that it comes to all rows up to the next as little deep as the first, and to
none after it (`FirstPlanVisited`).

*The diff*: a plan, saved or answered, is a `Tree`: the parent of a node comes before it, unless it is
the root (`RowsMakeTree`); and the files only have such plans (`FilesGrown`). A pass of `pairChildren`
gives a new child an old one that is free, so that no old child has two partners (`MatchKeeps`,
`PassKeeps`), and whoever has none is added or removed (`MatchedOnce`): the nodes below a pair are
paired once each (`BelowOnce`). By the levels of `Alignment`, a node that is in no pair, or in two, has a
parent that is, down to the root (`LevelsComplete`, `LevelsUnique`).

*Reordered children*: one tree is the other but for order if some bijection of their nodes keeps the
nodes and who is below whom (`Reordered`). If the siblings can be told apart, one old child fits each
new one by operator and object, which is the one the bijection takes to it; so the first pass finds
them all (`PassFinds`), the others find nothing to do (`PassRests`), and along the levels of
`Alignment` every pair is one of the bijection's (`ChildrenFound`, `ReorderedIsQuiet`), whose nodes are
equal. Conversely, if nothing is reported, no node is paired with none, so the pairs are a bijection,
and they keep who is below whom since nodes are compared only below nodes that are
(`QuietIsReordered`). That equal operators, indexes and costs make nodes equal but for the object needs
one more part of `Tree`: a node, whichever parser made it, has these four fields (`ParsedNoded`).

Model-checked only: liveness under fairness, that is `CancelReturns`, `CancelledIsShown` and
`EscReturns`, which is out of reach of the provers used here.

## 5. What was found

1. ctrl+r ignores only the empty line (editor.go:126-142). A line of blanks becomes a batch
   without statements, and its answer indexes an empty `tablesMetadata` (resultset.go:338).
   (`blank_line`)
2. `SaveHistory` takes every read error for an empty history while another save has the file
   truncated (hitstory.go:83-86, 96). (`history_race`)
3. `--readonly` and the schema are set on one connection of the pool (client.go:149-183).
   (`pool_readonly`)

What the model of the session says besides: with `Overlap = TRUE`, `QuitsWhenIdle` does not hold.
`cancelQuery` is one field, a second execution overwrites it and any answer clears it
(bubbletui.go:346, 349), so that the next ctrl+c quits dblab over a batch that runs and that nobody
cancelled. README.md:618 describes one batch at a time, for which the theorem `QuitOnlyIdle` holds.
`TreeCurrent` does not hold either: of two reloads the one that answers last is shown.

What the models of the start-up say besides, where no document promises otherwise:

- The keyring's service of a tunnel's password is the profile's name with "-ssh" behind it
  (profiles.go:129, 177), which may be the name of another profile. With profiles `prod` over SSH
  and `prod-ssh`, where the SSH user of the one is the database user of the other, deleting `prod` removes
  the password of `prod-ssh`, which stays listed and can neither connect nor be deleted; and
  saving `prod` overwrites it, so that `prod-ssh` logs in with the SSH password of `prod`.
  `ListedHasSecret` and `PasswordBelongs` name this case, and both runs and theorems go through it.
- `DeleteProfile` empties the keyring before it rewrites the file (profiles.go:170, 192-198).
  `ctrl+c` over "Deleting...", or a failing write, leaves a profile that is listed, cannot connect, and
  cannot be deleted either, because `keyring.Delete` finds no secret. `ListedHasSecret` exempts the
  passwords in `lost`, and no other.
- `enter` over a delete that has not answered leaves the delete running beside the session, until
  it is done or the session ends; ended early, it is one of those above.
- `--driver postgres` with a PostgreSQL URL over SSH registers one driver name twice, which panics
  (`Panics`).
- A profile keeps no SSL password; `BuildConnectionFromOpts` ignores the SSL mode of MySQL, and the
  form's SSL step of MySQL is left only by moving above the first input and `enter`, or by `esc`;
  none of Oracle's SSL inputs has the focus until the cursor moves (`TypingGoesToCursor` exempts it);
  `esc` in the form connects with what was entered so far.

What the model of the plans says besides:

- EXPLAIN ANALYZE "blocks write statements" (safety.go:95) by their first word: a WITH that inserts
  or deletes is executed. Its rows come back with the rollback; a sequence it advances, which is what
  safety.go:113-116 blocks an INSERT for, does not, nor do the effects of functions, views and triggers
  that call one. `AnalyzeUndone` says a lasting effect is never one that shows in the first word or
  as a call of nextval, setval or dblink, and not that there is none.
- MySQL's JSON parser (parse_mysql.go:82-99, 216-231) makes no node of a window, a buffer, the SELECT of an
  INSERT, or the subqueries of a condition or a select list, nor of what is below them: the tree of a
  query with a window function is a single `query_block`, and two plans that differ in such a part are
  identical to a diff. PostgreSQL's (parse_postgres.go:39-46) shows the first plan of a statement that
  a rule has made several of. `RowsKept` names both.
- `compareNodes` ignores the object (diff.go:191), so that a plan that reads another table at the
  same cost has no changes and is reported as identical. `ReorderingIsQuiet` says so: no change
  means the same tree but for order and objects.
- Siblings with the same operator *and* object are paired by position, so that swapping two scans
  of one table with different costs prints two changes, in spite of "produces spurious ones" at
  diff.go:78-80. The property asks for siblings that can be told apart (`TellsApart`).
- When `SET SHOWPLAN_XML ON` is cancelled after the server executed it, or OFF fails, the connection
  goes back to the pool and plans the next statement instead of executing it (client/plan.go:287-292).
  `RunsForReal` exempts the connections in `spoilt`, and no other.
- A diff during which a baseline is replaced may find none or an older one, since the file is
  truncated first (baseline.go:96); two writers of one file may leave a mixture that a list skips.

What the models of the catalog and its tabs say besides (`Addressable` and `ByName` name what
`TabsDescribeSelected` exempts):

- only PostgreSQL and Oracle get the schema of the node (sidebar.go:155-159, 166-171), so that on SQL
  Server a node outside the default schema shows another relation of that name, or an error;
- constraints on MySQL, constraints and indexes on SQL Server, are searched by name alone, and those
  of homonyms in other schemas are shown with them;
- names are not quoted, so that PostgreSQL and Oracle do not find one that has to be;
- PostgreSQL and MySQL list a view among the tables as well (`Stands`), and an Oracle schema without
  tables is not listed with its views (`Covered`).

What the model of the editor says besides: ctrl+k in insert mode cuts the rest of the line, since the
key that moves the focus is passed on to the textarea (`CutByKey`); `esc` at the start of a line moves
the cursor to the line above; after `p` the cursor is at the end of the text, where a second `p` pastes;
a pending `d` survives changes of focus and picks; ctrl+r on a statement over several lines runs a part
of it; a query picked below an unfinished statement becomes part of it (`PickStandsAlone` asks for a
line that ends one).

## 6. Not modelled

- *Statement texts, rows, rendering*: abstracted to outcomes and indexes throughout. Of the metadata
  queries, `Dialect` has the relations their rows are about, not the values nor the columns. `Session`
  and `Catalog` take a read to be atomic, `Browse` does not.
- *Plans*: decoding of JSON, XML and text, rendering, the tables of vendor labels (a function given
  by the configuration), the metrics but the cost, and the two formats the client never asks for
  (traditional MySQL, text SHOWPLAN). `Fingerprint`, which lowercases literals as well
  (baseline.go:58): `Plans` is about one query.
- *Details left out of definitions that are modelled*: `Signature` compares objects in lower case
  (diff.go:187), so the objects of the model are names up to case. `SaveBegins` reads the clock and
  truncates the file in one step (baseline.go:82, 96); a save between the two would only swap which of
  two baselines written at once counts as the newer, and `ComparesWithNewest` is about the newest that
  the files name, whichever it is. The lists of SQLite leave out what is `LIKE 'sqlite_%'` (sqlite.go:138),
  which is SQLite's own tables and any whose name begins with `sqlite` and one more character: the
  relations of `Browse` have no such name. Oracle's query for a view has
  placeholders of another kind than its others (oracle.go:182), which may fail: any query may
  (`TabFails`).
- *Configuration and keys*: decoding without control worth a model. The configuration file is one
  more source of the options `Startup` takes from flags.
- *Pagination*: the client only ever reads the limit and the offset of the first page.
- *SSH tunnels*: `Connection` models which dialer is registered under which name; the handshake,
  known_hosts and the agent are network code.
- *Filtering the list of profiles*: the list is a component of `bubbles`.
- *Expanding, searching and scrolling the tree*: the treeview library's. Two things follow from the
  code around it that no property is about: a window resized while the catalog is read leaves a tree of
  the old height (sidebar.go:289), and a tree replaced in the middle of a search leaves `searching`
  set (sidebar.go:247).
- *Other keys of the textarea* (ctrl+w, ctrl+u, alt+d and the like): `Editor` has those that write, erase
  or move by one, and the ones dblab binds.
- *enter in an empty history*: `Focus` steps through the panic (query_history.go:104); no property
  forbids it, because the repository promises nothing there.

## 7. Plan

Done: every component of section 1.1 but the last; proofs for the modules with state, and every safety
property of the runs.

What is left, in this order:

1. The tree of the sidebar with its cursor and its height, once the behaviour of the library is
   described.
2. The configuration file as a source of options for `Startup`.
