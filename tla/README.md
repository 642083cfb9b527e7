# Skill Manager: TLA+ specifications

Skill Manager is a local web application that keeps skills, MCP servers, slash
commands, agents and native plugin packages in one central place and installs
them into the configuration of several coding agents ("harnesses": Claude Code,
Codex, OpenCode, Cursor and others). There is one backend process. Its FastAPI
routes are synchronous functions that run on a pool of threads, so requests run
concurrently; its state is files, most of them guarded by `flock` (`file_lock`)
and replaced by rename (`atomic_write_text`), and a small SQLite database. The
files it writes are also edited by their real owners: the user and the harnesses.

The specifications here model the parts of the backend that decide what is
overwritten, deleted, claimed or lost when those actors interleave, fail or
crash, and the pure functions on which those decisions rest.

## Inventory

| Component | Code (`src/skill_manager/`) | State | Operations | What must hold |
|---|---|---|---|---|
| Native package deployment | `application/skills/package_deployment*.py`, `native_package_*.py` | `packages/deployments.json`, plugin directories and registrations of a harness, staging area | deploy, update, remove, enable, disable, repeat, reconcile | a call deletes or claims only what the service made; a failed or crashed call loses no copy |
| Native harness answers | `application/skills/native_package_cli.py`, `native_package_runtime.py` | none of its own | inspect, verify, cut a registration out | the two readings of one answer agree |
| Managed packages | `application/skills/managed_packages.py` | `packages/manifest.json`, kept trees | adopt, record a failure, refresh | a tree is recorded or absent; what was found out is not forgotten |
| Package sources | `application/skills/source_package.py`, `package_resolution.py` | none | find the package, read its manifests, tell its source | the source contradicts no evidence |
| Skills store | `application/skills/store.py`, `manifest.py` | `shared/<package>`, skills manifest | ingest, update, delete | a package and its entry come and go together |
| Skill bindings | `application/skills/adapters.py`, `directory_links.py` | links and directories in each harness's skills root | enable, disable, adopt, materialize, remove | a binding points to the store; a local directory is never lost |
| Skill mutations | `application/skills/mutations.py`, `policy.py` | none of its own | manage, unmanage, update, delete, enable for all | a multi-harness operation that fails leaves a state every other operation can start from |
| Runtime skills | `application/skills/runtime.py` | a saved snapshot and one in memory | refresh, disconnect, restore | the last success is what is shown and saved |
| Read models | `application/skills/read_models.py`, `application/mcp/read_models.py`, `application/invalidation.py` | snapshot with a time to live of one second | read, invalidate | a reader that starts after a mutation sees it |
| Slash commands | `application/slash_commands/` | command store, rendered files, `sync-state.json` | create, update, delete, sync, import, restore, adopt, migrate | an edit of the user is detected before it is overwritten; every managed file is recorded |
| MCP servers | `application/mcp/` | central store, each harness's MCP configuration | install, uninstall, enable, disable, adopt, reconcile | no binding without a server; a partial failure is reported and can be repeated |
| Document stores | `atomic_files.py` and the stores built on it | one JSON document each | set or remove one entry | updates are not lost, the lock is given back |
| OpenCode agents | `application/agents.py`, `opencode/` | agent files, `opencode.json(c)`, apply-state file | create, edit, permissions, apply and its confirmation | the apply state tells which text the running OpenCode has |
| Runtime | `cli/`, `runtime/` | state file with pid and port, the server process | start, stop, status, serve | at most one background server, and the state file names it |
| Scan configuration, scans | `db/`, `application/scan/` | SQLite table of LLM configurations; a scan in flight | create, update, delete, activate; scan | at most one active configuration; what was acknowledged is durable; a report says what it left out |
| Marketplace catalogues and caches | `application/*marketplace*`, `application/skills/marketplace/`, `application/mcp/marketplace/` | cache files, HTTP | fetch, cache, page, install | what is served is as new as promised |
| Harness catalogue and settings | `harness/`, `application/settings/` | support store | detect, enable, disable | a disabled harness is not written to |
| API and packaging | `api/`, `packaging/`, `scripts/` | none | routing, serialisation | - |
| Web UI | `frontend/` | browser state | - | - |

How they interact: an API route calls a mutation service; that one reads a cached
read model, then the store (under the store's file lock), then one adapter per
harness (under that file's lock or none), then invalidates the read models. No
lock spans two of these. The command-line interface starts and stops the process
that holds all of it, and knows it only through a state file. Background threads
refresh the caches of the marketplaces.

What is hard here: two requests between whose steps nothing is locked; the user
or a harness writing the same files; results of a check used after a native
process or a download; multi-step file operations cut by a crash or an I/O
error; partial failure over several harnesses; caches filled from a scan that
began before an invalidation; decisions made twice in different code that have
to agree. `PROJECT.json` lists each place under "hazards", with the properties
that are about it.

## Modules

| Module | Models |
|---|---|
| `PackageDeployment` | native package deployment: service, ownership rules, facts of the native adapters, user, harness, crashes |
| `PackageOwnership` | what the deployment of packages promises of the directories it works on; `PackageDeployment` implements it |
| `ManagedPackages` | the manifest of packages that are kept whole |
| `SlashSync` | slash commands: the command store, the rendered files, `sync-state.json`, concurrent requests, the user, crashes |
| `SkillManagement` | standalone skills: a package of the shared store, its manifest entry, its place in each harness, cached snapshots, concurrent requests, the user, failures and crashes |
| `McpServers` | one MCP server: manifest, harness files, read model, concurrent requests |
| `KeyedDocument`, `LockedDocument` | what a store of one JSON document promises; the lock file and the rename that implement it |
| `AgentConfig` | saving and applying OpenCode agents over several files without a lock |
| `ServerLifecycle` | `start`, `stop`, `status` and the server process |
| `ScanConfigs`, `SkillScan` | saved LLM configurations and the database; one scan |
| `RuntimeSkills` | the skills a running OpenCode server reports |
| `Marketplaces` | cached answers of the marketplaces, their ages, readers, writers and background refreshes |
| `SourcePackages`, `PackageSources` | which directory is a package and what it declares; where it came from |
| `NativeAnswers` | what the answers of claude, codex and opencode prove |
| `ServerConfigs`, `ServerInstall` | the form of an MCP server in each harness; installing one from the registry |
| `AgentDefinitions` | what a configuration says of an agent, and what an edit makes of it |
| `CommandReview` | what the slash command library shows of harness folders, its reviews, and the migration |
| `CataloguePages` | the pages of the marketplaces |
| `MCPackageDeployment`, `MCPackages`, `MCPackageCalls`, `MCSlashSync`, `MCSkillManagement`, `MCMcpServers`, `MCBackend`, `MCServices`, `MCAlgorithms` | finite instances |
| `PackageDeploymentProofs`, `SlashSyncProofs`, `SkillManagementProofs`, `LockedDocumentProofs`, `McpServersProofs` | theorems about the module of the name, the last also about `ServerConfigs` and `ServerInstall` |
| `PackagesProofs` | more theorems about `PackageDeployment`, and those about `ManagedPackages`, `PackageSources` and `NativeAnswers` |
| `BackendProofs` | theorems about `ServerLifecycle`, `ScanConfigs` and `SkillScan` |
| `ServicesProofs` | theorems about `AgentConfig`, `RuntimeSkills` and `Marketplaces` |

### PackageDeployment

One harness root. `disk` is the plugin directory at each placement, as its
identity (inode) and fingerprint; `stage`, `backup` and `leftovers` are the
contents of `.skill-manager-staging`; `native` is what the harness itself lists;
`ledger` and `removed` are `deployments.json`. A call works under
`packages/manifest.lock` from its first read to its last write, so `op`, the call
in flight with its program counter and local variables, is one variable.

Steps: the user and the harness do not take the lock. A call is cut where it runs
a native process or copies a tree, because that is where other actors have time
to act; a check followed by a file operation with no such call between them is
one action. `deploy` is `BeginDeploy`, `StageSnapshot`, `Promote`, `Install`,
`VerifyPlaced`, `CommitDeploy`, with `InstallFails` and `RollbackDeploy` for its
error paths; `update` is `BeginUpdate`, `StageSnapshot`, `Recheck`, `VerifyOld`,
`SwapOut`, `SwapIn`, `Reinstall`, `RestoreOff`, `VerifyPlaced`, `CommitUpdate`,
`CleanUp`, and `remove` is `BeginRemove`, `VerifyOwned`, `RecheckRemove`,
`Uninstall`, `RemoveTree`, `RecordRemoved`, or `RemoveAbsent` when only the ledger
has to follow. `Abort` is every exit that changes nothing but the stage.
`RecordFails` is an error of `_new_record`, which lies between the handlers that roll
back: the copy that was placed stays, and an update's backup is not put back. A
rollback may itself meet an error of the file system (`Stuck`): `_rollback_created`
swallows it, before or half-way through the deletion, `_restore_backup` raises it.
The history variable `faulted` names the copies that such an error left behind, and
the two properties about failures say what holds of them and that of everything else
more holds.
`UserCreates`, `UserChanges`, `UserDeletes`, `UserConfigures` and
`UserChangesStaging` may happen between any two steps; `Crash` drops the call and
the lock and leaves the files.

The three harnesses differ as their adapters do: claude discovers every directory
and its list becomes unreadable when two have one name; codex caches a copy and
keeps its own enablement; opencode has one registration per directory and no
enablement.

`PackageOwnership` is the same service without its calls, its places and its
harness: directories, each with its identity and content, those the service made,
and what each record claims. A snapshot is copied (`Make`) and taken back if nobody
changed it (`Discard`), a record claims one (`Claim`, `Replace`) or is forgotten
(`Retire`), a claimed directory is deleted as it was made (`Remove`), and after a native
uninstaller whatever is found there (`Uninstall`, then `Purge` or `GiveUp`). The mapping
(`Owned`) forgets where a directory is, so that renames, native commands and checks
are stutters, and a failure or a crash must come out as one of these steps or
none: that is `IsOwnership`. What the user may do is `Edit`: any one directory.

Left out: planner blockers that do not depend on this state (policy, artifact
state, format, isolation), which are a call that does not begin or aborts; links
and files at a placement (refused by the same checks as a foreign directory);
the private marketplace files of codex; `rmtree` failing half-way, except for the
target of a removal, the backup of an update and the copy that is rolled back; a
stage that cannot be removed; reuse of an inode number by the file system.

### SlashSync

One command of the library. `command` is its file in the store, `files` the file
rendered for each target, with its document and who has the say over it, and
`records` the content hash `sync-state.json` holds for each target. The command
store and the sync state each have a lock, held for one read-modify-write; no
request holds one while it touches a harness file. So a request is a thread,
`reqs`, with a program counter and the variables it carries from one step to the
next, and it is cut at every file operation and every locked section.

`Create`, `Update`, `Sync`, `Delete`, `Adopt`, `Restore` and `RemoveBinding` are
the seven requests (import is `Adopt` of a document without a command).
`sync_command` is `ReadCommand`, `PlanSync`, then for each planned write
`WriteFile` and `HashFile` or `WriteFails`, for each planned removal `RemoveFile`
or `RemoveFails`, and `ReplaceFor`. A deletion is `PlanDelete`, the same removals,
`DropCommand` and `Forget`; the two reviews end in `ReadBack` and `AddTarget`. The
writes of one plan are independent, so their order is left open. `UserWrites` and
`UserDeletes` are the user; `Crash` ends every request where it is, which is also
what a failed write of `sync-state.json` does to one request.

`settled` is a history variable: the targets whose file was manual or modified
when the requests now in flight began, which the user has neither touched nor
handed over since. No plan of theirs may touch those files.

A record may have no hash: the migration writes one of a file that is missing, and
the checks of the planner compare such a record with nothing (`Unhashed`,
`AsRecorded`). A file that the user puts there afterwards is overwritten or deleted
by the next sync, and the library shows it as in step. `Init` has such records, and
the property about the files of the user speaks of the others: it is for files
whose record tells what was written, or that have none.

Left out: that a record may name another path of the same directory
(`path_policy.py`), the switches of harness support, and renaming of commands
(none in the code).

### SkillManagement

One package name. `tree` is its directory in the shared store and `entry` its
entry in the manifest; `bind` is what stands at its place in the skills root of
each harness (nothing, a link to the package, a link elsewhere, a directory), and
`aside` the directories that were renamed out of the way. A directory is missing,
partial (while `copytree` or `rmtree` works on it, or what a cut one leaves) or has
a content, told apart as fingerprints tell them. `cache` is the read model's
snapshot: a request works on it or on a new one (`Begin`), so on what was true up
to a second ago, and ends by invalidating it (`Return`) or by an error (`Fail`).

The store's lock is held for one `ingest`, `update` or `delete`; a request with its
program counter in `Locked` holds it, and nothing is locked outside. `Enable` and
`Disable` with `SetOne`, and `SetAll` with `SetNext`, `SetNextRaises` and
`SetAllDone`, set bindings. `Install` and `Manage` bring a package into the store by
`Ingest`, `CopyNew` and `RecordEntry`; for `Manage` each local copy then becomes a
link by `AdoptCopy` and `DiscardCopy`. `Update` is `Fetch`, `RemoveOld`, `CopyNew`,
`Revise`. `Remove` is both `delete_skill` and `unmanage_skill`: `Check`, then
`RemoveBinding`, or `CopyOut` and `SwapCopy`, for each harness, and `DeleteTree` and
`ForgetEntry`. `Raises` is an I/O error at any step, with the undoing the adapters
do; `Crash` is the end of the process, which releases the lock and leaves the
files. `UserBinds`, `UserEditsTree` and `SwitchSupport` are the user, the harness
and the settings, between any two steps. `manage_all_skills` is a sequence of
manages.

Two history variables carry the properties: `dirty` (the user changed the tree
since it was recorded) and `touched` (what the user changed, or a deletion or an
update removed, since the requests in flight looked).

### McpServers and the documents

One server of the central manifest over the harnesses. `record` is its entry in
the manifest, `place` its entry in each harness's configuration file and, where a
harness reads two (OpenCode), in the other one; `cache` is the read model's
snapshot and `reqs` the requests. A request is `Begin`, then the snapshot, cached
(`UseCached`) or made harness by harness (`StartScan`, `ScanHarness`,
`StoreSnapshot`), then its plan (`PlanUninstall`, `PlanAllOn`, `PlanAllOff`,
`PlanReconcile`, `PlanAdopt`, `Refuse`), then one harness at a time (`WriteMain`,
`WriteOther`, `Applied`, or `AdapterRaises`), then the manifest (`Upsert`,
`UpsertInstalled`, `RemoveRecord`, or `CommitRaises`) and `Invalidate`. `ShowList` is
the page that fills the cache. What a request could not know is counted for each
request: `stale` are the harnesses somebody else changed since it looked, and
properties except those and nothing else. A scan reads the manifest
first and the harnesses one after the other, so a change of a harness that is not
read yet is no news to it, unless the record changed as well. The forms that a server takes in each
harness are values here and the subject of `ServerConfigs`.

Every update of the manifest or of one configuration file is one step in
`McpServers`, and `LockedDocument` is the reason: callers of several processes
take a lock file, load the document, write a temporary file of their own and
rename it (`Lock`, `Load`, `WriteTemp`, `Replace`, `Unlock`), with `Raises` for an
exception at each step and `Crash` for the end of a process. It implements
`KeyedDocument`, a map whose entries are set and removed one at a time
(`IsKeyedDocument`, checked by TLC and proved). `KeyedDocument` hides the lock, the
copies and the temporary files; a step of it is the rename, the rest stutters.

### ManagedPackages

`artifacts` is the tree kept under a package's identity, `packages` and `links` the
manifest. A source is told from the network (`Ask`) before `manifest.lock` is
taken, so the answer may be old when `Check`, `Place` and `WriteManifest` (or
`RecordRefresh`, `RecordFailure`) use it. `UpstreamMoves` changes what a source
resolves to, `UserEdits` changes or deletes a tree, `Kill` ends the process anywhere;
`killed` remembers the packages it cut between tree and record.

### AgentConfig

`file` are the configuration files, `temp` the one temporary name each of them has,
`backups`, `book` the record of what was saved and applied, and `running` what
OpenCode has loaded. A save is `BeginSave`, `FindNew` or `FindAgent`, `ReadTarget`,
`CheckHash`, `WriteBackup`, `OpenTemp`, `WriteTemp`, `Replace`, `Verify` (reading back)
with its rollback, and the mark in the book, itself a read and a write (`LoadBook`,
`MarkSaved`). A backup is made only of a text that will change. Applying is `Preflight`, `Execute`, `Confirm` and the mark for each file.
Nothing is locked, so two saves may share the temporary file, and the user may
edit between any two steps. `clean` in a request tells since which of its steps
nobody else changed its file; the properties use it, as they must, because the
code cannot do better than the hash it compares.

### ServerLifecycle

`state` is `runtime.json` (absent, torn or a pid and a port) and `proc` the processes
of the host. The commands are processes of their own: `start` is `BeginStart`,
`Clear`, `ChoosePort`, `Spawn`, then `Answered`, `Truncate` and `Fill`, or `TimesOut` and
`Terminate`; `stop` is `BeginStop`, `Terminate`, `Clear`. `Serve` is the server taking its
port, `Exits` the end of one that was signalled. `Dies`, `Appears` and `CommandKilled`
are the world; a pid may be given to another program.

A command knows a server by its command line, which it asks `ps` for: the server must
contain the recorded executable, its file name, or `skill-manager`. `Verdicts` are the
answers this may have. A process that is alive and has one of these words, of the
program's own or a `lookalike` (an editor with `skill-manager` open in it, another
Python program), may be taken for the server or not; one without them
(`other`) never. A live server is not taken for one when there is no `ps`: then
`start` deletes the file and launches a second, and `stop` deletes the file. Those it
happened to are in `missed`, and `NoOrphan` is about the others. A pid is not handed
out again while a command that knows it runs. Windows, which compares executables
and start times, is not modelled.

### ScanConfigs and SkillScan

`saved` are the rows on disk and `rows` those the one SQLite connection sees; they
differ by what no statement has committed. The endpoints are threads that make
several statements, one lock per statement: create and update are
`Begin…`, `Validated` or `ValidationFails`, `Insert` or `Update`. A row is its key,
whether it is active, and `rest` for all other columns (the AWS session token,
which no answer shows, is one). An edit without a key keeps the one it read; the rest
it does not name it sets to the defaults, and `EditIsWhole` says so. `Open`, `AddColumn` and
`SetVersion` are the migration, which `Stop` may cut at each statement.

`SkillScan` is one scan: `Begin` (or `Declines`, `InjectionFound`), then for each
run `Answer`, `NoAnswer`, `RateLimited` (a retry) or `SchemaRejected` (once, then
without a schema), and `Judge`. What goes into the prompt (`CodeFiles`,
`ReferencedFiles`, `Context`) and what an answer becomes (`Converted`, `Lowered`,
`Located`, `Votes`) are operators. A file is its kind and its size.

### RuntimeSkills

A refresh asks the server without the lock (`Fetch`, `FetchFails`), then saves
under it (`Save`, `Publish`) or marks the last success as old (`MarkError`). Only a
`RuntimeSkillClientError` is marked: an exception of `http.client` (`FetchEscapes`) or a
text that has no encoding (`SaveEscapes`) ends the request and changes nothing.
`Disconnect` and `Clear` remove file and memory, `Restart` restores from the file, which
may be damaged. `last` is the last refresh that was saved, `spoiltAt` the time of the
last mark or start.

### Marketplaces

The five uses of `MarketplaceCache` are the values of `shop`; they never meet. A
request looks into the file (`Look`), decides by its age (`DecideRegistry`,
`DecideClis`, `DecideLeaderboard`, `DecideSuccess` and `DecideFailure`,
`DecideDetails`), fetches (`Fetch`, `FetchFails`), and writes through the one
temporary file of the name (`Open`, `Write`, `Replace`). `Schedule` and `Submit` start
a background refresh, `Close` shuts its pool. Contents are the version of the
upstream they come from, and `moves` says when each version was given up. A unit
of time is hours, so time does not pass while an answer is on its way; two
writers of one file at once make `disturbed` true, which some properties except.

### Pure parts

`MCAlgorithms` asks questions, whose properties are about the steps that answer
them; the modules it instantiates hold
operators only. Each property compares what the code computes with what it is
for, and never with a copy of the algorithm:

- `SourcePackages`: a skill belongs to the nearest directory with a manifest; no
  component lies outside the root; a manifest that cannot be read takes away what
  it declares and nothing else; Codex and the package go by one manifest.
- `PackageSources`: a source contradicts no piece of evidence and invents no pin;
  only what an installation pinned is said to be resolved.
- `ServerConfigs`: what is written for a harness is read back as the same server
  and counts as managed; entries that differ by nothing that counts are one; a
  value in another form, or an item that is no text, is turned into texts, and the
  entry then counts as changed, never as managed; a recommended configuration holds
  no credential; no server is shown both as one of the store and as a foreign one.
- `ServerInstall`: values read back from an installed server of an older version
  make the same server again; enabling asks for what the user is told is missing,
  with the exceptions below; it keeps what is not given anew. Truth values are
  normalised, and choices are looked at before that, as in the code.
- `NativeAnswers`: no answer proves a package both present and absent; what the
  inspection calls ours is confirmed by the verification (they are written
  separately); a registration is cut out of a document exactly.
- `AgentDefinitions`: an edit starts from the document whose definition is shown,
  its fields read back, the others stay, and rules of permissions take hold; a newer
  list of permissions keeps its entries with an action, in order and with their further
  keys, when the effect of one is changed (other entries are dropped, a resource that is
  no text is removed).
- `CommandReview`: documents are read back as they were written; no file of a
  harness folder is overlooked; an offered action settles its row and writes
  nothing outside the folder; an interrupted migration ends as one that was not.
- `CataloguePages`: following the offsets shows everything once and ends; the
  detail of a server is the version that the lists show.

## Runs

| Run | Question | Bounds |
|---|---|---|
| `pkg` | deploy, update, remove, toggle in a claude and in a codex root implement `PackageOwnership` and lose nothing they must not; and the manifest of kept packages agrees with the trees | two versions of one plugin, two deployment ids, 4 directories (codex 3), 2 steps of the user, 1 crash (codex: 2 of the three); manifest: 2 skills, 2 revisions, 2 branches, 2 threads, 3 calls, 2 moves of the upstream, 1 kill, 1 edit |
| `pkg_calls` | every call ends, in an opencode and in a codex root | 3 directories; opencode: 2 steps of the user, 1 crash; codex: 1 step of the user |
| `pkg_opencode_replaced` | fails: a removal deletes a directory that replaced the owned one | 3 directories, 2 steps of the user |
| `slash` | one request at a time: files are recorded, records have a command, a sync that says ok has done everything; and two at once: foreign documents stay | 2 targets; alone: 2 bodies, 4 documents, 2 steps of the user, 1 crash; a pair: 1 body, 1 step of the user |
| `skill` | one request at a time, on stale snapshots: links resolve, no copy is lost, requests do what they report; and two at once: tree and manifest agree | 2 harnesses; alone: 2 contents, 2 steps of the user or one and a crash or failure; a pair: 1 content, 1 step of the user |
| `mcp` | requests on stale snapshots, with a concurrent enable: reports are true, uninstalls complete, adoptions overwrite nothing unasked | 2 harnesses (one with two files), 2 requests, 2 configurations, 1 mishap |
| `backend` | the locked document, the lifecycle of the server, the scan configurations, a scan | 3 callers in 2 processes, 2 keys, 1 crash; 2 pids, 2 ports, 3 commands, 2 mishaps; 2 rows, 3 request bodies, 2 columns, 5 requests, 1 stop; 4 skills, up to 3 runs, 2 retries |
| `scan_config_lost` | fails: a configuration whose creation was reported is gone after a stop | as `backend` |
| `services` | agents, runtime skills, caches | 2 files, 2 names, 2 requests, 1 mishap; 4 refreshes, 3 faults; 5 shops, 4 units of time, 3 requests, 1 move, 1 outage |
| `registry_never_refetched` | fails: an answer past its time to live is served | as `services` |
| `algorithms` | the pure parts, over some hundred thousand questions | sequences of 2 or 3, one value of each kind that the code tells apart |
| `agent_permissions_lost` | fails: permissions read and written back differ | as `algorithms` |

Components that share no variable are explored in one run: `part` (or `about`) is
chosen in the initial state and says which one moves, the others keep their
initial state. `alone` likewise chooses between one request with wide bounds and
two with narrow ones. So a run explores the sum of its parts, and not their product.

Two packages are enough because a call concerns at most two (the old and the new
version), and a third would only stand beside them. Four directories are a
deployment, its replacement, one of the user's, and one more deployment after
that (codex and opencode, with more steps to a call, make do with three). Two
steps of the user are enough to delete and recreate a directory, the case that
identity and fingerprint are there for. One crash can come at any step of any
call, followed by any other calls. Two targets of a command are one the request
writes and one it removes, or one that fails and one that succeeds; plans treat
each target for itself. Two harnesses of a skill or a server are likewise one
that is done and one that fails or is still to do, and two contents are the
recorded one and a changed or new one. The four documents are the two renderings,
one that parses to a body but is not its rendering, and one that does not parse.
Three callers of a document are two threads of one process, which a crash ends
together, and one of another. Three commands are a start, what follows it and one
that overlaps; two mishaps are a death and a stranger, or a lookalike, with its pid. Of two agent
files one overrides the other. Four units of time are more than a time to live
(1) and a retention (2) one after the other. Names, threads and skills are
symmetric where nothing tells them apart; runs with liveness use no symmetry. The
systems may really stop (all bounds reached, no request), so deadlock is not
checked where the cfg says so.

Fairness: `pkg_calls` has weak fairness of the service's own steps: a thread that
holds the lock goes on, and the native commands it waits for are killed after a
timeout (`_BoundedNativeRunner`). `backend` has it for the steps of a caller after
`Lock` (they are computation and file access), for the steps of a command (each
wait has a deadline), and for the end of a server that was signalled, because
`terminate_process` follows SIGTERM by SIGKILL. There is none on requests, users,
other programs, crashes, nor on getting a lock.

### What the failing runs show

- `pkg_opencode_replaced`: `remove` for codex and opencode proves the owned
  directory, then runs the native uninstaller, which starts external processes,
  then calls `shutil.rmtree` on the path without proving it again. A directory put
  in its place meanwhile is deleted, which `docs/native-package-deployment.md`
  excludes ("Removal deletes only that exact recorded string and owned
  directory"). For claude nothing lies between the proof and the deletion, and the
  same property holds (`ClaudeRemovesOnlyOwned` in `pkg`, `ClaudeRemoval` proved).
- `scan_config_lost`: the INSERT of a new configuration goes through
  `execute_fetchone`, which does not commit. Until some later statement commits, a
  stop of the server loses it. `OnlyNewAtRisk` shows that this is the only loss.
- `registry_never_refetched`: the lookups of the MCP registry pass a time to live to
  the cache and use what they get without asking `is_fresh`, so that an entry once
  written is served for ever. The command line tools, which do ask, keep
  `ClisServed`.
- `agent_permissions_lost`: a permission whose value is null is written back as
  "allow", and an action without patterns is dropped, in a module that promises a
  lossless round-trip. `PermissionsRoundTrip` holds for all other values of the older
  format.

### Limits of what holds

Properties are stated with the exceptions the code really has. The behaviours
behind them, each found by TLC while the property lacked its exception:

- Slash commands: of two syncs at once, one loses the record of the other's file,
  because `replace_for` writes the records loaded at planning (`RecordsAgree` is
  stated of one request at a time); a file the user creates after the plan is
  overwritten (`UserDocsKept` speaks of documents that were there when the
  requests in flight began).
- Skills: an update looks for local changes in a snapshot from before the download
  and replaces what was edited meanwhile; two overlapping requests to stop
  managing, with a manage between them, delete the only copy (`CopiesKept` is
  stated of one request at a time and excepts updates). A crash in the store is
  never repaired: `StoreConsistent` and `LinksLead` are about executions without one.
- MCP servers: a scan that began before an invalidation becomes the cache after it,
  and the mutations of the next second plan on it; a binding made after the
  snapshot of an uninstall is left without a server.
- Forms of MCP servers: an OpenCode command that is one text, or a number in a list,
  is adopted as texts, so the entry counts as changed at once. If the first option
  of a registry server has no fields, nothing is shown as missing whatever the option
  in use asks for; a value that is kept but no longer allowed is refused unannounced.
- Agents: an edit between the comparison of the hash and the rename is overwritten;
  two changes of the book at once lose one; applying one text, then saving and
  reverting another, can leave the book saying that nothing is pending. Renaming
  leaves a definition of the old name in a file of lower precedence visible.
- Lifecycle: two `start` commands at once may each launch a server, of which the
  file names one; without a `ps` a server that runs is overlooked and left running;
  a lookalike that has the pid of the file is signalled.
- Scan configurations: an edit erases the columns it does not name.
- Kept packages: a kill between tree and record leaves a folder that must be deleted
  by hand before the package can be adopted.
- Runtime skills: a refresh that was asked for before a disconnection and answered
  after it brings the snapshot back; one that fails with an exception the client has
  no word for (`http.client.BadStatusLine`, `UnicodeEncodeError`) leaves the records of
  the refresh before it shown as new.
- Permissions in the newer format: an entry without an action, or that is no object,
  is dropped by a write, and a resource that is no text is removed. An effect that is a
  list or an object ends the reading with a `TypeError`, which the model has no case for.
- Migration of slash commands: a legacy file with a name or text no command may
  have ends every start of the server.

## Proofs

Every theorem is about a specification as it stands, for any finite or infinite
constants that meet its assumptions, and TLC evaluates those assumptions for
the instances of the runs. What a run checks and a theorem states is the same
definition. Each proof goes by an inductive invariant, which was model-checked on
the instance of the run before it was proved, has one lemma for each action or
family of actions, and ends in a temporal step.

| Module | Theorems | States |
|---|---|---|
| `PackageDeploymentProofs` | `TypeCorrect`, `Records`, `UserFiles`, `ClaudeRemoval` | the type invariant, `RecordsAreOurs`, `UserFilesKept`, a claude removal deletes only what the ledger describes |
| `PackagesProofs` | `RecordedCopies`, `Enablement`, `Ownership` | `RecordedCopyKept`, `UpdateKeepsEnablement`, `IsOwnership`, for every harness |
| | `NothingIsUnclaimed`, `ClaudeOwns`, `FailuresRestore` | `ClaudeNothingUnclaimed`, `ClaudeRemovesOnlyOwned`, `FailedUpdateRestores`, for claude |
| | `ManifestAgrees`, `NothingIsForgotten` | `ManifestHolds`, `NothingForgotten` of `ManagedPackages` |
| | `ChosenSourceIsProved`, `ResolutionIsPinned` | `ChoiceSound`, `ResolutionSound` of `PackageSources`, for any finite evidence and chains of any length |
| | `ClaudeAnswersAgree`, `CodexAnswersAgree`, `ReadOnlyHasAReason` | `ClaudeAgrees`, `CodexAgrees`, `ReadOnlyIsExplained` of `NativeAnswers`, for any lists |
| `SlashSyncProofs` | `TypeCorrect`, `UserDocs` | the type invariant, `UserDocsKept`, for any requests at once |
| | `RecordsAreTrue`, `SyncsAreComplete` | `RecordsAgree`, `SyncIsComplete`, one request at a time |
| `SkillManagementProofs` | `TypeCorrect`, `Consistent` | the type invariant, `StoreConsistent`, for any requests at once |
| | `LinksAlwaysLead`, `CopiesStay`, `StopsRestore`, `AllIsDone` | `LinksLead`, `CopiesKept`, `StopManagingRestores`, `SetAllHolds`, one request at a time |
| `LockedDocumentProofs` | `TypeCorrect`, `Excludes`, `Refines` | the type invariant, exclusion, `IsKeyedDocument` |
| `McpServersProofs` | `Inductive`, `CacheIsSound`, `UninstallIsComplete`, `AnswersAreTrue`, `AdoptionIsLossless` | the inductive invariant, `CacheSound`, `UninstallComplete`, `AnswersHold`, `AdoptLosesNoConfig` |
| | `FormsAreFaithful`, `SameFormsAreOneServer`, `AdoptionKeepsTheServer`, `ManagedEntriesAreRegular`, `RecommendationIsClean` | `WrittenIsRead`, `SameMeansSame`, `AdoptedIsManaged`, `ManagedIsRegular`, `RecommendedIsClean` of `ServerConfigs`, for any texts and entries |
| | `EnablingIsSound` | `EnableSound` of `ServerInstall`, for any options |
| `BackendProofs` | `BackendInvariant`, `NoServerIsOrphaned`, `CommandsAreCareful`, `ConfigsAreKept`, `EditsAreWhole`, `ReportsAreSound` | the inductive invariants, `NoOrphan`, `CommandsHeed`, `ConfigsKept`, `EditIsWhole`, `ReportSound` |
| `ServicesProofs` | `AgentsByThemselves`, `AgentsInvariant`, `PendingIsSound`, `SavedStaysThere`, `SavesAreCareful` | the composition implies the specification of the agents, the inductive invariant, `PendingSound`, `SavedIsThere`, `SavesHold` |
| | `RuntimeIsKept` | `RuntimeKept` |
| | `MarketsInvariant`, `MarketsAreSound` | the inductive invariant, `MarketsSound` |

### Packages

For every set of packages and ids and any number of directories, edits and
crashes. The assumptions are the three of the module: the harness is one of
three, the two marker values are no packages, the bounds are numbers. The
inductive invariant `IInv` is the type invariant, `RecordsAreOurs`, and three facts
about the call in flight: `KindOfStep` (which call a step belongs to),
`OpConsistent` (a call past its beginning refers to a record that was in the
ledger, and its stage is a directory the service made) and `StagingInUse` (the
stage and the backup exist only between certain steps). The last is what makes it
safe to forget them when a call ends; the second is what makes a proof of identity
a proof of ownership.

`PackagesProofs` adds to it. `RecordsDistinct`: no two records are of one directory,
and the directory a call has staged is nobody's yet. Without it a call that
discards its own directory could discard the copy of another record. With it,
`RecordedCopies` is a case distinction over where the one directory of an identity
goes: a call that ends leaves it in the staging area (`QuitLeaves`), an undo puts it
back or leaves it (`RestoreLeaves`). `EnablementKnown`: as long as only the service
has acted, what an update read of the enablement at its beginning is still so
until the new version is installed, and again when it commits. `DeployInv` is the
conjunction. For claude, `ClaudeInv` adds where the recorded directory is at each
step of an update (`ClaudeSwap`) and that every directory is claimed or was just
placed (`ClaudeClaims`); both need that nothing native lies between the steps, which
is why the theorems assume `Harness = "claude"` and TLC finds them to fail of the
others.

`Ownership` is the refinement of `PackageOwnership`. It needs that a directory is in one
place (`OnePlace`: no two placements, nor stage, backup and leftovers, hold the same one)
and that every identity there is was given out (`IdentsUsed`); then the set of directories
changes with a place just as the place does (`PlaceDeleted`, `EndingDirs`), and by
`RecordsDistinct` the claims change with the ledger one for one (`ClaimsFollow`). A call
that ends, for whatever reason, discards its own copy or nothing (`EndingOwned`): what
it puts back or leaves was there before (`EndingPlaces`). `OwnedStep` goes through the
steps. That a directory is deleted which is neither the user's nor of another record
follows from `IInv`, which says what the call has proved at that step; the one deletion
with no proof left, after a native uninstaller, is `Purge`.

For `ManagedPackages` the assumptions (`Kept!Assumptions`) are that the markers for no
source, no record, no link and no thread are none of these, and that the bounds
are numbers. A resolution came before the lock, so nothing can be
said of the upstream at the time of writing. The inductive invariant `KeptInv` says
what can: which call holds the lock (`Adopting(c) <=> lock = t`), that its tree was
not there when it placed it, and that no other skill had been linked to that
revision, unless the user touched it (`DiskSound`). This is what makes `Undo` safe: a failed adoption
removes only a tree that nobody was linked to. `CandidatesSound` strengthens
`WarningShown` to what the two fields of a record have to do with each other.

### Slash commands

For every set of targets, requests, bodies and documents, every codec, and any
number of edits and crashes. The assumptions are that the codec is a pair of
functions, that the marker is no body, document or target, and that the bounds are
numbers. For `UserDocs` the inductive invariant adds two facts to the types: an idle
thread carries nothing (`IdleThreads`), and no write or removal that a request still
has to do threatens a settled document (`Unthreatened`). The second is the
argument: a plan is made from records that account for the file, a file stops
being foreign only through the user, and `settled` only shrinks while a request is
in flight.

`RecordsAreTrue` and `SyncsAreComplete` are about `SharedSpec` with `alone`. `SeqInv` says
that at most one request is in flight and, as long as the server has not died, what
it has done so far: `CommandKept` (the command it works with is the one in the
library), `FilesKept` (every file that is the service's is recorded, or on the list of
what this request still has to write, hash or forget) and `SyncKept` (every selected target
is done, failed, or still planned). `Between` is what remains of these when nothing
is in flight.

### Skills

For every set of harnesses, requests and contents, and any number of edits and
faults; the assumption is that the bounds are numbers. For `Consistent` the
inductive invariant adds which kind of request a step belongs to (`KindsKept`) and, as
long as nothing failed, what a request inside the store has done so far to tree
and manifest (`InsideStore`): that is what the disagreement between the two amounts
to while the lock is held. Each step is one of four: outside the store (`Outside`,
`Ends`), entering it when free (`Enters`), inside, or leaving it with the two in
agreement (`Leaves`); the user can edit a tree that is complete at any of them.

The other four theorems are about one request at a time, and their `SeqInv` has three
parts that hold between requests or in them (`AtMostOne`, `CacheAlike`, `LinksLive`) and
`Phase`, which says for each kind what it has still to do. `ManageKept`: the content
that will be the package's is in the tree, or in the local copy that is not yet a
link. `RemoveKept`: a harness that had the skill has a link, or its own copy by now.
`AllKept`: what is no longer to do is done. `CacheAlike` relates a cached snapshot to
the disk (what they differ by is in `touched`), and is what makes plans on a stale
snapshot sound.

### Documents

`LockedDocumentProofs` is about every set of callers, processes, keys and values and
any number of crashes. `Excludes`: only the holder of the lock is past it, and its
copy is the document on disk but for its own entry (`CopyCurrent`). `Refines` is the
refinement of `KeyedDocument`. Its steps are the mapped ones: `Replace` is the abstract
change because the copy is current, a step of the lock or of a temporary file is a
stutter, and a crash ends the calls of its process.

### MCP servers

For every finite set of harnesses, any set of requests, and any number of mishaps
(`HarnessAssumption`, `RequestAssumption`, `OfferAssumption`, `NothingAssumption`,
`BoundAssumption`: the sets that are told apart are disjoint, a request asks for
what is offered). Requests are not serialised: any number plan and write at once. The
inductive invariant `IInv` has for each request what its view shows (`Looked`), what it
has written (`Written`, `Agreed`), and what is left of a removal, of a request for all,
and of an adoption (`Cleared`, `Filled`, `Adopting`), each but for the harnesses in `stale`.
A step changes one request and some harnesses, and adds these to the `stale` of
everyone else; so it is proved once that every request may hear of a change
(`HeardOK`), and then for each action what becomes of the request that acts. The
cache is old only for a reason it counts or because a request in flight will yet
invalidate it (`Owed`): `CacheIsSound` follows when nothing is in flight.

### The server and its configurations

For any commands, pids, ports, requests and rows, and any skills, answers and numbers
of runs (`Life!Assumptions`, `Configs!Assumptions`, `Scan!Assumptions`). `LifeInv`: the only command that runs, as long as commands do
not overlap, is about to write down or to end the one background server the file
does not name (`Known`), if it was not overlooked; the processes a command knows have
some word of the server or, for a start, its own child
(`Spared`); nobody else has the port a start chose, unless it was stolen (`Held`).
`ConfigsInv` is the invariant of the run, with what an update has read of its row
(`RequestOK`) and that what a stop brings back has only ids that were used. That at
most one row is active needs cardinalities of subsets (`FewerActive`).

Of a scan, `ReportsAreSound` uses of the skills and the answers only
`Scan!Assumptions`: nothing of the number and the sizes of files or of the number of
findings. What goes into the prompt is computed file by file, by a
recursive function (`Kept`); that its total stays within the budget, and that each
file is sent or named as left out, is proved by induction over the number of files
(`LeastOne`, `Induction`: a smallest counterexample is a minimal one of its initial
segments under strict inclusion, which is well-founded on finite sets). A finding is reported at
the first of its places (`LeastOne` again), which exists in every run that has it, so
that votes are counted once for each run. The invariant `ScanInv` has the types, what
is known of a result before it is reported (`Reported`), and that the calls made are
bounded by the attempts of the runs that are over and of this one (`RequestsCounted`).

### Agents, runtime skills and marketplaces

For any finite set of files with ranks, any agents, texts and requests. `AgentInv`: what
each request knows at each of its steps (`CallOK`), what it knows of the files as
long as nobody else changed one (`CleanOK`, by `clean`: since it found its target, read
it, or wrote it), and, as long as no two saves or changes of the book overlapped,
what the book has to do with what was saved and loaded (`BookOK`). Which
file decides for an agent is the highest of a finite set, which exists
(`Highest`): the library's induction takes an operator as a parameter, so the lemma
takes a smallest counterexample instead (`WFMin` over the strict subset ordering,
which is well-founded on finite sets). `AgentsByThemselves`: the composition of
`MCServices` implies the specification of the agents, so the theorems hold of the
run as well.

`RuntimeInv`: while a refresh or a disconnection holds the lock, the file is ahead of
the memory by exactly what it is about to publish; otherwise they agree, or the
file is damaged. The shown records are said to be old exactly if a failure was marked,
or the process started, after they were fetched; of a failure that escapes the theorem
says that it changes nothing.

The marketplaces are proved for any threads, any times to live and any number of
requests and outages; `Markets!Assumptions` says that pages and background threads
are different ones, that the bounds are numbers, and that facts about a repository
are retained at least as long as they are new (`_SUCCESS_FRESH`, `_SUCCESS_RETENTION`
in `repo_snapshots.py`). `MarketInv` follows an answer from the upstream to the request:
a fetched one was given now, or as long ago as the GitHub client repeats it
(`Slack`); a file is as new as its date (`FileOK`); what is served is as new as what was
read (`ServedOK`). `FilesOK` says who has which file open: the writers of a temporary
file are threads about to write, and a file that a thread still has open was put
there within the hour. `Calm`: as long as no two threads wrote one file at once, a file is
whole and the temporary file is that of its one writer, which is what makes
`Replace` publish what its thread fetched. `ReposOK`: the mark of a refresh stands for
exactly one thread that submits or runs it, so in that shop two writers never meet.
`DetailOK`: a request that overlaps with no other knows the description that is
there, and replaces it only by one of the same kind with a folder it looked for.

### Laws of the pure parts

The operators of these modules are no state machines, so their theorems are about
all arguments at once. What `algorithms` checks of enumerated ones is the same
definition. `FormsAreFaithful` goes harness by harness: an entry is made of fields, those
without a value left out (`EntryRead`), so what a reader finds under a key is what
the writer put there, and what it does not find decides which kind of server it
takes the entry for. `SameFormsAreOneServer` and `AdoptionKeepsTheServer` are about
entries that no mapper wrote: two that a scan does not tell apart share every key
but those of a default (`SharedFields`), and of these only `transport` decides anything,
where `Coherent` says what it cannot be. A value that has the form the mapper writes
and only texts is written again as it was (`FormedRead`, `RegularRead`), which gives
the one direction, that an adopted entry of such values stays managed; that the
mapper writes nothing else (`FormsOf`) gives the other, `ManagedEntriesAreRegular`.
That no server is listed twice is left to TLC. `RecommendationIsClean` needs that a set of places has
a first one (`LeastOne`).

`EnablingIsSound` is about any options and records, those without an intent too. Its
hypotheses: the two texts of a truth value are not the marker for no value, and each
field is of format boolean or not. A value is normalised once and stays
(`ResolvedValues`), so what was enabled is enabled again as it is (`OptionKept`). A
default is taken as it is, and looked at only when it is resolved again: one that
its field does not allow ends the first enabling, which the exception of
`ShownIsAsked` names.

`ChosenSourceIsProved` reads pins off sets of at most one element. `ResolutionIsPinned`
goes up a chain of folders by induction over how many are left (`ClimbExists`,
`ClimbStep`): what is found is finite, so the first theorem applies to it, and folders
without a manifest or a repository are passed over (`PassedOver`), so what the nearest
package states is part of what is found. The answers of
Claude and Codex: an accepted list has one entry for an identity (`OneOfAnId`), so
present and absent, enabled and disabled exclude each other, and what the inspection
asks of an entry that is ours is what the confirmation asks. The markers are assumed
to be none of the identities and places, as they are in every instance.

### Only model-checked

- Liveness (`CallsEnd`, `StopEnds`, `LockReleased`): the prover has no rule for
  fairness or ENABLED.
- What the algorithms compute (`algorithms`: `PackagesRead`, `ServersRead`, `HarnessRead`,
  `AgentsRead`, `CommandsRead`), except the parts listed under "Laws of the pure parts". The
  others need induction over texts and trees, or over lists of tokens and bindings
  (`OpencodeAgrees`, `ReadBackMakesTheSame`), and some of their modules
  have RECURSIVE operators, which the prover cannot use. The library's theorems of
  induction take an operator, which it cannot instantiate either; `Induction` (in
  `BackendProofs` and `PackagesProofs`) is a substitute for one property of numbers at a time. The five
  properties themselves are of `MCAlgorithms`, which has such operators, so the
  theorems are about the operators they are made of.

## Not modelled

- `composition`, the API routes and the web UI: wiring, serialisation and a client.
  That requests run concurrently is in every model.
- Packaging, scripts, and the table of harnesses with the places of their files
  (`harness/`), which hold no state of their own.
- Discovery of skills over categorised layouts and other roots, the Hermes policy.
- Fetching and unpacking of package trees, the network of the marketplaces, and the
  availability probes: external answers, whose outcomes are choices in the models.
- What texts say: prompts, diagnostics, the catalogue of models and tools.
- In `PackageDeployment`, planner blockers that do not depend on its state, links and
  files at a placement, the private marketplace files of codex, `rmtree` failing
  half-way except for the target of a removal and the backup of an update, and the
  reuse of an inode number. In `SlashSync`, records of another path of the same
  directory (`path_policy.py`; `CommandReview` has them). In `SkillManagement`, skills
  that OpenCode reports only at runtime, and copies outside the canonical root.
- Windows: there a process is also told by its start time.

## Plan

Done: the modules above, and a proof of every safety property of the runs except
those listed under "Only model-checked", among them the refinements of `KeyedDocument`
and `PackageOwnership`. Left:

1. The laws of `algorithms` that need induction, those of modules without RECURSIVE
   operators first (`ReadBackMakesTheSame`, `OpencodeAgrees`).
2. An abstract specification of the shared store of skills, which `SkillManagement`
   implements as long as nothing fails half-way.
