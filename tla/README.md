# nvtengine in TLA+

nvtengine is a vulnerability scanner: a daemon takes scan tasks over JSON-RPC, finds the live hosts of a
target with a stateless packet scanner, and runs thousands of small scripts against each host in an
interpreter of its own. This directory holds TLA+ models of the parts whose correctness depends on
order - of threads, of calls, of writes to a file - the TLC configurations that check them on small
instances, and TLAPS proofs of what holds for every instance. Paths below are relative to `src/`.

## 1. The system

| Component | State it keeps | Operations | What makes it hard |
|---|---|---|---|
| RPC server (`manger.*`) | `mTasks`: id to task, under `mLock`; worker threads | BeginTask, StopTask, CleanTask, the reading calls, the destructor | the lock is given up between the look-up and the use of a task |
| Scan task (`taskmgr.*`) | `mState`, `mStopAll`, `mTCBGroup`, per host `Exit`, the counters of GetStatus | Start, Execute, one thread per host, Stop, StopHostTask, GetStatus | flags and counters are read and written by three kinds of threads; the lock protects the lists only |
| Script selection (`InitScripts`) | `loaded`, `loadOrder`, `mGroupedScripts` | depth-first loading of dependencies, split by category | cycles, missing files, two orders that disagree |
| Script loop (`ExecuteScriptOnHost`) | position, `ScriptCount`, `ExecutedScriptCount` | run, skip, forked runs, stop | `Exit` is looked at in some places only |
| Forked scripts (`ovacontext.*`, `scriptstorage.hpp`) | `ForkedValue`, a snapshot of the knowledge base | get_kb_item, set_kb_item, replace_kb_item, next combination | executions change the data that drives the loop |
| Script loading (`engine/vm.cc`, `ScriptCacheImplement`) | per executor `mScripts`, `mSharedScripts`; one cache for all threads | Execute, LoadScript, RequireScript, OnNewScript, GetInstruction | keys are resolved by range; executors race to publish |
| Host scanner (`thirdpart/masscan/hostscan.c`) | a word of bit fields, the duplicate table, the result list | init, start, send thread, receive thread, join, resolve_mac_address | an unlocked word written by two threads; lost and repeated answers |
| Script update, code cache (`nvtengine.cc`, `codecache.hpp`, `blockfile.hpp`, `nvtidb.hpp`) | data file, index file, script database | update from a folder or a package, read | three stores written one after the other; a scanner may read meanwhile, the process may be killed |
| Script VM (`engine/vm.cc`, `vmcontext.*`) | stack of contexts with break / continue / return / exit flags, the deadline | instructions, calls of script and engine functions, index hooks, exit, the time limit | a flag set in one context takes effect in others; exceptions leave contexts behind |
| Service detection (`TCPDetectService`) | ports dealt to threads, a clone of the storage per thread | split, detect, join, combine | a thread that fails is not noticed; what was found must not depend on the split |
| HTTP sessions (`manger.cc`), JSON-RPC dispatch (`jsonrpc.hpp`) | parser and request of a connection | read, dispatch, respond, keep alive | requests arrive in pieces or together; flags are not initialised |
| HTTP client of scripts (`modules/http.cc`, `streamsearch.hpp`, `net/`) | addresses left, the response, the position of the blank line | connect, write, read, decode | responses in any pieces, cut off, late, or followed by more |
| Target lists and shuffle (`massip*.c`, `rand-blackrock.c`) | ranges, sorted by the first pick; the key of a cipher | add, sort, combine, count, pick, shuffle | counted before they are sorted; sides of the cipher chosen by hand |
| Script package (`vfs/vfsreader.c`, `vfsfileio.hpp`) | directories and files of a package | open, look up, read | a binary search whose bounds need not move; files of one name |
| Values, parser, database wrappers, other script API bindings, WinRM | data | library calls | not modelled: no order of steps to get wrong within one call |

**How they interact.** An RPC worker creates a task (`BeginTask`), which starts the task's main thread
(`HostsTask::Execute`). That thread selects the scripts (`InitScripts`), starts the host scanner and waits
for its `send_done`, joins it, and starts one thread per host. A host thread detects services and goes
through the script loop; each script is run by the thread's own executor, which loads code through the
cache shared by all threads, and reads and writes the host's knowledge base, which may make the same script
run again, once per combination of values. `Stop`, from another worker, sets flags that these threads
look at here and there. The code that executors load in a daemon was written to the code cache by an
earlier process, `nvtengine update`, or is read from a script package. Requests reach the workers over HTTP
connections that are read piece by piece; scripts in turn make HTTP requests of their own, with the same parser.

PROJECT.json lists every component with its status, and every hazard at the line where it bites.

## 2. The modules

| Module | Models | Uses |
|---|---|---|
| `HostsTask` | one scan task with its threads and callers | `ScanTask` |
| `ScanTask` | abstract: what a task promises its caller | |
| `HostScripts` | the script loop of every host of a task | |
| `ServiceDetect` | the service detection of a host | `ScriptStorage` |
| `HostThread` | one host thread: detection, then the script loop | `HostScripts`, `ServiceDetect` |
| `ScriptOrder` | `InitScripts` | |
| `ScriptStorage` | operators: the knowledge base | |
| `ForkedScript` | one script's executions on a host | `ScriptStorage` |
| `ScriptCache` | executors that load scripts through the cache | |
| `ScriptVM` | the control of the interpreter | |
| `RPCServer` | workers, the task table, the destructor | |
| `RPCSession` | one connection of the RPC server, with its client | |
| `ScriptHttp` | one HTTP request of a script, with its server | |
| `HttpConnection` | a connection of either kind | `RPCSession`, `ScriptHttp` |
| `HostScan` | the two threads of a scan and their caller | |
| `TargetList` | operators: lists of ranges | |
| `Blackrock` | operators: the cipher that shuffles | |
| `TargetScan` | a scan of lists, shuffled by the cipher | `HostScan`, `TargetList`, `Blackrock` |
| `CodeCache` | updates and a scanner that reads the cache | |
| `PackageReader` | a read from a script package | |
| `ScriptSource` | the code cache, or a package | `CodeCache`, `PackageReader` |
| `*_proofs` | the theorems about a module, checked by TLAPS | the module, TLAPS |
| `MC*` | the instance TLC checks | the module |

Definitions keep the names of the code (`mTCBGroup`, `LoadScript`, `OnNewScript`, ...). PROJECT.json, under
"map", gives the source lines each definition stands for. Each module begins with what it models; under
a "Faulty" heading, or beside an action, stand variants that are no part of `Next`: each is a plausible slip,
and each property is known to fail when its slip is substituted.

**HostsTask.** Every action is one access to shared state, so all interleavings are there. The main thread's
`main` is its position in `Execute`; `thread[h]` that of a host thread; `caller[c]` that of a call of Stop
or StopHostTask. What Stop does is four steps: `mStopAll`, `mState`, the copy of the list (under the lock),
and one step per TCB flagged (without it). A host thread is running from `LaunchHost` on, and is counted
and registered by three later steps, as in `taskmgr.cc:259-269`. The scan itself is reduced to its outcome, any
list of distinct hosts (`ScanJoin`); `HostScan` looks inside. `DetectService` and the scripts are one step each.
`s_RunningTask` is a static that all tasks of the process share (`taskmgr.hpp:105`): `OtherTask` lets the others count and release
hosts at any moment, and the history variable `elsewhere` is what they have contributed. It is negative when a thread of
another task has ended before that task counted it; each of the `OtherTasks` others can be one behind.

**HostScripts.** One action per decision of the loop; CheckScript's verdict is a choice; `SetExit` may come
between any two steps. `begun` and `late` are history variables.

**ServiceDetect, HostThread.** Ports are dealt to threads as in `taskmgr.cc:712-728`; each thread works through its
ports on a clone of the storage and may fail at any of them, which ends it. What `detect_tcp_service` finds on a port is
a constant: a list of calls of `set_kb_item` and `replace_kb_item`. The host thread joins all and combines the clones.
Ports may replace one another's names: `servicedetect.sc` builds some names without the port (`Known/tcp/` at 402, `pop3/banner/` at 260,
through lines 9 and 10), so that two POP servers replace the same item. A name is `Contested` when a port replaces it and anything else
is stored under it by another port or was there before. `OneAfterTheOther` is what a single thread would have left.
`HostThread` is the sequence: detection, then (unless `Exit` is set) the loop of `HostScripts`.

**ForkedScript.** A script is any sequence of at most `MaxOps` calls per execution, chosen anew in each one. The
odometer (`PrepareForNextScriptExecute`, `UpdateValue`) is translated as the operators `HasNext` and
`NextCombination`. `Exit` may be set at any step (`SetExit`); it is looked at after the first execution (`FirstRunEnd`, `taskmgr.cc:421`) and before each forked
one, when the next combination is already prepared (`NextRun`, `StopBetween`, 427). `ScriptStorage` says what the storage does: items are lists without repetition.

**ScriptCache.** A script is its name and the first of its instruction and constant keys; the number of keys
in a file is a constant. `LoadScript` is split where the cache's lock is free: look-up, parse, publish.
Relocation is exact, including the alignment to 1000.

**ScriptVM.** `Executor::Execute` recurses over the syntax tree. `stack` is that recursion, reduced to the
instructions that create a context or do something after their operands; `ctxs` are the contexts. The chain of a context
(`Ancestors`, the loops of `vmcontext.cc` that follow `mParent`) and its activation are least closed sets. A script is any
script: each phase of an instruction chooses what it runs next. A frame's phase is where in the code of its instruction
control is; `Interrupted` is looked at where the code looks at it, and nowhere else. `open` and `stray` are history: which
calls were being prepared when exit() came, and whether anything else ran after it.

**ScriptOrder.** The recursion of `LoadScript` in `InitScripts` is an explicit stack; the database is a constant.

**RPCServer.** Handlers are split at every release of `mLock`. `raced` and `dangling` are history: an id is
raced when a call on it met another one at a place where the code does not keep them apart.

**RPCSession.** A request is a request line, a rest of the header, and a body in two pieces; a read takes any number
of pieces that are there, of several requests if the client pipelines; `BodyParts` is what the parser then finds to be the body. The uninitialised fields of `HttpRequest` are a choice.
`cut`, `merged` and `late` are history: a request was answered before it had all been read, two were taken for one, an
answer came after a timeout.

**ScriptHttp.** Bytes are symbols: enough to tell a line end, the blank line, the body's parts, its end. The server
(`peer`) frames its response by a length or by closing (what chunks there are is the parser's matter); it may stop anywhere, or send more than the response. A read takes any number of
symbols that fit in the buffer. `StreamSearch` is translated symbol by symbol (`Advance`, and `Process` over what came in). The position of the blank line and the copy made with it (`http.cc:242-262`) are
computed as the code does, so that the copy of what is older in the buffer is seen.

**HttpConnection** is the two behind one `role`: they share the parser's code and no state.

**HostScan.** `bits` is the word that holds `send_done` and `recv_done`: each thread sets its bit by a load and a
store of the word, as the compiled code does. The shuffle is any permutation, the hash any function. A target is an index. The
network is nondeterministic: in an ARP scan any IPv4 target of the lists may answer, asked or not (`hostscan.c:619-637`), in a port scan any probed one, any number of times, or never.

**TargetList, Blackrock, TargetScan.** The lists are sequences of ranges as the user gave them; `Sorted` merges them as
`rangelist_sort` does, after any reordering by `begin` (`qsort` leaves the order of equals open), `Count` and `Pick` are those of
the code, in the order in which it calls them. `Encrypt` is the Feistel network, a round of it is `Mix`, undone by `Unmix`; `Walk`
is the loop back into the range. The round function is any that returns numbers (`ReadsNumbers`, a hypothesis of the theorems and not
an assumption of the module, because TLC cannot try all its arguments). `TargetScan` makes a task of the lists, and says where each
probe goes; `TargetScanAssumption` says that a task is what `init_host_scan_task` made of its lists, which TLC evaluates.

**CodeCache.** The data file is a sequence of cells that carry the update, the file and the position they were
written for. `buf` is what stdio holds back; `Flush` passes on any part of it at any time; `Crash` loses it. The
index file grows in parts, so that a reader or a crash may meet a part. Faults are choices: a script with a syntax
error, an unreadable file, a script that fails while it runs, a short write, a failed transaction.

**PackageReader, ScriptSource.** One action per round of the binary search, one for the visit of the files of the name found,
one for the read. `ScriptSource` is `CreateFileIO`: a scanner has the cache, or it has a package.

## 3. What is checked

| Run | Instance | What it shows |
|---|---|---|
| `task` | 2 hosts, 2 callers, limit 1; one other task with at most 1 host counted | the counters agree with the threads at every step, the shared one with those of all tasks; `Stoped` is only seen when no thread of the task is left; a finished Stop misses at most one host; a started task ends; it implements `ScanTask` |
| `task_limit` | 2 hosts, limit 1 | **violation**: the configured number of concurrent hosts is not a limit |
| `host_thread` | 1 host, 5 ports on 2 detection threads, groups of 1, 0 and 2 scripts, 2 forks | a stopped host begins at most one more execution; a host that was not stopped sees every script, and every port unless its thread failed; nothing one thread would have found is lost, and more is kept under contested names only; the thread ends |
| `forked_script` | 2 names, 3 values, 3 calls per execution | forked executions read the snapshot; all combinations are run unless the host is stopped, at any step; the loop ends |
| `script_cache` | 2 executors, 5 files that require each other in a cycle, 2 executions | a key leads to one script; what is published stays; every execution ends |
| `script_vm` | depth of nesting 5 | after exit() nothing runs but what was being called; return leaves its call, break and continue their loop, at once; every script ends |
| `script_order` | all dependency graphs on 3 files | exactly what is needed is loaded, dependencies first, except for later categories and cycles; loading ends |
| `rpc_server` | 3 workers, 1 id, 2 tasks | a task is lost or used after deletion only where calls met; calls return; the destructor ends |
| `http` | 3 requests on a connection; or a request to up to 2 addresses with a buffer of 6 | what is executed was sent whole; answers go with requests in their order; a response is the one sent; `nil` has a reason; connections end |
| `host_scan` | 2 or 3 targets from several lists, all shuffles and rates, 5 kinds of scan; the cipher up to 8 times the range | `recv_done` means all answered; no target is reported twice; at most one repeated pass; exactly what the lists name is probed, and the cipher is a permutation; the caller returns |
| `target_pick` | two lists with a range given twice | **violation**: the sender picks past the end of a list |
| `code_cache` | 3 files, 2 updates, 1 scanner; or every package of up to 3 files in 2 directories | no file is served under another's name; a closed update serves what it wrote; what can be selected is cached; a look-up in a package answers, and rightly |

**Why the bounds are enough.** Each bound is the smallest at which every interesting meeting happens, and one
more where it was affordable. Two host threads suffice for the counters to disagree, and for one to be missed by Stop while one
runs; two callers let one Stop overtake another; the proofs cover every number of hosts. One other task
shows the shared counter above and below what this task adds to it. Five ports on two threads give a remainder, two
ports of one service in one thread and in two, and a name contested by both threads. In `script_cache` the sizes
998, 999 and 1000 lie on both sides of the alignment, and a second execution starts with a full cache. In
`forked_script` three calls are what it takes to read, change and read an item again; three values beside two
exercise the carry. In `script_vm` a depth of five holds a loop in a switch in a loop of a function called by a file, and a hook or a
call of the engine among them. `script_order` has every graph, so no bound but the number of files. In `rpc_server` a
third worker lets a call begin while two others have met. In `http` three requests let one be whole, one cut and one merged; a buffer of
six symbols is longer than a header's last part and shorter than a response. In `host_scan` the rates go to twice the range, since the code wraps them along
two paths; the cipher's sides are made by hand for ranges up to 8, and it is checked for ranges on both sides of that. In `code_cache` the second update meets what the first, whole or killed, has left; three files let
a search hit the middle one, with a namesake on either side. The proofs of
section 4 remove the bounds for the safety properties of ten modules.

**CHECK_DEADLOCK FALSE** is set where the system stops: executions are bounded, calls and updates need not come,
a scan, a script or a connection ends; a search that goes round for ever changes nothing.

**Fairness.** `HostsTask`: the main thread and the host threads are scheduled (weak fairness); callers need not call. A
host's scripts end because the engine gives each a time limit: `ScriptEnds` shows that this is enough, under fairness of the
interpreter and of the clock. `HostThread`, `ForkedScript`: the same, per host. `ScriptCache`: each
executor. `RPCServer`: a worker inside a call, its connection's end (`ConnectionEnds` of `http` justifies it), a task's main thread (`TaskEnds`), and
the destructor once begun; nobody has to call. `HttpConnection`: the thread runs and its reads time out; neither peer has to do
anything. `HostScan`: the three threads; nothing of the network - `CallerReturns`
holds with every answer lost. `ScriptOrder`, `PackageReader`: one thread.

**Findings.** `task_limit`: `etc/nvtengine.conf:2` promises a limit on the hosts scanned concurrently; the code sleeps
and goes on (`taskmgr.cc:253`). `target_pick`: `massip-rangesv4.c:699` asserts that a pick lies in the list; `init_host_scan_task` counts lists that
nobody has sorted, and the count of "80,443,80" is larger than the list.

**Exceptions that properties name.** Some properties name the exceptions that the code really has, and say that there
are no others:

- `NoTaskLost`, `DanglingOnlyIfRaced`: unless two calls on one id met. `StopMissesAtMostOne`: one host.
- `RecvDoneHonest`: unless two targets share a bucket of the duplicate table, whose buckets of four remember one entry.
- `ProbesExact`: with IPv6 targets a pass may probe twice (`hostscan.c:357` counts them twice, although the comment at
  775-778 calls the index one to one); lists with overlaps left when they are counted (`target_pick`).
- `CountersConserved`, `StopedIsQuiet`: the number of running hosts that GetStatus of a task reports (`taskmgr.hpp:193`) is that of all tasks of
  the process; when a task is `Stoped` it need not be 0.
- `AllCombinationsRun`: a stopped host leaves combinations out (`taskmgr.cc:421-423`, 427).
- `DetectedLikeOneThread`: under a contested name - one the script builds without the port, or one that an earlier script had stored -
  the combined storage keeps values that one thread would have replaced (`servicedetect.sc:260`, 402; `scriptstorage.hpp:80`).
- `NothingSkipped`: the ports of a detection thread that failed; its failure is not reported (`engine/vm.cc:154`).
- `ExitStops`: calls that were being prepared when a parameter called exit() are still made (`engine/vm.cc:864`).
- `NeverAnotherFile`: unless an update was begun after the index in use was written.
- `AnswersPair`: a request taken for complete with its first bytes, because the flags of `HttpRequest` are not
  initialised, and two that arrive in one read, which are merged or of which the second is lost (`manger.cc:162`).
- `ResponseWhole`: a header with bare line feeds, for which `StreamSearch` finds no blank line; a brotli body, which is never
  what was sent; `RawHeader` when the header came in several reads, longer than the header (`http.cc:249`).
- `NilJustified`: an address whose connect was refused or timed out counts as connected (`net/socket.hpp:193`); a response that ends
  with its connection, and one followed by more bytes, may be given up.
- `ConnectionEnds`: the inflation of a body with bytes behind its end never ends (`http.cc:178`).
- `LookupAnswers`: the first of several files of a name may be missed; a namesake whose directory number is one too large hides the others
  (`vfsreader.c:336`); **no file that is not empty is read**: `vfs_raw_read_at` returns 0 and its caller compares that with
  the size (`vfsreader.c:574`); and for a base name that is not in the package, the search goes round for ever or dereferences NULL
  (`vfsreader.c:396-403`), so that nothing is promised.

**Hazards without a property.** A category of the database above 10 is used as an index of a list of 11 (`taskmgr.cc:529`): undefined
behaviour, the model assumes the categories the scripts write. `resolve_mac_address` does not look at the result of
`init_host_scan_task` (`hostscan.c:873`): a dereference of NULL, with no state after it.

**Seen beside the models.** `service_detection_thread_count` 0 divides by zero (`taskmgr.cc:712`); after an exception
`mCurrentVMContxt` keeps pointing at a context that is gone (`vm.cc:899`); the receiver may read the target list while the first
pick of the sender sorts it (`massip-rangesv4.c:182`); a server that sends a byte now and then for ever keeps a script in its
read loop, where the time limit is not looked at; a package whose directory breaks off is opened with the files so far
(`vfsreader.c:188`); because of the reads above, an update from a package enters no script.

## 4. What is proved

All theorems are checked by TLAPS, for every value of the constants. Where a module is short of a place of its own, its proofs
stand with those of the component it serves: the code cache with the script cache, the connections with the RPC server.

| Module | Theorems | Assumptions |
|---|---|---|
| `HostsTask_proofs` | type correctness; the counters; `Stoped` is quiet; Stop misses at most one; reports are complete; end states; **the task implements `ScanTask`** | the set of hosts is finite; the number of the other tasks and of their hosts is a natural number |
| `HostThread_proofs` | of the script loop: type correctness; one late run; the executed count. Of a host thread: no port and no script is skipped; the service detection loses nothing one thread would have found, and leaves the same under names that are not contested | of the constants' types; no port is listed twice; the items stored before have no repetition |
| `ScriptCache_proofs` | type correctness; disjoint ranges; keys resolve; no file twice; private only if the race was lost; the cache is stable. Of `CodeCache`: no file under another's name; a closed update serves what it wrote; what can be selected is cached | a file has at most `MaxKey` keys and the private ones fit below the base of the shared ones; of the code cache, of the constants' types |
| `ForkedScript_proofs` | type correctness; forked executions read the snapshot; all combinations are run unless the host was stopped | the lists stored at first have no repetition |
| `ScriptOrder_proofs` | type correctness; exact selection; dependencies first | of the constants' types |
| `RPCServer_proofs` | type correctness; live table; deleted tasks had ended; dangling needs a race; no task lost; one task per id. Of `HttpConnection`: what is executed was sent whole; answers in pairs; a response is the one sent; `nil` has a reason | of the constants' types |
| `HostScan_proofs` | type correctness; scan complete; at most one repeat; no repeated report; `recv_done` justified. Of `TargetScan`: the cipher is a permutation; **exactly what the lists name is probed** | the shuffle is a permutation; of `TargetScan`, where the cipher is the shuffle: each task was made of its lists; the round function returns numbers |
| `ScriptVM_proofs` | type correctness; exit stops; return leaves its activation; break and continue are immediate | none: every depth of nesting |

Some invariants are proved and not run, because they are parts of the above: the type invariants, and that a task's reports are complete, its end
states, the executed count, that no file is loaded twice, that the table of tasks is live, and that `send_done` means that all was probed.

**The inductive invariants.** None of the properties is inductive by itself, and each module has an `IndInv` for
which initiation and consecution are proved, one lemma per conjunct and in it one step per action.

- *HostsTask*: `LaunchInv` ties the main thread's position to the set of threads that exist. `StopInv` speaks of
  the hosts that are *missed* - not flagged and in nobody's local list - once every Stop has made its copy: there is
  at most one, and only while the main thread is past its last test of `mStopAll`. `EndInv`, proved beside it, follows
  the list of hosts from the scan to the threads. The refinement needs `LaunchInv` too: `Close` is only allowed when
  the started hosts have finished.
- *HostScripts*: a late run pins the position of the loop (`LateInv`); the pending script is a function of it. The progress is
  a partial sum of the groups' sizes and the position (`SeenInv`), so that the last group's end means all scripts.
- *ServiceDetect, HostThread*: a port is examined, or left to one thread in one place (`LeftInv`). A thread's ports keep the order of the
  scan, and the storage of one that has not failed is what its examined ports leave in that order (`FoundInv`, `InOrder`). The
  combination holds what any thread's storage holds, so no item of one thread is lost and none comes from nowhere. Under a name that is not
  contested one thread keeps all that is ever stored: a port that replaces it leaves all of that itself. That dealing `i % thread_count` partitions the ports is `DealFacts`.
- *ForkedScript*: the combinations are digits of an odometer. `UpTo` orders them by their first difference, `NextIsSuccessor` shows that the
  carry leads from a combination to the next, so that what has been visited is at every time exactly what comes up to the current
  one (`DeliverInv`); when no digit can grow, that is everything. The loop may also end by `Exit`, of which the invariant says nothing more. Reads are stable because the snapshot is made
  of the values the digits range over (`ForkInv`, `ReadInv`).
- *ScriptCache*: the cache grows upwards from the shared base, each private list grows upwards from zero in steps of a
  bounded size, so the two meet nowhere (`CacheInv`, `PrivateInv`); names are unique because the target of a load is in
  neither list (`ListInv`).
- *CodeCache*: an index is of an update that has reached it (`VersionInv`); without a short write each table's blocks lie in the data where
  it says, and what a scanner holds is part of the writer's table (`OffsetInv`); a script is still to be executed, at the head of what is
  loaded, or in the table (`CachedInv`).
- *ScriptVM*: `IndInv` has seven parts. Contexts are nested as they were created (`CtxInv`); each frame executes in the
  context of the one around it (`StackInv`) and owns its contexts in that order (`OwnInv`), so that the chain `mParent` and
  the stack tell the same story. A context that was left by a jump is that of a body around which only bodies run that a return has left (`JumpInv`,
  `ReturnInv`); whatever runs after an exit() runs in a context that was left or in a call that was being prepared (`CoverInv`, `ExitInv`).
- *ScriptOrder*: the stack is a path of the dependency graph (`OrderInv`); what is met and not in the order is on it
  (`StackInv`); what is left of a call and what was met cover its list (`TodoInv`). Reachability is defined by
  closed sets, so that no induction over paths is needed.
- *RPCServer*: `RacesRecorded` says that whatever may go wrong has been recorded in `raced` before it does;
  `NewIsPrivate`, that only its creator knows a task not yet in the table.
- *RPCSession*: the wire is a stretch of what the client sends, what is collected comes before it and what was executed before both
  (`WireInv`, `CollectedInv`, `ExecutedInv`); as long as no requests met, reading stands in the request after the one answered last (`PairInv`).
- *ScriptHttp*: `ReachInv` ties the address and the count of symbols taken to the position in `DoHttpRequest`; `ResponseInv` says that the
  search has gone over exactly what was taken, wherever the reads cut it, and `raw_header` has been copied with it. The invariants of
  `ScriptVM` and `ScriptHttp` stand in the modules of the proofs.
- *HostScan*: `ProbeInv` follows the pass index by index and shows that a *loaded* word already proves the pass
  complete; `PassInv` shows that only the receiver's single store can take `send_done` away; `AnswerInv` that
  without a collision the table is the set of reported targets, so that counting to the number of probes is counting all.
- *TargetScan*: `HitInv` counts what the passes have probed, against the indices of a pass that lead to a target (`HitsBound`).
  That no target of the lists is missed or doubled is about lists and about the cipher. A list sorted and combined
  is `Separated` - each range ends before the next begins - so that indices and members correspond (`SortedFacts`, `CountFacts`,
  `PickFacts`); a list that was counted unsorted is the same list if nothing was combined in it, which is what
  `ProbesExact` asks (`AllResolved`). For the cipher, each round is undone by its inverse on the rectangle `a * b`, for all sides
  that `blackrock_init` finds (`SidesFacts`); and the walk of a permutation, stopped at the first number below the range, is a
  permutation of the range, because a walk that never came back would repeat a number (`ShuffleCorrect`).

Recursive functions (`ScriptsUpTo`, `WrittenAll`, `CombineAll`, `StreamSearch`'s scan, `AddAll`, `UpTo`, `Encrypt`, `Walk`) are reasoned about by the least counterexample, a set of
natural numbers being well founded (`NatInductionSet`, `Recursion`), since the library's induction theorems cannot be instantiated here.

**Only model-checked**: liveness (fairness and ENABLED are out of the prover's reach), that is, all the runs' properties of the form
"ends", "returns" or "answers". Every other property of the passing runs is proved.

## 5. Limits

- The memory model is sequential consistency between the accesses named; bytes of a counter do not tear. `HostScan` splits
  the bit-field stores because there a whole word is written.
- `HostScan`: UDP, ICMP and SCTP answers are left out, they touch neither the word nor the table. A caller that
  gets NULL from `init_host_scan_task` (`hostscan.c:873`) is not modelled. The parsing of target strings is left out; the IPv6 lists
  have the code of the IPv4 lists, for wider addresses.
- `Blackrock`: sums do not wrap at 2^64; one in 2^64 / range does.
- `CodeCache`: the process is killed, not the machine; one update runs at a time. The contents of a file differ from one update to the next.
- `PackageReader`: the tool that makes packages is not in the repository; sorted names, which the search relies on, are assumed.
- `ScriptCache`: 32-bit wrap-around of keys is excluded by an assumption that millions of lines would be needed to break.
- `ScriptVM`: values are left out, so that a condition is a choice; functions of the engine return.
- `RPCSession`, `ScriptHttp`: the parser's own grammar is reduced to what tells pieces apart; TLS is a library.
- **Not modelled**: values and user objects, the parser and lexer, the JSON grammar, the statements of the databases other than the update's transaction, the
  script functions that wrap libraries, WinRM, and the parts of masscan that the engine does not run or runs as one call. They
  are data or generated code, with no order of steps; PROJECT.json says so for each. They are by far the most lines of the repository.

## 6. Plan

1. `HostScripts` composed with `HostsTask`: the step `ExecuteScriptOnHost` implemented by the loop.
2. The variable-length integers of serialised scripts, against their definition.

## 7. Running

    tlc -workers 2 -config HostsTask.cfg MCHostsTask.tla
    tlapm HostsTask_proofs.tla

Each run takes at most about two minutes; each proof module, a few, `HostScan_proofs` five and `RPCServer_proofs` about ten.
