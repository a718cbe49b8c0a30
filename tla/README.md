# wincage in TLA+

Models, model checks and proofs of `wincage`, a Windows sandbox: a Python
package (`src/wincage/*.py`) that starts one helper process per launch,
`sandbox_host` (`src/wincage/src/*.cpp`), which provisions an AppContainer,
grants it files, and runs the target suspended, then capped by a job object.

## The system

| Component | State | Operations | Talks to |
|---|---|---|---|
| DACL grants and revokes, `container.cpp` | the access control lists of folder trees; the `:wincage.pending` marker of a folder | `secure_existing_file`, `grant_directory`, `revoke_existing_file`, `revoke_directory`, `grant_window_station`, `provision`, `reset` | the file system, shared with every other host |
| Host launch, `main.cpp` `run_launch`, `job.cpp`, `watchdog.cpp`, `event.cpp` | the target, the job, the named event, the watchdog and reader threads, its stdout | one straight run with a dozen failure branches | Python by stdout, the event and a duplicated handle; the parent's death |
| Host entry points, `main.cpp` | none | `--reset`, `--revoke` (`run_revoke`), launch | Python by argv, stdin and stdout |
| Sandbox lifecycle, `sandbox.py` | `SandboxHandle`: callbacks, `_cleaned_up`, `process_handle` | `launch`, `_watch_event` (a thread of its own), `terminate` (any event loop), `revoke_grants`, `reset_container` | the host, user callbacks |
| Container path, `process.py`, `sandbox_process.py` | `SandboxProcess` and the handle it claims | `_launch_in_container`, `poll`, `wait`, `terminate` | the lifecycle's lock |
| Native path, `process.py`, `job.py` | `SandboxProcess`, `WindowsJobObject` | `run_under_job` with its breakaway retry, `add_process`, `teardown` | Windows |
| Command line and JSON, `main.cpp`, `json_parse.h` | none | `quote_arg`, `build_cmdline`, `build_env_block`, `json_parse`, `JsonOut` | the target's C runtime, Python's `json` |
| Limits, `job.cpp`, `job.py` | the limits of the job object | CPU rate packing, memory limit | Windows |
| Checker, `checker/checker.py` | none beyond a coroutine per check | launches probes, verifies the token, waits with a timeout, resets the container | `launch`, `on`, `terminate`, `reset_container` |

What is hard in it: an operation on a folder tree that is killed in the middle
and repeated by somebody else; several hosts that edit one DACL; a launch any
step of which may fail after others have succeeded; three waits on the same
target (host, watchdog, Python) that may be ended by its exit, the parent's
death or a kill; a watcher thread, an event loop and a timer that share a
handle, a flag and a list of callbacks. `PROJECT.json` lists each hazard at its
line with the properties that speak of it.

## Modules

| Module | Models |
|---|---|
| `DaclWalk` | `container.cpp`: the DACL edits, the walk, the marker, both fast paths |
| `FolderAccess` | abstract: what granting and revoking promise to a caller |
| `DaclWalkImpl` | the refinement mapping from `DaclWalk` to `FolderAccess` |
| `MCDaclWalk` | a small volume and the requests of each run |
| `DaclWalkProofs` | theorems about `DaclWalk` |
| `DaclWalkImplProofs` | the proof of that refinement |
| `HostLaunch` | `run_launch` and its threads |
| `HostLaunchProofs` | theorems about `HostLaunch` |
| `SandboxLifecycle` | `sandbox.py` and the container path, from `launch()` to the last callback |
| `Checker` | composed with it: the checks of `checker.py` as users of a launch |
| `LifecycleProofs` | theorems about both |
| `NativeJob` | `launch_suspended`, `run_under_job`, `SandboxProcess`, `WindowsJobObject` |
| `NativeJobProofs` | theorems about `NativeJob` |
| `GrantSession` | composed over `DaclWalk`: the processes of launches, reverts, revokes and resets that go through their `broker_files` on one volume |
| `MCGrantSession` | a small volume and the launches of a session |
| `GrantSessionProofs` | theorems about `GrantSession`, from those about `DaclWalk` |
| `Text` | strings, and a loop over one |
| `CmdLine` | `quote_arg`, `build_cmdline`, and `CommandLineToArgvW` as the reader |
| `JsonText` | strings in the JSON messages, both writers and both readers |
| `JobLimits` | the numbers of a job object with their widths |
| `TextProofs` | theorems about both writers and their readers |
| `Handover` | composed of these: one launch's data from the caller to the target and its job, and the output back |
| `MCHandover` | the arguments, limits and outputs that are tried |
| `HandoverProofs` | theorems about `Handover`, from those of `TextProofs` |

Operators whose comment begins with "Faulty" are slips a maintainer could make.
No definition uses them: they show that a property can tell the code from its
faulty twin (`PROJECT.json`, "mutants").

### DaclWalk

`acl[n][s]` is what the DACL of node `n` has for the SID `s`, `inh` for entries
with both inheritance flags, `own` for those of the node alone. `marker` is the
set of folders with the pending stream. `host[h]` is where a `sandbox_host`
process is in its call. Actions: `Begin`/`BeginError` (the first
`GetNamedSecurityInfoW`), `Check` (marker and fast path), `Mark`, `ReadNode` and
`WriteNode` (the two halves of `apply_ace_to_node`, between which another host
may write), `WalkError`, `Finish`, and `Kill`, possible at every step.
`Tree[n]` is the least set closed under what the walk enters; the walk itself is
a set of pending nodes taken deepest first, which is the order of the
recursion up to the order of siblings.

*Assumption.* Entries are the explicit ones: the nodes have protected DACLs, so
Windows' own propagation of inheritable entries by `SetNamedSecurityInfoW`,
which would do part of the walk's work on unprotected nodes, is left out. The
findings about torn trees are about such trees.

Properties: `OkMeansWhole` (an `S_OK` is true of every node),
`RootSpeaksForTree` (what both fast paths rely on), `WalkStaysInside`,
`OthersUntouched`, `HadAceTellsRemoval`, `EveryCallReturns`, and
`ImplementsFolderAccess`.

The first two hold under `Disciplined`: requests that share nodes come from one
host, and are all of folders or all of files; those of folders agree on the
path, the SID and the mask; and a folder can carry a marker. Without the clause
about SIDs, `dacl_shared` violates `OkMeansWhole`. To see others at work, give `MCDaclWalk_shared.cfg`
the requests `MasksAsks` (a grant for writing is interrupted, a read-only one
clears its marker), `NestedAsks` (a folder inside a brokered one has a marker of
its own) or `ModesAsks` (revoking the file entry hides the tree from the revoke
of the folder): `OkMeansWhole` fails with each. That the marker does nothing on
FAT volumes is documented (`src/README.md:320`).

`OthersUntouched` is about the stale copy in `WriteNode`, which undoes what
another host has written since the read. `dacl_apart` runs two hosts at a time
for it: the junction in the folder of the one leads to a node above both, so
that the walk of the first comes to the file of the second as soon as it follows
it, and one loses the other's edit. Two hosts on one folder lose edits with the
code as it is: nothing in it is a lock.

### HostLaunch

`host.pc` is the line `run_launch` has got to; `target[1]` and `target[2]` the
processes it creates, the second for the breakaway retry; `heir` a process the
target starts itself; `job`, `dog` (watchdog and `done_event`), `reader`, `evt`,
`out`, `parent` the rest. Every call with a failure branch may take it
(`Abort`), and `Kill` ends the host before any step: the system then closes its
handles (`CloseJob`), which is what the kill-on-close job is for. Left out:
failures the code has no branch for (a failed `WaitForSingleObject` of the
target when there is no watchdog).

### SandboxLifecycle and Checker

`use` says who launches: a user of `launch()` with a `CLEANED_UP` callback,
`_launch_in_container`, or one of the checker's two kinds of check. `launch` is
where `launch()` or `_launch_in_container` is, `timer` the handshake's
`threading.Timer`, `watcher` the thread of `_watch_event`, `term[c]` the call of
`terminate()` by caller `c` on its own event loop, `callbacks` the list of
`CLEANED_UP`, `dup` where the duplicated handle is, `check` the coroutine of a
check. A step is what a thread does between two points where another may come
in; the lock of `process_handle` makes its closing, its claim and the checker's
look at the token one step each. The host is what Python can see: whether it
empties the pipe of its stdin, a line, a signal, its death. It may die at any
moment, and it need not do anything else.

The handshake goes through `Encode` (the JSON text becomes bytes, or raises),
`WriteHandshake` (the blocking write, flush and close), `StartTimer` and
`ReadLine`. `payload` says whether the pipe holds the whole request; if it does
not, the write returns only when the host reads or dies (`Blocked`). No timer
runs then: it is `_read_handshake_response` that starts it.

A check verifies the token (`Verify`), registers its callback (`Listen`), is
told or gives up after its timeout (`Told`, `GiveUp`, `ProbeExits`, `Overdue`),
and resets the container. The reset itself is in `GrantSession`.

`capture_target_stdout` adds one more await of the watcher before `EXITED` and
is left out here: what makes that wait long is in `HostLaunch`.

### NativeJob

`call` is where `launch_suspended` and `run_under_job` have got to, on which
attempt, and what the cleanup under way goes on to; `proc[i]` and `obj[i]` the
target and the `SandboxProcess` of each attempt; `job` the `WindowsJobObject`.
The cleanup is the code's own sequence of `kill()`, `wait()` and `teardown()`
(`Doom`, `Kill`, `Wait`, `Teardown`), each with the ways in which it is cut
short. A terminated process is "dying" until its handle is signalled, which may
take longer than the ten seconds of `wait()`. After the return the caller polls,
waits, terminates and closes in any order. `AssignProcessToJobObject` never works
for a process that has ended, and otherwise may work, be denied or fail.

The container path is the same code around a target that its host has resumed:
what the host does is one step here (`HostEnds`, `Stub`) and has its own modules.
Left out: `add_process` for a `SandboxProcess` without a handle, which
`launch_suspended` does not return, and a `TerminateProcess` that fails although
the process lives, for which the code has no branch.

`WaitMayFail` says whether `WaitForSingleObject` may return `WAIT_FAILED`.

### GrantSession

Each call of `launch()`, each revert at `CLEANED_UP`, each `revoke_grants()` and
each of the two processes of `reset_container()` is a `sandbox_host` of its own:
`run[h]` is what process `h` was started for, which entry of the `broker_files`
it is at and what it has read of a window station. Its edits are `DaclWalk`'s
own actions (`Work`), so that a tree is walked node by node here too. `box[b]`
is how far launch `b` and its watcher are, `profile` and `station` what Windows
keeps, `owes` a history variable: the launches whose grants no revoke has taken
back. `Fail` is a process that fails or is killed, at any of its steps, by any
of the three timeouts of `sandbox.py`, and what its caller makes of it.

Properties: `GrantsAreOwed` (no entry on the disk that nobody is answerable
for), `StartedMeansGranted`, `ResetLeavesNoOrphans`, and `WalkStaysInside` of
`DaclWalk`, now for whole processes.

*Assumptions.* Time in between is left out: a launch's process takes its grants
away only through `revoke`; after "started" it edits nothing, and the rest of its
life is in `HostLaunch`. A caller revokes with the list that it launched with.

### Handover

One launch's program, arguments and limits go through `_validate` (`Validate`), the JSON
line (`Write`), `parse_config` (`Parse`), `apply_limits` and `build_cmdline`;
for a native target straight to `set_cpu_limit` and `set_memory_limit`
(`SetLimits`); the output comes back through `JsonOut::quote` (`Answer`) and
`json.loads` (`ResolveOutput`). A string is a sequence of characters, with one member for each class
that quoting, JSON or NUL termination tells apart: here the conversions are what
the properties are about. Each loop over a string is `Folded` over a function
that takes a state and a character to the next state (`QuoteChar`, `ArgvChar`,
`WriteChar`, `StringChar`), so that what it does in one step can be stated and
proved about. The two readers of JSON differ: `parse_str` takes what it does not
know in an escape for itself and lets bare control characters pass, `json.loads`
rejects both.

Both messages are UTF-8 on the wire, and not everything is: a Python string may
hold a lone surrogate, and a target writes what bytes it likes, in whatever code
page. `Stray` is the set of such characters, `IsText` says that there is none in
a text. `encode()` raises for the first (`Encodes`), which ends the launch. The
host copies the second into its line as they are, and `json.loads` of the line's
bytes raises before it parses, which `_resolve_target_output` logs and drops:
`target_output` stays `None`. A byte that belongs to no character in the output
belongs to none in the line, because all that the host puts beside it is ASCII
(`StrayAssumption`).

*Assumption.* `_validate` lets a launch pass only if its `exe_path` is a file, and
Windows lets no such path hold a quote or a control character (`IsFile`). It does
let a backslash at the end pass, which pathlib overlooks; `CreateProcessW` is given
the path as well and refuses it (`Opens`). Numbers keep their widths: `WORD` is 65536, `SizeT`
and `MiB` are constants, smaller in the run than in Windows.

Properties: `ArgvSurvives`, except for the three characters that the code loses
(`Plain`: NUL, where `to_wide` stops, and `\b` and `\f`, which `parse_str` reads
as the letters), `LimitsAsAsked`, except beyond `SIZE_T`, and `OutputArrives`: one
line whatever the bytes, and in `target_output` all of them or, if they are not
UTF-8, none.

## Runs

| Run | Bounds | Shows |
|---|---|---|
| `dacl_apart` | 8 nodes in 4 levels with a junction back to the top, 2 hosts, 2 SIDs, 2 rights | the marker makes the fast paths sound under interruption; no lost update while the walks stay apart; refinement; termination |
| `dacl_shared` | two containers and one folder | `OkMeansWhole` fails: finding |
| `dacl_count` | one folder | `had_ace` is silent about what a second revoke removes: finding |
| `host_launch` | exit codes 0 and 259, breakaway and capture on and off | all of `HostLaunch` |
| `host_heirs` | the same, with capture | a process left behind by the target holds up the host: finding |
| `life` | 2 users of `terminate()` and the launcher; all four uses; a request that the pipe holds and one that it does not | events, ownership of the handle, `terminate()`, the race of the claim with `CLEANED_UP`, the verdicts of the checks |
| `native_job` | natively and in a container, with and without limits, exit codes 0 and 259 | all of `NativeJob` |
| `native_twice` | the same | the retry executes a container's target twice: finding |
| `session` | 5 nodes with a junction to the top, 3 launches of 2 monikers with all three modes, two of one moniker on one folder and two of different monikers on one file; one process at a time | all of `GrantSession` |
| `session_overlap` | 2 launches of one moniker on one folder, 2 processes at a time | an entry stays behind although both reverts succeed: finding |
| `payload` | three programs, one with a blank, one that `CreateProcessW` refuses; arguments of up to 4 characters that a shell tells apart, or 2 of JSON's, pairs of shorter ones; a path, arguments and outputs with something that is not UTF-8; rates and limits around each bound | all of `Handover` |
| `life_twice` | 1 user | a future is resolved twice: finding |

Why the bounds are enough. The tree has a folder with two subtrees, a chain of
three and a way back up through a junction: an interruption can fall before,
inside and after a subtree. Two exit codes, one of them `STILL_ACTIVE`, are all
that `run_launch` tells apart. Two callers of `terminate()` with one listener
give every order of registering, looking and being called. Three launches are the fewest
with which a sandbox of the same moniker and one of another are there at once;
`Tidied` (whose callers revoke and reset by themselves) leaves out the third,
which differs from the first in nothing that a reset would see. `session` runs
one process at a time because the code only promises anything then: with two,
`session_overlap` loses an entry and, with `Hosts = {"h1", "h2"}`, two launches
lose one another's window station entries (`StartedMeansGranted`). Four
characters of an argument hold a run of backslashes of even and of odd length
before a quote or the end. `payload` has a `SizeT` of 64 and a `MiB` of 4, so
that limits below, at and beyond the wrap-around are 1 to 65; `LimitsAreKept`
(below) does not depend on it. No state is cut off by a constraint; all models
are finite by themselves. `CHECK_DEADLOCK FALSE` where the system is over when
the launch is (`HostLaunch`, `SandboxLifecycle`, `Checker`, `NativeJob`,
`Handover`, and the two launches of `session_overlap`).

Fairness. A host's thread that is not blocked goes on (`WF` of its steps), so
does each thread and event loop in Python, a timer goes off, and so does the
timeout of `asyncio.wait_for` in a check. A wait of the watcher that fails
(`PollFails`) is not owed to anybody. `WriteHandshake` is not enabled while the
write is blocked, so fairness does not help it: `LaunchEnds` says that `launch()`
ends or stays `Blocked` for ever, and `CheckEnds` the same of a check. Nothing
makes a host read or answer, a
target exit, a parent die, a host fail or anybody call `terminate()`.
`ParentDeathEndsTarget` excepts failed `WaitForMultipleObjects` calls, for which
the code has no better answer, and launches with capture: there the join of the
reader stalls, as the comment at `main.cpp:801-807` concedes.

## Findings

The violation runs, quoted in `PROJECT.json`: the marker is per folder while the
walks are per SID (`dacl_shared`); `had_ace` speaks of the root only
(`dacl_count`); the host waits for the target's heirs (`host_heirs`); a future is
resolved twice (`life_twice`); in a container the retry launches a target again
that has executed (`native_twice`); a revert that overlaps a launch of the same
moniker makes an entry outlive both reverts (`session_overlap`).

The models have more, which no run isolates:

* `wait()` takes a failed `WaitForSingleObject` for an exit
  (`sandbox_process.py:112`): with `WaitMayFail = TRUE`, `ReturncodeIsReal` fails.
* The three characters that `Plain` excepts do not survive: take them out of it
  and `ArgvSurvives` fails.
* `memory_limit_mb` from 2^44 on wraps around in `SIZE_T`, to no limit at all for
  a multiple of it; 2^64 passes the range check as a double, and its conversion
  is undefined (`Gets`).
* Events are fired before `launch()` has returned the handle (`FireExited` before
  `LaunchReturns`); a host that ended early is called an older build (`Blame`);
  the timer may kill a host whose handshake has been accepted (`TimerKills`
  after `CheckLine`).
* A live host that does not read its stdin keeps `launch()` waiting without a
  timeout if the pipe cannot hold the request (`sandbox.py:408-410`, before the
  timer of line 437): without its second alternative, `LaunchEnds` fails.
* Captured output in an encoding other than UTF-8 is lost: `target_output` is
  `None`, and only the log says why (`sandbox.py:234-240`). A lone surrogate in an
  argument is a bare `UnicodeEncodeError` of `launch()` (`sandbox.py:406`), not a
  `SandboxError`; the host is killed all the same.
* A check calls a launch failed that went well: its callback is registered after
  the launch (`checker.py:449`) and is never called for a sandbox that is clean
  already, and the handle it wants to look at may be closed by then
  (`checker.py:157-159`).
* `reset_container` deletes a profile between whose two processes another launch
  of the moniker may have started; a check's reset, and the probe after it, work
  on the folder that the watcher of its sandbox is reverting.

## Proofs

`DaclWalkProofs`, for every tree (cyclic or not), every set of hosts and
requests, from `TreeAssumption`, `NoneAssumption` and `AsksAssumption`:

* `Typing` and `StaysInside` from `ServingInv`: a host's pending nodes exist and
  are in the scope of its request. They hold for every use.
* `ApartSparesOthers`, for hosts that work on different nodes (`HostsApart`, which
  is a part of `Disciplined` and says nothing of SIDs, masks or markers; true of
  the instance of `dacl_apart`): `OthersUntouched`, from `FreshInv`. A lost update
  takes two hosts on one node at one time (`WorkApart` is all that `FreshStep`
  needs), because only then can what a host is about to write over differ from what
  it has read.
* `GrantsAndRevokesAreWhole` and `FastPathIsSound`, under `Disciplined`. By
  itself `OkMeansWhole` is not inductive: nothing in it says that the nodes a
  walk is through with have the tree below them done or pending. `SoundInv`
  adds that (the nodes reached so far and the trees of the pending ones cover
  the scope), that a walk under way has its marker, and that an unmarked
  folder's root speaks for its tree. The lemmas about `Tree` (least closed set)
  carry the step from a node to its children, without induction.

`DaclWalkImplProofs`, from the same assumptions, under `Disciplined` and
`OneClient` (requests for one path have one SID, and one mask if they add one; the
instance of the run `dacl_apart` satisfies both): `WalkImplementsFolderAccess`,
from `SoundInv` and the lemmas of `DaclWalkProofs`. Requests for one path have the
same nodes (`SamePath`) and those for two have none in common (`OtherPath`), so an
edit moves one folder only (`OthersKeep`). `GoalReached`, `GoalMeansReached` and
`NotOpposite` say what one edited node and a whole edited scope mean for the
folder, which makes `WriteNode` an `Advance` or a stutter (`Writes`); `Returns` and
`Begins` map the ends and the beginnings, where `OkMeansWhole` in the next state is
what an "ok" needs.

`HostLaunchProofs`, for every set of configurations and exit codes, from
`ConfigAssumption`: `TargetIsCapped`, `CleanExit`, `SingleTarget`,
`WatchdogHasItsEvent`, `Typing`, from `LaunchInv`, and `NoWatcherHangs` and
`CodesAreReal` from `AnswerInv` on top of it (which lines are out at each step,
what the host knows of the target after its wait, and `DeadStays`: a target that
has ended keeps its code). What it adds to the
properties is which step has established what: no job before "limits", an open
kill-on-close job from there on, limits from "assign" on, the current target in
it from "resume" on, nobody running before "handover", and at most the current
process alive. `CloseJobFacts` says what the system does when the host's handle
goes, and `AbortContains` covers all failure branches at once.

`NativeJobProofs`, for every set of configurations and exit codes, from
`ConfigAssumption`: `NativeIsCapped`, `RaiseIsClean`, `RaiseReleases`,
`OneTargetLives`, `NativeRunsOnce` and `Typing`, and `ReturncodesAreReal` where
`~WaitMayFail`, from `CallInv`. It says that the second attempt is fresh until
the first has ended, that from the assignment on the job is open with its limits
and kill-on-close, that a native target executes only once the call has returned,
and who may still hold a handle. `Declines` (nothing comes to life, what is dead
stays as it is) carries the steps of the cleanup, the caller and the
environment.

`LifecycleProofs`, about `CheckerSpec` for any set of callers of `terminate()`
and any uses, from `CallerAssumption`: `Typing`, `RaisingKills`, `OneOwner`,
`AnswersAreTrue`, `TrueVerdicts`, `InOrder`, from `LifeInv`. None of the
properties is inductive: that the handle is closed once depends on who has it at
each step of `launch()` and the watcher (`Owned`), the order of the events on
what the watcher has done by the step it is at (`Watched`), a true answer of
`terminate()` on a future being resolved, or about to be, only after the flag
(`Answered`), and a verdict on what its coroutine has seen before (`Checked`).

`GrantSessionProofs`, for every tree, any launches and any number of processes,
from the assumptions of `DaclWalk`, `SessionAssumption`, `RunAssumption` and
`SessionAsks` (a process asks `DaclWalk` for what `Mirrored` says): `SessionTyping`
and `SessionStaysInside`. For one process at a time (`OneAtATime`) and under
`Disciplined`: `NothingIsLeftBehind`, `StartedIsEarned` and `ResetIsLast`, from
`SessionInv`. It adds to `SoundInv` of `DaclWalkProofs`
how far each process has come with its list: what a launch has granted up to the
entry it is at is there, and what a revoke has been through is clean. That is
what "owed" rests on when the entries of one launch go while another's remain.
The instance of the run `session` satisfies both hypotheses, so they are not
empty. `OverlapSparesOthers` (`OthersUntouched`, for a session) is about any number of
processes at once, in the
behaviours in which no two are at work where they share a node (`[]WorkApart`):
with two processes of different monikers on one folder, `OthersUntouched` fails.

`HandoverProofs`, for every width of `SIZE_T`, every set of characters, launches
and outputs, from `WidthAssumption`, `PunctuationAssumption`, `EscapesAssumption`,
`StrayAssumption`, `ConfigsAssumption` and `OutputsAssumption`:

* `LimitsAreKept`, from `HandoverInv` (how a launch has come to its limits, and
  what has been carried there) and `HalvesApart`, which is the arithmetic of the
  packed `CpuRate`.
* `ArgvIsKept` and `OutputIsKept`, from `TextInv` (`TextCarriage`): what the texts
  have become on the wire and in the host. Its steps are the theorems below.

`TextProofs`, for strings of any length over any characters, from the three
assumptions about the characters:

* `ArgvIsAsWritten`: what `build_cmdline` writes for a program and its arguments,
  `CommandLineToArgv` reads as they were. The argument follows `quote_arg`:
  after each character of it the reader, given what has been written, has got
  what was gone through but for the backslashes held back (`ReadBody`); so many
  backslashes before a quote, doubled, are read as so many (`ReadBackslashes`,
  `ReadEscape`); and the closing quote or blank ends the argument, with no mode
  or backslash left over for the next (`ReadArgument`, `ReadRest`). The program's
  name is read by other rules, without escapes, which is why it must hold no
  quote and not end with a backslash.
* `LoadsWhatIsQuoted` and `ParsesWhatIsDumped`: a string that either writer has
  written is read as it was, character by character (`ScanEscaped`, `ScanInner`,
  `ReadWritten`), by each reader for the characters it has an escape for; and
  what `JsonOut::quote` writes has no line break (`OneLine`) and is UTF-8 exactly
  if what it was given is (`WrittenText`, by `EscapedText` for one character).

These are inductions over strings, and the library's induction theorems, which
take an operator, cannot be used. `NatInduct` and `SeqInduct` take the *set* of
what is to be proved instead: if it is not all, the well-founded order has a least
element outside it (`WFMin`), which the step excludes. `FoldLeft` is a recursive
function inside a `CHOOSE`; `RoundsExist` and `FoldIsRounds` show that there is
such a function and what it is, `FoldAppend` and `FoldConcat` are what the rest
rests on.

Every invariant that a run checks is a theorem for every value of the constants,
and so are the action properties and the refinement. Only model-checked: the
eight liveness properties (out of the prover's reach, as is `ENABLED`).

## Plan

Done: `DaclWalk` with its abstraction, `HostLaunch`, `NativeJob`,
`SandboxLifecycle` with the container path and the checker, `GrantSession`,
`Handover`, and the proofs above. Left: `GrantsAreOwed` for processes that
overlap on different folders, as `OverlapSparesOthers` has it for
`OthersUntouched` (`session_overlap` with `WorkApart` as a constraint does not
violate it); a model of the handles of mode `inherit`, if they come to be
shared.

## Not modelled

`build_env_block` (appends), `ProcThreadAttrList` and the handles of mode
`inherit` (straight lines); when the watcher
awaits captured output (what comes of it is in `Handover`);
`_drain_stderr`; `run_checks`' choice of checks, its skips and the Windows
version (sequential, no state); the JSON parser's objects, arrays and rejections,
and surrogate escapes, which `ensure_ascii=False` keeps from being written; the
status scripts (read-only), the probes' graphics calls, declarations and build
files.
