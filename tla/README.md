# claude-local in TLA+

`claude-local` hands one well-specified implementation task to a small model on
the same machine: it prompts the model, writes the one file the model may write,
runs the task's tests in a sandbox, and repairs until the tests are green or
there is nothing left to ask. The parts are Python under `src/claude_local/`,
with a benchmark (`benchmarks/`) and sweep scripts (`scripts/`) around them.
Paths below are relative to the repository.

## The system

| Part | State | Operations | Talks to |
| --- | --- | --- | --- |
| repair loop, `loop.py` | last attempt, nudge, reframe, stalls, plateau, results | `run`: plan, attempt, score, resolve, finish | everything below, in one thread |
| snapshot store, `snapshot.py` | one entry per scored attempt | `record`, `best`, `restore_best` | the worktree |
| oracle, `runner.py`, `sandbox.py` | a child process group and a report | `run`, `sandboxed_spawn` | pytest on untrusted code |
| prompt, `prompt.py`; replies, `edits.py`, `harmony.py` | none | prefix, repair brief, nudge, reframe; frame and write | text in, text out |
| client, `client.py` | call count, metering of one stream | `generate` | backend, guard, decoder |
| derail guard, `derail.py` | clocks, line buffer, ring, latch | `tick`, `feed` | fed by the client |
| transport, `backend.py`; decoder, `sse.py` | one HTTP stream, one partial frame | `generate`, `decode_sse` | the model server |
| server lifecycle, `model_server.py` | a process group on a port | `running` | `mlx_vlm`, external |
| interactive session, `model_session.py` | served id, HTTP client, turns, last result | `open`, `__call__` | server, client |
| containment, `paths.py` | none | `require_nested_relative_file`, `resolve_within` | the file system, external |
| composition, `entrypoint.py`, `cli.py`, `telemetry.py` | HTTP client, worktree, exit code, record | `implement`, `main` | the orchestrator, external |
| benchmark, `benchmarks/run.py` and `harness/` | finished cases, faults, scorecards on disk | `run_cases`, scoring, `main` | `implement` |
| sweep, `benchmark_all_models.py`, `benchmark_model.py` | one script per model under a ceiling, its server, the rows | `main`, `_bench_one` | server, benchmark |

There is one thread per process. What is concurrent is the outside: a server
that streams, stalls, dies and forks; a child that may never end; other programs
on the port; the clock. The hard behaviours are the order in which those meet
the code's checks, and the variables of the loop that outlive the attempt that
set them. `PROJECT.json` lists them as hazards, each at its line.

What makes the parts correct:

- loop and snapshots: DONE means that the file on disk was scored green; the run
  never ends worse than its best attempt; what is quoted to the model is its
  latest work; the run ends whatever the model does;
- client, guard, transport: one cause per generation, no verdict lost, a wait that
  keepalives and slow content cannot stretch, and no healthy stream killed; the
  guard judges the text and not its cuts;
- decoder: the events depend on the bytes and not on the chunks, a frame counts
  whole or not at all, and neither time nor memory runs away;
- replies, paths and snapshots: what the model meant is what is written, nothing
  but the implementation and the oracle test ever changes, and a restore is exact;
- server and session: no leader survives the block, a teardown that finds the
  group forgets nobody in it, and a session never talks to what an earlier launch left;
- oracle: a hang or a crash of the code under test is a zero verdict, a broken
  host is a fault, and neither is taken for the other; every oracle run ends;
- composition: only green code leaves with exit code 0, a code that names an
  ending of the loop vouches for the file, and whatever was opened is closed;
- benchmark and sweep: a harness fault costs no finished case, a model is credited
  with its own scorecard only, a server is left only by a script that was cut
  down, and one bad model costs its ceiling.

## The modules

`Loop` is `Loop.run`, with the store, the score, the choice of the tail and the
write folded in. Each action is one stretch of the iteration between two calls
that may fail: `Plan`, `Generate`, then `Apply` or `Refuse`, `RunOracle` or
`OracleRaises`, then `ResolveScored` or `ResolveUnscored`, and `SpendBudget`,
`Finish`. Variables carry the source's names. A reply is an opaque value and the
constant function `Extract` says what it frames, so that two texts may write one
file; an attempt's score is any member of `Scores`. A generation is its text and
how it ended; that it never ends in two ways is what `Generation` establishes.

`RepairTask` is the abstract task, all a caller may rely on: files are tried one
at a time, none after a green one, and the task settles on a file no other beats.

`Generation` is one `ModelClient.generate` with `HttpxBackend.generate`,
`_ticking` and the guard's clock. Time is a counter that moves in the transport
(`Wait`) and in the caller (`Work`, at most `MaxWork` per chunk). httpx charges its
timeout to each socket call, so a call waits at most that long: one to connect,
one or more to send the request, one or more for the head, and one or more for each
chunk. A call that moves bytes and completes nothing (a part of the request or of a
head, an interim response, framing or compressed bytes) is a `Trickle`: the next
call starts with a new timeout and no code of ours has run. `trickles` counts them.
A chunk is the sequence of events its bytes complete; a keepalive, which `_ticking`
does see, is the empty sequence. `Escape` is an exception of the decoder or of
`on_delta` on its way through `generate`. Whether a delta completes a
repetition is a free choice there, and `DerailGuard` says when it does.

`DerailGuard` is the content half of the guard over real character sequences,
with the verdict on the whole text as the reference definition.

`SseDecoder` is `decode_sse` and the frame functions below it. A byte is a symbol
of a small alphabet (the field name `data:` and the text `[DONE]` are one symbol
each, which is sound because a line is only looked at once it is whole); `buffer`,
`start`, `search_from`, `data_lines` and `data_bytes` are the code's, and `scanned`
counts what the newline searches look at. JSON parsing is the constant `Json`, and
`Raising` the blocks on which `json.loads` raises what is no `JSONDecodeError`
(nested too deep, an integer too long): that leaves the decoder.
`ReadWhole` is the reference: one pass over the bytes with no buffer. The guard
of `Generation` takes such events as its input.

`ReplyText` has `assistant_content` and `extract_file` over token sequences.
`Worktree` extends it with a file system of directories, files and links, the two
path functions, what `implement` makes on disk, `apply_file`, the captures and
`restore_best`. The model is external: it means a path and a payload and frames
them in one of the ways the rules card, its habits and a leaking server produce.
The oracle test goes where a link of its name leads (`Landing`), and a lookup of a
name the system refuses (`Barred`) raises (`LookupRaises`: `is_symlink` and `exists`
pass such an `OSError` on in some Pythons and answer no in others, so the refusal
is a possible outcome too). Control (when the loop stops, which score an attempt
gets) is open there and exact
in `Loop`; `Loop` in turn takes a reply as one of the three outcomes that
`Worktree` derives.

`ModelServer` is `running`, `_await_readiness` and `_terminate_session` over
consecutive launches on one port, repeated launches of one model: the registry
gives each model its own. The server processes are external: the leader
binds, any process forks, before SIGTERM or after it, and may exit at any time, and
workers inherit the socket. A lookup of the group may fail once the leader is dead
(`SignalMisses`, `KillMisses`): the code suppresses that, and nobody is signalled.
`early` records that this, or a leader found dead, ended a teardown without a
signal, and `late` who was forked by a process that had been told. `Intruders` lets another program take and give back the port.

`Session` composes it with `model_session.py`: `Around` is every step of
`ModelServer` outside the block, and inside it the id is asked (`AskAnswered`,
`AskRefused`), turns are taken (`TurnReturns`, `TurnRaises`), the client closes
(`LeaveBlock`) and the server is given back (`GiveBack`).

`Dispatch` extends `Loop` with the CLI and `implement`: envelope, refusals,
client and worktree ownership, the read back (`ReadText` is the newline
translation of `read_text`), the exit code, and the orchestrator's admission. A run
that raises ends in one of three ways: `Fault` (exit 8), `RefuseLate` (any
`ValueError`, taken for a refusal of `impl_path`: exit 7) and `Traceback` (exit 1).

`Oracle` is one `TestRunner.run` over `sandboxed_spawn`: `Refuse` or `Spawn`, the
wait that ends in `Completed`, `Overrun` or `Interrupt`, the `finally` clause
(`TeardownDead`, `TeardownAlive`, `Kill`, `KillMisses`), `Judge`, `ReadReport` and
`Clean`. The confined processes are external: pytest writes its report in more than
one write and ends by an exit or a signal; its forks come and go, may leave the
session, and may write, damage or remove the report, which lies in the directory
they are allowed to write. Only `ParseError` is caught when it is read, so a report
that is gone again or is not UTF-8 leaves as another exception, and a process that
lives on may make the removal of the directory raise.

`Benchmark` is one process of `benchmarks.run`: the ladder (`FinishCase`,
`FaultInCase`, `EscapeCase`), its reduction to a card (`ScoreCases`, `ScoreRaises`),
then style, produced code and scorecard, each of which the host may refuse, and
`ReportAndExit`. `EscapeCase` and `ScoreRaises` are tracebacks: exit code 1. A case is the end of one
`implement`. A write that fails half way leaves a torn scorecard.

`Sweep` extends `Benchmark` with the sweep and its per-model script, three
sessions in all: the sweep, the script with its benchmark, the server. The
ceiling kills the second and cannot reach the third. A script may also die by a
signal of its own (`ScriptDies`), for the sweep an exit like any other: its server
stays, and so does its benchmark, of which only a late scorecard is followed
(`OrphanWrites`). The ceiling may come too late (`CeilingLate`). The server appears
with four states per model (`workers`: the leader is gone and something it forked
is not); how it starts and stops is `ModelServer`'s.

Modules `MC*` give the constants values; `*Proofs` hold the theorems.
Definitions that start with `MUTANT` in their comment are plausible bugs that
nothing uses; replacing the definition they shadow must break a property.

## What the runs show

| Run | Bounds | Result |
| --- | --- | --- |
| `loop` | 3 replies, 2 files, 3 scores, budget 7 | Five invariants, `NoWorkAfterGreen` and the refinement `KeepsPromise`, with no verdict above the pinned count. A run that passes no test ends by attempt 6, from the ladder, the plateau or the correction; one that passes one may spend the budget. Verdicts above the count are in `loop_overcollect` and in the theorems. |
| `generation` | chunks of up to 2 of 9 events; deadline 5, silence 2, connect 1, read 3, 1 unit of work, 2 trickles counted | Six invariants and `Terminates`. The deadline exceeds the silence bound and a read may outlast it, the order of the real constants' roles. `EndsInTime` speaks of runs with fewer than two trickles, none and one being the cases that differ. |
| `derail_guard` | 2 letters and newline, deltas up to 3, cap 9, warmup 3, two equal lines of 2 trip | `TripIsChunkFree` over every text and every cut. |
| `sse` | every stream of 4 of 9 lines (LF and CRLF blanks, sound, split, off-contract, raising and error frames, `[DONE]`, a comment), cap 3 | Four invariants over every cut and every early end. Four lines hold two frames, or a frame of two data lines with `[DONE]` after it; the cap is above every sound frame and below two pending lines and a tail. |
| `worktree` | 12 trees, 15 spellings of `impl_path`, 11 of the reply's path, 9 payloads in 75 framings, 2 attempts, 2 scores | Three invariants. Two attempts are what a worse attempt after a better one, and the reverse, need; the trees have links back into the subtree and to the worktree, out of it, to a file outside and to empty directories that the pruning removes or leaves, and links of the oracle's name to a file, a directory and missing files inside and outside. |
| `session` | 2 launches, 2 workers, 2 polls, 1 turn, an intruder | Four invariants and `AllLaunchesEnd`. Two launches are what a stale survivor needs, two workers what a worker forked by a worker that was told needs. |
| `dispatch` | 3 replies, 3 scores, 3 attempts | Four invariants over both callers, both ownerships and four record directories. |
| `oracle` | 2 forks | `BlameIsFair` and `OracleEnds`. Two forks are enough for one to leave the session and fork again. |
| `sweep` | 2 models, 2 cases | Four invariants and `SweepEnds`. Two models are what a credit or a server left to the next one needs, two cases what a fault or a traceback after a finished case, and cases that disagree on their configuration, need. |

`MaxClock`, `MaxWork`, `MaxDelta`, `MaxTrickles`, `Launches`, `MaxPolls`,
`MaxTurns`, `Forks`, `Models`, `Cases` and `Worktree!MaxAttempts` are the named
bounds. With fewer than two trickles `EndsInTime` bounds the clock by
7 + 2 * 3 = 13, below `MaxClock` (14); beyond that the clock stands still at
`MaxClock`, where the deadline has passed and is the guard's only verdict.

Three runs show a disagreement between the code and what it says of itself:

- `loop_overcollect`: an attempt that collected more tests than expected (and so
  is not green) outranks a later green one by `passed`, and the green file is
  lost. `loop.py:211` and `snapshot.py:3` promise otherwise. `GreenSurvives`
  proves that this is the only way to lose a green.
- `oracle_orphan`: `sandbox.py` says no confined process is ever orphaned; the
  group is killed only if its leader still runs, so a fork of a pytest that ended
  by itself stays.
- `sweep_resident`: `benchmark_all_models.py` says the previous model is gone
  before the next is read; the ceiling kills the script, which then cannot tear
  down its server. `OnlyCutScriptsLeak` shows that the weights stay in memory in
  this way and one other, a script that dies by a signal of its own; workers that
  outlive their leader may stay in any.

Readings of comments that the model also refutes, kept here and not as runs:
a derail may carry a finish reason (`telemetry.py:37`), because the loop reads on
after a finish frame; and a server count may come with a derail
(`client.py:50`), for the same reason; the docstring of `Loop.run` says an attempt
with no usable edit ends the run, and the code gives it one correction;
`derail.py:24` says the guard's verdict never depends on the cuts, which is so of
the trip (`TripIsChunkFree`) and not of the reason it gives. Others of that kind:

- `running` says it will guarantee the server is gone (`model_server.py:294`). A
  worker may remain if the leader died first (`:418` returns without a signal, and
  the lookups at `:422` and `:427` may find nobody), if the leader stops faster than
  its worker (the wait is for the leader alone), or if it was forked after SIGTERM.
  `SurvivorsWereTold` and `LeaderIsGone` are what does hold.
- `INVARIANTS.md:13` (INV-016) says a scored ladder survives every later fault, and
  the comment at `run.py:373` that none of the hours of decode should die. That is so
  of the harness faults and of the artifacts. An `OSError` of a later case's worktree
  (`driver.py:202`), or `score_cases` refusing cases that disagree on the rules card
  because it was edited in between (`run.py:372`), ends the process with a traceback,
  exit code 1, and the finished cases are lost. `ExitIsBacked` says what each exit
  code does stand on.
- `cli.py:153` says the only bare `ValueError` out of `implement` is the refusal of a
  flat `impl_path`. A report that is not UTF-8 (`runner.py:177`) or a reply that does
  not encode when it is quoted back is one too, and comes after the file was written:
  the CLI then exits 7, rejected task, over a worktree that was changed
  (`RefuseLate`).
- `runner.py:123` names `OracleError` for a report that cannot be parsed; only
  `ParseError` is turned into it (`ReadReport`).
- `sse.py:142` folds parse errors into `Error` events; `json.loads` has others than
  `JSONDecodeError`, and they leave the decoder (`Raising`).
- `benchmark_all_models.py:110` says killing the group is what keeps a hung model from
  leaking a server. Besides `sweep_resident`: a script that dies by a signal leaves its
  benchmark running, and the late scorecard of that orphan may score a later model
  (`VerdictIsOwn` names the case).
- `sse.py:91` bounds the pending block; `data_bytes` counts the characters of its
  payloads, so a run of empty `data:` lines grows it without reaching the cap.
  `FloodIsCapped` is about the text of the block.
- `snapshot.py:60` says every restore stays within the resolved subtree. A captured
  link is written through; its target gets back the bytes it had, so no file
  changes (`OnlyImplChanges`), but the write lands outside.
- `snapshot.py:108` says directories emptied by a restore are removed; every empty
  directory of the subtree is, and a link to an empty directory makes `rmdir` raise
  after the files are restored (`Hollow`; where link and directory are equally
  deep the listing order decides, `Chancy`).
- `paths.py:3` says the oracle test never lies where the model may write, and
  `require_nested_relative_file` refuses every spelling that would put it there.
  A link in the caller's tree that leads back to the worktree or above it,
  or has the oracle's name (`~Direct`), does so too: `impl_path` may then lead to the oracle test itself.
  `OnlyImplChanges` vouches for the oracle's text where the two are different
  files or the tree has no such link, and for every other file in all of them.
- `loop.py:303` writes the oracle test to its name whatever is there. A directory
  of that name raises (`OracleRaises`; an `impl_path` below `test_loop_oracle.py`
  makes one itself). A link of that name is written through: the file it leads to,
  inside the worktree or outside it, takes the oracle test (`OracleFile`), and may be
  the implementation.
- `entrypoint.py:159` says an `impl_path` that leaves through a symlinked component
  raises. Only its top segment is resolved before the loop; a link further down
  is refused attempt by attempt and ends BLOCKED, after `mkdir` has made the
  directories behind it.
- `telemetry.py:138` says concurrent tasks never clobber one another's record; two
  that finish in one millisecond do. Not modelled.
- `compare_sweeps.py:263` says a verdict may only vary the axis it names; groups are
  keyed by the last segment of the model id, so two stores of that name are
  compared as one. Not modelled.

One more behaviour of the benchmark to know of: a torn scorecard counts as scored in
the sweep, which only looks for the file.

## Fairness

`Generation!FairSpec`: the caller's own steps are weakly fair, as a running
thread's are; httpx raises once a socket call has waited its timeout (weak);
time passes in the transport however often bytes move (strong fairness of `Wait`: without
it a server could send infinitely many chunks in no time). Nothing is assumed of
the server. `Terminates` therefore has a condition and no fairness in its place: a
server that forever moves bytes which complete neither the head nor a chunk keeps
`generate` waiting, because httpx restarts its timeout and no clock of ours is read. `Session!SessionFairSpec` is weak fairness of the controller and of the
caller, which includes that turns end (`Generation`), that the caller leaves its
block and that the grace timer fires; nothing is assumed of the server processes.
`Oracle!FairSpec` is weak fairness of the runner, its deadline included, and `Sweep!FairSpec` of the sweep's own steps, its ceiling
included: neither an interruption nor anything of the confined code, the script,
the benchmark or the server is promised. The other modules need none: their runs
check deadlock freedom, and `loop` a bound on the attempts.

## What is proved

For every value of the constants, with the named assumptions of the modules:

- `LoopProofs`: type correctness, `AttemptsBounded`, `TailIsFresh`,
  `BestIsRestored`, `DoneIsOnDisk`, `NoWorkAfterGreen`; and, if every score
  collects at most `ExpectedTests`, `GreenIsKept` and `Spec => Promise!Spec`.
  The inductive invariant adds to these what each point of control knows:
  `Position` ties the sequence lengths to the control point, `LastVerdict` ties
  the last attempt to the last entry and the disk, `HasBest` says that a nonempty
  store has a least element under the ranking, `GreenStops` that only the last entry may be green,
  `Settled` what `Finish` left, and `Spent` charges each attempt to a new best
  score, a miss, a rung or the correction, from which the bound follows. The
  tie-break in `_rank_key` is a total order, so `best` exists. `StallsAreReal` and
  `ResultIsTrue` rest on a second invariant, `RInv`: a pending rung speaks of the
  last event, and each event was one call.
- `GenerationProofs`: all six invariants of the run. `Timing` is the heart of it:
  a chunk that the tick let through arrived within the deadline, so the wait for the
  next starts at most `MaxWork` after it and lasts one `ReadTimeout` and one more
  for each trickle; before the body, the same holds of connection, request and head.
- `SessionProofs`, first part: four invariants of `ModelServer`, for any number
  of launches and workers. `AllTold` and `PortIsOurs` are the strengthenings: once the
  group was signalled everyone in it was told or descends from one who was, and after
  the port check nobody of an earlier launch listens. Second part: each step of a
  session is a step of `ModelServer` or leaves it alone, by the shape of `Session`
  (`SessionStep`), so `ModelServer`'s invariant holds under a session, and from it
  `TrafficStaysInside`. `SessionInv` adds where
  the client is open and that nobody else was spoken to.
- `LoopProofs`, second part: the four invariants of `Dispatch`. Every step is one of the
  composition root, which leaves the loop alone, or one of `Loop`, so `IInv` of the
  first part carries over; `DispatchInv` adds who owns the client and the worktree
  at each stage, that the loop runs inside `implement` only, and what was read back.
- `DerailProofs`: `TripIsChunkFree`, for every text, cut, cap, threshold and warmup.
  `Judged`: until the guard trips, its buffer, line position and ring are functions of
  the text fed, and that text is within the cap and free of a run. A cut is harmless
  because it falls at a newline (`CountedSplit`: the lines of a text are those before
  the newline and those after it, at shifted positions), and the short ring is enough
  because a new run must end in a new line (`RingJudges`).
- `OracleProofs`: `BlameIsFair`, for any number of forks and whatever they do to the report.
  `LeaderKnown` is the strengthening: a return code is there exactly once the
  leader is gone, so what a verdict was read from can no longer change.
- `SseProofs`: all four invariants, for every stream, cap and cut. `Offsets`: bytes
  scanned and bytes ahead of the search make up the bytes received, and nothing is
  ahead of it between chunks. `Decoded`: what was yielded and the block held back
  are the reference's after the bytes consumed, and what is still in the buffer
  holds no newline before `search_from`; a step consumes one line, and the lemmas
  on `ReadWhole` say what the reference does over a line. `Sized`: `data_bytes` is
  the text of the block.
- `WorktreeProofs`: `OnlyImplChanges`, `RestoreIsExact` and `WrittenAsMeant`, for every
  set of trees, spellings and replies that satisfies the module's assumptions.
  `Kept` says what has changed since the run began, the implementation and the file the
  oracle test was written to (`OracleFile`); it needs that `impl_path` leads
  to one place (`Home`) throughout. `Taken` says that every capture is `Faithful`:
  it names exactly the files the subtree has now, and only the implementation's text
  may differ; so a restore removes no file and rewrites one. `WayIsKept` is the
  subtle lemma: pruning removes no directory on the way to the implementation,
  because each has a link, the next directory or the implementation in it
  (downward induction along the path).
  `WrittenAsMeant` rests on `ReadAsMeant`: `extract_file` after `assistant_content`
  undoes every framing that `Carries` the text, for texts of any length. It is put
  together from what each pass leaves of two texts one after the other
  (`PartitionFirst`, `PartitionLatest`, `LStripBlank`, `RStripBlank`): the fence comes
  off (`FenceUnwraps`), the header is read (`ExtractsFrame`), the last final message
  is cut out (`ReadsFinal`). `Heard` ties the reply in hand to one the model sent, and
  `StaysPermitted` says that a target is still the permitted one once it is written.
- `SweepProofs`: the four invariants, for any number of models and cases.
  `BackInv` adds to `ExitIsBacked` that the artifact stages follow a whole or an
  interrupted ladder, that the exit they lead to follows an attempt at the scorecard,
  and that up to that attempt there is none, so a traceback leaves none (`CardLess`).
  `ChainInv` is the rest: `Place` ties sweep, script and benchmark together (a
  running benchmark is the current model's), `Servers` says that no process with the
  weights is there before its spawn or after its teardown, unless the script was cut
  down, `Cards` that the scorecards that come up in a window are the model's own or
  an orphan's, and `Orphaned` that no orphan is the benchmark that runs.

Assumptions a reader should know of: `TreeAssumption` (a link names a real path that
is no link, the worktree's path is made of directories, no name in the tree is one the
system will not look up), `PathAssumption` (the worktree's path does not climb), `MarkupAssumption` and
`ReplyAssumption` (the tokens a reply is cut at are different ones, no segment of
an `impl_path` is one of them, and at most one blank line follows the header),
`JsonAssumption` (the
`choices` of a parsed frame are an array unless they are off the contract) and the
`NoneAssumption`s, which keep the "nothing" value apart from the data. TLC evaluates
all of them on the runs.

Where an argument goes by induction over a text, a path or a store, it is a least
counterexample: `LeastNat` and `Induction` are about sets of naturals, not
predicates. A recursive function is shown to exist first (`WalkExists`,
`MakingExists`, `ScanExists` and their like in `SseProofs`), which is what lets its equation be used.

Only model-checked: `Terminates`, `AllLaunchesEnd`, `OracleEnds` and `SweepEnds`
(liveness, which the prover does not reach). What is proved of them is the safety
half: `LaunchesAdvance` and `SweepAdvances` give each step of the fair processes a
rank, a natural number that it lowers (for a launch, unless it moves on to the next
one) and that no other process raises, and `EndsInTime` bounds the clock of a
generation. That some step of theirs can be taken until the end is what TLC checks.
Every invariant and every other action property of the passing runs has a theorem.

## What is not modelled

The SBPL profile and resource limits (for the kernel to enforce), the wording
and byte caps of prompts, JSON validation of the envelope field by field, the
command line of the server and the model registry's table (parsing of a curated
file, no state), the golden application
of the benchmark, the file name and token sums of the economy record, and the
reporting and probe scripts (one pass over finished artifacts, or one request,
with no state of their own). Host I/O errors outside the paths the code catches
end the process with an exception and are left out, except where the tree itself
causes them (`MkdirRaises`, `OracleRaises`, `LookupRaises`, a directory at the target,
`Hollow`); in `Dispatch` they are all one `Traceback`, after which nothing is claimed
of the worktree. A console that refuses the benchmark's output, after the scorecard is
on disk or before, is left out too. `on_delta` may raise (`Escape`) and takes at most
`MaxWork`; `on_attempt` is assumed to return. Who listens on the port is not looked at
again after the probe, so a program that replaces a dead server answers for it: the
model has it and no property speaks of it.

## Plan

What is left needs more modelling, not more proof: the torn scorecard that the sweep
counts, and the record file's name and the verdict groups, which are one expression
each.
