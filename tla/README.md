# OpsMask in TLA+

OpsMask masks what a language model may see of logs and command output. It
replaces sensitive values by tokens, remembers which token stands for which
value, and runs commands for an agent so that sentinels in the arguments become
plaintext while the output becomes tokens again.

This directory holds TLA+ modules of that program (Go, `internal/`), the TLC
runs that check them on small instances, and proofs that TLAPS checks for every
value of the constants. `PROJECT.json` says for each definition which lines of
the source it stands for.

```
tlc -workers 2 -config HookInstall.cfg MCHookInstall   # check a run
tlapm HookInstall_proofs.tla                           # check proofs
```

## 1. The system

### Components, their state, their operations

| component | state | operations | modelled by |
|---|---|---|---|
| mapping store (`store/`) | rows (type, HMAC, token, first_seen) in SQLite; one writer connection per process | InsertBatch, Lookup, Prune, ListTokens | `MappingStore`; ListTokens in `McpServer` |
| allocator (`pseudo/`), masking (`engine.maskChunk`) | cache of known values | Plan, CommitPlans, render | `MaskPipeline`, `PseudonymMap` |
| stream engine, chunker (`engine/`, `ioutil/`) | bytes read and not written | Next, Process | `StreamEngine` |
| child runner (`exec/run.go`) | pipes, goroutines, timers, a process group | Run | `ExecRun` |
| exec policy (`exec/policy.go`, `env.go`, `denybase/`) | none | EvaluatePolicy, BuildEnv | `ExecPolicy` |
| exec orchestration (`exec/orchestrate*.go`, `resolve.go`, `auditlog.go`), MCP exec tool | exec.log | Orchestrate, OrchestrateHook, handleExec | `ExecCall`, `ExecContract` |
| Claude Code hook (`cchook/`), installer (`install/`) | settings files, shim, registry, hook secret | install, uninstall, Handle, RunWrapped | `HookInstall` |
| hook skip list (`cchook/tokenize.go`) | none | Match | plan |
| user secret, trust, loading of the configuration (`config/`, `cli/init.go`) | user_secret and its lock, trust.json, project config | EnsureSecret, Trust, Load, init | `StateFiles` |
| detection (`detect/`) | none | FindMatches, InertEscape, InertDecode | `Detection`, `MaskCommand` |
| mask and unmask (`cli/mask.go`, `cli/unmask.go`) | the end of the output the canary remembers | mask, deny writer, unmask | `MaskCommand` |
| MCP server (`mcpsrv/`) | mcp_calls.jsonl and its mutex | five tools, a resource, shutdown | `McpServer` |
| runtime, other commands, corpus, Windows variants | – | wiring, flags, a test harness | not modelled |

How they interact. `runtime.New` opens the store, ensures the user secret and
loads the configuration once for a process. A *stream* (a mask command, stdout
or stderr of a child, a call of `mask_text`) runs `engine.Process`: the chunker
feeds it, each segment is planned, committed to the store through the allocator
and only then written. An *exec call* passes gates, resolves sentinels by
`Store.Lookup`, asks the policy, appends a record, starts the child, whose two
streams are masked by two goroutines that share the allocator, and appends a
second record. The *hook* is a chain of processes: Claude Code runs the shim,
the shim runs the handler, the handler signs the command and hands back a
wrapped one, which a later process verifies and gives to the orchestration.
Installers change the files of that chain while it runs. Processes share the
SQLite file, exec.log, the registry, the secrets and the settings files; the
streams of a process share the allocator and the writer connection.

What is hard: several writers in several processes on one database; a cache
that outlives the rows it speaks of; crashes between two writes; runes, values,
lines and tokens that lie across buffer boundaries; pipes whose other end is
held by a process nobody waits for; timers and cancellations that race the end
of a child; a log that is the precondition of an action and may fail at any
append; files that are read, changed and replaced without a lock; values that lie across
the windows, the matches and the writes that look at parts of a text; handlers that
are at work while what they use is being closed. `PROJECT.json`
lists these at the line where they bite, under `hazards`.

### What makes each component correct

- store: a token has at most one row, a batch is all or nothing and all there when
  InsertBatch returns nil, a row goes away only by a prune, no stream waits for ever.
- pipeline: a token is written only for a value that was stored; what is shown
  can be restored unless it was pruned.
- engine: no byte is lost, repeated or reordered, no rune is cut (but for one case,
  see *Findings*), memory is bounded, long lines never pass, a closed stream ends.
- runner: nothing is leaked, no output is lost, the class it reports is what
  happened, a deaf child dies, no writer waits for ever.
- orchestration: what runs was recorded before, permitted in its final form and
  fully restored, and inherits no variable it may not; the answer says what happened.
- detection and mask: windows, the order of the search and overlaps lose no value but
  those `Sought` names (see *Findings*); the canary sees every word it can remember;
  unmask gives the text back.
- MCP server: each call is answered and recorded once, as it ended; a list that
  says it is complete is.
- state files: processes mask under one secret, take only rules that were trusted,
  and do not wait for each other for ever.
- hook: a command of a hooked project is masked or refused; a hook never points
  to a missing shim; what installers answer stays so; the user's own settings
  survive.

## 2. Modules

```
PseudonymMap  <== refined by ==  MaskPipeline -- EXTENDS --> MappingStore
                                 MaskHistory  -- EXTENDS --> MaskPipeline
ExecContract  <== refined by ==  ExecCall -- EXTENDS --> ExecPolicy
MaskCommand -- EXTENDS --> Detection
StreamEngine     ExecRun     HookInstall     StateFiles     McpServer
X_proofs -- EXTENDS --> X (MaskPipeline_proofs has those of MappingStore too) ;  MCX -- EXTENDS --> X
```

The modules meet where one component calls another. `StreamEngine` treats the
masking of a segment as one write, which is what `MaskPipeline` unfolds.
`ExecRun` treats Process as a masker that reads to EOF or gives up
(`StreamEngine`). `ExecCall` treats Run as start, end and class (`ExecRun`) and
Lookup as found or not (`MappingStore`). `HookInstall` ends where
OrchestrateHook begins (`ExecCall` with source `"hook"`). `MaskCommand` takes the
cuts of `StreamEngine` as any set of places and rows as remembered or pruned
(`MaskPipeline`). For `McpServer` masking and Orchestrate end in one of their ways
and may leave rows.

**MappingStore.** `db[v]` is the timestamp of the row of `v` or `NoRow`. A value
stands for (type, HMAC), `Token[v]` for (type, truncated HMAC), so two values
may share a token. InsertBatch is a program counter `st[w]`: connection,
BEGIN IMMEDIATE with its retries, a row at a time (`InsertRow` covers the
upsert, the select and the collision check), COMMIT or ROLLBACK, return.
`added[w]` is what the open transaction has inserted; it joins `db` on commit.
`conn` is the single connection of `SetMaxOpenConns(1)`, `lock` the write lock of
SQLite, which a worker has from BEGIN IMMEDIATE to its end and the `Pruner`, another
process, from the start of its DELETE to its end (`PruneLock`, `PruneDelete`). Prune
is a call that fixes its cut and a later DELETE, so that time may pass in between. A
crash frees what the process held.

**PseudonymMap** is the promise: Remember a batch, Forget, Show. **MaskPipeline**
has the streams: `PlanSegment` and `FillCache` are the two critical sections
of CommitPlans, InsertBatch runs between them, `WriteMasked` renders. `forgotten`
is a history of rows that went away. With `known <- Rows` it implements
`PseudonymMap` (`ImplementsMap`). **MaskHistory** adds when a value was last in
the store relative to a segment.

**StreamEngine.** Bytes are named by their position in the input, so that
`written` shows each loss, repetition or reordering; `Kind` gives newline, ASCII,
lead and continuation bytes, or part of a value. `ReadPart` is one turn of the
loop of Chunker.Next with nextPart, `ProbeChunk`, `ProbeEOF`, `MainChunk`,
`MainEOF` are the branches of Process, `ProcessSegment` may meet a closed sink.
`Feed` gives bytes at any pace.

**ExecRun.** `at` is the counter of Run, `masker[s]` that of each goroutine,
`ends[s]` says which processes hold a write end, `waitCh` is the channel of
cmd.Wait. The child and a helper write, fork, leave the group, ignore SIGTERM
and exit when they like. `TakeAnswer`, `Terminate`, `AnsweredLate` and `Kill` are the cases of
waitForChild; `waitErr` says that the answer is an error of waiting rather than an
exit status, which `Return` reports as "wrapper".

**ExecPolicy** has no state. Words are model values with `Lower`, `Base` and
`Marks`, the last being the prefixes and patterns a word has. `DenyMatch` is the
three layers in their order, `EvaluatePolicy` the whole decision, `BuildEnv` the
environment.

**ExecCall.** A call has a record of the request and a counter `at[c]`: gates, one word of
the argv after the other, policy, starting record, child, final record.
`log` is exec.log, `disk` what an append does: all bytes of a record, a part, or
none. A record is *whole* when all its bytes are there; it is not on a line of its own
if a torn one precedes it (see *Findings*). `Refuse` is the single finalize path of a refusal with its record.
For the MCP front calls share a process and die together. With `Ruling`, which
settles for each request whether it is granted and with which argv, and with the
whole records of a call as its traces, it implements **ExecContract**
(`HonoursContract`): TurnDown, or Trace, Begin, End, Report, once each.

**HookInstall.** `settings[p][f]` says whether a file is there, parses, has
`"hooks"`, holds our entry and which entries of the user's. `shim` and `secret` are
written in place, so they are cut and then filled, two steps; settings and
registry are replaced by a rename, one step, after a read that is a step of its
own. `act[a]` is the process of an install or uninstall with the copies it has
read, `call[c]` a Bash call on its way through shim, handler, wrapper. A failed
write goes where the code sends it: give up, remove the shim, or undo the hook.
`stands` is a history of how the last install or uninstall of a project ended:
`"left"` is an install that failed at its shim. A short secret is `CutKey` if it was
never whole and `LostKey` if it was whole and was opened a second time, by another
first install that had looked before it was there.

**StateFiles.** `proc[p]` is a process of opsmask with what it has read: it masks
(EnsureSecret, then Load, as `runtime.New` calls them) or runs `config trust`
(initProjectFiles, then Trust). `secret` is the file: absent, short (created by
O_EXCL and not written, or written in part), or the process whose 32 bytes it holds;
`locked` is the flock, which the kernel frees when a process dies. trust.json is
written in place: `CutTrust` opens and truncates, `FillTrust` writes, and `holds` says
whose open file is still the one under that name, since a reader that cannot parse it
renames it (`SetsAside`). A text stands for its own hash. `asked` is a history of what
`config trust` has hashed, `stale` of the processes whose file was written after they
had hashed it. What `StateFiles` hands on is the secret of `MaskPipeline` (one for all
processes that share the store) and the trusted configuration of `ExecCall`.

**Detection** has no state. A rule is a record of traits: the symbols its expression
takes, the `words` the expression accepts, the `keys` that are searched for (the
expressions are `(?i)` for the nouns, the search for keywords is not), whether the
value stands behind a word and `Blank` symbols as in the k8s rules, its longest match,
whether it needs two kinds of symbols (as minEntropy does), whether it destroys.
`Occurrences(r, b, w)` are the places where such an expression matches in a window,
`FindAll` those that FindAllIndex returns, from left to right, where a k8s match takes
the symbols before its noun and behind its name as well (`Clash`). `Windows` is what
keywordRanges yields, `Candidates` what FindMatches hands to nonOverlapping, whose order
is `Before`. `Values` is what a reader of the rules would want found in the whole text;
`Sought` excepts from it what the code is known to miss.

**MaskCommand** is the way of a text from `opsmask mask` to `opsmask unmask`.
`TakeSegment` escapes and searches a segment, `Pick` is one turn of the loop of
nonOverlapping, `CommitPlans` may fail, `WriteMasked` renders and passes the deny
writer (`DenyWrite`, with `tail` and `hit`), `Finish` decides on the canary, `Unmask`
puts back values and decodes. A symbol of the output is a raw one, a token or a
redaction; a literal token in the input is two symbols, so that a cut may fall in it.

**McpServer.** `server` is how far `mcp serve` is, `at[c]` where the handler of a call
is: at work, about to record, holding the mutex to append, about to answer. Work is one
step per tool, since what happens inside is in other modules; `Lock` is the mutex with
the nil check, `AppendRecord` the write, of which the disk takes all, a part or
nothing. `HangUp`, `CloseAudit` and `Exit` are Run's return and the deferred calls, and
they do not wait for handlers: whether the SDK does is not in this repository.
`steady[c]` is a history of values that have had a row since the call began. A request
without a problem, or a tool without use for a type, has "none" and "any" there.

## 3. Runs

| run | what it asks | distinct states |
|---|---|---|
| `store` | two processes, colliding and overlapping batches, a prune, cancels, crashes | 2.5 M |
| `pipeline` | two streams of a process, a pruner in another that may hold the write lock for ever: cache and output against the store; refinement of `PseudonymMap`; every segment is written or refused | 0.18 M |
| `engine` | every short text, every pace: six properties of the stream | 0.55 M |
| `exec_run` | child, helper, two streams, timer, cancel; writers advance, a deaf child is killed, Run returns when alone | 0.43 M |
| `exec_call` | two concurrent calls over requests for every gate and layer, a disk that changes twice: what runs and what it inherits, answers; refinement of `ExecContract` | 0.87 M |
| `hook_install` | two installers, two projects, a call; one failed write each, crashes anywhere | 1.5 M |
| `state_files` | two processes in a project and one in another: secret, trust, load; an edit, a fault, crashes anywhere | 0.77 M |
| `mask_command` | every short text of a rule's symbols, two nouns with their names, every cut: keywords, windows, overlaps, canary, unmask | 0.48 M |
| `mcp_server` | two calls of every tool, a log that refuses or tears a line, rows that come and go, a hang-up at any time | 0.24 M |
| `pipeline_forgets` | violated: see *Findings* | |
| `engine_cuts` | violated | |
| `exec_stop` | violated | |

**Bounds and why they are enough.** Store and pipeline: three values of which two
collide are what a collision and an independent batch need; two workers are what
a race needs; `MaxClock = 1` gives "same second" and "later second", all that the
prune cut distinguishes; `MaxTries` (100 in the code) at 1 or 2 reaches both the
retry and its end. In `pipeline` the connection lets one stream of the process at a
time to the lock, so it is the pruner that makes it wait there; in `store` it is the
other process. Engine: the sizes 4095, 8 KiB, 64 KiB and 16 MiB are scaled to
2, 4, 5 and 5 in an order that keeps their relations of interest, with all texts
of at most eight bytes over newline, letter and runes of two and three bytes,
the texts of five and six bytes after a line that decides the token form (a last chunk
of one byte after a cut is among them),
all strings of five bytes that need not be UTF-8, and one long text so that
buffers pass their bounds several times. Run: capacity 1 makes a pipe full at
once; two units on stdout let a writer block and continue, while one on stderr fills the
other pipe before, after or between them. Calls: two calls share
a log; the requests reach each gate, each deny layer, the sentinel that restores
to a denied program, the namespace rewrite, the oversize record and the
environment; two faults let the disk fail and recover. Hook: two projects share
the registry and the secret; two installers race on them; the initial settings
have every kind of file; one failed write in each invocation. State files: two
processes of one project race for its configuration and its trust, the third, of
another project, makes trust.json name one project, the other, or both, so that a text
may end in the rest of a longer one; one edit is what makes a file differ from its
hash, one fault is what EnsureSecret needs to leave a short secret (a crash does the
same, without bound). Mask: three rules have the traits of the built-in ones (a keyword
inside the match that is destroyed, a noun before a name, in a spelling that is a
keyword and in one that is not, mixed symbols without a keyword). The texts are all of
five symbols over those of the key rule and over noun, blank and name, which hold two
overlapping matches, a keyword whose window (two symbols where the code has at least
256 bytes) ends inside a match, and a name too far from its noun; all of four over the
symbols of all rules, and over those of literal and escaped tokens; and two nouns with
their names, between which one symbol is shared. The canary remembers two symbols, and
one word is just short enough for it and one is not.
MCP: two handlers contend for the mutex and glue their lines; two rows with two stamps
and a limit of one are what a list needs to be cut rightly or wrongly; the default, a
given and a clamped limit are asked for. Rows change only while a list is about to be
read, which is when they matter, and every value has a row at first.

**Deadlock.** `CHECK_DEADLOCK FALSE` stands only where the system really stops: a
stream that is done, a call of Run that returned, a set of calls that are all
answered, a text that was unmasked, a server that ended, processes that ran once (`StateFiles`). The store, the pipeline and the hook never stop.

**Fairness.** `MaskPipeline`: a goroutine inside InsertBatch goes on as SQLite
answers (weak), and a waiter for the connection is not passed over for ever
(strong; database/sql hands a connection to a random waiter). No fairness for
cancels, crashes, failures, prunes: a pruner that has the write lock may keep it. `StreamEngine`: the engine goroutine is
scheduled; the producer is not assumed to write. `ExecRun`: the goroutines of Run,
the reaping in the kernel and the grace timer are scheduled; nothing is assumed
of the child, of its helpers or of the caller. `StateFiles`: a process inside
EnsureSecret goes on (weak); weak fairness is enough although others compete for
the lock, because each process takes it once. Nothing is assumed of
crashes, faults and users. `McpServer`: handlers and the deferred calls of main are
scheduled (weak; each handler takes the mutex once), a command need not end and the
client need not hang up. `MaskCommand` states no liveness: `StreamEngine` does.

**Properties with parts.** `NothingLost`, `WithinLimits` (`LineLimit`,
`BoundedBuffer`), `RunsApproved` (`TracedFirst`, `PermittedRuns`, `RestoredRuns`, `ShapedEnv`), `CallsSafe`
(`FailsClosed`, `RunsAuthorised`) and the `AnswersTrue` of `McpServer` (`RecordsTrue`,
`LossBounded`, `MappingTrue`) are conjunctions of named parts that answer one question.

**What TypeOK means.** Each module has one, and it ties counters to data where
the type of one depends on the other: for instance, `HookInstall`'s says that no
command ever carries a signature made with a short secret.

### Findings

- `pipeline_forgets` – README.md:382 says a value is remembered in the store; a
  long-lived process whose cache holds a value goes on writing its token after
  another process has pruned the row (pseudo.go:46).
- `engine_cuts` – two findings in one behaviour, a stream of four lines. A value that
  lies across the cut of a chunk is seen in two halves (engine.go:99);
  engine_test.go:62 has the expectation and misses the case, since its input is one
  chunk that is flushed at EOF without a cut. And a bug: engine.go:176 says the split
  "never falls inside a multibyte rune", but the loop of line 185 never tries the start
  of the buffer. If exactly 4095 bytes are held, beginning with a multibyte rune, and
  the last chunk is shorter than the rest of that rune (a last line of one byte), the
  rune is divided and both halves become `[REDACTED_BINARY]`. `RunesWhole` says that
  this is the only case. `CutsClean` is the disjunction of the two expectations, so
  a behaviour that violates it refutes both.
- `exec_stop` – the plan of the MCP server says that signalling the child
  unblocks the readers; `streamWg.Wait` (run.go:106) waits for whoever still
  holds a write end.

Divergences met while modelling for which there is no run:

- install.go:141 and :85 take `root["hooks"]` for an object. Where a settings file
  has no `"hooks"`, install panics (`CheckHook`, `UnhookRead`: `"plain"`).
- README.md:253-256 and :566-569 say that installing again refreshes the path of
  the binary; install.go:49-51 answers "already installed".
- install.go:64 drops the error of the rollback and removes the shim all the same.
  With two failed writes of one invocation (a disk that stays full) a hook is left
  without its shim and commands run unmasked: `HookHasShim` does not hold with
  `MaxFaults = 2`. Nor does it with `Exclusive = FALSE`: of two installs of one project
  at a time, the one that fails removes the shim of the other.
- secret.go:19-31: EnsureSecret looks whether there is a secret and then opens the file to
  write, which cuts it. Of two first installs in two projects one may answer "installed"
  and the other, having looked before, cut the secret and die or meet a full disk. From
  then on each command of the hooked project is refused (`FailsClosed`), and installing
  again does not repair it, since a short secret is an error (`FindSecret`).
  `StandsAsAnswered` says so (`LostKey`).
- install.go:53: an install that fails at its shim leaves the half of it that was written,
  and one whose removal fails leaves the whole shim, without a hook (`"left"`).
- README.md:528-535 calls the record before the child the forensic anchor. After a torn
  record (a full disk that has room again) the next one is appended to the same line
  (auditlog.go:74) and no reader of lines can parse it: `TracedFirst` asks for its bytes,
  not for a line of its own.
- run.go:156-171: a child that ended by itself between the timer and the signal, or before
  its answer is read, is reported as "timeout", exit code 124. `ResultTrue` asks of that
  class only that a timer or a cancel came.
- README.md:544-545 says `exec.env_deny` always wins; a variable with the prefix `LC_`
  is admitted beside the list env_deny is taken from (env.go:36, `BuildEnv`).
- docs/plans/2026-05-02-001-feat-claude-code-bash-hook-plan.md:509 says that
  load-modify-rename of the registry is under a file lock; updateRegistry
  (registry.go:82-89) has none, so one of two concurrent installs is lost from the
  registry after both said "installed" (`RegRead`, `RegWrite`). A command of the lost
  project is refused then, not run unmasked (`FailsClosed`).
- README.md:222 calls user_secret "the 32-byte HMAC key". A crash or a full disk
  between O_EXCL and Write (secret.go:38-45) leaves a file that is empty or short,
  which line 28 takes as the secret from then on; `OneSecret` holds, for that key.
- README.md:450-451 says that any edit requires a fresh `config trust`. Load hashes the
  file and reads it again to parse it (config.go:200, :222): an edit between the two is
  taken without. `TakesTrusted` excepts exactly that (`stale`).
- trust.go:52: a process that merely reads trust.json renames a file that another is
  writing, and that trust is lost although `config trust` answers; so is one of two
  trusts at a time (trust.go:21-23). If the file cannot be read, Trust assigns to a nil
  map and panics (`Reads`).
- init.go:66-77: the repair of a file of comments overwrites an edit that came after
  the read.
- unmask.go:37-43 and the tests of the codec say a literal sentinel of the input is
  escaped by mask and comes back as it was. One that a cut of the engine divides is not
  escaped, and text that is in the escaped form already is decoded: `RoundTrip` excepts
  both by name.
- scan.go:23-25 says Scan counts as the engine does; it neither escapes literal tokens nor
  replaces binary bytes nor cuts segments.
- README.md:478 calls the deny list an audit canary: a hit after masking signals that
  the rules missed something. A word longer than 8193 bytes that lies across writes gives
  no hit (`CanaryComplete` names the length).
- builtin.go:123 says the noun of a k8s rule is case-insensitive, and README.md:395 that
  references with nearby nouns are masked. The expression is, but the rule is applied only
  around a keyword, which is searched for as it is spelled (registry.go:136): in
  `ConfigMap "x"`, `ReplicaSet x` or `PVC x` no keyword is found and `x` stays. (SlackAppToken
  and the PEM rule list two spellings of theirs.) `Sought`, first part.
- The blanks between noun and name are unbounded, the window is not (256 bytes): a name
  further away is missed. `Sought`, second part.
- A k8s match takes one symbol before its noun and one behind its name, and FindAllIndex
  does not overlap matches (registry.go:89): in `pod a pod b` the blank after `a` is gone
  when the second noun needs it, and `b` stays. `Sought`, third part.
- A value longer than the longest match of its rule, or the end of a match that loses
  against one that overlaps it, is left in the text (registry.go:172-181): `MatchesCover`
  says of the latter that it begins inside a match that is kept.
- README.md:366-368 and docs/REMAINING_RISKS.md:57-63 say that the server writes a
  failed append to mcp_calls.jsonl to its stderr; writeAudit (tools_text.go:137) drops the
  error.
- audit.go:16-18 says args_summary has only sizes and booleans; the exec tool puts the
  timeout string in it (tool_exec.go:66) and the mapping resource its URI
  (resource_mapping.go:56). README.md:364 says the file is for tools other than exec,
  which writes to it as well.
- server.go:16-18 says Close lets records in flight reach the file; a handler that
  comes after it finds the file closed and its record is dropped (`Lock`).
- CHANGELOG.md:255-257 says child output is masked line by line as it is
  produced; the chunker gathers 64 KiB or waits for EOF (chunker.go:30).

## 4. Proofs

No proof assumes more than the `ASSUME`s of the modules, unless it is said below.

| module | theorems | argument |
|---|---|---|
| `MaskPipeline_proofs` (the store) | `StoreTyping`, `StoreUnambiguous`, `StoreOneWriter`, `StoreBatchAtomic`, `StoreRowsStable` | `StoreInv`: what an open transaction sees keeps tokens unambiguous before it commits (`VisibleDistinct`), each row of its batch is visible or still to do (`BatchCovered`), it adds only what has no row (`AddsOnlyNew`). `StoreBatchAtomic` takes from the second that a commit leaves no value of the batch without a row. Without the first, a commit could merge two halves that are each unambiguous. |
| `MaskPipeline_proofs` (the pipeline) | `PipelineUsesStore`, `PipelineTyping`, `CacheSound`, `UnmaskRestores`, `Refinement` | Every step is a step of the store or leaves it alone. `PlanStored` follows a segment: what the cache let through is known, the batch is known when InsertBatch returned nil, the whole plan is known when it may be written. `Refinement` maps each step to Remember, Forget, Show or a stutter. |
| `ExecRun_proofs` | `RunTyping`, `RunReturnsClean`, `RunOutputComplete`, `RunResultTrue` | `Fresh` and `Unstarted` describe Run before the child and after a failed start; `Ends` says who holds which end of a pipe at each place of Run; `Verdict` ties the answer of cmd.Wait, an exit status or an error, to what the child did and to the signals sent. |
| `ExecCall_proofs` | `CallTyping`, `CallTracedFirst`, `CallRestoredRuns`, `CallPermittedRuns`, `CallShapedEnv`, `CallRunsApproved`, `CallAnswersTrue`, `CallHonoursContract` | One invariant per call (`Progress`, `Halfway`, `Decided`, `Traced`); the log only grows, so what one call recorded is not disturbed by another (`RecordsStay`, `Bystander`). `EnvInv` holds the environment of a call from BuildEnv to the child. The tables of the policy stay unexpanded: the proofs hold for any deny-list. `CallHonoursContract` maps each step to one of `ExecContract` or a stutter; `CountInv` says how many whole records a call has at each place, and `Approved` that the argv at hand is the `Ruling`. |
| `HookInstall_proofs` | `HookTyping`, `HookAuthorises`, under `Exclusive`: `HookTheirsKept`, and under `Exclusive` and `MaxFaults <= 1`: `HookSafe`, `HookStands`, `HookFailsClosed`, `HookCallsSafe` | `Located(a)` says for each place of an installer what its project's files look like there: an installer past its check has found no hook, one past the stripping has removed it, one that undoes has used up its fault. `Turns` says that two installers at work are in two projects, which makes `Located(a)` immune to the steps of others. `Sound(p)` is `HookHasShim` and `StandsAsAnswered` for a project; that a secret once drawn is never absent or `CutKey` again needs no assumption on the others (`KeyDrawn`). `KInv`, for `HookTheirsKept`, says of an installer about to write settings that its copy is still what the file holds (`Held`), which `Turns` keeps true. The invariants were checked with TLC first. |
| `MaskCommand_proofs` | `ValuesAreFound`, `MaskTyping`, `CanarySound`, `MatchesHold`, `MaskRoundTrip` | `ValuesAreFound`: the window around a keyword of a match contains the match, because it reaches as far as the longest one or `Sought` says so (`WindowFits`); an expression that matches in the whole text matches in the window (`OccursInWindow`); and nothing FindAll takes before it there takes a symbol it needs (`NoneClashes`), so FindAll takes it. `DenyInv`: the tail is the end of what was written and `hit` is exact for the words that fit. `Sifted` and `MatchInv`: the candidates that were looked at are each picked or covered by one that is, since they come in the order of `Before`; the facts about concatenations come from a least counterexample. `RoundInv` carries the round trip: while nothing is destroyed, the output with values for its tokens is the escaped form of what was taken, holds no literal token, and ends in half of one only if the input does there (`Escaped`), or is so up to the segment in hand (`InHand`). The last part is what lets two segments meet at a cut. `RenderedShows` says that a rendered segment shows the segment, `EscapeUndone` that decoding undoes escaping, `ReplaceNothing` that a text without literal tokens is not looked up. |
| `StreamEngine_proofs` | `StreamTyping`, `StreamNothingLost`, `StreamFormFromInput`, `StreamWithinLimits`, `StreamRunesWhole`, `StreamNeverStuck`, `StreamAdvances` | `Held`: what Process keeps back, what Next has gathered and the chunker's unfinished rune are three blocks of the input that follow each other and end at the last byte read; the lemmas on blocks (`BlocksJoin`, `BlockSplits`) say that a step moves the borders and nothing else. `LineCount` ties the length of the line at hand to the last newline, `NextSegment` says where the next segment begins, and `CutAtRune` that a cut fails only inside the rune its buffer begins with. `Work` weighs what is left to do, so that each step takes more away than it adds; `SliceThere` finds the slice that ReadSlice returns from the least position where it may stop. |
| `StateFiles_proofs` | `StateTyping`, `StateOneSecret`, `StateTakesTrusted` | `SecretInv`: who is past the lock holds it, and while its owner fills the file nobody has a key; without that, filling would change the file under a reader. `TrustInv`: whatever says "trusted" in the file, or in a copy that a process is about to write back, was asked for, and who judges has hashed what is there unless it is `stale`. |
| `McpServer_proofs` | `McpTyping`, `McpRecordsTrue`, `McpLossBounded`, `McpAnswersTrue` | `McpInv`: the file is open exactly while the server serves and who holds the mutex is about to append (`FileInv`); a record names a call that has been recorded, and no two name the same (`RecordInv`); torn lines and calls without a record are together no more than the appends that went wrong (`CountInv`), as long as the log has not been closed. |

`HookHasShim` is not inductive: nothing in it forbids an uninstaller that is about
to remove the shim while a hook is in place. That this never happens rests on the
order of the code (hooks, then shim) and on the settings not changing between,
which is what `Located` records. The two assumptions are needed: the runs with
`Exclusive = FALSE` or `MaxFaults = 2` violate it, as described above.

Induction over sequences (lengths, places of a loop, prefixes) is done on sets of
numbers: a set that holds 0 and the successor of each member below n holds 0..n
(`Induct`), or a set without a least member is empty (`Least`); both follow from
the well-foundedness of < on the naturals. What a function defined by recursion
returns is used as a fact about its steps (`FlattenSteps`).

`MaskRoundTrip` assumes no more than `RoundTrip` says itself: no escaped text in
the input, no cut through a literal token, nothing destroyed, no row of a written
token pruned.

Only model-checked: the liveness properties `SegmentsEnd`, `Finishes`,
`WritersAdvance`, `ReturnsWhenAlone`, `StopKills`, `SecretArrives` and `Answered`,
which need fairness. Every invariant and every action property of a passing run
is stated by a theorem. Of `Finishes` the part that is not temporal is proved as
well: a stream that its producer has closed has a step of the engine to take
(`StreamNeverStuck`), and an input of n bytes takes 8n + 4 of them at most
(`StreamAdvances`); what is left to TLC is that the fairness of the goroutine makes
the engine take them. The violated properties are shown by their counterexamples.

## 5. What is left out, and why

- `store`: List, Stats and schema creation change no row. HMAC is taken
  to be free of collisions; its truncation is not.
- `StreamEngine`: what detectors find; `ValuesWhole` speaks of one kind of value.
- `ExecRun`: reuse of process numbers (run.go:162); the Windows variant, which has no
  process group.
- `ExecCall`: MaxTextBytes and the empty argv of handleExec (in `McpServer` a request
  has or has not a problem), output caps, exit codes and durations, several sentinels in
  one word.
- `Detection`: the regular expressions, tables (TLDs, nouns) and checks of the built-in
  rules, which are traits here; `/`, `named` and the quote between a noun and its name, which
  are among the blanks; rules of the configuration, which are of the same kind;
  Scan. `MaskCommand`: binary bytes, and words of the deny list that are expressions.
- `McpServer`: counts, sizes, caps on output, durations, the handshake; records of other
  servers in the same file; how the SDK cancels.
- The corpus (`corpus/`, `cli/corpus.go`) is a test harness for detectors.
- `HookInstall`: .gitignore, MkdirAll, git rev-parse, the user's edits while an installer
  runs, read errors, the path of the binary in the shim, the best-effort line of
  pass_through.log, and Match: whether a command is on the skip list is a choice.
- `StateFiles`: the user-wide configuration, --config, modes and owners of files, a
  project without a configuration of its own inside one that has, files that are
  removed, Windows (whose lock does nothing). A stat and the read after it are one step.
- Regular expressions, YAML, JSON, flags, wording.

## 6. Plan

Done: the store and the pipeline first, since every token depends on them; then
the stream, the child, the call, the hook, the state files, the text with its
detectors, and the MCP server. What comes next, in this order:

1. `SkipList`: Match over classes of words, checked against a reference definition of
   "every part of the command is on the list" over all short commands; it then
   replaces the choice of `Form` in `HookInstall`. The reference has to end a command
   at a newline, which splitShellWords (tokenize.go:92) takes for a blank.
2. An abstract specification of the stream (a text goes in, its segments come out in
   order, each masked as a whole) that `StreamEngine` is shown to implement.
3. The snapshot of the configuration a long-lived server keeps, against a trust that is
   withdrawn.
