# A verification project for zfs-unlock

zfs-unlock keeps the passphrases of encrypted OpenZFS datasets off the machine
that holds them. A client asks a restricted receiver, over ssh, for the status of
each dataset, and sends the passphrase of those that are locked. This directory
holds TLA+ models of that program, TLC runs that check them, and proofs.

Paths below are relative to `src/`; `receiver.py` stands for
`src/zfs_unlock/receiver.py`, and so on.

## 1. The system

### Components

| Component | State it keeps | Operations | Correct when |
|---|---|---|---|
| Receiver (`receiver.py`) | one process per request: its validated request, its cached allowlist, the list its mount or unmount loop works through | `status`, `unlock`, `lock`, `lock --force` | it changes only what its request and allowlist entitle it to; answers are true; mounts hide nothing; a failed unlock can be repaired |
| Receiver command line (`cli.py` 175-253) | none | splits the ssh command, reads the passphrase, prints the answer | refuses what it should before reading stdin |
| OpenZFS host (external) | loaded keys, mounts | the `zfs` commands of the receiver | - |
| Client passes (`client.py`) | the statuses it gathered, the flag `failed` | `run_unlock`, `run_lock`, `run_status` | the result is true; each dataset gets its attempt; a pass ends |
| Daemon (`cli.py` 101-147) | `current_interval`, `reachable`, `panic_started` | pass, sleep | prompt after a reboot, gentle in an outage |
| Process runners (`process.py`) | a child and its pipes | run, time out, kill, drain | every command ends in bounded time |
| Configuration and secrets (`config.py`) | none | load and validate YAML, resolve a secret | the passphrase arrives as written |
| Key generation (`keygen.py`) | two key files and two temporaries | generate, rename into place | a failure never destroys the old pair |
| Service management (`service.py`) | the unit file; the manager's loaded, enabled and running state | install, uninstall, status, logs | what was reported is what the next boot does |
| Doctor (`diagnostics.py`) | the flag `ok` | read-only checks, one after the other, the status checks at once | its exit code says neither too much nor too little |
| NixOS modules (`nix/`, `flake.nix`) | generated configuration | pins the forced command and the allowlist | - |

### How they interact

The client runs one `ssh` per request through `SubprocessRunner`; sshd starts one
receiver process per connection with a forced command. The receivers of several
clients, or of one client's concurrent status checks, run at the same time. They
share the host (loaded keys, mounts) and the allowlist file. No lock, queue or
transaction orders them. A client that times out kills its local ssh, which does
not stop the receiver. The daemon calls `run_unlock` in a loop.

### What is hard

* A receiver is a straight line of `zfs` commands, each of which may fail, with
  the commands of other receivers between any two. `status` puts an answer
  together from two reads; `unlock` mounts from a list it made earlier.
* A receiver may be killed, and the host may reboot, between any two commands. A
  key loaded without its mounts is a state that has to be repaired later.
* The client gathers all statuses first and acts on them afterwards, while
  earlier commands, other clients, reboots and commands it gave up on change the
  host.
* A client that has given up on a request leaves a receiver behind that goes on,
  beside those of the next pass.
* A command's child may not die when killed, and what it has started may keep its
  pipes open; the task that waits may be cancelled at any of its awaits, also while
  the child is being started.
* `keygen` and `service` change files and a service manager in several steps, any
  of which may fail or be the last before a crash.
* The daemon's fast polling is bounded by the wall clock and begins anew in each
  outage, while a probe itself takes time.

`PROJECT.json` lists each of these at its line under `hazards`.

## 2. The modules

| Module | What it is |
|---|---|
| `ZfsHost` | external: keys and mounts, one operator per `zfs` command, with results and faults |
| `Receiver` | extends `ZfsHost`: any number of receiver sessions, one action per `zfs` command |
| `ReceiverHistory` | `Receiver` with a history of what was true during each session |
| `MCReceiver`, `MCReceiverHistory` | small hosts and request sets for TLC |
| `Client`, `MCClient` | one client process, pass after pass, over an abstract receiver |
| `System`, `MCSystem` | a client over sessions of `Receiver`; instantiates `Client` as its specification |
| `Daemon` | the polling loop in discrete time |
| `Runner` | one command under `SubprocessRunner`, in discrete time |
| `Secrets` | a passphrase from the configuration to the stdin of `zfs load-key` |
| `Keygen` | runs of `keygen`, their files and `ssh-keygen` |
| `Service` | `service install`, `uninstall` and `status` against systemd and launchd |
| `Doctor` | the checks of `doctor` and its exit code |
| `MCCommands` | `Service`, `Keygen`, `Secrets` and `Doctor`, one of them per behaviour, so that one TLC run checks all four |
| `ReceiverProofs` (with the lemmas about `ZfsHost`), `ReceiverHistoryProofs`, `ClientProofs`, `DaemonProofs`, `RunnerProofs`, `ServiceProofs`, `CommandsProofs` | theorems about the module of that name; `CommandsProofs` about `Keygen`, `Secrets` and `Doctor` |
| `SystemProofs` | the refinement, step by step, and what follows for the whole |

Definitions named `...Verbatim`, `...Anywhere`, `...Regardless` and the like,
each introduced as a variant, are plausible mistakes in the operator that follows
them. No specification uses them; each makes one property fail, which shows that
the property watches the code.

### ZfsHost and Receiver

A dataset name is the sequence of its segments, so "below" is "has as a prefix".
The host has for each dataset its encryption root, `canmount` and a mountpoint
that is a path or one of the words `none` and `legacy`; these do not change. The
state is `keyLoaded`, `mounted` and `shadows`: a pair `<<p, c>>` is in `shadows`
when `p` was mounted over its mounted descendant `c` and hides it. A command that
cannot work fails; one that can may still fail, which uses up one of `MaxFaults`
faults. So do kills, reboots and a listing with a row that does not belong to it.
`unload-key -r` keeps keys in use and fails if it kept any; on a dataset with no
loaded key below it, encrypted or not, it succeeds.

A session's `pc` says which command comes next:

    idle -Accept-> stdin -ReadStdin-> keystatus -ReadKeystatus-> loadkey -LoadKey->
      list -ListUnmounted-> mount -MountNext*, MountsDone-> done -Exit-> idle
    status: keystatus -> list -> done      lock: [listmounted ->] unload -> done

`Accept` is `parse`: shape of the arguments, safe name, allowlist, in that order,
before any stdin is read, as in `cli.py` 233-247. The copy of the allowlist it
makes is the `cached_property`, so the second validation in `_status`, `_unlock`
and `_lock` repeats the first and is not a step. A rewrite of the file while
a session waits on its stdin does not reach that session. `ReadStdin` has the
outcomes of `_read_passphrase`: right, wrong or empty text, or refused.
`ListUnmounted` is `_unmounted_mountable` for both its callers; as the mountpoints
of the host are constants, reading them one by one after the listing is one step
with it. `Shallowest` and `Deepest` are the two orders of the loops; datasets of
equal depth are taken in any order, more than the stable sort of a listing allows.
"already unlocked" and "unlocked" are one answer, since the client tells
them apart by nothing.

### Client

The receiver is reduced to what it promises: a dataset is `locked`, `unmounted`,
`open` or `plain` (not encrypted), a command moves it from one of these to another
in the steps `Moves` names, and what an answer says was so at some instant of the
pass. `Begin` starts the gather, and the status of each dataset then comes in on
its own, in any order, with the host changing in between: an answer
(`StatusAnswered`), a return code of the receiver's own (`StatusRefused`), one that
means no connection (`StatusUnreached`), or an exception (`StatusRaised`, which
`_lock_statuses` makes an unknown status without a connection error). From `Gathered`
on, the pass uses these statuses and nothing newer. The variable `checks` is history:
it keeps how each check ended, whatever was recorded of it. `Command` reads the secret, which may be
readable, unreadable (`OSError`, `UnicodeDecodeError`: handled) or unresolvable
(`RuntimeError` from `expanduser`: not handled). While a command is awaited the
receiver works on it (`Execute`), any number of steps, and then refuses or
succeeds (`CommandReturns`). `CommandLost` is a timeout or a broken connection;
the receiver may be at work still, and the command goes into `late`, from where
it may take effect, in part or in whole, at any time (`CommandLate`). `attempted`
is history; `was` collects the states of each dataset during the pass.

### System

`System` puts a client in front of the sessions of `Receiver`. The variables of
the client's process are those of `Client` under the same names, and the steps in
which nobody else takes part (`Begin`, `Gathered`, `Skip`, `Command`, `Finish`,
`Leave`) are those of `Client`. A request is a session: `Connect` is sshd starting
a receiver with the request's words, `Work` the steps of `Receiver`, `Deliver`
its exit together with what the client makes of its answer, and `GiveUp` a
timeout, a broken connection or a status check that raises, after which the session
runs on with nobody to answer to. `call` holds the session of each request. A kill or a reboot breaks
the connection.

`Client!Spec`, instantiated with

    state  <- the true status of each configured dataset on the host
    late   <- the unlocks sessions without a client are at work on
    faults <- the number of reboots

is what `ImplementsClient` states. Every other variable is mapped to itself. It
is the abstraction `client_pass` rests on that is checked here: that a status word
put together from two reads, with other sessions between them, was true at some
instant of the pass; that a successful unlock was; and that sessions nobody waits
for move a dataset only forward.

The commands are `unlock` and `status` (`SystemVerbsAssumption`). With a lock at
the same time the answer to a status request may be true at no instant, as
`receiver_status_race` shows, so `Client` is not implemented then: what
`client_pass` says about `lock --force` beside another pass's late commands is
true of the key and not of the mounts (`KeyRepliesTruthful`). No configured
dataset lies below another (`NamesAssumption`): of nested ones, unlocking one
changes the status of the other, which `Client` calls another client. Nothing is
assumed of the host: below a configured dataset there may be encryption roots of
their own and unencrypted datasets, which `receiver.py:223` is written for, and the
configured dataset may take its key from a parent or be unencrypted itself.

### Daemon

Time is discrete. A pass is an interval; it can come out unreachable if the
receiver was down at some instant of it and reached if the receiver was up at
some instant, so a receiver that changes during a pass leaves both outcomes open.
`PassUnreachable` and `PassReached` are the two branches of the loop with the
sleep they choose. The three outcomes differ otherwise only in what is printed.
`fastSleeps` and `missedAt` are history.

### Runner

The clock ticks, and `SubprocessRunner.run` is at one of its awaits:
`create_subprocess_exec` (`spawn`), the first `communicate()`, the drain after the
kill, or the `wait()` after that. The child runs before `create_subprocess_exec`
has returned, and a task cancelled there has no process to kill: asyncio does it, and
waits for the child to end (`close`) before it raises. The child
exits, is stuck in an uninterruptible sleep, or starts a grandchild that keeps the
pipes; asyncio notices an exit some time after it (`noticed`: `returncode` is no
longer None). `Cancel` is a `CancelledError` at any await, the start and the drain
included. Time
does not pass the deadline of a `wait_for` (`Due`), and a child that can die of
SIGKILL does so before the next tick. `Bounded` is about the awaits of `run`, not
about the child: one that is stuck outlives it. It counts from the return of
`create_subprocess_exec`: no timeout of this code is on that await, nor on
asyncio's wait for the child of a cancelled start, which a child that does not die
of SIGKILL prolongs.

### Secrets

A text is a sequence of `x`, CR and LF. A passphrase, with the ending an editor
gave it if it is in a file, is resolved (`Stripped` is the loop over the three
suffixes), sent with a newline, read up to two bytes beyond the cap and compared
with it. UTF-8 that cannot be decoded is a kind of file, not a text.

### Keygen

Runs follow one another. Files hold the number of the pair they belong to; numbers grow, so `file["public"]
<= file["identity"]` says that the public key is never the newer. `ssh-keygen`
opens and finishes one file and then the other, and refuses to overwrite a private
key. The two leftovers are unlinked in one step, since nothing but another run
at the same time could tell. A crash ends `ssh-keygen` along with `keygen`. Two
runs at once are left out (section 6).

### Service

The unit file, the manager's loaded definition, the enablement and the running
daemon are four variables, since no step changes more than two of them. A file
being written is `Partial`. `Required` is `_run_or_exit` and `Tried` is
`run_process(check=False)`: with a fault, the first ends the command and the
second goes on. `enable --now` may fail after it has enabled. The daemon may end at
any time and be restarted by the manager; the executable on PATH may change
between any two steps. The managers are external and modelled from the commands
`service.py` gives them: `enable --now` and `load` start what does not run and
restart nothing.

### Doctor

The world (mode, files, ssh on PATH, network, filters and what they match) is chosen
at the beginning and the
checks then follow in the order of `doctor`. The flag `ok` is that of the check
under way; in `_check_secret_file_permissions` it goes through all datasets before
it counts. The status checks return, or raise, in any order.

## 3. The runs

Every run is a whole state space.

| Run | Shows | Bounds |
|---|---|---|
| `receiver_all` | `TypeOK`, `Authorised` | 2 sessions, six datasets: two encryption roots one below the other, an unencrypted dataset with an unsafe child; every action and every reason for a refusal; two allowlists; 1 fault |
| `receiver_calm` | `NothingHidden` | 3 sessions that unlock and lock two separate roots, one with a child; 2 faults |
| `receiver_replies` | `RepliesTruthful`, `KeyRepliesTruthful` | 2 sessions with every action on a root that has a child and a nested root, and with requests for an unencrypted dataset; right and wrong passphrases; 2 faults |
| `client_pass` | `SuccessTruthful`, `EveryLockedAttempted`, `UnreachableMeansSilent`, `TypeOK` | 2 datasets in any states, whose status checks are answered, refused, raise or do not connect; `unlock`, `status` and `lock --force` (whose effects include those of `lock`), one change of the host from outside, any number of late commands, any number of passes |
| `system_implements` | `ImplementsClient` | 2 configured datasets, one with a child under its key, a child that is a root of its own and an unencrypted child; 2 sessions for the client and for what it gave up on; `unlock` and `status`, right and wrong passphrases, unreadable secrets, allowlists that leave one dataset out; 2 faults |
| `system_opens` | `AllOpen` | the same host, `unlock` with right passphrases; 2 faults |
| `daemon` | `Prompt`, `HammeringBounded`, `TypeOK` | interval 5, fast interval 1, window 6, probes to 2, passes to 3, clock to 24 |
| `runner` | `Bounded`, `NoneLeftAlone`, `ResultTruthful`, `TypeOK` | timeout 3, drains of 2, clock to 12 |
| `commands` | `PartTypeOK` and, of `Service`: `ReportedAtBoot`, `CleanUninstall`; of `Keygen`: `PairChanges`, `PrivateWins`, `CreatedIsPair`; of `Secrets`: `RoundTrip`, `CapExact`; of `Doctor`: `CleanBill`, `NoFalseAlarm` | both platforms, 2 executables, any number of `service` commands; 3 pairs of keys; 3 failures or crashes; passphrases to 5 bytes and a cap of 2; 2 datasets and every world for `doctor` |
| `receiver_status_race`, `client_tilde`, `service_reinstall` | violations, section 5 | the smallest instance that shows each |

Why these bounds. The races of the receiver need two sessions, and three for one
that disturbs two others (`receiver_calm`); three datasets on a path give a
parent, a child and a nested root, and a sibling gives the subtree something to
stay out of. One fault makes any one command fail anywhere; two let a failure
follow a reboot. Two datasets make "the others" of a pass, and its first and last.
In `System`, two sessions are the two status checks of a gather, or a command and
one that was given up on. The numbers of `Daemon` keep the order of the real ones
(1 s, probes of about 5 s, 30 s, 300 s: window longer than an interval, interval
longer than the fast one), and the clock holds two outages with a back-off in
each. The clock of `Runner` goes well past the latest moment a command begun at
once may end. A passphrase of 5 bytes is longer than a cap of 2 with the newline
and the two extra bytes of the read, and long enough for any two line terminators
and more. Three pairs are an old one, one that fails and one that follows; two
executables are the old and the new one.

The properties in words:

* `Authorised`: each key loaded or unloaded and each dataset mounted or unmounted
  lies in the subtree of a dataset that some running session was asked for and
  its allowlist names; loads and mounts are an unlock's, unloads a lock's,
  unmounts a forced lock's. Foreign rows in a listing change nothing.
* `NothingHidden`: no dataset is mounted over a mounted descendant. It holds
  under `Prudent` (allowlisted datasets not below one another, no forced lock, no
  unencrypted dataset below an encrypted one). It is about all sessions together:
  each receiver orders only its own mounts. Without `Prudent` a parent can be
  mounted after a child another receiver or the boot has mounted.
* `RepliesTruthful`: an answer was true at an instant of its session, unless a
  lock was under way during it. `KeyRepliesTruthful`: what it says about the key
  was, whatever else went on.
* `SuccessTruthful`: a pass that reports success was right about each dataset at
  some instant of the pass. It cannot promise more: a late lock or a reboot may
  undo any of it before the pass ends.
* `EveryLockedAttempted`, `UnreachableMeansSilent`: the two promises in the
  docstring of `run_unlock`, of passes that come to a result;
  `AttemptedWhenOthersFail` is the first of all passes (section 5). "Unreachable"
  means that each check, by the history `checks`, ended at the connection: none was
  answered or refused, and none raised, as in a pass that is cancelled.
* `Prompt`, `HammeringBounded`: the two sides of panic mode.
* `ImplementsClient`: the receivers are what the client's model takes them to be.
* `AllOpen`: once faults stop, every dataset is opened for good, through late
  sessions, broken connections and half-finished mounts: what the program is for. A
  receiver killed after `load-key` and two clients whose `load-key` commands
  collide are cases of it, and so is a pass that would not end.
* `Bounded`, `NoneLeftAlone`, `ResultTruthful`: a command is not awaited longer
  than its timeout and two drains; no child is left running that was not killed, at
  whichever await its task was cancelled;
  a return code is the child's own with all its output, and neither a timeout nor
  a cancellation turns into one.
* `RoundTrip`, `CapExact`: what the user typed is what `zfs load-key` reads, one
  newline added. The exception is a file whose terminator is in doubt (`Clear`): a
  passphrase that ends in a newline, saved without a terminator of its own.
* `PairChanges`, `PrivateWins`, `CreatedIsPair`: an installed file changes only by
  the rename of the run's own new key, written to its end, and without
  `--overwrite` only if there was none;
  after any crash the private key is at least as new as the public one; "created"
  is said of a complete pair.
* `ReportedAtBoot`: what `install` or `uninstall` has last reported is what the
  next boot does, whatever failed or was cut off before. `CleanUninstall`: without
  failures nothing is left running or loaded.
* `CleanBill`, `NoFalseAlarm`: the two directions of the exit code of `doctor`: 0
  means that the files, ssh, the host, the filters and every selected status are as
  they should be, 1 that one of them is not.

### Fairness

`AllOpen` assumes that a started receiver runs on (its `zfs` commands return; its
stdin ends because the client sends the passphrase or is killed by its timeout,
`process.py` 75-82), that the client's event loop runs and the daemon asks again
(`cli.py` 117-144), that sshd lets a request in when it can, that a broken
connection is noticed (by ssh, or by the command's timeout), and that faults are
finitely many; a timeout of a session that could have answered is one of them. No
fairness is assumed between two sessions. That a command ends though the receiver
never answers is `Bounded` of `Runner`, a safety property in discrete time. The
safety runs assume no fairness. `daemon` stops at the clock's bound and at a
keyboard interrupt, so that run does not check for deadlock; nor do `runner` (one
command, which ends) and `commands` (`Secrets` and `Doctor` are one sequence of
steps, and `Keygen` has a bound on its pairs).

## 4. The proofs

Every invariant and action property that a run checks, and the refinement, is also
a theorem, for every value of the constants the assumptions allow. Each inductive
invariant was first checked by TLC on the instance of the run.

### Receiver

`ReceiverProofs` begins with lemmas on subtrees (prefixes of one name are
comparable) and on the types of the `zfs` commands. It proves, for every host,
set of sessions, request set, allowlist and fault bound:

* `TypeCorrect`: `Spec => []TypeOK`. The invariant `TypeInv` adds that a session
  past its validation has a request whose dataset is in its cached allowlist, and
  that a label fits the action of its session.
* `ChangesAuthorised`: `Spec => Authorised`, one step per action. What carries it
  is that the datasets a loop has left lie inside the subtree asked for, which
  `RowsAccepted` establishes for any listing.
* `MountsHideNothing`: `Prudent` implies `Spec => []NothingHidden`. The
  invariant `CalmInv` adds: no session forces; only allowlisted roots have keys
  loaded; a mounted encrypted dataset has its key; unencrypted datasets that the
  boot mounts stay mounted; the mountable ancestors, inside the encryption root,
  of a mounted dataset are mounted; and a session about to mount a dataset has in
  its list, or finds mounted, each ancestor that has to come first. A failed or
  interrupted loop leaves a set of mounts closed under parents, so the next
  session's listing is complete again. `NothingHidden` alone is not inductive: it
  says nothing of the datasets still to be mounted.

`ReceiverHistoryProofs` is about the truth of the answers, for any number of
sessions between the reads an answer is put together from:

* `KeyRepliesTell`: `HSpec => []KeyRepliesTruthful`, assuming that the locks asked
  for are of encryption roots (`LocksRoots`). `KeyInv`: a session that has come to
  its listing has seen its key loaded. Without `LocksRoots` it is false: `zfs
  unload-key -r` of another dataset finds no key and succeeds (section 5).
* `RepliesTell`: `HSpec => []RepliesTruthful`, if the allowlisted datasets are in
  addition not below one another. `ReplyInv`: unless a lock has been under way, the
  key stays loaded from the listing on, and whatever is left unmounted is in the
  list of the session that mounts. Below a nested allowlisted root another unlock
  can make datasets mountable after the listing, and then there may have been no
  instant at which all was mounted. The instance of `receiver_replies` meets both hypotheses.

### The client and the whole

`ClientProofs` proves, for any number of datasets, any secrets and any number of
commands given up on, `TypeCorrect`, `NoneForgotten` (`EveryLockedAttempted`),
`SilentIfUnreachable` (`UnreachableMeansSilent`) and `SuccessTells`
(`SuccessTruthful`). `ClientInv` says where the loop stands: what lies before
`next` and is wanted has been attempted; a status is one of the five `is_locked`
may come to, and of these only one has a connection error; a connection error is
recorded only of a check that ended at the connection; and no late command is a
`status`. `TruthInv` adds that a known status was so during the pass, and that as
long as `failed` is not set no status is unknown and each dataset the loop has
passed was, at some instant, what the verb promises.

`SystemProofs` proves `Implements`: `SystemSpec => ImplementsClient`, for every
host, number of sessions and bound on faults, and for every list of names of which
none lies below another, with a client that unlocks and asks. The invariant `SysInv`
has four parts.

* `Serving`, of each session, called or not: it is for one of the configured
  datasets; from the listing on the key is loaded (no session unloads one, and a
  reboot ends the sessions); while it mounts, whatever in its subtree could be
  mounted and is not is in its list.
  So the answer it ends with is the status at the instant of its last read
  (`HandleServes`): this is where a word put together from two reads becomes true
  at one instant.
* `OneCaller`: no session answers two requests.
* `Calling`: a request is out only for a dataset the pass waits for, its session is
  for that dataset and for the action of the phase, and what it has answered is in
  `was`.
* `PassInv`: the client waits only for unlocks, `was` holds the present state of
  each dataset while a pass runs, and there are no more reboots than faults.

There is a lemma for each action: it keeps `SysInv` and is a step of `Client` or
changes nothing `Client` sees. `Forward` carries most of it: a step of a session
leaves the host alone, loads one key or mounts one dataset, which moves its own
dataset forward and no other one (`NamesAssumption`), and never takes a key or a
mount from another session. Such a step is `Execute` when the client waits for the
session (`CalledServes`: the phase and the dataset are then right) and
`CommandLate` when nobody does; a kill is a stutter or the end of a late command; a
reboot is one of `HostChanges`. `GivesUp` shows that what `GiveUp` takes from
`Client` about late commands holds of itself and restricts no step of the model. The
status of a configured dataset depends only on the keys and mounts of the datasets
in its subtree (`SameMissing`), whatever encryption roots these have.

`WholeTells` puts the two together: under the same two conditions, `Client`'s three
promises hold of a client over real receivers.

### The rest

`DaemonProofs` proves for every interval, window and probe bound `TypeCorrect`,
`GentleInOutages` (`HammeringBounded`) and `PromptAfterOutages` (`Prompt`), from an
invariant that relates the number of fast sleeps to the time since the window
began.

`RunnerProofs` proves for all timeouts `TypeCorrect`, `AwaitedBoundedly` (`Bounded`),
`NeverLeftAlone` (`NoneLeftAlone`) and `ReportsTruth` (`ResultTruthful`). `TimeInv`
bounds the beginning of each wait by the waits before it. `KillInv` adds that a
drain is entered only with a child that was killed or is known to be dead, and a
cancelled start waits only for a child asyncio has killed or found dead, and
`TruthInv` that a drain nobody's cancellation led to began at the timeout.

`ServiceProofs` proves for any executables and any number of faults
`BootAsReported` (`ReportedAtBoot`), from what the unit file holds at each step,
and `UninstallLeavesNothing` (`CleanUninstall`), which needs to know for each step
of an uninstall what has been stopped and unloaded by then.

`CommandsProofs` is about `PartSpec`, for any number of pairs, faults, bytes and
datasets and any cap. `PartInv` is a case for each command:

* `KeygenInv` says at each step of a run what it has generated (`key`, the newest
  pair), which of its files are complete, what it has renamed, and that it goes on
  past the check only with `--overwrite` or without an old pair. From it follow
  `OldPairSafe` (`PairChanges`), `PrivateKeyWins` (`PrivateWins`) and
  `CreatedWhole` (`CreatedIsPair`).
* `SecretsInv` says what is on its way at each stage: from the resolution on it is
  the typed text if that text is `Clear`, and one newline after it once sent. From
  it follow `ArrivesAsTyped` (`RoundTrip`) and `RefusedIfLong` (`CapExact`).
* `DoctorInv` says what the checks that are done have shown. In the loop over the
  secrets, `ok` stands for the datasets before `next` and `~ok` for a bad one
  among all. From it follow `CleanBillTells` (`CleanBill`) and `AlarmsTell`
  (`NoFalseAlarm`).

`PartsTyped` (`PartTypeOK`) is for all of them and `Service`.

### What the proofs rest on, and what is only model-checked

The constants' assumptions are those named `...Assumption` in the modules, and TLC
evaluates them in each run. Those that say more than a type: `EncRootAssumption`
(a dataset takes its key from itself or an ancestor, as in OpenZFS),
`NamesAssumption` (no configured dataset below another; section 2, System),
`SystemVerbsAssumption` (no lock), and
`SessionAssumption` (the two marks for "no session" are not sessions).

Only model-checked: `AllOpen`, since liveness is out of the prover's reach, and the
three violations of section 5.

## 5. Where the code and its words part

* `receiver_status_race`. A status request reads the keystatus, finds the key
  loaded, and then lists the subtree. If another receiver locks the dataset in
  between, the listing skips every dataset because its key is unavailable, and the
  answer is "unlocked", although the dataset was unmounted and then locked and at
  no instant unlocked and mounted. The docstring at `receiver.py:161` promises a
  status "for a dataset with its key loaded". A client then takes it for open
  until the next pass.
* `client_tilde`. `client.py:123` handles `OSError` and `UnicodeDecodeError`, but
  `Path(value).expanduser()` (`config.py:73`) raises `RuntimeError` for `~name`
  if there is no such user, as it would for a literal passphrase that starts with
  a tilde in the default mode. The pass ends there and the datasets after it are
  not attempted, in every pass, against `client.py:196`.
* `service_reinstall`. After an update on PATH, `service install` rewrites the unit,
  reloads it and enables it, and the old daemon goes on running, since `enable
  --now` restarts nothing; "Service installed and started" is printed. The README
  says that the daemon "always runs the same version you installed"
  (`README.md:286`). It does after the next boot (`ReportedAtBoot`).

Four more that no run shows, the first from a proof that asked for a hypothesis, the
others from reading the code:

* `lock` of an allowlisted dataset that takes its key from a parent answers "locked"
  while the key stays loaded: `zfs unload-key -r` (`receiver.py:298`) looks for
  encryption roots, finds none there and succeeds. `LocksRoots` leaves such
  requests out.

* Two runs of `keygen` at once share the temporary names (`keygen.py:42-45`): the
  second unlinks what the first has generated and begins to write, and the first
  may rename the unfinished private key into place.
* The exit status of `systemctl stop` is not looked at (`service.py:201`), so after
  a stop that fails the service is reported uninstalled while its daemon runs;
  `CleanUninstall` is about uninstalls in whose history nothing failed.
* `diagnostics.py:50` expands a tilde before line 51 looks at the mode, so `doctor`
  ends in a traceback on an inline passphrase like `~name`, with which `unlock` has
  no trouble. `Doctor` has it as an exit of its own, which `CleanBill` and
  `NoFalseAlarm` leave alone.

## 6. Not modelled, and the plan

Not modelled, because no state depends on it: the ssh protocol and the argument
list of ssh; the splitting of the ssh command into words and the refusal of
duplicate receiver options (pure input parsing, whose outcomes are the malformed
and well-formed requests of `Receiver`); the search for the configuration file and
the validation of its YAML; the glob selection, the dry run and an empty
selection, which return before any request; `service logs`, which becomes another
program; printing and version lookup; the generated NixOS configuration.

Outside the models: an allowlist that cannot be read (the receiver exits before
doing anything); hosts whose datasets or properties change; datasets selected one
below the other in `System`; an `uv tool run` fallback that resolves to another
version at each start (`service.py:95-102`), which `Service` takes for one more
executable.

Written in this order, the receiver first because all rests on it:

1. done: `ZfsHost`, `Receiver`, its history module, `Client`,
   `Daemon`, and the proofs of section 4.
2. done: `System` with its refinement and `AllOpen`; `Runner`, `Secrets`, `Keygen`,
   `Service`, `Doctor`.
3. done: proofs of all invariants and action properties, and of `ImplementsClient`.
4. left: `Authorised` and `NothingHidden` for the sessions of `System`, whose
   requests come from a client instead of from `Commands`; two runs of `keygen` at
   once.
