# coreq: a verification project

coreq keeps a binary database (the *cachefile*) of all packages of the main
package repository and its overlays. `coreq-update` builds the database,
`coreq` searches it, `coreq-diff` compares two of them, and `q regen` keeps the
Manifests of a repository up to date. This directory models the parts of the
program where order, failure, sharing and laziness matter, checks the
models with TLC on small instances, and proves theorems about them with TLAPS.

    tlc -workers 2 -config CacheFile.cfg MCCacheFile     # a run
    tlapm CacheFileProofs.tla                            # a proof module

All paths below are relative to `src/src/` unless they begin with `manpage/`.

## 1. Inventory

| Component | State it keeps | Operations | What is hard |
|---|---|---|---|
| Cachefile on disk (`database/io.cc`, users `coreq-update.cc`, `coreq.cc`) | file contents, `flock` locks | openread, openwrite, buffered writes, fclose | several processes on one path; truncation happens before the lock; databases of different lengths; short or cut-off writes |
| Cachefile format (`database/io.h`, `io_corepkg.cc`, `io_header.cc`) | a stream of bytes and a position | write/read of numbers, strings, hashes, parts, versions, packages, header | variable-length numbers, counted records, optional fields that are skipped, truncated input |
| PackageReader (`database/package_reader.cc`) | frames left, packages left in the category, what was read of the package, next offset | next, read(attribute), skip, release | partial reads in any order; unsigned countdowns; errors that a client looks for only at the end |
| EbuildExec (`cache/common/ebuild_exec.cc`) | saved dispositions, handler argument, tempfile, child, caught signal | make_cachefile, delete_cachefile, the handler | signals at any step, also in `waitpid`; many ways out |
| coreq-update (`coreq-update.cc`, `cache/base.cc`, `cache/cachetable.cc`) | cache table, header, package tree | initialise, read every cache, mask, write | several methods and overlays fill the same packages; partial failure |
| CoreqCache (`cache/coreqcache/`) | list of all CoreqCaches, slave flag, error message, destination category | readCategories | one cache reads for others; an error must reach all of them |
| ParseCache (`cache/parse/`) | further caches, one-time flag | readCategory, readPackage, parse_exec | a flag that only some ways of reading set |
| MetadataCache (`cache/metadata/`), SqliteCache (`cache/sqlite/`) | names of a category | readCategory, readCategories | grouping of files to packages |
| Package (`corepkg/package.cc`) | sorted version list, duplicate state, summary flags | addVersionStart, addVersionFinalize | incremental summaries with short cuts |
| coreq-diff (`coreq-diff.cc`) | two readers, a look-ahead package, two lists | diff | merge with look-ahead, ownership, errors after output |
| Stability (`corepkg/set_stability.cc`, `corepkg/conf/`) | mask and keyword flags of each version, saved flags per version and index | set_stability, setMasks, setKeyflags, calc_version_flags | a cache with a manually calculated index, filled by many callers in every order |
| Masks (`corepkg/mask*.cc`), profiles | mask lists | add, remove, get, match | negative entries, inheritance |
| Search (`search/`, `various/cli.cc`) | expression tree, the test being read, tests with simplified patterns | parse_cli, MatchTree::parse_*, match | a tree built at a slot; attributes read only if a test needs them; what one test leaves behind for the next one |
| VarsReader (`coreqTk/varsreader.cc`) | a state, a position, the value so far, a stack of readers | one function for each state, source | quoting, escapes and comments in a state machine; files that include themselves |
| CoreqRc (`coreqrc/coreqrc.cc`, `defaults.cc`) | the variables, which of them are still delayed | read, join, resolve, look-up | delayed references, conditional blocks, loops, variables that are looked up later |
| `q` (`q.cc`, `various/`) | of `q regen`: what is expected of a package, whether it was interrupted | subcommands | `q regen`: three sources for one answer, child processes and SIGINT |
| VarDbPkg (`corepkg/vardbpkg.cc`) | lazily read properties of installed versions | readSlot, readUse, readOverlay, ... | failures are remembered, and what is remembered takes part in comparisons |
| Dropping permissions (`various/drop_permissions.cc`) | process ids | one sequence of calls | partial failure |
| Scripts (`coreq-sync.sh.in`, `coreq-remote.sh.in`) | tempfiles, copies of the cachefile | sync, update, diff | failing steps, comparison of mtimes |
| Output (`output/`), small tools | none | printing | wording only |

How they interact: `coreq-update` makes a `BasicCache` for each overlay,
lets each one fill the common `PackageTree`, applies the masks, and writes the
tree through `Database`. ParseCache calls EbuildExec, which forks. `CoreqCache`
and `coreq-diff` read cachefiles with a `PackageReader`, as `coreq` does; the
processes share nothing but the cachefile. There are no threads: concurrency is
between processes (the cachefile) and between a process, its child and the
signals (EbuildExec, `q regen`). Within `coreq` everything is sequential, but
lazy: variables are resolved when they are looked up, attributes of a package
and of its installed versions are read when a test asks for them, and what was
read stays for the next test.

What makes them correct:

* cachefile: a reader gets one database; the file survives concurrent updates; nobody waits for ever;
* format and reader: what was written is read, whatever is left out; a cut file is never taken for a whole one;
* EbuildExec: no tempfile, no handler and no signal is lost;
* coreq-update: every overlay that is wanted is read once and completely, or an error is printed; the description is the one that came with the latest version;
* version lists: sorted, and the summary is that of the list, in whatever order versions come;
* stability: the flags of a version are those that the configuration says for the setting asked for, whatever was asked for before;
* coreq-diff: the difference is reported, each package once, and a read error shows in the exit status;
* variables: a file means what a shell makes of it; a value is the expansion of its text, in whatever order variables are looked up; reading and resolving end;
* search: the packages found are those that the expression describes, whatever was read or kept while earlier tests were applied;
* `q regen`: what is expected is what a shell would make of the ebuilds, a Manifest is made anew just if it is wrong, and an interrupt ends q.

`PROJECT.json` lists every component with its status, and every hazard with its line.

## 2. Modules

| Module | Models | State and actions |
|---|---|---|
| `CacheRegister` | what the cachefile promises: a register of whole databases | `db`, `damaged`, `res`; `Replace`, `CutOff`, `ReadOk`, `ReadError`, `ReadMixed` |
| `CacheFile` | the cachefile with updates (writers) and readers as processes | `size` is the length of each database, `file` has up to N parts, each with the database it belongs to; `exl` and `shared` are the lock; `wpc`/`wpos`, `rpc`/`rpos` are program counters and offsets. Actions have the names of the functions: `openread`, `openwrite` (truncates), `lock_ex` (waits), `write_part`, `destroy`, and `destroy_short` and `cut_off` for a short and an aborted write |
| `Database` | the format: operators that turn a tree into bytes and bytes into fields | `write_num` and `read_num`, `WRITE_COUNTER`, `write_version`/`read_version`, `write_header`/`read_header`, named as in the code |
| `PackageReader` | the reader and its clients on a file of that format | `pos`, `frames`, `cat_size`, `have`, `next_pos`; `next`, `read`, `skip`, `release`, and the loops of `coreq`, CoreqCache and coreq-diff |
| `EbuildExec` | one process executing ebuilds | `disp` (signal dispositions), `saved`, `got`, `tmp`, `child`, `pc`; one action for each system call, signals from outside, which may interrupt `waitpid`, the child's exit. An overlay in `UsesSh` runs ebuild.sh with a tempfile (`make_tempfile`), the others run ebuild, which writes a file of a given name (`use_depend_temp`) |
| `ExtendedVersion` | the order of versions and the place in the list | operators only |
| `PackageVersions` | `Package::addVersionStart` / `addVersionFinalize` | the list, duplicate state, flags |
| `Update` (extends `ExtendedVersion`) | `update()`'s loops with CoreqCache, ParseCache, MetadataCache | the cache table with the key of each cache, those `excluded`; `slavemode`, `err_msg` and `dest_cat` of the CoreqCaches; `tree`; `pc` with the cache, the package and the version or file it is at. One action for each step of the loops: a cache is initialised, a cachefile opened, a package of it read, given to an overlay, a version added, the end or an error reached (`Info` is the description that comes with a version: that of its file, or of the whole package of a cachefile); a directory begun, a package of it read, a file of it read |
| `CoreqDiff` | `DiffReaders::diff` on two readers | look-ahead packages, lists, output, owner of each object |
| `SetStability` | mask flags, keyword flags and effective keywords of one package | `masks` and `keys` hold what the versions have now and what is saved under each index; `set_stability`, `match_stability`, `match_obsolete`, `print_package`, `recommend`, `calc_version_flags`, `VER_VERSIONKEYWORDSS` |
| `VarsReader` | `coreqTk/varsreader.cc` | `state`, `value`, `pos` of the innermost reader, the stack of readers that wait for a sourced file; one action for each state function, a step for a character |
| `CoreqRc` (extends `VarsReader`) | `coreqrc/coreqrc.cc` | `main_map`, `has_delayed`; `join_next`, `resolve_next`, `Lookup`; texts are sequences of pieces, so that references are found by position as in the code |
| `Defaults` | the table of options (`coreqrc/defaults.cc`) | a sequence of options with their references and conditions; a text in which nothing refers to anything is one piece |
| `Distfiles` | what is found for an ebuild, and how it is added | operators |
| `SrcUri` (extends `Distfiles`) | what q regen reads of an ebuild (`various/subcommand_regen.h`) | operators: the lines of the preamble, the expansion of variables and helpers, the distfiles; and `Meant`, what a shell makes of the same lines |
| `Regen` (extends `Distfiles`) | the loop of q regen over packages and ebuilds; what is found in an ebuild is given by operator constants, for which `MCRegen` takes the definitions of `SrcUri` | `expected_distfiles`, `is_complex`, `sigint_received`; the commands as children, and SIGINT at any step |
| `Algorithms` | `search/algorithms.*` | operators; an algorithm is a record that a match changes |
| `RedundantFlags` | the values of REDUNDANT_IF_* | operators |
| `VarDbPkg` (extends `Algorithms`) | `corepkg/vardbpkg.cc` | operators on what an installed version has kept |
| `PackageTest` (extends `VarDbPkg`, `RedundantFlags`) | `search/packagetest.cc` | `calculateNeeds`, and the stages of `match` in the order of the code; each stage gives the answer and the changed state |
| `MatchTree` (extends `PackageTest`) | `search/matchtree.cc` | `parse_*` on a tree with a stack of open braces; `tree_match` evaluates it with the short-circuit of the code |
| `Search` (extends `MatchTree`) | `parse_cli` and the loop of `coreq.cc` | `test`, `tests`, `tree`, `found`; one action for an argument, a word of standard input, or a package |
| `SearchMeaning` (extends `Search`) | what a search should find | an expression is cut at its last operator, a test is asked about the whole package: nothing is read in parts, kept or simplified |
| `CacheFileProofs`, `EbuildExecProofs`, `PackageReaderProofs`, `PackageVersionsProofs`, `UpdateProofs`, `CoreqDiffProofs`, `SetStabilityProofs`, `RegenProofs` | theorems about the module of that name | |

An action is the whole handler. Where the code gives way to somebody else
(another process, a signal) the model has a step of its own; elsewhere a
function is one step. Each module's `Foo_bar` operators that a comment calls a
mutation are plausible faults of the code; they show that the properties can
fail, and no specification uses them.

## 3. Runs

| Run | Instance | Shows |
|---|---|---|
| `cache_file` | 2 updates, 2 readers, three databases of one to three parts each, all combinations of lengths | a read never mixes two databases unless an update was cut off; when nobody writes the file begins with a whole database of an update that completed; all finish; the abstract register is implemented |
| `ebuild_exec` | 3 overlays, one of them without ebuild.sh, 3 ebuilds, 2 signals, every initial disposition | dispositions are restored, a caught signal ends the process, no tempfile is left, a child is awaited however often `waitpid` is interrupted, the process gets through |
| `package_reader` | small trees, every cut, every client and pair of header options | what is read was written; nothing incomplete is kept; no cut is taken for an end |
| `coreq_diff` | 3 names, all pairs of files, all cuts, all sets of changes | the difference is reported, in order, failures too; one owner for each object |
| `package_versions` | 3 overlays, 2 versions, 4 additions in every order | list sorted; duplicates and summary right |
| `update` | tables of up to 3 caches in all orders, with excluded overlays; a cachefile may turn out unreadable anywhere | nothing read twice, nothing lost unreported, the description is the one that came with the latest version |
| `set_stability` | 2 versions, 2304 configurations, every order of questions | versions are printed with the flags of the chosen setting; the guessed index and the summary are right where they are |
| `coreqrc` | two variables of up to two quoted pieces with noise, inclusions, loops of files and directories; three variables with all kinds of references and an environment; the 618 options of coreq, and the same with every boolean turned round | a file is read as a shell or corepkg means it, section names with their escapes too; a value is the expansion of its text; errors come only from loops and incomplete blocks; the options of coreq fit together; reading ends |
| `regen` | ebuilds of three parts (before, SRC_URI, after) each read alone; lists of up to two ebuilds in two packages with Manifests and distfiles while q is interrupted twice; q called with paths and atoms from several directories | what is expected is what a shell makes of it, for the ebuilds of section 6; for those a Manifest is made anew just if it is wrong; an interrupt ends q; q ends |
| `search` | all command lines of up to three tokens, all trees over three tests, pipes, every option with every configuration, fields × algorithms × patterns, pairs of tests of which the first leaves something behind, every value of a redundancy variable with every installation | the search finds what was written; no test is lost while the tree is built; -T means what the manual says |
| `keep_virtuals` | 2 updates | violation, see findings |
| `nonexistent` | -T with a redundancy test that asks for overlays | violation, see findings |

**Bounds.** `N`, the number of parts of a database: a reader needs two parts to
mix databases and a third one to be overtaken by a writer between them; with
lengths of 1 to 3 a longer database may be left behind by a shorter one with one
or two parts.
`MaxRuns`, `MaxSignals`: with three ebuilds over three overlays every nesting of
handlers occurs, and with two signals one may arrive while the other is
handled. `Base`: the numbers of the format are written in base
256, with any number of digits; base 4 reaches the lengths of one to three digits, and the case of a
leading digit equal to the magic number, with small numbers. `MaxSize` only
bounds the countdowns in the type invariant. `MaxVersions`: 4 versions are
enough for two equal pairs, which every short cut of `addVersionStart` needs;
`MaxLength`: 3 names give every pattern of lost, found and changed before and
after another one. `Garbage`: the values an uninitialised overlay key may have. `NumVersions` of
`SetStability`: 2, because `restore_*` asks whether all versions are saved while
SAVEKEY_ACCEPT is saved for single ones; its configurations give each part of
the user's files none, one or both of the versions. `Batch` of `CoreqRc`: how
many variables are joined or resolved in a step; no property looks at the states
in between.
`MaxLookups`: 2 variables looked up after the start, so that the second one may
refer to the first, or the other way round. `MaxArgs`: 3 arguments of any kind;
longer expressions come from the lists of trees (up to ten arguments with
braces and negations), because an operator, its operands and a brace around it
already need as many. `Kinds_tried` only names the lists of searches.
The packages of a search are those that the tests tell apart: eight for three
tests, three or four for the options, one for each set of redundant versions.

**Deadlock** is checked in all passing runs but `search`; the end of a program
is a stuttering disjunct of `Next`, so that a process that stops elsewhere is
found. A search has no such disjunct: it ends when all packages are done, or
with an error of the arguments.

**Fairness.** `CacheFile` has weak fairness for each process and for the lock:
`flock` waits until the lock is free, and a process holds it only while it reads or
writes, so that the lock is free again and again; the kernel wakes a waiting
process. `EbuildExec` has weak fairness of the program and of the child's exit,
none of the signals. `CoreqRc` has weak fairness of its own steps, since it
waits for nobody: that reading ends says that every state of the machine
consumes a character or leaves a file, and that the stack of files is bounded.
`Regen` has weak fairness of q with its children, that is, the external
commands end; whether they succeed, fail or die of a signal is open, and no
interrupt has to come. No fairness is assumed that a user or an administrator
would have to provide: a cut-off write and a signal may, but need not happen.

## 4. Findings

Two runs end in a violation of something a document says.

* `KeepVirtuals`: an update that starts while another one has truncated the
  cachefile drops all virtual overlays, although there was a previous database
  (`database/io.cc:44`, `manpage/en-coreq.1.in:3089`).
* `NonexistentAsDocumented`: two versions are compared with their overlays as
  soon as both are known (`search/packagetest.cc:780`). A redundancy test with
  the value some-installed asks for the overlay of the installed version, and
  the check for non-existent versions after it then demands the same overlay,
  although NONEXISTENT_IF_OTHER_OVERLAY is false
  (`manpage/en-coreq.1.in:3312-3314`).

Four more follow from the models, but have no run of their own; the properties
of the passing runs except them by name:

* The first version of a package resets the flag that it belongs to the main
  repository (`corepkg/package.cc:94,110`; `manpage/en-coreq.1.in:1480`).
  `SummaryKnown` therefore says only that a flag that is set is right.
* A new package is thrown away if all its ebuilds were executed with the method
  ebuild (`cache/parse/parse.cc:270-282,391-398`;
  `manpage/en-coreq.1.in:2993-2994`). `NothingLost` excepts it.
* An overlay excluded by its label is still in the list of CoreqCaches, and
  another overlay of the same cachefile reads it, with an overlay key that was
  never set (`coreq-update.cc:557`, `cache/coreqcache/coreqcache.cc:43-53`;
  `manpage/en-coreq.1.in:1027-1029`). `AddedOnce` excepts it.
* For the setting with the user's configuration `calc_version_flags` takes what
  is saved under SAVEMASK_USERPROFILE and SAVEKEY_ACCEPT, though that setting is
  saved under SAVEMASK_USER and SAVEKEY_USER (`corepkg/set_stability.cc:43-61`,
  `corepkg/conf/corepkgsettings.cc:1250,1334`); only the protobuf output asks.
  `AnswersNonlocal` is about the other setting.

Seen on the way; the models do what the code does, or leave the case out where
section 6 says so:

* `File::openwrite` truncates before it has the lock and nothing truncates after: if
  an update writes on after another one has truncated the file, and the other one
  then writes a shorter database, the tail of the longer one stays in the file
  (`database/io.cc:44-66`). `QuiescentWhole` is therefore about the beginning of the file;
  `OneDatabasePerRead` says that nobody reads the tail.
* The method coreq copies homepage, licenses and description of the whole
  package of the cachefile, whichever overlay the version is of
  (`cache/coreqcache/coreqcache.cc:211-216`). If the cachefile has the package in
  several overlays, the description need not be that of the version's own ebuild.
* `add_handler` reads the dispositions of INT and TERM from HUP, and INT is
  restored from HUP (`cache/common/ebuild_exec.cc:83-85,132`). The properties of
  `EbuildExec` therefore suppose that the three signals start alike.
* Under SAVEKEY_ACCEPT the user's setting saves flags calculated with the
  effective keywords of the user's profile, and the setting without the user's
  configuration takes them (`corepkg/conf/corepkgsettings.cc:1099-1103,1278`).
  `KeysMixed` is this case.
* `restore_keyflags` restores `local_collects` with a key index
  (`corepkg/package.h:234`); a recommendation under another setting leaves it
  so. `SummaryWhenChosen` states what remains right.
* With -T, `CorePkgUserConfig::setMasks` looks at the bits of keywords where its
  comment speaks of masks, and takes the saved masks without a check for
  redundancy (`corepkg/conf/corepkgsettings.cc:1330-1338`).

* `coreqrc`: the loop that skips a block does not count a nested `%{??` or `%{!?`
  (`coreqrc/coreqrc.cc:360-363`), and variables that are used only in `%{??V}` or
  `%{!?V}` are not joined (`498-526`). A redundancy value with `or` never works
  (`729-738`).
* `VarsReader`: a backslash escapes inside single quotes; `FOO=` at the end of a file
  is lost; `[DEFAULT]` does not leave a section
  (`coreqTk/varsreader.cc:703-706`).
* `q regen` misreads two kinds of ebuilds and takes what it has read for complete, so that corepkgq
  is not asked and a right Manifest may be made anew or a wrong one kept.
  In `${PV//./_}` the slash that ends the pattern is looked for from the second
  character of the operator on, where the second slash of `//` is
  (`various/subcommand_regen.h:1447`): the pattern is empty, and the replacement
  `./_` is put in front of the value. And `is_live_version` is false for 9999-r1 (`990`), so that the branch for
  releases of `if [[ ${PV} == *9999* ]]` is read.
* `q regen`: an empty SRC_URI empties what was expected of the earlier ebuilds of the package
  (`various/subcommand_regen.h:534`); if q is interrupted while corepkgq is asked, the
  command for the current package is still run. `NoFurtherCommand` allows this one.
* `search`: the two fields for BDEPEND and IDEPEND have one value
  (`search/packagetest.h:78-79`); `--in-overlay` without an argument is
  `--nonvirtual` (`various/cli.cc:283`), where the manual says `--overlay`
  (`manpage/en-coreq.1.in:654-656`).

## 5. Proofs

TLC's results are for the instances above. The following hold for every value
of the constants that satisfies the named assumptions; TLC evaluates the
assumptions in every run. The invariant of each module was checked with TLC
before it was proved.

**`CacheFileProofs`** (any set of writers and readers, databases of any lengths; assumption
`CacheFileAssumption`: the special values differ from the processes, and each
database has a length of 1 to N parts). The property that a read is one database is not inductive: it
depends on who may hold the lock at each program counter, on how far each
writer has come, on the fact that within the reach of a reader a file is
one writer's prefix followed by holes or nothing (`ReachInv`), whatever tail of
a longer database lies behind, and that what a reader has read is what the file held when it
was last truncated. These parts are the conjuncts of the inductive invariant,
proved one action at a time (`CacheFileInvariant`); from them follow
`CacheFileTypes`, `ReadsAreOneDatabase`, `QuiescentFileIsWhole`, and with the
refinement mapping `RegDb`, `RegRes` also `CacheFileImplementsRegister`: every
step is a step of the register or a stutter.

**`EbuildExecProofs`** (any number of overlays with and without ebuild.sh, of
ebuilds and of signals; `EbuildExecAssumption`: the object "none" is not one of the overlays').
The properties speak of the time between two ebuilds; in between
one has to know which object has a tempfile (`FilesInv`: only the current
one, and only while a child may need it), that a child exists only between `fork`
and the `waitpid` that returns it (`ChildInv`), what each signal does and what was saved
for it (`HandlersInv`: what was not yet treated by `add_handler` is as at the
start, and so is what `remove_handler` has treated already), and
where a caught signal is remembered (`SignalInv`: in the current object, on the
way to being raised). The parts are subject to the same exceptions as the
properties: nothing of a failed `vfork` is cleaned up, and dispositions that
differ are mixed up. From `EbuildExecInvariant` follow `HandlersAreRestored`,
`CaughtSignalsEnd`, `NoTempfileIsLeft` and `ChildIsAwaited`.

**`PackageReaderProofs`** (any trees, overlays and pairs of options, every cut of
the file, numbers of any size in any base; `DatabaseAssumption`: a byte has more than
two values; `PackageReaderAssumption`: trees, overlays and options have the
types of section "What is written" of `Database`, in particular all strings
and numbers of a tree are strings of bytes and natural numbers). The proof has
two halves.

* *The format.* `Occurs(w, f, p)` says that the file f has the bytes w at p, as far
  as it was not cut off; `Reads(r, f, e, v)` that a read found v and stopped at
  e, or failed because the file ends before e. Each reader is shown to read what its
  writer wrote, from the bottom: numbers (`ReadNumReads`: the marks, the flag of a
  leading digit 255, the digits, for numbers of any length), strings,
  sequences, words and lists of words by their index in the hashes of the header
  (`prep_header_hashs` collects every word that is written later),
  versions (`VersionReads`: fields the writer was told to leave out or the
  reader to pass over do not shift what comes after), the
  header (`HeaderReads`), and what `readAttributes` reads when some of the parts were
  read before (`AttributesRead`). `CounterCounts` says that `WRITE_COUNTER` puts the
  right length before a record; skipping a package or the dependencies relies on it.
* *The control.* That the package in hand is right is not inductive: it depends on
  what the next read will find, that is, on where the offset is.
  The invariant `IInv` therefore says, beside types (`Types`), which bytes of the file are
  ahead (`Position`): the whole file; between packages, what belongs to the packages and categories
  not yet counted down; in a package, its parts behind exactly the ones
  of `m_have`, and the rest of the tree at `m_next`. It says further that
  nothing fails in a file that was not cut off (`Errors`), that what is kept are different,
  complete packages in the order of the file (`KeptIn`), and that only CoreqCache
  reads all at once. There is one lemma for each action.

From `Invariant` follow `ReadsRight`, `KeepsComplete` and `HidesNothing`, the
three properties of the run.

**`PackageVersionsProofs`** (any versions, keys, priorities, masks, any number of
additions; `PackageVersionsAssumption`). This module and `UpdateProofs` begin with the same lemmas
about `ExtendedVersion` (assumption `ExtendedVersionAssumption`: overlay keys are
natural numbers, priorities are integers). `Less` is a strict
order in which two versions that are neither smaller nor larger have the same
`ver` and `key`; the minimum of a nonempty set of positions exists,
because the naturals are well-founded; hence `Place` is before the first larger
version, and insertion there keeps a sorted list sorted. `addVersionStart` updates what is known of
duplicates from the neighbours of the new version alone, which is right only
because the list is sorted; the summary is updated in `addVersionFinalize`, when
the version is already in the list. The invariant therefore says that the
list is sorted, that the duplicate flags are those of the whole list, and that the
summary is that of all versions except the one whose addition has started.
From `PackageVersionsInvariant` follow `ListIsSorted`, `DuplicatesAreKnown` and
`SummaryIsKnown`.

**`UpdateProofs`** (any cache table of the three methods, any cachefiles,
directories, excluded labels, and any place where a cachefile becomes
unreadable; `UpdateAssumption`: the tables refer to cachefiles and directories that exist, and
there is an overlay key for each cache). At the end everything must be in the
tree, but who has read what, and what was forgiven, is spread over the loops. The
invariant says

* `Control`: which cache has its turn, and that the overlays still to be given the
  current package use the same cachefile and have no error;
* `Masters`: a cachefile has one master that has begun, and all other CoreqCaches
  that use it are its slaves;
* `Errors`: an error message of a cache that has had its turn was printed;
* `Packages`: each package of the tree, and the one being read, has only
  versions that were read and asked for (`Read` says what was read at each step), no two with the same
  history, is sorted, and has the description that came with its last version. That
  this is the version just added when the two are equal rests on `InsertedIs`: among
  equal versions the new one is put last;
* `Flag`: a package that will be thrown away has nothing that is owed;
* `Complete`: everything owed by an overlay without an error and read so far is in the tree or in the
  package being read.

From `UpdateInvariant` follow `VersionsAreAddedOnce`, `NothingIsLost` and
`LatestVersionDescribes`.

**`CoreqDiffProofs`** (any set of names and any length; `CoreqDiffAssumption`). A first invariant relates the
position in the two files to what was reported or is waiting in a list, with
the look-ahead package of `prev_compare` on one side. From it follow
`CoreqDiffTypes`, `DiffIsTheDifference` and `CutOffIsReported`. `OutputInvariant`
adds the order: the lists wait in the order of their files, reports are in
order, and each report comes before everything that is still to be reported in its
section; `OutputIsInOrder` follows. `PackagesHaveOneOwner` needs the first invariant and that the packages
allocated are exactly those held in a variable or waiting in a list.

**`SetStabilityProofs`** (any number of versions and any configurations of the
type; assumption `SetStabilityAssumption`: no flags are `UNSAVED`). That the
right flags are printed is not inductive, because they may come from what any
earlier question has saved. The invariant says that whatever is saved under an
index is what the configuration says for that index, with the exception of
SAVEKEY_ACCEPT when the profiles differ; one lemma for each function shows that
it sets and saves what belongs to its index, one for each action that the
invariant is kept. From it follow all properties of the run, and
`SetStabilityTypes`: only flags that were saved are restored.

**`RegenProofs`** (any repository, Manifests, calls and number of interrupts;
`RegenAssumption`: packages have lists of ebuilds, and what a shell reports never
resets what is expected). The invariant says that the ebuilds left are the last
ones of the package, that an interrupt that was noticed meanwhile is remembered with that
package, and that a package of which something was not understood is known as
such. `InterruptEndsRegen` follows from it. `DistfilesAreExpected` and
`BadIsRegenerated` have a hypothesis, `ReadsWhatIsMeant`: in an ebuild that can be
read without a shell q finds what a shell makes of it. That is a statement about
the recursive functions of `SrcUri`, for which TLC is needed: the instances of
`regen` with a single ebuild check just this, for every ebuild of the
run. `IsStraight` says which ebuilds those are (section 6); ebuilds that q
misreads without noticing are not among them. Under that hypothesis the theorems say that neither the order in which metadata, text and `corepkgq` are
asked, nor what a failing attempt leaves behind, nor an interrupt, changes what is expected
in the end.

**Only model-checked.**

* Liveness (`AllFinish`, `GetsThrough`, `ReadEnds`, `Terminates`) and everything
  about fairness, which are beyond the prover.
* What recursive functions compute: `ReadsAsMeant`, `ResolvedIsExpansion`,
  `FailsOnlyIfUndefined` and `DefaultsResolve` (CoreqRc), `FindsWhatWasWritten`,
  `EveryTestCounts` and `RedundancyAsDocumented` (Search), `ReadsWhatIsMeant` of `SrcUri`. They would need an
  induction over texts and trees, and these modules have RECURSIVE operators, which
  the prover does not read.

## 6. What is abstracted, and what is not modelled

* `CacheFile`: a database is a sequence of up to N opaque parts, each database
  with a length of its own; buffering makes the parts arrive one after the other. A short write concerns the last part.
* `Database`: format version 39 only. Numbers have any size; TLC takes a small base
  and short strings, the proofs any. The mask flags are written as
  a character and read as a number (`database/io_corepkg.cc`); they have seven
  bits, so that the model takes them to be smaller than the magic number. Readers are given any combination of the saved header bits
  and of the options that ask for optional fields.
* `PackageReader`: after a failed read the fields of the package that was read
  partly are not kept, because no client uses them after the check of the loop.
* `EbuildExec`: the contents of the tempfile and the environment of the child
  are left out; the build with `sigaction`, `vfork` and `setenv` is modelled. The handlers
  are installed without SA_RESTART, so that each signal that is caught in `waitpid`
  interrupts it. That two processes use one file EBUILD_DEPEND_TEMP is not modelled.
  What `mkstemp` and `vfork` failures leave behind is stated as exceptions of
  the properties, with the lines, in the hazards.
* `SetStability`: a flag stands for the configuration it comes from; how masks
  and keywords are matched and combined is not modelled, nor MASK_WORLD, which
  is the same in every setting, and the sets of the world file. After a failed
  restore all versions are calculated anew, so that the loop that restored some
  of them first is not a step of its own.
* `Update`: overlays by label only (no `~`, path or number), no sqlite; every
  category directory can be read; the priority of an overlay is 0 as in
  coreq-update.
* `CoreqDiff`: that two packages of one name differ is a given set `differs`.
* `Regen`: the ebuild command writes the Manifest that a shell would make, or fails.
  `ExpectsTheDistfiles` and `RegeneratesTheBad` are about packages in which no
  ebuild without distfiles follows one with distfiles, since the former empties
  the set of the whole package (`various/subcommand_regen.h:534`), and of which
  each ebuild that q reads itself is straight (`IsStraight` of `SrcUri`). What q takes for
  complete although it may misread it is excluded there, by name: a
  variable that is used before it is assigned for the last time, conditional assignments that are not
  understood, quotes and conditional blocks that are not closed
  (`InOrder`,
  `Plain`, `Nested`); a SRC_URI that depends on a value with `//`
  (`DependsOnDoubles`); a live version that q does not know as one, such as 9999-r1, together with a
  test for live versions (`LiveUnseen`). The last two are misread by the code,
  see section 4. With either of them left in, TLC finds `ExpectsTheDistfiles` violated.
* `VarsReader`, `CoreqRc`: a text is made of pieces (names, references, quotes,
  blanks, other text) and not of single letters; the files of a directory are read in a given order.
  Texts that the code reads differently from a shell in a known way (listed in
  section 4) are not among the texts of `MCCoreqRc`, nor are those with `%{%}` in
  which `value->erase(pos)` cuts the rest of the text.
* `Search`: patterns are plain text, or a star for fnmatch; what a test says about masks, stability and
  dependencies of a version is a given value. The meaning in `SearchMeaning` follows the code, or the
  lists of `MCSearch` leave the case out, for: a SLOT of an installed version that cannot be read and is asked for twice,
  dependencies when only the name was read, `--in-overlay` without argument,
  values of a redundancy variable with `or` or with three words, masks of -T that were saved
  before, DESCRIPTION and LICENSE together with CATEGORY but without NAME, options
  of which one supersedes the other, and two tests of USE flags after a file is missing.
* Not modelled: printing and wording, the method sqlite, matching of masks and
  keywords, parsing of versions and dependencies, the scripts; for each the reason is in
  `PROJECT.json`.

## 7. Plan

Modelled: the modules of section 2, in the order CacheFile, EbuildExec, Database
with PackageReader, CoreqDiff, PackageVersions, Update, SetStability, SrcUri with Regen,
VarsReader with CoreqRc, and the modules of Search.

Proved: what section 5 lists, that is, all safety and action properties of the runs
`cache_file`, `ebuild_exec`, `package_reader`, `coreq_diff`, `package_versions`, `update` and
`set_stability`, and of `regen` under a hypothesis about single ebuilds.

Left to prove: what the modules with RECURSIVE operators compute (section 5), which
would first have to be rewritten with recursive functions, as was done with
`Database`; and a composition of `Update` with `CacheFile`, as a basis for
KEEP_VIRTUALS over two updates.
