# A TLA+ model of vaultlint

vaultlint is a command-line linter for Solana programs written with Anchor. It
walks a directory, parses every Rust file in it, applies five rules, and can ask
a cluster which of the programs that the code declares are live, so that a
finding can say at which addresses the defect is executing.

This directory holds TLA+ modules of the parts of it that keep state, call each
other in an order that matters, or meet a world that moves (files that are
edited during a scan, a cluster that changes, a connection that fails); TLC
configurations that check them on small instances; and proofs, checked by TLAPS,
that what matters most of it holds in every instance. Paths below are relative to
the root of the repository.

## 1. The system

### Components

| Component | Source | State | Operations | What makes it correct |
|---|---|---|---|---|
| Scan pipeline | `src/lib.rs`, `src/scan.rs` | the file list, the M3 set, counts, skipped files, workspace roots, `linked_files`, findings | `scan`: walk, collect test modules, phase 1 per file, manifest findings, phase 2 per linked file, sort, lookup, marks | every file found is accounted for once; the findings are those of the rules whatever the order of the files; it ends |
| Use-site index | `src/usesite.rs` | facts of every parsed file, a cache of re-parsed files | `insert`, `use_sites`, `functions_named`, `bodies`, `materialise` | a struct is judged by all of the functions of its own crate that address it, and by no other |
| Workspace resolver | `src/project.rs` | a cache of answers by directory, a cache of manifests by path | `resolve` with `package_manifest`, `workspace_root_manifest`, `read` | the answer for a directory is Cargo's, independent of what was asked before; one root, one verdict |
| Dependency closure | `src/depgraph.rs` | a cache of parsed manifests, the resolver | `closure`, `path_dependencies`, `inherited`, `parse` | the answer is the least closed set; it ends on cycles |
| Cluster lookup | `src/onchain.rs` | the deployments, the pending second pass, the attempt | `resolve`, `resolve_program_data`, the two classifications, `get_multiple_accounts` with retries | one answer per id, in order; nothing unanswered is reported as a fact |
| Marks of live programs | `src/programid.rs`, `src/lib.rs`, `src/onchain.rs` (`annotate`) | the declared ids, the live programs | `collect`, `annotate` | a finding is marked with exactly the live programs its code is part of |
| Suppression | `src/suppress.rs` | the line and the bracket depth of a walk | `is_suppressed` | a marker silences the findings of its block and no others |
| Test scope | `src/scope.rs` | the set of test-only files and line ranges | `is_test_scope`, `collect_m3_set`, `test_ranges` | no on-chain code is taken for test code |
| Rules VL001 to VL005, `#[access_control]` guards | `src/rules/*` | none between calls; within one, the bindings and the evidence of a body | `check`, `check_accounts` | each verdict is what scoping, Anchor or the machine's arithmetic make of the code |
| Rule registry | `src/rules/mod.rs` | none | the order of the rules, textual matching of expressions | a word is matched whole |
| Anchor model | `src/anchor/*` | none | translates `#[derive(Accounts)]` items | no struct, type or constraint is taken for another |
| Declared ids | `src/programid.rs` | the ids met so far | `collect`, the two Base58 conversions | a literal counts exactly if it writes an address |
| Parsing | `src/parse.rs` | the state of the delimiter scan | `parse`, `max_delimiter_depth` | nesting that would overflow the parser's stack is turned away, nothing else is |
| Command line | `src/main.rs` | the scan thread, the line buffer of standard output | argument checks, scan thread, exit status | the exit status says what happened; an interrupted scan never reads as a clean one |
| Renderers | `src/report/*` | none | text, JSON, SARIF | no format leaves out a finding, a skipped file or a live id |

### How they interact

`main` starts `scan` on a thread of its own and waits for it. Everything in
`scan` is a direct call on that one thread: there is no lock, no shared memory
and no callback. What interleaves is the outside:

- **Files.** A source file is read up to four times in one scan (for the
  `#[cfg(test)] mod` declarations of the whole tree, by phase 1, by phase 2,
  and by the use-site index when it needs a body), a manifest by the resolver and
  again by the dependency closure. An editor, a checkout or a build may change
  it between any two of these.
- **The cluster.** The lookup reads program accounts in one pass and the
  ProgramData accounts in another. Transactions of the upgradeable loader
  (deploy, upgrade, revoke, close) happen in between.
- **The process.** The scan thread may panic, overflow its stack or never start,
  and the reader of standard output may go away between two writes.
- **The connection.** A request may be lost, time out, be turned away by a rate
  limit or be answered by something malformed. A batch is tried four times.

And what is carried over: phase 1 leaves facts and paths that phase 2 trusts;
the resolver's and the closure's caches answer later questions from earlier
reads; the deployments keep a ProgramData address in the place of the authority
from the first pass to the second.

### Which behaviours are hard

`PROJECT.json` lists the hazards, each at its line. The most important ones:

- stale state: caches and facts used after the file changed
  (`src/usesite.rs:360`, `src/depgraph.rs:108`, `src/project.rs:89`,
  `src/lib.rs:94`);
- two snapshots put together as one (`src/onchain.rs:188`), and the temporary
  address in the authority field (`src/onchain.rs:181`);
- partial failures: a file that cannot be read, a request that fails, a reply
  of the wrong length, a missing workspace root;
- worklists over cyclic data (`src/depgraph.rs:40`);
- the order of the walk: facts of later files decide about earlier ones;
- the characters of a text: the scan for brackets must agree with the parser
  about what is a comment, a string, a character or a lifetime
  (`src/parse.rs:151`, `src/parse.rs:162`);
- the end of the process: a broken pipe, a failed write and output that is still
  buffered at the exit (`src/main.rs:115`, `src/report/json.rs:37`);
- names: the rules resolve a local by its text and position, not by its scope
  (`src/rules/cpi.rs:325`, `src/rules/owner.rs:428`), modules by the name of
  their file (`src/scope.rs:225`).

A hazard with a note is one that no property covers, or covers in part. Most of these
are what the code gets wrong or does not guard against: a property that saw them
would be violated, so it has a hypothesis that leaves them out (`TidyCall`,
`BoundOnce`, `ToldApart`, `PlainAbove`, `ModulesApart`), or allows what the code does
with a file that changes between two readings. The note says which.

## 2. The modules

`Manifests`, `Accounts`, `Sources`, `Nesting`, `Base58`, `Anchor`, `Authority`,
`Pda`, `Arithmetic`, `Bodies`, `Cpi` and `Owner` hold the data and the pure
definitions, `DepGraph`, `OnChain`, `Scan`, `Workspace`, `Join`, `Suppress`,
`Scope`, `Rules` and `Main` are state machines, `ClosureSpec` and `LookupSpec`
are abstract specifications that two of them implement, `…Proofs` hold proofs,
and `MC…` instances for TLC.

```
Manifests ──┬── ClosureSpec <── implemented by ── DepGraph ── DepGraphProofs
            └── Join ── JoinProofs (uses Reach, what DepGraph is proved to return)
Accounts  ──┬── LookupSpec  <── implemented by ── OnChain  ── OnChainProofs
Sources   ───── Scan ── ScanProofs
                Workspace ── WorkspaceProofs
                Suppress ─┬─ SilenceProofs
                Scope ────┘
Nesting ─┬── Main ── MainProofs
Base58 ──┘
Anchor ──┬── Authority ───────────────┬── Rules ── RulesProofs
         ├── Pda ──────┬── Bodies ─┬── Cpi ───┤
Arithmetic ────────────┘           └── Owner ─┘
```

Operators named in a comment `\* Mutant of X` are wrong variants of the
definition after them, of the kind a slip in the code would make. Each breaks
one of the properties in its run, which shows that the property depends on that
piece of code. They are no part of the specifications.

### `Manifests`, `DepGraph`, `ClosureSpec`: `src/depgraph.rs`

A manifest is a set of dependency entries (table, name, `optional`, `path`,
`workspace`) and the entries its `[workspace.dependencies]` would lend; the
strings in it are model values. `Shipped` is the choice of tables: ordinary and
target-specific dependencies that are not optional. `PathDependencies` resolves
`path` entries against the manifest and `workspace = true` entries against the
workspace root (`inherited`). `RootOf` is a constant function: any answer the
resolver may give; the resolver has a module of its own.

`DepGraph` has `Call`, `Skip`, `Expand` and `Return` for `closure`, and `Edit`
for everyone else. The stack `pending`, the set `reached` and the cache `parsed`
are the variables of the code. One turn of the loop is one step: it reads the
popped manifest and its root at most once each, so an edit in the middle has the
effect of an edit before or after.

`ClosureSpec` is the promise: manifests are read once each, and one step answers
a call with `Reach`, the least set that holds the root and is closed under what
builds take in. That is `TakesIn`, a relation between two manifests that uses none of
the operators the worklist is made of: a dependency that every build has names the
path of the other, in place or through a workspace root that can be read and lists
it. A slip in `inherited` or in the choice of tables is a difference between the two.

### `Accounts`, `OnChain`, `LookupSpec`: `src/onchain.rs`

An account is the loader that owns it and what its bytes hold. Bytes 4..36 of
an account of the upgradeable loader are taken for an address whatever the enum
tag in front of them says, so a ProgramData account in the place of a program
yields `Junk`, an address that holds nothing.

`OnChain` has one step per call to the endpoint. `Reply(garbled)` answers a
chunk from one snapshot of the cluster, with an undecodable account at the places
in `garbled`; `Lose` is an attempt that fails and is repeated; `GiveUp` the last
one; `Malformed` the reply that is not retried. `StartData` builds the list of
the second pass, `Finish` ends a pass with nothing (left) to ask. `Deploy`,
`Upgrade`, `Revoke` and `Close` are the loader's transactions. `held` and
`unheard` are history variables for the properties.

`LookupSpec` has no batches, passes or attempts: ids are answered, once each,
with `Unavailable` or with a state that their accounts amounted to by then.

### `Sources`, `Scan`: `src/lib.rs`, `src/scan.rs`, `src/usesite.rs`, VL001's linked checks, VL003's manifest finding

The content of a file is what parsing and the stateless recognisers make of it:
the facts of its functions, what their bodies do, its Accounts structs, the
findings of file-local rules, the lines a marker hides, its `#[cfg(test)] mod`
targets. A file may also be `Broken` (cannot be read or parsed) or `Gone`.
`Findings` in `Sources` is the reference: what the rules define for a whole tree
that stands still.

`Scan` follows `scan`: `Walk` per entry of the tree, `CollectTestMods` per file, `SkipTestFile`,
`SkipBrokenFile` or `CheckFile` per file of phase 1, `ReportManifests`, then for
each linked file `Reparse` or `DropFile`, and for each struct in it `UseSites`
and `Judge`. `UseSites` finds functions by the facts of phase 1 and fetches their
bodies by ordinal from whatever the file holds now or held when the cache read
it; `Judge` may look one forwarding call further and so read more files. No
step reads one file twice.

VL001 has one field per struct here: the flag `candidate` says that the tests of
the struct itself, T1 to T4 and S1 to S3, leave one. That is `Candidates` of
`Authority`, which `Rules` checks and proves.

### `Workspace`: `src/project.rs`

`resolve` is split at every look at the file system: whether a directory has a
`Cargo.toml`, and what is in it, are separate steps. The climb for the package,
the climb for the root (`package.workspace`, `[workspace]`, `exclude`), and the
two caches are the code's. `Package` and `WorkspaceRoot` are the answers on a
tree that stands still, defined as the nearest directory above of its kind.

### `Join`: `src/lib.rs` (ids), `src/programid.rs`, `annotate`

`Collect` takes the next id of a file, the first declaration of an address wins;
`Resolve` answers them, any part of them `unavailable`, or nothing without an
endpoint; `Trace` gives the next live deployment its crates and its workspace
root; `Mark` adds the next program to the findings it is part of. `NextFile`,
`StartMarks` and `EndMarks` end the loops; with nothing live nothing is marked. What a crate compiles in is `Reach`, which is what
`DepGraph` is proved to return; what the cluster says is the account's state or
`unavailable`, which is what `OnChain` is checked and proved to report.

### `Suppress`: `src/suppress.rs`

A step per line of the upward walk. A line has what the walk sees (how it starts,
a brace, its brackets, the marker) and what it is part of, which the walk does
not see and the properties speak about: the `part` and how many brackets of an
attribute or a call are open `above` it.

The walk takes every bracket that a line leaves open for one of an attribute. The
properties say so as a hypothesis, `PlainAbove`: no line of the block, nor the one
that ends it, closes a bracket that it did not open or its attribute did not leave
open (`OwnBrackets`), and what continues an item continues an attribute
(`Continues`). What violates it are calls of several lines
just above the block, `// b)` in a comment, brackets in a string, and a `}` behind
the last bracket of an attribute. Such files are in the instance, and without the
hypothesis TLC finds both properties violated.

### `Scope`: `src/scope.rs`

Which files, and which code in the other files, count as test code (M1 to M4).
`Collect` is one file of `collect_m3_set`, with the recogniser of `#[cfg(test)]`
(`ContainsBareTest`), the directory a `mod` is looked up in (`ModSearchDir`) and
the subtree of a test module; `SkipFile` and `CheckFile` are the first lines of
phase 1. Code is not numbered by lines: a file has code in places, each below a
chain of inline modules with their attributes, and `InTestRange` asks whether one
of them is `#[cfg(test)]`. What is compiled into a build (`Holds`, `Resolved`,
`Compiled`) is the reference, and is `rustc`'s.

`scope.rs` sees files and names, `rustc` follows modules, and a project can be laid
out so that the two part: a directory that is two modules, a manifest in the middle
of a crate. What the properties ask of the layout are named hypotheses, each used by
the property that needs it:

- both: no manifest lies between a file and its modules (`NoManifestBetween`), and
  what `rustc` is started on is no module of tests and, unless it is a test, not
  below `tests/` or `benches/` (`RootsApart`);
- `ShippedCodeIsReported`: a module that ships is not looked for where a module that
  never ships is (`ModulesApart`) nor called `tests` beside a manifest
  (`NoneCalledTests`), and a `#[path]` on it does not lead to tests (`PathsToCode`);
- `TestModulesAreSilent`: a file that declares tests is called `lib.rs` or `main.rs`
  exactly if `rustc` is started on it (`RootsCalledSo`: the modules of
  `src/bin/tool.rs` are looked for in `src/bin/tool/`, where they are not), and a
  `#[path]` in tests leads to tests (`PathsToTests`).

What never ships (`Ships`) is decided by `Holds` over all sets of flags, not by the
code's recogniser, so that a slip in the recogniser is not excused by them. Where a
module that never ships is looked for is the code's `ModSearchDir`, in `ModulesApart`:
a slip there is for `TestModulesAreSilent` to see. Every
tree of the instance without a `#[path]` satisfies them all. Trees with one are there
too, and without `ModulesApart`, `PathsToCode` or `PathsToTests` TLC finds the
properties violated by them.

### `Nesting`, `Base58`, `Main`: `src/parse.rs`, `src/programid.rs`, `src/main.rs`, `src/report`

`Nesting` is the scan for the deepest nesting, one character after the other,
with every skip function of the code: comments, strings with their prefixes and
hashes, escapes, character literals. Each loop of the code is a turn (`ScanTurn`,
`BlockTurn`, `QuotedTurn`), a function of what the loop keeps, and `Turns` repeats
it. The reference knows tokens: what a bracket is was decided when the token was
written, and `Nests` is how deep the bracket tokens nest.

Which texts are tokens is `Lexed`, a grammar that never looks at the scan: the
strings of Rust with their escapes and hashes (`IsString`), characters, nested
block comments (`IsBlockComment`), words and lifetimes (`IsLexeme`), and what must
not stand right behind what (`Apart`). It is a hypothesis of `GuardIsExact` and
leaves out what the guard loses track of or what it was not worth to follow: a raw
string without hashes that ends in a backslash, a character literal of a character
of several bytes or of a longer escape, such as `'\u{41}'`, raw identifiers and C
strings, and a line comment that the end of the file ends. The run `main_nesting`
has texts of the first two kinds.

`Base58` is the two conversions with
their carries, digit by digit: `Carries` and `InPlace` are the inner loop,
`Conversions` the outer one, `Converted` puts the zeros in front. The number that
digits write (`Value`) is the reference, and `Spells` relates a text to an address.

`Main` is the process. `RejectPath`, `SpawnFails` and `Spawn` are its start,
`Panic` is the thread's panic at any moment, `Collect` the first reading of all
files, the one where a text that nests too deeply meets the parser. `SkipTestFile`,
`SkipFile`, `CheckFile`, `CollectId`, `EndFile` and `EndFiles` are phase 1 and 2
as far as the report goes, `Finish` is the sort, the lookup and the marks. `Write`
hands one more item of the document to standard output, `WriteFails` is a broken
pipe or another error, `Return` the end of `main`. A document is a sequence of
items that name what they tell; what ends a line leaves the buffer at once and
all else may stay in it until the process ends, when nobody hears of an error.

The parser is the library `syn`: it takes texts whose brackets are balanced and
overflows the stack on one that nests deeper than `StackDepth`. The rules'
findings, the suppression, the cluster and the marks are inputs or free choices
here; they are the matter of `Rules`, `Scan`, `Suppress`, `OnChain` and `Join`.

### `Anchor`, `Authority`, `Pda`, `Arithmetic`: `src/anchor`, VL001, VL004, VL003

`Anchor` translates structs as they are written, with their derives, attributes
and types, to what the rules read: which are collected, types through their
boxes, constraints by their keys, the arguments of the first `#[instruction]`.

`Authority` is VL001 as far as one struct goes (T1 to T4, S1 to S3); what it leaves
is the flag `candidate` of `Sources`. The reference is a call: `Accepted` are the
ways Anchor lets a stranger fill the struct, when an account that exists can only
name the party whose signature it took and one that the call creates names
anyone. `Pda` is VL004, against the bumps that get through (`Passing`); `Arithmetic`
the operators of VL003 and the test code it looks past, against integers of a
fixed width.

### `Bodies`, `Cpi`, `Owner`, `Rules`: VL005, VL002, the guards they hear, and the pass

A body is its events in the order of the text: blocks, bindings, CPIs, reads by
a deserialiser, checks, derivations. The rules compare normalised text; here an
expression is a path of identifiers with a form, and `whole_word_match` is the
occurrence of one path in another. `Collected` is what the search for bindings
reaches: not a block in an argument of a call ("aside"). `Evidence` is the body
with the bodies of the functions its `#[access_control]` names.

`Cpi` has the decision of VL005 (`UncheckedCpi`: `NearestPreceding`, one hop for
the Instruction and one for its program id, what Anchor verified, helpers,
signals), `Owner` that of VL002 (`MissingOwnerCheck`: candidate receivers, owner
checks, address checks, Anchor constraints; `Severity`). Each ends with its
reference, which knows scopes: `ArbitraryCpi`, `UnprovenReads`, `PlainlyProven`.
`Rules` is the pass over one file: `Collect` has `Anchor` build the model of the
file item by item, then the rules run in their order, each of them struct by
struct and function by function (`Visit`, `NextRule`).

The properties say where the rules' shortcuts are sound, and their hypotheses are
the limits of the code:

- `TidyCall`: VL005 is exact for a CPI when each binding of its names before it is
  one the search finds, those in blocks that are closed are bound again since,
  the program id has not been bound again between the Instruction and the CPI,
  and a place that Anchor verified occurs in the id only at its start. Without it
  the search can pick a binding of the other arm, or take one account for another
  that has the identifiers of a verified one in it.
- `BoundOnce`: VL002 takes every binding of a name for a candidate, so its answers
  are judged where names are bound once, outside arguments of calls, and no
  alias is an alias of another.
- A proof through an alias that the read does not use is not heard; this is why
  `ProofsAreHeard` speaks of proofs that name the account in full or as the read
  does.
- `ToldApart`: VL002 tells accounts apart by their last identifier.
  `UnprovenReadsAreReported` asks that this is enough for the read it speaks of: no
  other binding of the names on the way to the bytes, and nothing that proves
  another account with the same identifier in it.
- `OtherSignerProven`: VL001 hears a proven signer (S3) only if it has an
  authority's name, and looks for `signer` among the keys of constraints, where
  `signer @ Err` is not. A candidate may then be one that no stranger can fill.
- `TakenAsIs`: VL004 reports a bump that is an argument and no other expression
  over one: `bump = args.bump` counts as a value that was stored.

## 3. What is checked

All runs state their constants in the `.cfg` of the same name; the instance is
the `MC` module. Deadlock is not checked: every machine here is a program that
ends.

| Run | Instance | Distinct states | Shows |
|---|---|---|---|
| `dep_graph` | every tree of three manifests over five contents (a cycle, a self-dependency, an inherited dependency beside a plain one, each excluded table), two closures, one edit | 165 222 | answers are least closed sets, agree with each other under edits, every turn makes progress, calls return, `ClosureSpec` is implemented |
| `on_chain` | up to three ids, requests of two, up to four attempts, two transactions | 114 987 | one answer per id in order, only facts, failures contained, the lookup ends, `LookupSpec` is implemented |
| `scan` | four files in two crates, one a test path, one edit at any moment | 209 561 | nothing vanishes, a quiet scan is exact, findings are explained, the scan ends |
| `workspace` | four directories, three of them nested, every order of questions, one edit | 695 773 | cached answers equal the definition, one verdict per root, `resolve` returns |
| `join` | two programs, a library, a loose file, two ids, any part of the lookup failing | 134 520 | marks are true, and none is missing for an id that one crate declares |
| `suppress` | every file of three items out of fourteen and a statement, every finding in it; calls of several lines, `// b)` and a `}` at the end of an attribute among the items | 20 740 | a finding is silenced exactly by a marker in its block |
| `scope` | modules in both layouts, cfg predicates two levels deep, inline modules, an integration test, a crate below `tests/`, a fuzz crate, a `#[path]` | 37 050 | code that ships is reported, a test module is silent |
| `rules` | handlers with bindings before, in and after the two arms of a branch and a CPI in any of the places; reads through aliases and bindings, every check and derivation, guards by qualified name; Accounts structs of up to four fields; writes and derivations in test code or not | 1 156 112 | VL005's verdicts are lexical, VL002 reports what nothing proves and hears what does, VL001's candidates are what a stranger can fill, VL004's what a caller can choose, VL003's what can wrap |
| `main` | texts with up to three brackets and every kind of token, every id of up to five characters, reports of four trees in each format, a failure at every step | 411 653 | the guard counts the nesting, ids are decoded, the exit status and the report are complete and honest, the process ends |

Three runs show the code doing something else than a text of the repository
says; each checks that one sentence, and TLC finds it violated:

- `workspace_cargo`: "vaultlint resolves the root the way Cargo does". The search
  for the workspace starts in the directory above the package, so a package with
  a `[workspace]` of its own below another workspace is answered with the outer
  root.
- `join_twins`: a finding is marked with an address "when its crate is compiled
  into the program deployed there". Ids are deduplicated by address before their
  crates are looked at, so only the crate whose file the walk meets first is
  traced.
- `main_nesting`: `tests/robustness.rs` asks that vaultlint never ends "with a
  signal". Behind `r"\"` (one backslash in a raw string without hashes) or a
  character literal of several bytes, the scan for brackets takes code for text;
  a file that nests too deeply after it reaches the parser.

Two more disagreements are not runs. A marker behind an argument of a call of
several lines silences the statement after the call, because the open bracket is
taken for an attribute's (`src/suppress.rs:64`): such calls are in the instance of
`suppress`, and the hypothesis `PlainAbove` of its properties is what they violate.
And a stand-in for tests named by `#[path]`, beside the module that ships, makes
the shipping file a test module (`src/scope.rs:225`): such trees are in the instance
of `scope`, and the hypothesis `ModulesApart` is what they violate.

### Why the bounds are enough

- `dep_graph`: three manifests are enough for a cycle, a diamond (a crate reached
  along two ways), a self-dependency and a workspace root that is a member; two
  calls are needed for the cache to matter, and one edit to tell the cache from
  the disk.
- `on_chain`: three ids in requests of two make a full and a partial request in
  the first pass and, with two live programs under the loader, a second pass
  whose indices differ from the first's. Two transactions are enough to change an
  account between the passes and to change it back. The attempts are the code's.
- `scan`: two files in one crate and one in another tell own use sites from
  foreign ones; one edit is enough to make any one of the four readings of a file
  disagree with another.
- `workspace`: three nested levels are a package, a root above it and a directory
  above that; the fourth is the target of `package.workspace`.
- `join`: two programs that share a library, one of them in a workspace of its
  own; two ids, in any of the files, in either order.
- `suppress`: three items above a statement allow for a marker, something between,
  and something that must stop the walk. Longer files and
  other brackets are covered by the proof.
- `scope`: each way a file gets into the set, alone and together: `tests/` and
  `benches/` of the nearest crate, a fuzz crate, `name.rs`, `name/mod.rs`, the
  subtree below; predicates two levels deep tell `all` from `any` and `not`, and
  two attributes on one item tell "one of them" from "all". Crate roots with
  other names than `lib.rs` and `main.rs`, and files that cannot be parsed, are
  not in the instance; edits between the two readings are in `scan`.
- `rules`: two arms, a binding before and one after each, are what it takes for
  the nearest binding to be the wrong one in each direction; one alias and one
  binding of bytes is as far as VL002 follows a name. A guard and a function of
  the same name on another type tell qualified names from bare ones. The structs
  have the account that is created, the authority, an account that may vouch for
  it and another party, with every constraint a rule looks at on each
  (`AuthorityStructs`), and every way to write a bump (`BumpStructs`); the modulus
  of `MayWrap` is 4: from three on each operator that can wrap does.
- `main`: the guard turns away more than one bracket and the parser's stack ends at
  two, so three brackets are refused, one is taken and the literals and comments
  around them decide. Base58 has three digits and a character that is none, bytes of four values
  and addresses of three bytes: texts of five characters are too short, too long, of the right
  length and too large, and have leading zeros. Files, rules and lines that order the
  findings in different ways are what the sort can get wrong.

### Fairness

Liveness is stated under weak fairness of the program's own steps and of nothing
else. It is justified by what the code does: `scan`, `resolve` (of the
workspace) and `closure` are loops of one thread, and a loop that can go on does
(`DepGraph`: `Skip`, `Expand` or `Return`, but never `Call`; `Scan` and
`Workspace`: `Step`). A request to the cluster carries a timeout and the
sleep between two attempts is finite, so every attempt ends one way or another
(`OnChain`: `Resolve`). `Main` has weak fairness of its whole next step: the
operating system runs whichever thread of the process can go on, and whether a
write succeeds or fails is left open. No fairness is assumed of edits,
transactions or of the success of a request. The other modules state no liveness.

## 4. What is proved

The modules `…Proofs` are checked by TLAPS for every value of the constants that
satisfies their assumptions: any finite or infinite sets of manifests, files,
ids and accounts, trees of any shape, bodies and structs of any length, any batch
size, number of attempts, calls, edits and transactions.

| Theorem | Statement | Argument |
|---|---|---|
| `DepGraphProofs!TypeCorrect` | `Spec => []TypeOK` | `PathDependencies` yields manifests only, so the stack holds manifests only |
| `DepGraphProofs!ClosureCorrect` | `Spec => []ClosureIsLeast` | from `ClosureInv` |
| `DepGraphProofs!AnswersConsistent` | `Spec => []AnswersAgree` | least closed sets over one cache are comparable |
| `DepGraphProofs!TurnsMakeProgress` | `Spec => ExpandedOnce` | an expansion adds the popped manifest, a skip shortens the stack |
| `DepGraphProofs!WorklistImplementsClosure` | `Spec => ImplementsClosure` | a turn reads manifests or stutters, a return is an answer |
| `OnChainProofs!TypeCorrect` | `Spec => []TypeOK` | with `LookupInv` |
| `OnChainProofs!LookupIsInOrder` | `Spec => []OnePerId` | from `PlacesInv` |
| `OnChainProofs!LookupReportsFacts` | `Spec => []FactsOnly` | from `FactsInv` |
| `OnChainProofs!FailuresStayContained` | `Spec => []FailureIsContained` | from `HeardInv` |
| `OnChainProofs!LookupImplementsSpec` | `Spec => ImplementsLookup` | a recorded chunk answers its ids, all else leaves the answers alone |
| `ScanProofs!TypeCorrect` | `Spec => []TypeOK` | the lists of phase 1 hold files only |
| `ScanProofs!NoFileVanishes` | `Spec => []NothingVanishes` | from `CountInv` and `PassedInv` |
| `ScanProofs!NothingInvented` | `Spec => []FindingsAreExplained` | from `HistoryInv`, `JudgingInv` and `HitsInv` |
| `ScanProofs!QuietScanExact` | `Spec => []QuietScanIsExact` | from `QuietInv` |
| `WorkspaceProofs!TypeCorrect` | `Spec => []TypeOK` | a climb stays among the directories |
| `WorkspaceProofs!VerdictsAgree` | `Spec => []OneVerdictPerRoot` | from `VerdictInv` |
| `WorkspaceProofs!QuietResolverIsCorrect` | `Spec => []QuietAnswersAreCorrect` | from `QuietInv` |
| `JoinProofs!MarksCorrect` | `Spec => []MarksAreTrue` | from `TracedInv` and `MarkedInv` |
| `JoinProofs!SoleDeclarersMarked` | `Spec => []SoleDeclarerIsMarked` | likewise |
| `RulesProofs!StrangersDecide` | `Candidates` is `Unproven`, for any struct | the tests read off what `Accepted` quantifies over |
| `RulesProofs!ScopingDecides` | `UncheckedCpi` is `ArbitraryCpi`, for any tidy call | nearest binding and visible binding coincide |
| `RulesProofs!ProofsDecide` | `MissingOwnerCheck` excludes `PlainlyProven`, for any function | what proves the read is among its receivers |
| `RulesProofs!UnprovenDecide` | `MissingOwnerCheck` reports `UnprovenReads`, for any function whose accounts are told apart | nothing VL002 hears is a proof of the account |
| `RulesProofs!CandidatesCorrect` | `Spec => []CandidatesAreUnproven` | `PassInv` and `StrangersDecide` |
| `RulesProofs!BumpsCorrect` | `Spec => []BumpVerdicts` | `PassInv`, `BumpsDecide` and `CallsDecide` |
| `RulesProofs!ArithmeticCorrect` | `Spec => []ArithmeticVerdicts` | `PassInv` and `WrappingDecides` |
| `RulesProofs!CpiCorrect` | `Spec => []CpiVerdictIsLexical` | `PassInv` and `ScopingDecides` |
| `RulesProofs!ProofsHeard` | `Spec => []ProofsAreHeard` | `PassInv` and `ProofsDecide` |
| `RulesProofs!UnprovenReported` | `Spec => []UnprovenReadsAreReported` | `PassInv` and `UnprovenDecide` |
| `SilenceProofs!TypeCorrect` | `Spec => []TypeOK` | the depth stops at zero |
| `SilenceProofs!SilencedRightly` | `Spec => []SilencedByItsBlock` | from `WalkInv` |
| `SilenceProofs!MarkerHonoured` | `Spec => []MarkerIsHonoured` | from `WalkInv` |
| `SilenceProofs!BareTestNeedsTest` | what `ContainsBareTest` accepts does not hold without `test` | a least counterexample has a part that is one |
| `SilenceProofs!ShippedReported` | `ScopeSpec => []ShippedCodeIsReported` | from `ScopeInv` and `CompiledAreCode` |
| `SilenceProofs!TestModulesSilent` | `ScopeSpec => []TestModulesAreSilent` | from `ScopeInv` and `TestModulesAreTests` |
| `MainProofs!TypeCorrect` | `Spec => []TypeOK` | what is sorted is a list of the same findings |
| `MainProofs!StatusCorrect` | `Spec => []StatusIsHonest` | from `FoundInv` and `OutputInv` |
| `MainProofs!ReportComplete` | `Spec => []ReportIsComplete` | from `TellInv`, document by document |
| `MainProofs!IdsDecoded` | `Spec => []IdsAreDecoded` | from `IdsInv` and `AddressSpelled` |
| `MainProofs!GuardExact` | `Spec => []GuardIsExact` | from `DepthIsExact`, `SkipInv` and `SignalInv` |

**The closure.** `ClosureIsLeast` is about finished calls and says nothing of the
loop. `ClosureInv` adds what holds inside it: reached and pending manifests
together hold the root, hold all that reached manifests compile in, and lie in
every closed set that holds the root; with an empty stack this is the
property. That an earlier answer stays right while later calls read more files
needs one more fact: everything the answer depends on has been read (`Settled`),
and what has been read never changes. The lemma `DependenciesSettle` carries it.
The invariant speaks of `PathDependencies`, the property of `TakesIn`;
`DependenciesAreTakenIn` proves that they agree.

**The lookup.** `FactsOnly` is about a finished lookup. Between the passes it is
false of `out`: a ProgramData address stands where the authority belongs.
`LookupInv` says so precisely: a parked place (`IsParked`) holds an address that
an account of that id pointed at, and the rest of the pending list covers all
parked places, each once (`PendingInv`); every other place is `Unavailable` or
witnessed (`FactsInv`); places are in the order of the ids (`PlacesInv`); and
what the cluster holds is part of the history (`HistoryInv`). That the list of
the second pass covers exactly the parked places is where a missed entry would
leave a wrong key in a report. `HeardInv` adds, for a cluster that stands still,
that a place whose calls all went through is either final and right, or parked
with the address its account points at.

**The scan.** The counts of phase 1 add up to the place of the walk (`CountInv`),
and what is skipped or indexed has been passed and is never both (`PassedInv`);
the walk lists no file twice (`WalkInv`). A finding of phase 2 rests on up to three
readings; `HistoryInv` says that what the index and the cache hold was on the
disk once, `JudgingInv` and `HitsInv` that what is being judged, and the bodies it
is judged by, come from there. So the explanation of a finding exists when it is
made, and an explanation is never forgotten.

A scan of a tree that stands still is compared with `Findings`, which knows no
order and no readings. `QuietInv` says of each phase what it hands to the next:
the files and the test modules of those behind the loop (`QuietFiles`), the
index and the roots of the files that ship (`QuietBooks`), what is being
judged and by which bodies (`QuietJudging`); and that the findings so far are
those of the rules for the files behind the loop and the structs behind the one in
hand (`QuietFindings`). The step that matters is `Judge`: what the facts of phase 1
select are the functions whose bodies the reference looks at (`HitsAreUses`,
`VerdictIsExact`).

**The resolver.** The verdict of every answer is what the cache of manifests holds
of its root, and that cache never changes an entry (`VerdictInv`); two answers with
one root therefore agree. On a tree that stands still the caches hold what is
there, a climb has passed nothing that it looks for (`OnItsWay`), and the nearest
manifest above where it stands is the nearest above where it started.

**The marks.** `IInv` says of each stage what it passes on: ids are declared by the
file they carry, each address once (`IdsInv`); a deployment answers its id
(`Answered`); the live programs are the live deployments, each traced once
(`TracedInv`); and the marks of a finding are the addresses of the programs behind
the loop that it is part of (`MarkedInv`). That an address is collected once is
what makes marks distinct, and what makes the two theorems stop at crates that
share an address.

**The rules.** Most of the work is in facts about the pure definitions, for every
struct and every body: what a rule decides with its searches is what the reference
defines. A body is an event list of any length, so "the nearest binding
before the call" and "the binding whose block is still open" are compared by the
greatest and the least position with a property, which exist because the order of
the natural numbers is well-founded. `PassInv` then says that what has been found
is what the visits so far decide, about the structs that have been collected
(`FoundInv`), and that at the end every visit is over. For the other direction of
VL002, `ToldApart` makes each candidate receiver a name of the one account, so
what is heard for a candidate would be a proof that the reference hears too.

**The marker.** Brackets are counted twice, upwards by the walk and downwards by
the reference, and the walk's count stops at zero where the other may not. For a
line that keeps its brackets to itself or continues an attribute the two agree:
what the walk has open above a line is what the line leaves open (`DepthIsHeight`).
`WalkInv` carries this from line to line: the walk has passed lines of the block
only, none of which marks.

**The test code.** `ScopeInv` says that the set is complete before the first file is
checked (`Targets`), and that what is kept is the code of the files behind the loop
that are no tests. What is left is to compare two ways through a tree. `rustc`'s is
followed from file to file (`ModulesWithin`: what holds of the files it begins with
and goes on to their modules holds of all it comes to). In a build without `test` it
never comes to a place where a module that does not ship is looked for
(`AtTestPlace`): a place above the new file is above the file that declares it, or is
one that `ModulesApart` excludes (`PlaceInherited`). All that the code marks is at
such a place (`TargetsAtTestPlaces`), because a predicate that the recogniser accepts
is false without `test` (`BareTestNeedsTest`). From a module of tests it comes to
silent files only (`TestModulesAreTests`): `NAME.rs` has its modules in `NAME/`,
`NAME/mod.rs` is in it, and all below `NAME/` is marked. The nearest manifest is the
same for a file and its modules (`CrateInherited`), so `tests/` and `benches/` neither
begin nor end on the way.

**The process.** `FoundInv` says that up to the sort the report has exactly the
findings of the files behind the loop; so the maximum that the status is made of
is the maximum of the tree. The last item of each document ends a line, and what
ends a line leaves the buffer with all that is before it (`OutputInv`): with the
document written nothing is left for the exit to lose.

What a report tells needs more than the set of findings, for each must be told as
often as it was found. `CountInv` keeps a one-to-one correspondence between the
list and the places where findings stand in the files (`Lists`), which appending a
file extends and the sort permutes; `SkipInv` does the same for the skipped files,
and `FinishInv` says what the sort, the lookup and the marks leave. A document is
then taken apart: what is in front of its findings and behind them (`Part`) tells no
finding, and each item tells what is so (`Truthful`).

**The ids.** The code multiplies and adds digit by digit. `Carries` and `InPlace`
agree with multiplying the number because, after each digit, the digits in place
and the carry together write the number so far (`TimesPlusWrites`); so a conversion
keeps the number and the zeros in front (`ConvertedKeeps`). These two decide the
digits (`SameDigits`): numbers of one length differ in the first digit in which
their digits differ, and more digits without a zero in front write more. Hence a
text is taken for an address exactly if it spells one (`AddressSpelled`), and is
written back as it was; that no such text is cut off by the bound on its length is
what `LengthAssumption` states of the constants, as 44 is for 32 bytes. `IdsInv`
then follows the loop over files and items.

**The guard.** `DepthIsExact` is about texts of any length: in a text made of tokens
whose brackets are balanced, the scan comes to the depth of the bracket tokens. The
scan is followed token by token (`TokenScanned`): where a token begins (`LaidOut`),
the scan stands there, with the brackets that are open in front of the token
(`Height`) and the highest number so far (`Peak`); a bracket is one turn, and any
other token is passed without a count. That is one lemma for each kind of token:
`StringIsSkipped`, by what a backslash hides in an escaped string
(`EscapedIsSkipped`) and the hashes behind a quotation mark in a raw one
(`RawIsSkipped`); `BlockIsSkipped`, by the number of comments that are open;
`CharacterPasses`, `LifetimePasses`, `LinePasses`, `WordPasses`. What a loop comes to
in its turns is `ComesTo`; each turn moves on, so as many turns as the text has
characters are enough, and more change nothing (`LastTurn`). A file then gets past the
guard and the parser exactly if it is well formed (`ParsesWellFormed`), no file
overflows the stack (`SignalInv`), and the skipped files are the others (`SkipInv`).

Recursive functions are reasoned about by the numbers below: a set of numbers that
holds a number whenever it holds all smaller ones holds all of them (`UpTo`), for
else there is a least one missing (`LeastNumber`). A function of predicates is what
its equation says because values for the predicates of a set that has their parts agree
with those for another (`ValuesAgree`), and a least predicate without a value would get
one (`ValuesExist`).

The assumptions are those declared with the constants: a manifest leads to
manifests, `None` is no manifest and no address, a program and its ProgramData
account have different addresses, nobody has deployed anything at `Junk`, the
order of a walk lists every file, `None` is no workspace root of the scan, contents and inputs are
of their types, an attribute goes on where a line leaves it open (`LineAssumption`), predicates are
finite, so that going from a predicate to its parts ends (`PredicateAssumption`),
the limit of the guard is not above the parser's, an address has a byte, and the
longest text of an address is not too long.

**Only model-checked**: liveness (`CallReturns`, `Returns`, `Terminates`,
`ResolveReturns`, `Ends`), which needs `ENABLED` and fairness. Every invariant and
every action property of the passing runs is a theorem.

## 5. What is abstracted or left out

- Text. Paths, names and messages are model values; a text is characters only in
  `Nesting` and digits only in `Base58`. The parser is external: a file is what
  it and the recognisers of syntax make of it.
- A document is a list of items that name what they tell, and what of them ends a
  line. Wording, colour, and the percent-encoding of SARIF's paths are left out,
  and so are usage errors, which the library `clap` answers.
- `rustc`, Cargo and Anchor are external. `package.workspace`, `exclude` and the
  tables of a manifest are modelled as the code reads them; the one comparison
  with Cargo is the violation run. What Anchor accepts is the reference of VL001
  and VL004 and is modelled as far as their constraints go.
- `detect` and `anchor_version` read one manifest once for the report's header.
- `classify_program_data` takes any 45 bytes for a ProgramData account. The loader's
  programs point at their ProgramData account or, once it is closed, at nothing, so
  `ClassifyData` answers for other kinds as for accounts that are too short.
- A function has at most one `Context` parameter, as Anchor wants it of an
  instruction; the code takes the first.
- Of the bodies VL002 and VL005 read: what makes a text an owner check or a
  verification signal is a mark on an event; nested functions are not entered.
- Of VL003's writes: the operator of the assignment or the outermost one to the
  right. Arithmetic below a division or in parentheses is not seen by the rule,
  and is "call" here. Test code in an `impl` or a method is not passed over;
  `ArithmeticVerdicts` says so.
- In `Scan` findings are a set; their order is in `Main`.

## 6. Plan

Done: every component in section 1, the renderers as far as what they tell and
when; the proofs of section 4.

Left, in this order:

1. Runs for the two disagreements that section 3 has no run for.
2. Character literals with longer escapes and raw identifiers in the grammar of
   `Nesting`.
