# Verification of sealgraph

TLA+ models of sealgraph (`src/`), TLC runs that check them on small instances,
and TLAPS proofs of their main properties.

sealgraph keeps a graph of sealed work in `.sealgraph`. A *Seal* is an
immutable object: Material (content), a draft flag, and Provenance (a root, or
Cause Links to other Seals, and from format 7 on an *origin*: which bytes were
copied from where). A *REF* is a mutable name with a manifest (a head Seal and
scoped tags). A *Candidate* is the editable next head of a REF. Nothing about
the graph is stored: every command derives it from the REF heads.

## 1. The system

| Part | State | Operations | Hard behaviour | Module |
|---|---|---|---|---|
| Derived graph (`observation_v5.go`, `revision_graph.go`) | none; a function of the heads | nodes, cycles, activity, leaves, stale facts, frontier | a walk that stops early, a frontier that may be empty | `RevisionGraph` |
| Candidates, publication (`repository.go`, `candidate*.go`) | `index/`: one Candidate per REF | add, link, unlink, discard, seal | admission is judged in a graph that does not exist yet; every effect can be the last | `Repository` |
| Historical review (`historical_review*.go`) | an attachment of the Candidate | set, clear, reviewed seal | a record must bind the graph it was made for | `Repository` |
| Tags, moves (`tag_move.go`) | tags in manifests | tag, mv | names change under Candidates and bindings | `Repository` |
| Local sources (`source.go`) | `index/`: one path per REF | bind, rebind, unbind, add with a binding | two writes, not one | `Repository` |
| Drop, recovery (`repository/recovery.go`, `recovery/recovery.go`) | `logs/recovery`: one record per REF mutation | drop, inspect, recover | records compare states, not history | `Repository`, `GuardedWriter` |
| Writer guard (`writer_guard*.go`) | a flock | acquire by polling, release | process death, giving up | `GuardedWriter` |
| REF and tag store (`store/native`) | `refs/seals`, `locks/refs` | update, move, exact replacement | lock files, temporary files, partial expectations | `GuardedWriter` |
| Observation (`observation.go`) | none | list, capture, derive, re-read | no guard: concurrent writers | `Observation` |
| Creation (`init.go`, `load.go`, `native_snapshot_load.go`, `load_receipt_recovery.go`) | `.sealgraph` as a whole, staging directories, the load receipt | init, two loads, runtime bootstrap, load-receipt | no guard; racing creators, process death, power loss between rename and sync | `Creation` |
| Formats and migrations (`migrate_format6.go`, `migrate_format7.go`, `fsck.go`, `link_metadata.go`, `trace_author.go`) | `config`; the generation of each record | two migrations, metadata edits, trace set and clear, fsck | a command works with the format it found before it took the guard; a power loss can take a rename back | `Generations` |
| Inspection (`revision_graph.go`, `history.go`, `observation_inspect.go`, `trace_direction_graph.go`) | none | impact, log, linklog, observe, directions | memoized, truncated and budgeted searches that must say what they left out | `Inspection` |
| Trace algorithms (`tracecompare`, `traceestimate`, `trace_compare_estimate.go`, occurrences) | none | search, diff, projection, paging | offsets at borders | `Traces` |
| Trace readers (`trace_compare_own.go`, `trace_compare_prepare.go`, `trace_occurrences*.go`, `trace_source_binding.go`, `trace_correspondence.go`) | source bindings and declared correspondences | compare, occurrence pages, bind, declare | several unguarded reads that are rechecked; cursors presented later | `TraceSources`, `TraceReads` |
| Transfer (`format4extract`, `project_v5.go`, `load.go`, `load_receipt*.go`) | document, receipt | extract, project, load, recover a receipt | a source that changes under capture; Seals that collapse into one | `Projection`, `Transfer` |
| Object store (`store/native/object.go`) | `objects/` | write, read, list | unsynced directories | a set in `Repository` and `Generations` |

Every mutating command runs inside `withMutation`, which holds a flock on the
lock directory: writers exclude each other. Readers take no guard. A journaled
command (`seal`, `tag`, `mv`, `ref drop`) writes immutable objects, a PREPARED
record with the before and after manifests, then the manifests, then marks the
record COMMITTED; `seal` at last removes its Candidate. `recover` restores the
before manifests of a record whose after manifests still stand. A command
learns the format of the repository when it opens it, before the guard.

What makes each part correct:

- *graph*: stale labels miss nothing; stale work always has a frontier; the
  graph stays free of cycles;
- *publication*: a normal Seal never rests on a draft; its Causes are current
  leaves of the graph it creates, or a review of exactly that graph says why
  not; what is named can be read;
- *names*: a change of the namespace is whole, of one of four shapes, and on
  record before it happens; recovery is exact; a Candidate keeps its base;
- *writers*: a record tells what happened wherever the process died; nothing is
  left behind by errors; the guard is given back;
- *readers*: an answer is about a namespace that existed;
- *creation*: a repository appears whole or not at all, and what was reported
  stays;
- *formats*: an origin is true of its content and never lost to an edit; the
  format never falls; what commands of any age leave behind passes fsck;
- *inspection, traces*: an answer is exactly the facts its definition names, or
  says that it was cut;
- *trace readers*: what is shown together stood together;
- *transfer*: a document is of one moment, projection loses nothing unsaid, and
  what was loaded, and later is said to have been loaded, is true.

## 2. The modules

`RevisionGraph` holds the derived graph as operators on a set of heads. A Seal
is named by the hash of its bytes, so `Body` is a constant injective function,
and `Canonical` is what `NormalizeProvenance` accepts. `Reach(E, T)` is the least
set that contains `T` and is closed under `E`: one definition that TLC
evaluates and that proofs can use without recursion; it stands for the explicit
worklists of the code. `Graph(H)` is a table over all head sets so that TLC
builds each graph once. Being acyclic is "every set of nodes has a member with
no successor in it", which is what the depth-first search of `validateAcyclic`
decides on a finite graph.

`Repository` has one action per mutating command. Its variables are the object
store (`objects`), the manifests (`refs`), Candidates, source bindings and recovery
records (`journal`). Writers exclude each other, so a command is one step; but a
command can stop after any durable effect, so journaled commands take `stop`:
`Stopped` (objects only), `Prepared`, `Published`, `Committed`, `Done`. A Candidate
is represented by the Seal it would become, its review record included
(`review`, at most one): `Facts` is what a review must say in the graph the
Candidate would create, `Binds` the comparison that a reviewed publication makes
again. `Init` is an empty or a just loaded repository.

`RefNamespace` is the abstract specification of the names: four shapes of
change, each offered for recovery no later than it happens, and exact
restoration. `Repository` (one step per command) and `GuardedWriter` (one step
per file-system effect) both implement it.

`GuardedWriter` takes the journaled commands apart for several processes: flock,
plan, record file (torn until synced), lock files, expected-old check,
temporary file, rename, directory sync, unlock, commit, release. Each effect can
fail, which runs the deferred clean-up, or the process can die, which runs
nothing: the kernel drops its flock and the files stay. `LockFails` is any failure
of `acquireLock` (its directory, a file in the way, the open, the close), with any
of the lock files taken before it. An `os.Remove` that fails in the clean-up
itself is ignored by the code and left out. `SealPlans` and the other
plans abstract admission, which `Repository` models: here only the REF, the
manifest and the shape of the change matter.

`Observation` extends `RefNamespace` with one reader: list, capture, (derive),
list again, compare every manifest, answer. The namespace changes under it by
whole abstract changes, which `GuardedWriter` justifies: readers never see less
of a command than one rename. Directory listing is not atomic, so a REF whose
directory appears during the walk may be missed, and one that vanishes is an
error.

`Creation` has one action per step of init, universal load, native load, runtime
bootstrap and load-receipt. The directory `.sealgraph` and each staging directory is
a record: where it is from, the parts in it, the parts that are durable (`firm`),
whether it still dumps to its document (`exact`) and whether later commands left
files in it (`touched`). `settled` says whether its name is durable. A load that
fails before its rename keeps its staging directory, which blocks later loads
(`left`); init removes its own, and nothing reads one it leaves at its death. Any
error is `Abort` or `GiveUp`, any other command is `Edit`, `Die` stops one process, and
`PowerLoss` stops all of them and drops any of what was not synced. It starts from
an absent directory or a format-5 checkout, whose ignored runtime directories init
creates. `promised`, `recovered` and `inited` are history variables.

`Generations` follows one repository through formats 5, 6 and 7. `opened[p]` is the
format a process found when it opened the repository, which it keeps while
others migrate; every record has the generation (`gen`) of the codec that wrote
it, and `Decodable`, `Loads` and `Inspectable` say which format reads what. A
migration renames the config, holds the guard until its directory is synced,
reads the result back and answers; `firm` is the format a power loss falls back to.
`Fsck` classifies everything stored by its bytes. Seals carry a content, an
origin map and links with a note; drafts, attachments and revision assertions,
which no format treats specially, are left to `Repository`.

`Inspection` builds the graph of some heads and runs one query over it. log is a
relaxation with a queue and the direction summary a traversal under a budget,
both one visit at a time; impact, linklog and observe are functions of the
graph. `refs` has the head of each REF: the graph needs only the set, but the
direction summary queues a head for every REF and pays for it each time, shared
or not. Seals are numbers in the order of their names, so that "the first paths
of a sorted list" is an order statistic (`First`) and not a list. Where a queue
needs a sorted list (`Sorted`), each place takes the member with as many before it.

`Traces` has the pure algorithms on byte sequences: the order in which compare
tries offsets (sets of starts, each scanned from the left), the linear-space diff
(`Hirschberg`, a recursive function on texts), the projection of a run to ranges, declared correspondences, and pages of
occurrences. `TraceSources` has the world the trace commands read, and the
commands of others that change it; `TraceReads` extends it with one
`trace compare --ref --estimate` or one chain of `trace occurrences` pages, each
read a step of its own. `past` and `returned` are history variables: the worlds
there have been, and whether something came back to an earlier value. A
command that holds the guard is one step here; declaring a correspondence
validates before it takes the guard, in a step of its own.

`Projection` has the records of both formats and what `project_v5.go` makes of an
old history; a record is its own name. `Transfer` captures a source twice, REF
by REF while the old program works, projects and documents it, lets a document
be altered, loads and uses it, and runs load-receipt. The steps of a load and
their crashes are in `Creation`; here loading is one step.

load-receipt takes no guard, and is a step for each of its reads, with other
commands (`StoreBlob`, `ChangeName`) between any two. `task` is what it does (fsck, the
comparison with the receipt, the digest) and `part` where it is in that. fsck and
the digest capture the objects and then the REFs (`look`), capture both again and
compare; the comparison reads the mappings, the roles, the inventory, the list of
REFs, each head and each REF's tags. Objects are read in one step although the
code walks them file by file: they only grow, and both captures are compared. The
second opinion `observeHeads` and `revalidateHeads` give on the names inside fsck and
the digest is left out, and so are fsck's looks at Candidates; that only lets more
answers through. One call is followed: a failed one leaves nothing, and what
happens after the end of one is what happens before another. `instant` is a
history variable, the repository when the digest's first capture was complete;
`had` and `returned` are what each REF has had since the load, and whether one was
given back an earlier manifest.

Modules named `MC...` hold the constants of the runs, modules named `...Proofs` the
proofs. Operators marked "Mutant" are plausible wrong
versions of the definition that follows them; no specification uses them. Each
property of a passing run is violated when the mutant `PROJECT.json` names for it
takes the place of the definition.

## 3. The runs

| Run | What it asks | Bounds |
|---|---|---|
| `graph_and_publication` | `DraftClosed`, `FreshAtPublication`, `OnlyRecoverCloses`, `StaleHasFrontier`, `StaleIsComplete` | 2 REFs, 8 Seals (one with a review), 2 records; commands complete |
| `names_and_records` | `Resolvable`, `NamespaceSpec`, `OnlyRecoverStrands` | 2 REFs, 2 Seals, 1 tag, 2 paths, 2 records, all stopping points |
| `writer_steps` | `InspectionIsExact`, `ExpectationStable`, `NothingLeftBehind`, `NamespaceSpec` | 2 processes, 2 REFs, 2 Seals, 1 tag, 2 records, 1 crash |
| `writer_progress` | `GuardReleased` | 2 processes, 2 REFs, 1 Seal, 1 record, 1 crash |
| `reader` | `CoherentUnlessReturned`, `OneChangeIsSeen` | 2 REFs, 2 Seals, 1 tag, 3 changes |
| `creation` | `WholeOrAbsent`, `PromisedStays`, `InitLeavesOpenable` | 2 processes, 2 documents; errors, deaths and power losses without bound |
| `generations` | `OriginsHold`, `OriginNeverDropped`, `FsckAccepts`, `ReportedStays`, `ConfigNeverFalls` | 2 processes, 1 REF, 2 contents, 4 origin maps (3 of them refused), 1 note, 2 Seals, 1 power loss; process deaths without bound |
| `inspection` | `ImpactIsExact`, `HistoryIsExact`, `ReasonsAreExact`, `SummaryIsExact` | 6 Seals, 147 ways to link them, 8 assignments of heads to REFs (two with a shared head), 3 scopes, limits 1 and 2, 4 budgets |
| `traces` | `SearchIsExact`, `EstimateIsExact`, `PagesAreExact` | all texts of up to 4 bytes over two values, all runs in them, pages of 1 to 3 |
| `trace_reads` | `TypeOK`, `DeclaredWasObserved`, `ComparedIsCoherent`, `PagesAreCoherent` | 1 REF, 2 keys, 2 paths, 2 texts, 3 Candidates, 2 changes |
| `transfer` | `TypeOK`, `DocumentIsBound`, `MeaningIsKept`, `ExtractedLoads`, `LoadedIsExact`, `RecoveredIsTrue` | every history of 3 Seals with 2 contents, some of 4; 15 contents that read as records; 2 REFs; of document, receipt and repository 1 change, of a history of 2 Seals 3; of the source 3 |
| `mixed_baseline` | `DigestIsOfContent`, which the code violates | as `trace_reads` |

The eight Seals of the first run are two roots, a Seal with a revision assertion,
a draft with the opposite assertion (together they close a cycle; a normal one
would be inadmissible anyway), a normal Seal on that draft, one with two links (so
that unlinking has something to remove), the same with a review that retains
its Causes, and a draft on top of the second generation (the only way to be
transitively stale). Two records are enough for a second publication to
meet the effects of the first, and Recover adds to them for free. In
`names_and_records` the graph is of no interest; two Seals (a root and draft
work on it, which stays publishable) give before and after, and two records
give a retry after each partial failure. Two processes and one
crash in `writer_steps` cover a writer that meets whatever a dead one left in
any phase. Three changes in `reader` are one more than a there-and-back needs,
and the two in `trace_reads` are enough for one.

Two Seals in `generations` are a work and work on it, in any generations; one of
the four traces is true, the others differ in a byte, are too short, or have
runs that must be merged. The budgets of `inspection` lie below the closure of
every graph, within the closure of some, within the walks of others, and above
all of them. The texts of `traces` are all texts, so that the run occurs twice,
overlaps itself, moves, or is gone. In `transfer` three Seals give a parent
chain with an observer, and a fourth one an observer of two Seals that become
one. Contents that are records of a format are worlds of their own: a Material, a
Provenance with links and previous revisions and a Seal, each whole or with
something absent or of another role, and a Seal whose links close a cycle with
projected ones; so every case of the exception in `ExtractedLoads` occurs, and a
foreign Seal that loads does as well. Three changes while load-receipt runs
are a there-and-back of one REF and an edit of the receipt, or one command
more between its reads; histories of three Seals get one change, since what
they add (roles, mappings) does not depend on the order of reads. The two REFs
are alike, which the run uses as a symmetry.

`MaxOps`, `MaxRecords`, `MaxCrashes`, `MaxChanges`, `MaxSeals`, `MaxLosses` and `Stops` are
the bounds; all are constants that appear in guards. Deadlock checking is off
where the system stops by design: a reader or a query that has answered, a
transfer that has ended.

Fairness is assumed in one place: a process of `GuardedWriter` that has begun a
command keeps executing it (`WF_vars(Step(p))`). That is the scheduler's promise;
nothing makes a process start a command, wait for ever for the flock or die.
Acquiring the flock is part of `Step`, but the flock is polled without a queue, so
no property says that a waiting process ever gets it. A REF lock file that a dead
process left is never removed by the code; the model keeps it, and the commands it
refuses are part of `writer_progress`.

### Disagreements with the documentation

One has a run that TLC ends with a counterexample:

- `mixed_baseline`: trace compare reads the content and origin of the Candidate
  by one call and the digest by another (`trace_compare_own.go:231`, `:238`); an edit between
  the two makes it show the runs of one Candidate under the digest of another, as
  the recheck compares the second digest with itself. ADR 0035:163: the digest is
  that of the exact Candidate file.

The models have these too. No run stops at them; the property named is stated so
that it holds beside them.

- Recover derives no graph (`recovery.go:187`). Publish a Seal asserting a1 <- a2 on
  r1, drop r1, publish the opposite on r2, recover the drop: the graph has a cycle
  and no command that observes it works. requirements.md:175-176: the union MUST
  be acyclic. `OnlyRecoverCloses` says that nothing else does it.
- Inspection compares manifests only (`recovery.go:134`). Drop r1, recover it, drop
  it again: the record of the first drop is recoverable as well, and undoes the
  second. requirements.md:672-673: any intervening mutation rejects automatic
  recovery.
- A command that fails after Prepare leaves a PREPARED record; the retry makes its
  after state true, and the record of the failed command is recoverable.
  ADR 0018:56: failed operations do not create recoverable REF events.
- A process that dies between creating `.tmp-ref-*` and its rename (`ref.go:376`)
  leaves a namespace that cannot be listed until somebody removes the file.
  storage-format.md:35-37: temporary files are not canonical provenance.
  `NothingLeftBehind` is about every path but a death.
- A rename to a new name and back, timed between the two readings of a reader
  (`observation.go:63`), makes it answer with a namespace that never existed.
  requirements.md:192-194: a changed observation fails. `CoherentUnlessReturned` has
  the exception in its name.
- A universal load renames its staging directory; before it syncs the parent (it
  may die there), load-receipt emits the receipt (`load_receipt_recovery.go:83`); a
  power loss then takes the repository. storage-format.md:75-77: parent-directory
  sync precedes successful receipt delivery. `PromisedStays` is about what a load
  itself reports.
- A command that opened the repository before a migration and waited for the
  guard writes Candidates of the older generation after it. ADR 0030:224-225: new
  format-6 Candidates are always v6. `OriginsHold`, `OriginNeverDropped` and
  `FsckAccepts` show that nothing is lost or refused by it.
- trace compare reads the selected head before it observes the heads
  (`trace_compare_prepare.go:110`), so that a head restored in between is missing from
  the selection and present in the list beside it.

## 4. The proofs

| Module | Assumptions | What is proved |
|---|---|---|
| `RepositoryProofs` | `BodyAssumption`: a Seal name determines a canonical body, and conversely (the hash has no collision); `RepositoryAssumption` (`None` is no value, a review's Seal without it is a Seal of the universe); `InitialAssumption` (the starting graph is acyclic and draft-closed) | `StaleFactsAreComplete` and `FrontierExists` of the graph; every property of `graph_and_publication` and `names_and_records`, and `TypeOK` |
| `GuardedWriterProofs` | those that `GuardedWriter` states of its constants | every property of `writer_steps`, `TypeOK` and `CommittedIsApplied` |
| `ObservationProofs` | those of `Observation` and `RefNamespace` | every property of `reader` and `ObservationTypeOK` |
| `InspectionProofs` | `StoredAssumption`: of any set of Seals one names none of the set (a Seal is named by the hash of bytes that hold those names), Seals are positive, and finitely many numbered REFs have heads; for `Traces` its `TextsAssumption` (texts are sequences of bytes, page limits positive) | every property of `inspection`; `SearchIsExact` and `PagesAreExact` of `traces` |
| `CreationProofs` | `NoneAssumption` | every property of `creation`, `TypeOK` and `NeverReplaced` |
| `GenerationsProofs` | `GenerationsAssumption` | every property of `generations`, and `TypeOK` |
| `TraceReadsProofs` | `SourcesAssumption`, `ReadsAssumption` (a Candidate and the Seal it becomes have one trace; a cursor is not `None`) | every property of `trace_reads` |
| `TransferProofs` | `WorldsAssumption` (a payload names only earlier ones, and what is stored lacks nothing); for `LoadsAreExact` also `NoneIsNoManifest` | every property of `transfer` but `ExtractedLoads`, and `ClosureIsExact` |

The theorems hold for every value of the constants that satisfies these: any
number of processes, REFs, Seals, records, changes, deaths. Most type invariants
are only proved; those of `TraceReads` and `Transfer`, where the types say something
about the data, are also checked by their runs.

`RepositoryProofs` begins with what the operators of `RevisionGraph` do. From "`Reach` is the
least closed set" follow the closure of nodes, monotonicity, and that fewer
heads cannot close a cycle. `StaleFactsAreComplete` shows that stopping the walk at
the first stale Seal loses nothing: if no label applies, the leaves reached
contain the Causes and are closed under Causes, so they contain the closure.
`FrontierExists` takes the stale heads and what rests on them: acyclicity gives a
member without a successor in that set, which is a frontier head.

Its first invariant, `TypeOK`, is inductive. `Resolvable` is inductive with it: it is
already the conjunction of four parts because neither "REFs resolve" nor "records
resolve" is inductive alone (Recover moves a name from a record to a REF, `seal`
from a Candidate to both). A Candidate's own links resolve because validation
loaded its prospective graph and that graph has no self edge. `DraftClosed` is
inductive with `TypeOK`, since only admission adds objects. The action properties
follow from `TypeOK`: after a publication the heads are exactly the prospective
heads validation used (`PublishedHeads`), and every other command installs no
new head (`FewerHeadsBuild`). `ImplementsNamespace` proves the refinement:
`JournaledIsChange` maps every journaled step to an abstract change or none, and
inspection gives Recover the exact after state that `Restore` demands.

`GuardedWriterProofs`: that one process is inside the guard (`GuardIsHeld`) is
the shape of the invariant; the rest says, phase by phase, what that process
knows (`Knows`): its record is the last one and holds its change (`RecordFits`), the
change has taken effect exactly in the late phases (`EffectFits`), the plan has one
of the four shapes (`PlanFits`), the state it was made from stands until it is
published (`Stable`), and what inspection would say of its record is true
(`Exact`); `FilesAreOwned` says whose the lock and temporary files are. None of these
is inductive alone: `Stable` needs that nobody else is inside, `Exact` needs
`Stable` and `EffectFits`. A step is either quiet, an acquisition, a death or the
work of the one inside, and each part is preserved by all four. The refinement
follows: only `Publish` and the restoring step change the namespace, and `PlanFits`
and `Stable` make it an abstract change.

`ObservationProofs` names its witness: the namespace of the moment between the two
passes. `BeforeMiddle` says that what was captured stood at some moment
before; `AfterMiddle` that, unless something came back, some past namespace agrees
with every value that was compared again. `OneChangeIsSeen` needs no more than that
one change cannot come back (`HistoryFits`).

`InspectionProofs`. The code memoizes, for each Seal, a list of paths bounded by
the limit and merges the lists of the Causes; the model has the recursion, the
properties speak of all paths. Three groups of lemmas lead from one to the other.
Orders: `Lexical` and `Before` are total on paths (`PathsAreOrdered`), the first n of
the first m are the first n, the first n of a union are those of the parts' first
n (`FirstOfMerged`), and a common head changes no order (`FirstUnderPrefix`). Walks: an
acyclic finite graph has finitely many paths and no return (`AlongIsFinite`,
`NoReturn`), so a recursion along it has one solution (`AlongOne`, `StopsUnfold`), and
what is reachable is what a path ends in (`ReachIsPaths`, `PathsReach`). Then, by least
counterexample over the graph, the bounded list of a Seal is the first paths of
all its paths (`ImpactPathsAre`, `FirstStalePathsAre`), and one path more than is shown is
enough to tell truncation (`FirstTells`).

The invariants are `Built` (the graph is the closure of the heads; a cycle would
have been refused) with, for each query, that its answer is what a function of
the graph says (`ImpactAnswers`, `ObserveAnswers`). log is not a function but a
relaxation that may lower a Seal's depth after visiting it, and `HistoryAnswers`
has its invariant `Walking`: each depth is the length of a walk from the head, and
a neighbour of a Seal that is not queued is at most one deeper. With an empty
queue, induction along a walk makes the depths the shortest lengths.

The direction summary of trace compare is three searches on one budget, and
`SummaryAnswers` has the invariant of each phase (`Trailing`). The closure visits a Seal
once for every time it is named, so its invariant (`Closing`) counts: the visits
made and the entries still queued are together one for each REF and one for each
name the Seals already in the closure give, and a Seal named by one of these is in it or queued.
The searches upwards and downwards are one lemma group about a set in which
everything is found from a root in one way (`Rooted`): what was visited is what was
found without what is queued, and a visit was paid for each (`Searching`). That Cause
paths from a Seal, and those to it within the closure, are such sets
(`OnwardIsRooted`, `BackwardIsRooted`) needs the acyclic graph: only then does the check
for Seals already on the path turn nothing away. A search whose queue is empty has
all paths (`SearchEnds`); one that is cut off has paid for fewer than there are
(`SearchIsShort`), which is why completeness and the budget say the same (`TrailEnds`).

`CreationProofs`: none of the properties is inductive alone, so `CreationInv` follows
one directory from its staging to its name: what each phase has built and synced
(`StageInv`), so that a rename can only publish something complete and durable; that
the target is complete in its durable parts and its name is durable once anybody was
told (`TargetInv`); that a command past its rename is the maker of the target
(`MakerInv`), which is why two cannot report; and that what a bootstrapping init
still has to create is on its list (`RuntimeInv`), which only works because a
directory made by another init is not an error. `NothingIsReplaced` is an action
property, from the same invariant.

`GenerationsProofs`: the three formats are ordered, what was reported at most what
survives, that at most what is there (`FormatsAreOrdered`), from which `ReportedStays`
and `ConfigNeverFalls` follow. `OriginsHold` is inductive only with `TracedIsNew`: a
record with an origin is of format 7, so a command that opened the repository
under an older format, which would edit the content without looking at the
origin, cannot decode it.

`FsckAccepts` needs that everything is whole and of a format there is: stored Seals
have their bytes and earlier Seals they link to (`SealsAreWhole`), Candidates have
theirs and a base that exists (`CandidatesAreWhole`), and nothing is of a later
format than the config, unless a power loss took the config back (`NothingIsLater`).
`BelowIsStored` follows a recursive function along a history of any length: a
least Seal for which it fails (`LeastMember`) cannot exist, as its Causes came
before it. `LeastMember` is the library's well-foundedness of the naturals with
the least number of a set for induction's step, which the provers can use.

`TraceReadsProofs` takes the instant between the two passes as its witness, like
`ObservationProofs`, with files and declarations beside the manifests. Before
it, each thing read stood at some moment (`ComparedWas`, `PageRead`); at it, some
past world agrees with everything compared again since, unless something came
back (`AfterMiddle`, `PageMiddle`). A chain of pages is one list cut in pieces
because a cursor carries its context (what was listed, in which bytes) and the last
number shown (`ChainInv`, with the concatenation of adjacent subsequences). A declaration on
record was observed although it is validated before the guard is taken
(`DraftWasObserved`): its key was bound to the path at one moment, the path had the
text at another. A theorem about an answer that is a list needs the list to be
one: `Listing` is therefore typed over a constant `Occurrence`, and an alternative
that the code decides in order is a chain of conditions, not overlapping cases.

The theorems about `Traces` are at the end of `InspectionProofs`, since they share
its lemmas on ordered lists; the names of `Traces` are chosen not to collide with
those of `Inspection`. For the search, `OrderIs` names the four or five sets of
starts, `AllAreTried` shows that every start is in one of them, and in one of the
first three if it is between the two points, and `SearchFinds` that what is reported
is from the first set with an occurrence. So a run is found when it is there; a text
that is the old one up to the end of the run has it at the first point
(`KeptBefore`), one that is the old one from its start on at the second (`KeptBehind`),
and what occurs between is reported from between. For the pages, the list of
starts is the only rising one (`OneRises`), so that what follows an occurrence is
the rest of that list (`OrderedTail`, `PageIs`); `CollectedIs` joins the pages of the
snapshot and of the current text, and the invariant `FollowedPages` says that what is
shown is a beginning of all there is, that more is announced exactly when there
is more, and that then something was shown, which the cursor can name.

`TransferProofs`: `Closure` and `OldToNew` are recursions along a history;
`ReachExists` and `ProjectionExists` show by least counterexample that the functions
they choose exist, so that they can be unfolded. `ClosureIsExact`: the closure is
the least closed set with the roots. `ProjectionKeepsLinks` and
`ProjectionKeepsParents` are about any closed set of Seals; `MeaningIsKept` is the
case of a document. The invariant follows the captures. `SourceInv`: what is
stored is closed, and every manifest a REF has it has had (`past`). `FirstInv`: each
manifest captured was one of those, and the objects captured after them are
closed and have all they name, so no extraction is incomplete. `MomentInv`: a
manifest captured that is not the one of the moment differs from the present one
for good, unless something is restored; so a second capture that agrees agrees
with the moment. It is inductive only with `FirstInv`: "for good" needs that the
captured manifest is one the REF had. `DocumentInv` keeps what was extracted until
it is altered, and that what was decoded holds together. `RepositoryInv` follows the
names of the loaded repository through its use.

`RecoveredIsTrue` is about reads at different moments, and no read of them all
is of the moment it speaks of. `UseInv` has what makes it true: no object is
taken away, and a REF that was given nothing back and is as it was loaded has
had that manifest only. `RecoverInv` follows the call. What was compared of the
objects lies between those of the load and those of now (`ObjectsCompared`); each
name compared was that of the REF once (`NamesCompared`), which says nothing of
two names together. A capture holds what was there at some time (`LookHolds`), and
once it is made again with the same result, its objects are those of `instant`
(`InstantHolds`), and the names of each REF read again that is as loaded were so
at `instant` and throughout, so every name compared was its (`AgainHolds`). The
digest at last says that the capture is the load: the objects compared lie between
equal bounds, and each REF is as loaded. Without the second capture, or for a REF
given something back, the last step has no ground. `NoneIsNoManifest` says that
no manifest is the value `None`, which the notation leaves open and the loaded
names' presence needs.

Only model-checked: `GuardReleased`, since liveness under fairness is beyond the
prover; `EstimateIsExact`, since that the diff is a longest common subsequence is an
induction over texts of any length; and `ExtractedLoads`, which says that five checks
agree about every extracted document. That one would need that records are
well-founded: a content of the old format can be a record of the new one, and that
the projected graph has no cycle in the sense of `HasCycle` then depends on how deep
contents contain each other. The induction theorems of the
library with an operator parameter cannot be used by the installed provers; the
proofs above use sets and `LeastMember` in their place, as long as the recursion is
along numbers or along a graph that is known to be acyclic.

## 5. Not modelled, and what is next

- Codecs, canonical forms byte by byte, JSON and text output, help and
  completion: presentation and encodings without state of their own. Where the
  code depends on which bytes read as which record (fsck, extraction, load),
  that is modelled.
- The path manifest and work file helpers: reading a file and a rename that
  does not replace are atomic steps of the models that use them.
- Durability of loose objects and of `logs/recovery`: the object is linked without
  syncing its directory, so a power loss can leave a durable REF that names
  nothing. Power losses are modelled in `Creation` and `Generations` only. A
  `Durability` module over `GuardedWriter` is next.
- Temporary files of Candidates, bindings and correspondences that a death
  leaves; those of manifests are in `GuardedWriter`.
- `trace compare --seal`, `trace read` and recipes; `TraceReads` has one REF, and the
  binding and lock checks of a drop are abstracted there.
- Native dumps as documents (their load is in `Creation`); warnings, and the
  order of lists in documents and receipts.
- The physical inventory of status and of `--scan`.

Next: the durability of objects; a theory of common subsequences, for the diff.
