# srclog in TLA+

Specifications of [srclog](../src): log templates are extracted from source,
matched against runtime lines, mined from what does not match, and kept in an
append-only catalog. The TLA+ here is about the parts with state that outlives
a line (the promotion gate and its catalog, the miner, the catalog file, the
enum tracker), the reading of lines, the two pure parts everything rests on (the
matcher with its cascade, and the columnar round trip), the scanners that make
templates from source, and the loop that mining and promotion form.

    tlc -workers 2 -config MCCatalog.cfg MCCatalog     one run
    tlapm CatalogProofs.tla                            the proofs of one module

## The system

    source ──extract, errors──▶ manifests ──promote──▶ catalog (aliases)
    lines nothing matched ──mine──▶ candidates ──┘        │
    log line ──────────────────────match / Resolve────────┴─▶ node tree ──▶ column, enums

Everything is sequential inside one process: there is no goroutine in the
module. What is hard comes from elsewhere: histories of calls on a catalog that
may never forget, caches kept in step by hand (the gate's matcher, its ID map),
caps that change what later lines do, in-place generalisation, input that
arrives in pieces, several processes or a kill around one file, and scanners
that guess what a compiler and a run time would do.

| component | state | operations | interacts with | what makes it correct |
|---|---|---|---|---|
| template model (`template.go`) | none; a template is (level, text, lib) with ID = hash(level, text) | `templateID`, `regexFor`, `normalizeFormat` | all | one text, one pattern; a line matches iff literals and stretches line up |
| matcher (`match.go`) | exact map, per-first-word lists, rest list, both in specificity order | `NewMatcher`, `Match` | gate, cascade, CLI | the most specific live match; the index hides none; superseded entries never answer |
| cascade (`cascade.go`) | none | `Resolve`, `node` | two matchers, column, enums | lossless nodes; bounded depth |
| promotion gate (`catalog.go`) | catalog (templates, aliases); in a call `byID`, a matcher and its `dirty` flag | `Promote` | matcher, miner's candidates, scans | append-only; references resolve in one hop; nothing covered gets in; idempotent |
| miner (`mine.go`) | clusters by bucket, counters | `Add`, `Candidates` | CLI, gate | least generalisation; no line lost unaccounted; caps |
| catalog file (`cmd/srclog`: `runPromote`, `writeJSON`) | the file, a temporary file | load, gate, write, rename | other processes, the operating system | never damaged, never shrinks |
| enum tracker (`enums.go`) | per (template, slot): seen, values, saturated | `Observe`, `Enums` | node trees | exact within bounded memory |
| column (`column.go`) | block table, code and leaf streams | `BuildColumn`, `Rows`, `WriteTo`, `ReadColumn` | node trees | round trip |
| `readLine`, streaming commands | a buffered reader, the line so far | one line at a time | matcher, miner, tracker | bounded lines, none lost, split or joined; none waits |
| scanners (`extract.go`, `errors.go`, `rust.go`) | templates by level and text, counters | walk sources, emit manifests | gate, dictionaries | a template explains what its call prints; no call missed or counted twice |

`PROJECT.json` lists every component with what is modelled of it, and every
hazard with its line and the properties that would show it going wrong.

## Modules

    Templates ─ Matcher ─┬─ MatchScan ── MatchProofs
               │         └─ Gate ─┬─ CatalogFile ── CatalogFileProofs
               │                  └─ Catalog ── Pipeline ── CatalogProofs
               │                       :           :             :
               │                  References     Miner ──── MinerProofs
               └─ TemplateTheorems (in MatchProofs, CatalogFileProofs, CatalogProofs, ScanProofs)
    Templates ─ Cascade ─ Column ── ColumnProofs
    EnumTracker ────────────────┬─ StreamProofs
    InputLine ─┬─ LineReader ───┘
               │      :
               └─ LineFeed
    Templates ─ Formats ─┬─ GoCalls ────┬─ Scan ── ScanProofs
                         └─ RustSource ─┘

Lines are EXTENDS, dots INSTANCE: Catalog implements References, LineReader
implements LineFeed, and Pipeline composes Catalog with an instance of Miner.

**Templates** (pure operators). A text is a sequence of characters, `<*>` one
symbol of it. `Matches` says what the anchored pattern of `regexFor` accepts,
by an alignment of the template's symbols with the line; `Covers` is the notion of
one template subsuming another that the gate's test is judged by; `IsZeroLiteral`,
`LiteralLen`, `FirstField` and `FirstLiteralToken` are the functions of those
names. Alphabets are constants.

**Matcher** (pure operators). What `NewMatcher` keeps of a manifest (`Live`,
`Exact`, `ByTok`, `Rest`), what it refuses (`Accepted`: text that says nothing,
a pattern too large to compile), the order of the lists (`Before`) and the
answer of `Match` (`Best`). A matcher is represented by the positions it was
built from, because no code writes through a template pointer.

**MatchScan** (state machine). The loop of `Match`: exact map, then the merge
of the two sorted lists with indices `i` and `j`. It is the detailed version of
`Best`; `ScanFindsBest` is what allows the other modules to use `Best`.

**Gate** (pure operators). The decisions of `Promote` about one candidate:
`Subsuming`, `Supersedes`, and the two writes to the alias table. `Probe` is the
candidate's text with `Sentinel`, a string of ordinary characters, for every
placeholder, and the candidate is covered if `Match` answers it. That is the code's
test, not coverage: a literal of an entry may match inside the sentinel. `Opaque`
says of which texts this cannot happen: none of their literals is the sentinel's
first or last character (NUL), and no stretch between two of their placeholders
occurs in it.

**Catalog** (state machine). `Promote`. `Begin` is the head of a call (index and
first matcher), `Refuse` its error, `Return` its end. Each candidate is one
action, by the branch it takes: `SkipUnusable`, `SkipKnown`, `RebuildFails`,
`Admit`, `Supersede`, `Alias`. `byID`, `matcher` and `dirty` are the local
variables of those names. `offered` is history. A call that fails ends the
behaviour, as it ends the program.

**References** (abstract state machine). What the catalog promises whoever keeps a
template ID, without texts, gate or caches: a table of entries, and the entry each
accepted ID resolves to. `Enter` adds an entry, `Join` makes an ID stand for one,
`TakeOver` replaces a provisional (mined) entry by a final one. Catalog maps its
templates to `entries` and one hop through `aliases` to `resolves`; `Admit` is
`Enter`, `Alias` is `Join`, `Supersede` is `TakeOver`, everything else stutters.

**CatalogFile** (state machine, several processes). `runPromote`: `Load`, one
`GateCandidate` per candidate, `Fail` on a bad candidates file, then
`writeJSON` in the steps the operating system sees: `OpenTmp` (truncates),
`WriteTmp` (and close), `Rename`. `Kill` may come anywhere, with a torn file if
it comes while writing; `Rerun` starts the command again. Files are inodes, so
that a process keeps writing to a file renamed under it.

**Miner** (state machine). `Add` by outcome: `AddBlank`, `AddCluster`, `Merge`,
`Drop`; `Proposals`, what `Candidates` returns, is an operator on the state. Lines are sequences of words.
Every cluster carries, as history, the lines it took.

**Pipeline** (state machine, the composition of Miner and Catalog). One round is
`srclog mine` over a log, with `-t` or without (`against`), then `srclog promote`
on its candidates, most seen first. `MineLine` is a step of the miner's instance
on the words of a line the catalog does not explain, `Decided` a step of the
gate; the next round mines another log from nothing. To the miner a line is
words, to the catalog characters; `Spelled` is the line, and `SpelledTokens` what
`strings.Join` makes of a cluster, which forgets how many blanks there were.

**InputLine** (pure operators), **LineFeed** (abstract state machine), **LineReader**
(state machine). `Write` and `Close` are whoever writes the log. LineReader is
`readLine` call by call of `ReadSlice`: `Continue` is a full buffer without a
newline, `Delimited` a newline, `EndOfInput` the last piece, `ReadFails` any other
error; what `match`, `mine` and `enums` do with a line is `Use`. LineFeed has no
buffer: a complete line is handled in one step. `start` and `out` are history.
LineReader's specification has names of its own (`ReadSpec`, `ReadTypeOK`), as
StreamProofs extends it beside EnumTracker.

**Formats**, **GoCalls**, **RustSource** (pure operators), **Scan** (state machine).
Formats has `normalizeFormat` and `normalizeRustFormat`. GoCalls has `visitCall`
and `visitErrCall` over call expressions, with `stringTemplate` and `chainLevel`.
RustSource has `blankRust`, the macro search and `firstMessageLiteral` over
characters (an opening such as `info!(` is one). Scan is `extractManifest`: one
action per file (`SkipFile`, `Unreadable`, `Open`, `Close`) and per call (`PassBy`,
`CountDynamic`, `RecordCall`), into one table. Next to the code's operators stand
those it is compared with, marked external: what `fmt` prints for a format or for
operands, what `format_args!` prints, and a lexer that reads Rust one character at
a time. They are models of Go and Rust, not of srclog, and they are restricted to
what a compiler and `go vet` accept. All that reads a text from left to right does
so by `Stops`, the positions at which something starts when each thing ends where
a function says: the loops over `%` and braces, escapes, comments and strings are
such functions, and the model has no recursive operators.

**EnumTracker** (state machine). `Observe`'s recursion is a stack of frames;
`Leaf`, `Descend` and `Return` are its loop body and end, `Enums` an operator on
the state. `lines` is history: which trees were observed, how often.

**Cascade** (pure operators). `Captures` is what the lazy groups of a pattern
capture, the shortest first; `Cut` where a suffix template takes over, at the
start or after ": "; `LineMatch` and `DictMatch` the answers of the two matchers
with their order of specificity; `Param` and `Resolve` the tree of nodes, with the
depth cap and the blanks that `TrimLeft` cuts kept in the prefix. Lines are over
characters here, so that a line may spell `<*>` without having the symbol.

**Column** (state machine). `BuildColumn`: `ProfileBlock` is pass one with the
fold decisions; pass two is a stack machine for `encodeNode`, one action per row
(`EncodeMatched`, `EncodeUnmatched`) and per param (`EncodeNode`, `EncodeFolded`,
`EncodeLeaf`, `EncodeReturn`). `Transfer` is `WriteTo` and `ReadColumn`, which change
nothing but the form of the buckets. `Rows` is a second stack machine, for `render`,
reading the streams through a cursor; where the code returns an error no step is
possible, and `Fails` says when that is: the errors of `Rows` and `render` and the
only one of `ReadColumn` a written column could meet. `RowsReconstructed` demands
that none is ever due, and that the rows are the block's lines in the end. Template text is split again on reading (`Reread`), as
`strings.Split` does. `marks` is history: the stream lengths before every row.

`MC*.tla` give the constants their values. Operators commented "Defect" are
wrong variants of the definition after them, kept to show that the properties
depend on it; no specification uses them.

## Runs

Behaviours are bounded by constants, so `CHECK_DEADLOCK FALSE` where the bound, or
the end of the input, ends them; `CatalogFile` is unbounded in steps and is checked
for deadlock too.

All runs check safety, and `lines` liveness as well. It is the one place where the
code promises progress while something else runs: the log is written by another
process. LineReader assumes weak fairness of `Step`, the command's own steps and
nothing else: the commands are one goroutine in a loop without a timeout, which
runs whenever there are bytes to read and blocks only in `Read`. Nothing is assumed
of the writer, which may stop in the middle of a line; whatever is written gets to
the reader, which pipes and files do. The rest has no fairness: promote, scan and
the miner run to their end by themselves, and a process that is killed owes nothing.

| run | shows | bounds, and why they are enough |
|---|---|---|
| `match_scan` | one call of `Match` on every manifest of up to three of seven templates, every subset of them live, nine lines. `ScanFindsBest`, `IndexLosesNothing`, `MostSpecificWins` | two lists and the exact map meet pairwise in manifests of three; literal lengths tie across and within lists, keys have leading blanks and placeholders |
| `catalog` | histories of calls on five catalogs to begin with, split into batches at will. `AliasesResolve`, `GateSeesCatalog`, `OnlyMinedRetired`, `AliasKeepsShape`, `DecisionsRemembered`, `ImplementsReferences`, `NothingCoveredGetsIn` | four candidates: an alias chain of three, with a fourth to break it; texts that cover each other three deep, a text without literals, one that does not compile, and one with a literal inside the sentinel, shortened to NUL `a` NUL |
| `catalog_covers` | violation, see below | as `catalog` |
| `miner` | six lines in any order. `LeastGeneralisation`, `EveryLineAccounted`, `BucketsBounded`, `LeadingWordKept`, `CandidatesFrequent`, `OnlyGeneralises` | caps 2 per bucket and 3 in total for 64 and 4096: full buckets, forced merges, drops and the state past the total cap are all reached within six lines |
| `catalog_file` | one process, killed and rerun without bound. `DiskWhole`, `ReportedIsSaved`, `DiskOnlyGrows` | five candidates, of which one is superseded by another, one says nothing and one does not compile; three inodes are one per name and one open |
| `enums` | seven lines in any order, two templates, one nested in itself. `EnumsExact`, `TrackedBounded` | limit 2, repeat factor 2 (4 in the code), minimum 3: below, at and past saturation with lines left |
| `column` | every block of up to three of eleven lines, encoded and read back. `RowsReconstructed`, `StreamsInStep`, `NothingLeftToFold`, `CountsUses`, `NestingBounded` | depth cap 2 (4 in the code), one line goes past it; dictionary buckets from two leaves on (8 in the code); lines with an empty capture, a trimmed blank, a literal `<*>`, a slot that holds a leaf and a node, two slots of which one folds |
| `column_fold` | violation, see below | one template with brackets, three lines |
| `column_shared` | violation, see below | one text as line template and dictionary entry |
| `lines` | streams of up to seven bytes over a letter, `\r` and `\n`, written byte by byte, ended or broken off anywhere. `ReadTypeOK` (memory), `ImplementsFeed`, `EveryLineHandled` | buffer of 2, lines cut at 3 (64 KiB and 1 MiB in the code): lines end within, at and past a buffer and the cap, and what is cut off is longer than a buffer |
| `pipeline` | two rounds of up to three lines, mined and promoted. `CandidateLinesExplained`, `NothingUnlearned` | one cluster per bucket and one in total, minimum 1: a shape is split over two buckets that end with one text, clusters merge and lines are dropped; catalogs with a scanned entry wider or narrower than what is mined, or with a literal inside the sentinel (NUL `c` NUL) |
| `scan` | about 1400 Go calls alone, and pairs of files around broken and foreign ones; Rust macros with ten kinds of arguments before six formats, plain and raw, and with every escape `quotedString` knows; every Rust source of up to six characters over two alphabets. `EveryCallAccounted`, `LinesExplained`, `MacrosFound` | every verb shape and every kind of operand, empty values included; with six characters a comment or a raw string can open, almost close, close and be followed by a macro |

`GateSeesCatalog` is why `CatalogFile` may gate with the live entries at every
step. `EnumsExact` compares with counts taken over the observed trees without
walking them (`Occurs`), so it also checks that each leaf reaches its own slot.

`ImplementsReferences` and `ImplementsFeed` are refinements: the detailed module is
checked, and proved, to implement the abstract one, and what the abstract one says
(`References!Stable`) is proved of it once. `CandidateLinesExplained` is where the
miner's and the gate's properties meet: two candidates of one batch may have one
text, one may be aliased to another, and still every line counted is explained,
with the one exception the property names: a candidate aliased to an entry that is
not `Opaque` may have been misled by the sentinel (`Misled`), and the run has such
an entry.
The oracle of `LinesExplained` is the set of lines a call may print for any of
three values, of every logger the receiver may be, since `visitCall` knows only
its name; for Rust, the author's format of each macro.

### What does not hold

The runs ending in `violation` show the first and the last two; the others are
shown by configurations kept beside them, one property each:

    tlc -config MCCatalogSentinel.cfg MCCatalog        AliasedIsCovered
    tlc -config MCMinerCap.cfg MCMiner                 TotalCapped
    tlc -config MCCatalogFileRace.cfg MCCatalogFile    DiskOnlyGrows
    tlc -config MCEnumEmpties.cfg MCEnumTracker        ValuesRepeat

- **A narrower scan retires a wider mined entry** (`CanonicalCoversAlias`,
  `catalog.go:84`). The comment there says the scanned template is "the exact
  template a mined entry approximated"; the code only knows that the mined one
  covers it. After mined `<*>ab<*>` is retired for scanned `ab <*>`, lines like
  `cab x` match nothing, and the ID they were stored under resolves to a template
  that never matched them. What does hold is `AliasKeepsShape`: some entry of the
  catalog takes both for covered, and covers both if it is opaque.
- **An entry can match inside the sentinel** (`AliasedIsCovered`, `catalog.go:114`).
  The sentinel is the string `\x00srclog\x00`, which a pattern reads like any other
  text: the scanned `diff <*>c<*>` matches `diff \x00srclog\x00`, the probe of a
  mined `diff <*>`, by the `c` of `srclog`. The mined template is then aliased to an
  entry that does not match its lines, they stay unexplained, and since the ID is
  known it is skipped for good. `catalog.go:109` says `subsuming` "returns a catalog
  entry that already covers the candidate", and that the check is pragmatic. It takes an
  entry in which all that stands between two placeholders occurs in the sentinel,
  a single letter as a rule; for entries that are not like that the test is sound
  (`SubsumptionSound`).
- **Past the total cap clusters still grow** (`TotalCapped`, `mine.go:56`). The
  first word folds to the placeholder, but the bucket is still one per line
  length and is still filled: the bound is the cap plus a full bucket for every
  length, not the cap plus one bucket as `mine.go:37-39`, `decisions.md:231-234`
  and `mine_test.go:66` have it. What holds is `BucketsBounded`.
- **Two promotes lose entries** (`DiskOnlyGrows` with two processes,
  `main.go:359`). They load, gate and rename without a lock, and share one
  temporary file; "catalog versions only add entries" (the catalog design
  document) holds for one process at a time.
- **Empty captures count towards repetition** (`ValuesRepeat`, `enums.go:70`).
  Two values seen once each are an enum when six captures are empty;
  `decisions.md:349` says empty captures are meaningless and that values repeat.
- **A folded value can meet its surroundings** (`RowsReconstructed` in
  `column_fold`, `column.go:111`). The guard looks for `<*>` in the value alone: `*`
  folded into `ab<<*>>` gives `ab<*>`, and `Rows` asks for a parameter that was
  never written.
- **Two templates with one ID share a table entry** (`RowsReconstructed` in
  `column_shared`, `column.go:127`). IDs hash level and text; mined templates and
  harvested errors both have no level. The entry keeps the `Suffix` flag of its
  first use, so a prefix is read that nobody wrote, or one that was written is
  never read. In the `column` run no two templates share an ID.

Found while modelling, and left outside the properties' premises, which say so:

- The newline counts towards the cap (`main.go:402`): a line of exactly 1 MiB is
  flagged as truncated although nothing of it is lost, where `README.md:122` has
  "lines over 1MiB". LineFeed states it as the code has it.
- A mined template has single blanks, and a line with two, or with one in front, is
  never explained by its own candidate; it comes back in every round.
- `blankRust` knows no char literals (`rust.go:200`): after `'"'` everything up to
  the next quote counts as a string, and the macros in it are missed. Nested block
  comments end for it at the first `*/`. Of two macros with nothing between them,
  as in `info!(info!(`, the second is not found: the match before it has consumed
  the character that `rustMacroRe` asks for (`Apart` is the hypothesis, and the
  only one besides that the source lexes).
- `normalizeRustFormat` sets `{{` and `}}` aside as NUL and SOH (`rust.go:226`), and
  `quotedString` turns the escape `\0` into NUL: `info!("ab\0cd")` is recorded as
  `ab{cd` and does not match its line. `LinesExplained` leaves out messages that hold
  one of the two (`StandIn`); they are in the run and have to be recorded, with their level.
- `quotedString` takes every escape but `\n`, `\t`, `\r` and `\0` verbatim: `\u{e9}`
  becomes `u{e9}` and so `u<*>`, `\x41` becomes `x41`, and a `\` at the end of a line
  leaves the newline. Such templates match no line, and no run has one.
- Verbs are matched with the index before the width; `%*[1]d` stays literal.

## Proofs

TLAPS checks these for all values of the constants that satisfy the modules'
assumptions: any alphabet, texts, lines, candidates, caps and bounds. The runs
above check the same formulas on small instances first.

| theorem | states |
|---|---|
| `CatalogProofs!SubsumptionSound` | if the pattern of an opaque template takes another's probe, it matches every line the other matches, of any length |
| `CatalogProofs!CatalogTyped`, `OldReferencesResolve`, `GateNeverStale`, `ScannedNeverRetired`, `PromotionIdempotent`, `AliasesKeepShape` | the invariants `TypeOK`, `AliasesResolve`, `GateSeesCatalog`, `OnlyMinedRetired`, `DecisionsRemembered`, `AliasKeepsShape` |
| `CatalogProofs!AliasedLinesStayInOneShape` | for every alias some entry matches the probes of both its texts, and if that entry is opaque, every line, of any length, that either of them matches |
| `CatalogProofs!CoveredStaysOut` | the action property `NothingCoveredGetsIn` |
| `CatalogProofs!CatalogIsReferenceTable` | `ImplementsReferences`: Catalog implements References |
| `CatalogProofs!ReferencesStable` | whatever implements References, and so the catalog, only appends, forgets no ID, moves none off a final entry and never parts two IDs |
| `CatalogProofs!LoopLearns`, `LoopNeverUnlearns` | of Pipeline: `CandidateLinesExplained` and the action property `NothingUnlearned` |
| `CatalogFileProofs!CatalogFileTyped` | `TypeOK`, for any number of processes at once |
| `CatalogFileProofs!CatalogNeverTorn`, `ReportsAreSaved`, `CatalogOnlyGrows` | `DiskWhole`, `ReportedIsSaved` and the action property `DiskOnlyGrows`, if no two runs overlap |
| `TemplateTheorems!IndexSound`, `ExactIsEquality`, `LiteralsKept`, `MatchComplete` | what the first-word index, the exact map and the order rest on, and from it: if a live template matches, `Best` has one, and none that matches is more specific |
| `TemplateTheorems!MatchesPiecewise` | texts that match piece by piece match when joined |
| `MatchProofs!MatchTyped`, `MergeFindsBest`, `NothingLostByIndex`, `AnswerMostSpecific` | `TypeOK`, `ScanFindsBest`, `IndexLosesNothing`, `MostSpecificWins` |
| `MinerProofs!MinerTyped`, `ClustersLeastGeneral`, `CapsHold`, `LeadingWordSurvives` | `TypeOK`, `LeastGeneralisation`, `BucketsBounded`, `LeadingWordKept` |
| `MinerProofs!LinesAccounted`, `ProposalsFrequent` | `EveryLineAccounted`, `CandidatesFrequent` |
| `MinerProofs!ClustersOnlyGeneralise` | the action property `OnlyGeneralises` |
| `StreamProofs!EnumTyped`, `EnumBounded`, `EnumsAreExact` | `TypeOK`, `TrackedBounded`, `EnumsExact` |
| `ColumnProofs!ColumnTyped`, `CountsAreUses` | `TypeOK`, `CountsUses` |
| `ColumnProofs!BlockComesBack`, `StreamsStayInStep`, `NestingIsBounded` | `RowsReconstructed`, `StreamsInStep`, `NestingBounded`, if the texts in the table are read back as they were split (`ReadAsWritten`) and an ID comes with one `Suffix` flag (`OneFormPerID`) |
| `ColumnProofs!FoldedSlotsAreErased` | `NothingLeftToFold`, without hypotheses |
| `ColumnProofs!PlainBlocksComeBack` | `RowsReconstructed` from conditions on the constants alone: no line spells `<*>`, and no dictionary's template has the ID of a line's |
| `StreamProofs!ReaderTyped` | `ReadTypeOK`: never more than the cap of a line in memory |
| `StreamProofs!ReaderImplements` | `ImplementsFeed`: LineReader implements LineFeed, for any buffer size, cap and input |
| `ColumnProofs!CodesInTable` | every code in the streams is one of the table, so `ReadColumn` never refuses a column for its codes |
| `ScanProofs!CallsAccounted` | `EveryCallAccounted` |
| `ScanProofs!MacrosAreFound` | `MacrosFound` |
| `ScanProofs!FormatExplained` | the template `normalizeFormat` makes of a format matches all that fmt prints for it, if `verbRe` takes every verb fmt reads in it (`Recognised`) |
| `ScanProofs!GoLinesExplained` | every template recorded for a call of a Go file whose formats are such constants (`Vets`) explains all that the call may print, whatever the logger; so `LinesExplained` for trees without Rust files, and for every tree in scan-errors |
| `ScanProofs!SitesAreMacros` | of a source that lexes, in which no two macros touch, `blankRust` and `rustMacroRe` find the macros a lexer sees and no other: sources of any length over any characters |

**The catalog's invariant.** None of its properties is inductive alone. That
aliases resolve in one hop needs that the entry the gate finds is live, which
needs that its matcher is current (`GateSeesCatalog`); re-pointing keeps it so
only because no two entries share an ID (`UniqueIDs`), which needs `byID` to hold
all of them and the alias table to be consulted first. That an alias keeps to
one shape when it is re-pointed needs that the mined entry an alias leads to
takes the aliased text's probe (`MinedTargetsTake`): when a scanned template retires
it, it is the entry the two have in common (`ProbesKeepShape`). That an opaque entry
covers the texts, and not only their probes, is
`ExactWhenOpaque`: a probe begins and ends each sentinel with a character no
literal of an opaque text is, so in an alignment of the text with the probe a
literal inside a sentinel would have its whole stretch between two placeholders
there, which `Opaque` excludes; every sentinel is taken by a placeholder, so the
text covers the template the probe was made of, and covering composes
(`MatchesTransitive`). `IInv` is the conjunction; there is one lemma per action.
With it every action maps to one of References: `Known` shows that a new candidate's
ID is fresh there, and `AliasesResolve` that the entry a step joins stands.
`CoveredStaysOut` needs the matcher too: an entry is admitted when `Best` answers
nothing for it, or a mined entry, and `MatchComplete` turns that into a statement on
all live entries.

**The scan's invariant.** Between two tries the cursors say what was tried: `cand`
and `rest` hold what the index allows, in the order of `Sorted`, nothing before a
cursor matched, and what is left is no more specific than what was tried. The first
match is then one of `Best`: the earliest of the most specific in either list. That
`Sorted` has a value at all is shown, not assumed: a finite set has a least element
in the order, and so a sequence.

**The loop's invariant** (`LoopInv`) is the catalog's and the miner's, the second
through an instance of MinerProofs, and what joins them: every candidate that left
the batch is recorded, its ID leads to an entry that takes its probe, and the lines
promised so far are covered by live entries or led astray by one that is not opaque.
What is recorded stays covered, since a mined candidate never retires an entry
(`NoneRetired`). A cluster explains its lines word by word and the catalog matches
character by character; `MatchesPiecewise` leads from one to the other, because
`Spelled` and `SpelledTokens` are joins of pieces, and covering composes: the entry
covers the candidate, if it is opaque or the candidate itself, and the candidate the
line.

**The catalog file.** The type invariant holds for any number of processes. The
rest is of behaviours in which no two runs overlap (`OneAtATime`, a hypothesis of
the theorems): nothing in the code keeps them apart, and with two of them
`DiskOnlyGrows` fails (below). One at a time, the invariant is where the catalog
is at every step: the memory of a run extends what is on disk, the file it has open
is the temporary one, empty until it is written whole, and is not the catalog's
inode. Runs killed while writing leave a torn temporary file, which the next run
truncates.

**The reader's invariant.** `InHand` says what readLine holds between two calls of
ReadSlice: the bytes from `start` to `pos`, cut at the cap, without a newline among
them, and whether the cap was passed. Then extending it by a chunk is the same as
cutting the longer piece at once (`ExtendedIsKept`), so that a line is handled as
LineFeed handles it and a full buffer is a stutter.

**The miner's invariant.** `ClusterOK` says what every history leaves in a
cluster of a given bucket, and a lemma each that a new cluster has it and that a
merge keeps it (`MergedOK`). The total cap over named buckets needs that `total`
counts every cluster. That nothing of a named bucket is dropped needs that a
closest cluster exists whenever one agrees anywhere (`BestExists`), which is
shown from the least element of a set of naturals (`LeastNat`), itself an
instance of well-foundedness, not an induction. The counts need sums: `CountInv`
says that `seen` of the clusters and the dropped lines add up to `count`, and that
a cluster has been given no more than what was fed of the lines it took.

**Sums.** `SumFunctionOnSet` takes elements in an order of CHOOSE's and is a
recursive function, so TLAPS knows nothing of it. `SumsExist` and `SumsUnique` show
that a function with the sums of all subsets exists and is the only one, from the
smallest set that would be an exception (`SmallestSubset`); from then on a sum is
known by what removing, raising or zeroing an element does to it. The same way of
arguing, the smallest or the most specific exception, is used wherever one would
like an induction: along texts, along lists, and down the trees of nodes, which
EnumAssumption says are acyclic.

**The tracker's invariant.** `Exact` says there is a full record, for every slot and
value how often it was recorded, such that what is recorded and what the calls on
the stack have still to visit (`Pending`) make the total of the observed trees, and
that `slots` is what bounded memory keeps of that record (`Tracks`): the number of
leaves, whether there were more values than the limit, the values if not. A leaf
moves one from pending to recorded, a descent splits what is pending, `Observe` adds
a tree to both sides. When the stack is empty nothing is pending.

**The column's invariant.** That the entry whose code is written is the one whose
count grows needs that an ID has one entry (`TableOK`), and that a new entry has
no uses yet needs that no stream has a code beyond the table (`StreamsOK`).

**The round trip.** The encoder walks the node tree of a line and writes as it
goes; the reader sees only streams and has to be at the right place in each of
them. Three facts carry `BlockComesBack`. Every node of a line stands somewhere
in it: the line is what is before the node, its own text and what comes after
(`Stands`, `Placed`), which follows from what captures are and from how `Resolve`
cuts a param. `Charted` says what the encoder leaves behind: for each point it
passed, the stack it had and the lengths of the streams then, and from one point
to the next only what one step writes. `Aligned` says that the reader's cursor is
at one of these points, with the encoder's stack of that time; that the rows it
has finished are the lines before; and that the row under way is the line up to
there. `Way` is the conjunction of the two and inductive. `Fails` is then false,
since at every point what the reader asks for next is what the encoder wrote next,
and after the last point the rows are the lines.

The hypotheses are the negations of the last two findings above, and as weak as the
argument allows: `ReadAsWritten` and `OneFormPerID` are invariants a behaviour may
or may not have, stated of the table as it is. Both hold in every state of `column`,
which has a line that spells `<*>`; `column_fold` breaks only the first,
`column_shared` only the second, so neither follows from the other or can be left
out. `PlainBlocksComeBack` derives them from two conditions on the constants
(`PlainLines`, `IDsApart`); logs that spell the placeholder are left to
`BlockComesBack`. `Fails` is the error paths of the reader as a predicate; that it is
true in exactly the states of reading in which no step is possible was compared with
`ENABLED Next` in TLC on the three configurations, as the provers know no ENABLED.

**Nothing left to fold.** `NothingLeftToFold` speaks of streams, folding of nodes.
`FoldInv` joins them: there is a set of nodes that are done, all of their params being
settled (a node that is done too, a folded slot, or a leaf that its bucket holds); the
calls under way have settled what they passed; and the trees of the rows behind are
done. That a row has one tree is a lemma of its own (`OneRoot`): captures are unique,
and the order of specificity leaves one template. At the end of pass two every node of
the block is done, and nothing in a bucket came from elsewhere (`Sourced`). So if a
bucket has one value and no node shares its slot, every node of that ID had the same
leaf there, which is what pass one folds.

`Captures`, `Param`, `Reread` and `NodesIn` are recursive functions. That such a
definition has the value it describes is shown where it is needed by going up from
the smallest arguments (`RecursionUp` and the lemmas after it), not assumed.

**The scan's statistics.** `EveryCallAccounted` counts, and what is counted is not
in its variables: `Passed`, the calls the walk has gone past, is computed from the
tree. The invariant says that `stats.calls` is their number (`Counted`), that every
location in the table is one of them, stands there once and under its own key
(`Filed`), that none with a template is missing (`Complete`), and that dynamic calls
and locations add up (`Summed`). That two keys share no location is then a
consequence, as a location has one key.

**Macros.** `blankRust` jumps, the lexer reads character by character. `Agreed` says
that wherever a jump ends the lexer is reading code, and goes from one end to the
next: one lemma for each thing a jump may cover (a comment, a string, a raw string,
a single character), which says that the lexer is in that mode up to the last
character and in code after it. The lemma for raw strings needs that the lexer's count
of hashes and `RawEnd`'s are the same. So what is jumped over is no macro and what is
stopped at is one. Where jumps lead is shown from the last place that would be an
exception (`StopsInduction`). Proving this corrected the model of the lexer: an
identifier directly before a quote or a `#` is a prefix Rust rejects, and `_` is a
character of words, so such sources do not lex or contain other macros.

**Lines of Go calls.** `visitCall` works on the source, `LogLines` is what may be
printed. A format is read twice, by `verbRe` and by fmt; if the first takes every
verb that the second stops at, both stop at the same places (`SameStops`) and what
they put there matches piece by piece. What `stringTemplate` folds and what the
expression evaluates to are functions along the same expression (`ExprRecursion`,
from ExprAssumption: no expression is part of itself). Operands are pieces too: an
appended placeholder takes the operand with the blank that Sprint may put before it,
and the empty text when a logger keeps the operand as a field, so one template does
for both. `Vets` leaves out two kinds of calls: formats that are no constant, whose
verbs the scanner cannot see, and verbs `verbRe` does not take, such as `%*[1]d`
(above). Of the formats of the `scan` run every constant one is vetted; the other
calls with formats, and Rust's lines, are covered by the run only.

Assumptions are those in the modules (`CharAssumption`, `MatcherAssumption`,
`ManifestsAssumption`, `GateAssumption`, `CatalogAssumption`, `CatalogFileAssumption`,
`MinerAssumption`, `PipelineAssumption`, `EnumAssumption`, `CascadeAssumption`,
`ColumnAssumption`, `InputAssumption`, `ReaderAssumption`, `FormatAssumption`,
`ExprAssumption`, `ValueAssumption`, `RustAssumption`, `TreesAssumption`).
`Sentinel` is any string of characters but the empty one. Five say more than the
types of the constants: a catalog to begin with has no ID twice, which a scan's
manifest has not; there are finitely many different lines to mine and nodes to
observe, of any number, since a run reads finitely many; node trees are finite, which
the depth cap of `Resolve` sees to; no expression of a source is part of itself; and
the texts of Pipeline include all that mining
can make of its lines, so that no behaviour is lost to the set one chose.

Only model-checked: `EveryLineHandled`, which is liveness and out of this prover's
reach, and of `LinesExplained` what concerns Rust files and formats that are not
constant. What a Rust macro prints depends on what its author and the compiler see
in the source; the run states it item by item (`says`), for the arguments and formats
it lists, and no theorem relates the two in general. `TakesMatches`, that `Takes` is
`Matches` read off symbol by symbol, is proved in the direction the proofs need
(`MatchesTakes`) and evaluated in the other on small texts. The runs that expect a
violation have no theorem: they show that a claim is false.

## Not modelled

- Newlines in templates (lines have none), invalid UTF-8, and counters that are
  only printed.
- Collisions of the 48-bit template ID: IDs are the pair that is hashed.
- Null entries in a catalog file (`NewMatcher` refuses them); a nil candidate is
  skipped like one without text. Catalogs with an anchor are refused at once.
- A candidate whose pattern does not compile, in Pipeline: no log and no manifest
  can bring one (Catalog has it, since a caller of the library can).
- I/O errors of `writeJSON` other than the rename of a missing file, and power
  loss: nothing is synced, so what the file system keeps is its own affair.
- The order of `Candidates` and `Enums`, and of templates and locations in a
  scanned manifest, which are sorted for readers.
- Labels of a manifest that nothing decides on: `libGuess`, `moduleName`,
  `shortModule`, `recommendDicts`. A directory that cannot be read ends the scan.
- Parsing of Go: a file is its call expressions. Char literals and lifetimes in
  Rust code, as above, other than in a macro's arguments.
- The bytes of a serialised column, and `ReadColumn`'s errors on damaged ones.
- The alias tables of dictionaries, which `loadDicts` drops; none has one.
- The dictionaries' contents, the benchmark and the CI action.

## Plan

Next, in this order:

1. Column against an abstract specification (a sequence of lines that comes back).
2. A condition on constants weaker than `PlainLines`, which lets lines spell `<*>`
   where no value is folded.
3. `ReadColumn` on damaged payloads: every error is returned, none is a panic.
