-------------------------------- MODULE Scan --------------------------------
(***************************************************************************)
(* srclog scan and scan-errors (extract.go): the walk over a source tree,  *)
(* file after file and in a file call after call, into one table keyed by  *)
(* level and template.  Go files are visited by GoCalls, Rust files by     *)
(* RustSource, the latter for log calls only.                              *)
(*                                                                         *)
(* A Rust file is made of items, macro calls and others; a call begins     *)
(* with its macro.  The walk's order is that of the tree; a template's     *)
(* locations are kept in it, and the sorting at the end is left out, as    *)
(* are libGuess and the recommended dictionaries.                          *)
(***************************************************************************)
EXTENDS GoCalls, RustSource

CONSTANTS Trees   \* source trees: sequences of files

\* says is what a macro's author knows it formats: empty for other items.
Item == [src : Seq(Char), says : Seq([level : STRING, format : Text])]

\* A broken file cannot be read or parsed.
File == [kind : {"go"}, calls : Seq(Call)] \cup [kind : {"rust"}, items : Seq(Item)]
        \cup [kind : {"broken", "other"}]

ASSUME TreesAssumption == Trees \subseteq Seq(File)

VARIABLES tree, errors,   \* the tree, and is this scan-errors?
          file, site,     \* where the walk goes on; site = 0 between files
          byKey,          \* <<level, template>> -> locations
          stats           \* Stats: files, parse errors, calls, dynamic calls

vars == <<tree, errors, file, site, byKey, stats>>

Init ==
    /\ tree \in Trees /\ errors \in BOOLEAN
    /\ file = 1 /\ site = 0
    /\ byKey = [k \in {} |-> <<>>]
    /\ stats = [files |-> 0, parseErrors |-> 0, calls |-> 0, dynamic |-> 0]

Walking == file <= Len(tree) /\ UNCHANGED <<tree, errors>>

Current == tree[file]

Scanned(f) == f.kind = "go" \/ (f.kind = "rust" /\ ~errors)

Src(f) == FlattenSeq([i \in DOMAIN f.items |-> f.items[i].src])

\* The places of a file the walk stops at: call expressions, or macros.
Places(f) == IF f.kind = "go" THEN DOMAIN f.calls ELSE Sites(Src(f))

SkipFile ==
    /\ Walking /\ site = 0
    /\ ~Scanned(Current) /\ Current.kind # "broken"
    /\ file' = file + 1
    /\ UNCHANGED <<site, byKey, stats>>

Unreadable ==
    /\ Walking /\ site = 0
    /\ Current.kind = "broken"
    /\ stats' = [stats EXCEPT !.parseErrors = @ + 1]
    /\ file' = file + 1
    /\ UNCHANGED <<site, byKey>>

Open ==
    /\ Walking /\ site = 0
    /\ Scanned(Current)
    /\ stats' = [stats EXCEPT !.files = @ + 1]
    /\ site' = 1
    /\ UNCHANGED <<file, byKey>>

Ahead == {p \in Places(Current) : p >= site}

Here == Min(Ahead)

\* Is there a call at this place, with what level and what template?
IsCall(f, at) ==
    IF f.kind = "rust" THEN TRUE
    ELSE IF errors THEN IsErrCall(f.calls[at]) ELSE IsLogCall(f.calls[at])

CallLevel(f, at) ==
    IF f.kind = "rust" THEN SiteLevel(Src(f), at)
    ELSE IF errors THEN "" ELSE LogLevel(f.calls[at])

CallTemplate(f, at) ==
    IF f.kind = "rust" THEN RustTemplate(Src(f), at)
    ELSE IF errors THEN ErrTemplate(f.calls[at]) ELSE LogTemplate(f.calls[at])

Visit ==
    /\ Walking /\ site > 0 /\ Ahead # {}
    /\ site' = Here + 1
    /\ UNCHANGED file

PassBy ==
    /\ Visit
    /\ ~IsCall(Current, Here)
    /\ UNCHANGED <<byKey, stats>>

CountDynamic ==
    /\ Visit
    /\ IsCall(Current, Here) /\ CallTemplate(Current, Here) = <<>>
    /\ stats' = [stats EXCEPT !.calls = @ + 1, !.dynamic = @ + 1]
    /\ UNCHANGED byKey

\* Defect: a template that is known already keeps its first location only.
RecordFirst(key, location) ==
    byKey' = [k \in DOMAIN byKey \cup {key} |->
                IF k \in DOMAIN byKey THEN byKey[k] ELSE <<location>>]

\* recordAt
Record(key, location) ==
    byKey' = [k \in DOMAIN byKey \cup {key} |->
                IF k \notin DOMAIN byKey THEN <<location>>
                ELSE IF k = key THEN Append(byKey[k], location) ELSE byKey[k]]

RecordCall ==
    /\ Visit
    /\ IsCall(Current, Here) /\ CallTemplate(Current, Here) # <<>>
    /\ stats' = [stats EXCEPT !.calls = @ + 1]
    /\ Record(<<CallLevel(Current, Here), CallTemplate(Current, Here)[1]>>, <<file, Here>>)

Close ==
    /\ Walking /\ site > 0 /\ Ahead = {}
    /\ file' = file + 1 /\ site' = 0
    /\ UNCHANGED <<byKey, stats>>

Next == SkipFile \/ Unreadable \/ Open \/ PassBy \/ CountDynamic \/ RecordCall \/ Close

Spec == Init /\ [][Next]_vars
-----------------------------------------------------------------------------
Done == file > Len(tree)

(***************************************************************************)
(* The manifest is one the other commands accept, and its statistics add   *)
(* up: every call counted is dynamic or at exactly one location of one     *)
(* template, and no template is one NewMatcher refuses.                    *)
(***************************************************************************)
EveryCallAccounted ==
    /\ stats.calls = stats.dynamic +
                     Cardinality(UNION {{k} \X DOMAIN byKey[k] : k \in DOMAIN byKey})
    /\ \A k, l \in DOMAIN byKey :
          \A i \in DOMAIN byKey[k], j \in DOMAIN byKey[l] :
             byKey[k][i] = byKey[l][j] => k = l /\ i = j
    /\ \A k \in DOMAIN byKey : ~IsZeroLiteral(k[2])

(***************************************************************************)
(* A scanned template explains what its call prints, whatever logger the   *)
(* receiver turns out to be and whatever the values are: extract.go's      *)
(* "unspaced is correct for both cases", Println's blanks, a cause         *)
(* appended to an error, a Rust format among named arguments.  Of a Rust   *)
(* call with a literal message there is a template, with the call's level; *)
(* what it prints is explained unless the message holds one of the two     *)
(* characters that normalizeRustFormat sets braces aside with.             *)
(***************************************************************************)
Explains(location, level, lines) ==
    \A k \in DOMAIN byKey : location \in ToSet(byKey[k]) =>
        k[1] = level /\ \A line \in lines : Takes(k[2], line)

Offset(f, i) == Len(FlattenSeq([j \in 1..(i-1) |-> f.items[j].src])) + 1

GoExplained(f) ==
    \A at \in DOMAIN tree[f].calls :
        IsCall(tree[f], at) =>
            Explains(<<f, at>>, CallLevel(tree[f], at),
                     IF errors THEN ErrTexts(tree[f].calls[at])
                               ELSE LogLines(tree[f].calls[at]))

RustExplained(f) ==
    \A i \in DOMAIN tree[f].items : \A says \in ToSet(tree[f].items[i].says) :
        LET location == <<f, Offset(tree[f], i)>> IN
        /\ Explains(location, says.level,
                    IF ToSet(says.format) \cap StandIn # {} THEN {}
                    ELSE {FormatArgs(says.format, <<v.text, w.text>>) : v, w \in Value})
        /\ \/ IsZeroLiteral(NormalizedRust(says.format))
           \/ \E k \in DOMAIN byKey : location \in ToSet(byKey[k])

LinesExplained ==
    Done => \A f \in DOMAIN tree : Scanned(tree[f]) =>
               IF tree[f].kind = "go" THEN GoExplained(f) ELSE RustExplained(f)

(***************************************************************************)
(* Rust macros are found by jumping over comments and strings, without a   *)
(* lexer, and still they are exactly those a lexer sees: no example in a   *)
(* doc comment or a string is taken for a call, and no call is lost behind *)
(* a quote, a slash or a star that means something else.  Only of two      *)
(* macros with nothing in between the second is lost.                      *)
(***************************************************************************)
RustFiles == {f \in DOMAIN tree : tree[f].kind = "rust"}

MacrosFound ==
    (/\ Done /\ ~errors /\ RustFiles = DOMAIN tree
     /\ \A f \in DOMAIN tree : Lexes(Src(tree[f])) /\ Apart(Src(tree[f]))) =>
        stats.calls = Cardinality(UNION {{f} \X Macros(Src(tree[f])) : f \in DOMAIN tree})
=============================================================================
