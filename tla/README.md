# Verification of `rusty_url`

A TLA+ development of the crate in `src/`: an implementation of the WHATWG URL
standard whose `Url` type is a string (the *serialization*) and nine fields that
cut it into components. The models translate the code; TLC checks them on small
alphabets, and TLAPS proves, for every text and every sequence of calls, the
layout invariant of the setters, that the parser hands out nothing but values of
that layout, that splicing text and moving offsets implements setting components,
that a guard on a path or a query puts back what it took off, and that the IPv6
parser stays within its eight groups.

```
tlc -workers 2 -config OrdinaryCalls.cfg MCUrlApi
tlapm UrlSettersTheorems.tla
```

## 1. The system

| component | file | state | operations |
| --- | --- | --- | --- |
| `Url` and its accessors | `url.rs` | serialization, `scheme_end`, `username_end`, `host_start`, `host_end`, `host`, `port`, `path_start`, `query_start`, `fragment_start` | each accessor slices the serialization by offsets |
| setters | `url.rs` | the same | `set_scheme`, `set_username`, `set_password`, `set_host`, `set_ip_host`, `set_port`, `set_path`, `set_query`, `set_fragment` |
| parser | `parser.rs` | the serialization being built, the context, the base URL | `parse_url_full` and a function per parser state; setters call single ones |
| host parser | `host.rs` | eight groups and two pointers while it reads an IPv6 literal | `Host::parse`, `Host::parse_opaque`, `Display` |
| percent-encoding | `percent_encode.rs` | none | one encode set per component |
| `Url::parse`, `Url::join` | `url.rs` | none | parse a text, alone or against a base |
| `Position` | `position.rs` | none | sixteen places a range can start or end at |
| `Url::make_relative` | `url.rs` | none | the inverse of `join` |
| `PathSegmentsMut` | `path_segments.rs` | a borrowed `Url` without its query and fragment | `push`, `pop`, `extend`, `clear`; puts the rest back when dropped |
| `UrlQuery`, `Serializer` | `url.rs`, `form_urlencoded.rs` | a borrowed `Url` without its fragment | appends pairs; puts the rest back when finished or dropped |
| form encoding | `form_urlencoded.rs` | none | pairs to text and back |
| `Origin` | `origin.rs` | a process-wide counter | tuple or opaque origin |
| file paths | `file_path.rs` | none | conversions, per platform |
| `ParseOptions`, `parse_with_params` | `url.rs` | none | parse against a base; parse and append pairs |
| the rest | `error.rs`, `lib.rs`, `socket_addrs`, trait impls | none | |

Interaction: a setter parses its argument with one function of the parser (or
of the host parser), splices the text into the serialization, and moves every
offset behind the splice by the change of length. The parser writes new `Url`s;
`join` hands it a `Url` whose offsets it copies. Two guards borrow a `Url`, cut
off what follows the part they edit, and put it back in `drop`: between opening
and dropping, the string and its offsets disagree on purpose, and user code runs
(`extend`'s iterator), which may panic, or forget the guard. Nothing is
persisted, and apart from the origin counter nothing is shared between threads:
`&mut Url` makes every setter exclusive.

What is hard, therefore, is not concurrency but *long sequences of legal calls*:

- the invariant among string and offsets is spread over nine setters and the
  parser, is never checked at run time, and a wrong offset is noticed only by a
  later slice, which panics or returns another component's text;
- delimiters are shared (the `@` between username and password, the `:` of
  password and port, the `//` and `/.` in front of a path), so that whether a
  setter writes or drops one depends on what earlier calls left;
- some fields deliberately go stale (`set_host(None)` keeps `host`);
- a `Url` must parse back from its own serialization ("always-valid",
  `url.rs:1`), which setters have to preserve without re-parsing.

What makes each component correct:

- *setters*: offsets ordered and at their delimiters; credentials, host and
  port as the fields say; no panic; only the named component changes; the
  result parses back.
- *parser*: its output satisfies the layout setters assume; parsing its output
  changes nothing; dot segments are resolved; a relative reference keeps the
  authority, an absolute one ignores the base.
- *positions*: ordered, and in agreement with the accessors.
- *guards*: what was taken off is put back exactly once and where it belongs,
  whatever was edited; a pushed segment is read as one segment, an appended pair
  as one pair; a lost guard leaves no offset beyond the text (true of the query
  guard only).
- *IPv6*: the parser accepts exactly the literals that mean an address, stays in
  bounds and ends; what is written is read as the same address.
- *make_relative*: `join` undoes it; there is a result exactly within an origin.
- *origin*: a network URL has the host it unwraps; its text is of that origin.
- *file paths*: a path comes back from its URL; a directory's URL is a base.

`PROJECT.json` lists the hazards at their lines, with the properties aimed at each.

## 2. The modules

```
Lexemes                     alphabet, encode sets, scheme types, ports
  UrlRecord                 the Url value, slices, accessors, the layout
    UrlSetters              state machine: one action per setter
      UrlGuards             state machine: both guards, and setters between
    UrlParser               parser.rs and host.rs as functions
      UrlForm               form_urlencoded.rs
      UrlRelative           make_relative
      UrlOrigin             origin.rs
      UrlFilePath           file_path.rs for Unix
    UrlPosition             position.rs
      UrlNavigation         state machine: parse and join     (+ UrlParser)
        UrlConversions      + UrlRelative, UrlOrigin, UrlFilePath
  UrlComponents, UrlLists   abstract specifications
UrlApi     = UrlSetters + UrlParser + UrlPosition, refinement to UrlComponents
UrlEditing = UrlApi + UrlGuards + UrlForm, refinement to UrlLists
HostAddress                 state machine: the IPv6 parser
  HostMeaning               what a literal means
MCUrlApi, MCUrlGuards, MCUrlNavigation, MCUrlConversions, MCHostAddress
                            constants for TLC
UrlLayoutTheorems           lemmas about slices and edits
  UrlSettersProofs -> UrlSettersTheorems -> UrlGuardsTheorems
  UrlPartsTheorems          lemmas about components and positions
    UrlNavigationTheorems   the parser
    UrlComponentsTheorems   the refinement    (+ UrlSettersTheorems)
HostAddressTheorems         the IPv6 parser
```

**Lexemes.** A serialization is a sequence of *lexemes*, an offset counts
lexemes. A lexeme is a character the parser looks at (`:` `/` `%2e` ...), the
escape written for one, or a *word*, a run of letters that no rule tells apart.
The encode sets are the code's, restricted to these characters. Schemes, ports
and escapes have different lengths, so offsets move. `%2e` is the one escape
that stays meaningful to the parser (a dot segment); `v4` and `[v6]` stand for
address literals.

**UrlRecord.** The fields of `Url` by their names, 0-based offsets as in the
code, the accessors, and the layout: `HeadCut` and `TailCut` (offsets ordered
and at their delimiters) and `AuthorityIntact` (what stands between `scheme:`
and the path agrees with the fields). `WellFormed` is their conjunction.

**UrlSetters.** Variables `url` (the value) and `ret` (how the last call ended:
`Ok`, `Err`, or `Panic` when a slice is out of bounds). One action per setter
with a disjunct per early return; `With...` operators are the edits, written as
one splice and the shift of the offsets behind it; a setter that ends in another
(`set_scheme` stores the port again, `set_query(None)` strips spaces) does both
in one action. What the parsers write for an argument is a constant operator
(`UserinfoText`, `HostOf`, ...), and the `ASSUME`s state all the setters rely on
about it. Removing an IP address host is an action of its own
(`RemoveAddressHost`), so that both specifications can be studied:
`OrdinarySpec` without it, `Spec` with it.

**UrlParser.** Each parser function as an operator that takes the buffer and the
input and returns the new buffer and the rest, down to segment-wise path parsing
with dot segments, drive letters and the popping of segments. `Try` is Rust's
`?`: an error ends the chain of calls it stands in. `Parse` and `Join`
are the entry points, `Setter...` what the setters get from it.

**UrlApi** substitutes these for the parameters of `UrlSetters` (in the `.cfg`
files), adds `Valid` (a value that its own serialization parses back to), and
`CarefulSpec`: the calls guarded against the traps found while modelling.

**UrlComponents** is the abstract specification: a URL is a record of nine
components without serialization or offsets. Each setter refuses, under
conditions on the components, or stores exactly what the encoder or parser of
its component makes of the text; what else changes is said there and nowhere
else (a new scheme drops the port that is its default, `set_host(None)` takes
credentials and port along, a removed query may strip an opaque path).
`Components(url)` in `UrlApi` is the refinement mapping: every component is what
the accessor returns. One choice is left open: whether the text in front of a
path ends with `/`, which `set_path` looks at and components do not show.

**UrlNavigation** is a program that parses a first URL, resolves references
against the URL it has, and starts over. `doc` is the value, `reference` the
text it came from. **UrlPosition** computes positions from a value's offsets.

**UrlGuards** adds the variable `guard`: which guard borrows `url`, what it took
off, and the position it remembers (`old_after_path_position`, or the start of
the query). One action per operation of `PathSegmentsMut` and of the
`Serializer` of `query_pairs_mut`; `DropPath`, `Finish` and `DropQuery` put
back. `Forget` is `mem::forget`. `UnwindPush` is a panic in the iterator given
to `extend`: `mutate` has moved the serialization out, so the guard is dropped
around an empty one; `UnwindAppend` is the same for `extend_pairs`, which
mutates nothing while the iterator runs. `UseAfterFinish` is the documented
panic. A value that a lost guard left broken is not edited further
(`Usable`). `parse_with_params` is `StartOver`, `OpenQuery`, `AppendPair` and
`DropQuery`.

**UrlLists** is the abstract specification of both guards: a path is a list of
names, a query a list of pairs, with one action per call; all else stays as it
is from the opening of the guard to its end. **UrlEditing** composes the guards
with the parser and the form encoder (**UrlForm**) and maps the text to these
lists through `path_segments` and `query_pairs`, decoded. `ImplementsLists` says
that every step is one of the lists' (or none), and that each call is the action
of its own name with its own arguments (`EditsAsCalled`): that `pop_if_empty`
never pops more, or `push` never another name, follows from the second part
only. A lost guard is the one thing the lists let do anything (`Lose`).

**UrlRelative**, **UrlOrigin** and **UrlFilePath** translate pure functions;
**UrlConversions** checks them on every URL that `UrlNavigation` reaches, and on
every pair of them (`doc` before and after a step), and adds the URLs made from
file paths.

**HostAddress** is `parse_ipv6addr` with its variables by their names (`i`,
`pieces`, `piece_pointer`, `compress_pointer`, `swaps`), one action per turn of a
loop; a group or a number of a dotted tail is read in one action. `Display`
writes the address and starts the parser on what was written. An index beyond
the groups ends in phase `Panic`. **HostMeaning** says what a literal means
without pointers: two lists of groups around at most one `::`.

Definitions called *Faulty variant of X* model plausible slips in `X`; with one
in place of `X`, the property named for it in `PROJECT.json` is violated. They
take part in no specification.

## 3. What the runs check

| run | specification | checks | states |
| --- | --- | --- | --- |
| `ordinary_calls` | `OrdinarySpec` | `TypeOK`, `ComponentsCut`, `AuthorityStays`, `NoPanic`, `OriginHasHost` | 37,316 |
| `all_calls` | `Spec` | `OnlyRemovalBreaksLayout`, `NewHostRepairs` | 61,568 |
| `careful_calls` | `CarefulSpec` | `AlwaysValid`, `ComponentsStayApart`, `PositionsStayRight`, refinement of `UrlComponents` | 20,728 |
| `navigation` | `UrlNavigation` | `ParserOutputWellFormed`, `DotSegmentsResolved`, `PositionsAgree`, `RoundTripsPreserved`, `AbsoluteIgnoresBase`, `RelativeKeepsAuthority` | 14,934 |
| `guards` | `GuardSpec` | `GuardTypeOK`, `WholeOncePutBack`, `ImplementsLists`, `EditsRoundTrip`, `LostQueryGuardHarmless`, `UnwoundTailReadable`, `ClearIsEmptyQuery` | 92,126 |
| `conversions` | `ConversionSpec` | `OriginWritten`, `RelativeComesBack`, `RelativeWithinOrigin`, `FilePathComesBack`, `FileUrlRoundTrips`, `DirectoryHoldsFiles` | 217 |
| `host_address` | `HostAddress` | `IndexInBounds`, `ReadsAsMeant`, `WriteReads`, `Terminates` | 84,832 |

*Bounds.* `MCUrlApi` starts from six parsed URLs, one for each way a setter can
find a value: special, non-special and file; with an authority and a port,
without an authority, with an opaque path and trailing spaces, with `/.`. The
arguments are the empty text, a plain one, and one for each conversion or early
return (a host in capitals, an address, `host:8`, only a port; the default ports
of two schemes; paths the parser completes or would take for an authority). The
state space is finite without a bound on the number of calls, because texts do
not grow: all sequences of calls over these arguments are covered, however long.
`MCUrlNavigation` parses every text of up to two lexemes over ten behind seven
fronts, one per branch of the parser, plus longer ones; it joins every text of
up to two lexemes and six longer ones. Paths could grow without end under `join`,
so a URL is followed further only while its path, query and fragment are at
most `MaxTail = 2` lexemes; each such value is still checked.

`ordinary_calls` also starts from a file URL without a host, the one value from
which `set_scheme` could reach a network URL without one. `MCUrlGuards` starts from
five URLs, one for each tail a guard can take off (query and fragment, one of
them, none) and each path it can find (with segments, empty, opaque, behind
`/.`, with a drive letter); it pushes an empty segment, a plain one, one that
needs escaping, `..`, `..` hidden behind a tab, and a drive letter; it appends
the empty name and one made of all separators. Segments are pushed to paths of
at most three lexemes, and to a drive letter with a slash behind it
(`PushedTo`), and pairs appended to queries of at most
`MaxQuery = 2`, since both would grow without end; everything reached is
checked. Setters between guards change query and fragment.
`MCUrlConversions` opens all paths of up to five lexemes over `/` and two names
on one host (deep enough to climb out of one directory and down another, with
empty segments) and other schemes, ports, hosts, credentials, queries, and
blobs in blobs; each is a reference on each other one: 217 values, 30,821 steps,
and the properties of `make_relative` are about steps. File paths are all those
of up to three lexemes over `/`, `.`, a letter, an escape and `|`, and longer
ones. `MCHostAddress` reads 12,408 texts: all ways to leave out groups among one
to nine, eight dotted tails, seven of them wrong, behind up to seven groups, and
groups at the limits of sixteen bits.

*Fairness and liveness.* Only `HostAddress` states fairness, `WF_vars(Next)`:
the parser is a sequential function whose caller waits for it, and nothing
else can hold it up. `Terminates` is that each of its loops ends, for every
text. For the rest, none is stated. A `Url` is a value, no call waits for
another, and a program need not make any call; there is nothing that must
eventually happen.

*Deadlock* is checked in all runs but `host_address`: a setter always answers, if
only with `Err`; an open guard can be dropped; `Close` is always possible after
`Open`. The IPv6 parser stops when it has returned.

*Exceptions the properties name.* `EditsRoundTrip` excepts a path behind `/.`
and a drive letter pushed behind the host of a file URL. `RelativeComesBack`
excepts paths with empty segments, drive letters or `:` (a first segment is then
read as an authority or a scheme), a base whose query the reference keeps
because it has neither path nor query, and the directory of the base itself.
`FileUrlRoundTrips` excepts `..`, which `from_file_path` writes and the parser
resolves, and a first component that is a drive letter. `LostQueryGuardHarmless`
has no counterpart for the path guard: one that is forgotten leaves the offsets
of query and fragment beyond the text, and the accessors then panic. One that is
unwound leaves the offsets of the path and of all in front of it beyond the text;
`UnwoundTailReadable` is what still holds then, and `WholeOncePutBack` and
`ImplementsLists` say nothing of either.

### Disagreements between the code and its documentation

Each of these runs ends in a counterexample.

| run | property | what happens |
| --- | --- | --- |
| `panics` | `NoPanic` | After `set_host(None)` on a URL with an IP address host the `host` field still holds the address. `set_username` takes the URL for one with a host and slices backwards (`url.rs:623`); `set_password(None)` can do so as well. |
| `reparse` | `AlwaysParses` | `set_host(Some(""))` keeps credentials and port. `foo://:8/seg` does not parse, and `password()` panics on it. |
| `hidden_host` | `NoHostFromPath` | `set_path("//seg")` on `foo:/seg` writes `foo://seg`, read back with the host `seg`. |
| `drive_letter` | `NoHostBeforeDrive` | `file://host//C:` keeps its host in front of a drive letter and loses it when parsed again. |
| `absent_password` | `AbsentCoincides` | `BeforePassword` panics for `foo://`, and `BeforePassword..AfterPassword` is `@` for `foo://seg@host`. |

Smaller ones, met while modelling, that no run is about:

- `set_scheme("file")` is refused for every special URL with an authority; the
  doc names credentials or a port as the reason (`url.rs:565-566`).
- `push(".\t.")` replaces the last segment by an empty one: a segment is skipped
  only if it *is* `.` or `..` (`path_segments.rs:101-102`), but the parser drops
  the tab afterwards (`HiddenParentPushed` in `UrlLists`; a drive letter is not
  replaced, an empty segment is added behind it).
- `clear()` on a `foo://host` URL leaves the path empty; the doc says it leaves
  `url.path() == "/"` (`path_segments.rs:48`).
- `make_relative` from `http://host/seg/seg` to `http://host/seg/` is `/`, which
  joins to the root; the doc says the result "yields `url`" (`url.rs:147-148`).
- `to_file_path` fails after `set_host(None)` on `file://host/seg`: the host is
  then the empty domain, which it does not take for an empty host.
- a drive letter in an `http` path is kept by `..` in front of it, as in a file
  URL.

`CarefulSpec` excludes exactly the calls that break `AlwaysValid`, each by a
named guard: a host, address or path set on a URL with `/.` in front of its
path; an empty host with credentials or a port; an IPv4 address on a
non-special URL (parsed back as a name); `localhost` or a drive letter on a file
URL with a host; removing the host in front of `//` or in front of an empty path
that a query follows; a path that is empty or starts with `//` without an
authority; `?`, `#`, a trailing space or a first `/` in an opaque path (a `/`
behind a tab: `set_path` escapes it only where the text starts with it); a file
URL without a host made `http`. Under these guards no state violates `Valid`.

`RoundTripsPreserved` likewise names what it excepts: a drive letter behind a
file host, and a base with `/.` in front of its path, which `join` keeps.

## 4. What is proved

In `UrlSettersTheorems`, for all words, schemes, usernames, passwords, hosts,
ports, paths, queries and fragments, and every parser that satisfies the
`ASSUME`s of `UrlSetters`:

- `Invariance`: `OrdinarySpec => []Inv`, where `Inv` says that the value is
  of its type and `WellFormed` and that the last call ended in `Ok` or `Err`;
- `TypeCorrect`, `OffsetsCutComponents`, `AuthorityKept`, `NeverPanics`:
  four of the invariants of the run `ordinary_calls`;
- `LayoutBreaksOnlyThere`, `NewHostAlwaysRepairs`: the action properties of the
  run `all_calls`, for `Spec`, in which hosts that are addresses are removed too;
- `OriginNeverPanics`: `OrdinarySpec => []OriginHasHost`.

In `UrlNavigationTheorems`, for all words and all sets of texts a URL is parsed
from or resolved against, with the parser as `UrlParser` has it:

- `ParserHandsOutWellFormed`: `Spec => []ParserOutputWellFormed`;
- `ParserKeepsPositions`: `Spec => []PositionsAgree`;
- `ParserResolvesDots`: `Spec => []DotSegmentsResolved`;
- `ParserKeepsAuthority`: `Spec => RelativeKeepsAuthority`;
- `ParserIgnoresBases`: `Spec => AbsoluteIgnoresBase`;
- `ParserKeepsItsPromises`: what the setters and guards assume of the texts they
  are handed is true of the ones this parser makes, of every text.

In `UrlComponentsTheorems`, for the same parameters, `HostFor` and the
assumptions of `UrlApi` besides:

- `CarefulInvariance`: `CarefulSpec => []CarefulInv`;
- `CarefulCallsKeepApart`: the invariant `ComponentsStayApart`;
- `CarefulCallsKeepPositions`: the invariant `PositionsStayRight`;
- `SettersImplementComponents`: `CarefulSpec => ImplementsComponents`, the
  refinement of `UrlComponents`.

In `UrlGuardsTheorems`, for all segments, names and paths and every parser and
encoder that satisfies `PushAssumption` besides:

- `GuardInvariance` and `GuardTypeCorrect`, `PutBackWhole`: the invariants
  `GuardTypeOK` and `WholeOncePutBack` of the run `guards`;
- `LostQueryHarmless`, `UnwoundTailRead`, `ClearedQuery`: its action properties
  `LostQueryGuardHarmless`, `UnwoundTailReadable` and `ClearIsEmptyQuery`.

In `HostAddressTheorems`, for every set of input texts:

- `AddressNeverOverruns`: `Spec => []IndexInBounds`;
- `AddressReadBack`: `Spec => []WriteReads`.

*Why the strengthening is needed.* That no setter panics follows from the order
of the offsets. That the order is kept needs the delimiters: whether
`set_username` drops one lexeme more or less depends on the `@` being where
`CredentialsClosed` says, and the place `set_password(None)` drains to is behind
its start only if a password stands between `:` and `@`. `PortWritten` is
needed because `set_port(None)` drops everything between host and path;
`HeadHasNoSpace` because stripping spaces from the end must stop before the
path; `SpecialHasAuthority` because `set_host(None)` on a file URL cuts behind
the `//`, and because no setter may turn a special URL into one without.

*How the proof goes.* `UrlLayoutTheorems` first says what the slices return:
lengths, elements, and what stands where after `s[..a] + mid + s[b..]`. It then
considers an edit that replaces `s[a..b]` by `mid` and moves
the offsets behind it by the change of length, and shows which parts of the
layout it keeps depending on where in the authority it lies (`Edit`,
`HeadKept`, ...). `UrlSettersProofs` shows that each setter is such an edit and
establishes the part of the layout the edit is about; a setter made of two edits
cites two lemmas. `UrlSettersTheorems` has one lemma per action and joins them.

*All calls.* Nothing more than `OnlyRemovalBreaksLayout` holds once the host of
an address has been removed while its field claims it: for other words than the
run's, a file URL that lost its address can be made `http`, be given the path
`@@:seg`, and then `set_username` shifts offsets by delimiters that belong to the
path, some of them below zero. So no invariant of `Spec` bounds the damage; what
is proved is that there is one way in, from a right layout and through that
call alone, and one way out, a new host.

*Components.* A value is cut into its *parts*, the texts between its offsets
(`Parts`), and `Shown` reads the components off the parts. Each edit `With...`
has a lemma `...Parts` that says which parts it exchanges and that it keeps the
others: this is the arithmetic of offsets, for texts of any length. Reading the
components off the parts is only sound if the parts cannot be confused: a
username without a host is read as a part of the path, a default port cannot be
told from none by `set_scheme`. That is `ComponentsApart`. It is kept only by
calls on a value of the right layout, so the invariant, `CarefulInv`, is the
conjunction of both. A lemma `...Promised` per setter then shows that the call
keeps `CarefulInv` and is the call of `UrlComponents` of that name, with the
value it names; `CarefulCallPromised` joins them. The initial values are
`Consistent` by `InitAssumption`. The parts and their lemmas are in
`UrlPartsTheorems`, the setters in `UrlComponentsTheorems`.

*Positions.* `PositionsOfWellFormed`, in `UrlPartsTheorems`: of every value that
is laid out and has its components apart, the positions are in their order and
delimit what the accessors return. `position_index` decides from the text alone,
by a `:` behind `username_end`, whether there is a password, and adds the digits
of the port to `host_end`; `PasswordPlace` and `PortPlace` show that both agree
with the fields, which needs the whole layout (without `AuthorityIntact` the `:`
may be the port's). Each position is then at most the next one
(`PositionSteps`). The theorem is about values, so it gives
`PositionsAgree` of `navigation` wherever `ParserOutputWellFormed` holds.

*Parser.* The invariant, `DocParsed`, is that the value at hand is laid out, has
its components apart, stores a host without text as none, has no credentials if
it is a file URL, and has no dot segment in a path that starts with `/`;
`AgainstParsed` shows it of everything that
`parse_url_full` returns for a text and a base of which it holds, which a base
needs: `join` copies its offsets. There is one lemma per parser function
(`UserinfoRead`, `HostAndPortRead`, `AuthorityParsed`, `RelativeParsed`,
`FileParsed`, ...), about its result when it does not fail. Loops over the input
are recursive functions, and the lemmas about them go by counting:
`LeastNumber` and `UpTo` give induction for one set at a time, `Recursion` that
such a function exists. What makes the path loop tractable is that it never
takes back anything in front of `path_start`, and never the slash there once it
stands (`Continues`): popping a segment stops behind that slash
(`PopContinues`), and a file path gets it at the end (`FilePathRooted`). A value
is then put together from a head, what stands in front of the path
(`AuthorityHead`, `BareHead`, `FileHead`), a path that fits it (`PathFits`), and a
tail (`TailAdded`); `finish` inserts `/.` exactly where the path would be read as
an authority (`DotInserted`).

*Dots.* `DotSegmentsResolved` alone is not inductive in the path loop: between
two segments the serialization may end with text that the next segment would be
put behind. `Tidy` says that no `.` or `..` stands behind a slash so far, `Ready`
that what is written ends with a slash, with a drive letter or nowhere, so that the
next segment stands on its own. Each way a segment can leave the loop keeps both
(`TidyPush`: pushed, popped, a drive letter or nothing), and so does taking off
extra slashes of a file path (`TidyFile`). A relative reference starts with the
base's path without its last segment, which is `Tidy` because the base is and
`Ready` because `pop_path` stops behind a slash or at a drive letter (`PopReady`).

*Bases.* `ParserKeepsAuthority` follows the base's head through everything a
relative reference can be: `KeepsHead` (the offsets up to the path, and the text in
front of it) holds of cutting off a query or fragment, of reading a path behind
`path_start`, of `finish` and of `/.`. A file URL is the exception: after a single
slash its head is written anew, and `FileHeadAgain` shows that it comes out the
same, which needs that a file URL has neither credentials nor a port (`FileBare`);
the host is kept unless the base's path starts with a drive letter
(`DriveInFront`), the case the property excludes. `ParserIgnoresBases` compares
two runs of the parser without going through its loops: what the parser sees of a
text starts as the text does, as far as there are no spaces (`InputKeepsFront`);
a special URL that parses back therefore shows its scheme, `:` and two slashes
(`SchemeFound`), and `parse_with_scheme` then does the same for every base
(`BaseIgnored`).

*Guards.* That a value is well formed once its guard is dropped is not
inductive: it does not say what the next edit through the guard does to it.
`GuardInv` says more: there is an earlier, well-formed value of which the open
one has the head, with its tail in the guard. Every edit keeps that witness, and
`RestoredIsWithPath` and `RestoredIsWithQuery` show that dropping the guard does
to the witness what `set_path` and `set_query` would do, so the lemmas about
setters apply. Query and
fragment are read from what the guard took off, whatever text that is put back
behind (`TailReadBack`): the unwound guard of `UnwoundTailRead` is the case of
no text at all.

*Origin.* The scheme and the host of a URL are followed through each setter: an
edit behind the scheme keeps the scheme's text (`TailKeeps`, `CredentialsKeep`),
`set_scheme` refuses to make a network URL of one without a host, and
`set_host(None)` is refused for a network URL. `Inv` is used for where the
scheme ends.

*Address.* `PointerInv` adds to the bounds what each loop knows: in the first,
groups not read yet are zero and `::` stands in front of the pointer; in the
second, the pointer is at most 6 plus half the numbers seen, and an odd number
stands alone in its group (so `* 0x100 + v` does not overflow); in the third,
there are no more swaps left than groups in front of the pointer.
`ReadInv` says how far a text that `write_ipv6` wrote has been read: `g` groups in
front of the zeros left out (`ReadsBefore`), or the groups up to `g` behind them,
stored where the `::` was (`ReadsBehind`), of which all but the last `swaps` are
still there while they are moved (`Moves`). Each step goes on by one group, since
the parser finds as many digits as were written and then a `:` or the end
(`ReadsPlain`), and `::` where the one longest run of zeros is (`OmittedText`).
For this `TextPlaces` says what stands in the text at which index, and
`HexTextFacts` that the digits of a `u16` stand for it. TLC checked `ReadInv` on
the inputs of `host_address` first.

*Assumptions.* `WordAssumption` (words are not other lexemes) and the
assumptions of `UrlSetters`: initial values are well formed and have their
components apart (`InitAssumption`; proved of the parser by
`ParserHandsOutWellFormed`), and the texts written for a scheme, credentials, a
host, a path, a query and a fragment are `GoodScheme`, `GoodUserinfo`, `GoodHost`
and `GoodPath`, or at least texts. `PushAssumption`: what a pushed segment or an
encoded name becomes is a text. `ParserKeepsItsPromises` proves all of these for
the parser of `UrlParser` and the encoder of `UrlForm`, for every text a caller may
pass, so what the theorems on setters and guards assume is what the code does;
TLC evaluates them besides in the `MCUrlApi` and `MCUrlGuards` runs.
`TextsAssumption`, in `UrlNavigation`: the texts are texts.

*Promises.* That a host holds neither `:` nor `@` nor a slash needs the table of
forbidden host code points, for special URLs behind percent-decoding; that
`set_path` writes a rooted path or none, the path loop again, this time in the
setters' contexts (`PathRead`, `PathStartReads`).

*Only model-checked*: what parsing makes of a text beyond its layout, such as
parsing a second time (`RoundTripsPreserved`, `AlwaysValid`, which compare two runs of the parser loop by loop); the form encoder (folds over the input), and so
`EditsRoundTrip`, `ImplementsLists` and the conversions; `ReadsAsMeant`, whose
meaning of a literal is a fold over the input; and `Terminates`, since liveness under fairness is out of the
prover's reach.

`UrlComponentsTheorems` and `UrlNavigationTheorems` take a few minutes each to
check, the others one or two.

## 5. What is not modelled, and why

- The violation callback of the parser changes nothing; the query encoding
  override replaces query bytes by others and is left out.
- Lengths beyond `u32`: the parser reports `Overflow`, setters cast with `as
  u32`. Offsets are unbounded here.
- IDNA, non-ASCII bytes, and the arithmetic of IPv4 numbers, whose 32 bits are
  beyond TLC's integers: such a host is accepted or not, of a kind, and has a
  written form. `UrlParser` takes `[v6]` for any IPv6 literal; `HostAddress` is
  about their text.
- The identifier of an opaque origin: it comes from one atomic `fetch_add` on a
  process-wide counter, which leaves no two steps to interleave. The nesting of
  blob URLs is unbounded in the code as in the model; the stack is not modelled.
- Windows file paths, another compilation of `file_path.rs`.
- The encoding override of `Serializer`, invalid UTF-8 in form data, and the
  Unicode serialization of an origin.
- `error.rs`, trait implementations, `socket_addrs` (I/O), `lib.rs`.

## 6. Plan

Done, in this order: the value and its layout; the setters and their invariant;
the parser; the composition and the abstract specification; navigation and
positions; the proof of the layout invariant; the guards, with their abstract
specification and proof; relative references, origins and file paths; the IPv6
parser and its proof; the refinement of `UrlComponents`, proved.

Left to model, where more can be said than that a function computes what it
computes: the digits of IPv4 hosts (a number of 32 bits as two halves), and
hosts of Windows paths.

Proofs not attempted, in the order of what they would say: that `make_relative`
answers exactly within an origin (`RelativeWithinOrigin`), which needs the kind of
a special host as a function of its text carried through the lemmas of
`UrlNavigationTheorems`, and the function `url_origin` over chains of blob URLs;
that a guard which is not lost implements `UrlLists` for the query, given what
the encoder promises.
