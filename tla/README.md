# hyperx in TLA+

A verification project for hyperx, the pure-Go X11 toolkit in `src/`: TLA+
modules for the parts of it that have behaviour worth checking, TLC runs on
small instances, and TLAPS proofs of its safety for every component modelled: all
invariants the runs check but one are theorems.

## The system

| Part | State it keeps | Operations | Interacts by |
|---|---|---|---|
| `xproto.Conn` (`xproto/conn.go`) | `mu`, `seq`, `pend` under `pmu`, channels `events` (64), `errs` (8), `done`, the socket | `Send`, `SendReply`, `Sync`, `Close`, `Events`, `Errs`; the goroutine `reader` with `deliver` | requests, replies, errors and events on a byte stream; a one-slot channel per `SendReply`; two bounded channels to the application |
| dial and handshake (`conn.go`) | `Setup`, `Screen`, `idBase`, `idMask` | `Dial`, `parseDisplay`, `handshake`, `parseSetup`, `readAuthCookie` | once, before the reader starts |
| resource ids (`conn.go`) | `idNext` under `mu` | `NewID` | called by whoever creates a resource |
| requests (`requests.go`) | none | some forty encoders, `PutImage` in chunks | `Send`, `SendReply` |
| events (`events.go`) | none | `decodeEvent` | called by `reader` |
| keyboard (`keymap.go`) | the two mappings | `GetKeyboardMapping`, `Lookup`, `GetModifierMapping` | `SendReply` |
| `drw.Drw` (`drw/drw.go`) | size, pixmap, GC, framebuffer | `New`, `Resize`, `Free`, `Rect`, `Clear`, `Text`, `Map` | requests on the connection, ids from `NewID` |
| `drw.FontSet` (`drw/font.go`) | `Fallback` (unlocked), `fb` (locked), caches of each `Font` | `fontFor`, `AddFallback`, measuring, drawing | `DB.MatchForRune`, `LoadFont` |
| font index (`fontcfg/cache.go`, `fontcfg.go`) | `fonts.idx` on disk, shared by processes | `Load`, `scan`, `fingerprintDirs`, `loadIndex`, `saveIndex` | the file system, which others change |
| matching (`fontcfg.go`) | the lists of `byFam`, sorted in place | `ParsePattern`, `Match` | called by the application |
| name tables (`parse.go`) | none | `readNameTable` | called by `scan` |
| colours, keysyms, Xinerama | none | parsing and lookups | |

What is hard here: the reader races with the callers for `pend` and the wire;
sequence numbers are 16 bits wide and wrap; the event channel is bounded and
blocks the reader, the error channel is bounded and drops; `Close` may come at
any moment; the streams in both directions have no frame but the length fields;
goroutines that draw interleave their requests; a `FontSet` mixes a
locked cache with an unlocked list; and the font index is read, rebuilt and
renamed by several processes while the directories change and processes die.
`PROJECT.json` lists each hazard at its line with the properties aimed at it.

## The modules

| Module | Models | Checked by | Proved in |
|---|---|---|---|
| `Conn` | `xproto.Conn` with a server and an application | `conn_*` (through `MCConn`) | `ConnProofs` |
| `Rpc` | what `SendReply` promises: the abstract specification | `RefinesRpc` | `ConnProofs` |
| `ConnInv` | the inductive invariants of `Conn` | `IInv`, `JInv` in `conn_wire` | `ConnProofs`, `StreamProofs` |
| `NatLemmas` | facts about `%`, `\div`, counting loops and least numbers | | itself |
| `Requests` | the encoders, the decoders and `Lookup`, as constant operators | `session` | `SessionProofs` |
| `Dial` | `Dial` to the point where the reader starts | `session` | `SessionProofs` |
| `Session` | a dialled connection as a stream of words: composes `Dial` and `Requests` | `session` (through `MCSession`) | `SessionProofs` |
| `SessionInv` | its inductive invariant | `VInv` in `session` | `SessionProofs` |
| `Drw` | drawing contexts, `NewID`, `PutImage` and the server's resources | `drw_*` (through `MCDrw`) | `DrwProofs` |
| `DrwInv` | its inductive invariant | `DInv` in `drw_frames` | `DrwProofs` |
| `FontIndex` | the font index | `font_index`, `font_add` (through `MCFontIndex`) | `FontIndexProofs` |
| `FontIndexInv` | its inductive invariant | `FInv` in `font_index` | `FontIndexProofs` |
| `Text` | one call of `Text`, rune by rune, as constant operators | `font_set` | |
| `FontSet` | glyph fallback, under `Text` and under plain measuring | `font_set` (through `MCFontSet`) | `FontSetProofs` |
| `FontSetInv` | its inductive invariant | `SInv` in `font_set` | `FontSetProofs` |
| `FontMatch` | name tables, `scan`, `ParsePattern` and `Match` | `font_match` (through `MCFontMatch`) | `FontMatchProofs` |
| `FontMatchInv` | its inductive invariant | `MInv` in `font_match` | `FontMatchProofs` |

In every module a definition `X_Y` stands before `X` and is `X` with a plausible
mistake; nothing uses it. Putting it in the place of `X` breaks the property
that `PROJECT.json` pairs it with, which shows that the property depends on the
code's getting `X` right.

### Conn

Goroutines are of three kinds: `Callers` (any that send), `Consumers` (any that
receive from `Events()` and `Errs()`), `Closers` (any that call `Close`); one
goroutine may be of several kinds, and then does one thing at a time.

* `Send` and `SendReply` take `mu`, a number and, for `SendReply`, a place in
  `pend` in one step (`Begin`, `Register`): the reader cannot tell these apart.
  The `Write` is a step of its own (`WriteOK`, `WriteFail`), because the server
  may answer before it returns. `Wake` is the receive from the channel.
* The reader's steps are `ReadMatched` and `ReadUnmatched` (`deliver` up to the
  unlock of `pmu`), `Handoff` (`ch <- replyOrErr`), `ReadEvent`, `Emit` and
  `EmitDone` (the two arms of its select) and `ReadFail`.
* `Close` is three steps: the test of `done`, `close(done)`, and the close of the
  socket. A second `close(done)` panics (`panicked`) and the process is gone; it
  takes two goroutines that both passed the test before either closed (`raced`).
* The server numbers what it reads, answers in that order, reports errors for
  any request, emits events at any time, and may go away (`HangUp`).

A request is named by its absolute number, and the code's variables see only the
number modulo `SeqMod`. The history `overrun` becomes TRUE when a number is taken
while the request `SeqMod` before it is still in flight. No client of 16-bit
numbers can be correct then, so the properties about correlation speak of the
states before, and `Rpc` allows a foreign answer afterwards. What the code does
keep even then, that the reader never blocks on a caller, is stated without the
condition.

A read or a write fails only if the socket is closed on this side or the server
has gone: `Conn` sets no deadlines. Towards a server that has gone a write may
also succeed, and what was in transit may or may not still be read.

### Rpc

The state of the calls only: asked, answered, and how each ended. Calls are asked
in the order of their numbers and answered in that order; a call ends once, with
its own answer after the server gave it, or with the failure of its own `Write`,
which implies that the server will never answer it. `RefinesRpc` maps `Conn` to
it: `asked` is the set of requests with a reply, `answered` those the server has
read, `outcome` what `SendReply` returned.

### Requests, Dial, Session

`Conn` takes messages as whole; here they are words. `Requests` has, for every
encoder of `requests.go`, `keymap.go` and `xinerama.go`, the widths of its fields
in their order, whether it pads its variable part, and the length that `finish`
writes, modulo `LenMod`; for every decoder, the last byte it reads of the reply's
fixed part and the bytes it reads of the rest. Against these stand, marked
external, the lengths the X server expects and sends (`MinWords`, `Expected`,
`ExtraWords`). For an image the server does not ask the client's arithmetic: it
goes by width, height and depth, its own bits per pixel for that depth, and lines
padded to whole words (`lineBytes`), as X servers have them. `Lookup` is the
function of `keymap.go` over the flat list of the reply. The lengths of names and lists inside a request are taken to fit the
16 bits they have.

`Dial` is the handshake step by step: `parseDisplay`, one `Connect` for each
attempt, the cookie search in an Xauthority file that may be damaged anywhere,
the set-up request, the two reads of the reply, the walk of `parseSetup` through
it, and the choice of the screen. Each step may fail. `DISPLAY` is given cut at
its colon and dot; the trailing bytes of the reply are counted, not spelt out.

`Session` goes on from there. A call of a goroutine is the list of its requests
(three for `xinerama.Query`, as many as it takes for `PutImage`). `Enter` chooses
it, `Issue` builds the next request, `Begin` takes
`mu`; `WritePart` hands the socket all of the request or one word first; the
server (`Serve`) takes from the front of the stream as many words as the length
field of the head says, whatever they are, and refuses what is not a whole
request of the length it expects. The reader reads a head (`ReadHead`) and, for a
reply with extra words, the rest (`ReadBodyOf`). Which goroutine a reply belongs
to is given here: that is the matter of `Conn`. `Wake` decodes the reply and
goes on with the call.

A request long enough for its length to wrap is part of the model, and what the
server makes of its words too; the properties of the streams stop there
(`NoWrap`). They have to: the data of such a request taken for requests earns an
error that nobody asked for, this error ends a later call of the same goroutine
before its own reply comes, and the call after that decodes a reply that was
made for another. So `PanicMeans` allows a decoder to read past its reply then,
and `LookupIsOwn` says nothing of a keyboard map made from such a reply.

### Drw

Each goroutine has its own `Drw` and window; all share the connection and
`NewID`. Every request is a step, because `Send` releases `mu` in between; it
takes effect on the server at once, since the server works in wire order and
nothing here looks at a reply. `Resize` is its three requests (free, id,
create), `Map` is the packing of the rectangle (`MapPack`), one step for each
chunk of `PutImage`, and `CopyArea`. The server (`CreatePixmap` to `Copy`) keeps
pixmaps with their pixels, and answers errors for an id in use, an id that does
not exist and a request that is too long. A new pixmap holds junk. The slice
arithmetic of `Map` is kept: a rectangle past the left or right edge reads the
neighbouring row, and one past the last row panics. So are its conversions to
16 bits (`int16`, `uint16`), the branch of `PutImage` for other depths
(`bytesPerLine`) and its limit where the server names none (`maxReq`).

The resource id mask is given by its lowest bit (`IdUnit`) and the number of ids
under it (`IdCount`).

Four things are assumed. `DrwAssumption` has a root depth of 24 or 32, as the
comment in `PutImage` does ("assume depth divisible by 8 for 24/32"): at another
depth `Map` still packs four bytes a pixel. It also has sizes of at least one
pixel, since a server makes no other pixmap. `Reachable`: rectangles lie where
16-bit coordinates reach. `RowFits`: one row of any rectangle fits into a request
(the X protocol guarantees 4096 units of 4 bytes, which is a row of 4090 pixels),
and all of a rectangle does if the server names no limit, because a first chunk
of 256 KiB would have length 0.

### FontIndex

Processes run `Load` again and again, each time with some of the directories
(`Lists`): read the times of these directories one by one, look at the index,
list and read directory by directory, write a temporary file font by font, rename
it. There is one index for all of them, stamped with the directories it was made
from, and a `Load` of others does not accept it. Between any two steps fonts come and go and the process may
die. A package manager either renames a complete file into place or creates it
first and fills it later (`SlowAdds`); only the first of these moves the
directory's time when the font becomes readable. The fingerprint is the list of
times itself: collisions of the hash are left out, and every change of a
directory is taken to move its time. Fonts with a tab or a newline in a name
(`Awkward`) are not stored, as in the code; `font_add` has one, `font_index` has
none, and the proof is for any.

### FontSet

`fontFor` step by step: the primary font and the list (`Search`), the cache, the
database font by font (`MatchForRune`), `LoadFont`, the entry in the cache, and
the append, which reads the list and stores it, two steps without a lock. The
files of fonts come and go (`Uninstall`, `Reinstall`); a load that fails is tried
anew when the font is next met, one that succeeded is kept. `failed` records for
each rune the fonts that did not load when it was looked for. A
goroutine that reads the slice header during the store may see a torn one
(`Torn`), which ends the process. `raced` records that the list was stored while
another call was running. Drawers call `Text`, which asks `fontFor` for each rune
of its three measuring loops and of the drawing one; module `Text` says what it
does with each answer. The others measure single runes.

### FontMatch

`scan` takes one file after another: of the usable records of its name table the
best is its family (`Best` is the loop of `readNameTable`, record by record), and
a file without a family is left out. `ParsePattern` takes the families and
options a pattern is cut into. The values of `weight` and `slant` are compared in any spelling, those of `style`
as they are listed. `Match` tries the pattern's family and its
generic alternatives: a list of `byFam` is sorted in place (`Exact`), while the
lists that begin like the name are joined into a copy, in any order, since a map
is iterated in any order (`Fuzzy`). A stable sort is the rearrangement in which
the smaller score comes first and of equal ones the one that came first before
(`Before`). Names are not spelt out: `lower`, `startsWith`
and `genericAliases` say what the code would find in them, and a file whose table
is malformed has no records. The module also shows what cannot be promised:
`SameAgain` holds only as long as patterns of one style are matched, because a
pattern of another style may reorder fonts that are equally close.

## The runs

All runs allow deadlock: callers may stop calling, the server need not emit
anything, bounds are reached, a process that panicked or died does nothing.

| Run | Shows | Instance |
|---|---|---|
| `conn_wire` | replies, errors and events reach the right place in order: `AnswerIsOwn`, `ErrsAreUnclaimed`, `EventStream`, `ReplyBarrier`, `HandoffNeverBlocks`; the invariants that are proved, `IInv` and `JInv`; refinement of `Rpc` | 2 callers, 1 consumer, 4 requests under `SeqMod` 3, 2 events, event and error channels of 1, 2 requests in the socket |
| `conn_live` | types, the refinement again and `PendHasOwner` while the server hangs up and `Close` is called repeatedly; a waiting call returns unless the reader stopped (`ReplyOrDown`); `Close` stops the reader even when it is stuck on full `events` that nobody need receive any more (`CloseStopsReader`) | 2 callers, 1 consumer, 1 closer, 2 requests, 2 events in a channel of 1, no room for errors |
| `session` | `DialOutcome`; `StreamAligned`, `NoneRefused`, `PanicMeans`; `LookupIsOwn`; the invariant that is proved, `VInv` | 8 displays, 8 Xauthority files, 4 set-up replies; 2 goroutines with a call each, one of them choosing among every encoder, 6 images of depths 1, 8, 15, 24 and 32; a server that takes 12 words and a length field modulo 16; 1 event |
| `drw_frames` | `NoProtocolErrors`, `NoLeak`, `MapShows`, `PanicMeansExhausted`, `InsideIsSafe`; the invariant that is proved, `DInv` | 2 drawers, sizes 1x3 and 2x3, a rectangle of 2x3 and one that begins left of the framebuffer, 7 ids, requests that hold two rows of two pixels |
| `font_index` | `IndexFresh`, `LoadIsCurrent`; `CacheSettles`: once the directories are left alone the index becomes current, for the `Load` that saved it last, and stays so; the invariant that is proved, `FInv` | 2 processes, each given both directories or the second, a font in each, 2 changes, 2 faults |
| `font_set` | `StableChoice`, `BestCoverage`, `NoDuplicates`, `TextInField`; the invariant that is proved, `SInv` | 2 goroutines, 4 runes, a database of 3 fonts, two of which may be unreadable for a time, one manual fallback that may be added twice; two texts of 2 or 3 runes in fields from too narrow for the ellipsis to wide enough, and 2 runes measured beside it |
| `font_match` | `NamesPreferred`, `ListsWhole`, `MatchIsClosest`, `SameAgain`; the invariant that is proved, `MInv` | 3 files, one of them with every table of at most 2 of 7 records; 6 patterns, 4 calls |

`DInv`, `FInv`, `SInv`, `MInv` and `VInv` have the type invariants of their modules as a conjunct.

Why these bounds are enough to be interesting. `SeqMod` 3 with 4 requests makes
the number wrap and lets both a harmless and a harmful reuse happen; the
capacity 1 makes both channels full after one element, and with it the blocking
and the dropping. Two processes suffice for an older scan to be renamed over a
newer one, two changes for a font to come and go or two directories to change
between fingerprint and scan. Seven ids allow the two contexts to be made (4) and
three resizes, and then exhaustion. A rectangle of 2x3 under a limit of two rows
makes a full and a partial chunk; mapping it from the 1x3 framebuffer leaves the
slice, and the second rectangle reads a pixel of the row before. Three fonts are
enough for a tie of two that a third pattern's sort swaps, for a family that is
found only as a prefix, and for an alternative that wins.
Two goroutines in `session` are enough for one request to be written between the
words of another, were it not for `mu`; the images have lines that the server
takes as they are, pads, and packs otherwise; 12 words make `PutImage` cut an
image into a full and a partial chunk and leave room for every attribute of a
window but the last; 16 as the modulus of the length field lets one long name wrap it and
another exceed only what the server takes.

### Where the code differs from what it says

Five runs check a sentence of the repository's comments and find it violated.

* `conn_flood`, `ReplyArrives`: a goroutine that receives the events and also
  calls `SendReply` blocks for ever once `events` is full (`conn.go:424`), though
  the server has answered; `conn.go:477` says it "blocks until the reply
  arrives". Fairness is that of `conn_live`; the consumer cannot receive because
  it is the caller.
* `conn_close`, `CloseReleasesCallers`: `Close` "terminates the connection"
  (`conn.go:142`), but a `SendReply` in progress waits on its channel for ever:
  the reader returns and leaves `pend` as it is.
* `conn_sync`, `SyncSurfacesErrors`: `Sync` promises that "any pending errors
  surface" (`conn.go:498`); an error that found `errs` full was dropped.
* `drw_idmask`, `PanicMeansExhausted`: `conn.go:369` announces "Find the lowest
  set bit in mask, then increment within mask"; the code adds 1. With a mask such
  as 110 the first call masks 1 to 0 and panics, no id handed out.
* `font_add`, `AnyAddInvalidates`: "any add/remove invalidates the cache"
  (`cache.go:20-21`) fails for a file whose contents arrive after its name: a
  `Load` in between saves an index without the font, and nothing changes the
  fingerprint any more. The comment goes on to except files modified in place;
  here the font is one that is added. `IndexFresh` states what holds instead.

More of the comments are not so, without a run of their own.

* `conn.go:88` says "Try abstract first"; the code tries the file system socket
  first.
* `conn.go:529` says "MIT-MAGIC-COOKIE-1 only". `readAuthCookie` does not look at
  the name of the scheme: the first entry that fits the host and the display is
  sent, whatever it is (`Dial!readAuthCookie`; one of the files in `session` has
  such an entry).
* `fontcfg.go:270` says "prefer exact bold/italic match, else regular". The code
  counts differences in boldness and slant, so a pattern in bold italic gets the
  bold font of a family that has a regular and a bold one, and a pattern in bold
  may get a bold italic one where there is no bold. The documentation of `Match`
  (`fontcfg.go:246`) has it as the code does; `MatchIsClosest` states that, and
  contradicts the comment.
* `fontcfg.go:312` says that `MatchForRune` "returns nil if none does" contain the
  rune. It passes over a font whose file cannot be read at the moment;
  `FontInfo.Load` would try again, but `fontFor` keeps the nil for good
  (`font.go:195`), so the rune stays without a glyph when the font is back.
  `BestCoverage` says what holds.
* `fontcfg.go:157` says that results are "reused when the font directories' mtimes
  haven't changed". Two programs that give `Load` different directories share one
  index file, and each replaces what the other saved though nothing has changed.
  `IndexFresh` and `LoadIsCurrent` hold all the same.
* `PutImage` does for images of depths 24 and 32, as its comment says, and of other
  depths where their lines are whole words; one of depth 1 and width 9 is sent
  with lines of one byte, where the server expects four. `NoneRefused` excepts
  these images by name (`Refusable`).

### Fairness

`Conn!Fairness`: the Go scheduler runs every goroutine that can go on (the
reader, a `Write`, a receive whose channel is filled, a `Close` begun); the X
server reads and answers what it was sent; the application keeps receiving
events. Weak fairness is enough, since none of these steps is disabled again by
others for ever: a `Write` holds `mu`, a reply stays in its channel, a full
`events` stays full until the consumer receives. It need do so only until `done`
is closed: after that only the arm for `done` can free a reader that is blocked. `RecvErr` is not fair and need
not be: errors never block the reader. Nobody is obliged to send, to close or to
emit. `FontIndex!FairSpec`: a `Load` that has begun goes on unless it dies, and
programs that load fonts keep being started, without which nobody would replace
a stale index.

## What is proved

TLAPS proves these theorems for every value of the constants that the named
assumptions allow, by one pattern: an inductive invariant, checked by TLC in a
run first, that holds initially and is kept by every action; each safety
property follows from it.

| Theorem | States | In words |
|---|---|---|
| `ConnProofs!Correlation` | `[]IInv` | the inductive invariant of the connection |
| `ConnProofs!TypeCorrect` | `[]TypeOK` | types, both channels within their capacity |
| `ConnProofs!RepliesAreOwn` | `[]AnswerIsOwn` | `SendReply` returns the answer to its own request |
| `ConnProofs!ErrorsStayApart` | `[]ErrsAreUnclaimed` | the error of a `SendReply` never reaches `Errs()` |
| `ConnProofs!ReaderNeverWaits` | `[]HandoffNeverBlocks` | the reader never waits for a caller, overrun or not |
| `ConnProofs!TableHasOwners` | `[]PendHasOwner` | `pend` holds waiting calls and failed writes only |
| `ConnProofs!CloseOnce` | `[]NoDoubleClose` | `done` is closed twice only by two calls of `Close` that overlapped |
| `ConnProofs!LoneCloser` | `[]~panicked`, for one closer | one closing goroutine closes `done` once, however often it calls |
| `ConnProofs!Implements` | `RefinesRpc` | every behaviour of `Conn` is one of `Rpc` |
| `StreamProofs!Streams` | `[]JInv` | the inductive invariant of the streams to the application |
| `StreamProofs!EventsInOrder` | `[]EventStream` | events arrive once, in order |
| `StreamProofs!RoundTripIsBarrier` | `[]ReplyBarrier` | a reply comes after everything the server said before it |
| `FontIndexProofs!IndexAsGood`, `Types` | `[]FInv`, `[]TypeOK` | the inductive invariant of the font index |
| `FontIndexProofs!FreshIndex` | `[]IndexFresh` | an index that would be accepted is right |
| `FontIndexProofs!CurrentLoad` | `[]LoadIsCurrent` | `Load` returns what was installed in its directories while it ran |
| `DrwProofs!OwnServer`, `Types` | `[]DInv`, `[]TypeOK` | the inductive invariant of the drawing contexts |
| `DrwProofs!AllAccepted` | `[]NoProtocolErrors` | the server refuses nothing |
| `DrwProofs!NothingLeaks` | `[]NoLeak` | the server keeps only what a `Drw` still owns |
| `DrwProofs!InsideNeverPanics` | `[]InsideIsSafe` | `Map` of a rectangle inside the framebuffer never panics |
| `DrwProofs!MapIsShown` | `MapShows` (an action property) | after `Map` the window shows the framebuffer |
| `DrwProofs!AllHandedOut` | `[]PanicMeansExhausted`, for `IdUnit = 1` | `NewID` panics only when all ids are gone |
| `FontSetProofs!Invariant`, `Types` | `[]SInv`, `[]TypeOK` | the inductive invariant of glyph fallback |
| `FontSetProofs!OneAnswer` | `[]StableChoice` | a rune keeps its font, with four exceptions |
| `FontSetProofs!NothingBetter` | `[]BestCoverage` | the primary font stands in only when no font of the rune loaded |
| `FontSetProofs!ListOnce` | `[]NoDuplicates` | `fontFor` puts a font on the list once |
| `FontMatchProofs!MatchInvariant` | `[]MInv` | the inductive invariant of matching |
| `FontMatchProofs!WholeLists` | `[]ListsWhole` | sorting the database's lists in place loses no font |
| `FontMatchProofs!PreferredNames` | `[]NamesPreferred` | a family is that of the best name record |
| `FontMatchProofs!ClosestMatch` | `[]MatchIsClosest` | `Match` answers with a closest font |
| `FontMatchProofs!SameFontAgain` | `SameAgain` (an action property) | a pattern matched again gets its font again |
| `SessionProofs!SessionInvariant` | `[]VInv` | the inductive invariant of a connection as streams of words |
| `SessionProofs!DialComesOut` | `[]DialOutcome` | `Dial` fails with its socket closed or returns with its screen |
| `SessionProofs!StreamsStayAligned` | `[]StreamAligned` | both streams are cut where the messages end |
| `SessionProofs!NothingRefused` | `[]NoneRefused` | the server understands every request but what is too long, not whole items, or an image whose lines it pads |
| `SessionProofs!PanicsExplained` | `[]PanicMeans` | no decoder reads past its reply, and no encoder misaligns |
| `SessionProofs!LookupFindsOwn` | `[]LookupIsOwn` | `Lookup` finds each key in its own row |

### Conn: correlation

For every set of goroutines, every capacity, every bound and every `SeqMod`
above 0 (`ConnAssumption`; the code has 65536, 64 and 8). The test and the close
of `done` are two steps, so two goroutines that call `Close` at once can make the
second close panic. `CloseInv` says that whoever has passed the test either did so
before anybody closed, or overlapped with whoever did; from it follow `CloseOnce`,
for any number of closers, and `LoneCloser`.

`AnswerIsOwn` is about the end of a chain, and each link needs the one before.
`MutexInv`: the holder of `mu` is the one goroutine in mid-write, and it writes
the last request numbered. `NumberInv`: `seq` is the number of requests modulo
`SeqMod`. `ServerInv`: hence requests reach the server in order, none missing
while the connection works, so the server's count agrees with the client's.
`ClientInv`: hence answers return in order, each with its own request's number.
`WindowInv`: while no number was reused in flight, every request in flight lies
within `SeqMod` of the last one issued, so `pend` holds at its number either
itself, if it wants a reply, or nothing. `DeliveryInv`: hence what the reader
takes from `pend` for an answer is the call the answer is for. `PendInv` and
`HandInv` say that a registered call's channel is empty and that the reader holds
no registered call, from which `HandoffNeverBlocks` follows; these do not need
the window. `NatLemmas` has the arithmetic: two numbers less than `k` apart
differ modulo `k`, and counting in 16 bits is counting modulo `k`.

### Conn: refinement and streams

`JInv` is inductive relative to `IInv`. Its part `CallInv` says what the
abstract calls need: a call belongs to one goroutine and ends once, a failed
`Write` is the last word of a broken connection, what is in mid-write has not
been served, and every answer in the reader's hands, in a channel or returned is
of a request that was served. `Implements` then takes the actions of `Conn` one
by one: `Begin` is an `Ask` (or, where it reuses a number in flight, the step
`Reuse`) or a stutter, the server's reading of a request an `Answer`, a failed
`Write` a `Fail`, a `Wake` a `Return` (or `Foreign`), all else a stutter.

The streams need more than "in order", because the wire, the reader's hands, the
channel and the application share them. `OrderInv`: the events on the wire are
exactly the last ones emitted, and increase; `EventStream` itself, that what was
seen, the channel and the reader's hands make up the events before them, is the
other half of one inductive fact. `WireBarrier`: an answer is behind every event
emitted before it, so it is when the reader takes the answer (`CallBarrier`)
that all of those have been delivered. `ErrorInv`: an error raised is still on
the wire or has surfaced or was dropped, and no answer of a later request has
overtaken it.

### FontIndex

For any processes, fonts, directories, lists of directories given to each `Load`,
changes and faults (`FontIndexAssumption`). An index on disk may have been made by a process that
died long ago from directories that have since changed, so no invariant of one
process gives `IndexFresh`. `Sound` and `Whole` do: a set of fonts listed under a
stamp is right for everybody who has that stamp of a directory, be it the
directory itself now or another `Load` that took its fingerprint then. `ScanInv`
has it of each scan in progress, for the directories read so far, `IndexInv` of
the index, and `rename` hands it from one to the other. It survives a change of a
directory because the change moves the directory's time past every stamp
(`ClockInv`), which is why a file completed without such a change (`late`) is
excepted, as `font_add` shows it must be.

### Drw

For any number of drawers, sizes, rectangles, colours, request limits and id
masks (`DrwAssumption`, `Reachable`, `RowFits`). `IdInv`: `idNext` is the last id handed out,
so the next is new. `OwnInv`: no two drawers, and no pixmap and GC, share an id.
`HeldInv`: the server has exactly what the drawers hold at their places in `New`,
`Resize` and `Free`, with the sizes they believe; so a request of one never
touches another's, and `NoProtocolErrors`, which is itself part of `DInv`, is
kept. `MapInv`: the data a `Map` puts is the packed framebuffer, and the rows
counted so far are on the server; the lemmas about row and column arithmetic
(`PixelOfPoint`, `Rows`) carry a pixel through packing, chunk and slice. A chunk
is never empty by `RowFits`, and never above the limit. `AllHandedOut` has the
hypothesis `IdUnit = 1`, a mask that begins at bit 0: under another mask the
statement is false, and `drw_idmask` is the counterexample.

### FontSet

For any goroutines, runes, fonts, coverage, database, and strings
(`FontSetAssumption`, `TextAssumption`). Calls overlap and fonts are uninstalled
at any time in the invariant; only the conclusions about one font per rune are
for calls that do not race (`raced`) and no late `AddFallback` (`late`), without
which TLC refutes them. `KnownInv`: what a goroutine knows at each place of
`fontFor`, above all that every font of the rune before its place in the database
is recorded as one that did not load (`failed`). It is stable because the record
only grows and what has been parsed stays so. `CacheInv`: nil is cached only when
all fonts of the rune are in the record, or `NewFace` refused one, which gives
`BestCoverage`; that the record may be out of date is a matter of the code. `AloneInv`:
while calls do not overlap, the list at the store is the list that was searched.
`SettledInv`: everything answered for a rune is what the list and the cache
would answer now; a rune without a font stays without; and a font that is cached
and not in the list yet is being appended. The last two make up for the gap
between the entry in the cache and the append. A rune of a font that `NewFace`
refuses is exempt: there the search ends at the refused font, and a later,
longer list may well have the rune. So is a rune of a font that could not be read
when the rune was looked for and has been loaded since for another: the list then
has it, and is searched before the cache.

### FontMatch

For any files, name tables of any length, patterns, aliases and number of calls
(`FontMatchAssumption`). The loop of `readNameTable` is a function of the number of
records read; `LoopExists` in `NatLemmas` shows that there is one, and that it has
the best of the records so far follows by looking at the least number for which
it would not (`Least`), the form every induction over numbers takes here. What
`sort.SliceStable` returns is given by a permutation of the places that is ordered
by the score and then by the old place: that one exists is shown by inserting one
place after another (`SortsStep`), that a list whose head is a closest font keeps
it there by the order (`SortedFacts`). `Walked` keeps the database apart from what is still
to be scanned. `Settled` is what `SameAgain` needs: an answer remembered for a
pattern is at the head of its list and no font of the list is closer, and since
the sort is stable and only patterns of that style are matched in between, the
head stays.

### Session, Dial and Requests

For any displays, Xauthority files, set-up replies, goroutines, requests, images,
keyboards, bounds and widths of the length field (`RequestsAssumption`,
`DialAssumption`, `SessionAssumption`: keycodes are between 1 and the largest a
byte holds, as the protocol has it; those encoders that do not pad are given
whole words; every row of a keyboard has as many columns as the first).

`DInv` says of each stage of `Dial` what has been parsed and whether the socket
is open, so that a failure at any of them can be seen to close it. Nothing is
proved of the cookie: which entry is chosen is what the search says, and that it
is of the one scheme promised is false.

Of the encoders the proof computes. `FieldSums` adds up the fields of each of
the forty requests and finds the length the server expects of its fixed part,
and with the padding the number of words is that part and the variable part
rounded up; so `finish` does not panic, and the server understands whatever is
whole items. `PutImage` is division: as many lines as fit, and the rest; that its
bytes to a line are the server's at depths 24 and 32, and wherever a line is whole
words, is arithmetic on `bitsPerPixel` and the padding.

The stream to the server has no frame, so the invariant says which word follows
which. `Turns`: the holder of `mu` writes the request issued last. `Stream`: the
words on the way, with the next to be written at their end, are a chain (`After`)
from the first word of the first request not yet served. So where the head of
the stream is the first word of a request and its length field has not wrapped,
as many words as it says are that request; that they are all there is the case
because the chain can only have reached a later request through the last word of
this one. `Framed` is the same for the other direction: heads and tails
alternate, also where the server's going away cuts the stream.

`Replies`: what is on the way answers a request that was served, there is at most
one answer to each, and whoever issued a request with a reply waits for it until
the answer has been handed over (`OnTheWay`, `Handed`, `Owed`). With it the reply
a call decodes is one to its own request and has the length the decoder counts
on. `Mapped`: a keyboard map comes from a reply with a row for each keycode, which
`LookupFinds` turns into `LookupIsOwn`: the index computed for a row and column
is the place where `Symbols` has put that symbol, and the uint8 count of
`GetKeyboardMapping` does not wrap.

### Only model-checked

* Liveness (`ReplyOrDown`, `CloseStopsReader`, `CacheSettles`): it needs fairness
  and `ENABLED`, which the prover does not handle.
* `TextInField`: the width of a string is a recursive function of it, and a proof
  needs induction over strings.
* What the five violation runs refute, and with it the size of the windows in
  which it happens.
* Masks whose lowest bit is not bit 0 (`AllHandedOut` is for the others): there
  the property is false.

## What is not modelled

* The values in requests, replies and events other than lengths and counts:
  straight-line conversions. A name of 64 KiB or more, whose own 16-bit length
  would wrap inside the request.
* Colours and keysyms, which are tables; `VisualByID`, a search; `TextWidth` and
  `TextWidthClamp`, which only measure; the size of a pattern; the rows of the
  modifier map, which nothing looks up.
* The memory bound of a reply (`extra` in `reader`), and `bufio`. A server that
  breaks the protocol: replies have the lengths they announce.
* A call of `PutImage` with fewer bytes than its image has, whose slice would
  panic: its one caller, `Map`, packs what it needs.
* Two goroutines in `Match` at once: it sorts the database's lists in place
  without a lock, and nothing in the repository shares a `DB`.
* In `FontIndex`, left-over temporary files, which nothing reads, and file
  systems whose clock is too coarse to see two changes. In `Drw`, a caller that
  recovers from `NewID`'s panic half way through `Resize`.

## Plan

The components with behaviour are modelled, and every invariant that a run checks
is proved but `TextInField`. The order was that of the damage a mistake would do:
the connection first, then the drawing contexts, the index, glyph fallback, and
last matching and the streams of words. What could still be added: the widths of
strings, once a prover can do induction over them, and the fields of events and
replies, should a property ever depend on their values.
