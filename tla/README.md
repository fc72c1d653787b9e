# TLA+ models of the HTTP header core and its helpers

This directory holds TLA+ models of the code under `src/`, with the TLC
configurations that check them. `PROJECT.json` lists, for every definition
that models code, the source lines it translates. It also lists every run,
every mutant, every finding and every hazard.

## The system

`src/` holds three files.

* `src/unnamed/part_000` is `net/base/parse_number.cc`. It defines
  `ParseInt32`, `ParseInt64`, `ParseUint32` and `ParseUint64`, all built on
  `ParseIntHelper`. The conversion itself is done by `absl::SimpleAtoi`.
* `src/unnamed/part_001` holds `cert_error_id.h` (`CertErrorId`,
  `DEFINE_CERT_ERROR_ID`) and `cert_error_params.h`. The second file has
  declarations only.
* `src/src/http_parser/http_util.cc` is Chromium's `HttpUtil`, the HTTP
  header syntax core that `spec.md` describes.

How the parts of `http_util.cc` interact (`spec.md` §2):

1. The boundary locators find the end of the header block in a network
   buffer.
2. `AssembleRawHeaders` turns the block into a canonical form with NUL as
   the line delimiter.
3. A `HeadersIterator` walks that form.
4. The field parsers (`ParseRangeHeader`, `ParseContentRangeHeaderFor206`,
   `ParseContentType`, `ParseAcceptEncoding`, `ParseContentEncoding`,
   `ParseRetryAfterHeader`) and `NameValuePairsIterator` read single header
   values. They use a `ValuesIterator` or a `StringTokenizer`, the quoting
   codec, `StringToInt64` and `ParseUint32`. `ExpandLanguageList` and
   `GenerateAcceptLanguageHeader` build Accept-Language values.
5. Policy code calls the classifiers (`IsSafeHeader`, `IsMethodSafe`,
   `IsMethodIdempotent`, `IsNonCoalescingHeader`, `IsValidHeaderName`,
   `IsValidHeaderValue`, `IsParmName`) with a bare name or method.

Nothing in the code is concurrent, and nothing is persisted. What is hard
to test is these things:

* long sequences of calls that share state: iterator cursors and the
  `valid_` flag, the caller's outputs across successive `ParseContentType`
  calls, and a locator re-invoked after every read;
* early returns that leave outputs half-written;
* the `.data()` re-wrapping of string pieces, which reads on to the first
  NUL of the whole string;
* the behaviour of external code (absl, googleurl's `StringTokenizer`).

Strings are sequences of one-character strings. `NUL` is a model value
that stands for the byte `\0`. Whole words such as `bytes` or `charset` are
single symbols where a property does not look inside them.

## Modules

| Module | Models | State and actions |
|---|---|---|
| `ParseIntTypes` | the types and calls of `part_000` | constants only: type ranges at width `Int32Bits`/`Int64Bits` |
| `ParseIntContract` | `spec.md` §6-7: what a parse call promises | one atomic call |
| `ParseNumber` | `part_000` | `output`, `error`, `result`, `call`; one action per entry point, over `ParseIntHelper`'s operators |
| `CertErrorId` | `part_001` | `id`; `DefineCertErrorId(n)` chooses whether an equal literal is pooled |
| `EndOfHeadersContract` | `spec.md` §4.5: the atomic locator answer | `held`, `pending`, `answer`; `Read`, `Locate` |
| `HeaderBoundary` | `LocateEndOfHeaders*` (lines 539-571) | the stream, the received bytes, the scan (`i`, `last_c`, `was_lf`); `Receive`, the two entry points, `ScanByte` (one loop iteration), `ScanExhausted` |
| `QuoteCodec` | `Quote`, `Unquote`, `StrictUnquote` (lines 461-521) | `UnquoteImpl`'s loop, one character per `UnquoteStep`; early returns in the call |
| `HttpText` | shared helpers | operators: `IsLWS`, `IsTokenChar`, `IsToken`, `IsValidHeaderName`, `IsValidHeaderValue`, `TrimLWS`, `StringToInt64`, the tokenizer, `ValuesIterator::GetNext` (`ValuesNext`) |
| `RangeHeader` | `ParseRangeHeader` (lines 205-264) | `header`, `cur`, `ranges`, `ret`; `ParseRangeHeader` (up to the loop), `RangeStep` (one loop iteration), `RangeLoopExit` |
| `ContentRange` | `ParseContentRangeHeaderFor206` (lines 272-311) | the three outputs and `ret`; one action that branches over each conversion outcome the `&&` chain reaches |
| `Encodings` | `ParseAcceptEncoding`, `ParseContentEncoding` (lines 902-997) | `fn`, `value`, the caller's set before (`given`) and now (`set`), the tokenizer cursor; per function: the call up to the loop (forbidden characters return before `clear()`), one loop iteration per token, the exit (for Accept-Encoding the `*` default and the alias mirrors) |
| `FieldValues` | `ParseRetryAfterHeader` (313-328), `ExpandLanguageList` (655-675), `GenerateAcceptLanguageHeader` (680-704) | `retryAfter`, `out`, `ret`; one action per call; `AcceptLanguageBuilder` and the q-value loop as folds over the split list |
| `Quoting` | the two users of `UnquoteImpl`, and a `ParseInt` caller, side by side | instances of `QuoteCodec`, `NameValuePairs` and `ParseNumber`, clashing variables and constants renamed; `user` picks the one that runs |
| `FieldParsers` | the field parsers and the policy classifiers side by side | instances of `RangeHeader`, `ContentRange`, `Encodings`, `FieldValues`, `ContentType` and `HeaderPolicy` with their clashing variables renamed; `field` picks the one that runs, the others stay at their `InitOn` idle state |
| `HeaderPolicy` | `IsSafeHeader`, `IsMethodSafe`, `IsMethodIdempotent`, `IsNonCoalescingHeader` (lines 329-417), `IsParmName` (451-459) | `fn`, `arg`, `result`; one action per classifier call. The two name tables are sets of names; a name is a sequence of words and dashes, and the constant `CaseFold` gives each capitalised word its lower-case spelling |
| `ContentType` | `ParseContentType` (lines 72-203) | `mime`, `charset`, `hadCharset`, `boundary`; one action per call, with the parameter loop as the `RECURSIVE` operator `Params` |
| `NameValuePairs` | `NameValuePairsIterator` (lines 809-901) with `UnquoteImpl` | the iterator's fields; `Init` is the constructors, `GetNext` one action |
| `HeaderAssembly` | `AssembleRawHeaders`, `HeadersIterator`, `ConvertHeadersBackToHTTPResponse` (lines 526-782) | `AssembleStart`, `AssembleLine` (one line), `AssembleFinish`, `HeadersGetNext`, `HeadersAdvanceTo`, `ConvertAndReassemble`; a second assembly follows |

Each `MC*` module gives the constants their values. Each `MC*_*.cfg` is
one run.

Three choices run through all the modules:

* **External code is nondeterministic.** `StringToNumber` returns the set
  of outcomes of `absl::SimpleAtoi`. A failed conversion may leave any value
  of the type. `StringTokenizer` is modelled by its documented behaviour: a
  quote-aware cursor, with empty tokens skipped unless asked for.
* **Refinement.** `ParseNumber` implements `ParseIntContract`, checked as
  `ImplementsContract == Contract!Spec`. `HeaderBoundary` implements
  `EndOfHeadersContract` under a mapping from the received bytes, the
  remaining stream and the last answer. This is checked as
  `ImplementsLocatorContract`.
* **Composition.** Modules that run side by side under one configuration
  (`FieldParsers`, `Quoting`) instantiate each component with
  `INSTANCE ... WITH`, renaming the variables two components both name.
  Each component gives an `InitOn(...)` so that an unused one is a single
  idle state; a `field` or `user` variable picks the one that steps.
* **Faulty variants.** Each one is marked as a faulty variant in a comment
  and defined before the mapped definition it replaces. It is the mutant of
  one property.

## Runs

Pass runs:

| Run | Checks | Shows |
|---|---|---|
| `header_boundary` | `TypeOK`, `ImplementsLocatorContract`; streams of 0-6 bytes over `h CR LF`, reads of 1-2 bytes | however the reads split the stream, the locator refines `EndOfHeadersContract`: the end reported is that of the first blank line of the whole response, "not found" comes only when there is none, and the contract's fairness makes the answer come |
| `quoting_calls` | `TypeOK`, `DecodesAsSpecified`, `RoundTrip`, `NameWellFormed`, `QuotedPairsRoundTrip`, `ImplementsContract`; strings of up to 5 characters over `a " \`, and `Quote` of strings of up to 3; pair lists as under Bounds; number texts of up to 3 characters over `0 1 7 8 - + a` | both decoders do what the `spec.md` §4.2 grammar says (a `RECURSIVE` reference); `Quote` round-trips in both modes; names are never empty or untrimmed; `name=Quote(value)` lists come back unchanged in both quote modes, delimiters and `=` inside quotes included; every `ParseInt` entry point, format and error pointer refines `ParseIntContract`, which fixes the return value, leaves `*output` alone on failure and gives the error class |
| `field_calls` | `TypeOK`, `AllRangesParsed`, `ResetOnFailure`, `AcceptEncodingAsSpecified`, `ContentEncodingAsSpecified`, `ExpandedAsSpecified`, `GeneratedAsSpecified`, `NewTypeDropsStaleCharset`, `SameTypeKeepsCharset` | see below |
| `assembly_headers` | `HeadersAsFolded`, `HeadersAreClean`, `SeekFindsAllNamed`, `ReassemblyIdempotent` | see below |

What `field_calls` shows, each parser on every value of its field:

* a Range header never succeeds having dropped a malformed range;
* whatever step of the && chain fails, and whatever a failed conversion
  left behind, a failed Content-Range call ends with all outputs -1;
* the Accept-Encoding and Content-Encoding sets, and whether the call
  succeeds, are those of `spec.md` §4.6's grammar, written as sets of
  q-value forms rather than the code's character tests (`StartsWith`'s
  argument order, the lengths 1, 2 and 5, the `*` default, the mirrors);
* `ExpandLanguageList`, on a list without empty items, returns the
  expansion of §4.6 with duplicates dropped in first-seen order, stated as
  three facts about the result (distinct, same members, same order);
* `GenerateAcceptLanguageHeader` gives the k-th language `q=0.d` with
  `d = max(11 - k, 1)`: never `q=0`, lists of 11 and 12 languages included;
* over up to 3 Content-Type headers, one that changes the media type drops
  the old charset, and one of the same type, in another case and without a
  charset, changes nothing (both action properties).

The policy classifiers run in the same composite, so that every call is
an action TLC fires; no property checks their answers, which are table
lookups a property would only restate.

What `assembly_headers` shows:

* the iterator reads exactly the folded headers of every well-formed input;
* every header passes `IsValidHeaderName` and `IsValidHeaderValue`: no
  header ever carries CR, LF or NUL;
* `AdvanceTo` gathers exactly the values of the sought name, in any case;
* for an input with a status line and no NUL, converting the block back and
  assembling it again gives the same block.

Violation runs (one property each; each is a finding in `PROJECT.json`):

| Run | Property | What TLC finds |
|---|---|---|
| `parse_whitespace` | `ImplementsContract` | `ParseInt32("1 ")` succeeds: absl trims whitespace, which the contract and the digit-only classification (lines 71-79) do not allow for |
| `cert_id_pooling` | `DistinctIdsUnequal` | two IDs with the same text compare equal when the toolchain pools the literal (the TODO at lines 24-25) |
| `range_spec` | `RangesAsSpecified` | `bytes=-1` is rejected. Line 248 converts `first_byte_pos` for the last position, and both conversions read to the end of the header (`.data()`), so `bytes=0-1` fails too |
| `field_failure` | `FailureLeavesOutputsDefined` | `spec.md` §7 asks that a false return leave every output as passed or reset. `ParseAcceptEncoding` clears the caller's set (line 907) and inserts entry by entry (line 916), so `*,br br` returns false leaving `{"*"}` in the set. `ParseContentEncoding` fails part-way after its `clear()` the same way. `ParseRangeHeader` pushes a range before reading the next (line 261), but a later range fails only when an embedded NUL ends the `.data()` read early |
| `content_type_empty` | `EmptyCharsetKeepsCharset` | a quoted empty charset counts as a charset (line 169): `*/*;charset=u` then `*/*;charset=""` empties the charset, against `spec.md` §4.6 and the comment at lines 187-189 |
| `content_type_wildcard` | `StoredTypeMeaningful` | the `*/*` and slash checks look at the whole value (line 183): `*/*;charset` stores `*/*`, and `t;x=/` stores the slash-less `t`, against `spec.md` §4.6 and the comment at lines 179-180 |
| `assembly_nul` | `EmptyLineOnlyAtEnd` | NUL is erased after the lines are terminated (line 641): a line of NUL bytes leaves an empty line inside the canonical block, which `spec.md` §2 reserves for its end. `HeadersIterator` skips it, so the headers after it are still read |
| `nvp_invalid` | `SubsequentCallsFail` | `GetNext` never reads `valid_`: after the malformed `=`, the input `=;\` yields the pair (`\`, empty) |

Observed while modelling, with no run of their own (hazards in
`PROJECT.json`):

* **`ParseContentRangeHeaderFor206`.** Its positions are converted through
  `.data()` too (lines 294-304). So `bytes 0-0/1` is rejected, and
  `bytes -0␀/1` is accepted as (0, 0, 1).
* **Empty language items.** `AddLanguageCode` uses an empty string to
  mean "first" (line 47): `,en` gives `en`, but `en,,fr` keeps the empty
  item as `en,,fr`. `ExpandedAsSpecified` is stated for lists without
  empty items.
* **Blank encodings.** A token of LWS only trims to `""`, which is inserted
  (line 917).
* **Empty status line.** If the input starts with a line break, the status
  line is empty (line 614). On reassembly the first header becomes the
  status line. This is why `ReassemblyIdempotent` requires a status line.
* **Boundary of a rejected Content-Type.** The boundary is written inside
  the parameter loop, before the value is rejected (line 175), so
  `*/*;boundary=x` overwrites the caller's boundary. `spec.md` states no
  rule for it.

Every property of a pass run has a mutant: a faulty variant under which TLC
finds that property violated. Examples:

* `RangeStepSkipBad` breaks `AllRangesParsed`;
* `CharsetUpdatedNoReset` breaks `NewTypeDropsStaleCharset`;
* `ScanByteCrCloses` breaks `ImplementsLocatorContract`;
* `AdvanceToCaseSensitive` breaks `SeekFindsAllNamed`;
* `ConvertBackNoLineBreak` breaks `ReassemblyIdempotent`.

## Bounds

* **Integer widths.** These are constants. `Int32Bits = 4` and
  `Int64Bits = 7` put each boundary within a text of 3 characters: `7`/`8`,
  `-8`/`-9`, `63`/`71`. The code is a template, so its boundary logic is
  the same at every width. The HTTP modules use `Int64Bits = 5`, so
  positions overflow at 16.
* **Range headers.** These are `bytes`, `" bytes"` or junk, then `=` and
  every body of up to 5 characters over `0 1 - , space NUL`.
* **Content-Range values.** Every field is up to 2 characters over
  `0 1 NUL`, plus fields with leading LWS and malformed layouts.
* **Content-Type values.** These are one of 5 media types, including `*/*`,
  an upper-case type and a type without a slash. Each is followed by up to
  2 of 6 parameters: `charset=u`, ` Charset=U`, `charset=""`,
  `boundary="u;"`, `charset` with no value, and `x=/`. A response has up to
  3 calls, enough for set / keep / change sequences.
* **Policy classifiers.** 21 header names: listed names in lower, mixed
  and upper case, `proxy-` and `sec-` names in three cases, `proxy`,
  `proxyx`, `sec`, `SEC-`, `x-sec-x` (the prefix only at the start), a
  near miss `set-cookie2` and an ordinary name. 8 methods, `get` among them
  (methods compare case-sensitively). 9 parameter names, one per character
  class `IsParmName` tells apart.
* **Name/value pairs.** Inputs are every string of up to 4 characters over
  `a = " \ space ;`, plus lists of 1-2 properties built as
  `a=Quote(v)`, with `v` of up to 2 characters over `a " \ ; =`. Each input
  gets up to 3 `GetNext` calls, in both modes of each option.
* **Encodings.** Accept-Encoding values are a name (lower and upper case,
  an alias, LWS inside, blank, `*`) with one of 14 q suffixes that reach
  each branch of lines 935-960, alone or before a second item; plus a
  quoted and an empty value. Content-Encoding values are one or two of 8
  items. The caller's set is empty or holds a leftover.
* **Retry-After and Accept-Language.** `Int32Bits = 3`, so `9` overflows
  `uint32_t`. Language lists cover shared and distinct families,
  duplicates, padding, empty items, two-level subtags and lists of 11 and
  12 languages: the q floor is reached at the tenth.
* **Header assembly.** An input is optional slop, then a status line
  (`HTtp`, `a` or none), then up to 3 lines, each after CRLF or LF. A line
  is one of `a:b`, a continuation ` c`, `b` (no colon), NUL, or `A :`
  (upper case, LWS before the colon). An optional CRLFCRLF ends the input.
  Among these inputs:
  * 692 are well formed;
  * 576 of those have two headers or more;
  * 352 have continuations.

## Fairness

Only `HeaderBoundary` checks liveness, through `ImplementsLocatorContract`:
the contract's specification has weak fairness of its read and of its
atomic locate, so refining it includes eventually answering. The detailed
specification assumes weak fairness of `Receive`, of both entry points,
of `ScanByte` and of `ScanExhausted`.
`spec.md` §4.5 and §5 make re-invoking the locator after each read the
caller's contract, and the loop has no blocking step. The other modules
model calls that end. Their configurations disable the deadlock check,
because a behaviour stops when the caller's calls are done.

## Not modelled, and why

* **The histogram helpers (lines 714-739).** These are lookups.
* **Header names at character level.** `HeaderPolicy` spells a name in
  words and dashes. `LowerCaseEqualsASCII` compares byte by byte, so a name
  that differs from a listed one inside a word is a different word here;
  words the tables do not name need no finer spelling.
* **`MCParseNumber_contract.cfg` and `MCNameValuePairs_pairs.cfg`.** These
  configurations are superseded by the composites, whose runs check the
  same properties; no run uses them.
* **`CertErrorParams`.** It is declarations only.
* **Certificate verification, networking, TLS and QUIC.** These are outside
  the repository.
