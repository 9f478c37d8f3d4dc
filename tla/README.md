# libxfsx: models, checks and proofs

libxfsx reads, writes and converts BER files - between definite and indefinite
forms, to and from XML, to and from libxml2 trees. This directory holds TLA+
models of its core, TLC configurations that check them on small instances, and
proofs, checked by TLAPS, of theorems about the writer, the readers, the XML
reader and the converters to BER. Paths below are relative to `src/`.

## 1. The system

The library is single-threaded; what makes it hard is not concurrency but
buffers that move under their users, counters that must agree with each other
over whole files, and errors and ends of input in the middle of all that.

| component | state | operations | interacts with |
|---|---|---|---|
| `Simple_Writer`, `xfsx/scratchpad.cc` | window `begin_..end_`, `local_pos_`, `global_pos_`, `do_write_` | `write`, `begin_write`, `commit_write`, `flush`, `clear`, destructor | owns a backend; every converter writes through it |
| `Writer` backends | a pad (vector and head), a file | `prepare_write`, `write_some`, `write`, `flush`, `clear` | write(2) |
| `Simple_Reader` | window `p_`, `local_pos_`, `global_pos_`, `eof_` | `next`, `forget`, `check_available`, `pos`, `set_pos` | owns a backend; every converter but those from libxml2 reads through it |
| `Reader` backends | a pad, `eof_` | `read_more` | read(2), mmap(2) |
| `Unit`, `TLC`, `xfsx/xfsx.cc` | tag, length, sizes of the header | `load`, `read`, `write`, `init_*` | pointer into the window of a reader |
| `read_next`, `xfsx/tlc_reader.cc` | none of its own | one unit per call | `Simple_Reader`, `TLC` |
| BER to BER, `xfsx/ber2ber.cc` | stacks of lengths, counters, tags and writers | `write_identity`, `write_indefinite`, `write_definite` | `read_next`, `write_tag` |
| `xml::Reader`, `xfsx/xml.cc` | offsets into the window | `next`, `tag`, `value` | `Simple_Reader` |
| XML to BER, `xfsx/xml2ber.cc` | stack of open elements and of writers | `xml::write_ber` | `xml::Reader`, `Simple_Writer`, codecs |
| BER to XML, `xfsx/ber2xml.cc` | stack of open tags, skip, first, count, tag matcher | `ber::write_xml` | `read_next`, `byte::writer` |
| libxml2: `ber2lxml`, `lxml2ber`, `xml2lxml` | the tree | conversions | libxml2, detector |
| `Vertical_TLC`, TLC iterators | stack of heights, zero skipping | `read`, `skip`, `skip_children`, `++` | traversers, searches |
| codecs: integers, BCD, hex, strings | none | `decode`, `encode` | all converters |
| paths, traversers, matchers | height and place of the match in a path | `Basic_Matcher`, `search`, `advance_*_match`, `Traverse` | `Vertical_TLC`, TAP |
| detector, `xfsx/detector.cc` | definitions, variables found, result | `detect_ber`, `detect_xml` | `ber2lxml`, `xml2lxml`, the file system |
| TAP, `xfsx/tap/traverser.hh` | a state, sums and times per functor | `CDR_Count`, `Charge_Sum`, `Timestamp`, `Audit_Control_Info` | traversers, `bed` |
| `bed` | options | one command per run | all of the above |

What makes each of them correct:

- **writer**: the bytes come out once and in order, whichever call they went
  in with; nothing stays behind in a buffer; the pointers follow the buffer;
  buffers stay bounded; what a failed write leaves behind is a prefix.
- **reader**: the window shows the input without a gap, delivers what was asked
  for or reports the end, and says truthfully whether old pointers are valid.
- **`read_next`**: the units of the input in order, no truncated one, none
  lost, and the loop ends.
- **BER to BER**: the same forest of tags in another form; unbalanced input is
  refused.
- **XML to BER and back, trees**: the same forest; nesting errors are refused.
- **codecs**: decoding what was encoded gives the value, minimal forms are
  minimal.
- **BER to XML**: the document stands for the same forest, or for what was
  searched for; start and end tags are balanced.
- **iterators, matchers**: each tag is shown once, at the height it has in the
  tree; a search finds the tags at the path and no others.
- **TAP**: the audit record agrees with the records it is computed from, and
  writing it changes nothing else in the file.
- **paths, detector**: what was asked for is what is looked for; the format is
  that of the first definition that fits, and of nothing an earlier one found.

What is hard to test in this code is listed, with lines, under `hazards` in
`PROJECT.json`. In short: a window that goes stale when a pad is reallocated or
moved; block boundaries in the middle of a call; a write-through that bypasses
bytes waiting in front of it; errors half-way, followed by destructors; lengths
next to 2^64; several tags that end on the same octet; headers whose size
changes with the length; writers used again; input that ends anywhere; heights
and matches that skipped tags have to leave as they are; carries between the
octets of a word; variables that outlive the definition they were read for.

## 2. Modules

```
Scratchpad --- Writer --- SimpleWriter
     |                         |  \......> ByteSink      (implements)
     |                         +--- SimpleWriterProofs
     |
     +------ Reader --- SimpleReader --- MCSimpleReader
                |             |  \.......> Window        (implements)
                |             +--- SimpleReaderProofs
                +------ ReaderProofs ---/ /
                |                        /
                +------ TlcReader ------/
                              |  \.......> UnitStream    (implements)
                              +--- MCTlcReader

Forest --- Levels --- Ber2Ber --- MCBer2Ber, Ber2BerProofs *
   |          |
   |          +--- LevelsProofs, which every proof module with a * extends
   |          |
   |          +--- Xml2Ber --- MCXml2Ber, Xml2BerProofs *
   |          |      |
   |  Window -|--- XmlReader
   |          |
   |          +--- Ber2Lxml --- Lxml2Ber --- LxmlRoundTrip --- LxmlProofs *
   |
   +--- XmlDocument --- Ber2Xml --- MCBer2Xml      (XmlDocument: Xml2Ber, too)
   |
   +--- VerticalTlc --- Matcher --- Aci --- Traversal --- MCTraversal

Words --- Bcd ----------\
     \--- IntegerCodec --- Header, Path, Detector --- Codecs --- MCCodecs
```

| module | models | how |
|---|---|---|
| `Scratchpad` | `class Scratchpad`: the vector `v_` and the head `off_` | a record; the methods are operators from a pad to the changed pad. A cell holds the position of the byte in the client's stream, or `Garbage` if it was never written (`raw_vector` does not initialise) |
| `Writer` | the three `Writer` backends and `Sink_File` | a record of pad, file and what the file got; `Kind` is the dynamic type. Every `...Throws` operator is the state an exception of write(2) leaves |
| `SimpleWriter` | `Simple_Writer` and the backend it owns, from construction to the destructors | one action per method and outcome; the client is any legal sequence of calls |
| `ByteSink` | what a client of a writer relies on | abstract: accepted and delivered bytes, until an I/O error, or until bytes overtake others |
| `Reader` | `Simple_Reader` and its backends | a record again, `Next`, `Forget` and `Available` are the methods; sizes wrap around at `Word` |
| `SimpleReader` | a reader under any client | one action per method |
| `Window` | what a client of a reader relies on | abstract: a window that moves over the input, without buffers |
| `TlcReader` | `read_next()` in the loop of every converter from BER | the steps of one call - `next(20)`, `load`, `next(k)` - are actions |
| `UnitStream` | what the loop over `read_next()` relies on | abstract: the units come out in order |
| `Forest` | BER data: forests of tags and the sequence of units that encodes them | pure definitions, the reference for all converters |
| `Levels` | the stack of writers of `ber2ber.cc`, `xml2ber.cc` and `lxml2ber.cc`, and the stack of open tags of the last two | operators on records; a writer is the sequence of units in it and its `pos()` |
| `Ber2Ber` | `write_identity()`, `write_indefinite()`, `Ber2Def` | one action per branch of their loops; `target` is the converter that runs |
| `XmlReader` | `xml::Reader` on the window of a `Simple_Reader` | the two loops of `next()` are actions; the source is `Window`, so what holds here holds over every reader that implements it |
| `XmlDocument` | XML documents that stand for forests | pure definitions, the input of one converter and the reference for the other |
| `Xml2Ber` | `Xml2Ber` and the `xml::Reader` it owns | one action per kind of tag |
| `Ber2Lxml` | `Tree_Generator`, and libxml2 as `ber2lxml.cc` and `lxml2ber.cc` use it | one action per branch of `generate()`; a tree is its elements in document order with their depths |
| `Lxml2Ber` | `Lxml2Ber` | one action per branch of `process()` |
| `LxmlRoundTrip` | the two in a row, over one tree | composition |
| `Ber2Xml` | `Ber2Xml` with `Tag_Matcher` and `process_blocks()`, and `write_indent_unber_tl()` | the object is a record; one action per branch of the loops; output is a sequence of tags with their level |
| `VerticalTlc` | `Vertical_TLC`: the stack of lengths from which heights follow, `read`, `skip`, `skip_children`; the iterators of `Vertical_Reader` and `Skip_EOC_Reader` over it, with `skip_zero_` | records; a method is an operator from an object to the object it leaves |
| `Matcher` | `Vertical_TLC_Proxy` and `Basic_Matcher` | records and operators |
| `Aci` | the functors of `tap/traverser.hh` | a record per functor; being shown a tag is an operator. TAP files and the totals and times of their records are the reference |
| `Traversal` | every loop over the two: iteration, `search`, matches, `Traverse`, `compute_aci`, `write_aci` | `job` says which; one action per round |
| `Words` | registers, and the operations of C and of the instruction sets on them | sequences of octets; what leaves an octet goes to the next one |
| `Bcd` | `bcd/decode.hh`, `bcd/encode.hh`: bytewise, tables, SWAR, SSSE3; `hex_impl.hh` in its three styles | one operator per step of a word: scatter, convert, gather; for hex the two halves of a round of each loop |
| `IntegerCodec` | minimal lengths, `encode_int`, `decode_int`, booleans, `clz`, `clrsb`, `dec_digits` | octets of fixed width |
| `Header` | `Unit`: `init_*`, `write`, `load` | octets |
| `Path` | `path::parse()`, `ranges()` | parts of a path are records |
| `Detector` | `detector.cc`, `xml2lxml.cc`, `verify_filename_part()` | a header is a tree, a name is a sequence of pieces |
| `Codecs` | the loops over all of these | `job` says what is to be done; one action per round or call |
| `SimpleWriterProofs` | - | theorems about the backends and `SimpleWriter` |
| `ReaderProofs`, `SimpleReaderProofs` | - | theorems about the methods of a reader; about a reader under any client, and about the loop over `read_next()` |
| `LevelsProofs` | - | induction over the naturals; theorems about encodings, the stack of writers and the counters |
| `Ber2BerProofs`, `Xml2BerProofs`, `LxmlProofs` | - | theorems about the converters that use them |

Operators whose comment begins with "A fault" are not part of any
specification. Each is a mutation of the definition in front of which it
stands, and shows that the property named with it in `PROJECT.json` notices
when the code has that bug.

### The writer

`backend` is `*backend_`; `begin` and `end` are positions in the pad with 0 for
null; `globalPos`, `localPos` and `doWrite` are the members of the same names.
`reserved` is the `k` of a `begin_write()` that has no `commit_write()` yet,
`phase` the life of the object: `open`, `thrown` (an exception has left a
method), `unwound` (`~Simple_Writer` has run, the backend's destructor is next),
`closed`. `ioError` and `failedAsserts` are history.

A method with several outcomes is several actions: `WriteFits`, `WriteGrows`,
`WriteGrowsThrows`, `WriteRefused`, `WriteLarge` and `WriteLargeThrows` are
`write()`; and so on. Unwinding is `Throw` followed by `Destroy`, which may
happen between `begin_write()` and `commit_write()`.

### The reader

`r` is the whole reader: pad, `taken` (bytes handed out by the backend), `size`
(bytes in the input), `hitEnd` (`eof_` of the backend), `first`/`second` (`p_`),
`local`, `global`, `eof`. `origin` is history: how far `set_pos()` has moved
`pos()` away from the number of bytes consumed. In `TlcReader` the content of
the input is a sequence of units; a byte is its position, so that decoding a
header means to look up the unit that starts there.

### BER to BER

A forest is the sequence of its nodes in document order with their depths.
`Units` encodes it, `AsIndefinite` and `AsDefinite` give the forms the
converters are to produce. `units` is the encoding of a forest, cut off after
any unit, with a stray end-of-content unit (`WithStray`), or with a definite
length that is one octet too short (`WithShortLength`). The converters are then
the loops of the source over their stacks. Tags are one octet and have no
value: nothing in the converters depends on it, except that an end-of-content
unit is recognised. `pc = "undefined"` is the state after an access below a
stack.

### XML to BER and back

A document is the sequence of its tags, each with the length of the text in
front of it, derived from a forest in a terse or in a busy style (declaration,
comments, empty-element tags, white space). Its characters are positions;
`marks` holds the places of `<` and `>`. `k`, `old` are `k_`, `low_` and
`old_k_second`; `pc` names the loop `next()` is in, or its result. The text of a
primitive element reaches the converter as the range `value()` returns, so that
a wrong offset gives a content of the wrong length.

In `Ber2Xml`, `c` holds the members: `cons`, `lengths`, `written` are the stacks,
`matched`, `pos`, `matchOff` those of `Tag_Matcher`, `found` and `range` are
`match_cnt_` and `search_ranges_pos_`, `level` is `indent_level_`, `out` the tags
printed so far. What a search should print is defined over the tree (`Wanted`),
by paths of nodes. When a loop has skipped to a place that is not the start of
a unit, `pc` is `"derailed"`: from there on it decodes contents as headers.

### Trees

`tree` is all of the document that the two converters share: elements with
their depth, shape, `definite="false"` and text. `nodeStack` stands for
`node_stack_` and, with one entry more, for `rank_stack_`. `todo` is the local
stack of `process()`, with 0 for null.

### Traversals

`in` is the buffer: its units, where they start, and its size, which may cut off
the last one; `it` and `p` are the iterator and the proxy of the loop, each with
its `Vertical_TLC`; `found` is what the loop was given, with heights; `m` is the
matcher, `f` the functors, `out` what `write_aci` has written. Heights are never
in the input: `IterateTrue` compares them with the depths of the forest that was
encoded. TAP files are a batch of records of seven kinds, each of which brings
other charges and time stamps; `TotalsTrue` and `TimesBest` define the audit
record over the records, without any traversal.

### Codecs

Registers are sequences of octets of the width they have in C. The variants of
BCD are the template arguments of `decode()` and `encode()`; the reference is
`DigitsOf` and `NibbleOf`, the format itself. The look-up tables of
`bcd/decode.hh`, which a script generates, are given by the formula that
generates them. A header goes through the calls of `Unit` in the orders in
which the library makes them; its value octets are not looked at.

The detector is a loop over definitions. For each, the header is read tag by
tag - `process_tag()` of `xml2lxml.cc` - then the variables are read, which must
not change `var_map` unless all are found, then the result is made. For a BER
file the tree is that of `Ber2Lxml`; the tag `"parse error"` stands for what only
that reader can throw.

## 3. Runs

| run | instance | shows |
|---|---|---|
| `writer_file` | blocks of 3, writes up to 7, reserves up to 5, 10 bytes in all, write(2) failing after any number of bytes | pointers valid whatever is called (part of `IInv`); until a write-through bypasses unreported bytes: nothing lost, repeated or reordered at block boundaries, pad bounded, flush and destructors deliver everything, a torn file is a prefix (`IInv`); implements `ByteSink`, its liveness included |
| `write_through` | blocks of 3, writes up to 4, 7 bytes in all | *violates* that the bytes are there, in order, after a write-through as well |
| `writer_scratchpad` | a growing pad, `clear()` | the same without a file: windows follow a pad that grows into other memory, and destructors deliver everything |
| `reader` | blocks of 3, inputs up to 10, all backends, failing reads | window intact and pad bounded (`IInv`), requests fulfilled, result of `next()` true; implements `Window` |
| `tlc_reader` | up to 3 units of 6 shapes, blocks of 5, peek of 3 (for 20), 2^4 for 2^64, input cut off anywhere, all backends | `tlc.begin` valid (`LoopIInv`); implements `UnitStream`; the loop ends |
| `ber2ber` | every forest of up to 4 nodes, contents of 0 and 3 octets, long lengths from 4 on; cut off after any unit, an end-of-content too many, or a length too short | same forest in the form asked for, or refused; the counters find every end; writers used again start empty and the root is kept (`IInv`) |
| `xml2ber` | documents of every forest of up to 3 nodes in both styles, cut off behind or inside of any tag or with an end tag too many; blocks of 11, all backends | the tags and texts of the document, whatever the window did; offsets and writers in step (`IInv`); same forest; unbalanced documents, and no others, are refused; terminates if tags and texts fit |
| `lxml` | every forest of up to 3 nodes, cut off after any unit or with a stray end-of-content; with and without `count`, `stop_after_first`, `dump_indefinite` | the tree shows the input up to where it was read; the stacks of both converters agree with it (`IInv`); what comes back are the tags of the tree, unless one is empty |
| `traversal` | every forest of up to 4 nodes for the iterators, cut off at any octet, with zeros between roots, a stray end-of-content, a tag too short, or one with a length next to 2^64 (`Word = 1024`); paths of up to 2 tags; TAP files of up to 2 of 7 kinds of records | every tag once and at its height; broken input, and no other, is refused, but for sizes that wrap; matches are those of a reference; the audit record is that of the records; `write_aci` changes nothing else |
| `ber2xml` | every forest of up to 3 nodes, cut off or with a stray end-of-content, `count`, `stop_after_first`, `skip_zero`, blocks of 16, paths of up to 2 tags, 4 sets of ranges | the document of the forest, or of the tags searched for; unbalanced input, and no other, is refused; lines indented by depth |
| `search_gap` | the same | *violates* that a search for a path that begins anywhere is balanced |
| `codecs` | every variant of BCD in both byte orders on inputs longer than two words; values around every power of two that changes a size; escapes, broken ones included; paths of up to 3 parts, predicates of none to 3 ranges; two definitions over headers of up to 3 versions | all variants are the format; what is read back is what was written, in the sizes computed before; the path and the ranges asked for; the format of the first definition that fits |

### Bounds, and why they are enough

- Blocks of 3 bytes are the smallest in which a position is at the start, in
  the middle or at the end of a block. Requests of up to two blocks and a bit,
  and streams of more than three, cover a call that completes a block, writes whole
  ones and leaves a remainder; `BoundAssumption` of `MCSimpleReader` states these
  relations for the reader. The theorems of section 5 hold for all of these constants.
- `Word = 16` in `tlc_reader` leaves room for the inputs and places the
  last two shapes at `tl + length = Word - 1` and `= Word`: one makes the
  rounding to blocks overflow, the other the sum.
- `Word = 1024` in `traversal` is larger than every input (part of `TypeOK`). Lengths
  of `Word` less 1, `tl_size`, and `tl_size` + 1 are the ends of the range in which
  `tl_size + length` wraps, and the first one below it, which is refused.
- Forests of 4 nodes and 4 levels include three tags closed by one octet,
  siblings behind a closed tag (writers used again), a definite tag at the end
  of an indefinite one and the other way around. With `Short = 4`, contents of
  0 and 3 octets make headers of both sizes, so that a changed header can make
  the header around it change as well.
- In `xml2ber`, tags are 3 to 5 characters and contents 3, so that files take one
  to five blocks of 11, with boundaries in every part of tags and texts; most
  documents still meet `TagsFit`, the precondition of `Terminates`. Sources in
  memory get smaller forests: they have one block only.
- `MaxCount = 2` in `lxml` stops the loop before the first, inside of and behind
  a tag with children.
- Two tags and paths of two make a tag match the first part, the last, both or
  none of a path, below and beside an earlier match; with 4 nodes a match can
  be inside of, behind, or interrupted by a tag that does not match.
- Two records of a TAP file have their times in two zones that order them the
  other way around than the local times do, and each of the seven kinds takes
  another branch of the functors.
- BCD inputs end at every place in a word and have every octet in every lane.
  For integers and headers the octets at which a size changes are taken on both
  sides, with every fill around them, since nothing depends on other octets.
- `HeaderCount = 4` (18 in the code) places versions inside of a header and
  behind it. Block sizes of `skip_zero_` and `process_blocks()` are 8 and 16.
- No run has a writer into a fixed range: it differs from the others in the calls it
  refuses (`Refuse`), which the theorems of section 5 cover as they cover all
  three kinds of backends.
- `MaxPad` bounds the pad that is given to a client of a scratchpad writer: it
  grows with every `flush()`, by design.

### Fairness

- `SimpleWriter`: weak fairness of the two destructors only. A writer is an
  automatic object or a member of one: it goes out of scope when the conversion
  returns or throws. A client is under no obligation to call anything.
- `TlcReader`, `Xml2Ber`: weak fairness of the loop body: a single thread runs
  it, and no step blocks for ever (a read(2) that never returns is not
  modelled). The state after the loop has no fairness. The other loops consume a
  unit, a tag or a word with each step, and termination is not among their
  properties.
- `ByteSink` states its liveness as `<>closed`, which `SimpleWriter` implements
  by the fairness of the destructors. After an I/O error it promises nothing but
  that.

Deadlock is checked in every run: ended objects have an explicit stuttering
action (`Destroyed`, `Ended`, `Returned`, `Finished`), so a state in which a live
object can do nothing would be reported.

## 4. What was found

Disagreements with what the repository says of itself are runs:

- `write_through`: `Sink_File::write()` looks at the bytes `Simple_Writer` has not
  reported yet only if the pad already holds a partial block
  (`xfsx/scratchpad.cc:271-303`), and `Simple_Writer::write()` passes their number
  on (line 818) without having them reported. A range of `inc_` or more behind a
  small one fails the assertion in line 288; without assertions the bytes in
  front are left out or overwritten. "the Simple_Writer with File_Writer backend
  now supports write-through with large buffers", say the three converters that
  do this with the content of a tag, right behind its header
  (`ber2ber.cc:206-208`, `xml2ber.cc:320-322`, `lxml2ber.cc:212-214`): an outermost
  element of 128 KiB or more loses its header. The variable `bypassed` of
  `SimpleWriter` remembers such a call, and the other properties of bytes are
  those of writers that have seen none.
- `search_gap`: while `search_everywhere` looks for `a/b`, the tags of
  `a[ a[ b ] ]` are pushed and popped, and `Tag_Matcher` answers differently at
  the end of an element than at its start: an end tag is printed without its
  start tag, and `indent_level_` falls below zero (`xfsx/ber2xml.cc:291`). With an
  `indent_size` of 1 or more, the reservation for that many spaces is what fails
  first.

The others were met while modelling, and the properties leave them out where
their comments say so:

- When a write fails, `local_pos_` is not reset although the head has moved; the
  destructor's `flush()` reports it again, and the assertion in `increment_head`
  fails (`scratchpad.cc:58`).
- A stray end-of-content unit at top level is not refused by `Ber2Def`;
  `pop_constructed()` indexes below its stacks (`ber2ber.cc:187-200`), the state
  `"undefined"`. With assertions enabled, the end of `process()` uses
  `writer_stack_[1]` also on inputs that never made one (`ber2ber.cc:176-183`).
- `write_indefinite()` accepts a definite length that is shorter than what is
  in the tag, never sees the counters meet and leaves out the EOC
  (`ber2ber.cc:89`).
- `xml::Reader::next()` asks for a window of `inc_` characters, not for `inc_`
  more. When a text or tag does not fit, with what is in front of it, it gets
  nothing and asks again, for ever (`xml.cc:48-80`). `TagsFit` is the size at
  which that can not happen.
- A constructed element without children is opened by `process_element()` and
  never closed, since the null that closes it stands behind a last child
  (`lxml2ber.cc:119-131`). As the root it is lost without an error; elsewhere
  the ends behind it shift by one tag.
- A primitive tag that can not match is skipped once by `read_next()` and once
  more by the search (`ber2xml.cc:575`): the state `"derailed"`.
- The iterators compare what is left of the input with `tl_size + length`, in 64
  bits (`xfsx.cc:1111`, `1150`). A length may have 8 octets (`xfsx.cc:470-477`);
  from 2^64 - `tl_size` on the sum wraps below `tl_size`, and a constructed tag
  passes although its content is not there. It is meant to be refused: `throw
  range_error("content overflows")`. `ReadChecked` wraps like the code, and
  `RefusesBroken` lets such a tag (`Wraps`) pass and no other; without that
  exception TLC finds a header of length 2^64 - 1 and nothing behind it that is
  given out. For a primitive tag it is the pointer behind it that overflows first
  (`begin + tl_size + length`, `xfsx.cc:496`): that is undefined, and no input of
  the model has such a tag.
- The proxy of a traversal is at its end as soon as `skip_children()` has reached
  the end of the input: `search()` misses the last tag behind a skip
  (`traverser/tlc.hh:81`). `advance_next_match()` declares its hint a second time
  inside of the loop (`traverser/matcher.hh:157`).
- `CDR_Count` counts the EOC of a record of indefinite length; a last record that
  ends with a content service loses its time stamp; `compute_aci` without an ACI
  in the file never calls `finalize()`; `write_aci` on a batch of indefinite
  length without an ACI puts it behind the EOC.
- A positive `int16_t` from 128 to 255 is given one octet (`xfsx.cc:806`), which
  is read back as negative: `ShortIntegerFits`.
- Without a grammar, a path of numbers with a predicate is refused
  (`path.cc:169`).
- Hex in the manner of C takes any backslash with enough characters behind it
  for an escape (`hex_impl.hh:295-302`), and the raw form does not end on an odd
  number of digits; the instances have neither.
- `decode_swar()` with the gather `SHIFT` is right for words of 8 octets only, and
  `encode_swar()` steps by 8 characters whatever its word is; the library
  instantiates neither otherwise.
- The iterators skip zeros in blocks of 1024 whatever they were asked for
  (`xfsx.cc:1159`).
- The detector catches `runtime_error`. A grammar that is missing for any
  definition, a version that is not a number, and a `Parse_Error` - a BER file of
  one octet, or with an EOC too many - end the detection instead of the
  definition (`detector.cc:175-182`). One end tag behind that of the root is
  accepted (`xml2lxml.cc:84`).

## 5. Proofs

Eight modules hold theorems, about every instance of the constants. The
results are invariants of the specifications the runs check, or say that one
specification implements another.

### The writer: `SimpleWriterProofs`

The first part proves the operators of `Scratchpad` and `Writer`: what each of
them does to the cells of a pad, and that it preserves `Holds(b, head, n)` - the
file, followed by the pad up to `head`, is exactly the first `n` bytes. From that,

```
THEOREM Invariant == Spec => [](IInv /\ FileUnused)
```

for every backend, block size, size of requests and number of bytes, whatever
the client calls and whichever write fails, and from it type correctness,
`StreamIntact`, `WindowValid`, `BufferBounded`, both assertions, `TornPrefix`,
`DestructorDelivers` and `FlushDelivers`.

The properties are not inductive by themselves. `IInv` has two halves. `Sound` is
what every step keeps, a write-through that bypasses unreported bytes included:
types, and a window and a head inside of the pad. `Intact` is what the others
keep, as long as there was no such write-through. Together they say: the window either
is the unused tail of the pad (`Attached`) or is null with nothing unreported
(`Detached`), and for a file always the first; a file pad holds a whole block
only between a `begin_write()` that had to grow and its `commit_write()`
(`FilePadOpen`), which is what keeps a write-through aligned; a reservation fits
the room; and once a write has failed only the prefix in the file is claimed.
There is one lemma per action for both halves (`...Preserves`, from `OpenFacts`,
what the invariant gives to a call, and `OpenAgain`, what a call has to
establish), and one for `Sound` alone on a file (`...Sound`, from `SoundFacts` and
`SoundAgain`); `InvariantStep` puts them together. TLC checks `IInv` in
`writer_file`.

`WriterIsSink` is the refinement: `Spec => Sink!Safety`, for all backends. What a
client has written and is not yet on the other side is what waits in the window
(`localPos`) or in the pad; what is on the other side is the first `Reached` bytes
(`DeliveredFirst`), no step takes any of them back (`WrittenGrows`), a failing
call leaves a prefix (`FailsTorn`), and `clear()` is the `Discard` of a sink that is
a scratchpad. A write-through that bypasses bytes is the `Break` of a sink. Its
other half, that the sink is closed at last, stays with TLC.

The theorems assume nothing but the ASSUMEs of the modules (sizes are naturals,
blocks are not empty; a memory writer gets no range of `ThroughInc` or more, see
`hazards`).

### The readers: `ReaderProofs`, `SimpleReaderProofs`

`Sound(r, c)` is what a reader keeps: the bytes of its window are the bytes of
the input from `c` on, wherever they lie in the pad; the window and the flags of
the backend agree on how much has been taken; the pad is bounded. `NewSound`,
`NextSound` and `ForgetSound` prove it for the methods, once and for both
modules that use them: `Next` is the method in which `read_more()` moves the
pad, the rounding to blocks wraps around and the backend may report the end.

- `ReaderSound`: under any client `IInv` holds, which is the invariant of the run
  together with `Sound` of the bytes consumed so far.
- `ReaderDelivers`, `ReaderResultTrue`: `next(k)` delivers `k` bytes or what is
  left, and says truthfully whether pointers from before are valid. They assume
  `MaxWant + Inc <= Word`: beyond that the size of a request wraps around when
  `read_more()` rounds it to blocks. The invariant itself does not need the
  assumption.
- `ReaderImplementsWindow`: step by step, a reader is a `Window` - an input and
  two positions in it - so no client can tell what happens to its pad, and what
  is proved of `XmlReader`, whose source is `Window`, holds over every reader.
- `UnitsShown`: the loop over `read_next()` keeps `tlc.begin` on the first octet of
  its unit across the two calls of `next()` that may move the pad. The
  strengthening `Placed` of `LoopIInv` says, for each step of the call, where the window is in
  the input. `UnitsStreamed`: the loop is a `UnitStream` - the units come out in
  order, and a truncated one never does.

### What the converters have in common: `LevelsProofs`

The induction theorems of the library take a predicate as an argument. Here the
same is said of a set: a set of naturals that contains 0 and the successor of
each of its elements contains all of them (`Induction`, from the fact that strict
inclusion of finite sets is well-founded), and a function that is computed from
its value one place before exists (`Recursion`). The definitions of `Forest` and
`XmlReader` that are recursive functions over `1 .. n` are covered by the two, and
with `Inner`, which goes from the last node to the first, by its mirror image.

The theory of forests says what an encoding is for every forest. `Walked(f, i, b)`
are the units up to node `i` and the `b`-th EOC behind it, `Open(f, i, b)` the nodes
that are open there, and `At(f, i, ...)` the octets up to there, so that a loop over
units is a walk: one step into a node, or out of one (`WalkAt`). The encoding of the
first trees is the walk up to the end of the last of them (`FirstTrees`), and
`OpenInside` bounds the octets that are read of a tag that is still open. `OctetsInside`:
the octets between the header of a definite node and the unit that ends it are the
length in its header, and before that unit they are fewer. That is why two stacks
of counters find ends that are nowhere in the input: `ReadPlaces` and `EndPlaces`, on
which the theorems about both readers of BER rest, say how each unit and each end
changes the place of a reader on the walk and its counters. The lemma `SameWalk` says that
two forests that differ in their forms only are walked in the same way.

`UnitsTyped`: the units of a forest are units - the recursive functions that
define the encoding have values, and `Units(f)` is a sequence of records with
natural lengths, for every forest. The lemmas about the stack of writers say
that `WritersMatch` - `pos()` of each writer is the number of octets in it, and
those above the open tags are empty - is preserved by `OpenTag`, `WriteTo`, `Pour`
and `CloseTag` (`CloseTagSound`). They rest on the algebra of `SpanOf`, the octets
of a sequence of units: what is appended is added. The lemmas about counters
(`Rooted`) are shared by the two converters that read BER with them.

### The converters: `Ber2BerProofs`, `Xml2BerProofs`, `LxmlProofs`

- `ConvertersSound`: `IInv` of the three converters. The stacks of lengths and
  counters have the same height, the root frame is never popped - it has length
  0, and more than that has been read of it once a unit was read (`RootKept`,
  `NotTheRoot`, the assertions of `ber2ber.cc`) - and every open tag has a writer
  whose position counts what is in it, those used before included
  (`LevelsMatch`).
- `FormsSame`: `SameForest` of the three converters, for every forest and every
  unit after which its encoding is cut off. The strengthening `FormFacts` says
  where on the walk over the forest the converter is: the tags that are open and
  the definite ones among them (`Place`), the counters, which hold the lengths of
  those and the octets since each began (`Counting`), and the output. To the
  indefinite form it is the walk over the same forest in that form (`NewUpto`), to
  the definite one the header is missing in front of each level, and each level
  holds the complete children (`Layered`). A definite tag is complete for the
  counters exactly when it is on the walk (`OctetsInside`), so every EOC is written,
  and every level is poured, where it belongs. `EndsFound` follows from a bijection
  between the counters and the open tags (`OpenTagsAre`).
- `UnbalancedRefused`: `RefusesUnbalanced` of `Ber2Def`, for every forest. An input
  that is a beginning of the encoding is on the walk of `FormFacts`; when it ends,
  no level is left exactly if every tag up to there has ended (`AllEnd`), and then
  what was read is the encoding of the first trees (`FirstTrees`). For an input
  with a length that is too short `ShortFacts` says more: the definite tags on the
  stacks are those of the walk that have not ended, and with node `n`, whose length
  is short, the tags around it that the walk has left (`Stuck`). No place of the
  walk lies at the octet where `n` would be complete: what is inside of it ends one
  octet later, and the last thing inside of it has at least two octets
  (`NeverThere`). So it is never complete, nothing under it on the stack is ever
  compared, and its level is there at the end. `TagToPop` follows from counting
  the levels: one for each definite tag on the stack and one for each tag that
  waits for an EOC (`Waiting`), which is therefore never the last to go.
- `TagsTrue`: `xml::Reader` shows the tags and texts of the document, in order,
  whatever the window did in the meantime. The inductive invariant `ReaderFacts`
  says for each loop of `next()` where `k_`, `low_` and the window are: the window
  begins at the end of the tag before, and no mark lies between `low_` and where
  the search has got to.
- `ConverterSound`: `IInv` of `Xml2Ber` over it - offsets in step with the document
  (`Tracked`), writers with the open tags (`WritersMatch`).
- `DocumentsRefused`: `RefusesUnbalanced` of `Xml2Ber`. `EndFacts` adds to
  `ReaderFacts` that `eof()` is true only if the window has got to the end of the
  file (`AllShown`): a tag that is not found is then cut off or not there. `NestFacts`
  says that `tlv_stack_` is as high as elements are open (`OpenAfter`), that they were
  never fewer than none, and that no declaration was accepted but the first tag. What
  ends the run decides `WellNested` (`NestIs`).
- `DocumentsConverted`: `SameForest` of `Xml2Ber`. A document is a walk through its
  forest in tags, where units are one in octets: `DocWalk` says at which tag each
  node starts and ends, where a node without an end tag (`NoEndTag`), the comments and
  the declaration of the busy style are passed (`WalkStays`, `Passed`).
  `ConvertFacts` says that the tags handled so far, and what was written, are at the
  same place of the two walks: between two nodes (`Between`), behind the comment in
  front of a node (`Noted`), in a primitive node, of which nothing is written before
  its end tag (`Within`), or in front of the declaration (`Ahead`). At each of these
  `tlv_stack_` holds the nodes that the walk is inside of, and the levels of writers
  what was walked, from the header of their tag on (`Converting`, `Held`). A text has
  the length that the document gives it, since the tags found are those of the
  document (`TagsInOrder`); where nothing is cut off the walk is at its end.
- `TreesSound`: `IInv` of `LxmlRoundTrip`. What `Tree_Generator` has built is a tree
  with one root, in which only constructed elements have children (`IsTree`); it
  follows from the stack of open elements being the path to the last element
  (`OpenElements`), and from "no parent available" and "multiple roots" being
  thrown. `IsTree` is what `Lxml2Ber` needs: a primitive element pushes no list of
  children, so for each null on the stack but the last there is an open tag
  (`WalkInStep`), and the assertion of `pop_constructed()` holds (`TagToPop`). It is
  an inequality: an empty constructed element leaves a tag open (section 4).
- `TreesShown`: `TreeTrue` of `Ber2Lxml`. `BuildFacts` says that while an input that is
  a beginning of the encoding is read, the generator is at a place of the walk
  (`Building`): the stack of elements holds the nodes that the walk is inside of, the
  two other stacks are the counters of that place, and there is an element for each
  node, at its depth - which is the height of the stack, since a node behind which
  nothing is left to close is the child of the innermost one (`DeepNext`). A definite
  tag with no octets inside is not pushed: it would be complete at once (`EmptyEnds`).
  With an EOC too many the stack is shorter by one than the walk behind it
  (`Straying`), so that the last EOC finds no element. That needs the counters to be
  empty, which they are where no definite tag has anything inside; elsewhere the EOC
  shifts the ends of the tags around it, and the input may pass.
- `TreesWritten`: `TreeWritten` of `LxmlRoundTrip`. The tree need not be that of the
  input's forest (the input may be limited, or have an EOC too many), but it is a
  forest itself (`TreeForestIs`, from `IsTree`), and `Writing` relates `Lxml2Ber` to a
  walk through that one: for each node that the walk is inside of there is its next
  sibling, or null, on the stack and an open tag; on top is the next node, or a null
  exactly where the innermost node ends (`ComingIs`). The levels of writers hold what
  was walked, each from the header of its tag on (`Held`), so the position of the top
  level is the length of the tag that ends. Only a constructed element without
  children breaks this, which `TreeWritten` excludes (`NoEmptyTag`).

These theorems have no hypotheses beyond the ASSUMEs of the modules.

### Only model-checked

- Liveness: `ImplementsByteSink` as a whole, `Terminates`. The prover has neither
  fairness nor ENABLED.
- That the document `Ber2Xml` writes is that of the input (`DocumentTrue`), and that
  unbalanced input, and no other, is refused by `Ber2Xml` (`RefusesUnbalanced`) and by
  the traversals (`RefusesBroken`).
- The traversals and `Ber2Xml`. They compare with references that are recursions,
  too.
- The codecs, which use `Bitwise` and folds over the octets of a word.

## 6. Not modelled

- Formatting of text, names and attributes of elements, options, logging; fsync;
  moving a writer; ranks and hex dumps in trees; the Lua pretty printer.
- The conversions of typed contents inside of the converters: the codecs are
  modelled on their own, the converters carry a content as its length.
- `traverser/lxml.hh`, the proxy that walks over libxml2 trees; the XPath and XSLT
  of `bed edit`, which libxml2 computes.
- Reads of less than was asked for by the kernel, and EINTR: `ixxx::util`, an
  external library, loops over them; a failed read or write is modelled.
- `xfsx/value.cc`, which is generated and has a case for each type; the tag
  translators, which are look-ups in maps that do not change; the parsing of
  options in `bed`; strings, which are copied; the vendored libraries and the
  fuzzers.
- Elements inside of primitive elements (`Xml2Ber`). The converters write into
  sequences of tags, not into a `SimpleWriter`: what `write_through` shows is not
  in their runs.
- `components` in `PROJECT.json` lists every part with its status.

## 7. Plan

What is left are proofs, in this order:

1. Lemmas about `VerticalTlc`: the stack is never below its first frame, and the
   height is the number of open tags; with them `Traversal` keeps `Inv`.
2. `Ber2Xml` keeps `Inv`: its counters are those of `LevelsProofs`.
