------------------------------- MODULE Codecs -------------------------------
(***************************************************************************)
(* The codecs of the library at work: a decoder or encoder of decimals     *)
(* goes through its input word by word, a number is written and read, a    *)
(* header is built by the calls of Unit, written and loaded, octets are    *)
(* escaped and read back, the argument of a search is parsed, and the      *)
(* format of a document is detected.                                       *)
(*                                                                         *)
(* A job says what is to be done; every step is one round of a loop or one *)
(* call.  job.in[1..at-1] is what has been consumed, out what has been     *)
(* written, and back what was read back from it.                           *)
(***************************************************************************)
EXTENDS Header, Bcd, Path, Detector

CONSTANTS                                           \* what there is to do
  DecimalJobs, NumberJobs, HeaderJobs, TextJobs, SearchJobs, DetectJobs

VARIABLES job, phase, at, out, back

vars == <<job, phase, at, out, back>>

Init ==
  /\ \/ job \in DecimalJobs
     \/ job \in NumberJobs
     \/ job \in HeaderJobs
     \/ job \in TextJobs
     \/ job \in SearchJobs
     \/ job \in DetectJobs
  /\ phase = "start"
  /\ at = 1
  /\ out = IF job.kind = "search" THEN {} ELSE << >>
  /\ back = IF job.kind = "header" THEN NewUnit ELSE << >>

End == Len(job.in) + 1

Is(kind) == job.kind = kind /\ phase # "done"

Done == phase' = "done"

Rest == SubSeq(job.in, at, Len(job.in))

(***************************************************************************)
(* Binary-coded decimals                                                   *)
(***************************************************************************)
\* A round of the loop over whole words.
DecodeWord ==
  LET n == WordOctets(job.codec)
  IN  /\ Is("bcd decode")
      /\ at + n <= End
      /\ out' = out \o DecodeStep(job.codec, SubSeq(job.in, at, at + n - 1))
      /\ at' = at + n
      /\ UNCHANGED <<job, phase, back>>

\* What is left goes through the table.
DecodeRest ==
  /\ Is("bcd decode")
  /\ at + WordOctets(job.codec) > End
  /\ out' = out \o FlattenSeq([i \in DOMAIN Rest |->
                                  decode_lookup(job.codec, Rest[i])])
  /\ at' = End
  /\ Done
  /\ UNCHANGED <<job, back>>

EncodeWord ==
  LET n == WordCharacters(job.codec)
  IN  /\ Is("bcd encode")
      /\ at + n <= End
      /\ out' = out \o EncodeStep(job.codec, SubSeq(job.in, at, at + n - 1))
      /\ at' = at + n
      /\ UNCHANGED <<job, phase, back>>

Pairs(text) ==
    [i \in 1..(Len(text) + 1) \div 2 |->
        SubSeq(text, 2 * i - 1, IF 2 * i > Len(text) THEN 2 * i - 1 ELSE 2 * i)]

EncodeRest ==
  /\ Is("bcd encode")
  /\ at + WordCharacters(job.codec) > End
  /\ out' = out \o FlattenSeq([i \in DOMAIN Pairs(Rest) |->
                IF job.codec.type = "BYTEWISE"
                THEN encode_bytewise(job.codec, Pairs(Rest)[i])
                ELSE encode_lookup(Pairs(Rest)[i])])
  /\ at' = End
  /\ Done
  /\ UNCHANGED <<job, back>>

(***************************************************************************)
(* Integers                                                                *)
(***************************************************************************)
\* The minimal size is what the callers ask for; more octets are allowed.
WriteInteger ==
  /\ Is("integer") /\ phase = "start"
  /\ \E size \in minimally_encoded_length(job.type, job.in)..job.type.width :
       out' = encode_int(job.type, job.in, size)
  /\ phase' = "written"
  /\ UNCHANGED <<job, at, back>>

ReadInteger ==
  /\ Is("integer") /\ phase = "written"
  /\ back' = decode_int(job.type, out, bcast(job.type.width, 0))
  /\ Done
  /\ UNCHANGED <<job, at, out>>

WriteBoolean ==
  /\ Is("boolean") /\ phase = "start"
  /\ out' = encode_bool(job.truth, 1)
  /\ phase' = "written"
  /\ UNCHANGED <<job, at, back>>

\* The octet behind the value may be any.
ReadBoolean ==
  /\ Is("boolean") /\ phase = "written"
  /\ \E next \in {0, 255} : back' = decode_bool(out, next)
  /\ Done
  /\ UNCHANGED <<job, at, out>>

CountDigits ==
  /\ Is("digits")
  /\ out' = dec_digits(job.number)
  /\ Done
  /\ UNCHANGED <<job, at, back>>

(***************************************************************************)
(* Headers: the tag is set first, and then one of the forms of the length. *)
(***************************************************************************)
InitTag ==
  /\ Is("header") /\ phase = "start"
  /\ back' = init_tag([back EXCEPT !.klasse = job.klasse, !.shape = job.shape],
                      job.tag)
  /\ phase' = "tagged"
  /\ UNCHANGED <<job, at, out>>

InitLength ==
  /\ Is("header") /\ phase = "tagged"
  /\ back' = init_length(back, job.in)
  /\ phase' = "sized"
  /\ UNCHANGED <<job, at, out>>

\* The length may be given more octets than it needs, or the call refuses.
InitLSize ==
  /\ Is("header") /\ phase = "sized"
  /\ \E size \in 1..8 :
       IF TooSmall(back, size)
       THEN phase' = "done" /\ UNCHANGED back
       ELSE phase' = "sized" /\ back' = init_l_size(back, size)
  /\ UNCHANGED <<job, at, out>>

InitIndefinite ==
  /\ Is("header") /\ phase = "tagged"
  /\ back' = init_indefinite(back)
  /\ phase' = "sized"
  /\ UNCHANGED <<job, at, out>>

InitConstructedFrom ==
  /\ Is("header") /\ phase = "start"
  /\ back' = init_constructed_from([back EXCEPT !.klasse = job.klasse], job.tag)
  /\ phase' = "sized"
  /\ UNCHANGED <<job, at, out>>

WriteHeader ==
  /\ Is("header") /\ phase = "sized"
  /\ out' = write(back)
  /\ phase' = "written"
  /\ UNCHANGED <<job, at, back>>

\* The octets behind the header are not looked at.
LoadHeader ==
  /\ Is("header") /\ phase = "written"
  /\ \E behind \in {<< >>, <<255, 255>>} :
       phase' = IF load(out \o behind) = back THEN "done" ELSE "differs"
  /\ UNCHANGED <<job, at, out, back>>

(***************************************************************************)
(* Escaped octets                                                          *)
(***************************************************************************)
CopyNormal ==
  /\ Is("octets") /\ phase = "start"
  /\ LET end == NormalEnd(job.style, job.in, at)
     IN  /\ out' = out \o SubSeq(job.in, at, end - 1)
         /\ at' = end
  /\ phase' = "escape"
  /\ UNCHANGED <<job, back>>

EscapeOctet ==
  /\ Is("octets") /\ phase = "escape"
  /\ at < End
  /\ Is_Not_Normal(job.style, job.in[at])
  /\ out' = out \o Escape(job.style, job.in[at])
  /\ at' = at + 1
  /\ UNCHANGED <<job, phase, back>>

\* Another round, or the text is complete and is read back.
EscapeEnds ==
  /\ Is("octets") /\ phase = "escape"
  /\ at < End => ~Is_Not_Normal(job.style, job.in[at])
  /\ phase' = IF at < End THEN "start" ELSE "find"
  /\ at' = IF at < End THEN at ELSE 1
  /\ UNCHANGED <<job, out, back>>

\* The text to read back: what was written, or what somebody else wrote.
Given ==
  /\ Is("text") /\ phase = "start"
  /\ out' = job.in
  /\ phase' = "find"
  /\ UNCHANGED <<job, at, back>>

CopyUnquoted ==
  /\ phase = "find"
  /\ LET next == Next_Quoted(job.style, out, at)
     IN  /\ back' = back \o SubSeq(out, at, next - 1)
         /\ at' = next
  /\ phase' = "translate"
  /\ UNCHANGED <<job, out>>

TranslateQuoted ==
  /\ phase = "translate"
  /\ Is_Quoted(job.style, out, at)
  /\ back' = back \o Un_Escape(job.style, out, at)
  /\ at' = at + QuotedSize(job.style)
  /\ UNCHANGED <<job, phase, out>>

TranslateEnds ==
  /\ phase = "translate"
  /\ ~Is_Quoted(job.style, out, at)
  /\ phase' = IF at <= Len(out) THEN "find" ELSE "done"
  /\ UNCHANGED <<job, at, out, back>>

(***************************************************************************)
(* The argument of a search                                                *)
(***************************************************************************)
InsertRange ==
  /\ Is("search") /\ phase = "start"
  /\ at <= Len(job.in.predicate)
  /\ out' = Insert(out, Interval(job.in.predicate[at]))
  /\ at' = at + 1
  /\ UNCHANGED <<job, phase, back>>

ParsePath ==
  /\ Is("search") /\ phase = "start"
  /\ at > Len(job.in.predicate)
  /\ LET parsed == parse(job.in, job.grammar)
     IN  back' = IF parsed = Failed \/ EmptyPredicate(job.in) THEN Failed
                 ELSE [search |-> parsed,
                       ranges |-> IF job.in.brackets THEN Ranges(out)
                                                     ELSE DefaultRanges]
  /\ Done
  /\ UNCHANGED <<job, at, out>>

(***************************************************************************)
(* The format of a document.  at counts the tags that have been read of    *)
(* the header, out is its tree, and back holds the definition that is      *)
(* tried and the variables found so far - or the result.                   *)
(***************************************************************************)
SearchDirectories ==
  IF job.path = << >> THEN default_asn_search_path(job.env) ELSE job.path

Refused == Done /\ back' = Failed

TryNext ==
  /\ phase' = "definition"
  /\ back' = [back EXCEPT !.definition = @ + 1]

FindConfiguration ==
  /\ Is("detect") /\ phase = "start"
  /\ IF \/ job.configured
        \/ which(SearchDirectories, job.disk, <<"detector.json">>) # Failed
     THEN /\ phase' = "definition"
          /\ back' = [definition |-> 1, var_map |-> << >>]
     ELSE Refused
  /\ UNCHANGED <<job, at, out>>

\* A grammar that is missing ends the search, not just this definition.
TestDefinition ==
  /\ Is("detect") /\ phase = "definition"
  /\ IF \/ back.definition > Len(job.definitions)
        \/ map_which(SearchDirectories, job.disk,
                     job.definitions[back.definition].initial) = Failed
     THEN Refused /\ UNCHANGED <<at, out>>
     ELSE phase' = "header" /\ at' = 1 /\ out' = NewTree /\ UNCHANGED back
  /\ UNCHANGED job

SkipDeclaration ==
  /\ Is("detect") /\ phase = "header"
  /\ at = 1 /\ at < End /\ job.in[at].kind = "declaration"
  /\ at' = 2
  /\ UNCHANGED <<job, phase, out, back>>

AtTag(kinds) ==
  /\ Is("detect") /\ phase = "header"
  /\ at < End
  /\ job.in[at].kind \in kinds

\* One end tag too many, behind that of the root, is refused.
ReadHeader ==
  /\ AtTag({"start", "end", "start end"})
  /\ ~HeaderComplete(out, job.in[at])
  /\ \E tree \in {process_tag(out, job.in[at])} :
       IF tree = Failed THEN TryNext /\ UNCHANGED <<at, out>>
       ELSE at' = at + 1 /\ out' = tree /\ UNCHANGED <<phase, back>>
  /\ UNCHANGED job

\* The input ends inside of a tag.
HeaderRefused ==
  /\ AtTag({"cut"})
  /\ TryNext
  /\ UNCHANGED <<job, at, out>>

\* A Parse_Error of a BER header is no runtime_error and is not caught.
ParseError ==
  /\ AtTag({"parse error"})
  /\ Refused
  /\ UNCHANGED <<job, at, out>>

HeaderEnds ==
  /\ Is("detect") /\ phase = "header"
  /\ \/ at = End
     \/ /\ AtTag({"start", "start end"})
        /\ HeaderComplete(out, job.in[at])
  /\ phase' = "variables"
  /\ UNCHANGED <<job, at, out, back>>

ReadVariables ==
  /\ Is("detect") /\ phase = "variables"
  /\ back' = [back EXCEPT !.var_map =
                read_variables(job.definitions[back.definition], out, @)]
  /\ phase' = "assign"
  /\ UNCHANGED <<job, at, out>>

AssignResult ==
  /\ Is("detect") /\ phase = "assign"
  /\ IF DOMAIN back.var_map = {} THEN TryNext
     ELSE /\ back' = assign_result(job.definitions[back.definition],
                                   back.var_map, SearchDirectories, job.disk)
          /\ Done
  /\ UNCHANGED <<job, at, out>>

Finished == phase \in {"done", "differs"} /\ UNCHANGED vars

Next ==
  \/ DecodeWord \/ DecodeRest \/ EncodeWord \/ EncodeRest
  \/ WriteInteger \/ ReadInteger \/ WriteBoolean \/ ReadBoolean \/ CountDigits
  \/ InitTag \/ InitLength \/ InitLSize \/ InitIndefinite
  \/ InitConstructedFrom \/ WriteHeader \/ LoadHeader
  \/ CopyNormal \/ EscapeOctet \/ EscapeEnds
  \/ Given \/ CopyUnquoted \/ TranslateQuoted \/ TranslateEnds
  \/ InsertRange \/ ParsePath
  \/ FindConfiguration \/ TestDefinition \/ SkipDeclaration \/ ReadHeader
  \/ HeaderRefused \/ ParseError \/ HeaderEnds \/ ReadVariables \/ AssignResult
  \/ Finished

Spec == Init /\ [][Next]_vars

(***************************************************************************)
(* Properties                                                              *)
(***************************************************************************)
Consumed == SubSeq(job.in, 1, at - 1)

\* Whatever a decoder or an encoder of decimals does at a time - an octet, a
\* table, arithmetic in a word or in a vector register, in either byte order
\* - and wherever its words end: it has written for every digit what the
\* definition of the format says, and nothing else.
BcdTrue ==
  /\ job.kind = "bcd decode" =>
       out = FlattenSeq([i \in 1..at - 1 |-> DigitsOf(job.codec.A, job.in[i])])
  /\ job.kind = "bcd encode" =>
       out = [i \in 1..at \div 2 |->
                 16 * NibbleOf(job.in[2 * i - 1])
                     + (IF 2 * i > Len(job.in) THEN 15
                                               ELSE NibbleOf(job.in[2 * i]))]

\* An int16_t from 128 to 255 is written into one octet that is read as a
\* negative number.
ShortIntegerFits == job.type.width = 2 /\ job.type.signed
                      /\ Number16(job.in) \in 128..255

\* What is read back is what was written: a number in as many octets as it
\* needs or more, a header with any tag and any form of length whatever
\* follows it - while no prefix of a header is taken for one - and octets
\* that were escaped.
RoundTrip ==
  /\ job.kind = "integer" /\ phase = "done" =>
       back = job.in \/ ShortIntegerFits
  /\ job.kind = "boolean" /\ phase = "done" => back = job.truth
  /\ job.kind = "header" =>
       /\ phase # "differs"
       /\ phase = "written" =>
            \A n \in 0..Len(out) - 1 : load(SubSeq(out, 1, n)) = Failed
  /\ job.kind = "octets" /\ phase = "done" => back = job.in

Minimal(type, octets) ==
  \/ Len(octets) = 1
  \/ IF type.signed
     THEN ~(octets[1] = 0 /\ octets[2] < 128) /\ ~(octets[1] = 255 /\ octets[2] >= 128)
     ELSE octets[1] # 0

\* The sizes that are computed before anything is written are those that are
\* written afterwards: of a number, which takes no octet it does not need, of
\* a header, of escaped octets, of a text that is read back - with the quoted
\* characters anywhere in it - and the digits of a number.
SizesTrue ==
  /\ job.kind = "integer" =>
       Minimal(job.type, encode_int(job.type, job.in,
                             minimally_encoded_length(job.type, job.in)))
  /\ job.kind = "header" /\ phase = "written" => Len(out) = back.tl_size
  /\ job.kind = "octets" /\ phase = "done" =>
       Len(out) = decoded_size(job.style, job.in)
  /\ job.kind \in {"octets", "text"} /\ phase = "done" =>
       Len(back) = encoded_size(job.style, out)
  /\ job.kind = "digits" /\ phase = "done" => Len(ToString(job.number)) = out

\* The positions a part of a predicate asks for.
Asked(part) ==
  LET first == IF part.left = 0 THEN 1 ELSE part.left
  IN  CASE ~part.dots -> {first}
        [] part.dots /\ part.right = 0 -> first..Infinite
        [] OTHER -> first..part.right

\* A search looks for the tags of the path, and accepts exactly the matches
\* the predicate asks for, whatever its parts overlap with: the ranges are
\* in order, apart from each other and not empty, as the writer of documents
\* expects.  Only numbers in front of a predicate are not understood without
\* a grammar, and a predicate without parts is refused.
PathTrue ==
  job.kind = "search" /\ phase = "done" =>
    LET known == IF job.grammar THEN {"star", "empty", "number", "name"}
                                ELSE {"star", "empty", "number"}
        asked == job.in.predicate
    IN  CASE job.in.brackets /\ asked = << >> -> back = Failed
          [] ~job.in.brackets \/ (job.grammar /\ asked # << >>) ->
               IF \E i \in DOMAIN job.in.parts : job.in.parts[i].kind \notin known
               THEN back = Failed \/ back.search.path = << >>
               ELSE /\ back.search.path =
                         [i \in DOMAIN job.in.parts |-> job.in.parts[i].tag]
                    /\ back.search.everywhere =
                         (/\ ~job.in.absolute
                          /\ job.in.parts # << >> \/ job.in.brackets)
                    /\ \A i \in 1..Len(back.ranges) - 1 :
                         back.ranges[i][2] < back.ranges[i + 1][1]
                    /\ UNION {(back.ranges[i][1] + 1)..back.ranges[i][2] :
                                 i \in DOMAIN back.ranges} =
                         (IF ~job.in.brackets THEN {1}
                          ELSE UNION {Asked(asked[i]) : i \in DOMAIN asked})
          [] OTHER -> back.search.path = << >>

\* The starts of elements in the header, and the names around such a start:
\* the last start in front of it at every depth.
Starts == {i \in DOMAIN job.in : job.in[i].kind \in {"start", "start end"}}

Depth(i) == Cardinality({j \in Starts : j < i /\ job.in[j].kind = "start"})
              - Cardinality({j \in 1..i - 1 : job.in[j].kind = "end"})

PathTo(i) ==
  [d \in 1..Depth(i) + 1 |->
     job.in[CHOOSE j \in Starts :
               /\ j <= i /\ Depth(j) = d - 1
               /\ \A k \in Starts : j < k /\ k <= i => Depth(k) # d - 1].name]

\* The text of the first element at a path, when the header has it.
TextAt(path) ==
  LET here == {i \in Starts : PathTo(i) = path}
      first == CHOOSE i \in here : \A j \in here : i <= j
  IN  IF \/ here = {}
         \/ Cardinality({i \in Starts : i <= first}) > HeaderCount
         \/ first = Len(job.in) \/ job.in[first].kind = "start end"
      THEN << >> ELSE job.in[first + 1].text

Fits(definition) ==
  \A i \in DOMAIN definition.variables :
     Usable(TextAt(definition.variables[i].path))

\* A file of the result: the first of the directories that has the name in
\* which every variable is replaced by what the document says.
FileFor(definition, template) ==
  LET texts == [v \in {definition.variables[i].name :
                          i \in DOMAIN definition.variables} |->
                  TextAt(definition.variables[CHOOSE i \in
                     DOMAIN definition.variables :
                        definition.variables[i].name = v].path)]
      name == FlattenSeq([i \in DOMAIN template |->
                IF template[i] \in DOMAIN texts THEN texts[template[i]]
                                                ELSE <<template[i]>>])
      path == SearchDirectories
      having == {i \in DOMAIN path : name \in job.disk[path[i]]}
  IN  IF having = {} THEN Failed
      ELSE <<path[CHOOSE i \in having : \A j \in having : i <= j], name>>

NotThere(definition, names) ==
  \E i \in DOMAIN names : FileFor(definition, names[i]) = Failed

\* The input is cut off, is no BER, or has two ends without a start.
Broken ==
  LET Tags(kinds) == {i \in DOMAIN job.in : job.in[i].kind \in kinds}
  IN  \/ Tags({"cut", "parse error"}) # {}
      \/ Cardinality(Tags({"end"})) > Cardinality(Tags({"start"})) + 1

\* The format that is detected is that of the first definition all of whose
\* variables the beginning of the document has, the versions and the names
\* of the files are made of these variables and of nothing that an earlier
\* definition has found, and the files are there.  It is refused only when
\* no definition fits, or the one that fits, or one in front of it, asks for
\* what is not there.
DetectTrue ==
  job.kind = "detect" /\ phase = "done" =>
    LET fitting == {d \in DOMAIN job.definitions : Fits(job.definitions[d])}
        first == CHOOSE d \in fitting : \A e \in fitting : d <= e
        definition == job.definitions[first]
        Version(v) == TextAt(definition.variables[CHOOSE i \in
                         DOMAIN definition.variables :
                            definition.variables[i].name = v].path)
    IN  IF back # Failed
        THEN /\ fitting # {}
             /\ back.name = definition.name
             /\ back.major = Version("{major}") /\ back.minor = Version("{minor}")
             /\ \A k \in DOMAIN definition.resulting :
                  /\ ~NotThere(definition, definition.resulting[k])
                  /\ back.files[k] = [i \in DOMAIN definition.resulting[k] |->
                          FileFor(definition, definition.resulting[k][i])]
        ELSE \/ fitting = {} \/ Broken
             \/ \E d \in 1..first :
                  NotThere(definition, job.definitions[d].initial)
             \/ \E k \in DOMAIN definition.resulting :
                  NotThere(definition, definition.resulting[k])
             \/ \E v \in {"{major}", "{minor}"} : ~IsNumber(Version(v))
             \/ /\ ~job.configured
                /\ \A i \in DOMAIN SearchDirectories :
                     <<"detector.json">> \notin job.disk[SearchDirectories[i]]
=============================================================================
