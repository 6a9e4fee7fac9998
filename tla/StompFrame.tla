----------------------------- MODULE StompFrame -----------------------------
(***************************************************************************)
(* STOMP frames: include/stomp-frame.h and src/stomp-frame.cpp.            *)
(*                                                                         *)
(* A text is a sequence of tokens: the delimiters, the names of commands   *)
(* and headers, digits and other bytes.  A name is one token, of length 1, *)
(* so lengths count tokens; a substring is a command or a header only if   *)
(* it is exactly that name, as in ToCommand and ToHeader.                  *)
(*                                                                         *)
(* A frame object holds its text and, as views into it, what was parsed:   *)
(* `views` says whether they still refer to the text the object owns.      *)
(***************************************************************************)
EXTENDS Integers, FiniteSets, SequencesExt

CONSTANTS
  Texts,          \* strings a frame may be made from
  Parts,          \* components a frame may be made from
  Targets,        \* texts of the frame that is assigned to
  SmallString     \* longest text that std::string stores in place

newLine == "nl"
null == "nul"
colon == ":"
Digits == [d \in {"0", "1", "2"} |-> CASE d = "0" -> 0 [] d = "1" -> 1 [] d = "2" -> 2]
Huge == "huge"    \* digits of a number that does not fit into size_t

\* The commands, with the headers ValidateFrame wants.
RequiredHeaders ==
  [CONNECT |-> {"accept-version", "host"}, STOMP |-> {"accept-version", "host"},
   CONNECTED |-> {"version"}, SEND |-> {"destination"},
   SUBSCRIBE |-> {"destination", "id"}, UNSUBSCRIBE |-> {"id"},
   ACK |-> {"id"}, NACK |-> {"id"},
   BEGIN |-> {"transaction"}, COMMIT |-> {"transaction"}, ABORT |-> {"transaction"},
   DISCONNECT |-> {}, MESSAGE |-> {"destination", "message-id", "subscription"},
   RECEIPT |-> {"receipt-id"}, ERROR |-> {}]
Commands == DOMAIN RequiredHeaders
StompHeaders ==
  {"accept-version", "ack", "content-length", "content-type", "destination", "heart-beat",
   "host", "id", "login", "message", "message-id", "passcode", "receipt", "receipt-id",
   "session", "subscription", "transaction", "server", "version"}

ASSUME TextsAssumption == Texts \cup Targets \subseteq Seq(STRING)
ASSUME PartsAssumption ==
  \A parts \in Parts :
    /\ parts = [command |-> parts.command, headers |-> parts.headers, body |-> parts.body]
    /\ parts.command \in Commands \cup {"kInvalid"} /\ parts.body \in Seq(STRING)
    /\ IsFiniteSet(DOMAIN parts.headers)
    /\ DOMAIN parts.headers \subseteq StompHeaders \cup {"kInvalid"}
    /\ parts.headers \in [DOMAIN parts.headers -> Seq(STRING)]

VARIABLES
  source,         \* a frame
  target,         \* a frame it is copied or moved to
  last            \* the last operation: what it was given and what came out

vars == <<source, target, last>>

-----------------------------------------------------------------------------
(* Parsing *)

npos == 0
Find(text, token, start) ==
  LET at == {i \in start .. Len(text) : text[i] = token}
  IN  IF at = {} THEN npos ELSE CHOOSE i \in at : \A j \in at : i <= j
SubStr(text, start, end) == SubSeq(text, start, end - 1)

\* std::from_chars: the number the value starts with, whatever follows it.
\* StoI fails only for the invalid argument.
StoI(value) ==
  LET isDigit(i) == value[i] \in DOMAIN Digits
      end == CHOOSE i \in 1 .. Len(value) + 1 :
               (i <= Len(value) => ~isDigit(i)) /\ \A j \in 1 .. i - 1 : isDigit(j)
      number[i \in 0 .. end - 1] == IF i = 0 THEN 0 ELSE 10 * number[i - 1] + Digits[value[i]]
  IN  IF end <= Len(value) /\ value[end] = Huge THEN [ec |-> "out_of_range", number |-> 0]
      ELSE IF end > 1 THEN [ec |-> "ok", number |-> number[end - 1]]
      ELSE [ec |-> "invalid_argument", number |-> 0]

Parsed(ec, command, headers, body) ==
  [ec |-> ec, command |-> command, headers |-> headers, body |-> body]
NoHeaders == [h \in {} |-> <<>>]
Fails(ec) == Parsed(ec, "kInvalid", NoHeaders, <<>>)

\* A header that is already there keeps its value.
FirstWins(header, value, rest) ==
  [h \in {header} \cup DOMAIN rest |-> IF h = header THEN value ELSE rest[h]]

\* plain.at(valueStart) throws if the text ends with the colon.
AtThrows(text, headerEnd) == headerEnd = Len(text)
\* Faulty variant: empty values are taken.
NoValueEmpty(text, headerEnd) == FALSE
ValueEmpty(text, headerEnd) == headerEnd < Len(text) /\ text[headerEnd + 1] = newLine

\* The header line at position pos: how it fails, or its value and where it ends.
HeaderLine(text, pos) ==
  LET headerEnd == Find(text, colon, pos)
      valueEnd == Find(text, newLine, headerEnd + 1)
      ec == IF headerEnd = npos THEN "kParsingMissingColonInHeader"
            ELSE IF SubStr(text, pos, headerEnd) \notin {<<h>> : h \in StompHeaders}
            THEN "kParsingUnrecognizedHeader"
            ELSE IF AtThrows(text, headerEnd) THEN "throws"
            ELSE IF ValueEmpty(text, headerEnd) THEN "kParsingEmptyHeaderValue"
            ELSE IF valueEnd = npos THEN "kParsingMissingEolAfterHeaderValue"
            ELSE "kOk"
  IN  [ec |-> ec, end |-> valueEnd, value |-> SubStr(text, headerEnd + 1, valueEnd)]

\* The loop over the header lines from position start on: where it stops and
\* the headers it found, or how it fails.
Lines(ec, end, headers) == [ec |-> ec, end |-> end, headers |-> headers]
InFront(header, value, rest) == Lines(rest.ec, rest.end, FirstWins(header, value, rest.headers))
ParseHeaders(text, start) ==
  LET line[pos \in start .. Len(text) + 1] ==
        IF pos > Len(text) \/ text[pos] = newLine THEN Lines("kOk", pos, NoHeaders)
        ELSE LET header == HeaderLine(text, pos)
             IN  IF header.ec # "kOk" THEN Lines(header.ec, pos, NoHeaders)
                 ELSE InFront(text[pos], header.value, line[header.end + 1])
  IN  line[start]

\* Faulty variant: the body always ends at the first NULL.
BodyEndAtNull(text, start, headers) ==
  LET end == Find(text, null, start)
  IN  [ec |-> IF end = npos THEN "kParsingMissingNullInBody" ELSE "kOk", end |-> end]
\* Where the body ends, given where it starts: after content-length tokens, or
\* at the first NULL.  A number out of range leaves bodyLength at 0.
BodyEnd(text, start, headers) ==
  LET length == StoI(headers["content-length"])
      bodyLength == length.number
  IN  IF "content-length" \notin DOMAIN headers
      THEN LET end == Find(text, null, start)
           IN  [ec |-> IF end = npos THEN "kParsingMissingNullInBody" ELSE "kOk", end |-> end]
      ELSE IF length.ec = "invalid_argument"
      THEN [ec |-> "kParsingInvalidContentLength", end |-> npos]
      ELSE IF start + bodyLength > Len(text) + 1
      THEN [ec |-> "kParsingContentLengthExceedsFrameLength", end |-> npos]
      ELSE IF start + bodyLength = Len(text) + 1 \/ text[start + bodyLength] # null
      THEN [ec |-> "kParsingMissingNullInBody", end |-> npos]
      ELSE [ec |-> "kOk", end |-> start + bodyLength]

\* Faulty variant: what follows the NULL is not looked at.
AnyTail(text, end) == TRUE
OnlyNewLines(text, end) == \A i \in end + 1 .. Len(text) : text[i] = newLine

\* What follows the header lines: the blank line, the body and its end.
ParseBody(text, lines) ==
  LET body == BodyEnd(text, lines.end + 1, lines.headers)
  IN  IF lines.ec # "kOk" THEN Fails(lines.ec)
      ELSE IF lines.end > Len(text) THEN Fails("kParsingMissingBlankLineAfterHeaders")
      ELSE IF body.ec # "kOk" THEN Fails(body.ec)
      ELSE IF ~OnlyNewLines(text, body.end) THEN Fails("kParsingJunkAfterBody")
      ELSE Parsed("kOk", text[1], lines.headers, SubStr(text, lines.end + 1, body.end))

ParseFrame(text) ==
  LET commandEnd == Find(text, newLine, 1)
  IN  IF commandEnd = npos THEN Fails("kParsingMissingEolAfterCommand")
      ELSE IF SubStr(text, 1, commandEnd) \notin {<<c>> : c \in Commands}
      THEN Fails("kParsingUnrecognizedCommand")
      ELSE ParseBody(text, ParseHeaders(text, commandEnd + 1))

\* The codes ValidateFrame may return.  A length out of range is read
\* uninitialized: it may or may not be the length of the body.
ValidateFrame(frame) ==
  LET length == StoI(frame.headers["content-length"])
  IN  IF frame.command \notin Commands THEN {"kValidationInvalidCommand"}
      ELSE IF ~(RequiredHeaders[frame.command] \subseteq DOMAIN frame.headers)
      THEN {"kValidationMissingHeader"}
      ELSE IF "content-length" \notin DOMAIN frame.headers THEN {"kOk"}
      ELSE CASE length.ec = "invalid_argument" -> {"kValidationInvalidContentLength"}
             [] length.ec = "out_of_range" -> {"kOk", "kValidationContentLengthMismatch"}
             [] OTHER -> {IF length.number = Len(frame.body) THEN "kOk"
                          ELSE "kValidationContentLengthMismatch"}

-----------------------------------------------------------------------------
(* Frame objects *)

EmptyFrame ==
  [plain |-> <<>>, command |-> "kInvalid", headers |-> NoHeaders, body |-> <<>>, views |-> "own"]
HasViews(frame) == frame.headers # NoHeaders \/ frame.body # <<>>

\* ParseAndValidateFrame on an object that has just been given this text: the
\* object and the code.  The members change only if the text parses; the old
\* ones are views into a text that is gone.
ParseAndValidateFrame(frame, text) ==
  LET parsed == ParseFrame(text)
      new == [plain |-> text, command |-> parsed.command, headers |-> parsed.headers,
              body |-> parsed.body, views |-> "own"]
      old == [frame EXCEPT !.plain = text,
                           !.views = IF HasViews(frame) THEN "dangling" ELSE @]
  IN  IF parsed.ec = "kOk" THEN {<<new, ec>> : ec \in ValidateFrame(new)}
      ELSE {<<old, parsed.ec>>}

Header(header, value) == <<header, colon>> \o value \o <<newLine>>
HeaderText(headers, order) ==
  LET text[i \in 0 .. Len(order)] ==
        IF i = 0 THEN <<>> ELSE text[i - 1] \o Header(order[i], headers[order[i]])
  IN  text[Len(order)]
\* Faulty variant: the blank line goes missing when there are no headers.
PlainTextNoBlank(parts, order) ==
  <<parts.command, newLine>> \o HeaderText(parts.headers, order)
    \o (IF order = <<>> THEN <<>> ELSE <<newLine>>) \o parts.body \o <<null>>
\* Components as a string: the headers in the order of the hash map, any order.
PlainText(parts, order) ==
  <<parts.command, newLine>> \o HeaderText(parts.headers, order)
    \o <<newLine>> \o parts.body \o <<null>>

NoParts == [command |-> "kInvalid", headers |-> NoHeaders, body |-> <<>>]
Outcome(op, ec, parts) == [op |-> op, ec |-> ec, parts |-> parts]

FromText ==
  /\ last.op = "none"
  /\ \E text \in Texts : \E made \in ParseAndValidateFrame(EmptyFrame, text) :
       source' = made[1] /\ last' = Outcome("construct", made[2], NoParts)
  /\ UNCHANGED target

FromParts ==
  /\ last.op = "none"
  /\ \E parts \in Parts : \E order \in SetToSeqs(DOMAIN parts.headers) :
       \E made \in ParseAndValidateFrame(EmptyFrame, PlainText(parts, order)) :
         source' = made[1] /\ last' = Outcome("construct", made[2], parts)
  /\ UNCHANGED target

\* The copies drop the code; a constructor that throws leaves no object.
Built == last.op = "construct" /\ last.ec # "throws"

CopyConstruct ==
  /\ Built
  /\ \E made \in ParseAndValidateFrame(EmptyFrame, source.plain) :
       target' = made[1] /\ last' = Outcome("copy", made[2], NoParts)
  /\ UNCHANGED source

\* Faulty variant: the text is copied and not parsed again.
CopyAssignNoParse ==
  /\ Built
  /\ target' = [target EXCEPT !.plain = source.plain]
  /\ last' = Outcome("assign", "kOk", NoParts)
  /\ UNCHANGED source
CopyAssign ==
  /\ Built
  /\ \E made \in ParseAndValidateFrame(target, source.plain) :
       target' = made[1] /\ last' = Outcome("assign", made[2], NoParts)
  /\ UNCHANGED source

\* The defaulted moves.  A text stored in place stays behind, and so do the
\* views into it; one on the heap changes its owner.
Move ==
  /\ Built
  /\ target' = [source EXCEPT
       !.views = IF HasViews(source) /\ Len(source.plain) <= SmallString THEN "dangling" ELSE @]
  /\ source' = [source EXCEPT !.plain = <<>>, !.headers = NoHeaders,
       !.views = IF source.body # <<>> THEN "dangling" ELSE @]
  /\ last' = Outcome("move", "kOk", NoParts)

\* The frame assigned to is empty or was made from one of the texts Targets.
Init ==
  /\ source = EmptyFrame
  /\ target \in {EmptyFrame} \cup
       UNION {{made[1] : made \in ParseAndValidateFrame(EmptyFrame, text)} : text \in Targets}
  /\ last = Outcome("none", "kOk", NoParts)

Next == FromText \/ FromParts \/ CopyConstruct \/ CopyAssign \/ Move

Spec == Init /\ [][Next]_vars

-----------------------------------------------------------------------------
(* Reference: the grammar of frames, by position instead of by scanning *)

\* The blank line: the first new line that follows another one.
IsBlank(text, i) ==
  /\ i \in 3 .. Len(text) /\ text[i] = newLine /\ text[i - 1] = newLine
  /\ \A j \in 3 .. i - 1 : text[j] = newLine => text[j - 1] # newLine

\* The lines before position end, each by the position of its header, and the
\* values: up to the next new line.
HeaderLines(text, end) == {i \in 3 .. end - 1 : text[i - 1] = newLine}
ValueAt(text, i) ==
  LET stop == CHOOSE j \in i .. Len(text) :
                text[j] = newLine /\ \A k \in i .. j - 1 : text[k] # newLine
  IN  SubSeq(text, i + 2, stop - 1)
GoodLines(text, end) ==
  \A i \in HeaderLines(text, end) :
    /\ i + 2 < end /\ text[i] \in StompHeaders /\ text[i + 1] = colon
    /\ text[i + 2] # newLine
GoodCommand(text) == Len(text) > 1 /\ text[1] \in Commands /\ text[2] = newLine

FirstLineOf(text, h, blank) ==
  LET at == {i \in HeaderLines(text, blank) : text[i] = h}
  IN  CHOOSE i \in at : \A j \in at : i <= j
HeadersOf(text, blank) ==
  [h \in {text[i] : i \in HeaderLines(text, blank)} |-> ValueAt(text, FirstLineOf(text, h, blank))]

\* What a text says: at most one frame; none if it is malformed.
Meaning(text) ==
  {f \in UNION {{[command |-> text[1], headers |-> HeadersOf(text, blank),
                  body |-> SubSeq(text, blank + 1, end - 1)] :
                   end \in {e \in blank + 1 .. Len(text) :
                              text[e] = null /\ \A i \in e + 1 .. Len(text) : text[i] = newLine}} :
                 blank \in {b \in DOMAIN text : /\ GoodCommand(text) /\ IsBlank(text, b)
                                               /\ GoodLines(text, b)}} :
    IF "content-length" \in DOMAIN f.headers
    THEN StoI(f.headers["content-length"]) = [ec |-> "ok", number |-> Len(f.body)]
    ELSE null \notin ToSet(f.body)}

OutOfRange(text) == Huge \in ToSet(text)

-----------------------------------------------------------------------------
(* Properties *)

\* Every variable has its type; a frame never gets a command or header that
\* does not exist.
TypeOK ==
  \A frame \in {source, target} :
    /\ frame.command \in Commands \cup {"kInvalid"}
    /\ DOMAIN frame.headers \subseteq StompHeaders
    /\ \A h \in DOMAIN frame.headers : Len(frame.headers[h]) > 0
    /\ frame.views \in {"own", "dangling"}

\* The parser accepts a text exactly if the grammar does (numbers that do not
\* fit into size_t apart), and the validator then rejects exactly the frames
\* that lack a header their command requires.
AcceptedIffWellFormed ==
  last.op = "construct" /\ ~OutOfRange(source.plain) =>
    LET meaning == Meaning(source.plain)
    IN  /\ last.ec \in {"kOk", "kValidationMissingHeader"} <=> meaning # {}
        /\ last.ec = "kOk" <=>
             \E f \in meaning : RequiredHeaders[f.command] \subseteq DOMAIN f.headers

\* Whatever made the object (text, components, copy, assignment or move): while
\* its views are its own, its accessors say what its text says.
AccessorsMatchText ==
  \A frame \in {source, target} :
    frame.views = "own" /\ ~OutOfRange(frame.plain) =>
      \A f \in Meaning(frame.plain) :
        f = [command |-> frame.command, headers |-> frame.headers, body |-> frame.body]

\* Components that a frame can carry come back unchanged from the text they are
\* printed to, in whatever order the headers are printed.
ComponentsRoundTrip ==
  LET parts == last.parts
      values == {parts.headers[h] : h \in DOMAIN parts.headers}
      sized == "content-length" \in DOMAIN parts.headers
      carried ==
        /\ parts.command \in Commands /\ DOMAIN parts.headers \subseteq StompHeaders
        /\ RequiredHeaders[parts.command] \subseteq DOMAIN parts.headers
        /\ \A v \in values : v # <<>> /\ newLine \notin ToSet(v)
        /\ IF sized THEN StoI(parts.headers["content-length"])
                            = [ec |-> "ok", number |-> Len(parts.body)]
           ELSE null \notin ToSet(parts.body)
  IN  last.op = "construct" /\ carried =>
        /\ last.ec = "kOk"
        /\ parts = [command |-> source.command, headers |-> source.headers, body |-> source.body]

\* What the comments on the parsing constructors and on ParseAndValidateFrame say
\* (include/stomp-frame.h:121-124, 130-134): "The result of the operation is stored
\* in the error code."  No text leaves the caller with an exception instead.  The
\* code breaks this for a text that ends behind the colon of a header.
ResultInErrorCode == last.ec # "throws"

\* The validator reads the content length again: it never finds it invalid, and
\* finds it different from the body only if it was out of range.
LengthsAgree ==
  last.ec # "kValidationInvalidCommand" /\ last.ec # "kValidationInvalidContentLength"
  /\ (last.ec = "kValidationContentLengthMismatch" => OutOfRange(source.plain))
=============================================================================
