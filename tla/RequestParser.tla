---------------------------- MODULE RequestParser ---------------------------
(***************************************************************************)
(* http::server3::request_parser (src/src/request_parser.cpp): the bytes   *)
(* of one connection are consumed one by one until a request is complete   *)
(* or wrong.  A byte is known by what the parser can tell apart; "letter"  *)
(* and "tspecial" stand for the rest of their kind.  The version numbers   *)
(* are not kept: nothing reads them.                                       *)
(***************************************************************************)
EXTENDS Integers, Sequences, SequencesExt

CONSTANTS
  Sent,        \* the bytes clients send
  MaxBytes,    \* bound: bytes of a request
  MaxLine,     \* bound: bytes of the method and the uri
  MaxName,     \* bound: bytes of a header's name
  MaxValue,    \* bound: bytes of a header's value
  MaxHeaders   \* bound: headers

Bytes == {"H", "T", "P", "letter", "digit", ".", "/", ":", "tspecial",
          "SP", "TAB", "CR", "LF", "ctl", "high"}

ASSUME ParserAssumption ==
  /\ Sent \subseteq Bytes
  /\ MaxBytes \in Nat /\ MaxLine \in Nat /\ MaxName \in Nat /\ MaxValue \in Nat
  /\ MaxHeaders \in Nat

VARIABLES
  parser,  \* request_parser::state_, and the request built so far
  input    \* the bytes consumed

vars == <<parser, input>>

Header == [name : Seq(Bytes), value : Seq(Bytes)]

\* uri_start is missing: the space after the method leads to uri at once.
States ==
  {"method_start", "method", "uri", "http_version_h", "http_version_t_1",
   "http_version_t_2", "http_version_p", "http_version_slash",
   "http_version_major_start", "http_version_major", "http_version_minor_start",
   "http_version_minor", "expecting_newline_1", "header_line_start", "header_lws",
   "header_name", "space_before_header_value", "header_value",
   "expecting_newline_2", "expecting_newline_3"}

\* What consume returns when it is not indeterminate.
Results == {"accepted", "rejected"}

Parser == [state : States \cup Results,
           method : Seq(Bytes), uri : Seq(Bytes), headers : Seq(Header)]

NewParser == [state |-> "method_start", method |-> << >>, uri |-> << >>, headers |-> << >>]

IsChar(b) == b # "high"
IsCtl(b) == b \in {"TAB", "CR", "LF", "ctl"}
IsTspecial(b) == b \in {"/", ":", "tspecial", "SP", "TAB"}

IsToken(b) == IsChar(b) /\ ~IsCtl(b) /\ ~IsTspecial(b)

\* Faulty: text is ASCII.
IsTextAscii(b) == IsChar(b) /\ ~IsCtl(b)

\* A char of 128 and more is negative, so no control character.
IsText(b) == ~IsCtl(b)

-----------------------------------------------------------------------------

Goto(r, s) == [r EXCEPT !.state = s]

Rejected(r) == Goto(r, "rejected")

\* Where one byte is expected: the state, the byte and the next state.
Arrows ==
  {<<"http_version_h", "H", "http_version_t_1">>,
   <<"http_version_t_1", "T", "http_version_t_2">>,
   <<"http_version_t_2", "T", "http_version_p">>,
   <<"http_version_p", "P", "http_version_slash">>,
   <<"http_version_slash", "/", "http_version_major_start">>,
   <<"http_version_major_start", "digit", "http_version_major">>,
   <<"http_version_major", "digit", "http_version_major">>,
   <<"http_version_major", ".", "http_version_minor_start">>,
   <<"http_version_minor_start", "digit", "http_version_minor">>,
   <<"http_version_minor", "digit", "http_version_minor">>,
   <<"http_version_minor", "CR", "expecting_newline_1">>,
   <<"expecting_newline_1", "LF", "header_line_start">>,
   <<"space_before_header_value", "SP", "header_value">>,
   <<"expecting_newline_2", "LF", "header_line_start">>,
   <<"expecting_newline_3", "LF", "accepted">>}

Follow(r, b) ==
  IF \E a \in Arrows : a[1] = r.state /\ a[2] = b
    THEN Goto(r, (CHOOSE a \in Arrows : a[1] = r.state /\ a[2] = b)[3])
    ELSE Rejected(r)

\* Faulty: the unused state uri_start is entered.
RequestLineUriStart(r, b) ==
  IF r.state = "method" /\ b = "SP" THEN Goto(r, "uri_start")
  ELSE [r EXCEPT !.state = "method", !.method = Append(@, b)]

RequestLine(r, b) ==
  CASE r.state = "method" /\ b = "SP" -> Goto(r, "uri")
    [] r.state \in {"method_start", "method"} /\ IsToken(b) ->
         [r EXCEPT !.state = "method", !.method = Append(@, b)]
    [] r.state = "uri" /\ b = "SP" -> Goto(r, "http_version_h")
    [] r.state = "uri" /\ b # "SP" /\ IsText(b) -> [r EXCEPT !.uri = Append(@, b)]
    [] OTHER -> Rejected(r)

-----------------------------------------------------------------------------

\* Faulty: a line that starts with a blank always continues a header.
FoldsAlways(r, b) == b \in {"SP", "TAB"}

\* Such a line continues the last header.
Folds(r, b) == r.headers # << >> /\ b \in {"SP", "TAB"}

\* Faulty: the continuation replaces the value.
AddToValueOver(r, b) ==
  [r EXCEPT !.state = "header_value",
            !.headers[Len(r.headers)].value = IF r.state = "header_lws" THEN <<b>> ELSE Append(@, b)]

\* headers.back() is the last header; without one it is undefined.
AddToValue(r, b) ==
  [r EXCEPT !.state = "header_value", !.headers[Len(r.headers)].value = Append(@, b)]

LineStart(r, b) ==
  CASE b = "CR" -> Goto(r, "expecting_newline_3")
    [] Folds(r, b) -> Goto(r, "header_lws")
    [] b # "CR" /\ ~Folds(r, b) /\ IsToken(b) ->
         [r EXCEPT !.state = "header_name",
                   !.headers = Append(@, [name |-> <<b>>, value |-> << >>])]
    [] OTHER -> Rejected(r)

Lws(r, b) ==
  CASE b = "CR" -> Goto(r, "expecting_newline_2")
    [] b \in {"SP", "TAB"} -> r
    [] b # "SP" /\ IsText(b) -> AddToValue(r, b)
    [] OTHER -> Rejected(r)

Name(r, b) ==
  CASE b = ":" -> Goto(r, "space_before_header_value")
    [] IsToken(b) -> [r EXCEPT !.headers[Len(r.headers)].name = Append(@, b)]
    [] OTHER -> Rejected(r)

Value(r, b) ==
  CASE b = "CR" -> Goto(r, "expecting_newline_2")
    [] IsText(b) -> AddToValue(r, b)
    [] OTHER -> Rejected(r)

Consume(r, b) ==
  CASE r.state \in {"method_start", "method", "uri"} -> RequestLine(r, b)
    [] r.state = "header_line_start" -> LineStart(r, b)
    [] r.state = "header_lws" -> Lws(r, b)
    [] r.state = "header_name" -> Name(r, b)
    [] r.state = "header_value" -> Value(r, b)
    [] OTHER -> Follow(r, b)

-----------------------------------------------------------------------------

Init == parser = NewParser /\ input = << >>

WithinBounds(r) ==
  /\ Len(r.method) + Len(r.uri) <= MaxLine /\ Len(r.headers) <= MaxHeaders
  /\ \A h \in ToSet(r.headers) : Len(h.name) <= MaxName /\ Len(h.value) <= MaxValue

\* One turn of the loop of parse, whatever part of the request the byte came
\* with; after a result the loop ends and is not entered again.
Receive(b) ==
  /\ parser.state \notin Results /\ Len(input) < MaxBytes
  /\ WithinBounds(Consume(parser, b))
  /\ parser' = Consume(parser, b)
  /\ input' = Append(input, b)

Next == \E b \in Sent : Receive(b)

Spec == Init /\ [][Next]_vars

-----------------------------------------------------------------------------

\* Every value has its type.
TypeOK == parser \in Parser /\ input \in Seq(Bytes)

\* Wherever consume writes to headers.back() there is a header: a folded line
\* before the first header is no continuation.
BackExists ==
  parser.state \in {"header_lws", "header_name", "space_before_header_value",
                    "header_value", "expecting_newline_2"}
    => parser.headers # << >>

=============================================================================
