----------------------------- MODULE RequestUrl -----------------------------
(***************************************************************************)
(* How request_handler::handle_request (src/src/request_handler.cpp) finds *)
(* the action and the parameters of a url.  A url is a sequence of tokens: *)
(* characters, escapes, words (letters and "_") and digits, escaped or     *)
(* not.  An escape is read as an integer in the two characters behind the  *)
(* "%": one digit will do, and so will a sign and a digit, and both        *)
(* characters are gone ("%4/", "%-1").  "%zz" is a "%" with nothing to     *)
(* read, or less than two characters, behind it.  A blank there is left    *)
(* out: request_parser.cpp ends the url at it.                             *)
(***************************************************************************)
EXTENDS Integers, Sequences, FiniteSetsExt

CONSTANTS
  Words,    \* the words of urls
  Numerals  \* the runs of digits of urls

\* The actions a url with and one without parameters can name.
ParamActions ==
  {"initSession", "endSession", "voidTransaction", "addCustomer", "voidCustomer", "addItem",
   "voidItem", "getItemInfo", "getTotals", "getAllCart", "getAllCartWithBarcodes",
   "manageRescan"}
PlainActions == {"getStoreInfo", "getCartsList"}

NotRecognized == "WEBI_ACTION_NOT_RECOGNIZED"

\* "~" is any character that means nothing, "%25" the escape of one.
Escapes    == {"%2F", "%3F", "%2E", "%26", "%25", "%4/", "%-1", "+"}
Characters == {"/", "?", ".", "&", ";", "=", " ", "~"}
Tokens     == Characters \cup Escapes \cup {"%zz"} \cup Words \cup Numerals

ASSUME UrlAssumption ==
  /\ ParamActions \cup PlainActions \subseteq Words
  /\ {"index", "html", "barcode", "devSessId"} \subseteq Words
  /\ Words \cap (Characters \cup Escapes \cup {"%zz"} \cup Numerals) = {}
  /\ Numerals \cap (Characters \cup Escapes \cup {"%zz"}) = {}

-----------------------------------------------------------------------------
(* url_decode and the checks after it. *)

Unescaped(t) ==
  CASE t = "%2F" -> "/" [] t = "%3F" -> "?" [] t = "%2E" -> "." [] t = "%26" -> "&"
    [] t = "+" -> " " [] t \in {"%25", "%4/", "%-1"} -> "~" [] OTHER -> t

Decodes(url) == \A k \in DOMAIN url : url[k] # "%zz"
UrlDecode(url) == [k \in DOMAIN url |-> Unescaped(url[k])]

\* Otherwise the answer is bad_request.
Acceptable(url) ==
  LET path == UrlDecode(url) IN
    /\ Decodes(url) /\ path # << >> /\ path[1] = "/"
    /\ ~\E k \in 2..Len(path) : path[k - 1] = "." /\ path[k] = "."

RequestPath(url) ==
  LET path == UrlDecode(url)
  IN IF path[Len(path)] = "/" THEN path \o <<"index", ".", "html">> ELSE path

-----------------------------------------------------------------------------
(* The two regular expressions.  Both are greedy: the last "?", the last   *)
(* "/" before it and the one before that are taken.                        *)

\* The last position of character c before position n, or 0.
LastBefore(s, c, n) == Max({0} \cup {k \in 1..(n - 1) : s[k] = c})

\* Where the action ends, given where the parameters begin.
ActionStart(path, end) == LastBefore(path, "/", end)
ThreeSlashes(path, end) == LastBefore(path, "/", ActionStart(path, end)) > 1

\* Faulty: the first "?" ends the action.
QuestionMarkFirst(path) ==
  LET marks == {k \in DOMAIN path : path[k] = "?"} IN IF marks = {} THEN 0 ELSE Min(marks)

QuestionMark(path) == LastBefore(path, "?", Len(path) + 1)

HasParams(path) == QuestionMark(path) > 0 /\ ThreeSlashes(path, QuestionMark(path))

Named(path, end, known) ==
  LET name == SubSeq(path, ActionStart(path, end) + 1, end - 1)
  IN IF Len(name) = 1 /\ name[1] \in known THEN name[1] ELSE NotRecognized

ActionOf(path) ==
  LET end == Len(path) + 1
  IN CASE HasParams(path) -> Named(path, QuestionMark(path), ParamActions)
       [] ~HasParams(path) /\ ThreeSlashes(path, end) -> Named(path, end, PlainActions)
       [] OTHER -> NotRecognized

-----------------------------------------------------------------------------
(* The grammar keys_and_values (src/include/base_types.h). *)

InName(t) == t \in Words \cup Numerals

\* The end of the run of letters and digits that starts at n.
RunEnd(s, n) == Min({Len(s) + 1} \cup {k \in n..Len(s) : ~InName(s[k])})

\* A pair that starts at n, and where it ends: a key, and a value if an "="
\* has one.
PairAt(s, n) ==
  LET k == RunEnd(s, n)
      valued == k < Len(s) /\ s[k] = "=" /\ InName(s[k + 1])
      e == IF valued THEN RunEnd(s, k + 1) ELSE k
  IN [key |-> SubSeq(s, n, k - 1), value |-> IF valued THEN SubSeq(s, k + 1, e - 1) ELSE << >>,
      end |-> e]

\* The parse stops at the first character that is out of place and keeps
\* the pairs before it.
Pairs(s) ==
  LET from[n \in 1..(Len(s) + 1)] ==
        IF n > Len(s) \/ s[n] \notin Words THEN << >>
        ELSE LET p == PairAt(s, n)
                 more == p.end <= Len(s) /\ s[p.end] \in {"&", ";"}
             IN <<p>> \o (IF more THEN from[p.end + 1] ELSE << >>)
  IN from[1]

\* A map keeps the first pair with a key.
WithKey(pairs, key) == Min({k \in DOMAIN pairs : pairs[k].key = <<key>>})

ParamsOf(path) ==
  IF HasParams(path) THEN Pairs(SubSeq(path, QuestionMark(path) + 1, Len(path))) ELSE << >>

\* A parameter that is missing is an empty text.
Param(pairs, key) ==
  IF \E k \in DOMAIN pairs : pairs[k].key = <<key>> THEN pairs[WithKey(pairs, key)].value
  ELSE << >>

=============================================================================
