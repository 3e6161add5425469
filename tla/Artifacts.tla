------------------------------- MODULE Artifacts -------------------------------
(***************************************************************************)
(* The artifact an answer is normalised to: skivolve/artifacts.py.          *)
(*                                                                         *)
(* An answer is text, of which the ends of its lines are told apart, and    *)
(* what its JSON says.  Of the limits those on members and on the text are  *)
(* modelled; a string, a number or a nesting that is too long is a value    *)
(* that is refused, like a number that is not finite.                       *)
(***************************************************************************)
EXTENDS Naturals, Sequences

CONSTANTS
  MaxText,      \* MAX_ARTIFACT_BYTES
  MaxMembers    \* MAX_JSON_MEMBERS

\* The answer as it is: encoding, byte order mark, text, and JSON.
RawAnswer(text, json) == [utf8 |-> TRUE, bom |-> FALSE, text |-> text, json |-> json]

NoJson == [top |-> "none", members |-> <<>>]
Json(top, members) == [top |-> top, members |-> members]

-----------------------------------------------------------------------------
\* _strict_utf8_bytes
StrictUtf8(a) == a.utf8 /\ Len(a.text) <= MaxText /\ ~a.bom

\* CRLF, and CR alone, become LF.
LineFeeds(text) ==
  LET upto[n \in 0..Len(text)] ==
        IF n = 0 THEN <<>>
        ELSE IF text[n] = "cr" THEN Append(upto[n - 1], "lf")
        ELSE IF text[n] = "lf" /\ n > 1 /\ text[n - 1] = "cr" THEN upto[n - 1]
        ELSE Append(upto[n - 1], text[n])
  IN  upto[Len(text)]

Keys(json) == {json.members[k][1] : k \in DOMAIN json.members}

\* _parse_bounded_json: an object or an array, no key twice.
Parses(json) ==
  /\ json.top \in {"object", "array"}
  /\ json.top = "object" =>
       \A j, k \in DOMAIN json.members : json.members[j][1] = json.members[k][1] => j = k

\* _validate_json_shape, and the numbers of the parser and of RFC 8785.
Bounded(json) ==
  /\ Len(json.members) <= MaxMembers
  /\ \A k \in DOMAIN json.members :
       json.members[k][2] \notin {"nan", "infinite", "long", "deep", "unsafe"}

\* Canonical JSON forgets the order of the keys; that of an array stays.
Canonical8785(json) ==
  IF json.top = "array" THEN [k \in DOMAIN json.members |-> json.members[k][2]]
  ELSE [key \in Keys(json) |->
          LET k == CHOOSE k \in DOMAIN json.members : json.members[k][1] = key
          IN  json.members[k][2]]

-----------------------------------------------------------------------------
(* normalize_artifact *)

HasForm(kind, a) ==
  /\ StrictUtf8(a)
  /\ kind = "final_output_json" => Parses(a.json) /\ Bounded(a.json)

FormOf(kind, a) ==
  IF kind = "final_output_json"
  THEN [json |-> Canonical8785(a.json)] ELSE [text |-> LineFeeds(a.text)]
=============================================================================
