-------------------------------- MODULE Json --------------------------------
(***************************************************************************)
(* json_find (util/json.c): looks for a name in a JSON object that need    *)
(* not be complete or valid.  A position is a pointer into buf, Stop the   *)
(* end of it; nothing at or beyond Stop is ever read, for buf has no such  *)
(* element.  A literal is one character here ("t"), a number any sequence  *)
(* of the digit "1", blanks are " ", and \u is followed by UHEX characters *)
(* (4).                                                                    *)
(***************************************************************************)
EXTENDS Integers, SequencesExt

CONSTANTS
  Documents,  \* what json_find is called with
  Names,      \* the names it looks for
  UHEX

ASSUME JsonAssumption == UHEX \in Nat

VARIABLES
  json,   \* the document, its members if it is valid, and how it was cut short
  name,   \* the name
  found   \* what json_find returned, or 0

jsonvars == <<json, name, found>>

buf == json.text
Stop == Len(buf) + 1
----------------------------------------------------------------------------
skip_ws(p) == Min({q \in p .. Stop : q = Stop \/ buf[q] # " "})
skip_literal(p) == p + 1
skip_number(p) == Min({q \in p .. Stop : q = Stop \/ buf[q] # "1"})

(* The scan of a string from p on.  skip_string does not notice an escape   *)
(* that is cut short.                                                       *)
RECURSIVE skip_string_from(_)
skip_string_from(p) ==
  IF p = Stop THEN Stop
  ELSE IF buf[p] = "q" THEN p + 1
  ELSE IF buf[p] # "\\" THEN skip_string_from(p + 1)
  ELSE IF p + 1 = Stop THEN Stop
  ELSE IF buf[p + 1] # "u" THEN skip_string_from(p + 2)
  ELSE IF Stop - (p + 2) < UHEX THEN p + 2
  ELSE skip_string_from(p + 2 + UHEX)

(* Mutant: the string is taken to end at the first quote. *)
skip_string_naive(p) == Min({Stop} \cup {q + 1 : q \in {r \in p + 1 .. Stop - 1 : buf[r] = "q"}})
skip_string(p) == skip_string_from(p + 1)

RECURSIVE skip_value(_), skip_array(_), skip_object(_)

(* Where to go on in an array or object: with an entry at p, or behind it.  *)
EntryAt(p) == [at |-> p, entry |-> TRUE]
Behind(p) == [at |-> p, entry |-> FALSE]

(* After a value, in an array or object that ends with c: the end of it,    *)
(* the start of the next entry, or nothing valid.                           *)
AfterValue(p, c) ==
  LET q == skip_ws(p) IN
  IF q = Stop THEN Behind(Stop)
  ELSE IF buf[q] = c THEN Behind(q + 1)
  ELSE IF buf[q] # "," THEN Behind(Stop)
  ELSE EntryAt(skip_ws(q + 1))

(* After an opening bracket: nothing, or the first entry. *)
Opened(p, c) ==
  LET q == skip_ws(p + 1) IN
  IF q = Stop THEN Behind(Stop) ELSE IF buf[q] = c THEN Behind(q + 1) ELSE EntryAt(q)

(* The loop of skip_array. *)
skip_array(e) ==
  IF ~e.entry THEN e.at ELSE skip_array(AfterValue(skip_value(e.at), "]"))

(* The loop of skip_object; an entry starts with its name. *)
skip_object(e) ==
  IF ~e.entry THEN e.at
  ELSE IF e.at = Stop \/ (e.at # Stop /\ buf[e.at] # "q") THEN Stop
  ELSE LET q == skip_ws(skip_string(e.at)) IN
       IF q = Stop \/ (q # Stop /\ buf[q] # ":") THEN Stop
       ELSE skip_object(AfterValue(skip_value(skip_ws(q + 1)), "}"))

skip_value(p) ==
  IF p = Stop THEN Stop
  ELSE CASE buf[p] = "t" -> skip_literal(p)
         [] buf[p] = "q" -> skip_string(p)
         [] buf[p] = "[" -> skip_array(Opened(p, "]"))
         [] buf[p] = "{" -> skip_object(Opened(p, "}"))
         [] buf[p] = "1" -> skip_number(p)
         [] OTHER -> Stop
----------------------------------------------------------------------------
(* match_str: the position after the string that starts at p, and whether   *)
(* it is s.  A \u escape is taken not to match.                             *)
Unescaped == [c \in {"q", "\\", "n"} |-> IF c = "n" THEN "newline" ELSE c]

RECURSIVE match_str(_, _, _)
match_str(p, s, ok) ==
  LET At(q, b) == [at |-> q, foundit |-> b]
      Go(q, ch) == match_str(q, IF s = <<>> THEN s ELSE Tail(s), ok /\ s # <<>> /\ s[1] = ch)
  IN
  IF p = Stop THEN At(Stop, ok)
  ELSE IF buf[p] = "q" THEN At(p + 1, ok /\ s = <<>>)
  ELSE IF buf[p] # "\\" THEN Go(p + 1, buf[p])
  ELSE IF p + 1 = Stop THEN At(Stop, ok)
  ELSE IF buf[p + 1] \in DOMAIN Unescaped THEN Go(p + 2, Unescaped[buf[p + 1]])
  ELSE IF buf[p + 1] = "u" /\ Stop - (p + 2) >= UHEX
       THEN match_str(p + 2 + UHEX, IF s = <<>> THEN s ELSE Tail(s), FALSE)
  ELSE At(Stop, buf[p + 1] = "u" /\ ok)

(* SCAN: the position after blanks and the character c, or 0 if there is    *)
(* something else.                                                          *)
SCAN(p, c) ==
  LET q == skip_ws(p) IN IF q # Stop /\ buf[q] = c THEN q + 1 ELSE 0

(* json_find, from a member of the object on, and from the start. *)
RECURSIVE json_find_member(_, _)
json_find_member(p, s) ==
  LET open == SCAN(p, "q")
      m == match_str(open, s, TRUE)
      colon == SCAN(m.at, ":")
      value == skip_ws(colon)
      comma == SCAN(skip_value(value), ",")
  IN
  IF open = 0 \/ colon = 0 THEN Stop
  ELSE IF m.foundit THEN value
  ELSE IF comma = 0 THEN Stop
  ELSE json_find_member(comma, s)

json_find(s) ==
  LET p == SCAN(1, "{") IN IF p = 0 THEN Stop ELSE json_find_member(p, s)

JsonInit == json \in Documents /\ name \in Names /\ found = 0
JsonNext == found = 0 /\ found' = json_find(name) /\ UNCHANGED <<json, name>>
JsonSpec == JsonInit /\ [][JsonNext]_jsonvars
----------------------------------------------------------------------------
(* Documents.  A member has a name as it is written, what that means, and a *)
(* value; Written is the text of an object with the members ms, in which    *)
(* the value of member i starts at ValueAt(ms, i).                          *)
Named(m) == <<"q">> \o m.raw \o <<"q", ":", " ">>
Entry(m) == Named(m) \o m.value \o <<" ">>
Written(ms) ==
  <<" ", "{">> \o FlattenSeq([i \in DOMAIN ms |-> (IF i = 1 THEN <<>> ELSE <<",">>) \o Entry(ms[i])])
    \o <<"}">>
ValueAt(ms, i) == 1 + i + Len(FlattenSeq([j \in 1 .. i - 1 |-> Entry(ms[j])])) + Len(Named(ms[i])) + 1

(* The object with members ms, of which only the first n characters came. *)
Document(ms, n) == [text |-> SubSeq(Written(ms), 1, n), ms |-> ms, whole |-> n = Len(Written(ms))]

(* Where the value of the first member with the name starts, in the whole   *)
(* object, or the end of that if there is no such member.                   *)
FirstValue ==
  LET hits == {i \in DOMAIN json.ms : json.ms[i].name = name}
  IN  IF hits = {} THEN Len(Written(json.ms)) + 1 ELSE ValueAt(json.ms, Min(hits))

(* In a valid object that ends before end it is found, as documented. *)
WholeFinds == json.whole => found = FirstValue

(* In an object that was cut short, in a string or an escape too, it is     *)
(* found if it has begun.  This is what the code does and not what json.h   *)
(* says, see NothingOfCut.                                                  *)
PrefixFinds == ~json.whole => found = Min({FirstValue, Stop})

(* json_find finds the value of the first member with the name, if there is *)
(* one, and end otherwise, whatever the values before it contain, however   *)
(* the names are written, and wherever the document was cut short.          *)
JsonFinds == found # 0 => WholeFinds /\ PrefixFinds

(* json_find as documented: end, unless there is a valid object that ends   *)
(* before or at end.                                                        *)
NothingOfCut == found # 0 /\ ~json.whole => found = Stop
=============================================================================
