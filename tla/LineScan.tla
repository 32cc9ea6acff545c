------------------------------ MODULE LineScan ------------------------------
(***************************************************************************)
(* How the MCP supervisor finds out which request a line of its worker     *)
(* answers (n0xis-mcp, supervisor.rs, LineScan): byte by byte as the line  *)
(* passes, holding nothing but the id, and stopping as soon as it knows.   *)
(*                                                                         *)
(* A line is an object: fields, each a key and a value, in any order, each *)
(* key once.  It passes as tokens: a structural byte is one, and so is a   *)
(* run of plain bytes.  Where a run of bytes is longer than what is looked *)
(* for (a key of more than 8 bytes) it is "long".                          *)
(***************************************************************************)
EXTENDS Naturals, Sequences

CONSTANTS
    MaxIdBytes,  \* MAX_ID_BYTES
    Values,      \* the values a field may have, as sequences of tokens
    Ids,         \* the ids, likewise
    MaxFields    \* how many fields a line has

VARIABLES
    fields,  \* the line: a sequence of <<key, value>>
    rest,    \* what of it has not been fed
    lexed,   \* where the worker is in it, as JSON has tokens
    scan,    \* the LineScan
    found,   \* what finish returned, for the line
    lines    \* how many lines are to come

scanVars == <<fields, rest, lexed, scan, found, lines>>

Keys == {"id", "result", "error", "method", "long"}
Space == {" ", "newline"}
Structure == {"{", "}", "[", "]", ",", ":"} \cup Space

\* How JSON reads a value: where it is after n tokens, in how many brackets and
\* in which part of a string, if it is in one.
Start == [depth |-> 0, text |-> "none"]

ReadOn(s, b) ==
    CASE s.text = "escape" -> [s EXCEPT !.text = "string"]
      [] s.text = "string" /\ b = "\\" -> [s EXCEPT !.text = "escape"]
      [] s.text = "string" /\ b = "\"" -> [s EXCEPT !.text = "none"]
      [] s.text = "none" /\ b = "\"" -> [s EXCEPT !.text = "string"]
      [] s.text = "none" /\ b \in {"{", "["} -> [s EXCEPT !.depth = @ + 1]
      [] s.text = "none" /\ b \in {"}", "]"} -> [s EXCEPT !.depth = @ - 1]
      [] OTHER -> s

\* The same of a line, which tells plain bytes from what is between tokens too.
LexOn(l, b) ==
    CASE l = "escape" -> "string"
      [] l = "string" -> CASE b = "\\" -> "escape" [] b = "\"" -> "none" [] OTHER -> "string"
      [] OTHER -> CASE b = "\"" -> "string" [] b \in Structure -> "none" [] OTHER -> "plain"

Reading(v) ==
    LET after[n \in 0..Len(v)] == IF n = 0 THEN Start ELSE ReadOn(after[n - 1], v[n])
    IN  after

\* One value, all of it: what would end it comes in its brackets or strings only.
IsValue(v) ==
    /\ v \in Seq(STRING)
    /\ Reading(v)[Len(v)] = Start
    /\ \A n \in 1..Len(v) :
          /\ v[n] # "newline"
          /\ Reading(v)[n - 1] = Start => v[n] \notin {",", "}", "]"}

\* "An id is a string or a number": plain bytes, or one string.
IsId(v) ==
    /\ IsValue(v) /\ v # <<>>
    /\ \/ \A n \in 1..Len(v) : v[n] \notin Structure \cup {"\""}
       \/ v[1] = "\"" /\ \A n \in 1..(Len(v) - 1) : Reading(v)[n].text # "none"

ASSUME ScanAssumption ==
    /\ MaxIdBytes \in Nat /\ MaxFields \in Nat
    /\ \A v \in Values : IsValue(v)
    /\ \A v \in Ids : IsId(v)

\* The fields a line may have.
Field == {<<k, v>> : k \in Keys \ {"id"}, v \in Values} \cup {<<"id", v>> : v \in Ids}

\* A JSON-RPC message has each key once, and a method or an outcome.
Objects == {f \in UNION {[1..n -> Field] : n \in 0..MaxFields} :
              \A i, j \in DOMAIN f :
                 /\ f[i][1] = f[j][1] => i = j
                 /\ ~(f[i][1] = "method" /\ f[j][1] \in {"result", "error"})}

\* The bytes of a member, and of an object, but for the white space.
Member(f, i) ==
    (IF i = 1 THEN <<>> ELSE <<",">>) \o <<"\"", f[i][1], "\"", ":">> \o f[i][2]

Members(f) ==
    LET first[i \in 0..Len(f)] == IF i = 0 THEN <<>> ELSE first[i - 1] \o Member(f, i)
    IN  first

Bytes(f) == <<"{">> \o Members(f)[Len(f)] \o <<"}", "newline">>

NoLine == [answers |-> <<>>, succeeded |-> FALSE]
NewScan == [at |-> "LineStart", depth |-> 0, inString |-> FALSE, escaped |-> FALSE,
            key |-> <<>>, readingId |-> FALSE, id |-> <<>>, tooLong |-> FALSE, has |-> {}]

ScanInit ==
    /\ fields \in Objects
    /\ rest = Bytes(fields) /\ lexed = "none"
    /\ scan = NewScan /\ found = NoLine /\ lines = 1
-----------------------------------------------------------------------------
\* Mutant: what an id is cut to is taken for the id.
CutId(s, b) ==
    IF Len(s.id) < MaxIdBytes THEN [s EXCEPT !.id = Append(@, b)] ELSE s

TakeIdByte(s, b) ==
    IF Len(s.id) < MaxIdBytes THEN [s EXCEPT !.id = Append(@, b)]
    ELSE [s EXCEPT !.tooLong = TRUE]

KeyEnded(s) ==
    IF s.key = <<"id">> THEN [s EXCEPT !.readingId = TRUE]
    ELSE IF Len(s.key) = 1 /\ s.key[1] \in {"result", "error", "method"}
    THEN [s EXCEPT !.has = @ \cup {s.key[1]}]
    ELSE s

SettleIfKnown(s) ==
    IF \/ "method" \in s.has
       \/ s.id # <<>> /\ ~s.readingId /\ s.has \cap {"result", "error"} # {}
    THEN [s EXCEPT !.at = "Settled"] ELSE s

IdEnded(s) ==
    IF s.readingId THEN SettleIfKnown([s EXCEPT !.readingId = FALSE]) ELSE s

InStringByte(s, b) ==
    LET closes == ~s.escaped /\ b = "\""
        t == [s EXCEPT !.escaped = ~s.escaped /\ b = "\\",
                       !.inString = ~closes]
    IN  IF t.depth = 1 /\ t.at = "Key"
        THEN IF closes THEN KeyEnded([t EXCEPT !.at = "Colon"])
             ELSE [t EXCEPT !.key = Append(@, b)]
        ELSE IF t.readingId
        THEN LET u == TakeIdByte(t, b) IN IF closes THEN IdEnded(u) ELSE u
        ELSE t

StructuralByte(s, b) ==
    CASE b \in Space ->
            IF s.readingId /\ s.id # <<>> THEN IdEnded(s) ELSE s
      [] b \notin Space /\ s.at = "LineStart" ->
            IF b = "{" THEN [s EXCEPT !.depth = 1, !.at = "Key", !.key = <<>>]
            ELSE [s EXCEPT !.at = "Settled"]
      [] b = "\"" /\ s.at = "Key" /\ s.depth = 1 ->
            [s EXCEPT !.inString = TRUE, !.key = <<>>]
      [] b = ":" /\ s.at = "Colon" /\ s.depth = 1 ->
            SettleIfKnown([s EXCEPT !.at = "Value"])
      [] b = "\"" /\ s.at \notin {"Key", "LineStart"} ->
            LET t == [s EXCEPT !.inString = TRUE]
            IN  IF s.readingId THEN TakeIdByte(t, b) ELSE t
      [] b \in {"{", "["} /\ s.at # "LineStart" ->
            [s EXCEPT !.readingId = FALSE, !.depth = @ + 1]
      [] b \in {"}", "]"} /\ s.at # "LineStart" ->
            IdEnded([s EXCEPT !.depth = IF @ = 0 THEN 0 ELSE @ - 1])
      [] b = "," /\ s.at # "LineStart" ->
            LET t == IdEnded(s)
            IN  IF t.depth = 1 /\ t.at # "Settled" THEN [t EXCEPT !.at = "Key", !.key = <<>>] ELSE t
      [] OTHER -> IF s.readingId THEN TakeIdByte(s, b) ELSE s

Step(s, b) ==
    IF s.at = "Settled" THEN s
    ELSE IF s.inString THEN InStringByte(s, b) ELSE StructuralByte(s, b)

\* One byte passes.
Feed ==
    /\ rest # <<>> /\ Head(rest) # "newline"
    /\ scan' = Step(scan, Head(rest))
    /\ rest' = Tail(rest) /\ lexed' = LexOn(lexed, Head(rest))
    /\ UNCHANGED <<fields, found, lines>>

\* White space passes, any amount, wherever JSON allows some: between tokens.
FeedSpace ==
    /\ rest # <<>>
    /\ lexed = "none" \/ (lexed = "plain" /\ Head(rest) \in Structure)
    /\ scan' = Step(scan, " ")
    /\ lexed' = "none"
    /\ UNCHANGED <<fields, rest, found, lines>>

\* The line ends, and the scan is ready for the next.
Finish ==
    /\ rest # <<>> /\ Head(rest) = "newline"
    /\ LET response == /\ scan.has \cap {"result", "error"} # {}
                       /\ "method" \notin scan.has /\ ~scan.tooLong
       IN  found' = [answers |-> IF response THEN scan.id ELSE <<>>,
                     succeeded |-> "result" \in scan.has /\ "error" \notin scan.has]
    /\ scan' = NewScan
    /\ rest' = <<>> /\ lexed' = "none"
    /\ UNCHANGED <<fields, lines>>

\* The worker's next line, whatever this one was.
NextLine ==
    /\ rest = <<>> /\ lines > 0
    /\ lines' = lines - 1
    /\ fields' \in {f \in Objects : Len(f) <= 2}
    /\ rest' = Bytes(fields')
    /\ found' = NoLine
    /\ UNCHANGED <<scan, lexed>>

ScanNext == Feed \/ FeedSpace \/ Finish \/ NextLine

ScanSpec == ScanInit /\ [][ScanNext]_scanVars
-----------------------------------------------------------------------------
\* What the whole line says: the id of a response, if it is one and its id is
\* not past the bound.
FieldOf(k) == {fields[i][2] : i \in {j \in DOMAIN fields : fields[j][1] = k}}
SaysResponse == FieldOf("result") \cup FieldOf("error") # {} /\ FieldOf("method") = {}

\* The scan, which holds a few bytes and stops early, finds what parsing the
\* whole line would: a line is taken for the answer to a request if and only if
\* it is a response with that id, whatever its values hold and in whatever
\* order its fields come, with white space or none between its tokens, and an
\* id past the bound is nobody's.
ScanIsExact ==
    rest = <<>> =>
        LET id == FieldOf("id")
        IN  found.answers = IF SaysResponse /\ id # {} /\ \A v \in id : Len(v) <= MaxIdBytes
                            THEN CHOOSE v \in id : TRUE ELSE <<>>
=============================================================================
