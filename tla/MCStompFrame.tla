---------------------------- MODULE MCStompFrame ----------------------------
(* Frames with up to two headers and texts close to them, for TLC. *)
EXTENDS StompFrame

MCBodies == {<<>>, <<"x">>, <<"x", null>>}

\* Components, some of which no frame can carry: no name, an empty value, a new
\* line in a value, a NULL in a body of unknown length, a length that does not fit.
MCParts ==
  {[command |-> c, headers |-> hs, body |-> b] :
     c \in {"SEND", "ERROR", "kInvalid"},
     hs \in UNION {[names -> {<<"x">>, <<"0">>, <<"1", "x">>, <<"2">>, <<"huge">>, <<>>,
                              <<"x", newLine, "id", colon, "x">>}] :
                     names \in {{}, {"kInvalid"}, {"destination"},
                               {"destination", "content-length"}}},
     b \in MCBodies}

\* Texts that are frames, with a repeated header, colons in a value, a tail.
Seeds ==
  LET line(h, v) == <<h, colon, v, newLine>>
      send == <<"SEND", newLine>>
      dest == line("destination", "x")
  IN  {send \o dest \o line("content-length", "1") \o <<newLine, "x", null, newLine>>,
       send \o dest \o line("destination", "1") \o <<newLine, "x", null>>,
       send \o <<"destination", colon, "x", colon, "x", newLine, newLine, null>>,
       <<"ERROR", newLine>> \o line("content-length", "0") \o <<newLine, null>>,
       <<"ERROR", newLine>> \o line("content-length", "huge") \o <<newLine, null>>,
       <<"CONNECTED", newLine>> \o line("version", "1") \o <<newLine, null>>}

\* One token lost, added or changed, or the end of the text lost; and again,
\* with the delimiters.
Delimiters == {newLine, null, colon}
Edits(text, tokens) ==
  {SubSeq(text, 1, i) : i \in 0 .. Len(text)}
    \cup {RemoveAt(text, i) : i \in DOMAIN text}
    \cup {ReplaceAt(text, i, t) : i \in DOMAIN text, t \in tokens}
    \cup {InsertAt(text, i, t) : i \in DOMAIN text, t \in tokens}
Once == UNION {Edits(text, Delimiters \cup {"x", "2", "id", "SEND"}) : text \in Seeds}
MCTexts == UNION {Edits(text, Delimiters) : text \in Once}
MCTargets == {<<"SEND", newLine, "destination", colon, "x", newLine, newLine, "x", null>>,
              <<"ERROR", newLine, newLine, null>>}
=============================================================================
