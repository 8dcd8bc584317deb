------------------------------- MODULE Lexer -------------------------------
(***************************************************************************)
(* The lexer (core/src/lexer.rs).  A text is a sequence of bytes and the   *)
(* cursor counts bytes, but the search for the end of a comment asks for   *)
(* the character at that number.  A character has one byte, or two, of     *)
(* which the second one is Cont; a slice that begins there panics.         *)
(***************************************************************************)
EXTENDS Integers, Sequences, FiniteSets, SequencesExt, FiniteSetsExt

CONSTANTS
  Letter,     (* Letters and the underscore.                               *)
  Digit,
  Numeral,    (* First bytes of other numeric characters, such as a half.  *)
  Blank,      (* Newline is one of them.                                   *)
  Newline,
  Quote,
  Cont,       (* The second byte of a character.                           *)
  Table,      (* The words with a meaning: their bytes and their kinds.    *)
  Keyword,    (* The kinds that are keywords.                              *)
  Texts       (* The texts: sequences of bytes.                            *)

ASSUME ClassesAssumption ==
  /\ Newline \in Blank /\ Letter \cap Digit = {} /\ Blank \cap (Letter \cup Digit) = {}
  /\ Numeral \cap (Letter \cup Digit \cup Blank \cup {Quote, Cont, "."}) = {}
  /\ \A w \in Table : /\ w.word # <<>>
                      /\ Head(w.word) \notin Blank \cup Digit \cup Numeral \cup {Quote, Cont}
                      /\ w.kind \in Keyword => Range(w.word) \subseteq Letter

VARIABLES
  text,       (* The text; never changes.                                  *)
  cursor,     (* The next byte.                                            *)
  tokens,     (* Their kinds, first bytes, and the bytes after them.       *)
  stage       (* Lexing; or how it ended.                                  *)

lexerVars == <<text, cursor, tokens, stage>>

-----------------------------------------------------------------------------
Token(kind, start, end) == [kind |-> kind, start |-> start, end |-> end]

Byte(i) == IF i \in DOMAIN text THEN text[i] ELSE "none"
Numeric == Digit \cup Numeral
Slices(i) == i <= Len(text) + 1 /\ Byte(i) # Cont

StartsWith(i, word) == \A j \in DOMAIN word : Byte(i + j - 1) = word[j]

(* char_at: the n-th character, not the one at byte n. *)
CharAt(n) == LET chars == SelectSeq(text, LAMBDA b : b # Cont)
             IN  IF n \in DOMAIN chars THEN chars[n] ELSE "none"

(* The byte behind the newline that ends the comment at i, or behind the    *)
(* byte behind the text.                                                    *)
AfterComment(i) ==
  1 + Min({j \in i .. (Len(text) + 1) : j = Len(text) + 1 \/ CharAt(j) = Newline})

(* Behind the characters from i on that begin with one of these bytes. *)
EndOf(i, bytes) == Min({j \in i .. (Len(text) + 1) : Byte(j) \notin bytes \cup {Cont}})

(* A mistake for the properties to find: every dot belongs to the number.   *)
WrongEndOfNumber(i) ==
  LET dot == EndOf(i, Numeric)
  IN  IF Byte(dot) = "." THEN EndOf(dot + 1, Numeric) ELSE dot

(* A dot belongs to a number if a digit follows it. *)
EndOfNumber(i) ==
  LET dot == EndOf(i, Numeric)
  IN  IF Byte(dot) = "." /\ Byte(dot + 1) \in Numeric THEN EndOf(dot + 1, Numeric) ELSE dot

(* The words of the table that begin at i. *)
WordsAt(i) == {w \in Table : StartsWith(i, w.word)}
Longest(words) == CHOOSE w \in words : \A v \in words : Len(v.word) <= Len(w.word)

(* The longest of them is taken: a keyword, only if another character than  *)
(* a letter follows.                                                        *)
Taken(i) ==
  IF WordsAt(i) = {} THEN {}
  ELSE LET w == Longest(WordsAt(i))
           next == Byte(i + Len(w.word))
       IN  IF w.kind \in Keyword /\ (next = "none" \/ next \in Letter) THEN {} ELSE {w}

-----------------------------------------------------------------------------
(***************************************************************************)
(* One round of the loop of lex.  What begins at the cursor is looked at   *)
(* before a comment is skipped, and not again after it.                    *)
(***************************************************************************)

Lexing == stage = "lexing" /\ cursor <= Len(text) /\ Slices(cursor)
Comment == StartsWith(cursor, <<"/", "/">>)
Here == IF Comment THEN AfterComment(cursor) ELSE cursor

Goes(to, found) ==
  /\ cursor' = to /\ tokens' = tokens \o found
  /\ UNCHANGED <<text, stage>>

Stops(how) == stage' = how /\ UNCHANGED <<text, cursor, tokens>>

LexBlank == Lexing /\ Byte(cursor) \in Blank /\ Goes(cursor + 1, <<>>)

(* At a word, a name or a number, a quote or an unknown character; after a  *)
(* comment, only a word is looked for.                                      *)
At(what) ==
  /\ Lexing /\ Byte(cursor) \notin Blank /\ Slices(Here)
  /\ what = (IF Taken(Here) # {} THEN "word"
             ELSE IF Comment THEN "other"
             ELSE IF Byte(cursor) \in Numeric THEN "number"
             ELSE IF Byte(cursor) \in Letter THEN "name"
             ELSE IF Byte(cursor) = Quote THEN "string"
             ELSE "other")

LexWord ==
  /\ At("word")
  /\ \E w \in Taken(Here) : LET end == Here + Len(w.word) IN Goes(end, <<Token(w.kind, Here, end)>>)

(* All of these are one kind of token; a numeral is one whose value is read *)
(* as no number (parser/pratt.rs, 49).                                      *)
LexNumber ==
  /\ At("number")
  /\ LET end == EndOfNumber(cursor)
         kind == IF \E j \in cursor .. (end - 1) : text[j] \in Numeral THEN "numeral" ELSE "number"
     IN  Goes(end, <<Token(kind, cursor, end)>>)

LexName ==
  /\ At("name")
  /\ LET end == EndOf(cursor, Letter \cup Numeric) IN Goes(end, <<Token("name", cursor, end)>>)

LexString ==
  /\ At("string")
  /\ LET quotes == {j \in (cursor + 1) .. Len(text) : text[j] = Quote}
     IN  IF quotes = {} THEN Stops("error")
         ELSE Goes(Min(quotes) + 1, <<Token("string", cursor, Min(quotes) + 1)>>)

(* Past the whole of an unknown character; after a comment, past a byte.    *)
LexOther ==
  /\ At("other")
  /\ Goes(Here + (IF ~Comment /\ Byte(cursor + 1) = Cont THEN 2 ELSE 1), <<>>)

LexPanic ==
  /\ stage = "lexing" /\ cursor <= Len(text)
  /\ ~Slices(cursor) \/ (Byte(cursor) \notin Blank /\ ~Slices(Here))
  /\ Stops("panic")

LexEnd == stage = "lexing" /\ cursor > Len(text) /\ Stops("lexed")

-----------------------------------------------------------------------------
LexInit ==
  /\ text \in Texts
  /\ cursor = 1
  /\ tokens = <<>>
  /\ stage = "lexing"

Lex == \/ LexBlank
       \/ LexWord
       \/ LexNumber
       \/ LexName
       \/ LexString
       \/ LexOther
       \/ LexPanic
       \/ LexEnd

-----------------------------------------------------------------------------
(***************************************************************************)
(* What the text says.                                                     *)
(***************************************************************************)

Word == Letter \cup Numeric
SpelledAt(i, k) == {w \in Table : w.kind = k /\ StartsWith(i, w.word)}

(* The token is one, and as long as it can be. *)
Whole(t) ==
  LET bytes == {text[j] : j \in t.start .. (t.end - 1)}
      begins == t.start = 1 \/ Byte(t.start - 1) \notin Letter
  IN  CASE t.kind = "string" ->
             /\ t.end - t.start >= 2
             /\ {j \in t.start .. (t.end - 1) : text[j] = Quote} = {t.start, t.end - 1}
        [] t.kind \in {"number", "numeral"} ->
             LET dots == {j \in t.start .. (t.end - 1) : text[j] = "."}
             IN  \/ SpelledAt(t.start, t.kind) # {}
                 \/ /\ begins /\ bytes \subseteq Numeric \cup {Cont, "."} /\ Cardinality(dots) <= 1
                    /\ t.kind = "number" <=> bytes \cap Numeral = {}
                    /\ dots \cap {t.start, t.end - 1} = {}
                    /\ Byte(t.end) \notin Numeric
                    /\ dots = {} => ~(Byte(t.end) = "." /\ Byte(t.end + 1) \in Numeric)
        [] t.kind = "name" ->
             /\ begins /\ text[t.start] \in Letter /\ bytes \subseteq Word \cup {Cont} /\ Byte(t.end) \notin Word
             /\ \A w \in Table : ~(StartsWith(t.start, w.word) /\ t.end = t.start + Len(w.word))
        [] OTHER ->
             /\ \E w \in SpelledAt(t.start, t.kind) : t.end = t.start + Len(w.word)
             /\ text[t.start] \in Letter => begins /\ Byte(t.end) \notin Word
             /\ \A w \in WordsAt(t.start) : Len(w.word) <= t.end - t.start

(* Nothing is there but blanks, unknown characters and comments. *)
Idle(i, j) ==
  LET slashes(k) == StartsWith(k, <<"/", "/">>)
      ends(k) == {n \in k .. j : text[n] = Newline}
  IN  \A k \in i .. j :
        \/ text[k] \notin Word \cup {Quote} /\ WordsAt(k) = {}
        \/ \E c \in i .. k : slashes(c) /\ ends(c) # {} /\ k < Min(ends(c))

LexedRight ==
  LET starts == [n \in 1 .. (Len(tokens) + 1) |-> IF n = 1 THEN 1 ELSE tokens[n - 1].end]
  IN  /\ \A n \in DOMAIN tokens : Idle(starts[n], tokens[n].start - 1) /\ Whole(tokens[n])
      /\ stage = "lexed" => Idle(starts[Len(starts)], Len(text))
      /\ stage = "error" => /\ Idle(starts[Len(starts)], cursor - 1) /\ text[cursor] = Quote
                            /\ \A j \in (cursor + 1) .. Len(text) : text[j] # Quote

(* What the lexer is right about: words that only names begin with; a       *)
(* keyword has something behind it; a comment ends in a newline, has no     *)
(* character of two bytes before that, and neither a name, a number, a      *)
(* string nor another comment right behind it.                              *)
Plain ==
  /\ \A i \in DOMAIN text : \A w \in WordsAt(i) :
       Head(w.word) \in Letter /\ (i = 1 \/ text[i - 1] \notin Letter) =>
         LET next == Byte(i + Len(w.word))
         IN  IF w.kind \in Keyword THEN next \notin Numeric \cup {"none"} ELSE next \notin Word
  /\ \A i \in DOMAIN text : StartsWith(i, <<"/", "/">>) =>
       LET ends == {j \in i .. Len(text) : text[j] = Newline}
           next == Min(ends) + 1
       IN  /\ ends # {}
           /\ \A j \in 1 .. Min(ends) : text[j] # Cont
           /\ Byte(next) \notin Numeric \cup {Quote} /\ Byte(next + 1) # Cont
           /\ Byte(next) \in Letter => \E w \in WordsAt(next) : Byte(next + Len(w.word)) \notin Word
           /\ ~StartsWith(next, <<"/", "/">>)

=============================================================================
