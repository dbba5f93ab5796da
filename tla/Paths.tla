------------------------------- MODULE Paths -------------------------------
(***************************************************************************)
(* Paths: path.c and strtok of string.c, and the shell's combine_path. A   *)
(* text is a sequence of symbols: "/", ".", and the pieces of names. What  *)
(* strtok returns one after the other is the sequence of its words; NULL   *)
(* is the empty text.                                                      *)
(***************************************************************************)
EXTENDS Selections

Slash == <<"/">>
Dot == <<".">>
DotDot == <<".", ".">>

(* strtok until it returns NULL: what stands between the delimiters, found *)
(* character by character.                                                 *)
Longer(found, c) == [found EXCEPT ![Len(found)] = Append(@, c)]

NextWords(found, text, n) ==
    CASE text[n] = "/" -> found
      [] text[n] # "/" /\ (n = 1 \/ text[n - 1] = "/") -> Append(found, <<text[n]>>)
      [] OTHER -> Longer(found, text[n])

WordsUpTo(text) ==
    LET words[n \in 0..Len(text)] ==
            IF n = 0 THEN <<>> ELSE NextWords(words[n - 1], text, n)
    IN  words

Words(text) == WordsUpTo(text)[Len(text)]

(* The text of a path whose components are names. *)
Joined(names) ==
    LET joined[n \in 0..Len(names)] ==
            IF n = 0 THEN <<>> ELSE joined[n - 1] \o Slash \o names[n]
    IN  joined

TextOf(names) == IF names = <<>> THEN Slash ELSE Joined(names)[Len(names)]

(* Fault: ".." leaves an entry on the stack. *)
ResolveWordUnpopped(s, word) ==
    CASE word = Dot -> s
      [] word = DotDot /\ s.stack = <<>> -> [s EXCEPT !.path = <<>>]
      [] word = DotDot /\ s.stack # <<>> -> [s EXCEPT !.path = SubSeq(@, 1, Last(s.stack))]
      [] OTHER -> [path |-> s.path \o Slash \o word, stack |-> Append(s.stack, Len(s.path))]

(* One turn of the loop of resolve_path; stack has where the components    *)
(* that are still in path begin.                                           *)
ResolveWord(s, word) ==
    CASE word = Dot -> s
      [] word = DotDot /\ s.stack = <<>> -> [s EXCEPT !.path = <<>>]
      [] word = DotDot /\ s.stack # <<>> -> [path |-> SubSeq(s.path, 1, Last(s.stack)), stack |-> Front(s.stack)]
      [] OTHER -> [path |-> s.path \o Slash \o word, stack |-> Append(s.stack, Len(s.path))]

Resolved(words) ==
    LET resolved[n \in 0..Len(words)] ==
            IF n = 0 THEN [path |-> <<>>, stack |-> <<>>]
            ELSE ResolveWord(resolved[n - 1], words[n])
    IN  resolved

ResolvePath(text) ==
    IF text = <<>> \/ Head(text) # "/" THEN text
    ELSE LET path == Resolved(Words(text))[Len(Words(text))].path
         IN  IF path = <<>> THEN Slash ELSE path

(* split_path: the text before and behind the last "/". *)
SplitPath(text) ==
    LET idx == CHOOSE i \in DOMAIN text : text[i] = "/" /\ \A j \in i+1..Len(text) : text[j] # "/"
    IN  [dirname |-> IF idx = 1 THEN Slash ELSE SubSeq(text, 1, idx - 1),
         basename |-> SubSeq(text, idx + 1, Len(text))]

(* combine_path. With no next at all the test of its first character reads *)
(* address 0, where a program's code is and not a "/".                     *)
CombinePath(base, next) ==
    CASE next = <<>> -> base
      [] next # <<>> /\ Head(next) = "/" -> next
      [] OTHER -> base \o Slash \o next

-----------------------------------------------------------------------------

(* What a path means: a name counts unless the ".." behind it that are not *)
(* used up by names between them reach it.                                 *)
IsName(word) == word \notin {Dot, DotDot}

Names(words, i, j) == Cardinality({k \in i..j : IsName(words[k])})
DotDots(words, i, j) == Cardinality({k \in i..j : words[k] = DotDot})

Survivors(words) ==
    {i \in DOMAIN words :
        /\ IsName(words[i])
        /\ \A j \in i+1..Len(words) : DotDots(words, i + 1, j) <= Names(words, i + 1, j)}

Meaning(text) == Selected(Words(text), Survivors(Words(text)))
=============================================================================
