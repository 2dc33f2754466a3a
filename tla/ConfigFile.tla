----------------------------- MODULE ConfigFile -----------------------------
(***************************************************************************)
(* How the monitor reads ./config (reload_config of main/src/main.cpp):     *)
(* pair after pair of a key and a value (get_config_pair), each put into    *)
(* the typed store (set by key and transform of config.hpp).  The file is a *)
(* sequence of characters, and an offset is a number of characters passed.  *)
(***************************************************************************)
EXTENDS Naturals, Sequences, SequencesExt

CONSTANTS
  Files,     \* the contents that ./config may have
  Chars,     \* the characters in them
  Digit,     \* the value of each digit
  Names,     \* the keys of config_all
  Word,      \* the characters of each name
  Type,      \* "string", "number" or "bool"
  MaxOf,     \* numeric_limits<T>::max() of a number
  SizeMax,   \* that of size_t
  Yes,       \* the values that are true
  Junk,      \* what an uninitialised size_t may hold
  Unset, Invalid

ASSUME FilesAssumption == Files \subseteq Seq(Chars)

ASSUME DigitAssumption == Digit \in [DOMAIN Digit -> 0 .. 9]

ASSUME NamesAssumption ==
  /\ Word \in [Names -> Seq(Chars)] /\ \A k \in Names : Word[k][1] # "#"
  /\ Type \in [Names -> {"string", "number", "bool"}]
  /\ \A k, l \in Names : Word[k] = Word[l] => k = l
  /\ \A k \in Names : Type[k] = "number" => MaxOf[k] \in 0 .. SizeMax
  /\ SizeMax \in Nat /\ Junk \subseteq 0 .. SizeMax

VARIABLES
  file,    \* what handle.read put into the buffer
  offset,
  config,  \* the store
  pc

vars == <<file, offset, config, pc>>

Blank == {" ", "\t", "\r", "\n"}
Eol == {"\r", "\n"}

Init ==
  /\ file \in Files
  /\ offset = 0
  /\ config = [k \in Names |-> Unset]
  /\ pc = "opening"

(* The file is there and can be read, or the monitor ends.                  *)
Open ==
  /\ pc = "opening"
  /\ pc' \in {"reading", "failed"}
  /\ UNCHANGED <<file, offset, config>>

-----------------------------------------------------------------------------
(* get_config_pair *)

(* The first offset from o on whose character is in S, or the end.          *)
Until(o, S) ==
  CHOOSE i \in o .. Len(file) :
    /\ i = Len(file) \/ file[i + 1] \in S
    /\ \A j \in o .. i - 1 : file[j + 1] \notin S

Text(from, to) == SubSeq(file, from + 1, to)

KeyStart == Until(offset, Chars \ Blank)
KeyEnd == Until(KeyStart, Blank)
ValueStart == Until(KeyEnd, Chars \ Blank)
ValueToBlank == Until(ValueStart, Blank)  \* mutant: a value is one word
ValueEnd == Until(ValueStart, Eol)

Key == Text(KeyStart, KeyEnd)
Value == Text(ValueStart, ValueEnd)

PairResult ==
  CASE KeyStart = Len(file)   -> "PARSE_END"
    [] KeyStart # Len(file) /\ ValueStart = Len(file) -> "PARSE_INVALID"
    [] OTHER                  -> "PARSE_OK"

-----------------------------------------------------------------------------
(* transform *)

DigitsOf(v) ==
  LET n == CHOOSE n \in 0 .. Len(v) :
             /\ \A i \in 1 .. n : v[i] \in DOMAIN Digit
             /\ n = Len(v) \/ v[n + 1] \notin DOMAIN Digit
  IN SubSeq(v, 1, n)

NumberOf(digits) ==
  LET value[n \in 0 .. Len(digits)] ==
        IF n = 0 THEN 0 ELSE 10 * value[n - 1] + Digit[digits[n]]
  IN value[Len(digits)]

Unbounded(k, n) == n  \* mutant: the limit of the type is not looked at

Bounded(k, n) == IF n > MaxOf[k] THEN Invalid ELSE n

(* from_chars takes the digits in front and leaves the value alone if they  *)
(* are too many; only that there are none is looked at.                     *)
ReadNumber(k, digits) ==
  IF digits = <<>> THEN {Invalid}
  ELSE IF NumberOf(digits) > SizeMax THEN {Bounded(k, n) : n \in Junk}
  ELSE {Bounded(k, NumberOf(digits))}

Transform(k, v) ==
  CASE Type[k] = "string" -> {v}
    [] Type[k] = "bool"   -> {(v \in Yes)}
    [] Type[k] = "number" -> ReadNumber(k, DigitsOf(v))

-----------------------------------------------------------------------------
(* reload_config *)

Finish ==
  /\ pc = "reading"
  /\ PairResult # "PARSE_OK"
  /\ pc' = "done"
  /\ UNCHANGED <<file, offset, config>>

StayBehind == offset' = offset  \* mutant: the offset moves on for settings only

Advance == offset' = ValueEnd

Known(key) == \E k \in Names : Word[k] = key

Pass ==
  /\ pc = "reading"
  /\ PairResult = "PARSE_OK"
  /\ Key[1] = "#" \/ ~Known(Key)
  /\ Advance
  /\ UNCHANGED <<file, config, pc>>

SetKey(k) ==
  /\ pc = "reading"
  /\ PairResult = "PARSE_OK"
  /\ Key[1] # "#" /\ Word[k] = Key
  /\ offset' = ValueEnd
  /\ \E v \in Transform(k, Value) :
       \/ /\ v = Invalid
          /\ pc' = "done"
          /\ UNCHANGED config
       \/ /\ v # Invalid
          /\ config' = [config EXCEPT ![k] = v]
          /\ UNCHANGED pc
  /\ UNCHANGED file

Reload == Open \/ Finish \/ Pass \/ \E k \in Names : SetKey(k)

-----------------------------------------------------------------------------
TypeOK ==
  /\ file \in Seq(Chars)
  /\ offset \in 0 .. Len(file)
  /\ pc \in {"opening", "reading", "done", "failed", "serving"}
  /\ \A k \in Names : config[k] # Unset =>
       CASE Type[k] = "string" -> config[k] \in Seq(Chars \ Eol) \ {<<>>}
         [] Type[k] = "bool"   -> config[k] \in BOOLEAN
         [] Type[k] = "number" -> config[k] \in 0 .. MaxOf[k]

(* The file as its author means it: line by line.  A line is named by the   *)
(* offset where it starts.                                                  *)
Lines == {s \in 0 .. Len(file) : s = 0 \/ file[s] \in Eol}

LineText(s) == Text(s, Until(s, Eol))

(* Where words start and end in a text.                                     *)
Starts(t) == {i \in DOMAIN t : t[i] \notin Blank /\ (i = 1 \/ t[i - 1] \in Blank)}
Ends(t) == {i \in DOMAIN t : t[i] \notin Blank /\ (i = Len(t) \/ t[i + 1] \in Blank)}

(* A line is a word and, from its second word on, the rest.                 *)
Second(t) == Min(Starts(t) \ {Min(Starts(t))})

WordOf(s) == LET t == LineText(s) IN SubSeq(t, Min(Starts(t)), Min(Ends(t)))

RestOf(s) == LET t == LineText(s) IN SubSeq(t, Second(t), Len(t))

Setting(s, k) == Starts(LineText(s)) # {} /\ WordOf(s) = Word[k]

Meant(s, k) ==
  CASE Type[k] = "string" -> RestOf(s)
    [] Type[k] = "bool"   -> RestOf(s) \in Yes
    [] Type[k] = "number" ->
         IF RestOf(s)[1] \notin DOMAIN Digit THEN Invalid
         ELSE Bounded(k, NumberOf(DigitsOf(RestOf(s))))

(* Every line that is not blank has a key and a value, and no number overflows.*)
Plain ==
  \A s \in Lines : Starts(LineText(s)) # {} =>
    /\ \E i, j \in Starts(LineText(s)) : i < j
    /\ NumberOf(DigitsOf(RestOf(s))) <= SizeMax

(* The lines before the first that has an invalid value.                    *)
Read ==
  LET bad == {s \in Lines : \E k \in Names : Setting(s, k) /\ Meant(s, k) = Invalid}
  IN {s \in Lines : \A b \in bad : s < b}

(* In a file of plain lines, each key has the value of the last line that   *)
(* sets it; comments, keys that are not known, blank lines and any kind of  *)
(* line ending make no difference; what follows an invalid value is not     *)
(* read, and what precedes it counts.                                       *)
StoreIsFile ==
  pc = "done" /\ Plain =>
    \A k \in Names :
      LET lines == {s \in Read : Setting(s, k)}
      IN IF lines = {} THEN config[k] = Unset
         ELSE \E s \in lines : /\ \A r \in lines : r <= s
                               /\ config[k] = Meant(s, k)

=============================================================================
