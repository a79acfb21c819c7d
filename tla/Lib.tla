-------------------------------- MODULE Lib --------------------------------
(***************************************************************************)
(* The kernel's library (lib/lib.c): one call of a memory routine          *)
(* (LibMemory) or of printf, one character of the format at a time.        *)
(***************************************************************************)
EXTENDS LibMemory, Sequences, SequencesExt, TLC

CONSTANTS
  BITS,     \* 32: the bits of a number
  Values,   \* the numbers printed
  Formats   \* the formats given to printf, sequences of conversions

ASSUME LibAssumption == BITS % 4 = 0 /\ Values \subseteq 0 .. 2 ^ BITS - 1

VARIABLES
  buf,   \* printf: the position in the format, from 0
  esp,   \* printf: the number of arguments used
  alternate,
  out    \* the characters given to putc

printfVars == <<buf, esp, alternate, out>>
libVars == <<memoryVars, printfVars>>
-----------------------------------------------------------------------------
lookup == <<"0", "1", "2", "3", "4", "5", "6", "7", "8", "9",
            "A", "B", "C", "D", "E", "F">>

(* The digits of a number, found from the lowest on and then reversed.     *)
itoa(value, radix) ==
  LET digits[v \in 0 .. value] ==
        IF v = 0 THEN <<>> ELSE <<lookup[(v % radix) + 1]>> \o digits[v \div radix]
  IN  IF value = 0 THEN <<"0">> ELSE Reverse(digits[value])

HEX_DIGITS == BITS \div 4

(* %#x: zeros from the place that the length gives up to the digits.       *)
aligned_hex_bug(value) ==
  LET s == itoa(value, 16) IN [k \in 1 .. HEX_DIGITS |-> "0"] \o s

AlignedHex(value) ==
  LET s == itoa(value, 16) IN [k \in 1 .. HEX_DIGITS - Len(s) |-> "0"] \o s

Negative(value) == value >= 2 ^ (BITS - 1)

Converted(ch, value) ==
  CASE ch = "x" -> IF alternate THEN AlignedHex(value) ELSE itoa(value, 16)
    [] ch = "u" -> itoa(value, 10)
    [] ch = "d" -> IF Negative(value) THEN <<"-">> \o itoa(2 ^ BITS - value, 10)
                                      ELSE itoa(value, 10)
    [] ch = "c" -> <<"char " \o ToString(value)>>
    [] ch = "s" -> <<"string", "at " \o ToString(value)>>

(* The spelling of a conversion, or of a character that stands for itself. *)
Spelling(conversion) ==
  CASE conversion = "%#x" -> <<"%", "#", "x">>
    [] conversion = "%x"  -> <<"%", "x">>
    [] conversion = "%u"  -> <<"%", "u">>
    [] conversion = "%d"  -> <<"%", "d">>
    [] conversion = "%c"  -> <<"%", "c">>
    [] conversion = "%s"  -> <<"%", "s">>
    [] conversion = "%%"  -> <<"%", "%">>
    [] conversion = "%i"  -> <<"%", "i">>
    [] OTHER -> <<conversion>>

Format == FlattenSeq([k \in 1 .. Len(call.format) |-> Spelling(call.format[k])])
Char == IF buf < Len(Format) THEN Format[buf + 1] ELSE "NUL"

(* The loop over the format.                                               *)
printf ==
  /\ pc = "printf"
  /\ CASE Char = "NUL" -> pc' = "done" /\ UNCHANGED <<buf, out, alternate>>
       [] Char = "%" -> /\ alternate' = FALSE /\ pc' = "format_char_switch"
                        /\ buf' = buf + 1 /\ UNCHANGED out
       [] OTHER -> /\ out' = Append(out, Char) /\ buf' = buf + 1
                   /\ UNCHANGED <<pc, alternate>>
  /\ UNCHANGED <<esp, call, registers, mem>>

format_char_switch ==
  /\ pc = "format_char_switch"
  /\ buf' = buf + 1
  /\ CASE Char = "#" -> alternate' = TRUE /\ UNCHANGED <<pc, esp, out>>
       [] Char = "%" -> /\ out' = Append(out, "%") /\ pc' = "printf"
                        /\ UNCHANGED <<esp, alternate>>
       [] Char \in {"x", "u", "d", "c", "s"} ->
            /\ out' = out \o Converted(Char, call.args[esp + 1])
            /\ esp' = esp + 1 /\ pc' = "printf"
            /\ UNCHANGED alternate
       [] OTHER -> pc' = "printf" /\ UNCHANGED <<esp, out, alternate>>
  /\ UNCHANGED <<call, registers, mem>>
-----------------------------------------------------------------------------
PrintfCall(format, args) ==
  /\ call = [f |-> "printf", format |-> format, args |-> args]
  /\ pc = "printf"
  /\ edi = 0 /\ esi = 0 /\ ecx = 0 /\ edx = 0 /\ df \in {0, 1}
  /\ mem = [a \in Addr |-> Byte(a)]

LibInit ==
  /\ MemoryInit \/ \E format \in Formats, args \in Values \X Values : PrintfCall(format, args)
  /\ buf = 0 /\ esp = 0 /\ alternate = FALSE /\ out = <<>>

LibNext ==
  \/ MemoryNext /\ UNCHANGED printfVars
  \/ printf \/ format_char_switch
-----------------------------------------------------------------------------
(* The number that a sequence of digits stands for, and -1 for another one.*)
Number(s, radix) ==
  IF s # <<>> /\ \A k \in 1 .. Len(s) : Contains(SubSeq(lookup, 1, radix), s[k])
    THEN FoldLeft(LAMBDA v, d : v * radix + (CHOOSE n \in 0 .. 15 : lookup[n + 1] = d),
                  0, s)
    ELSE -1

TakesArgument(conversion) == conversion \in {"%#x", "%x", "%u", "%d", "%c", "%s"}

(* text is what the comment above printf says of the conversion; of one    *)
(* that it does not list (%i) nothing is printed.                          *)
Means(conversion, value, text) ==
  CASE conversion \in {"%x", "%u"} ->
         LET radix == IF conversion = "%x" THEN 16 ELSE 10 IN
         /\ Number(text, radix) = value
         /\ Len(text) > 1 => text[1] # "0"
    [] conversion = "%#x" -> Len(text) = HEX_DIGITS /\ Number(text, 16) = value
    [] conversion = "%d" ->
         /\ text # <<>> /\ Negative(value) = (text[1] = "-")
         /\ IF Negative(value) THEN Number(Tail(text), 10) = 2 ^ BITS - value
                               ELSE Number(text, 10) = value
    [] conversion = "%c" -> text = <<"char " \o ToString(value)>>
    [] conversion = "%s" -> text = <<"string", "at " \o ToString(value)>>
    [] conversion = "%%" -> text = <<"%">>
    [] conversion = "%i" -> text = <<>>
    [] OTHER -> text = <<conversion>>

(* printf writes the conversions of its format one after the other, each   *)
(* of its own argument: of %#x always "8 hexadecimal digits, zero-padded   *)
(* on the left", of %d also the most negative number; one it does not know *)
(* is left out and takes no argument.                                      *)
PrintsItsArguments ==
  pc = "done" /\ call.f = "printf" =>
    LET format == call.format
        Arg(k) == call.args[Len(SelectSeq(SubSeq(format, 1, k), TakesArgument))]
        Text(k, cut) == SubSeq(out, cut[k] + 1, cut[k + 1])
    IN  \E cut \in [1 .. Len(format) + 1 -> 0 .. Len(out)] :
          /\ cut[1] = 0 /\ cut[Len(format) + 1] = Len(out)
          /\ \A k \in 1 .. Len(format) :
               /\ cut[k] <= cut[k + 1]
               /\ Means(format[k], Arg(k), Text(k, cut))
=============================================================================
