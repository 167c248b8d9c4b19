----------------------------- MODULE NamedEnum -----------------------------
(***************************************************************************)
(* The names of enumerators (lib/utils/named_enum.h, named_enum_class.h):  *)
(* the text of an enum's declaration is parsed, character by character,    *)
(* for pairs of a name and a value, which become a lookup table.  The      *)
(* compiler gives the enumerators their values from the same text.         *)
(*                                                                         *)
(* A declaration is a sequence of items, each a name and the text of its   *)
(* value, <<>> if it has none.  A character is a string of length one; the *)
(* text has the items as the preprocessor leaves them, with commas and     *)
(* blanks.  enumCountItems and string_area_size run the same parser, so    *)
(* the arrays they size hold what init_content puts in.                    *)
(***************************************************************************)
EXTENDS Integers, Sequences, FiniteSets, SequencesExt

CONSTANTS
    Codes,             \* the characters in the order of their codes
    Letters,           \* those of identifiers
    Declarations,      \* those the run parses
    ConstantNames,     \* named constants the compiler knows
    ConstantValue      \* and their values

\* An enum class is declared over std::uint8_t, which has as many values.
Modulus == 256

\* "limits the size of an identifier up to 1024 characters" (named_enum.h:24).
Longest == 1024

VARIABLES
    decl,              \* the declaration
    text,              \* what the parser has still to read, from iter to the end
    st,                \* State
    collect,           \* the name collected
    idx, newidx, newidx_set,
    found,             \* the calls of fn
    table              \* {} until init_content is done, then the table

vars == <<decl, text, st, collect, idx, newidx, newidx_set, found, table>>

\* The other characters of a declaration.
Others     == {" ", ",", "=", "'"}
Characters == Letters \cup Others

ASSUME LettersAlone == Letters \cap Others = {}
ASSUME CharactersCoded == Codes \in Seq(ToSet(Codes)) /\ Characters \subseteq ToSet(Codes)

Small  == <<"0", "1", "2", "3", "4", "5", "6", "7", "8", "9", "a", "b", "c", "d", "e", "f">>
Big    == <<"0", "1", "2", "3", "4", "5", "6", "7", "8", "9", "A", "B", "C", "D", "E", "F">>

\* The digits of a base with their values.
DigitsOf(base) ==
    LET CharsOf(i) == {Small[i + 1], Big[i + 1]}
    IN  [c \in UNION {CharsOf(i) : i \in 0 .. base - 1} |-> CHOOSE i \in 0 .. base - 1 : c \in CharsOf(i)]
Octal   == DigitsOf(8)
Decimal == DigitsOf(10)
Hex     == DigitsOf(16)

\* The text of a declaration, #__VA_ARGS__.
Item(i) == i.name \o (IF i.value = <<>> THEN <<>> ELSE <<" ", "=", " ">> \o i.value)
Text(d) == FlattenSeq([i \in DOMAIN d |-> IF i = 1 THEN Item(d[i]) ELSE <<",", " ">> \o Item(d[i])])

\* Names are compared as texts.
Code(c) == CHOOSE n \in DOMAIN Codes : Codes[n] = c
NameLess(a, b) ==
    \E n \in DOMAIN b : /\ \A i \in 1 .. n - 1 : i <= Len(a) /\ a[i] = b[i]
                        /\ n > Len(a) \/ Code(a[n]) < Code(b[n])

INSTANCE LookupTable WITH ValueLess <- NameLess

-----------------------------------------------------------------------------
(* enumSyntaxParser, and the table at its end. *)

Init ==
    /\ decl \in Declarations
    /\ text = Text(decl)
    /\ st = "ident"
    /\ collect = <<>>
    /\ idx = 0 /\ newidx = 0 /\ newidx_set = FALSE
    /\ found = <<>>
    /\ table = {}

At(chars) == text # <<>> /\ Head(text) \in chars
Reads == text' = Tail(text) /\ table = {}

\* The calls of fn once an item is complete.
Enumerator == IF newidx_set THEN newidx ELSE idx
FoundNow   == IF collect = <<>> THEN found ELSE Append(found, [key |-> Enumerator, value |-> collect])

\* A faulty variant: the value of an item stays for those behind it.
CommaKeepsValue ==
    /\ At({","}) /\ Reads
    /\ found' = FoundNow
    /\ idx' = IF collect = <<>> THEN idx ELSE (Enumerator + 1) % Modulus
    /\ collect' = <<>> /\ st' = "ident"
    /\ UNCHANGED <<decl, newidx, newidx_set, table>>

\* A comma ends an item, in any state.
Comma ==
    /\ At({","}) /\ Reads
    /\ found' = FoundNow
    /\ idx' = IF collect = <<>> THEN idx ELSE (Enumerator + 1) % Modulus
    /\ collect' = <<>> /\ newidx_set' = FALSE /\ st' = "ident"
    /\ UNCHANGED <<decl, newidx, table>>

\* A character of a name.
Ident ==
    /\ st = "ident" /\ text # <<>> /\ Head(text) \in Letters /\ Reads
    /\ collect' = Append(collect, Head(text))
    /\ UNCHANGED <<decl, st, idx, newidx, newidx_set, found, table>>

Assign ==
    /\ st = "ident" /\ At({"="}) /\ Reads
    /\ st' = "number"
    /\ UNCHANGED <<decl, collect, idx, newidx, newidx_set, found, table>>

\* The first digit of a value tells its notation; what is before it is ignored.
FirstDigit ==
    /\ st = "number" /\ At(DOMAIN Decimal) /\ Reads
    /\ st' = IF Head(text) = "0" THEN "octal" ELSE "decimal"
    /\ newidx' = Decimal[Head(text)]
    /\ newidx_set' = TRUE
    /\ UNCHANGED <<decl, collect, idx, found, table>>

\* Another digit in the notation's base.
NextDigit(state, digits, base) ==
    /\ st = state /\ At(DOMAIN digits) /\ Reads
    /\ newidx' = (newidx * base + digits[Head(text)]) % Modulus
    /\ UNCHANGED <<decl, st, collect, idx, newidx_set, found, table>>

HexMark ==
    /\ st = "octal" /\ At({"x"}) /\ Reads
    /\ st' = "hex"
    /\ UNCHANGED <<decl, collect, idx, newidx, newidx_set, found, table>>

\* The characters with a meaning in each state; the others are ignored.
Meant == [ident   |-> {"="},
          number  |-> DOMAIN Decimal,
          decimal |-> DOMAIN Decimal,
          octal   |-> DOMAIN Octal \cup {"x"},
          hex     |-> DOMAIN Hex]
Ignore ==
    /\ text # <<>> /\ ~At(Meant[st] \cup {","}) /\ (st = "ident" => ~At(Letters)) /\ Reads
    /\ UNCHANGED <<decl, st, collect, idx, newidx, newidx_set, found, table>>

\* The end of the text: the last item, and init_content sorts the items by key, equal ones in any order.
End ==
    /\ text = <<>> /\ table = {}
    /\ found' = FoundNow
    /\ LET by_key == {p \in (DOMAIN found') \X (DOMAIN found') : found'[p[1]].key < found'[p[2]].key}
       IN  \E order \in Sortings(DOMAIN found', by_key) :
              \E t \in Indexed(InOrder(found', order)) : table' = {t}
    /\ UNCHANGED <<decl, text, st, collect, idx, newidx, newidx_set>>

Next ==
    \/ Comma \/ Ident \/ Assign \/ FirstDigit \/ HexMark \/ Ignore \/ End
    \/ NextDigit("decimal", Decimal, 10) \/ NextDigit("octal", Octal, 8) \/ NextDigit("hex", Hex, 16)

Spec == Init /\ [][Next]_vars

\* to_string and from_string; the defaults are an empty text and a zero.
to_string(value)  == GetValue(CHOOSE t \in table : TRUE, value, <<>>)
from_string(name) == GetKey(CHOOSE t \in table : TRUE, name, 0)

-----------------------------------------------------------------------------
(* What the compiler makes of the declaration. *)

\* A value is a decimal, octal or hexadecimal number or a constant.
Notation(value) ==
    IF value[1] # "0" THEN [digits |-> Decimal, base |-> 10, from |-> 1]
    ELSE IF Len(value) > 1 /\ value[2] \in {"x", "X"} THEN [digits |-> Hex, base |-> 16, from |-> 3]
    ELSE [digits |-> Octal, base |-> 8, from |-> 1]

\* The numbers that the beginnings of a literal are.
Number(value) ==
    LET n == Notation(value)
        number[i \in 0 .. Len(value)] ==
            IF i < n.from THEN 0
            ELSE IF value[i] \in Others THEN number[i - 1]
            ELSE number[i - 1] * n.base + n.digits[value[i]]
    IN  number

Value(value) == IF value \in ConstantNames THEN ConstantValue[value] ELSE Number(value)[Len(value)]

\* Without a value, an enumerator is one more than the one before it.
Keys(d) ==
    LET key[i \in 0 .. Len(d)] == IF i = 0 THEN -1 ELSE IF d[i].value = <<>> THEN key[i - 1] + 1 ELSE Value(d[i].value)
    IN  key

Enumerators(d) == [i \in DOMAIN d |-> [key |-> Keys(d)[i], value |-> d[i].name]]

\* The compiler accepts it: the names differ and the values fit the type.
Compiles(d) ==
    /\ \A i, j \in DOMAIN d : i # j => d[i].name # d[j].name
    /\ \A e \in ToSet(Enumerators(d)) : e.key < Modulus

ASSUME DeclarationsCompile == \A d \in Declarations : Compiles(d)

\* A number in a notation that the parser is made for (named_enum.h:20-22), with an apostrophe between digits or none.
Literal(value) ==
    /\ value[1] \in DOMAIN Decimal
    /\ LET n == Notation(value)
       IN  /\ n.from > 1 => value[2] = "x"
           /\ \A i \in n.from .. Len(value) : value[i] \in DOMAIN n.digits \cup {"'"}

\* The name of a constant in which the parser sees no number.
Unread(value) == \A i \in DOMAIN value : value[i] \notin DOMAIN Decimal \cup {","}

\* An enumerator as it may be declared.
Declared(e) ==
    /\ Len(e.name) \in 1 .. Longest /\ \A j \in DOMAIN e.name : e.name[j] \in Letters
    /\ e.value # <<>> => IF e.value \in ConstantNames THEN Unread(e.value) ELSE Literal(e.value)

\* The table of an enum without enumerators is an array of no items, which is not C++.
ASSUME DeclarationsWritten ==
    \A d \in Declarations : /\ d \in Seq([name : Seq(Characters), value : Seq(Characters)])
                            /\ d # <<>> /\ \A i \in DOMAIN d : Declared(d[i])

\* "It is not allowed to use an expression" (named_enum.h:172).
Numbers(d) == \A i \in DOMAIN d : d[i].value \notin ConstantNames

-----------------------------------------------------------------------------
(* Properties. *)

\* The declaration without the values that are constants.
AsRead(d) == [i \in DOMAIN d |-> IF d[i].value \in ConstantNames THEN [d[i] EXCEPT !.value = <<>>] ELSE d[i]]

(***************************************************************************)
(* The parser gives each enumerator the value the compiler gives it, in    *)
(* the notations the macro admits, with and without values between others. *)
(* A value that is a constant is not read: its enumerator and those behind *)
(* it are named as if it had none, and count on past the end of the type.  *)
(* OrderState has one (open = xxx, order.h:24), so there the value the     *)
(* compiler gives to open has the name of a later state, or none.          *)
(***************************************************************************)
ParsedAsCompiled ==
    table # {} =>
        found = [i \in DOMAIN decl |-> [Enumerators(AsRead(decl))[i] EXCEPT !.key = @ % Modulus]]

\* The names declared for a value, and whether a name is declared.
NamesOf(v)     == {e.value : e \in {x \in ToSet(Enumerators(decl)) : x.key = v}}
Declares(name) == \E e \in ToSet(Enumerators(decl)) : e.value = name

(***************************************************************************)
(* Names and values convert back and forth, in tables of every length and  *)
(* with gaps and aliases, a sequence or not: the name of a value is one of *)
(* those declared for it, the value of a name is its own; a value without  *)
(* a name has the empty one, and any other name is taken for a zero.       *)
(***************************************************************************)
BackAndForth ==
    table # {} /\ Numbers(decl) =>
        /\ \A v \in 0 .. 2 * Len(decl) + 1 : IF NamesOf(v) = {} THEN to_string(v) = <<>> ELSE to_string(v) \in NamesOf(v)
        /\ \A e \in ToSet(Enumerators(decl)) : from_string(e.value) = e.key /\ to_string(e.key) # <<>>
        /\ \A e, f \in ToSet(Enumerators(decl)) : Declares(e.value \o f.value) \/ from_string(e.value \o f.value) = 0

(***************************************************************************)
(* A table constructed from the same items finds the first item of a key,  *)
(* whatever std::sort does with equal elements.                            *)
(***************************************************************************)
FirstOfEqualKeys ==
    table # {} =>
        \A t \in Constructed(found), i \in DOMAIN found :
            (\A j \in 1 .. i - 1 : found[j].key # found[i].key)
                => GetValue(t, found[i].key, <<>>) = found[i].value
=============================================================================
