----------------------------- MODULE Parameters -----------------------------
(***************************************************************************)
(* Parameters of a strategy: get_param of interface/context.h with the     *)
(* parsers of interface/parameters.h, for an enum whose names NamedEnum    *)
(* has parsed among other types.  Their texts are values of a file; what   *)
(* get_param_string, which is defined nowhere, finds is a set of the text, *)
(* empty if the parameter is missing, and an outcome a set of the value,   *)
(* empty if there is a ConfigError.                                        *)
(***************************************************************************)
EXTENDS NamedEnum, Config

CONSTANTS ParameterTypes     \* enums that parameters have

ParametersInit == Init /\ ConfigInit
ParametersNext ==
    \/ Next /\ UNCHANGED configVars
    \/ table # {} /\ decl \in ParameterTypes /\ ConfigNext /\ UNCHANGED vars
ParametersSpec == ParametersInit /\ [][ParametersNext]_<<vars, configVars>>

\* A number of an eight-bit type, signed or not.
Numeric == [unsigned |-> 0 .. Modulus - 1, signed |-> -(Modulus \div 2) .. Modulus \div 2 - 1]

\* std::from_chars: the longest number the text starts with, if it fits.
FromChars(type, str) ==
    LET minus == type = "signed" /\ str # <<>> /\ str[1] = "-"
        rest  == IF minus THEN Tail(str) ELSE str
        ends  == {n \in 1 .. Len(rest) : \A i \in 1 .. n : rest[i] \in DOMAIN Decimal}
        upto[n \in Nat] == IF n = 0 THEN 0 ELSE 10 * upto[n - 1] + Decimal[rest[n]]
    IN  {v \in Numeric[type] : ends # {} /\ v = (IF minus THEN -1 ELSE 1) * upto[Cardinality(ends)]}

Bools == [true |-> <<"t", "r", "u", "e">>, false |-> <<"f", "a", "l", "s", "e">>]

\* parameter_parse<T>; that of an enum never throws.
Parse(type, str) ==
    CASE type = "string" -> {str}
      [] type = "bool"   -> {v \in BOOLEAN : str = Bools[IF v THEN "true" ELSE "false"]}
      [] type = "enum"   -> {from_string(str)}
      [] OTHER           -> FromChars(type, str)

\* get_param(name)
GetParam(type, param) == UNION {Parse(type, str) : str \in param}

\* A faulty variant: the default stands for what cannot be parsed.
GetParamOrElse(type, param, def_value) ==
    IF GetParam(type, param) = {} THEN {def_value} ELSE GetParam(type, param)

\* get_param(name, def_value)
GetParamOr(type, param, def_value) == IF param = {} THEN {def_value} ELSE GetParam(type, param)

-----------------------------------------------------------------------------

\* A number in decimal.
Written(v) ==
    LET digit[n \in Nat] == CHOOSE c \in DOMAIN Decimal : Decimal[c] = n
        text_of[n \in Nat] == IF n < 10 THEN <<digit[n]>> ELSE text_of[n \div 10] \o <<digit[n % 10]>>
    IN  IF v < 0 THEN <<"-">> \o text_of[-v] ELSE text_of[v]

(***************************************************************************)
(* Where the lines of a file end in nothing but blanks, a parameter is the *)
(* value written there: a number that fits its type, a boolean, the key of *)
(* an enumerator's name.  A number that does not fit is an error, and so   *)
(* is, in any file, what is no boolean.  A default stands for a parameter  *)
(* that is missing and never hides one that cannot be parsed.              *)
(***************************************************************************)
ParametersTaken ==
    \A f \in file, i \in DOMAIN calls :
        LET given == f.entries[i].value
            str   == calls[i].value
        IN  /\ Clean(f) =>
                  /\ \A type \in DOMAIN Numeric, n \in -200 .. 300 :
                        given = Written(n) => GetParam(type, {str}) = {n} \cap Numeric[type]
                  /\ \A e \in ToSet(Enumerators(decl)) : given = e.value => GetParam("enum", {str}) = {e.key}
            /\ GetParam("bool", {str}) =
                  {v \in BOOLEAN : Clean(f) /\ given = Bools[IF v THEN "true" ELSE "false"]}
            /\ \A type \in {"bool", "enum"} \cup DOMAIN Numeric, n \in 0 .. 2 :
                  GetParam(type, {str}) = {} => GetParamOr(type, {str}, n) = {}
=============================================================================
