------------------------------- MODULE Values -------------------------------
(***************************************************************************)
(* The values that calls between C++ and AngelScript carry: type ids,      *)
(* ArgumentValue, a union whose members are read whatever was written, and *)
(* the conversions of namespace ctx.                                       *)
(*                                                                         *)
(* A number is written to a member of the union, which is as wide as Span  *)
(* says; the constructor clears all of it, so a wider integer member reads *)
(* the same number.  What else is read of a member that was not written is *)
(* Garbage.                                                                *)
(***************************************************************************)
EXTENDS Integers

CONSTANTS
  Span,     \* the number of values of each integer member
  Garbage,  \* what is read of the wrong member
  Null      \* the null pointer

IntMembers == {"byte", "word", "dword", "qword"}

ASSUME SpanAssumption ==
  /\ Span \in [IntMembers -> Nat \ {0}]
  /\ Span["byte"] <= Span["word"] /\ Span["word"] <= Span["dword"]
  /\ Span["dword"] <= Span["qword"]
  /\ Garbage \notin Int

-----------------------------------------------------------------------------
(* Type ids.  A handle is a type id with a flag.                           *)

Integer == {"int8", "uint8", "int16", "uint16", "int32", "uint32", "int64", "uint64"}

IsFloat(t) == t \in {"float", "double"}

IsPrimitive(t) == t = "bool" \/ t \in Integer \/ IsFloat(t)

IsEnum(t) == t = "enum"

(* Objects of a reference type, of a value type, and functions.            *)
ObjectTypes == {"object", "value", "function"}

HandleTypes == {"object@", "function@"}

IsHandle(t) == t \in HandleTypes

(* Primitive types and enums, and all that values have.                    *)
Scalars == {"bool", "enum", "float", "double"} \cup Integer

TypeIds == Scalars \cup ObjectTypes \cup HandleTypes

(* asTYPEID_MASK_OBJECT: handles have it, too.                             *)
IsObject(t) == t \in ObjectTypes \cup HandleTypes

(* A type id without the handle flag.                                      *)
Pointee(t) == CASE t = "object@" -> "object" [] t = "function@" -> "function"
                [] OTHER -> t

Member(t) ==
  CASE t \in {"bool", "int8", "uint8"} -> "byte"
    [] t \in {"int16", "uint16"} -> "word"
    [] t \in {"int32", "uint32", "enum"} -> "dword"
    [] t \in {"int64", "uint64"} -> "qword"
    [] t = "float" -> "flValue"
    [] t = "double" -> "dValue"
    [] OTHER -> "pValue"

(* The kind of an argument, ArgType.                                       *)
ArgumentTypeFromTypeId(t) ==
  CASE t = "void" -> "VOID" [] t = "value" -> "VALUE" [] IsPrimitive(t) -> "PRIMITIVE"
    [] IsEnum(t) -> "ENUM" [] OTHER -> "REF"

-----------------------------------------------------------------------------
(* The union.                                                              *)

Written(m, x) == [member |-> m, data |-> IF m \in IntMembers THEN x % Span[m] ELSE x]

Read(v, m) ==
  IF v.member = m THEN v.data
  ELSE IF {v.member, m} \subseteq IntMembers THEN v.data % Span[m]
  ELSE Garbage

(* Set or SetPrimitiveArgument: the value at an address, by its type.      *)
Loaded(t, x) == Written(Member(t), x)

-----------------------------------------------------------------------------
(* Conversions.                                                            *)

(* ConvertInputArgToLargest, for a primitive type or enum: one number, as  *)
(* an integer and as a double.  Integers are read unsigned.                *)
(* Mutant: 16 bit integers are read as bytes.                              *)
LargestShort(t, v) == Read(v, IF Member(t) = "word" THEN "byte" ELSE Member(t))

Largest(t, v) == Read(v, Member(t))

(* SetContextArgument: the number, cast to what the parameter takes.  An   *)
(* enum gets the dword of the union as it is.                              *)
Cast(param, source, v) ==
  IF IsEnum(param) THEN Read(v, "dword")
  ELSE IF IsFloat(param) THEN Largest(source, v)
  ELSE Largest(source, v) % Span[Member(param)]

(* ConvertEnumToPrimitive: an enum, which may have the type id of an int32, *)
(* converts to any number.                                                 *)
EnumConverts(source, t) ==
  (IsEnum(source) \/ source = "int32") /\ (t \in Integer \/ IsFloat(t))
=============================================================================
