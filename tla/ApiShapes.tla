----------------------------- MODULE ApiShapes ------------------------------
(***************************************************************************)
(* What a request of the API carries, and what the API takes.              *)
(*                                                                         *)
(* A body or a query is a table of fields, each of a kind; a list of the   *)
(* body may hold elements with fields of their own.  What the server takes *)
(* is a DTO: a class whose decorators class-validator reads (@IsString,    *)
(* @IsNumber, @IsOptional, @ValidateNested ...), under the ValidationPipe  *)
(* of main.ts.  What the web client gives is the type of the payload it    *)
(* passes to JSON.stringify, or the parameters it sets on the query.       *)
(* Values, lengths and formats are left out: only which fields there are   *)
(* and of what kind.                                                       *)
(***************************************************************************)
EXTENDS Naturals, Sequences, FiniteSets, TLC

(* A field of a query is text, and "numeral" is the text of a number; a    *)
(* field with @Type(() => Number) is converted before it is validated.     *)
NoFields == <<>>

Str(names)      == [n \in names |-> "string"]
Num(names)      == [n \in names |-> "number"]
Numeric(names)  == [n \in names |-> "numeric"]
Numeral(names)  == [n \in names |-> "numeral"]
Bool(names)     == [n \in names |-> "boolean"]
List(names)     == [n \in names |-> "list"]
Anything(names) == [n \in names |-> "anything"]

(* What a field of a kind admits.                                          *)
Admits(kind) ==
    CASE kind = "numeric"  -> {"number", "numeral"}
      [] kind = "string"   -> {"string", "numeral"}
      [] kind = "anything" -> {"string", "number", "numeral", "boolean", "list", "anything"}
      [] OTHER             -> {kind}

-----------------------------------------------------------------------------
(* The DTOs.                                                               *)

DtoClass(class, required, optional, elements) ==
    [ class |-> class, required |-> required, optional |-> optional, elements |-> elements ]

Dto(required, optional) == DtoClass("checked", required, optional, NoFields)

(* A list with @ValidateNested: its elements are validated too.            *)
Nested(required, optional, elements) == DtoClass("checked", required, optional, elements)

(* A class without one decorator: forbidUnknownValues refuses every body.  *)
Undecorated == DtoClass("undecorated", NoFields, NoFields, NoFields)

(* A parameter whose type is no class: the pipe passes it as it is.        *)
Unchecked == DtoClass("unchecked", NoFields, NoFields, NoFields)

(* Parameters of a query taken one by one with ParseIntPipe.               *)
Loose(required) == DtoClass("loose", required, NoFields, NoFields)

-----------------------------------------------------------------------------
(* What the client gives.                                                  *)

GivenWith(required, optional, elements) ==
    [ required |-> required, optional |-> optional, elements |-> elements ]

Given(required, optional) == GivenWith(required, optional, NoFields)

Nothing == Given(NoFields, NoFields)

(* The least the type of a payload lets through, and all it has room for.  *)
Extents == {"least", "full"}

FieldsOf(given, extent) ==
    IF extent = "full" THEN given.required @@ given.optional ELSE given.required

-----------------------------------------------------------------------------
(* whitelist with forbidNonWhitelisted: a field the class does not name is *)
(* an error and not dropped.                                               *)
KnownFieldsOnly(dto, fields) ==
    DOMAIN fields \subseteq DOMAIN dto.required \cup DOMAIN dto.optional

FieldsPass(dto, fields) ==
    /\ DOMAIN dto.required \subseteq DOMAIN fields
    /\ \A f \in DOMAIN fields :
         /\ f \in DOMAIN dto.required => fields[f] \in Admits(dto.required[f])
         /\ f \in DOMAIN dto.optional => fields[f] \in Admits(dto.optional[f])

ElementsPass(dto, given, extent) ==
    \A list \in DOMAIN dto.elements \cap DOMAIN given.elements :
      LET element == FieldsOf(given.elements[list], extent) IN
      KnownFieldsOnly(dto.elements[list], element) /\ FieldsPass(dto.elements[list], element)

Validates(dto, given, extent) ==
    \/ dto.class = "unchecked"
    \/ dto.class = "loose" /\ FieldsPass(dto, FieldsOf(given, extent))
    \/ /\ dto.class = "checked"
       /\ KnownFieldsOnly(dto, FieldsOf(given, extent))
       /\ FieldsPass(dto, FieldsOf(given, extent))
       /\ ElementsPass(dto, given, extent)

=============================================================================
