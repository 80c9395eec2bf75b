------------------------------- MODULE Ubsan -------------------------------
(***************************************************************************)
(* The undefined-behaviour sanitizer's runtime (llvm/ubsan/ubsan.c).       *)
(* Instrumented code calls a handler with the static data of the place and *)
(* the operands; the handler marks the place as reported, decodes the      *)
(* operands, says what is wrong, and panics if the check is fatal.  A      *)
(* handler can be entered again while it runs (from a trap, or from the    *)
(* code that prints its report), so the mark is set by a compare-and-swap. *)
(***************************************************************************)
EXTENDS Integers, TLC

CONSTANTS Contexts,   \* activities that may be inside a handler
          Logs        \* binary logarithms of the integer widths

(* Integer types: mTypeInfo holds the logarithm of the width and the sign.  *)
Types == {2 * k + s : k \in Logs, s \in 0 .. 1}
z_deserialize_type_width(info) == 2 ^ (info \div 2)
Signed(info) == info % 2 = 1
Widest(info) == \A k \in Logs : k <= info \div 2     \* WIDTH_128

llli_get_number(info, ul) ==
  LET w == z_deserialize_type_width(info)
      u == ul % 2 ^ w
  IN IF u >= 2 ^ (w - 1) THEN u - 2 ^ w ELSE u

lllu_get_number(info, ul) == ul

(* A number as it is printed: in decimal, or the bytes of the widest type.  *)
deserialize_uint128_t(info, n) == [form |-> "bytes", value |-> n % 2 ^ z_deserialize_type_width(info)]
deserialize_number_signed(info, n) ==
  IF Widest(info) THEN deserialize_uint128_t(info, n) ELSE [form |-> "decimal", value |-> n]
deserialize_number_unsigned(info, n) ==
  IF Widest(info) THEN deserialize_uint128_t(info, n) ELSE [form |-> "decimal", value |-> n]
deserialize_number(info, ul) ==
  IF Signed(info) THEN deserialize_number_signed(info, llli_get_number(info, ul))
  ELSE deserialize_number_unsigned(info, lllu_get_number(info, ul))

is_negative_number(info, ul) == Signed(info) /\ llli_get_number(info, ul) < 0
is_shift_exponent_too_large(info, ul, w) == lllu_get_number(info, ul) >= w

-----------------------------------------------------------------------------
(* The Handle functions: the reason each one reports and the numbers in it. *)
(* A call has the operands l and r with their types lt and rt; the place is *)
(* marked and the report made by the actions below.                         *)
Said(why, numbers) == [why |-> why, numbers |-> numbers]
Left(c) == deserialize_number(c.lt, c.l)
Right(c) == deserialize_number(c.rt, c.r)

HandleOverflow(c) == Said("overflow", <<Left(c), Right(c)>>)
HandleNegateOverflow(c) == Said("negation", <<Left(c)>>)
HandleBuiltinUnreachable(c) == Said("unreachable", <<>>)
HandleTypeMismatch(c) ==
  LET alignment == IF c.name = "type_mismatch" THEN c.r ELSE 2 ^ c.r
  IN Said(CASE c.l = 0 -> "null"
            [] c.l # 0 /\ c.l % alignment # 0 -> "misaligned"
            [] OTHER -> "no space", <<>>)
HandleVlaBoundNotPositive(c) == Said("array bound", <<Left(c)>>)
HandleOutOfBounds(c) == Said("index", <<Left(c)>>)
HandleShiftOutOfBounds(c) ==
  LET negative == is_negative_number(c.rt, c.r)
      large == is_shift_exponent_too_large(c.rt, c.r, z_deserialize_type_width(c.lt))
  IN CASE negative -> Said("exponent negative", <<Right(c)>>)
       [] ~ negative /\ large -> Said("exponent too large", <<Right(c)>>)
       [] ~ negative /\ ~ large /\ is_negative_number(c.lt, c.l) -> Said("value negative", <<Left(c)>>)
       [] OTHER -> Said("not representable", <<Left(c), Right(c)>>)
HandleImplicitConversion(c) == Said("conversion", <<>>)
HandleLoadInvalidValue(c) == Said("invalid value", <<Left(c)>>)
HandleInvalidBuiltin(c) == Said("builtin of zero", <<>>)
HandleFunctionTypeMismatch(c) == Said("function type", <<>>)
HandleCFIBadType(c) == Said("control flow", <<>>)
HandleFloatCastOverflow(c) == Said("float cast", <<>>)
HandleMissingReturn(c) == Said("no return", <<>>)
HandleNonnullArg(c) == Said("null argument", <<>>)
HandleNonnullReturn(c) == Said("null returned", <<>>)
HandlePointerOverflow(c) == Said("pointer", <<>>)

(* The public symbols: the Handle function each one calls and when the      *)
(* check is fatal: always, in the symbol ending in _abort, or never.        *)
To(handle, fatal) == [handle |-> handle, fatal |-> fatal]

SymbolsAtoI == [
  add_overflow |-> To("Overflow", "abort"), builtin_unreachable |-> To("BuiltinUnreachable", "always"),
  cfi_bad_type |-> To("CFIBadType", "pointer"), cfi_check_fail |-> To("CFIBadType", "abort"),
  divrem_overflow |-> To("Overflow", "abort"),
  dynamic_type_cache_miss |-> To("DynamicTypeCacheMiss", "never"),
  float_cast_overflow |-> To("FloatCastOverflow", "abort"),
  function_type_mismatch |-> To("FunctionTypeMismatch", "never"),
  implicit_conversion |-> To("ImplicitConversion", "never")]

SymbolsItoN == [
  invalid_builtin |-> To("InvalidBuiltin", "always"), load_invalid_value |-> To("LoadInvalidValue", "abort"),
  missing_return |-> To("MissingReturn", "always"), mul_overflow |-> To("Overflow", "abort"),
  negate_overflow |-> To("NegateOverflow", "abort"),
  nonnull_arg |-> To("NonnullArg", "abort"), nonnull_return_v1 |-> To("NonnullReturn", "abort"),
  nullability_arg |-> To("NonnullArg", "abort"), nullability_return_v1 |-> To("NonnullReturn", "abort")]

SymbolsOtoV == [
  out_of_bounds |-> To("OutOfBounds", "abort"), pointer_overflow |-> To("PointerOverflow", "abort"),
  shift_out_of_bounds |-> To("ShiftOutOfBounds", "abort"), sub_overflow |-> To("Overflow", "abort"),
  type_mismatch |-> To("TypeMismatch", "abort"), type_mismatch_v1 |-> To("TypeMismatch", "abort"),
  vla_bound_not_positive |-> To("VlaBoundNotPositive", "abort")]

Symbols == SymbolsAtoI @@ SymbolsItoN @@ SymbolsOtoV
Handle(c) == Symbols[c.name].handle

(* __ubsan_handle_cfi_bad_type passes the address of a flag that            *)
(* HandleCFIBadType takes for the flag, except for these two kinds.         *)
CFI_ICALL == 4
CFI_VMFCALL == 6
IsFatal(c) ==
  CASE Symbols[c.name].fatal = "always" -> TRUE
    [] Symbols[c.name].fatal = "abort" -> c.abort
    [] Symbols[c.name].fatal = "pointer" -> c.l \notin {CFI_ICALL, CFI_VMFCALL}
    [] OTHER -> FALSE

Reported(c) ==
  CASE Handle(c) = "Overflow" -> HandleOverflow(c)
    [] Handle(c) = "NegateOverflow" -> HandleNegateOverflow(c)
    [] Handle(c) = "BuiltinUnreachable" -> HandleBuiltinUnreachable(c)
    [] Handle(c) = "TypeMismatch" -> HandleTypeMismatch(c)
    [] Handle(c) = "VlaBoundNotPositive" -> HandleVlaBoundNotPositive(c)
    [] Handle(c) = "OutOfBounds" -> HandleOutOfBounds(c)
    [] Handle(c) = "ShiftOutOfBounds" -> HandleShiftOutOfBounds(c)
    [] Handle(c) = "ImplicitConversion" -> HandleImplicitConversion(c)
    [] Handle(c) = "LoadInvalidValue" -> HandleLoadInvalidValue(c)
    [] Handle(c) = "InvalidBuiltin" -> HandleInvalidBuiltin(c)
    [] Handle(c) = "FunctionTypeMismatch" -> HandleFunctionTypeMismatch(c)
    [] Handle(c) = "CFIBadType" -> HandleCFIBadType(c)
    [] Handle(c) = "FloatCastOverflow" -> HandleFloatCastOverflow(c)
    [] Handle(c) = "MissingReturn" -> HandleMissingReturn(c)
    [] Handle(c) = "NonnullArg" -> HandleNonnullArg(c)
    [] Handle(c) = "NonnullReturn" -> HandleNonnullReturn(c)
    [] Handle(c) = "PointerOverflow" -> HandlePointerOverflow(c)

-----------------------------------------------------------------------------
(* The calls the instrumentation makes: for a shift only undefined ones.    *)
(* An operand is passed as its bits.                                        *)
Bits(info) == 0 .. 2 ^ z_deserialize_type_width(info) - 1
Value(info, u) ==
  LET w == z_deserialize_type_width(info)
  IN IF Signed(info) /\ u >= 2 ^ (w - 1) THEN u - 2 ^ w ELSE u

NotRepresentable(lt, l, n) == Signed(lt) /\ Value(lt, l) * 2 ^ n >= 2 ^ (z_deserialize_type_width(lt) - 1)
UndefinedShift(lt, l, rt, r) ==
  LET n == Value(rt, r)
  IN \/ n < 0 \/ n >= z_deserialize_type_width(lt)
     \/ Value(lt, l) < 0 \/ NotRepresentable(lt, l, n)

CallsOf(names, lt, rt, rights) ==
  [name : names, abort : BOOLEAN, lt : {lt}, l : Bits(lt), rt : {rt}, r : rights]
Calls ==
  UNION {{c \in CallsOf({"shift_out_of_bounds"}, t[1], t[2], Bits(t[2])) : UndefinedShift(c.lt, c.l, c.rt, c.r)}
           : t \in Types \X Types}
    \cup UNION {CallsOf(DOMAIN Symbols \ {"shift_out_of_bounds"}, t, t, 1 .. 2) : t \in Types}

VARIABLE ub
\* call  : the place that is executed, again and again
\* mark  : ACK_REPORTED in its mLine
\* ctx   : for each activity where it is and the value of mLine it has read
\* said  : how often the place was reported, and what was said
\* panic : the system has stopped

Init ==
  ub \in [call : Calls, mark : {FALSE}, ctx : {[c \in Contexts |-> [at |-> "out", old |-> FALSE]]},
          said : {0}, reason : {Said("", <<>>)}, panic : {FALSE}]

(* HandleDynamicTypeCacheMiss does nothing.                                 *)
Enter(c) ==
  /\ ~ ub.panic /\ ub.ctx[c].at = "out" /\ ub.said < 2
  /\ Handle(ub.call) # "DynamicTypeCacheMiss"
  /\ ub' = [ub EXCEPT !.ctx[c] = [at |-> "swap", old |-> ub.mark]]

(* __sync_val_compare_and_swap: fails if mLine has changed since it was read. *)
SwapUnchecked(c) ==
  [ub EXCEPT !.mark = TRUE, !.ctx[c].at = IF ub.ctx[c].old THEN "out" ELSE "report"]

Swap(c) ==
  IF ub.mark # ub.ctx[c].old THEN [ub EXCEPT !.ctx[c].old = ub.mark]
  ELSE [ub EXCEPT !.mark = TRUE, !.ctx[c].at = IF ub.ctx[c].old THEN "out" ELSE "report"]

IsAlreadyReported(c) ==
  /\ ~ ub.panic /\ ub.ctx[c].at = "swap"
  /\ ub' = Swap(c)

Report(c) ==
  /\ ~ ub.panic /\ ub.ctx[c].at = "report"
  /\ ub' = [ub EXCEPT !.ctx[c].at = "out", !.said = @ + 1, !.reason = Reported(ub.call),
                      !.panic = IsFatal(ub.call)]

Next == \E c \in Contexts : Enter(c) \/ IsAlreadyReported(c) \/ Report(c)

-----------------------------------------------------------------------------
(* is_already_reported lets one activity through for each place, whichever  *)
(* way two of them interleave: the report does not repeat itself, and an    *)
(* undefined operation inside the report cannot recurse for ever.           *)
ReportedOnce == ub.said <= 1

(* What the handlers say is so: every number in a report is one the program *)
(* computed with (in decimal its value, otherwise its bytes), and of the    *)
(* reasons a shift or an access can have the one that is named applies.     *)
Shows(number, info, u) ==
  number.value = IF number.form = "decimal" THEN Value(info, u) ELSE u
ReasonIsTrue ==
  LET c == ub.call
      n == Value(c.rt, c.r)
      said == ub.reason
  IN /\ \A i \in DOMAIN said.numbers : Shows(said.numbers[i], c.lt, c.l) \/ Shows(said.numbers[i], c.rt, c.r)
     /\ said.why = "exponent negative" => n < 0
     /\ said.why = "exponent too large" => n >= z_deserialize_type_width(c.lt)
     /\ said.why = "value negative" => Value(c.lt, c.l) < 0
     /\ said.why = "not representable" => NotRepresentable(c.lt, c.l, n)
=============================================================================
