------------------------------ MODULE Validation ------------------------------
(***************************************************************************)
(* The validators of dbus-marshal-validate.c, the UTF-8 check of           *)
(* dbus-string.c and the signature iterator of dbus-signature.c, each      *)
(* against a reference definition that splits the string into its parts    *)
(* instead of walking it with pointers.                                    *)
(*                                                                         *)
(* A string is a sequence of byte values, with positions from 0 as in C;   *)
(* the byte after the last one is the terminating nul.                     *)
(***************************************************************************)
EXTENDS Integers, Sequences, FiniteSets

CONSTANTS MaxName,         \* DBUS_MAXIMUM_NAME_LENGTH
          MaxSignature,    \* DBUS_MAXIMUM_SIGNATURE_LENGTH
          MaxDepth         \* DBUS_MAXIMUM_TYPE_RECURSION_DEPTH

At(s, p) == IF p < Len(s) THEN s[p + 1] ELSE 0

Digit == 48 .. 57
Letter == (65 .. 90) \cup (97 .. 122)
Slash == 47
Dot == 46
Colon == 58

(***************************************************************************)
(* Type codes.                                                             *)
(***************************************************************************)
INVALID == 0
BYTE == 121
BOOLEAN_ == 98
INT16 == 110
UINT16 == 113
INT32 == 105
UINT32 == 117
INT64 == 120
UINT64 == 116
DOUBLE == 100
STRING_ == 115
OBJECT_PATH == 111
SIGNATURE == 103
ARRAY == 97
VARIANT == 118
STRUCT == 114
DICT_ENTRY == 101
STRUCT_BEGIN == 40
STRUCT_END == 41
DICT_BEGIN == 123
DICT_END == 125

dbus_type_is_fixed(t) == t \in {BYTE, BOOLEAN_, INT16, UINT16, INT32, UINT32, INT64, UINT64, DOUBLE}
dbus_type_is_container(t) == t \in {STRUCT, DICT_ENTRY, VARIANT, ARRAY}
dbus_type_is_valid(t) == dbus_type_is_fixed(t) \/ dbus_type_is_container(t)
                         \/ t \in {STRING_, OBJECT_PATH, SIGNATURE}

dbus_type_is_basic(t) == dbus_type_is_valid(t) /\ ~dbus_type_is_container(t)

dbus_first_type_in_signature(s, p) ==
  CASE At(s, p) = STRUCT_BEGIN -> STRUCT
    [] At(s, p) = DICT_BEGIN -> DICT_ENTRY
    [] OTHER -> At(s, p)

-----------------------------------------------------------------------------
(***************************************************************************)
(* Names.                                                                  *)
(***************************************************************************)
INITIAL_NAME_CHARACTER == Letter \cup {95}
NAME_CHARACTER == INITIAL_NAME_CHARACTER \cup Digit
INITIAL_BUS_NAME_CHARACTER == INITIAL_NAME_CHARACTER \cup {45}
BUS_NAME_CHARACTER == NAME_CHARACTER \cup {45}

RECURSIVE PathFrom(_, _, _)
PathFrom(s, p, last_slash) ==
  IF p = Len(s) THEN ~(p - last_slash < 2 /\ Len(s) > 1)
  ELSE IF At(s, p) = Slash
       THEN p - last_slash >= 2 /\ PathFrom(s, p + 1, p)
       ELSE At(s, p) \in NAME_CHARACTER /\ PathFrom(s, p + 1, last_slash)

dbus_validate_path(s) == Len(s) > 0 /\ At(s, 0) = Slash /\ PathFrom(s, 1, 0)

(* A mutant: the dot's successor is checked as an inner character.         *)
DottedFromLoose(s, p, dotted, initial, inner) ==
  \/ p = Len(s) /\ dotted
  \/ p < Len(s) /\ \A q \in p .. Len(s) - 1 : At(s, q) \in inner \cup {Dot}

(* A dot must be followed by a character an element may start with, which  *)
(* is then skipped.                                                        *)
RECURSIVE DottedFrom(_, _, _, _, _)
DottedFrom(s, p, dotted, initial, inner) ==
  IF p = Len(s) THEN dotted
  ELSE IF At(s, p) = Dot
       THEN p + 1 < Len(s) /\ At(s, p + 1) \in initial /\ DottedFrom(s, p + 2, TRUE, initial, inner)
       ELSE At(s, p) \in inner /\ DottedFrom(s, p + 1, dotted, initial, inner)

dbus_validate_interface(s) ==
  /\ Len(s) \in 1 .. MaxName
  /\ At(s, 0) \in INITIAL_NAME_CHARACTER
  /\ DottedFrom(s, 1, FALSE, INITIAL_NAME_CHARACTER, NAME_CHARACTER)

dbus_validate_error_name(s) == dbus_validate_interface(s)

dbus_validate_member(s) ==
  /\ Len(s) \in 1 .. MaxName
  /\ At(s, 0) \in INITIAL_NAME_CHARACTER
  /\ \A p \in 1 .. Len(s) - 1 : At(s, p) \in NAME_CHARACTER

dbus_validate_bus_name(s) ==
  /\ Len(s) \in 1 .. MaxName
  /\ IF At(s, 0) = Colon
     THEN DottedFrom(s, 1, TRUE, BUS_NAME_CHARACTER, BUS_NAME_CHARACTER)
     ELSE /\ At(s, 0) \in INITIAL_BUS_NAME_CHARACTER
          /\ DottedFrom(s, 1, FALSE, INITIAL_BUS_NAME_CHARACTER, BUS_NAME_CHARACTER)

-----------------------------------------------------------------------------
(***************************************************************************)
(* UTF-8.                                                                  *)
(***************************************************************************)
UTF8_COMPUTE(c) ==
  CASE c < 128 -> 1 [] c \in 192 .. 223 -> 2 [] c \in 224 .. 239 -> 3 [] c \in 240 .. 247 -> 4
    [] c \in 248 .. 251 -> 5 [] c \in 252 .. 253 -> 6 [] OTHER -> 0

UTF8_LENGTH(c) == IF c < 128 THEN 1 ELSE IF c < 2048 THEN 2 ELSE IF c < 65536 THEN 3
                  ELSE IF c < 2097152 THEN 4 ELSE IF c < 67108864 THEN 5 ELSE 6

NotAChar == 2147483647     \* (dbus_unichar_t) -1, within TLC's integers

RECURSIVE UTF8_GET(_, _, _, _)
UTF8_GET(s, p, len, n) ==
  IF n = 1 THEN At(s, p) % (IF len = 1 THEN 128 ELSE 2 ^ (7 - len))
  ELSE LET sofar == UTF8_GET(s, p, len, n - 1) IN
       IF sofar = NotAChar \/ At(s, p + n - 1) \div 64 # 2 THEN NotAChar
       ELSE sofar * 64 + (At(s, p + n - 1) % 64)

UNICODE_VALID(c) ==
  c < 1114112 /\ c \notin 55296 .. 57343 /\ c \notin 64976 .. 65007 /\ c % 65536 # 65535

RECURSIVE Utf8From(_, _)
Utf8From(s, p) ==
  \/ p = Len(s)
  \/ /\ p < Len(s)
     /\ At(s, p) # 0
     /\ LET len == UTF8_COMPUTE(At(s, p))
            c == UTF8_GET(s, p, len, len)
        IN  /\ len # 0
            /\ Len(s) - p >= len
            /\ UTF8_LENGTH(c) = len
            /\ UNICODE_VALID(c)
            /\ Utf8From(s, p + len)

dbus_string_validate_utf8(s) == Utf8From(s, 0)

-----------------------------------------------------------------------------
(***************************************************************************)
(* Signatures.  The walk keeps one depth for arrays, one for structs and   *)
(* one for dict entries, and a stack with the number of elements of every  *)
(* open container.                                                         *)
(***************************************************************************)
Walk0 == [array_depth |-> 0, struct_depth |-> 0, dict_entry_depth |-> 0, last |-> INVALID,
          element_count_stack |-> <<0>>, result |-> "VALID"]

Top(stack) == stack[Len(stack)]
Pop(stack) == SubSeq(stack, 1, Len(stack) - 1)

(* The switch on the character: the reason to stop, or VALID.              *)
Refusal(w, c) ==
  CASE c = ARRAY /\ w.array_depth + 1 > MaxDepth -> "EXCEEDED_MAXIMUM_ARRAY_RECURSION"
    [] c = STRUCT_BEGIN /\ w.struct_depth + 1 > MaxDepth -> "EXCEEDED_MAXIMUM_STRUCT_RECURSION"
    [] c = STRUCT_END /\ w.struct_depth = 0 -> "STRUCT_ENDED_BUT_NOT_STARTED"
    [] c = STRUCT_END /\ w.last = STRUCT_BEGIN -> "STRUCT_HAS_NO_FIELDS"
    [] c = DICT_BEGIN /\ w.last # ARRAY -> "DICT_ENTRY_NOT_INSIDE_ARRAY"
    [] c = DICT_BEGIN /\ w.dict_entry_depth + 1 > MaxDepth -> "EXCEEDED_MAXIMUM_DICT_ENTRY_RECURSION"
    [] c = DICT_END /\ w.dict_entry_depth = 0 -> "DICT_ENTRY_ENDED_BUT_NOT_STARTED"
    [] c = DICT_END /\ Top(w.element_count_stack) # 2 -> "DICT_ENTRY_HAS_WRONG_FIELDS"
    [] c \notin {ARRAY, STRUCT_BEGIN, STRUCT_END, DICT_BEGIN, DICT_END, VARIANT} /\ ~dbus_type_is_basic(c)
       -> "UNKNOWN_TYPECODE"
    [] OTHER -> "VALID"

(* One turn of the loop, after the switch accepted the character: element  *)
(* counts, the array that needs an element type, and the dict entry's key. *)
Accepted(w, c, next) ==
  LET opens == c \in {STRUCT_BEGIN, DICT_BEGIN}
      stack == CASE opens -> Append(w.element_count_stack, 0)
                 [] c \in {STRUCT_END, DICT_END} -> Pop(w.element_count_stack)
                 [] OTHER -> w.element_count_stack
  IN  [array_depth |-> IF c = ARRAY THEN w.array_depth + 1 ELSE 0,
       struct_depth |-> w.struct_depth + (IF c = STRUCT_BEGIN THEN 1 ELSE IF c = STRUCT_END THEN -1 ELSE 0),
       dict_entry_depth |-> w.dict_entry_depth + (IF c = DICT_BEGIN THEN 1 ELSE IF c = DICT_END THEN -1 ELSE 0),
       last |-> c,
       element_count_stack |-> IF opens \/ c = ARRAY THEN stack ELSE Append(Pop(stack), Top(stack) + 1),
       result |-> IF c = ARRAY /\ next \in {STRUCT_END, DICT_END} THEN "MISSING_ARRAY_ELEMENT_TYPE"
                  ELSE IF w.last = DICT_BEGIN /\ dbus_type_is_valid(c) /\ ~dbus_type_is_basic(c)
                  THEN "DICT_KEY_MUST_BE_BASIC_TYPE" ELSE "VALID"]

RECURSIVE SignatureFrom(_, _, _)
SignatureFrom(s, p, w) ==
  IF p = Len(s)
  THEN CASE w.array_depth > 0 -> "MISSING_ARRAY_ELEMENT_TYPE"
         [] w.struct_depth > 0 -> "STRUCT_STARTED_BUT_NOT_ENDED"
         [] w.dict_entry_depth > 0 -> "DICT_ENTRY_STARTED_BUT_NOT_ENDED"
         [] OTHER -> "VALID"
  ELSE LET refusal == Refusal(w, At(s, p))
           after == Accepted(w, At(s, p), At(s, p + 1))
       IN  IF refusal # "VALID" THEN refusal
           ELSE IF after.result # "VALID" THEN after.result
           ELSE SignatureFrom(s, p + 1, after)

dbus_validate_signature_with_reason(s) ==
  IF Len(s) > MaxSignature THEN "SIGNATURE_TOO_LONG" ELSE SignatureFrom(s, 0, Walk0)

dbus_validate_signature(s) == dbus_validate_signature_with_reason(s) = "VALID"

(* Past the brackets of one kind that open at p; brackets of the other     *)
(* kind are not looked at.                                                 *)
RECURSIVE PastBrackets(_, _, _, _, _)
PastBrackets(s, p, depth, open, close) ==
  IF depth = 0 \/ p >= Len(s) THEN p
  ELSE PastBrackets(s, p + 1, depth + (IF At(s, p) = open THEN 1 ELSE IF At(s, p) = close THEN -1 ELSE 0),
                    open, close)

RECURSIVE dbus_type_signature_next(_, _)
dbus_type_signature_next(s, p) ==
  CASE At(s, p) = ARRAY -> dbus_type_signature_next(s, p + 1)
    [] At(s, p) = STRUCT_BEGIN -> PastBrackets(s, p + 1, 1, STRUCT_BEGIN, STRUCT_END)
    [] At(s, p) = DICT_BEGIN -> PastBrackets(s, p + 1, 1, DICT_BEGIN, DICT_END)
    [] OTHER -> p + 1

dbus_signature_iter_init == [pos |-> 0, finished |-> FALSE, in_array |-> FALSE]

dbus_signature_iter_get_current_type(s, iter) == dbus_first_type_in_signature(s, iter.pos)

dbus_signature_iter_get_signature(s, iter) ==
  SubSeq(s, iter.pos + 1, dbus_type_signature_next(s, iter.pos))

(* The iterator after the call, and what the call returns.                 *)
dbus_signature_iter_next(s, iter) ==
  LET pos == dbus_type_signature_next(s, iter.pos) IN
  IF iter.finished THEN [iter |-> iter, more |-> FALSE]
  ELSE IF iter.in_array THEN [iter |-> [iter EXCEPT !.finished = TRUE], more |-> FALSE]
  ELSE LET end == At(s, pos) \in {STRUCT_END, DICT_END} IN
       [iter |-> [iter EXCEPT !.pos = pos, !.finished = end],
        more |-> ~end /\ At(s, pos) # INVALID]

dbus_signature_iter_recurse(s, iter) ==
  [iter EXCEPT !.pos = @ + 1, !.in_array = dbus_signature_iter_get_current_type(s, iter) = ARRAY]

dbus_signature_validate_single(s) ==
  /\ dbus_validate_signature(s)
  /\ dbus_signature_iter_get_current_type(s, dbus_signature_iter_init) # INVALID
  /\ ~dbus_signature_iter_next(s, dbus_signature_iter_init).more

(* What a client that follows the iterator through every container sees:   *)
(* the complete types in the order they open.                              *)
RECURSIVE Visit(_, _)
Visit(s, iter) ==
  LET next == dbus_signature_iter_next(s, iter)
      here == <<dbus_signature_iter_get_signature(s, iter)>>
      inside == IF dbus_signature_iter_get_current_type(s, iter) \in {STRUCT, DICT_ENTRY, ARRAY}
                THEN Visit(s, dbus_signature_iter_recurse(s, iter)) ELSE <<>>
  IN  here \o inside \o (IF next.more THEN Visit(s, next.iter) ELSE <<>>)

-----------------------------------------------------------------------------
(***************************************************************************)
(* The reference definitions.                                              *)
(***************************************************************************)
Basic == {BYTE, BOOLEAN_, INT16, UINT16, INT32, UINT32, INT64, UINT64, DOUBLE, STRING_, OBJECT_PATH, SIGNATURE}

(* A complete type, with at most `arrays' arrays directly inside each      *)
(* other and `depth' levels of structs and of dict entries.                *)
RECURSIVE Complete(_, _, _, _)
Complete(s, arrays, structs, dicts) ==
  \/ Len(s) = 1 /\ s[1] \in Basic \cup {VARIANT}
  \/ Len(s) > 1 /\ s[1] = ARRAY /\ arrays > 0 /\ Complete(Tail(s), arrays - 1, structs, dicts)
  \/ /\ Len(s) > 4 /\ s[1] = ARRAY /\ s[2] = DICT_BEGIN /\ s[Len(s)] = DICT_END /\ arrays > 0 /\ dicts > 0
     /\ s[3] \in Basic
     /\ Complete(SubSeq(s, 4, Len(s) - 1), MaxDepth, structs, dicts - 1)
  \/ /\ Len(s) > 2 /\ s[1] = STRUCT_BEGIN /\ s[Len(s)] = STRUCT_END /\ structs > 0
     /\ LET RECURSIVE Fields(_)
            Fields(f) == f = <<>> \/ \E n \in 1 .. Len(f) :
                            /\ Complete(SubSeq(f, 1, n), MaxDepth, structs - 1, dicts)
                            /\ Fields(SubSeq(f, n + 1, Len(f)))
        IN  Fields(SubSeq(s, 2, Len(s) - 1))

RECURSIVE Grammar(_)
Grammar(s) ==
  s = <<>> \/ \E n \in 1 .. Len(s) : /\ Complete(SubSeq(s, 1, n), MaxDepth, MaxDepth, MaxDepth)
                                     /\ Grammar(SubSeq(s, n + 1, Len(s)))

(* Brackets close in the order they opened.                                *)
RECURSIVE Nested(_, _)
Nested(s, open) ==
  \/ s = <<>>
  \/ /\ s # <<>> /\ Head(s) \in {STRUCT_BEGIN, DICT_BEGIN} /\ Nested(Tail(s), Append(open, Head(s)))
  \/ /\ s # <<>> /\ Head(s) \in {STRUCT_END, DICT_END}
     /\ open # <<>> => (Head(s) = STRUCT_END <=> Top(open) = STRUCT_BEGIN)
     /\ Nested(Tail(s), IF open = <<>> THEN open ELSE Pop(open))
  \/ /\ s # <<>> /\ Head(s) \notin {STRUCT_BEGIN, DICT_BEGIN, STRUCT_END, DICT_END} /\ Nested(Tail(s), open)

StructKey(s) == \E p \in 1 .. Len(s) - 1 : s[p] = DICT_BEGIN /\ s[p + 1] = STRUCT_BEGIN

(* The elements between the dots or slashes.                               *)
RECURSIVE Split(_, _)
Split(s, at) ==
  IF \E p \in 1 .. Len(s) : s[p] = at
  THEN LET p == CHOOSE q \in 1 .. Len(s) : s[q] = at /\ \A r \in 1 .. q - 1 : s[r] # at
       IN  <<SubSeq(s, 1, p - 1)>> \o Split(SubSeq(s, p + 1, Len(s)), at)
  ELSE <<s>>

Chars(s) == {s[p] : p \in 1 .. Len(s)}
Element(e, initial, inner) == e # <<>> /\ e[1] \in initial /\ Chars(e) \subseteq inner

RefPath(s) == s = <<Slash>> \/ /\ Len(s) > 1 /\ s[1] = Slash
                               /\ \A e \in Chars(Split(Tail(s), Slash)) : Element(e, NAME_CHARACTER, NAME_CHARACTER)
RefInterface(s) == /\ Len(s) <= MaxName /\ Len(Split(s, Dot)) > 1
                   /\ \A e \in Chars(Split(s, Dot)) : Element(e, INITIAL_NAME_CHARACTER, NAME_CHARACTER)
RefMember(s) == Len(s) <= MaxName /\ Element(s, INITIAL_NAME_CHARACTER, NAME_CHARACTER)
RefBusName(s) ==
  /\ Len(s) <= MaxName
  /\ \/ /\ Len(Split(s, Dot)) > 1
        /\ \A e \in Chars(Split(s, Dot)) : Element(e, INITIAL_BUS_NAME_CHARACTER, BUS_NAME_CHARACTER)
     \/ /\ s # <<>> /\ s[1] = Colon
        /\ LET parts == Split(Tail(s), Dot) IN
           /\ Chars(parts[1]) \subseteq BUS_NAME_CHARACTER
           /\ \A n \in 2 .. Len(parts) : Element(parts[n], BUS_NAME_CHARACTER, BUS_NAME_CHARACTER)

(* Well-formed UTF-8 by the ranges of the bytes of a character.            *)
Tail2 == 128 .. 191
Ranges ==
  {<<1 .. 127>>, <<194 .. 223, Tail2>>, <<{224}, 160 .. 191, Tail2>>, <<225 .. 236, Tail2, Tail2>>,
   <<{237}, 128 .. 159, Tail2>>, <<238 .. 239, Tail2, Tail2>>, <<{240}, 144 .. 191, Tail2, Tail2>>,
   <<241 .. 243, Tail2, Tail2, Tail2>>, <<{244}, 128 .. 143, Tail2, Tail2>>}
Reserved(c) ==             \* U+FDD0 .. U+FDEF and the last code point of a plane
  \/ Len(c) = 3 /\ c[1] = 239 /\ c[2] = 183 /\ c[3] \in 144 .. 175
  \/ c = <<239, 191, 191>>
  \/ Len(c) = 4 /\ c[2] % 16 = 15 /\ c[3] = 191 /\ c[4] = 191
RECURSIVE RefUtf8(_)
RefUtf8(s) ==
  \/ s = <<>>
  \/ \E ranges \in Ranges :
       LET n == Len(ranges) IN
       /\ Len(s) >= n /\ \A i \in 1 .. n : s[i] \in ranges[i]
       /\ ~Reserved(SubSeq(s, 1, n))
       /\ RefUtf8(SubSeq(s, n + 1, Len(s)))

(* The complete types of a signature of the grammar in the order they open.*)
RECURSIVE Parts(_)
Parts(s) ==
  IF s = <<>> THEN <<>>
  ELSE LET n == CHOOSE n \in 1 .. Len(s) : Complete(SubSeq(s, 1, n), MaxDepth, MaxDepth, MaxDepth)
           type == SubSeq(s, 1, n)
           inside == CASE type[1] = STRUCT_BEGIN -> Parts(SubSeq(type, 2, n - 1))
                       [] type[1] = ARRAY /\ type[2] = DICT_BEGIN ->
                            <<Tail(type)>> \o Parts(SubSeq(type, 3, n - 1))
                       [] type[1] = ARRAY /\ type[2] # DICT_BEGIN -> Parts(Tail(type))
                       [] OTHER -> <<>>
       IN  <<type>> \o inside \o Parts(SubSeq(s, n + 1, Len(s)))

-----------------------------------------------------------------------------
(* The hand-written walks over object paths, interface, member and bus     *)
(* names accept exactly the strings whose elements are well formed, and    *)
(* the UTF-8 decoder accepts exactly well-formed characters.               *)
NamesExact(s) ==
  /\ dbus_validate_path(s) <=> RefPath(s)
  /\ dbus_validate_interface(s) <=> RefInterface(s)
  /\ dbus_validate_error_name(s) <=> RefInterface(s)
  /\ dbus_validate_member(s) <=> RefMember(s)
  /\ dbus_validate_bus_name(s) <=> RefBusName(s)
  /\ dbus_string_validate_utf8(s) <=> RefUtf8(s)

(* The signature check accepts exactly the grammar of signatures, and the  *)
(* iterator then visits exactly the complete types.                        *)
SignatureExact(s) ==
  /\ dbus_validate_signature(s) <=> Len(s) <= MaxSignature /\ Grammar(s)
  /\ Grammar(s) /\ s # <<>> => Visit(s, dbus_signature_iter_init) = Parts(s)
  /\ Grammar(s) => (dbus_signature_validate_single(s) <=>
                       Len(s) <= MaxSignature /\ Complete(s, MaxDepth, MaxDepth, MaxDepth))

(* The same, for signatures whose brackets are properly nested and whose   *)
(* dict entries do not start with a struct: the walk does not notice the   *)
(* two, since it counts structs and dict entries separately and since the  *)
(* opening bracket of a struct is not a type code.                         *)
NestedSignatureExact(s) == Nested(s, <<>>) /\ ~StructKey(s) => SignatureExact(s)
=============================================================================
