----------------------------- MODULE Marshalling -----------------------------
(***************************************************************************)
(* Reading, writing and editing marshalled values: dbus-marshal-basic.c,   *)
(* dbus-marshal-recursive.c, dbus-marshal-byteswap.c and the body check of *)
(* dbus-marshal-validate.c.                                                *)
(*                                                                         *)
(* The memory M maps the name of a DBusString to its bytes; positions      *)
(* count from 0.  A reader or writer names the string its types come from  *)
(* and the one its values are in: inside a variant these are the same, as  *)
(* in the code.  Every operation that writes returns the memory after it.  *)
(* A word is built octet by octet in its byte order; running out of memory *)
(* is left out here (MessageHeader has it).  M["asserts"] is TRUE while no *)
(* assertion of the writer has failed.                                     *)
(***************************************************************************)
EXTENDS Validation, SequencesExt

LE == 108
BE == 66
Null == "NULL"

ALIGN(p, b) == ((p + b - 1) \div b) * b
Zeros(n) == [i \in 1 .. n |-> 0]
Splice(s, pos, del, ins) == SubSeq(s, 1, pos) \o ins \o SubSeq(s, pos + del + 1, Len(s))
Insert(M, str, pos, bytes) == [M EXCEPT ![str] = Splice(@, pos, 0, bytes)]

(* FoldLeft, where each step is given the value of the one before it: TLC  *)
(* would otherwise evaluate all of them inside one another.                *)
FoldSteps(Op(_, _), base, seq) ==
  FoldLeft(LAMBDA k, x : CHOOSE r \in {Op(value, x) : value \in {k}} : TRUE, base, seq)

dbus_type_get_alignment(t) ==
  CASE t \in {BYTE, VARIANT, SIGNATURE} -> 1
    [] t \in {INT16, UINT16} -> 2
    [] t \in {BOOLEAN_, INT32, UINT32, STRING_, OBJECT_PATH, ARRAY} -> 4
    [] OTHER -> 8

element_type_get_alignment(s, p) == dbus_type_get_alignment(dbus_first_type_in_signature(s, p))

-----------------------------------------------------------------------------
(***************************************************************************)
(* Basic values.  A fixed value is the sequence of its octets, the lowest  *)
(* first, a string its bytes; lengths are numbers below 2^24.              *)
(***************************************************************************)
Ordered(octets, order) == IF order = LE THEN octets ELSE Reverse(octets)
Word(n, width) == [i \in 1 .. width |-> IF i <= 3 THEN (n \div 256 ^ (i - 1)) % 256 ELSE 0]
Pack(n, width, order) == Ordered(Word(n, width), order)

Unpack(s, pos, order) ==
  LET Number(o) == o[1] + 256 * o[2] + 65536 * o[3] + (IF o[4] = 0 THEN 0 ELSE 16777216)  \* more than any length
  IN  Number(Ordered([i \in 1 .. 4 |-> At(s, pos + i - 1)], order))

dbus_marshal_read_uint32(s, pos, order) == Unpack(s, ALIGN(pos, 4), order)

dbus_marshal_set_uint32(M, str, pos, n, order) ==
  [M EXCEPT ![str] = Splice(@, pos, 4, Pack(n, 4, order))]

dbus_marshal_read_basic(s, pos, type, order) ==
  LET a == dbus_type_get_alignment(type)
      start == ALIGN(pos, a)
  IN  CASE dbus_type_is_fixed(type) -> Ordered(SubSeq(s, start + 1, start + a), order)
        [] type = SIGNATURE -> SubSeq(s, pos + 2, pos + 1 + At(s, pos))
        [] OTHER -> SubSeq(s, start + 5, start + 4 + Unpack(s, start, order))

(* set_2_octets, set_4_octets, set_8_octets: the value is overwritten.     *)
dbus_marshal_set_basic(M, str, pos, type, val, order) ==
  LET a == dbus_type_get_alignment(type)
  IN  [M EXCEPT ![str] = Splice(@, ALIGN(pos, a), a, Ordered(val, order))]

(* The length, four octets in the byte order or one octet for a signature, *)
(* the bytes and their nul; a byte array has no nul.                       *)
marshal_len_followed_by_bytes(marshal_as, pos, bytes, order) ==
  (IF marshal_as = "signature" THEN <<Len(bytes)>>
   ELSE Zeros(ALIGN(pos, 4) - pos) \o Pack(Len(bytes), 4, order))
  \o bytes \o (IF marshal_as = "byte array" THEN <<>> ELSE <<0>>)

(* The bytes _dbus_marshal_write_basic inserts at pos.                     *)
BasicBytes(pos, type, val, order) ==
  LET pad == Zeros(ALIGN(pos, dbus_type_get_alignment(type)) - pos)
  IN  CASE type \in {SIGNATURE, STRING_, OBJECT_PATH} ->
             marshal_len_followed_by_bytes(IF type = SIGNATURE THEN "signature" ELSE "string", pos, val, order)
        [] OTHER -> pad \o (IF type = BOOLEAN_ THEN Pack(IF val # Word(0, 4) THEN 1 ELSE 0, 4, order)
                            ELSE Ordered(val, order))

Inserted(M, str, pos, bytes) == [M |-> Insert(M, str, pos, bytes), pos |-> pos + Len(bytes)]

dbus_marshal_write_basic(M, str, pos, type, val, order) == Inserted(M, str, pos, BasicBytes(pos, type, val, order))

(* A block of elements of one fixed type, padded even when it is empty.    *)
dbus_marshal_write_fixed_multi(M, str, pos, type, vals, order) ==
  Inserted(M, str, pos, Zeros(ALIGN(pos, dbus_type_get_alignment(type)) - pos)
                          \o FlattenSeq([i \in 1 .. Len(vals) |-> Ordered(vals[i], order)]))

dbus_marshal_skip_basic(s, type, order, pos) ==
  LET a == dbus_type_get_alignment(type)
      start == ALIGN(pos, a)
  IN  CASE type = BYTE -> pos + 1
        [] type = SIGNATURE -> pos + At(s, pos) + 2
        [] type \in {STRING_, OBJECT_PATH} -> start + 4 + Unpack(s, start, order) + 1
        [] OTHER -> start + a

dbus_marshal_skip_array(s, elem, order, pos) ==
  LET len_pos == ALIGN(pos, 4)
  IN  ALIGN(len_pos + 4, dbus_type_get_alignment(elem)) + Unpack(s, len_pos, order)

-----------------------------------------------------------------------------
(***************************************************************************)
(* Readers.                                                                *)
(***************************************************************************)
dbus_type_reader_init(order, type_str, type_pos, value_str, value_pos) ==
  [klass |-> "body", types_only |-> FALSE, order |-> order, type_str |-> type_str, type_pos |-> type_pos,
   value_str |-> value_str, value_pos |-> value_pos, finished |-> FALSE, start_pos |-> 0, len_offset |-> 0]

dbus_type_reader_init_types_only(type_str, type_pos) ==
  [dbus_type_reader_init(LE, type_str, type_pos, Null, 0) EXCEPT !.types_only = TRUE]

ARRAY_READER_LEN_POS(r) == r.start_pos - r.len_offset - 4
array_reader_get_array_len(M, r) == Unpack(M[r.value_str], ARRAY_READER_LEN_POS(r), r.order)
ArrayEnd(M, r) == r.start_pos + array_reader_get_array_len(M, r)

array_reader_check_finished(M, r) == r.value_pos = ArrayEnd(M, r)

dbus_type_reader_get_current_type(M, r) ==
  IF r.finished \/ (r.klass = "array" /\ ~r.types_only /\ array_reader_check_finished(M, r)) THEN INVALID
  ELSE dbus_first_type_in_signature(M[r.type_str], r.type_pos)

dbus_type_reader_get_element_type(M, r) == dbus_first_type_in_signature(M[r.type_str], r.type_pos + 1)

struct_or_dict_entry_reader_recurse(r) ==
  [r EXCEPT !.type_pos = @ + 1, !.value_pos = IF r.types_only THEN @ ELSE ALIGN(@, 8), !.finished = FALSE]

array_reader_recurse(M, r) ==
  LET len_pos == ALIGN(r.value_pos, 4)
      start == ALIGN(len_pos + 4, element_type_get_alignment(M[r.type_str], r.type_pos + 1))
      sub == [r EXCEPT !.type_pos = @ + 1, !.finished = FALSE]
  IN  IF r.types_only THEN sub
      ELSE [sub EXCEPT !.value_pos = start, !.start_pos = start, !.len_offset = start - (len_pos + 4)]

variant_reader_recurse(M, r) ==
  LET values == M[r.value_str]
      types == r.value_pos + 1
      after == types + At(values, r.value_pos) + 1
  IN  [r EXCEPT !.type_str = r.value_str, !.type_pos = types, !.finished = FALSE,
                !.value_pos = ALIGN(after, element_type_get_alignment(values, types))]

dbus_type_reader_recurse(M, r) ==
  LET t == dbus_first_type_in_signature(M[r.type_str], r.type_pos) IN
  CASE t = STRUCT -> [struct_or_dict_entry_reader_recurse(r) EXCEPT !.klass = "struct"]
    [] t = DICT_ENTRY -> [struct_or_dict_entry_reader_recurse(r) EXCEPT !.klass = "dict_entry"]
    [] t = ARRAY -> [array_reader_recurse(M, r) EXCEPT !.klass = "array"]
    [] t = VARIANT -> [variant_reader_recurse(M, r) EXCEPT !.klass = "variant"]

dbus_type_reader_get_signature(M, r) ==
  SubSeq(M[r.type_str], r.type_pos + 1, dbus_type_signature_next(M[r.type_str], r.type_pos))

dbus_type_reader_read_basic(M, r) ==
  dbus_marshal_read_basic(M[r.value_str], r.value_pos, dbus_type_reader_get_current_type(M, r), r.order)

(* What is left of an array of fixed elements, as a block.                 *)
dbus_type_reader_read_fixed_multi(M, r) ==
  LET a == element_type_get_alignment(M[r.type_str], r.type_pos)
      left == IF array_reader_get_array_len(M, r) = 0 THEN 0 ELSE ArrayEnd(M, r) - r.value_pos
  IN  [i \in 1 .. left \div a |->
         Ordered(SubSeq(M[r.value_str], r.value_pos + a * (i - 1) + 1, r.value_pos + a * i), r.order)]

RECURSIVE dbus_type_reader_next(_, _)

(* The reader at the end of its container.                                 *)
RECURSIVE SkipAll(_, _)
SkipAll(M, r) == IF dbus_type_reader_get_current_type(M, r) = INVALID THEN r
                 ELSE SkipAll(M, dbus_type_reader_next(M, r))

base_reader_next(M, r, t) ==
  LET ValueAt(pos, type_pos) == [r EXCEPT !.value_pos = IF r.types_only THEN @ ELSE pos, !.type_pos = type_pos]
      Past(end) == ValueAt(end.value_pos, IF t = VARIANT THEN r.type_pos + 1 ELSE end.type_pos)
  IN  CASE t \in {STRUCT, DICT_ENTRY, VARIANT} -> Past(SkipAll(M, dbus_type_reader_recurse(M, r)))
        [] t = ARRAY ->
             ValueAt(dbus_marshal_skip_array(M[r.value_str], dbus_type_reader_get_element_type(M, r), r.order, r.value_pos),
                     dbus_type_signature_next(M[r.type_str], r.type_pos))
        [] OTHER -> ValueAt(dbus_marshal_skip_basic(M[r.value_str], t, r.order, r.value_pos), r.type_pos + 1)

(* struct_reader_next and dict_entry_reader_next, after base_reader_next:  *)
(* the end bracket is stepped over and the reader is finished.             *)
struct_reader_next(M, n) ==
  IF (n.klass = "struct" \/ n.klass = "dict_entry")
     /\ At(M[n.type_str], n.type_pos) = (IF n.klass = "struct" THEN STRUCT_END ELSE DICT_END)
  THEN [n EXCEPT !.type_pos = @ + 1, !.finished = TRUE] ELSE n

array_reader_next(M, r, t) ==
  LET To(pos) == [r EXCEPT !.value_pos = pos, !.type_pos = IF pos = ArrayEnd(M, r)
                                                           THEN dbus_type_signature_next(M[r.type_str], @) ELSE @]
  IN  To(CASE t \in {STRUCT, DICT_ENTRY, VARIANT} -> SkipAll(M, dbus_type_reader_recurse(M, r)).value_pos
           [] t = ARRAY -> dbus_marshal_skip_array(M[r.value_str],
                             dbus_type_reader_get_element_type(M, r), r.order, r.value_pos)
           [] OTHER -> dbus_marshal_skip_basic(M[r.value_str], t, r.order, r.value_pos))

ReaderNext(M, r, t) ==
  CASE t = INVALID -> r
    [] t # INVALID /\ r.klass = "array" ->
         IF r.types_only THEN [r EXCEPT !.finished = TRUE] ELSE array_reader_next(M, r, t)
    [] OTHER -> struct_reader_next(M, base_reader_next(M, r, t))

dbus_type_reader_next(M, r) == ReaderNext(M, r, dbus_type_reader_get_current_type(M, r))

-----------------------------------------------------------------------------
(***************************************************************************)
(* Writers.  An operation returns the memory, the writer and, when it      *)
(* recursed, the writer for the container's contents.                      *)
(***************************************************************************)
dbus_type_writer_init(order, type_str, type_pos, value_str, value_pos) ==
  [order |-> order, type_str |-> type_str, type_pos |-> type_pos, value_str |-> value_str,
   value_pos |-> value_pos, container_type |-> INVALID, expects |-> FALSE, enabled |-> TRUE,
   len_pos |-> -1, start_pos |-> 0]

(* The types are added and taken away again while values are appended.     *)
dbus_type_writer_init_types_delayed(order, value_str, value_pos) ==
  dbus_type_writer_init(order, Null, 0, value_str, value_pos)

dbus_type_writer_add_types(w, type_str, type_pos) == [w EXCEPT !.type_str = type_str, !.type_pos = type_pos]
dbus_type_writer_remove_types(w) == [w EXCEPT !.type_str = Null, !.type_pos = -1]

dbus_type_writer_init_values_only(order, type_str, type_pos, value_str, value_pos) ==
  [dbus_type_writer_init(order, type_str, type_pos, value_str, value_pos) EXCEPT !.expects = TRUE]

Asserting(M, b) == [M EXCEPT !["asserts"] = @ /\ b]

(* A writer with an expected type checks the code and moves on, unless it  *)
(* is directly inside an array; the others insert it.                      *)
write_or_verify_typecode(M, w, code) ==
  IF w.type_str = Null THEN [M |-> M, w |-> w]
  ELSE IF w.expects
  THEN [M |-> Asserting(M, At(M[w.type_str], w.type_pos) = code),
        w |-> IF w.container_type = ARRAY THEN w ELSE [w EXCEPT !.type_pos = @ + 1]]
  ELSE [M |-> Insert(M, w.type_str, w.type_pos, <<code>>), w |-> [w EXCEPT !.type_pos = @ + 1]]

dbus_type_writer_write_basic(M, w, type, val) ==
  LET Typed(put) == write_or_verify_typecode(put.M, [w EXCEPT !.value_pos = put.pos], type)
  IN  Typed(IF w.enabled THEN dbus_marshal_write_basic(M, w.value_str, w.value_pos, type, val, w.order)
            ELSE [M |-> M, pos |-> w.value_pos])

dbus_type_writer_write_fixed_multi(M, w, type, vals) ==
  LET Moved(x, put) == [M |-> put.M, w |-> [x EXCEPT !.value_pos = put.pos]]
      Values(typed) ==
        IF w.enabled
        THEN Moved(typed.w, dbus_marshal_write_fixed_multi(typed.M, w.value_str, w.value_pos, type, vals, w.order))
        ELSE typed
  IN  Values(write_or_verify_typecode(M, w, type))

writer_recurse_init_and_check(w, container) ==
  [w EXCEPT !.container_type = container, !.expects = w.expects \/ container \in {ARRAY, VARIANT},
            !.len_pos = -1, !.start_pos = 0]

writer_recurse_struct_or_dict_entry(M, w, begin_char, sub) ==
  LET aligned == ALIGN(sub.value_pos, 8)
      Begun(typed) ==
        IF w.enabled
        THEN [M |-> Insert(typed.M, sub.value_str, sub.value_pos, Zeros(aligned - sub.value_pos)),
              w |-> w, sub |-> [typed.w EXCEPT !.value_pos = aligned]]
        ELSE [M |-> typed.M, w |-> w, sub |-> typed.w]
  IN  Begun(write_or_verify_typecode(M, sub, begin_char))

(* The length is written as 0 and filled in on the way out; an append      *)
(* jumps over the elements that are there.                                 *)
writer_recurse_array(M, w, contained, sub, is_append) ==
  LET typed == w.type_str # Null
      M1 == IF w.expects THEN M ELSE Insert(M, w.type_str, w.type_pos, <<ARRAY>> \o contained)
      w1 == IF typed /\ w.container_type # ARRAY THEN [w EXCEPT !.type_pos = @ + 1 + Len(contained)] ELSE w
      sub1 == IF typed THEN [sub EXCEPT !.type_pos = @ + 1] ELSE sub
      len_pos == ALIGN(sub.value_pos, 4)
      start == ALIGN(len_pos + 4, element_type_get_alignment(contained, 0))
  IN  IF ~w.enabled THEN [M |-> M1, w |-> w1, sub |-> [sub1 EXCEPT !.start_pos = sub.value_pos]]
      ELSE [M |-> IF is_append THEN Asserting(M1, len_pos = sub.value_pos)
                  ELSE Insert(M1, sub.value_str, sub.value_pos, Zeros(start - sub.value_pos)),
            w |-> w1,
            sub |-> [sub1 EXCEPT !.len_pos = len_pos, !.start_pos = start,
                       !.value_pos = IF is_append THEN start + Unpack(M[sub.value_str], len_pos, sub.order)
                                     ELSE start]]

writer_recurse_variant(M, w, contained, sub) ==
  LET types == sub.value_pos + 1
      after == types + Len(contained) + 1
      start == ALIGN(after, element_type_get_alignment(contained, 0))
      Begun(typed) ==
        IF ~w.enabled
        THEN [M |-> typed.M, w |-> typed.w, sub |-> [sub EXCEPT !.type_str = Null, !.type_pos = -1]]
        ELSE [M |-> Insert(typed.M, sub.value_str, sub.value_pos,
                           <<Len(contained)>> \o contained \o <<0>> \o Zeros(start - after)),
              w |-> typed.w,
              sub |-> [sub EXCEPT !.type_str = sub.value_str, !.type_pos = types, !.value_pos = start]]
  IN  Begun(write_or_verify_typecode(M, w, VARIANT))

(* The parent's expected type is checked against the container's.          *)
dbus_type_writer_recurse_contained_len(M, w, container, contained, is_append) ==
  LET sub == writer_recurse_init_and_check(w, container)
      M1 == IF w.expects /\ w.type_str # Null
            THEN Asserting(M, dbus_first_type_in_signature(M[w.type_str], w.type_pos) = container) ELSE M
  IN  CASE container \in {STRUCT, DICT_ENTRY} ->
             writer_recurse_struct_or_dict_entry(M1, w, IF container = STRUCT THEN STRUCT_BEGIN ELSE DICT_BEGIN, sub)
        [] container = ARRAY -> writer_recurse_array(M1, w, contained, sub, is_append)
        [] container = VARIANT -> writer_recurse_variant(M1, w, contained, sub)

dbus_type_writer_recurse(M, w, container, contained) ==
  dbus_type_writer_recurse_contained_len(M, w, container, contained, FALSE)

dbus_type_writer_append_array(M, w, contained) ==
  dbus_type_writer_recurse_contained_len(M, w, ARRAY, contained, TRUE)

writer_get_array_len(w) == w.value_pos - w.start_pos

dbus_type_writer_unrecurse(M, w, sub) ==
  LET follows == /\ w.type_str # Null
                 /\ sub.container_type \in {STRUCT, DICT_ENTRY}
                 /\ w.container_type \in {STRUCT, DICT_ENTRY, INVALID}
      Closed(k) == [M |-> k.M, w |-> [w EXCEPT !.value_pos = sub.value_pos,
                                               !.type_pos = IF follows THEN k.w.type_pos ELSE @]]
  IN  Closed(CASE sub.container_type \in {STRUCT, DICT_ENTRY} ->
                    write_or_verify_typecode(M, sub, IF sub.container_type = STRUCT THEN STRUCT_END ELSE DICT_END)
               [] sub.container_type = ARRAY /\ sub.len_pos >= 0 ->
                    [M |-> dbus_marshal_set_uint32(M, sub.value_str, sub.len_pos,
                                                   writer_get_array_len(sub), sub.order), w |-> sub]
               [] OTHER -> [M |-> M, w |-> sub])

-----------------------------------------------------------------------------
(***************************************************************************)
(* Editing a value in place.  What follows the edited value up to the end  *)
(* of the realign root is written again behind the new value, since its    *)
(* padding may change, and the lengths of the arrays around the edited     *)
(* value are fixed up.  A writer that is not enabled only follows.         *)
(***************************************************************************)
None == [value_pos |-> -1, type_str |-> Null, type_pos |-> -1]

dbus_type_reader_greater_than(lhs, rhs) == lhs.value_pos > rhs.value_pos

(* What a copy leaves out: the value at after, which is new_len long now;  *)
(* inside it nothing is enabled.  With after = None everything is copied.  *)
From(after, new_len) == [after |-> after, new_len |-> new_len, inside |-> FALSE]

Within(e, r) ==
  [e EXCEPT !.inside = @ \/ /\ e.after # None /\ r.value_pos = e.after.value_pos
                            /\ r.type_str = e.after.type_str /\ r.type_pos = e.after.type_pos]

enable_if_after(w, r, e) ==
  IF e.after # None /\ ~e.inside /\ ~w.enabled /\ dbus_type_reader_greater_than(r, e.after)
  THEN [w EXCEPT !.enabled = TRUE] ELSE w

(* A mutant: a change of length does not reach the arrays around it.       *)
NoFixup(M, inner, sub, e, was_enabled, is_enabled) == <<>>

(* The new length of an array the edited value is in.                      *)
Fixup(M, inner, sub, e, was_enabled, is_enabled) ==
  LET len == (e.after.value_pos - inner.start_pos) + e.new_len + writer_get_array_len(sub)
  IN  IF /\ e.after # None /\ inner.klass = "array" /\ ~was_enabled /\ is_enabled
         /\ len # array_reader_get_array_len(M, inner)
      THEN <<[len_pos |-> ARRAY_READER_LEN_POS(inner), new_len |-> len]>> ELSE <<>>

RECURSIVE writer_write_reader_helper(_, _, _, _, _)

(* The value of r was copied; rec is what recursing into a container gave, *)
(* body what copying its contents gave, w1 the writer before.              *)
CopyFurther(M, r, e, put, fixups) == writer_write_reader_helper(put.M, put.w, dbus_type_reader_next(M, r), e, fixups)

CopyUnrecurse(M, r, e, inner, w1, w2, body) ==
  CopyFurther(M, r, e, dbus_type_writer_unrecurse(body.M, w2, body.w),
              body.fixups \o Fixup(M, inner, body.w, e, w1.enabled, w2.enabled))

CopyFilled(M, r, e, inner, w1, rec, body) ==
  CopyUnrecurse(M, r, e, inner, w1, enable_if_after(rec.w, body.r, Within(e, r)), body)

CopyContents(M, r, e, fixups, inner, w1, rec) ==
  CopyFilled(M, r, e, inner, w1, rec, writer_write_reader_helper(rec.M, rec.sub, inner, Within(e, r), fixups))

CopyContainer(M, r, e, fixups, t, inner, w1) ==
  CopyContents(M, r, e, fixups, inner, w1,
    dbus_type_writer_recurse_contained_len(M, w1, t, dbus_type_reader_get_signature(M, inner), FALSE))

CopyInto(M, w, r, e, fixups, t, inner) == CopyContainer(M, r, e, fixups, t, inner, enable_if_after(w, inner, Within(e, r)))

CopyValue(M, w, r, e, fixups, t) ==
  CASE t = INVALID -> [M |-> M, w |-> w, r |-> r, fixups |-> fixups]
    [] dbus_type_is_container(t) -> CopyInto(M, w, r, e, fixups, t, dbus_type_reader_recurse(M, r))
    [] OTHER -> CopyFurther(M, r, e, dbus_type_writer_write_basic(M, enable_if_after(w, r, e), t,
                                                                 dbus_type_reader_read_basic(M, r)), fixups)

writer_write_reader_helper(M, w, r, e, fixups) ==
  CopyValue(M, w, r, e, fixups, dbus_type_reader_get_current_type(M, r))

dbus_type_writer_write_reader_partial(M, w, r, after, new_len) ==
  [writer_write_reader_helper(M, [w EXCEPT !.enabled = @ /\ after = None], r, From(after, new_len), <<>>)
     EXCEPT !.w.enabled = w.enabled]

dbus_type_writer_write_reader(M, w, r) == dbus_type_writer_write_reader_partial(M, w, r, None, 0)

apply_fixups(M, str, fixups, order) ==
  FoldLeft(LAMBDA m, f : dbus_marshal_set_uint32(m, str, f.len_pos, f.new_len, order), M, fixups)

replacement_block_init(M, r) == [M EXCEPT !["block"] = Zeros(r.value_pos % 8)]

BlockMoved(r, copied, block) ==
  apply_fixups([copied.M EXCEPT ![r.value_str] =
                  Splice(@, r.value_pos, copied.r.value_pos - r.value_pos,
                         SubSeq(block, (r.value_pos % 8) + 1, Len(block)))],
               r.value_str, copied.fixups, r.order)

CopiedBlock(r, copied) == BlockMoved(r, copied, copied.M["block"])

replacement_block_replace(M, r, root) ==
  CopiedBlock(r, dbus_type_writer_write_reader_partial(M,
    dbus_type_writer_init_values_only(root.order, root.type_str, root.type_pos, "block", Len(M["block"])),
    root, r, Len(M["block"]) - (r.value_pos % 8)))

reader_set_basic_variable_length(M, r, t, val, root) ==
  LET M1 == replacement_block_init(M, r)
  IN  replacement_block_replace(dbus_marshal_write_basic(M1, "block", Len(M1["block"]), t, val, r.order).M, r, root)

dbus_type_reader_set_basic(M, r, val, root) ==
  LET t == dbus_type_reader_get_current_type(M, r) IN
  IF dbus_type_is_fixed(t) THEN dbus_marshal_set_basic(M, r.value_str, r.value_pos, t, val, r.order)
  ELSE reader_set_basic_variable_length(M, r, t, val, root)

dbus_type_reader_delete(M, r, root) == replacement_block_replace(replacement_block_init(M, r), r, root)

-----------------------------------------------------------------------------
(***************************************************************************)
(* Checking a body against its signature.  The reader sees types only; p   *)
(* walks the bytes s up to end.  "sig" is the signature of a variant.      *)
(***************************************************************************)
Fail(v, p) == [v |-> v, p |-> p]

NotNul(s, p, a) == \E q \in p .. a - 1 : At(s, q) # 0

CheckFixed(s, t, order, p, end) ==
  LET a == ALIGN(p, dbus_type_get_alignment(t)) IN
  IF a >= end THEN Fail("NOT_ENOUGH_DATA", p)
  ELSE IF NotNul(s, p, a) THEN Fail("ALIGNMENT_PADDING_NOT_NUL", p)
  ELSE IF t = BOOLEAN_ /\ Unpack(s, a, order) \notin {0, 1} THEN Fail("BOOLEAN_NOT_ZERO_OR_ONE", p)
  ELSE Fail("VALID", a + dbus_type_get_alignment(t))

(* The length word of a string, an object path or an array, and the        *)
(* padding behind it.  p is where the contents start.                      *)
CheckLength(s, t, elem, order, p, end) ==
  LET a == ALIGN(p, 4)
      start == IF t = ARRAY THEN ALIGN(a + 4, dbus_type_get_alignment(elem)) ELSE a + 4
      Length(len) ==
        [p |-> start, len |-> len,
         v |-> IF a + 4 > end THEN "NOT_ENOUGH_DATA"
               ELSE IF NotNul(s, p, a) THEN "ALIGNMENT_PADDING_NOT_NUL"
               ELSE IF start > end THEN "NOT_ENOUGH_DATA"
               ELSE IF NotNul(s, a + 4, start) THEN "ALIGNMENT_PADDING_NOT_NUL"
               ELSE IF len > end - start THEN "LENGTH_OUT_OF_BOUNDS" ELSE "VALID"]
  IN  Length(Unpack(s, a, order))

CheckString(s, t, order, p, end) ==
  LET Text(text, nul) ==
        IF t = OBJECT_PATH /\ ~dbus_validate_path(text) THEN Fail("BAD_PATH", p)
        ELSE IF t = STRING_ /\ ~dbus_string_validate_utf8(text) THEN Fail("BAD_UTF8_IN_STRING", p)
        ELSE IF nul = end THEN Fail("NOT_ENOUGH_DATA", p)
        ELSE IF At(s, nul) # 0 THEN Fail("STRING_MISSING_NUL", p)
        ELSE Fail("VALID", nul + 1)
      Length(l) == IF l.v # "VALID" THEN Fail(l.v, p) ELSE Text(SubSeq(s, l.p + 1, l.p + l.len), l.p + l.len)
  IN  Length(CheckLength(s, t, BYTE, order, p, end))

(* A signature and its nul, or the one of a variant.                       *)
CheckSignature(s, p, end, variant) ==
  LET len == At(s, p)
      sig == SubSeq(s, p + 2, p + 1 + len)
  IN  IF len + 1 > end - (p + 1) THEN Fail("SIGNATURE_LENGTH_OUT_OF_BOUNDS", p)
      ELSE IF ~dbus_validate_signature(sig)
      THEN Fail(IF variant THEN "VARIANT_SIGNATURE_BAD" ELSE dbus_validate_signature_with_reason(sig), p)
      ELSE IF At(s, p + 1 + len) # 0 THEN Fail("SIGNATURE_MISSING_NUL", p)
      ELSE Fail("VALID", p + len + 2)

RECURSIVE validate_body_helper(_, _, _, _, _, _, _)

(* Elements up to the end of the array, by the same reader.                *)
RECURSIVE CheckElements(_, _, _, _, _, _, _)
CheckElements(M, sub, order, s, one, array_end, end) ==
  IF one.v # "VALID" THEN one
  ELSE IF one.p >= array_end THEN Fail(IF one.p = array_end THEN "VALID" ELSE "ARRAY_LENGTH_INCORRECT", one.p)
  ELSE CheckElements(M, sub, order, s, validate_body_helper(M, sub, order, FALSE, s, one.p, end), array_end, end)

CheckArray(M, r, elem, order, s, p, end, l) ==
  LET stop == l.p + l.len IN
  CASE l.v # "VALID" -> Fail(l.v, p)
    [] l.v = "VALID" /\ elem = BOOLEAN_ ->
         IF \E q \in l.p .. stop - 1 : (q - l.p) % 4 = 0 /\ Unpack(s, q, order) \notin {0, 1}
         THEN Fail("BOOLEAN_NOT_ZERO_OR_ONE", p)
         ELSE Fail(IF l.len % 4 # 0 THEN "ARRAY_LENGTH_INCORRECT" ELSE "VALID", stop)
    [] l.v = "VALID" /\ elem # BOOLEAN_ ->
         IF dbus_type_is_fixed(elem) THEN Fail("VALID", stop)
         ELSE CheckElements(M, dbus_type_reader_recurse(M, r), order, s, Fail("VALID", l.p), stop, end)

CheckSingle(N, sub, p, body) ==
  IF body.v = "VALID" /\ dbus_type_reader_get_current_type(N, dbus_type_reader_next(N, sub)) # INVALID
  THEN Fail("VARIANT_SIGNATURE_SPECIFIES_MULTIPLE_VALUES", p) ELSE body

CheckContents(N, sub, order, s, p, start, end) ==
  CheckSingle(N, sub, p, validate_body_helper(N, sub, order, FALSE, s, start, end))

CheckVariant(M, order, s, p, end, c, sig) ==
  LET start == ALIGN(c.p, element_type_get_alignment(sig, 0))
  IN  IF c.v # "VALID" THEN c
      ELSE IF sig = <<>> THEN Fail("VARIANT_SIGNATURE_EMPTY", p)
      ELSE IF start > end THEN Fail("NOT_ENOUGH_DATA", p)
      ELSE IF NotNul(s, c.p, start) THEN Fail("ALIGNMENT_PADDING_NOT_NUL", p)
      ELSE CheckContents([M EXCEPT !["sig"] = sig], dbus_type_reader_init_types_only("sig", 0), order, s, p, start, end)

CheckStruct(M, r, order, s, p, end) ==
  LET a == ALIGN(p, 8) IN
  IF a > end THEN Fail("NOT_ENOUGH_DATA", p)
  ELSE IF NotNul(s, p, a) THEN Fail("ALIGNMENT_PADDING_NOT_NUL", p)
  ELSE validate_body_helper(M, dbus_type_reader_recurse(M, r), order, TRUE, s, a, end)

CheckValue(M, r, t, elem, order, s, p, end) ==
  CASE t = BYTE -> Fail("VALID", p + 1)
    [] t # BYTE /\ dbus_type_is_fixed(t) -> CheckFixed(s, t, order, p, end)
    [] t \in {STRING_, OBJECT_PATH} -> CheckString(s, t, order, p, end)
    [] t = ARRAY -> CheckArray(M, r, elem, order, s, p, end, CheckLength(s, ARRAY, elem, order, p, end))
    [] t = SIGNATURE -> CheckSignature(s, p, end, FALSE)
    [] t = VARIANT -> CheckVariant(M, order, s, p, end, CheckSignature(s, p, end, TRUE),
                                   SubSeq(s, p + 2, p + 1 + At(s, p)))
    [] t \in {STRUCT, DICT_ENTRY} -> CheckStruct(M, r, order, s, p, end)

CheckFurther(M, r, order, walk, s, p, end, one) ==
  IF one.v # "VALID" THEN one
  ELSE IF one.p > end THEN Fail("NOT_ENOUGH_DATA", p)
  ELSE IF ~walk THEN one
  ELSE validate_body_helper(M, dbus_type_reader_next(M, r), order, walk, s, one.p, end)

validate_body_helper(M, r, order, walk, s, p, end) ==
  LET t == dbus_type_reader_get_current_type(M, r) IN
  IF t = INVALID THEN Fail("VALID", p)
  ELSE IF p = end THEN Fail("NOT_ENOUGH_DATA", p)
  ELSE CheckFurther(M, r, order, walk, s, p, end,
                    CheckValue(M, r, t, dbus_type_reader_get_element_type(M, r), order, s, p, end))

(* With `remaining' the caller takes what is left over.                    *)
dbus_validate_body_with_reason(types, order, s, remaining) ==
  LET Whole(body) ==
        IF body.v = "VALID" /\ ~remaining /\ body.p < Len(s) THEN Fail("TOO_MUCH_DATA", body.p) ELSE body
  IN  Whole(validate_body_helper([types |-> types, sig |-> <<>>], dbus_type_reader_init_types_only("types", 0),
                                 order, TRUE, s, 0, Len(s)))

-----------------------------------------------------------------------------
(***************************************************************************)
(* Changing the byte order: every word is reversed in place.               *)
(***************************************************************************)
Swap(s, p, width) == Splice(s, p, width, Reverse(SubSeq(s, p + 1, p + width)))

RECURSIVE dbus_swap_array(_, _, _, _)
dbus_swap_array(s, p, n, width) ==
  IF n = 0 THEN s ELSE dbus_swap_array(Swap(s, p, width), p + width, n - 1, width)

RECURSIVE byteswap_body_helper(_, _, _, _, _, _)

RECURSIVE SwapElements(_, _, _, _, _)
SwapElements(M, sub, old, k, array_end) ==
  IF k.p >= array_end THEN k
  ELSE SwapElements(M, sub, old, byteswap_body_helper(M, sub, old, FALSE, k.s, k.p), array_end)

Swapped(s, a, width) == [s |-> Swap(s, a, width), p |-> a + width]

(* Behind the length, which is swapped already.                            *)
SwapCounted(M, r, t, elem, old, k, len) ==
  LET width == dbus_type_get_alignment(elem)
      start == ALIGN(k.p, width)
  IN  CASE t # ARRAY -> [k EXCEPT !.p = @ + len + 1]
        [] t = ARRAY /\ dbus_type_is_fixed(elem) ->
             [s |-> dbus_swap_array(k.s, start, len \div width, width), p |-> start + len]
        [] OTHER -> SwapElements(M, dbus_type_reader_recurse(M, r), old, [k EXCEPT !.p = start], start + len)

SwapVariant(M, old, s, p, sig) ==
  byteswap_body_helper([M EXCEPT !["sig"] = sig], dbus_type_reader_init_types_only("sig", 0), old, FALSE, s,
                       ALIGN(p + Len(sig) + 2, element_type_get_alignment(sig, 0)))

SwapValue(M, r, t, old, s, p, a) ==
  CASE t = BYTE -> [s |-> s, p |-> p + 1]
    [] t # BYTE /\ dbus_type_is_fixed(t) -> Swapped(s, a, dbus_type_get_alignment(t))
    [] t \in {STRING_, OBJECT_PATH, ARRAY} ->
         SwapCounted(M, r, t, dbus_type_reader_get_element_type(M, r), old, Swapped(s, a, 4), Unpack(s, a, old))
    [] t = SIGNATURE -> [s |-> s, p |-> p + At(s, p) + 2]
    [] t = VARIANT -> SwapVariant(M, old, s, p, SubSeq(s, p + 2, p + 1 + At(s, p)))
    [] t \in {STRUCT, DICT_ENTRY} -> byteswap_body_helper(M, dbus_type_reader_recurse(M, r), old, TRUE, s, a)

byteswap_body_helper(M, r, old, walk, s, p) ==
  LET t == dbus_type_reader_get_current_type(M, r)
      Further(one) == IF ~walk THEN one
                      ELSE byteswap_body_helper(M, dbus_type_reader_next(M, r), old, walk, one.s, one.p)
  IN  IF t = INVALID THEN [s |-> s, p |-> p]
      ELSE Further(SwapValue(M, r, t, old, s, p, ALIGN(p, dbus_type_get_alignment(t))))

dbus_marshal_byteswap(types, old, new, s) ==
  IF old = new THEN s
  ELSE byteswap_body_helper([types |-> types, sig |-> <<>>], dbus_type_reader_init_types_only("types", 0),
                            old, TRUE, s, 0).s

-----------------------------------------------------------------------------
(***************************************************************************)
(* Reference definitions.  A value is a tree: the octets of a number or of *)
(* a string for a basic type, a sequence of values for a struct, a dict    *)
(* entry or an array (whose element signature is elem), a value for a      *)
(* variant.  Its encoding depends on where it starts only through the      *)
(* padding.                                                                *)
(***************************************************************************)
RECURSIVE Sig(_)
Sig(v) ==
  CASE v.t = STRUCT -> <<STRUCT_BEGIN>> \o FlattenSeq([i \in DOMAIN v.v |-> Sig(v.v[i])]) \o <<STRUCT_END>>
    [] v.t = DICT_ENTRY -> <<DICT_BEGIN>> \o FlattenSeq([i \in DOMAIN v.v |-> Sig(v.v[i])]) \o <<DICT_END>>
    [] v.t = ARRAY -> <<ARRAY>> \o v.elem
    [] OTHER -> <<v.t>>

BodySig(vs) == FlattenSeq([i \in DOMAIN vs |-> Sig(vs[i])])

RECURSIVE Encode(_, _, _)
Encode(v, pos, order) ==
  LET Pad(p, a) == Zeros((a - (p % a)) % a)
      RECURSIVE All(_, _)
      All(vs, p) == IF vs = <<>> THEN <<>>
                    ELSE LET b == Encode(Head(vs), p, order) IN b \o All(Tail(vs), p + Len(b))
      pad == Pad(pos, dbus_type_get_alignment(v.t))
      start == pos + Len(pad)
  IN  pad \o
      CASE dbus_type_is_fixed(v.t) -> Ordered(v.v, order)
        [] v.t \in {STRING_, OBJECT_PATH} -> Pack(Len(v.v), 4, order) \o v.v \o <<0>>
        [] v.t = SIGNATURE -> <<Len(v.v)>> \o v.v \o <<0>>
        [] v.t \in {STRUCT, DICT_ENTRY} -> All(v.v, start)
        [] v.t = ARRAY ->
             LET gap == Pad(start + 4, element_type_get_alignment(v.elem, 0))
                 body == All(v.v, start + 4 + Len(gap))
             IN  Pack(Len(body), 4, order) \o gap \o body
        [] v.t = VARIANT ->
             LET head == <<Len(Sig(v.v))>> \o Sig(v.v) \o <<0>>
             IN  head \o Encode(v.v, start + Len(head), order)

EncodeBody(vs, order) ==
  FoldLeft(LAMBDA b, v : b \o Encode(v, Len(b), order), <<>>, vs)

(* What an application does with a writer and with a reader.               *)
RECURSIVE Write(_, _, _)
Write(M, w, v) ==
  LET kids == IF v.t = VARIANT THEN <<v.v>> ELSE v.v
      contained == CASE v.t = VARIANT -> Sig(v.v) [] v.t = ARRAY -> v.elem [] OTHER -> <<>>
      Closed(rec, body) == dbus_type_writer_unrecurse(body.M, rec.w, body.w)
      Opened(rec) ==
        Closed(rec, IF v.t = ARRAY /\ dbus_type_is_fixed(v.elem[1])
                    THEN dbus_type_writer_write_fixed_multi(rec.M, rec.sub, v.elem[1], [i \in DOMAIN kids |-> kids[i].v])
                    ELSE FoldSteps(LAMBDA k, x : Write(k.M, k.w, x), [M |-> rec.M, w |-> rec.sub], kids))
  IN  IF dbus_type_is_container(v.t) THEN Opened(dbus_type_writer_recurse(M, w, v.t, contained))
      ELSE dbus_type_writer_write_basic(M, w, v.t, v.v)

RECURSIVE Read(_, _)
Read(M, r) ==
  LET Value(t, sub) ==
        CASE ~dbus_type_is_container(t) -> [t |-> t, v |-> dbus_type_reader_read_basic(M, r)]
          [] t = VARIANT -> [t |-> t, v |-> Head(Read(M, sub))]
          [] t = ARRAY -> [t |-> t, v |-> Read(M, sub), elem |-> dbus_type_reader_get_signature(M, sub)]
          [] OTHER -> [t |-> t, v |-> Read(M, sub)]
      Values(t) == IF t = INVALID THEN <<>>
                   ELSE <<Value(t, dbus_type_reader_recurse(M, r))>> \o Read(M, dbus_type_reader_next(M, r))
  IN  Values(dbus_type_reader_get_current_type(M, r))

Memory(types, values) == [types |-> types, values |-> values, block |-> <<>>, sig |-> <<>>, asserts |-> TRUE]
BodyReader(order) == dbus_type_reader_init(order, "types", 0, "values", 0)

(* The paths to the basic values of a body, and to the elements of its     *)
(* arrays; the reader at a path; the body with what is there replaced.     *)
RECURSIVE Places(_, _)
Places(vs, array) ==
  UNION {LET v == vs[i]
             kids == CASE ~dbus_type_is_container(v.t) -> {} [] v.t = VARIANT -> Places(<<v.v>>, FALSE)
                       [] OTHER -> Places(v.v, v.t = ARRAY)
         IN  {[path |-> <<i>> \o k.path, t |-> k.t, element |-> k.element] : k \in kids}
               \cup {[path |-> <<i>>, t |-> v.t, element |-> array]} : i \in DOMAIN vs}

RECURSIVE ReaderAt(_, _, _)
ReaderAt(M, r, path) ==
  IF Head(path) > 1 THEN ReaderAt(M, dbus_type_reader_next(M, r), <<Head(path) - 1>> \o Tail(path))
  ELSE IF Len(path) = 1 THEN r
  ELSE ReaderAt(M, dbus_type_reader_recurse(M, r), Tail(path))

RECURSIVE Edited(_, _, _)
Edited(vs, path, ins) ==
  LET i == Head(path) IN
  IF Len(path) = 1 THEN SubSeq(vs, 1, i - 1) \o ins \o SubSeq(vs, i + 1, Len(vs))
  ELSE IF vs[i].t = VARIANT THEN [vs EXCEPT ![i].v = Edited(<<@>>, Tail(path), ins)[1]]
  ELSE [vs EXCEPT ![i].v = Edited(@, Tail(path), ins)]

-----------------------------------------------------------------------------
(* What the writer makes of a body is its encoding, with no assertion of   *)
(* the writer failing; the reader gets the same body back, copying it from *)
(* reader to writer repeats it, and swapping the byte order gives the      *)
(* encoding in the other order.                                            *)
Marshalled(vs) ==
  \A order \in {LE, BE} :
    LET w0 == dbus_type_writer_init(order, "types", 0, "values", 0)
        Right(M, copy) ==
          /\ M["asserts"] /\ M["types"] = BodySig(vs) /\ M["values"] = EncodeBody(vs, order)
          /\ Read(M, BodyReader(order)) = vs
          /\ copy["asserts"] /\ copy["block"] = M["values"]
          /\ dbus_marshal_byteswap(M["types"], order, BE + LE - order, M["values"]) = EncodeBody(vs, BE + LE - order)
        Written(M) ==
          Right(M, dbus_type_writer_write_reader([M EXCEPT !["asserts"] = TRUE],
                     dbus_type_writer_init_values_only(order, "types", 0, "block", 0), BodyReader(order)).M)
    IN  Written(FoldSteps(LAMBDA k, v : Write(k.M, k.w, v), [M |-> Memory(<<>>, <<>>), w |-> w0], vs).M)

(* Setting a basic value anywhere in a body, or deleting an element of an  *)
(* array, leaves the encoding of the body changed there and nowhere else:  *)
(* padding and the lengths of all arrays around the change are put right.  *)
EditedInPlace(vs, New(_)) ==
  \A order \in {LE, BE} : \A at \in Places(vs, FALSE) :
    LET Right(N, ins) == /\ N["values"] = EncodeBody(Edited(vs, at.path, ins), order)
                         /\ N["types"] = BodySig(vs) /\ N["asserts"]
        Edits(M, r) ==
          /\ ~dbus_type_is_container(at.t) =>
               \A new \in New(at.t) :
                 Right(dbus_type_reader_set_basic(M, r, new, BodyReader(order)), <<[t |-> at.t, v |-> new]>>)
          /\ at.element => Right(dbus_type_reader_delete(M, r, BodyReader(order)), <<>>)
        In(M) == Edits(M, ReaderAt(M, BodyReader(order), at.path))
    IN  In(Memory(BodySig(vs), EncodeBody(vs, order)))

(* The body check accepts every encoding, and what it accepts can be read: *)
(* the values a reader finds encode to the very bytes that were accepted.  *)
ValidatedBody(vs, Damaged(_)) ==
  \A order \in {LE, BE} :
    LET types == BodySig(vs)
        good == EncodeBody(vs, order)
    IN  /\ dbus_validate_body_with_reason(types, order, good, FALSE).v = "VALID"
        /\ \A s \in Damaged(good) :
             dbus_validate_body_with_reason(types, order, s, FALSE).v = "VALID"
               => EncodeBody(Read(Memory(types, s), BodyReader(order)), order) = s
=============================================================================
