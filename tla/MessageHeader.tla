---------------------------- MODULE MessageHeader ----------------------------
(***************************************************************************)
(* The header of a message, dbus-marshal-header.c: marshalled bytes edited *)
(* in place, with a cache of where the value of each known field starts.   *)
(*                                                                         *)
(* A header h is [data, padding, byte_order, fields], as DBusHeader.  An   *)
(* operation that allocates takes oom, the place where memory runs out:    *)
(* "no", "reserve" (the padding cannot be reserved) or "edit" (the edit    *)
(* itself fails and is rolled back); it returns the header and its result. *)
(***************************************************************************)
EXTENDS Marshalling

CONSTANTS LocalInterface,    \* the bytes of DBUS_INTERFACE_LOCAL
          LocalPath          \* the bytes of DBUS_PATH_LOCAL

FieldCodes == 1 .. 8
PATH == 1
INTERFACE == 2
MEMBER == 3
ERROR_NAME == 4
REPLY_SERIAL == 5
DESTINATION == 6
SENDER == 7
SIGNATURE_FIELD == 8

EXPECTED_TYPE_OF_FIELD(f) ==
  CASE f = PATH -> OBJECT_PATH [] f = REPLY_SERIAL -> UINT32 [] f = SIGNATURE_FIELD -> SIGNATURE [] OTHER -> STRING_

METHOD_CALL == 1
METHOD_RETURN == 2
ERROR == 3
SIGNAL == 4

(* dbus_header_signature: yyyyuua(yv), the fields array starts at 6.       *)
HeaderSignature == <<BYTE, BYTE, BYTE, BYTE, UINT32, UINT32, ARRAY, STRUCT_BEGIN, BYTE, VARIANT, STRUCT_END>>
FieldsArraySignature == 6
FieldSignature == <<STRUCT_BEGIN, BYTE, VARIANT, STRUCT_END>>

TYPE_OFFSET == 1
FLAGS_OFFSET == 2
VERSION_OFFSET == 3
BODY_LENGTH_OFFSET == 4
SERIAL_OFFSET == 8
FIELDS_ARRAY_LENGTH_OFFSET == 12
FIRST_FIELD_OFFSET == 16
MAX_POSSIBLE_HEADER_PADDING == 7
MAJOR_PROTOCOL_VERSION == 1
UNKNOWN == -1
NONEXISTENT == -2

Bytes(h) == Memory(HeaderSignature, h.data)
FieldsReader(h) ==
  dbus_type_reader_init(h.byte_order, "types", FieldsArraySignature, "values", FIELDS_ARRAY_LENGTH_OFFSET)
Result(h, ok) == [h |-> h, ok |-> ok]

reserve_header_padding(h) ==
  [h EXCEPT !.data = @ \o Zeros(MAX_POSSIBLE_HEADER_PADDING - h.padding), !.padding = MAX_POSSIBLE_HEADER_PADDING]

correct_header_padding(h) ==
  LET unpadded == Len(h.data) - h.padding
      padding == ALIGN(unpadded, 8) - unpadded
  IN  [h EXCEPT !.data = SubSeq(@, 1, unpadded) \o Zeros(padding), !.padding = padding]

HEADER_END_BEFORE_PADDING(h) == Len(h.data) - h.padding

(* A mutant: the cached positions survive an edit that moves the fields.   *)
CacheKept(h) == h

dbus_header_cache_invalidate_all(h) == [h EXCEPT !.fields = [f \in FieldCodes |-> UNKNOWN]]

(* The fields of the array as its readers find them, the code and the      *)
(* reader of the variant; a later field with the same code would win.      *)
RECURSIVE FieldReaders(_, _)
FieldReaders(M, r) ==
  LET Field(sub) ==
        [code |-> dbus_type_reader_read_basic(M, sub)[1], element |-> r,
         variant |-> dbus_type_reader_recurse(M, dbus_type_reader_next(M, sub))]
  IN  IF dbus_type_reader_get_current_type(M, r) = INVALID THEN <<>>
      ELSE <<Field(dbus_type_reader_recurse(M, r))>> \o FieldReaders(M, dbus_type_reader_next(M, r))

HeaderFields(h) == FieldReaders(Bytes(h), dbus_type_reader_recurse(Bytes(h), FieldsReader(h)))

dbus_header_cache_one(h, f, variant) == [h EXCEPT !.fields[f] = variant.value_pos]

dbus_header_cache_revalidate(h) ==
  FoldLeft(LAMBDA g, x : IF x.code \notin FieldCodes THEN g ELSE dbus_header_cache_one(g, x.code, x.variant),
           [h EXCEPT !.fields = [f \in FieldCodes |-> NONEXISTENT]], HeaderFields(h))

dbus_header_cache_check(h, f) ==
  LET Known(g) == Result(g, g.fields[f] # NONEXISTENT)
  IN  Known(IF h.fields[f] = UNKNOWN THEN dbus_header_cache_revalidate(h) ELSE h)

dbus_header_cache_known_nonexistent(h, f) == h.fields[f] = NONEXISTENT

-----------------------------------------------------------------------------
Unrecursed(outer, k) == dbus_type_writer_unrecurse(k.M, outer, k.w)

(* A field, from the inside out: the value in its variant in the struct.   *)
write_field_value(variant, type, val) ==
  Unrecursed(variant.w, dbus_type_writer_write_basic(variant.M, variant.sub, type, val))

write_field_variant(k, type, val) ==
  write_field_value(dbus_type_writer_recurse(k.M, k.w, VARIANT, <<type>>), type, val)

write_field_struct(struct, f, type, val) ==
  Unrecursed(struct.w, write_field_variant(dbus_type_writer_write_basic(struct.M, struct.sub, BYTE, <<f>>), type, val))

write_basic_field(M, w, f, type, val) ==
  write_field_struct(dbus_type_writer_recurse(M, w, STRUCT, <<>>), f, type, val)

dbus_header_get_message_type(h) == At(h.data, TYPE_OFFSET)
dbus_header_get_serial(h) == dbus_marshal_read_uint32(h.data, SERIAL_OFFSET, h.byte_order)

dbus_header_set_serial(h, serial) ==
  [h EXCEPT !.data = dbus_marshal_set_uint32(Bytes(h), "values", SERIAL_OFFSET, serial, h.byte_order)["values"]]

dbus_header_reinit(order) ==
  [data |-> <<>>, padding |-> 0, byte_order |-> order, fields |-> [f \in FieldCodes |-> UNKNOWN]]

dbus_header_copy(h) == dbus_header_set_serial(h, 0)

(* args gives the values of the fields passed, in the order of the code.   *)
FixedPart(order, message_type) ==
  <<[t |-> BYTE, v |-> <<order>>], [t |-> BYTE, v |-> <<message_type>>], [t |-> BYTE, v |-> <<0>>],
    [t |-> BYTE, v |-> <<MAJOR_PROTOCOL_VERSION>>], [t |-> UINT32, v |-> Word(0, 4)], [t |-> UINT32, v |-> Word(0, 4)]>>

write_fixed_part(g, message_type) ==
  FoldSteps(LAMBDA k, x : dbus_type_writer_write_basic(k.M, k.w, x.t, x.v),
           [M |-> Bytes(g), w |-> dbus_type_writer_init_values_only(g.byte_order, "types", 0, "values",
                                    HEADER_END_BEFORE_PADDING(g))], FixedPart(g.byte_order, message_type))

write_fields(array, args) ==
  Unrecursed(array.w,
    FoldSteps(LAMBDA k, f : write_basic_field(k.M, k.w, f, EXPECTED_TYPE_OF_FIELD(f), args[f]),
             [M |-> array.M, w |-> array.sub],
             SelectSeq(<<PATH, DESTINATION, INTERFACE, MEMBER, ERROR_NAME>>, LAMBDA f : f \in DOMAIN args)))

write_fields_array(k, args) ==
  write_fields(dbus_type_writer_recurse(k.M, k.w, ARRAY, <<ARRAY>> \o FieldSignature), args).M["values"]

Written(g, message_type, args) == [g EXCEPT !.data = write_fields_array(write_fixed_part(g, message_type), args)]

dbus_header_create(h, message_type, args, oom) ==
  LET g == reserve_header_padding(h)
  IN  CASE oom = "reserve" -> Result(h, FALSE)
        [] oom = "edit" -> Result(correct_header_padding(g), FALSE)
        [] OTHER -> Result(correct_header_padding(Written(g, message_type, args)), TRUE)

(* The first field with the code, in the order of the array; the element   *)
(* reader and the root the edit realigns from.                             *)
find_field_for_modification(h, f) == SelectSeq(HeaderFields(h), LAMBDA x : x.code = f)

set_basic_field(h, x, val) ==
  dbus_type_reader_set_basic(Bytes(h), x.variant, val, FieldsReader(h))["values"]

append_field(array, f, val) ==
  Unrecursed(array.w, write_basic_field(array.M, array.sub, f, EXPECTED_TYPE_OF_FIELD(f), val)).M["values"]

append_to_fields(g, f, val) ==
  append_field(dbus_type_writer_append_array(Bytes(g),
                 dbus_type_writer_init_values_only(g.byte_order, "types", FieldsArraySignature, "values",
                                                   FIELDS_ARRAY_LENGTH_OFFSET), FieldSignature), f, val)

set_or_append_field(g, exists, f, val) ==
  [g EXCEPT !.data = IF exists THEN set_basic_field(g, Head(find_field_for_modification(g, f)), val)
                     ELSE append_to_fields(g, f, val)]

set_cached_field(cached, f, val, oom) ==
  IF oom = "edit" THEN Result(cached.h, FALSE)
  ELSE Result(dbus_header_cache_invalidate_all(correct_header_padding(
                set_or_append_field(cached.h, cached.ok, f, val))), TRUE)

dbus_header_set_field_basic(h, f, val, oom) ==
  IF oom = "reserve" THEN Result(h, FALSE)
  ELSE set_cached_field(dbus_header_cache_check(reserve_header_padding(h), f), f, val, oom)

dbus_header_get_field_raw(h, f) == dbus_header_cache_check(h, f)

(* <<>> stands for a field that is not there.                              *)
dbus_header_get_field_basic(h, f) ==
  LET Cached(cached) ==
        [h |-> cached.h,
         value |-> IF ~cached.ok THEN <<>>
                   ELSE <<dbus_marshal_read_basic(h.data, cached.h.fields[f], EXPECTED_TYPE_OF_FIELD(f), h.byte_order)>>]
  IN  Cached(dbus_header_cache_check(h, f))

delete_element(g, x, f, oom) ==
  IF oom = "edit" THEN Result(g, FALSE)
  ELSE Result(dbus_header_cache_check(dbus_header_cache_invalidate_all(correct_header_padding(
         [g EXCEPT !.data = dbus_type_reader_delete(Bytes(g), x.element, FieldsReader(g))["values"]])), f).h, TRUE)

delete_found_field(h, f, found, oom) ==
  CASE found = <<>> -> Result(h, TRUE)
    [] found # <<>> /\ oom = "reserve" -> Result(h, FALSE)
    [] OTHER -> delete_element(reserve_header_padding(h), Head(found), f, oom)

dbus_header_delete_field(h, f, oom) ==
  IF dbus_header_cache_known_nonexistent(h, f) THEN Result(h, TRUE)
  ELSE delete_found_field(h, f, find_field_for_modification(h, f), oom)

dbus_header_update_lengths(h, body_len) ==
  [h EXCEPT !.data = dbus_marshal_set_uint32(Bytes(h), "values", BODY_LENGTH_OFFSET, body_len, h.byte_order)["values"]]

dbus_header_get_flag(h, flag) == (At(h.data, FLAGS_OFFSET) \div flag) % 2 = 1

dbus_header_toggle_flag(h, flag, value) ==
  [h EXCEPT !.data[FLAGS_OFFSET + 1] = @ + (IF value = dbus_header_get_flag(h, flag) THEN 0
                                            ELSE IF value THEN flag ELSE -flag)]

(* The words are swapped; the endianness flag, a byte, is not.             *)
dbus_header_byteswap(h, new) ==
  [h EXCEPT !.data = dbus_marshal_byteswap(HeaderSignature, h.byte_order, new, @), !.byte_order = new]

-----------------------------------------------------------------------------
(***************************************************************************)
(* Receiving a header.  have_message looks at the first 16 bytes; load     *)
(* checks the fields one by one, filling the cache as it goes.             *)
(***************************************************************************)
dbus_header_have_message_untrusted(max_length, s) ==
  LET order == At(s, 0)
      fields_len == dbus_marshal_read_uint32(s, FIELDS_ARRAY_LENGTH_OFFSET, order)
      body_len == dbus_marshal_read_uint32(s, BODY_LENGTH_OFFSET, order)
      header_len == ALIGN(FIRST_FIELD_OFFSET + fields_len, 8)
      v == IF order \notin {LE, BE} THEN "BAD_BYTE_ORDER"
           ELSE IF fields_len > max_length THEN "INSANE_FIELDS_ARRAY_LENGTH"
           ELSE IF body_len > max_length THEN "INSANE_BODY_LENGTH"
           ELSE IF body_len + header_len > max_length THEN "MESSAGE_TOO_LONG" ELSE "VALID"
  IN  [v |-> v, byte_order |-> order, fields_len |-> fields_len, header_len |-> header_len, body_len |-> body_len,
       have |-> v = "VALID" /\ body_len + header_len <= Len(s)]

REQUIRE_FIELDS(type) ==
  CASE type = SIGNAL -> {INTERFACE, PATH, MEMBER} [] type = METHOD_CALL -> {PATH, MEMBER}
    [] type = ERROR -> {ERROR_NAME, REPLY_SERIAL} [] type = METHOD_RETURN -> {REPLY_SERIAL} [] OTHER -> {}

check_mandatory_fields(h) ==
  IF \A f \in REQUIRE_FIELDS(dbus_header_get_message_type(h)) : h.fields[f] >= 0 THEN "VALID" ELSE "MISSING_FIELD"

(* The local interface and path are compared as prefixes.                  *)
StartsWith(s, pos, prefix) == SubSeq(s, pos + 1, pos + Len(prefix)) = prefix

FieldReason(h, f, val) ==
  LET text == ALIGN(h.fields[f], 4) + 4 IN
  CASE f = INTERFACE /\ StartsWith(h.data, text, LocalInterface) -> "USES_LOCAL_INTERFACE"
    [] f = PATH /\ StartsWith(h.data, text, LocalPath) -> "USES_LOCAL_PATH"
    [] f = REPLY_SERIAL /\ val = Word(0, 4) -> "BAD_SERIAL"
    [] f \in {DESTINATION, SENDER} /\ ~dbus_validate_bus_name(val) -> "BAD_NAME"
    [] f = INTERFACE /\ ~StartsWith(h.data, text, LocalInterface) /\ ~dbus_validate_interface(val) -> "BAD_INTERFACE"
    [] f = MEMBER /\ ~dbus_validate_member(val) -> "BAD_MEMBER"
    [] f = ERROR_NAME /\ ~dbus_validate_error_name(val) -> "BAD_ERROR_NAME"
    [] OTHER -> "VALID"

load_and_validate_field(h, f, variant) ==
  LET g == dbus_header_cache_one(h, f, variant) IN
  IF dbus_type_reader_get_current_type(Bytes(h), variant) # EXPECTED_TYPE_OF_FIELD(f)
  THEN [h |-> h, v |-> "HEADER_FIELD_HAS_WRONG_TYPE"]
  ELSE IF h.fields[f] >= 0 THEN [h |-> h, v |-> "HEADER_FIELD_APPEARS_TWICE"]
  ELSE [h |-> g, v |-> FieldReason(g, f, dbus_type_reader_read_basic(Bytes(h), variant))]

LoadFields(h) ==
  FoldSteps(LAMBDA k, x : IF k.v # "VALID" \/ x.code > Cardinality(FieldCodes) THEN k
                         ELSE IF x.code \notin FieldCodes THEN [k EXCEPT !.v = "HEADER_FIELD_CODE"]
                         ELSE load_and_validate_field(k.h, x.code, x.variant),
           [h |-> h, v |-> "VALID"], HeaderFields(h))

(* s is what the loader has of the message, have what the first look at it *)
(* said; the header is new.                                                *)
HeaderRefusal(s, have, h, v) ==
  IF v # "VALID" THEN v
  ELSE IF NotNul(s, FIRST_FIELD_OFFSET + have.fields_len, have.header_len) THEN "ALIGNMENT_PADDING_NOT_NUL"
  ELSE IF dbus_header_get_message_type(h) = 0 THEN "BAD_MESSAGE_TYPE"
  ELSE IF At(s, VERSION_OFFSET) # MAJOR_PROTOCOL_VERSION THEN "BAD_PROTOCOL_VERSION"
  ELSE IF dbus_header_get_serial(h) = 0 THEN "BAD_SERIAL" ELSE "VALID"

(* The fields that were not met do not exist.                              *)
LoadedFields(loaded) ==
  LET known == [loaded.h EXCEPT !.fields = [f \in FieldCodes |-> IF @[f] = UNKNOWN THEN NONEXISTENT ELSE @[f]]]
  IN  [h |-> known, v |-> IF loaded.v # "VALID" THEN loaded.v ELSE check_mandatory_fields(known)]

CheckedHeader(h, v) == IF v # "VALID" THEN [h |-> h, v |-> v] ELSE LoadedFields(LoadFields(h))

dbus_header_load(s, have) ==
  LET new == dbus_header_reinit(have.byte_order)
      h == [new EXCEPT !.data = SubSeq(s, 1, have.header_len),
                       !.padding = have.header_len - (FIRST_FIELD_OFFSET + have.fields_len)]
      Loaded(l) == IF l.v = "VALID" THEN l ELSE [l EXCEPT !.h.data = <<>>]
  IN  Loaded(CheckedHeader(h, HeaderRefusal(s, have, h,
        dbus_validate_body_with_reason(HeaderSignature, have.byte_order, s, TRUE).v)))
=============================================================================
