------------------------------- MODULE Message -------------------------------
(***************************************************************************)
(* A message on its way, dbus-message.c: it is built by one process,       *)
(* locked and sent, loaded by the bus, which may look at its arguments and *)
(* stamps the sender on it, and sent on to a last process.  The first one  *)
(* may run on a machine of the other byte order.                           *)
(*                                                                         *)
(* m is [header, body, byte_order, locked], said is what the application   *)
(* (and the bus) asked for: the fields in the order they were first set,   *)
(* the arguments, the flags and the serial.  A value <<>> stands for NULL. *)
(***************************************************************************)
EXTENDS MessageHeader

CONSTANTS Kinds,          \* message types and field values to create messages with: [type, args]
          FieldValues,    \* the values a field may be set to, by field code
          Arguments,      \* the values that may be appended
          MaxEdits,       \* bound on the operations on one message
          MaxMessage,     \* loader->max_message_size
          UniqueName      \* the sender's name, put on by the bus

VARIABLES stage,     \* "built", "sent", "bus", "forwarded", "done" or "corrupted"
          native,    \* DBUS_COMPILER_BYTE_ORDER of the process that has the message
          m,
          wire,      \* the bytes between two processes
          said,
          failed,    \* no edit of the header was completed since one ran out of memory
          swapped,   \* the bus has swapped the message
          edits

vars == <<stage, native, m, wire, said, failed, swapped, edits>>

NO_REPLY_EXPECTED == 1
NO_AUTO_START == 2

-----------------------------------------------------------------------------
(***************************************************************************)
(* Creating messages; old is a message of the cache that is used again.    *)
(***************************************************************************)

dbus_message_new_empty_header(old, order) ==
  [header |-> dbus_header_reinit(order), body |-> <<>>, byte_order |-> order, locked |-> FALSE]

WithHeader(x, r) == [m |-> [x EXCEPT !.header = r.h], ok |-> r.ok]

set_or_delete_string_field(x, f, val, oom) ==
  WithHeader(x, IF val = <<>> THEN dbus_header_delete_field(x.header, f, oom)
                ELSE dbus_header_set_field_basic(x.header, f, val[1], oom))

dbus_message_set_sender(x, v, oom) == set_or_delete_string_field(x, SENDER, v, oom)

dbus_message_set_reply_serial(x, serial, oom) ==
  WithHeader(x, dbus_header_set_field_basic(x.header, REPLY_SERIAL, serial, oom))

dbus_message_set_no_reply(x, b) == [x EXCEPT !.header = dbus_header_toggle_flag(@, NO_REPLY_EXPECTED, b)]
dbus_message_set_auto_start(x, b) == [x EXCEPT !.header = dbus_header_toggle_flag(@, NO_AUTO_START, ~b)]

NewMessage(old, order, type, args) ==
  LET x == dbus_message_new_empty_header(old, order)
  IN  [x EXCEPT !.header = dbus_header_create(@, type, args, "no").h]

dbus_message_new(old, order, type) == NewMessage(old, order, type, <<>>)

dbus_message_new_method_call(old, order, args) == NewMessage(old, order, METHOD_CALL, args)

dbus_message_new_signal(old, order, args) ==
  dbus_message_set_no_reply(NewMessage(old, order, SIGNAL, args), TRUE)

(* A reply goes to the sender of the call and carries its serial.          *)
dbus_message_new_method_return(old, order, args, serial) ==
  dbus_message_set_reply_serial(
    dbus_message_set_no_reply(NewMessage(old, order, METHOD_RETURN, args), TRUE), serial, "no").m

dbus_message_new_error(old, order, args, serial) ==
  dbus_message_set_reply_serial(
    dbus_message_set_no_reply(NewMessage(old, order, ERROR, args), TRUE), serial, "no").m

-----------------------------------------------------------------------------
(***************************************************************************)
(* Looking at a message.                                                   *)
(***************************************************************************)
dbus_message_get_type(x) == dbus_header_get_message_type(x.header)
dbus_message_get_serial(x) == dbus_header_get_serial(x.header)
dbus_message_get_no_reply(x) == dbus_header_get_flag(x.header, NO_REPLY_EXPECTED)
dbus_message_get_auto_start(x) == ~dbus_header_get_flag(x.header, NO_AUTO_START)

dbus_message_get_path(x) == dbus_header_get_field_basic(x.header, PATH).value
dbus_message_get_interface(x) == dbus_header_get_field_basic(x.header, INTERFACE).value
dbus_message_get_member(x) == dbus_header_get_field_basic(x.header, MEMBER).value
dbus_message_get_error_name(x) == dbus_header_get_field_basic(x.header, ERROR_NAME).value
dbus_message_get_reply_serial(x) == dbus_header_get_field_basic(x.header, REPLY_SERIAL).value
dbus_message_get_destination(x) == dbus_header_get_field_basic(x.header, DESTINATION).value
dbus_message_get_sender(x) == dbus_header_get_field_basic(x.header, SENDER).value

(* The signature is read where the field is; without one it is empty.      *)
SignatureAt(x, cached) ==
  LET pos == cached.h.fields[SIGNATURE_FIELD]
  IN  IF cached.ok THEN SubSeq(x.header.data, pos + 2, pos + 1 + At(x.header.data, pos)) ELSE <<>>

get_const_signature(x) == SignatureAt(x, dbus_header_get_field_raw(x.header, SIGNATURE_FIELD))

dbus_message_get_signature(x) == get_const_signature(x)

dbus_message_has_type_interface_member(x, type, interface, member) ==
  /\ dbus_message_get_type(x) = type
  /\ dbus_message_get_member(x) = <<member>>
  /\ dbus_message_get_interface(x) \in {<<>>, <<interface>>}

dbus_message_is_method_call(x, i, n) == dbus_message_has_type_interface_member(x, METHOD_CALL, i, n)
dbus_message_is_signal(x, i, n) == dbus_message_has_type_interface_member(x, SIGNAL, i, n)
dbus_message_is_error(x, n) == dbus_message_get_type(x) = ERROR /\ dbus_message_get_error_name(x) = <<n>>
dbus_message_has_path(x, v) == dbus_message_get_path(x) = v
dbus_message_has_interface(x, v) == dbus_message_get_interface(x) = v
dbus_message_has_member(x, v) == dbus_message_get_member(x) = v
dbus_message_has_destination(x, n) == dbus_message_get_destination(x) = <<n>>
dbus_message_has_sender(x, n) == dbus_message_get_sender(x) = <<n>>
dbus_message_has_signature(x, s) == dbus_message_get_signature(x) = s

-----------------------------------------------------------------------------
(***************************************************************************)
(* Reading and appending arguments.  An iterator it has the message x, its *)
(* memory, a reader or a writer and the count of open signatures; while    *)
(* one is open the signature is edited outside the header.                 *)
(***************************************************************************)
dbus_message_byteswap(x, order) ==
  [x EXCEPT !.body = dbus_marshal_byteswap(get_const_signature(x), x.byte_order, order, @),
            !.byte_order = order, !.header = dbus_header_byteswap(@, order)]

ensure_byte_order(x, order) == IF x.byte_order # order THEN dbus_message_byteswap(x, order) ELSE x

ReaderOn(y) == [x |-> y, mem |-> Memory(get_const_signature(y), y.body),
                r |-> dbus_type_reader_init(y.byte_order, "types", 0, "values", 0)]

dbus_message_iter_init(x, order) == ReaderOn(ensure_byte_order(x, order))

dbus_message_iter_get_arg_type(it) == dbus_type_reader_get_current_type(it.mem, it.r)
dbus_message_iter_get_element_type(it) == dbus_type_reader_get_element_type(it.mem, it.r)
dbus_message_iter_next(it) == [it EXCEPT !.r = dbus_type_reader_next(it.mem, it.r)]
dbus_message_iter_recurse(it) == [it EXCEPT !.r = dbus_type_reader_recurse(it.mem, it.r)]
dbus_message_iter_get_basic(it) == dbus_type_reader_read_basic(it.mem, it.r)
dbus_message_iter_get_fixed_array(it) == dbus_type_reader_read_fixed_multi(it.mem, it.r)

RECURSIVE Strings(_)
Strings(it) == IF dbus_message_iter_get_arg_type(it) = INVALID THEN <<>>
               ELSE <<dbus_message_iter_get_basic(it)>> \o Strings(dbus_message_iter_next(it))

(* spec is a sequence of types, that of an array with its element type.    *)
(* The arguments read, or <<"error">> as soon as one is not as specified.  *)
RECURSIVE dbus_message_iter_get_args_valist(_, _, _)
dbus_message_iter_get_args_valist(it, spec, got) ==
  LET want == Head(spec)
      Arg(sub) == IF want.t # ARRAY THEN dbus_message_iter_get_basic(it)
                  ELSE IF dbus_type_is_fixed(want.elem) THEN dbus_message_iter_get_fixed_array(sub) ELSE Strings(sub)
      Rest(next) ==
        IF Tail(spec) # <<>> /\ dbus_message_iter_get_arg_type(next) = INVALID THEN <<"error">>
        ELSE dbus_message_iter_get_args_valist(next, Tail(spec), Append(got, Arg(dbus_message_iter_recurse(it))))
  IN  IF spec = <<>> THEN got
      ELSE IF dbus_message_iter_get_arg_type(it) # want.t THEN <<"error">>
      ELSE IF want.t = ARRAY /\ dbus_message_iter_get_element_type(it) # want.elem THEN <<"error">>
      ELSE Rest(dbus_message_iter_next(it))

dbus_message_get_args_valist(x, order, spec) ==
  dbus_message_iter_get_args_valist(dbus_message_iter_init(x, order), spec, <<>>)

WriterOn(y) == [x |-> y, mem |-> Memory(<<>>, y.body), rc |-> 0,
                w |-> dbus_type_writer_init_types_delayed(y.byte_order, "values", Len(y.body))]

dbus_message_iter_init_append(x, order) == WriterOn(ensure_byte_order(x, order))

WithTypes(it, sig) == [it EXCEPT !.rc = 1, !.mem["types"] = sig, !.w = dbus_type_writer_add_types(@, "types", Len(sig))]

dbus_message_iter_open_signature(it) ==
  IF it.w.type_str # Null THEN [it EXCEPT !.rc = @ + 1] ELSE WithTypes(it, get_const_signature(it.x))

dbus_message_iter_close_signature(it) ==
  IF it.rc > 1 THEN [it EXCEPT !.rc = @ - 1]
  ELSE [it EXCEPT !.rc = 0, !.w = dbus_type_writer_remove_types(@),
          !.x.header = dbus_header_set_field_basic(@, SIGNATURE_FIELD, it.mem["types"], "no").h]

Put(it, k) == [it EXCEPT !.mem = k.M, !.w = k.w]

append_basic(o, type, val) ==
  dbus_message_iter_close_signature(Put(o, dbus_type_writer_write_basic(o.mem, o.w, type, val)))

dbus_message_iter_append_basic(it, type, val) == append_basic(dbus_message_iter_open_signature(it), type, val)

dbus_message_iter_append_fixed_array(it, elem, vals) ==
  Put(it, dbus_type_writer_write_fixed_multi(it.mem, it.w, elem, vals))

(* The iterator and the one for the contents.                              *)
Opened(o, rec) == [it |-> Put(o, rec), sub |-> [o EXCEPT !.mem = rec.M, !.w = rec.sub]]

open_container(o, type, contained) == Opened(o, dbus_type_writer_recurse(o.mem, o.w, type, contained))

dbus_message_iter_open_container(it, type, contained) ==
  open_container(dbus_message_iter_open_signature(it), type, contained)

dbus_message_iter_close_container(it, sub) ==
  dbus_message_iter_close_signature(Put(it, dbus_type_writer_unrecurse(sub.mem, it.w, sub.w)))

(* What append_args does for a basic value or an array of them, and an     *)
(* application for any other container.                                    *)
RECURSIVE AppendArg(_, _)

AppendContents(v, open) ==
  dbus_message_iter_close_container(open.it,
    CASE v.t = VARIANT -> AppendArg(open.sub, v.v)
      [] v.t = ARRAY /\ dbus_type_is_fixed(v.elem[1]) ->
           dbus_message_iter_append_fixed_array(open.sub, v.elem[1], [i \in DOMAIN v.v |-> v.v[i].v])
      [] OTHER -> FoldSteps(AppendArg, open.sub, v.v))

AppendArg(it, v) ==
  LET contained == CASE v.t = VARIANT -> Sig(v.v) [] v.t = ARRAY -> v.elem [] OTHER -> <<>>
  IN  IF dbus_type_is_container(v.t) THEN AppendContents(v, dbus_message_iter_open_container(it, v.t, contained))
      ELSE dbus_message_iter_append_basic(it, v.t, v.v)

Appended(it) == [it.x EXCEPT !.body = it.mem["values"]]

dbus_message_append_args_valist(x, order, args) ==
  Appended(FoldSteps(AppendArg, dbus_message_iter_init_append(x, order), args))

-----------------------------------------------------------------------------
(***************************************************************************)
(* Sending and loading.                                                    *)
(***************************************************************************)
dbus_message_set_serial(x, serial) == [x EXCEPT !.header = dbus_header_set_serial(@, serial)]

dbus_message_lock(x) ==
  IF x.locked THEN x
  ELSE [x EXCEPT !.locked = TRUE, !.header = dbus_header_update_lengths(@, Len(x.body))]

dbus_message_get_network_data(x) == x.header.data \o x.body

dbus_message_copy(x) == [x EXCEPT !.locked = FALSE, !.header = dbus_header_copy(@)]

LoadedBody(y, have, v) ==
  [m |-> y, v |-> IF v # "VALID" THEN v
                  ELSE dbus_validate_body_with_reason(get_const_signature(y), have.byte_order, y.body, FALSE).v]

LoadedHeader(x, s, have, loaded) ==
  LoadedBody([x EXCEPT !.header = loaded.h, !.byte_order = have.byte_order,
                       !.body = SubSeq(s, have.header_len + 1, have.header_len + have.body_len)], have, loaded.v)

load_message(x, s, have) == LoadedHeader(x, s, have, dbus_header_load(s, have))

loader_queue_message(have, s, old, order) ==
  IF have.have THEN load_message(dbus_message_new_empty_header(old, order), s, have)
  ELSE [m |-> old, v |-> IF have.v = "VALID" THEN "INCOMPLETE" ELSE have.v]

dbus_message_loader_queue_messages(s, old, order) ==
  loader_queue_message(dbus_header_have_message_untrusted(MaxMessage, s), s, old, order)

-----------------------------------------------------------------------------
(***************************************************************************)
(* The way of a message.                                                   *)
(***************************************************************************)
Create(old, kind) ==
  LET args == [f \in DOMAIN kind.args \ {REPLY_SERIAL} |-> kind.args[f]] IN
  CASE kind.type = METHOD_CALL -> dbus_message_new_method_call(old, native, args)
    [] kind.type = SIGNAL -> dbus_message_new_signal(old, native, args)
    [] kind.type = METHOD_RETURN -> dbus_message_new_method_return(old, native, args, kind.args[REPLY_SERIAL])
    [] kind.type = ERROR -> dbus_message_new_error(old, native, args, kind.args[REPLY_SERIAL])
    [] OTHER -> dbus_message_new(old, native, kind.type)

Asked(kind) ==
  LET order == SelectSeq(<<PATH, DESTINATION, INTERFACE, MEMBER, ERROR_NAME, REPLY_SERIAL>>,
                         LAMBDA f : f \in DOMAIN kind.args)
  IN  [type |-> kind.type, fields |-> [i \in DOMAIN order |-> [f |-> order[i], v |-> kind.args[order[i]]]],
       args |-> <<>>, serial |-> 0, body_len |-> 0,
       flags |-> IF kind.type \in {SIGNAL, METHOD_RETURN, ERROR} THEN {NO_REPLY_EXPECTED} ELSE {}]

(* The message the first one replaces in the cache: its header was read    *)
(* through, it had a body and it was sent.                                 *)
Used(order) ==
  LET x == NewMessage([header |-> dbus_header_reinit(order)], order, SIGNAL, <<>>)
  IN  [x EXCEPT !.header = dbus_header_cache_revalidate(@), !.body = <<1>>, !.locked = TRUE]

Init ==
  /\ stage = "built" /\ native \in {LE, BE}
  /\ \E kind \in Kinds : m = Create(Used(native), kind) /\ said = Asked(kind)
  /\ wire = <<>> /\ failed = FALSE /\ swapped = FALSE /\ edits = 0

SetField(f, v, oom) ==
  IF f = REPLY_SERIAL THEN dbus_message_set_reply_serial(m, v[1], oom) ELSE set_or_delete_string_field(m, f, v, oom)

(* The field list with f set to v in its place, appended or removed.       *)
WithField(fields, f, v) ==
  LET Others == SelectSeq(fields, LAMBDA x : x.f # f)
      has == \E i \in DOMAIN fields : fields[i].f = f
  IN  IF v = <<>> THEN Others
      ELSE IF has THEN [i \in DOMAIN fields |-> IF fields[i].f = f THEN [f |-> f, v |-> v[1]] ELSE fields[i]]
      ELSE Append(fields, [f |-> f, v |-> v[1]])

Apply(f, v, r) ==
  LET nothing == v = <<>> /\ \A i \in DOMAIN said.fields : said.fields[i].f # f
  IN  /\ m' = r.m
      /\ failed' = (~r.ok \/ (failed /\ nothing))
      /\ said' = IF r.ok THEN [said EXCEPT !.fields = WithField(@, f, v)] ELSE said

EditField ==
  /\ stage = "built" /\ edits < MaxEdits
  /\ \E f \in DOMAIN FieldValues, oom \in {"no", "reserve", "edit"} :
       \E v \in {<<x>> : x \in FieldValues[f]} \cup (IF f = REPLY_SERIAL THEN {} ELSE {<<>>}) : Apply(f, v, SetField(f, v, oom))
  /\ edits' = edits + 1
  /\ UNCHANGED <<stage, native, wire, swapped>>

EditFlags ==
  /\ stage = "built" /\ edits < MaxEdits
  /\ \E b \in BOOLEAN :
       \/ /\ m' = dbus_message_set_no_reply(m, b)
          /\ said' = [said EXCEPT !.flags = IF b THEN @ \cup {NO_REPLY_EXPECTED} ELSE @ \ {NO_REPLY_EXPECTED}]
       \/ /\ m' = dbus_message_set_auto_start(m, b)
          /\ said' = [said EXCEPT !.flags = IF b THEN @ \ {NO_AUTO_START} ELSE @ \cup {NO_AUTO_START}]
  /\ edits' = edits + 1
  /\ UNCHANGED <<stage, native, wire, failed, swapped>>

AppendArguments ==
  /\ stage = "built" /\ edits < MaxEdits
  /\ \E arg \in Arguments :
       /\ m' = dbus_message_append_args_valist(m, native, <<arg>>)
       /\ said' = [said EXCEPT !.args = Append(@, arg),
                     !.fields = WithField(@, SIGNATURE_FIELD, <<BodySig(Append(said.args, arg))>>)]
  /\ failed' = FALSE
  /\ edits' = edits + 1
  /\ UNCHANGED <<stage, native, wire, swapped>>

(* Any look at a field fills the cache of the header.                      *)
Look ==
  /\ stage \in {"built", "bus"}
  /\ m' = [m EXCEPT !.header = dbus_header_get_field_basic(@, MEMBER).h]
  /\ UNCHANGED <<stage, native, wire, said, failed, swapped, edits>>

(* The message is dropped into the cache and a new one made from it.       *)
Reuse ==
  /\ stage = "built" /\ edits \in 1 .. MaxEdits - 1
  /\ \E kind \in Kinds : m' = Create(m, kind) /\ said' = Asked(kind)
  /\ failed' = FALSE /\ edits' = MaxEdits
  /\ UNCHANGED <<stage, native, wire, swapped>>

Send ==
  /\ stage = "built" /\ ~failed
  /\ m' = dbus_message_lock(dbus_message_set_serial(m, 1))
  /\ said' = [said EXCEPT !.serial = 1, !.body_len = Len(m.body)]
  /\ wire' = dbus_message_get_network_data(m')
  /\ stage' = "sent"
  /\ UNCHANGED <<native, failed, swapped, edits>>

Load ==
  /\ stage \in {"sent", "forwarded"}
  /\ native' = LE
  /\ \E got \in {dbus_message_loader_queue_messages(wire, Used(LE), LE)} :
         /\ m' = got.m
         /\ stage' = IF got.v # "VALID" THEN "corrupted" ELSE IF stage = "sent" THEN "bus" ELSE "done"
  /\ UNCHANGED <<wire, said, failed, swapped, edits>>

(* The bus looks at the arguments, say for an argument match.              *)
Inspect ==
  /\ stage = "bus"
  /\ m' = dbus_message_iter_init(m, native).x
  /\ swapped' = (swapped \/ m.byte_order # native)
  /\ UNCHANGED <<stage, native, wire, said, failed, edits>>

Stamp ==
  /\ stage = "bus"
  /\ \E oom \in {"no", "edit"} : Apply(SENDER, <<UniqueName>>, dbus_message_set_sender(m, <<UniqueName>>, oom))
  /\ UNCHANGED <<stage, native, wire, swapped, edits>>

Forward ==
  /\ stage = "bus" /\ ~failed
  /\ \E i \in DOMAIN said.fields : said.fields[i] = [f |-> SENDER, v |-> UniqueName]
  /\ m' = dbus_message_lock(m)
  /\ wire' = dbus_message_get_network_data(m')
  /\ stage' = "forwarded"
  /\ UNCHANGED <<native, said, failed, swapped, edits>>

CopyAtEnd ==
  /\ stage = "done"
  /\ m' = dbus_message_copy(m)
  /\ said' = [said EXCEPT !.serial = 0]
  /\ stage' = "built" /\ edits' = MaxEdits
  /\ UNCHANGED <<native, wire, failed, swapped>>

Next == \/ EditField \/ EditFlags \/ AppendArguments \/ Look \/ Reuse \/ Send \/ Load
        \/ Inspect \/ Stamp \/ Forward \/ CopyAtEnd

Spec == Init /\ [][Next]_vars

-----------------------------------------------------------------------------
(* The header as a body of its own signature.                              *)
SaidHeader ==
  LET Field(x) == [t |-> STRUCT, v |-> <<[t |-> BYTE, v |-> <<x.f>>],
                                         [t |-> VARIANT, v |-> [t |-> EXPECTED_TYPE_OF_FIELD(x.f), v |-> x.v]]>>]
      Byte(n) == [t |-> BYTE, v |-> <<n>>]
      U32(n) == [t |-> UINT32, v |-> Word(n, 4)]
  IN  <<Byte(m.byte_order), Byte(said.type), Byte(SumSet(said.flags)), Byte(MAJOR_PROTOCOL_VERSION),
        U32(said.body_len), U32(said.serial),
        [t |-> ARRAY, elem |-> FieldSignature, v |-> [i \in DOMAIN said.fields |-> Field(said.fields[i])]]>>

SaidField(f) == LET S == SelectSeq(said.fields, LAMBDA x : x.f = f) IN IF S = <<>> THEN <<>> ELSE <<S[1].v>>

Plain(v) == ~dbus_type_is_container(v.t) \/ (v.t = ARRAY /\ dbus_type_is_basic(v.elem[1]))

(* After any sequence of edits, failed ones included, of looks, sends,     *)
(* loads and swaps, the header is the encoding of what was asked for (its  *)
(* endianness flag aside), every getter returns what was last set whether  *)
(* or not the cache of field positions was filled, and the header is       *)
(* padded to 8 bytes unless an edit ran out of memory and none was         *)
(* completed since.                                                        *)
MessageExact ==
  stage # "corrupted" =>
    LET h == m.header
        whole == EncodeBody(SaidHeader, m.byte_order)
    IN  /\ Tail(h.data) = Tail(whole \o Zeros(h.padding))
        /\ IF failed THEN h.padding = 7 \/ Len(h.data) % 8 = 0 ELSE h.padding < 8 /\ Len(h.data) % 8 = 0
        /\ m.body = EncodeBody(said.args, m.byte_order)
        /\ dbus_message_has_path(m, SaidField(PATH))
        /\ dbus_message_has_interface(m, SaidField(INTERFACE))
        /\ dbus_message_has_member(m, SaidField(MEMBER))
        /\ dbus_message_get_error_name(m) = SaidField(ERROR_NAME)
        /\ \A n \in ToSet(SaidField(ERROR_NAME)) : dbus_message_is_error(m, n) <=> said.type = ERROR
        /\ \A n \in ToSet(SaidField(MEMBER)), i \in ToSet(SaidField(INTERFACE)) \cup {UniqueName} :
             dbus_message_is_method_call(m, i, n) \/ dbus_message_is_signal(m, i, n)
               <=> said.type \in {METHOD_CALL, SIGNAL} /\ SaidField(INTERFACE) \in {<<>>, <<i>>}
        /\ dbus_message_get_reply_serial(m) = SaidField(REPLY_SERIAL)
        /\ dbus_message_get_destination(m) = SaidField(DESTINATION)
        /\ dbus_message_has_destination(m, UniqueName) <=> SaidField(DESTINATION) = <<UniqueName>>
        /\ dbus_message_has_sender(m, UniqueName) <=> SaidField(SENDER) = <<UniqueName>>
        /\ dbus_message_has_signature(m, BodySig(said.args))
        /\ dbus_message_get_serial(m) = said.serial
        /\ dbus_message_get_no_reply(m) <=> NO_REPLY_EXPECTED \in said.flags
        /\ dbus_message_get_auto_start(m) <=> NO_AUTO_START \notin said.flags

(* A message with its mandatory fields that the bus did not swap arrives   *)
(* at the last process, which reads the same arguments from it: neither    *)
(* loader finds it corrupted.                                              *)
Delivered ==
  /\ stage = "corrupted" =>
       swapped \/ \E f \in REQUIRE_FIELDS(said.type) : SaidField(f) = <<>>
  /\ stage = "done" /\ ~swapped /\ (\A i \in DOMAIN said.args : Plain(said.args[i])) =>
       LET a == said.args
           Spec1(v) == IF v.t = ARRAY THEN [t |-> ARRAY, elem |-> v.elem[1]] ELSE [t |-> v.t]
           Value(v) == IF v.t = ARRAY THEN [i \in DOMAIN v.v |-> v.v[i].v] ELSE v.v
       IN  dbus_message_get_args_valist(m, native, [i \in DOMAIN a |-> Spec1(a[i])]) = [i \in DOMAIN a |-> Value(a[i])]

(* The endianness flag of a header tells the byte order it is in.          *)
EndiannessFlagTrue == stage # "corrupted" => Head(m.header.data) = m.byte_order
=============================================================================
